----------------------- MODULE TapeProcessingProofs -----------------------
(***************************************************************************)
(* Proofs about TapeProcessing for every list of processors, all settings, *)
(* any number of tapes and of threads of BatchProcessing.                  *)
(***************************************************************************)
EXTENDS TapeProcessing, WellFoundedInduction, TLAPS

(* The inductive invariant                                                 *)

HomeOf(w) == IF w \in BatchThreads THEN "BatchProcessing" ELSE w

\* The identifiers a tape may have.
Ids(t) == {Captured(t), Configured, <<"configured", t>>, <<"captured, uid", t>>}
Extensions == {"wav", "mcf", "tmp", "wav.tmp", "gsm.wav", "path of gsm.wav"}
FileNames(t) == [id : Ids(t), ext : Extensions]

Steps == {"pop", "rename", "rewrite", "copy", "open", "read", "done", "catch", "name", "pass",
          "run", "check"}

PlacesType ==
  /\ m_audioTapeQueue \in [Processors -> Seq(Tapes)]
  /\ pc \in [Workers -> Steps]
  /\ tape \in [Workers -> Tapes \cup {NULL}]
  /\ fate \in [Tapes -> {"in", "end", "reported", "refused", "failed"}]
  /\ reportedAs = [t \in Tapes |-> reportedAs[t]]

FilesType ==
  /\ outOpen \in [BatchThreads -> BOOLEAN]
  /\ numSamplesOut \in [BatchThreads -> BOOLEAN]
  /\ m_fileIdentifier \in [Tapes -> UNION {Ids(t) : t \in Tapes}]
  /\ m_fileExtension \in [Tapes -> Extensions \ {"wav.tmp", "gsm.wav"}]
  /\ m_filename \in [Tapes -> UNION {FileNames(t) : t \in Tapes}]
  /\ unflushed \subseteq Tapes /\ misnamed \subseteq Tapes

\* The steps of each thread.
StepsOK ==
  /\ pc["DirectionSelector"] \in {"pop", "rename", "rewrite", "copy"}
  /\ \A b \in BatchThreads : pc[b] \in {"pop", "open", "read", "done", "catch"}
  /\ pc["TapeFileNaming"] \in {"pop", "name", "pass"}
  /\ pc["CommandProcessing"] \in {"pop", "rename", "run", "check", "pass"}

Waiting(p) == {m_audioTapeQueue[p][i] : i \in 1..Len(m_audioTapeQueue[p])}

\* A tape is in one place at most: in the queue of a processor or with a thread.
\* Only a tape that has been handed over and has not left is in a place.
OnePlace ==
  /\ \A p \in Processors : \A i, j \in 1..Len(m_audioTapeQueue[p]) :
       m_audioTapeQueue[p][i] = m_audioTapeQueue[p][j] => i = j
  /\ \A p, q \in Processors : p # q => Waiting(p) \cap Waiting(q) = {}
  /\ \A w \in Workers : \A p \in Processors : tape[w] \notin Waiting(p)
  /\ \A w, v \in Workers : tape[w] = tape[v] /\ tape[w] # NULL => w = v
  /\ \A p \in Processors : \A t \in Waiting(p) : t <= numHanded /\ fate[t] = "in"
  /\ \A w \in Workers : tape[w] # NULL => tape[w] <= numHanded /\ fate[tape[w]] = "in"

\* A thread that waits has no tape.
PopIsIdle == \A w \in Workers : pc[w] = "pop" <=> tape[w] = NULL

PlacesInv == PlacesType /\ PopIsIdle /\ OnePlace

\* A tape that has not been handed over.
Fresh ==
  \A t \in Tapes : t > numHanded =>
    /\ m_fileIdentifier[t] = Captured(t) /\ m_fileExtension[t] = "wav"
    /\ m_filename[t] = File(Captured(t), "mcf")
    /\ fate[t] = "in" /\ t \notin unflushed /\ t \notin misnamed

Base ==
  /\ config \in Configs /\ numHanded \in 0..config.tapes
  /\ PlacesInv /\ FilesType /\ StepsOK /\ Fresh

\* Under these settings no tape is renamed before its files are.
InOrder ==
  /\ NamedOnce /\ ~Before("TapeFileNaming", "BatchProcessing")
  /\ config.command = "empty" \/ ~Before("TapeFileNaming", "CommandProcessing")

\* The name of a file tells whose it is, except for the configured one.  Only a
\* command gives a tape a path for extension, only a rewriting loses its end.
FilesOK ==
  /\ \A t \in Tapes : m_fileIdentifier[t] \in Ids(t)
  /\ \A t \in Tapes : m_fileExtension[t] = "path of gsm.wav" => Commanded
  /\ \A t \in Tapes : t \in unflushed => InChain("DirectionSelector")
  /\ \A f \in DOMAIN disk :
       /\ disk[f] \in [of : 1..numHanded, whole : BOOLEAN]
       /\ f \in FileNames(disk[f].of)
       /\ f.ext \in {"mcf", "tmp"} /\ ~Before("DirectionSelector", "TapeFileNaming")
            => f.id = Captured(disk[f].of)

OwnFile(f, t) == f \in DOMAIN disk /\ disk[f].of = t
Unnamed(t) == m_fileIdentifier[t] = Captured(t) /\ \A f \in DOMAIN disk : OwnFile(f, t) => f.id = Captured(t)
NoTmp(t) == \A f \in DOMAIN disk : OwnFile(f, t) => f.ext # "tmp"
Captures(t) ==
  /\ m_filename[t] = File(Captured(t), "mcf")
  /\ t \notin unflushed => HeldBy(File(Captured(t), "mcf"), t)
Transcoded(t) ==
  t \notin misnamed => m_fileExtension[t] = "wav" /\ HeldBy(File(m_fileIdentifier[t], "wav"), t)
HasOutput(t) == \E f \in DOMAIN disk : OwnFile(f, t) /\ f.ext = "gsm.wav"

\* What is true of a tape that waits for processor p, and of one p is done with.
Arrived(p, t) ==
  /\ InChain(p)
  /\ ~Before("TapeFileNaming", p) => Unnamed(t)
  /\ m_fileExtension[t] \in {"mcf", "tmp"} => Before("DirectionSelector", p)
  /\ ~Before("DirectionSelector", p) => NoTmp(t)
  /\ p = "BatchProcessing" \/ Before(p, "BatchProcessing") => Captures(t)
  /\ ReportsTranscoded /\ Before("BatchProcessing", p) => Transcoded(t)
  /\ ReportsCommanded /\ Before("CommandProcessing", p) => HasOutput(t)

Upto(q, p) == q = p \/ Before(q, p)
Leaving(p, t) ==
  /\ InChain(p)
  /\ ~Upto("TapeFileNaming", p) => Unnamed(t)
  /\ m_fileExtension[t] \in {"mcf", "tmp"} => Upto("DirectionSelector", p)
  /\ ~Upto("DirectionSelector", p) => NoTmp(t)
  /\ Before(p, "BatchProcessing") => Captures(t)
  /\ ReportsTranscoded /\ Upto("BatchProcessing", p) => Transcoded(t)
  /\ ReportsCommanded /\ Upto("CommandProcessing", p) => HasOutput(t)

\* The capture file of t is under its temporary name.
Aside(t) ==
  /\ InChain("DirectionSelector")
  /\ m_fileIdentifier[t] = Captured(t)
  /\ ~Before("TapeFileNaming", "DirectionSelector") => Unnamed(t)
  /\ OwnFile(Tmp(t), t)
  /\ Before("DirectionSelector", "BatchProcessing") /\ t \notin unflushed => HeldBy(Tmp(t), t)
  /\ ReportsCommanded /\ Before("CommandProcessing", "DirectionSelector") => HasOutput(t)

SelectorOK ==
  LET t == tape["DirectionSelector"] IN
    /\ pc["DirectionSelector"] = "rename" => Arrived("DirectionSelector", t)
    /\ pc["DirectionSelector"] = "rewrite" => Aside(t) /\ ~There(Mcf(t))
    /\ pc["DirectionSelector"] = "copy" => Aside(t) /\ There(Mcf(t))

BatchOK(b) ==
  LET t == tape[b] IN
    /\ pc[b] # "pop" => Arrived("BatchProcessing", t)
    /\ pc[b] = "open" => ~outOpen[b] /\ ~numSamplesOut[b]
    /\ pc[b] = "read" =>
         /\ There(m_filename[t])
         /\ outOpen[b] => There(Storage(t))
         /\ numSamplesOut[b] => outOpen[b]
    /\ pc[b] = "done" /\ numSamplesOut[b] /\ t \notin unflushed => HeldBy(Storage(t), t)

NamingOK ==
  LET t == tape["TapeFileNaming"] IN
    /\ pc["TapeFileNaming"] = "name" => Arrived("TapeFileNaming", t)
    /\ pc["TapeFileNaming"] = "pass" => Leaving("TapeFileNaming", t)

CommandOK ==
  LET t == tape["CommandProcessing"] IN
    /\ pc["CommandProcessing"] \in {"rename", "run", "check"} =>
         Arrived("CommandProcessing", t) /\ config.command # "empty"
    /\ pc["CommandProcessing"] = "run" => There(CommandTmp(t))
    /\ pc["CommandProcessing"] = "check" => config.command = "inout"
    /\ pc["CommandProcessing"] = "pass" => Leaving("CommandProcessing", t)

PlacesOK ==
  /\ \A p \in Processors : \A t \in Waiting(p) : Arrived(p, t)
  /\ SelectorOK
  /\ \A b \in BatchThreads : BatchOK(b)
  /\ NamingOK
  /\ CommandOK

IInv ==
  /\ Base
  /\ InOrder => FilesOK /\ PlacesOK
  /\ RecordingSurvives /\ ReportedFileExists /\ CommandOutputVerified
-----------------------------------------------------------------------------
(* Numbers and the chain                                                   *)

\* A set of numbers that is not empty has a least one.
LEMMA LeastOfNats ==
  ASSUME NEW S \in SUBSET Nat, S # {}
  PROVE  Min(S) \in S /\ \A j \in S : Min(S) <= j
<1>1. PICK x \in S : \A y \in S : ~ (<<y, x>> \in OpToRel(<, Nat))
  BY NatLessThanWellFounded, WFMin
<1>2. ASSUME NEW y \in S
      PROVE  x <= y
  <2>1. <<y, x>> \in Nat \X Nat /\ <<y, x>>[1] = y /\ <<y, x>>[2] = x
    OBVIOUS
  <2>2. ~ (y < x)
    BY <1>1, <2>1, Zenon DEF OpToRel
  <2>3. QED
    BY <2>2
<1>3. QED
  BY <1>2 DEF Min

\* The places of the chain are numbers.
LEMMA ChainPlaces ==
  ASSUME config \in Configs
  PROVE  /\ Chain \subseteq Nat
         /\ \A i \in Chain : config.processors[i] \in Processors
         /\ \A i \in Chain : Later(i) \subseteq Nat
<1>1. config.processors \in Seq(Processors \cup {"Unknown"})
  BY ProcessingSettings DEF Settings
<1>2. QED
  BY <1>1 DEF Chain, Later

\* Nothing is passed before the first processor.
LEMMA FirstOfChain ==
  ASSUME config \in Configs, FirstProcessor # "none" \/ FirstProcessor \in Processors
  PROVE  /\ FirstProcessor \in Processors /\ InChain(FirstProcessor)
         /\ NamedOnce => \A q : ~Before(q, FirstProcessor)
<1>1. Chain # {}
  BY DEF FirstProcessor, Processors
<1>2. Min(Chain) \in Chain /\ \A j \in Chain : Min(Chain) <= j
  BY <1>1, ChainPlaces, LeastOfNats
<1>3. FirstProcessor = config.processors[Min(Chain)]
  BY <1>1 DEF FirstProcessor
<1>4. QED
  BY <1>2, <1>3, ChainPlaces DEF InChain, Before, NamedOnce

\* The order of the chain.
LEMMA BeforeIsAnOrder ==
  ASSUME config \in Configs, NamedOnce
  PROVE  /\ \A p : ~Before(p, p)
         /\ \A p, q : Before(p, q) => InChain(p) /\ InChain(q) /\ ~Before(q, p) /\ p # q
         /\ \A p, q, r : Before(p, q) /\ Before(q, r) => Before(p, r)
         /\ \A p, q : InChain(p) /\ InChain(q) /\ p # q => Before(p, q) \/ Before(q, p)
<1>1. \A p : ~Before(p, p)
  BY ChainPlaces DEF Before, NamedOnce
<1>2. \A p, q, r : Before(p, q) /\ Before(q, r) => Before(p, r)
  <2> SUFFICES ASSUME NEW p, NEW q, NEW r, Before(p, q), Before(q, r)
               PROVE  Before(p, r)
    OBVIOUS
  <2>1. PICK i, j \in Chain : i < j /\ config.processors[i] = p /\ config.processors[j] = q
    BY DEF Before
  <2>2. PICK k, l \in Chain : k < l /\ config.processors[k] = q /\ config.processors[l] = r
    BY DEF Before
  <2>3. j = k
    BY <2>1, <2>2 DEF NamedOnce
  <2>4. i < l
    BY <2>1, <2>2, <2>3, ChainPlaces
  <2>5. QED
    BY <2>1, <2>2, <2>4 DEF Before
<1>3. \A p, q : Before(p, q) => InChain(p) /\ InChain(q) /\ ~Before(q, p) /\ p # q
  <2>1. \A p, q : Before(p, q) => InChain(p) /\ InChain(q)
    BY DEF Before, InChain
  <2>2. QED
    BY <1>1, <1>2, <2>1
<1>4. \A p, q : InChain(p) /\ InChain(q) /\ p # q => Before(p, q) \/ Before(q, p)
  BY ChainPlaces DEF Before, InChain
<1>5. QED
  BY <1>1, <1>2, <1>3, <1>4

\* What is passed before the next processor: this one and what is before it.
LEMMA NextOfChain ==
  ASSUME config \in Configs, NamedOnce, NEW p,
         NextProcessor(p) # "none" \/ NextProcessor(p) \in Processors
  PROVE  /\ NextProcessor(p) \in Processors /\ InChain(NextProcessor(p))
         /\ Before(p, NextProcessor(p))
         /\ \A q : Before(q, NextProcessor(p)) => Upto(q, p)
<1>1. Places(p) # {}
  BY DEF NextProcessor, Processors
<1>2. PICK i \in Places(p) : TRUE
  BY <1>1
<1>3. Places(p) = {i} /\ i \in Chain /\ i \in Nat /\ config.processors[i] = p /\ Later(i) # {}
  BY <1>2, ChainPlaces DEF Places, NamedOnce
<1>4. Max(Places(p)) = i
  BY <1>3 DEF Max
<1>5. PICK m : m = Min(Later(i))
  OBVIOUS
<1>6. m \in Chain /\ m \in Nat /\ m > i /\ \A j \in Later(i) : m <= j
  BY <1>3, <1>5, ChainPlaces, LeastOfNats DEF Later
<1>7. NextProcessor(p) = config.processors[m]
  BY <1>1, <1>4, <1>5 DEF NextProcessor
<1>8. NextProcessor(p) \in Processors /\ InChain(NextProcessor(p))
  BY <1>6, <1>7, ChainPlaces DEF InChain
<1>9. Before(p, NextProcessor(p))
  BY <1>3, <1>6, <1>7 DEF Before
<1>10. ASSUME NEW q, Before(q, NextProcessor(p))
       PROVE  Upto(q, p)
  <2>1. PICK k, l \in Chain : k < l /\ config.processors[k] = q
                              /\ config.processors[l] = NextProcessor(p)
    BY <1>10 DEF Before
  <2>2. l = m
    BY <2>1, <1>6, <1>7 DEF NamedOnce
  <2>3. k \in Nat /\ ~ (k > i)
    BY <2>1, <2>2, <1>6, ChainPlaces DEF Later
  <2>4. k = i \/ k < i
    BY <2>3, <1>3
  <2>5. QED
    BY <2>1, <2>4, <1>3 DEF Upto, Before
<1>11. QED
  BY <1>8, <1>9, <1>10
-----------------------------------------------------------------------------
(* Names and the disk                                                      *)

\* A file name has its two parts.
LEMMA FileParts ==
  /\ \A i, e : File(i, e).id = i /\ File(i, e).ext = e
  /\ \A i, e, j, g : File(i, e) = File(j, g) => i = j /\ e = g
  /\ \A t, i, e : i \in Ids(t) /\ e \in Extensions => File(i, e) \in FileNames(t)
  /\ \A t : \A f \in FileNames(t) : f = File(f.id, f.ext) /\ f.id \in Ids(t) /\ f.ext \in Extensions
<1>1. \A i, e : File(i, e).id = i /\ File(i, e).ext = e
  BY DEF File
<1>2. \A i, e, j, g : File(i, e) = File(j, g) => i = j /\ e = g
  BY <1>1
<1>3. \A t, i, e : i \in Ids(t) /\ e \in Extensions => File(i, e) \in FileNames(t)
  BY DEF File, FileNames
<1>4. \A t : \A f \in FileNames(t) :
        f = File(f.id, f.ext) /\ f.id \in Ids(t) /\ f.ext \in Extensions
  BY DEF File, FileNames
<1>5. QED
  BY <1>1, <1>2, <1>3, <1>4

\* An identifier is of one tape, unless it is the configured one.
LEMMA IdsDiffer ==
  /\ \A t : Captured(t) \in Ids(t) /\ Configured \in Ids(t)
  /\ \A i, t : WithUid(i, t) \in Ids(t)
  /\ \A i : \A t \in Tapes : WithUid(i, t) # Configured
  /\ \A i, t, u : WithUid(i, t) # Captured(u)
  /\ \A t : Captured(t) # Configured
  /\ \A t, u : \A i \in Ids(t) \cap Ids(u) : i # Configured => t = u
<1>1. \A i, j, a, b : <<i, a>> = <<j, b>> => i = j /\ a = b
  OBVIOUS
<1>2. "captured" # "configured" /\ "captured" # "captured, uid"
        /\ "configured" # "captured, uid"
  OBVIOUS
<1>3. \A t \in Tapes : t # 0
  BY DEF Tapes
<1>4. \A t : Captured(t) \in Ids(t) /\ Configured \in Ids(t)
  BY DEF Ids
<1>5. \A i, t : WithUid(i, t) \in Ids(t)
  BY DEF Ids, WithUid
<1>6. \A i : \A t \in Tapes : WithUid(i, t) # Configured
  BY <1>1, <1>2, <1>3 DEF WithUid, Configured
<1>7. \A i, t, u : WithUid(i, t) # Captured(u)
  BY <1>1, <1>2 DEF WithUid, Captured
<1>8. \A t : Captured(t) # Configured
  BY <1>1, <1>2 DEF Captured, Configured
<1>9. \A t, u : \A i \in Ids(t) \cap Ids(u) : i # Configured => t = u
  BY <1>1, <1>2 DEF Ids, Captured, Configured
<1>10. QED
  BY <1>4, <1>5, <1>6, <1>7, <1>8, <1>9
-----------------------------------------------------------------------------
(* Queues                                                                  *)

\* A tape is added to a queue.
LEMMA Appended ==
  ASSUME NEW S, NEW q \in Seq(S), NEW t \in S, NEW r, r = Append(q, t)
  PROVE  /\ r \in Seq(S) /\ Len(q) \in Nat /\ Len(r) = Len(q) + 1
         /\ \A i \in 1..Len(q) : r[i] = q[i]
         /\ r[Len(r)] = t
OBVIOUS

\* The first tape is taken from a queue.
LEMMA Taken ==
  ASSUME NEW S, NEW q \in Seq(S), q # << >>, NEW r, r = Tail(q)
  PROVE  /\ r \in Seq(S) /\ Len(q) \in Nat /\ Len(r) \in Nat /\ Len(q) = Len(r) + 1
         /\ \A i \in 1..Len(r) : r[i] = q[i + 1]
         /\ Head(q) = q[1] /\ q[1] \in S
OBVIOUS
-----------------------------------------------------------------------------
(* The places of the tapes                                                 *)

\* What waits after a tape is added to the queue of r, or not.
LEMMA Sending ==
  ASSUME PlacesType, NEW r, NEW t \in Tapes, AddAudioTape(r, t),
         \A p \in Processors : t \notin Waiting(p), fate[t] = "in",
         \A p \in Processors : \A i, j \in 1..Len(m_audioTapeQueue[p]) :
           m_audioTapeQueue[p][i] = m_audioTapeQueue[p][j] => i = j
  PROVE  /\ m_audioTapeQueue' \in [Processors -> Seq(Tapes)]
         /\ fate' \in [Tapes -> {"in", "end", "reported", "refused", "failed"}]
         /\ reportedAs' = [u \in Tapes |-> reportedAs'[u]]
         /\ \A p \in Processors : \A i, j \in 1..Len(m_audioTapeQueue'[p]) :
              m_audioTapeQueue'[p][i] = m_audioTapeQueue'[p][j] => i = j
         /\ \A p \in Processors : Waiting(p)' \subseteq Waiting(p) \cup {t}
         /\ \A p \in Processors : t \in Waiting(p)' =>
              p = r /\ p # "Reporting" /\ fate'[t] = "in" /\ reportedAs' = reportedAs
         /\ \A u \in Tapes : u # t => fate'[u] = fate[u] /\ reportedAs'[u] = reportedAs[u]
         /\ fate'[t] = "reported" =>
              r = "Reporting" /\ reportedAs'[t] = File(m_fileIdentifier[t], m_fileExtension'[t])
<1> DEFINE q == m_audioTapeQueue[r]
           q2 == Append(q, t)
<1>1. CASE m_audioTapeQueue' = m_audioTapeQueue
  <2>1. \A p \in Processors : Waiting(p)' = Waiting(p)
    BY <1>1 DEF Waiting
  <2>2. m_audioTapeQueue' \in [Processors -> Seq(Tapes)]
    BY <1>1 DEF PlacesType
  <2>3. /\ fate' \in [Tapes -> {"in", "end", "reported", "refused", "failed"}]
        /\ reportedAs' = [u \in Tapes |-> reportedAs'[u]]
        /\ \A u \in Tapes : u # t => fate'[u] = fate[u] /\ reportedAs'[u] = reportedAs[u]
        /\ fate'[t] = "reported" =>
             r = "Reporting" /\ reportedAs'[t] = File(m_fileIdentifier[t], m_fileExtension'[t])
    <3>1. PICK x \in {"in", "end", "reported", "refused"} :
             /\ fate' = [fate EXCEPT ![t] = x]
             /\ x = "reported" => r = "Reporting"
             /\ x # "reported" => reportedAs' = reportedAs
             /\ x = "reported" => reportedAs' =
                  [reportedAs EXCEPT ![t] = File(m_fileIdentifier[t], m_fileExtension'[t])]
      <4>1. fate[t] = "in" => fate = [fate EXCEPT ![t] = "in"]
        BY DEF PlacesType
      <4>2. QED
        BY <4>1 DEF AddAudioTape, endVars
    <3>2. QED
      BY <3>1 DEF PlacesType
  <2>4. QED
    BY <1>1, <2>1, <2>2, <2>3
<1>2. CASE /\ r \notin {"none", "Reporting"} /\ Len(q) < QueueSize
           /\ m_audioTapeQueue' = [m_audioTapeQueue EXCEPT ![r] = q2]
           /\ UNCHANGED endVars
  <2>1. CASE r \notin Processors
    <3>1. m_audioTapeQueue' = m_audioTapeQueue
      BY <1>2, <2>1 DEF PlacesType
    <3>2. QED
      BY <1>1, <3>1
  <2>2. CASE r \in Processors
    <3>1. q \in Seq(Tapes)
      BY <2>2 DEF PlacesType
    <3>2. /\ q2 \in Seq(Tapes) /\ Len(q) \in Nat /\ Len(q2) = Len(q) + 1
          /\ \A i \in 1..Len(q) : q2[i] = q[i]
          /\ q2[Len(q2)] = t
      BY <3>1, Appended
    <3>3. /\ m_audioTapeQueue'[r] = q2
          /\ \A p \in Processors : p # r => m_audioTapeQueue'[p] = m_audioTapeQueue[p]
          /\ m_audioTapeQueue' \in [Processors -> Seq(Tapes)]
      BY <1>2, <2>2, <3>2 DEF PlacesType
    <3>4. \A i \in 1..Len(q2) : i \in 1..Len(q) \/ i = Len(q2)
      BY <3>2
    <3>5. \A i \in 1..Len(q) : q[i] # t
      BY <2>2 DEF Waiting
    <3>6. \A i, j \in 1..Len(q2) : q2[i] = q2[j] => i = j
      BY <3>2, <3>4, <3>5, <2>2
    <3>7. \A p \in Processors : p # r => Waiting(p)' = Waiting(p)
      BY <3>3 DEF Waiting
    <3>8. Waiting(r)' \subseteq Waiting(r) \cup {t}
      BY <3>2, <3>3, <3>4 DEF Waiting
    <3>9. fate' = fate /\ reportedAs' = reportedAs
      BY <1>2 DEF endVars
    <3>10. /\ fate' \in [Tapes -> {"in", "end", "reported", "refused", "failed"}]
           /\ reportedAs' = [u \in Tapes |-> reportedAs'[u]]
           /\ \A u \in Tapes : u # t => fate'[u] = fate[u] /\ reportedAs'[u] = reportedAs[u]
           /\ fate'[t] = "in"
      BY <3>9 DEF PlacesType
    <3>11. \A p \in Processors : \A i, j \in 1..Len(m_audioTapeQueue'[p]) :
             m_audioTapeQueue'[p][i] = m_audioTapeQueue'[p][j] => i = j
      BY <3>3, <3>6
    <3>12. \A p \in Processors : t \in Waiting(p)' =>
              p = r /\ p # "Reporting" /\ fate'[t] = "in" /\ reportedAs' = reportedAs
      BY <1>2, <3>7, <3>9, <3>10
    <3>13. \A p \in Processors : Waiting(p)' \subseteq Waiting(p) \cup {t}
      BY <3>7, <3>8
    <3>14. QED
      BY <3>3, <3>10, <3>11, <3>12, <3>13
  <2>3. QED
    BY <2>1, <2>2
<1>3. QED
  BY <1>1, <1>2 DEF AddAudioTape

\* What waits after thread w has taken a tape from the queue of p.
LEMMA Popping ==
  ASSUME PlacesType, NEW p \in Processors, NEW w \in Workers, NEW next \in Steps,
         Pop(p, w, next),
         \A i, j \in 1..Len(m_audioTapeQueue[p]) :
           m_audioTapeQueue[p][i] = m_audioTapeQueue[p][j] => i = j
  PROVE  /\ m_audioTapeQueue' \in [Processors -> Seq(Tapes)]
         /\ tape' \in [Workers -> Tapes \cup {NULL}]
         /\ pc' \in [Workers -> Steps]
         /\ \A i, j \in 1..Len(m_audioTapeQueue'[p]) :
              m_audioTapeQueue'[p][i] = m_audioTapeQueue'[p][j] => i = j
         /\ \A r \in Processors : r # p => m_audioTapeQueue'[r] = m_audioTapeQueue[r]
                                           /\ Waiting(r)' = Waiting(r)
         /\ tape'[w] \in Waiting(p) /\ tape'[w] \in Tapes
         /\ Waiting(p)' \subseteq Waiting(p) \ {tape'[w]}
         /\ \A v \in Workers : v # w => tape'[v] = tape[v] /\ pc'[v] = pc[v]
         /\ pc'[w] = next
<1> DEFINE q == m_audioTapeQueue[p]
           q2 == Tail(q)
<1>1. q \in Seq(Tapes) /\ q # << >>
  BY DEF PlacesType, Pop
<1>2. /\ q2 \in Seq(Tapes) /\ Len(q) \in Nat /\ Len(q2) \in Nat /\ Len(q) = Len(q2) + 1
      /\ \A i \in 1..Len(q2) : q2[i] = q[i + 1]
      /\ Head(q) = q[1] /\ q[1] \in Tapes
  BY <1>1, Taken
<1>3. /\ m_audioTapeQueue'[p] = q2
      /\ \A r \in Processors : r # p => m_audioTapeQueue'[r] = m_audioTapeQueue[r]
      /\ m_audioTapeQueue' \in [Processors -> Seq(Tapes)]
  BY <1>2 DEF PlacesType, Pop
<1>4. /\ tape' \in [Workers -> Tapes \cup {NULL}]
      /\ tape'[w] = q[1]
      /\ \A v \in Workers : v # w => tape'[v] = tape[v]
  BY <1>2 DEF PlacesType, Pop
<1>5. /\ pc' \in [Workers -> Steps] /\ pc'[w] = next
      /\ \A v \in Workers : v # w => pc'[v] = pc[v]
  BY DEF PlacesType, Pop
<1>6. \A i \in 1..Len(q2) : i + 1 \in 1..Len(q) /\ i + 1 # 1 /\ i \in Nat
  BY <1>2
<1>7. \A i, j \in 1..Len(q2) : q2[i] = q2[j] => i = j
  <2> SUFFICES ASSUME NEW i \in 1..Len(q2), NEW j \in 1..Len(q2), q2[i] = q2[j]
               PROVE  i = j
    OBVIOUS
  <2>1. q[i + 1] = q[j + 1]
    BY <1>2
  <2>2. i + 1 = j + 1
    BY <2>1, <1>6
  <2>3. QED
    BY <2>2, <1>6
<1>8. 1 \in 1..Len(q)
  BY <1>2
<1>9. tape'[w] \in Waiting(p)
  BY <1>4, <1>8 DEF Waiting
<1>10. Waiting(p)' \subseteq Waiting(p) \ {tape'[w]}
  <2> SUFFICES ASSUME NEW t \in Waiting(p)'
               PROVE  t \in Waiting(p) /\ t # tape'[w]
    OBVIOUS
  <2>1. PICK i \in 1..Len(q2) : t = q2[i]
    BY <1>3 DEF Waiting
  <2>2. t = q[i + 1] /\ i + 1 \in 1..Len(q) /\ i + 1 # 1
    BY <2>1, <1>2, <1>6
  <2>3. t # q[1]
    BY <2>2, <1>8
  <2>4. QED
    BY <2>2, <2>3, <1>4 DEF Waiting
<1>11. \A r \in Processors : r # p => Waiting(r)' = Waiting(r)
  BY <1>3 DEF Waiting
<1>12. QED
  BY <1>2, <1>3, <1>4, <1>5, <1>7, <1>9, <1>10, <1>11

\* The five ways in which a step moves a tape.
Taking(w) ==
  /\ \E next \in Steps : next # "pop" /\ Pop(HomeOf(w), w, next)
  /\ UNCHANGED <<config, numHanded, endVars>>
Keeping(w) ==
  /\ pc[w] # "pop"
  /\ \E next \in Steps : next # "pop" /\ pc' = [pc EXCEPT ![w] = next]
  /\ UNCHANGED <<config, numHanded, tape, m_audioTapeQueue, endVars>>
Dropping(w) == pc[w] # "pop" /\ GiveUp(w) /\ UNCHANGED <<config, numHanded>>
Passing(w) == pc[w] # "pop" /\ PassOn(HomeOf(w), w) /\ UNCHANGED <<config, numHanded>>
Motion(w) == Taking(w) \/ Keeping(w) \/ Dropping(w) \/ Passing(w)

LEMMA HomesOK ==
  /\ \A w \in Workers : HomeOf(w) \in Processors
  /\ HomeOf("DirectionSelector") = "DirectionSelector"
  /\ HomeOf("TapeFileNaming") = "TapeFileNaming"
  /\ HomeOf("CommandProcessing") = "CommandProcessing"
  /\ \A b \in BatchThreads : HomeOf(b) = "BatchProcessing"
BY ThreadsDiffer DEF HomeOf, Workers, Processors

\* Every step of a thread is one of them.
LEMMA Keeps ==
  ASSUME NEW w, NEW next \in Steps, next # "pop", pc[w] # "pop", Proceed(w, next),
         UNCHANGED <<config, numHanded>>
  PROVE  Motion(w)
BY DEF Proceed, Motion, Keeping

LEMMA Takes ==
  ASSUME NEW w, NEW next \in Steps, next # "pop", Pop(HomeOf(w), w, next),
         UNCHANGED <<config, numHanded, endVars>>
  PROVE  Motion(w)
BY DEF Motion, Taking

LEMMA MotionOfSelector ==
  ASSUME Selector
  PROVE  Motion("DirectionSelector")
<1>1. CASE PopSelector
  BY <1>1, HomesOK, Takes DEF PopSelector, Steps
<1>2. CASE MoveAside
  BY <1>2, Keeps DEF MoveAside, Motion, Dropping, Steps
<1>3. CASE OpenRewrite
  BY <1>3, Keeps DEF OpenRewrite, Motion, Dropping, Steps
<1>4. CASE CopyAndClose
  BY <1>4, HomesOK DEF CopyAndClose, Motion, Passing, Dropping
<1>5. QED
  BY <1>1, <1>2, <1>3, <1>4 DEF Selector

LEMMA MotionOfBatch ==
  ASSUME PlacesType, NEW b \in BatchThreads, Batch(b)
  PROVE  Motion(b)
<1>1. CASE PopTape(b)
  BY <1>1, HomesOK, Takes DEF PopTape, Steps
<1>2. CASE OpenNative(b)
  BY <1>2, Keeps DEF OpenNative, Steps
<1>3. CASE OpenOutput(b)
  <2>1. pc = [pc EXCEPT ![b] = "read"]
    BY <1>3 DEF OpenOutput, PlacesType
  <2>2. QED
    BY <1>3, <2>1, Keeps DEF OpenOutput, Proceed, Steps
<1>4. CASE TranscodeChunk(b)
  <2>1. pc = [pc EXCEPT ![b] = "read"]
    BY <1>4 DEF TranscodeChunk, PlacesType
  <2>2. QED
    BY <1>4, <2>1, Keeps DEF TranscodeChunk, Proceed, Steps
<1>5. CASE CloseFiles(b)
  BY <1>5, Keeps DEF CloseFiles, Steps
<1>6. CASE Finish(b)
  BY <1>6, HomesOK DEF Finish, Motion, Passing, Dropping
<1>7. CASE Catch(b)
  BY <1>7 DEF Catch, nextTape, Motion, Dropping
<1>8. QED
  BY <1>1, <1>2, <1>3, <1>4, <1>5, <1>6, <1>7 DEF Batch

LEMMA MotionOfNaming ==
  ASSUME Naming
  PROVE  Motion("TapeFileNaming")
<1>1. CASE PopNaming
  BY <1>1, HomesOK, Takes DEF PopNaming, Steps
<1>2. CASE NameFile
  BY <1>2, Keeps DEF NameFile, Proceed, Steps
<1>3. CASE PassNamed
  BY <1>3, HomesOK DEF PassNamed, Motion, Passing
<1>4. QED
  BY <1>1, <1>2, <1>3 DEF Naming

LEMMA MotionOfCommand ==
  ASSUME Command
  PROVE  Motion("CommandProcessing")
<1>1. CASE PopCommand
  BY <1>1, HomesOK, Takes DEF PopCommand, Steps
<1>2. CASE PassCommanded
  BY <1>2, HomesOK DEF PassCommanded, Motion, Passing
<1>3. CASE RenameInput
  BY <1>3, Keeps DEF RenameInput, Motion, Dropping, Steps
<1>4. CASE RunCommand
  BY <1>4, Keeps DEF RunCommand, Steps
<1>5. CASE CheckOutput
  BY <1>5, Keeps DEF CheckOutput, Motion, Dropping, Steps
<1>6. QED
  BY <1>1, <1>2, <1>3, <1>4, <1>5 DEF Command

\* A thread that takes a tape.
LEMMA TakingKeepsPlaces ==
  ASSUME PlacesInv, NEW w \in Workers, Taking(w)
  PROVE  /\ PlacesInv'
         /\ pc[w] = "pop" /\ pc'[w] # "pop"
         /\ tape'[w] \in Tapes /\ tape'[w] \in Waiting(HomeOf(w))
         /\ \A v \in Workers : v # w => tape'[v] = tape[v] /\ pc'[v] = pc[v]
         /\ \A p \in Processors : Waiting(p)' \subseteq Waiting(p) \ {tape'[w]}
<1>1. PICK next \in Steps : next # "pop" /\ Pop(HomeOf(w), w, next)
  BY DEF Taking
<1>2. PICK p \in Processors : p = HomeOf(w)
  BY HomesOK
<1>3. \A r \in Processors : \A i, j \in 1..Len(m_audioTapeQueue[r]) :
        m_audioTapeQueue[r][i] = m_audioTapeQueue[r][j] => i = j
  BY DEF PlacesInv, OnePlace
<1>4. /\ m_audioTapeQueue' \in [Processors -> Seq(Tapes)]
      /\ tape' \in [Workers -> Tapes \cup {NULL}]
      /\ pc' \in [Workers -> Steps]
      /\ \A i, j \in 1..Len(m_audioTapeQueue'[p]) :
           m_audioTapeQueue'[p][i] = m_audioTapeQueue'[p][j] => i = j
      /\ \A r \in Processors : r # p => m_audioTapeQueue'[r] = m_audioTapeQueue[r]
                                        /\ Waiting(r)' = Waiting(r)
      /\ tape'[w] \in Waiting(p) /\ tape'[w] \in Tapes
      /\ Waiting(p)' \subseteq Waiting(p) \ {tape'[w]}
      /\ \A v \in Workers : v # w => tape'[v] = tape[v] /\ pc'[v] = pc[v]
      /\ pc'[w] = next
  BY <1>1, <1>2, <1>3, Popping DEF PlacesInv
<1>5. PICK t \in Tapes : t = tape'[w]
  BY <1>4
<1>6. fate' = fate /\ numHanded' = numHanded /\ reportedAs' = reportedAs /\ pc[w] = "pop"
  BY <1>1 DEF Taking, endVars, Pop
<1>7. \A r \in Processors : Waiting(r)' \subseteq Waiting(r) \ {t}
  <2>1. \A r \in Processors : r # p => t \notin Waiting(r)
    BY <1>4, <1>5 DEF PlacesInv, OnePlace
  <2>2. QED
    BY <2>1, <1>4, <1>5
<1>8. \A v \in Workers : tape[v] # t
  BY <1>4, <1>5 DEF PlacesInv, OnePlace
<1>9. t # NULL
  BY DEF Tapes, NULL
<1>10. PlacesType'
  BY <1>4, <1>6 DEF PlacesType, PlacesInv
<1>11. PopIsIdle'
  BY <1>1, <1>4, <1>5, <1>9 DEF PopIsIdle, PlacesInv
<1>12. OnePlace'
  <2>1. \A r \in Processors : \A i, j \in 1..Len(m_audioTapeQueue'[r]) :
          m_audioTapeQueue'[r][i] = m_audioTapeQueue'[r][j] => i = j
    BY <1>3, <1>4
  <2>2. \A r, q \in Processors : r # q => Waiting(r)' \cap Waiting(q)' = {}
    BY <1>7 DEF PlacesInv, OnePlace
  <2>3. \A v \in Workers : \A r \in Processors : tape'[v] \notin Waiting(r)'
    BY <1>4, <1>5, <1>7 DEF PlacesInv, OnePlace
  <2>4. \A v, u \in Workers : tape'[v] = tape'[u] /\ tape'[v] # NULL => v = u
    BY <1>4, <1>5, <1>8 DEF PlacesInv, OnePlace
  <2>5. \A r \in Processors : \A u \in Waiting(r)' : u <= numHanded' /\ fate'[u] = "in"
    BY <1>6, <1>7 DEF PlacesInv, OnePlace
  <2>6. \A v \in Workers : tape'[v] # NULL => tape'[v] <= numHanded' /\ fate'[tape'[v]] = "in"
    BY <1>4, <1>6 DEF PlacesInv, OnePlace
  <2>7. QED
    BY <2>1, <2>2, <2>3, <2>4, <2>5, <2>6 DEF OnePlace
<1>13. QED
  BY <1>1, <1>2, <1>4, <1>5, <1>6, <1>7, <1>10, <1>11, <1>12 DEF PlacesInv

\* A thread that goes on with its tape.
LEMMA KeepingKeepsPlaces ==
  ASSUME PlacesInv, NEW w \in Workers, Keeping(w)
  PROVE  /\ PlacesInv'
         /\ tape[w] \in Tapes
         /\ \A v \in Workers : tape'[v] = tape[v] /\ (v # w => pc'[v] = pc[v])
         /\ \A p \in Processors : Waiting(p)' = Waiting(p)
         /\ fate' = fate /\ reportedAs' = reportedAs
<1>1. PICK next \in Steps : next # "pop" /\ pc' = [pc EXCEPT ![w] = next]
  BY DEF Keeping
<1>2. /\ tape' = tape /\ m_audioTapeQueue' = m_audioTapeQueue /\ fate' = fate
      /\ reportedAs' = reportedAs /\ numHanded' = numHanded /\ pc[w] # "pop"
  BY DEF Keeping, endVars
<1>3. /\ pc' \in [Workers -> Steps] /\ pc'[w] = next
      /\ \A v \in Workers : v # w => pc'[v] = pc[v]
  BY <1>1 DEF PlacesInv, PlacesType
<1>4. \A p \in Processors : Waiting(p)' = Waiting(p)
  BY <1>2 DEF Waiting
<1>5. PlacesType'
  BY <1>2, <1>3 DEF PlacesInv, PlacesType
<1>6. PopIsIdle'
  BY <1>1, <1>2, <1>3 DEF PlacesInv, PopIsIdle
<1>7. OnePlace'
  BY <1>2, <1>4 DEF PlacesInv, OnePlace
<1>8. tape[w] \in Tapes
  BY <1>2 DEF PlacesInv, PlacesType, PopIsIdle
<1>9. QED
  BY <1>2, <1>3, <1>4, <1>5, <1>6, <1>7, <1>8 DEF PlacesInv

\* A thread whose tape leaves it, for the queue of a processor or for good.
LEMMA LeavingKeepsPlaces ==
  ASSUME PlacesInv, NEW w \in Workers, NEW t \in Tapes, t = tape[w], Again(w),
         numHanded' = numHanded,
         m_audioTapeQueue' \in [Processors -> Seq(Tapes)],
         fate' \in [Tapes -> {"in", "end", "reported", "refused", "failed"}],
         reportedAs' = [u \in Tapes |-> reportedAs'[u]],
         \A p \in Processors : \A i, j \in 1..Len(m_audioTapeQueue'[p]) :
           m_audioTapeQueue'[p][i] = m_audioTapeQueue'[p][j] => i = j,
         \A p \in Processors : Waiting(p)' \subseteq Waiting(p) \cup {t},
         \A p, q \in Processors : t \in Waiting(p)' /\ t \in Waiting(q)' => p = q,
         \A p \in Processors : t \in Waiting(p)' => fate'[t] = "in",
         \A u \in Tapes : u # t => fate'[u] = fate[u]
  PROVE  /\ PlacesInv'
         /\ pc'[w] = "pop"
         /\ \A v \in Workers : v # w => tape'[v] = tape[v] /\ pc'[v] = pc[v]
<1>1. /\ tape' \in [Workers -> Tapes \cup {NULL}] /\ tape'[w] = NULL
      /\ \A v \in Workers : v # w => tape'[v] = tape[v]
      /\ pc' \in [Workers -> Steps] /\ pc'[w] = "pop"
      /\ \A v \in Workers : v # w => pc'[v] = pc[v]
  BY DEF PlacesInv, PlacesType, Again, Steps
<1>2. \A u \in Tapes : u # NULL
  BY DEF Tapes, NULL
<1>3. /\ \A p \in Processors : t \notin Waiting(p)
      /\ \A v \in Workers : tape[v] = t => v = w
      /\ t <= numHanded
  BY <1>2 DEF PlacesInv, OnePlace
<1>4. PlacesType'
  BY <1>1 DEF PlacesType
<1>5. PopIsIdle'
  BY <1>1 DEF PlacesInv, PopIsIdle
<1>6. \A p \in Processors : Waiting(p)' \subseteq Tapes
  BY DEF PlacesInv, PlacesType, Waiting
<1>7. OnePlace'
  <2>2. \A p, q \in Processors : p # q => Waiting(p)' \cap Waiting(q)' = {}
    BY DEF PlacesInv, OnePlace
  <2>3. \A v \in Workers : \A p \in Processors : tape'[v] \notin Waiting(p)'
    BY <1>1, <1>2, <1>3, <1>6 DEF PlacesInv, OnePlace
  <2>4. \A v, u \in Workers : tape'[v] = tape'[u] /\ tape'[v] # NULL => v = u
    BY <1>1 DEF PlacesInv, OnePlace
  <2>5. \A p \in Processors : \A u \in Waiting(p)' : u <= numHanded' /\ fate'[u] = "in"
    BY <1>3, <1>6 DEF PlacesInv, OnePlace
  <2>6. \A v \in Workers : tape'[v] # NULL => tape'[v] <= numHanded' /\ fate'[tape'[v]] = "in"
    BY <1>1, <1>3, SMTT(30) DEF PlacesInv, PlacesType, OnePlace
  <2>7. QED
    BY <2>2, <2>3, <2>4, <2>5, <2>6 DEF OnePlace
<1>8. QED
  BY <1>1, <1>4, <1>5, <1>7 DEF PlacesInv

\* A thread that gives its tape up.
LEMMA DroppingKeepsPlaces ==
  ASSUME PlacesInv, NEW w \in Workers, Dropping(w)
  PROVE  /\ PlacesInv'
         /\ tape[w] \in Tapes /\ pc'[w] = "pop"
         /\ \A v \in Workers : v # w => tape'[v] = tape[v] /\ pc'[v] = pc[v]
         /\ \A p \in Processors : Waiting(p)' = Waiting(p)
         /\ \A u \in Tapes : u # tape[w] => fate'[u] = fate[u]
         /\ fate'[tape[w]] = "failed" /\ reportedAs' = reportedAs
<1>1. PICK t \in Tapes : t = tape[w]
  BY DEF PlacesInv, PlacesType, PopIsIdle, Dropping
<1>2. /\ m_audioTapeQueue' = m_audioTapeQueue /\ reportedAs' = reportedAs
      /\ fate' = [fate EXCEPT ![t] = "failed"] /\ Again(w) /\ numHanded' = numHanded
  BY <1>1 DEF Dropping, GiveUp
<1>3. \A p \in Processors : Waiting(p)' = Waiting(p)
  BY <1>2 DEF Waiting
<1>4. /\ fate' \in [Tapes -> {"in", "end", "reported", "refused", "failed"}]
      /\ \A u \in Tapes : u # t => fate'[u] = fate[u]
      /\ fate'[t] = "failed"
  BY <1>2 DEF PlacesInv, PlacesType
<1>5. \A p \in Processors : t \notin Waiting(p)
  BY <1>1 DEF PlacesInv, OnePlace
<1>6. /\ \A p, q \in Processors : t \in Waiting(p)' /\ t \in Waiting(q)' => p = q
      /\ \A p \in Processors : t \in Waiting(p)' => fate'[t] = "in"
      /\ \A p \in Processors : Waiting(p)' \subseteq Waiting(p) \cup {t}
  BY <1>3, <1>5
<1>7. /\ m_audioTapeQueue' \in [Processors -> Seq(Tapes)]
      /\ reportedAs' = [u \in Tapes |-> reportedAs'[u]]
      /\ \A p \in Processors : \A i, j \in 1..Len(m_audioTapeQueue'[p]) :
           m_audioTapeQueue'[p][i] = m_audioTapeQueue'[p][j] => i = j
  BY <1>2 DEF PlacesInv, PlacesType, OnePlace
<1>8. /\ PlacesInv'
      /\ pc'[w] = "pop"
      /\ \A v \in Workers : v # w => tape'[v] = tape[v] /\ pc'[v] = pc[v]
  BY <1>1, <1>2, <1>3, <1>4, <1>6, <1>7, LeavingKeepsPlaces
<1>9. QED
  BY <1>1, <1>2, <1>3, <1>4, <1>8

\* A thread that passes its tape on.
LEMMA PassingKeepsPlaces ==
  ASSUME PlacesInv, NEW w \in Workers, Passing(w), NEW r, r = NextProcessor(HomeOf(w))
  PROVE  /\ PlacesInv'
         /\ tape[w] \in Tapes /\ pc'[w] = "pop"
         /\ \A v \in Workers : v # w => tape'[v] = tape[v] /\ pc'[v] = pc[v]
         /\ \A p \in Processors : Waiting(p)' \subseteq Waiting(p) \cup {tape[w]}
         /\ \A p \in Processors : tape[w] \in Waiting(p)' =>
              p = r /\ p # "Reporting" /\ reportedAs' = reportedAs
         /\ \A u \in Tapes : u # tape[w] => fate'[u] = fate[u] /\ reportedAs'[u] = reportedAs[u]
         /\ fate'[tape[w]] = "reported" =>
              /\ r = "Reporting"
              /\ reportedAs'[tape[w]] = File(m_fileIdentifier[tape[w]], m_fileExtension'[tape[w]])
<1>1. PICK t \in Tapes : t = tape[w]
  BY DEF PlacesInv, PlacesType, PopIsIdle, Passing
<1>2. AddAudioTape(r, t) /\ Again(w) /\ numHanded' = numHanded
  BY <1>1 DEF Passing, PassOn, RunNextProcessor
<1>3. /\ \A p \in Processors : t \notin Waiting(p)
      /\ fate[t] = "in"
      /\ \A p \in Processors : \A i, j \in 1..Len(m_audioTapeQueue[p]) :
           m_audioTapeQueue[p][i] = m_audioTapeQueue[p][j] => i = j
  BY <1>1 DEF PlacesInv, OnePlace, Tapes, NULL
<1>4. /\ m_audioTapeQueue' \in [Processors -> Seq(Tapes)]
      /\ fate' \in [Tapes -> {"in", "end", "reported", "refused", "failed"}]
      /\ reportedAs' = [u \in Tapes |-> reportedAs'[u]]
      /\ \A p \in Processors : \A i, j \in 1..Len(m_audioTapeQueue'[p]) :
           m_audioTapeQueue'[p][i] = m_audioTapeQueue'[p][j] => i = j
      /\ \A p \in Processors : Waiting(p)' \subseteq Waiting(p) \cup {t}
      /\ \A p \in Processors : t \in Waiting(p)' =>
           p = r /\ p # "Reporting" /\ fate'[t] = "in" /\ reportedAs' = reportedAs
      /\ \A u \in Tapes : u # t => fate'[u] = fate[u] /\ reportedAs'[u] = reportedAs[u]
      /\ fate'[t] = "reported" =>
           r = "Reporting" /\ reportedAs'[t] = File(m_fileIdentifier[t], m_fileExtension'[t])
  BY <1>2, <1>3, Sending DEF PlacesInv
<1>5. /\ \A p, q \in Processors : t \in Waiting(p)' /\ t \in Waiting(q)' => p = q
      /\ \A p \in Processors : t \in Waiting(p)' => fate'[t] = "in"
      /\ \A u \in Tapes : u # t => fate'[u] = fate[u]
  BY <1>4
<1>6. /\ PlacesInv'
      /\ pc'[w] = "pop"
      /\ \A v \in Workers : v # w => tape'[v] = tape[v] /\ pc'[v] = pc[v]
  BY <1>1, <1>2, <1>4, <1>5, LeavingKeepsPlaces
<1>7. QED
  BY <1>1, <1>4, <1>6

\* The number of the tape that is handed over.
LEMMA HandedTape ==
  ASSUME config \in Configs, numHanded \in 0..config.tapes, RunProcessingChain
  PROVE  numHanded \in Nat /\ numHanded + 1 \in Tapes /\ numHanded + 1 \in 0..config.tapes
<1>1. config.tapes \in 1..MaxTapes
  BY ProcessingSettings DEF Settings
<1>2. QED
  BY <1>1, ProcessingBounds DEF RunProcessingChain, Tapes

\* The tape that is handed over.
LEMMA HandingKeepsPlaces ==
  ASSUME Base, RunProcessingChain, NEW t, t = numHanded + 1, NEW r, r = FirstProcessor
  PROVE  /\ PlacesInv'
         /\ t \in Tapes
         /\ tape' = tape /\ pc' = pc /\ numHanded' = t
         /\ \A v \in Workers : tape[v] # t
         /\ \A p \in Processors : Waiting(p)' \subseteq Waiting(p) \cup {t}
         /\ \A p \in Processors : t \in Waiting(p)' => p = r /\ p # "Reporting"
         /\ \A u \in Tapes : u # t => fate'[u] = fate[u] /\ reportedAs'[u] = reportedAs[u]
         /\ fate'[t] = "reported" =>
              r = "Reporting" /\ reportedAs'[t] = File(m_fileIdentifier[t], m_fileExtension'[t])
<1>1. t \in Tapes /\ t > numHanded /\ numHanded \in Nat /\ \A u \in Tapes : u <= numHanded => u <= t /\ u # t
  BY HandedTape DEF Base, Tapes
<1>2. AddAudioTape(r, t) /\ numHanded' = t /\ tape' = tape /\ pc' = pc
  BY DEF RunProcessingChain
<1>3. /\ \A p \in Processors : t \notin Waiting(p)
      /\ \A v \in Workers : tape[v] # t
      /\ fate[t] = "in"
      /\ \A p \in Processors : \A i, j \in 1..Len(m_audioTapeQueue[p]) :
           m_audioTapeQueue[p][i] = m_audioTapeQueue[p][j] => i = j
  <2>1. \A p \in Processors : Waiting(p) \subseteq Tapes
    BY DEF Base, PlacesInv, PlacesType, Waiting
  <2>2. \A p \in Processors : t \notin Waiting(p)
    BY <2>1, <1>1 DEF Base, PlacesInv, OnePlace
  <2>3. \A v \in Workers : tape[v] # t
    BY <1>1 DEF Base, PlacesInv, OnePlace, Tapes, NULL
  <2>4. QED
    BY <2>2, <2>3, <1>1 DEF Base, PlacesInv, OnePlace, Fresh
<1>4. /\ m_audioTapeQueue' \in [Processors -> Seq(Tapes)]
      /\ fate' \in [Tapes -> {"in", "end", "reported", "refused", "failed"}]
      /\ reportedAs' = [u \in Tapes |-> reportedAs'[u]]
      /\ \A p \in Processors : \A i, j \in 1..Len(m_audioTapeQueue'[p]) :
           m_audioTapeQueue'[p][i] = m_audioTapeQueue'[p][j] => i = j
      /\ \A p \in Processors : Waiting(p)' \subseteq Waiting(p) \cup {t}
      /\ \A p \in Processors : t \in Waiting(p)' =>
           p = r /\ p # "Reporting" /\ fate'[t] = "in" /\ reportedAs' = reportedAs
      /\ \A u \in Tapes : u # t => fate'[u] = fate[u] /\ reportedAs'[u] = reportedAs[u]
      /\ fate'[t] = "reported" =>
           r = "Reporting" /\ reportedAs'[t] = File(m_fileIdentifier[t], m_fileExtension'[t])
  BY <1>1, <1>2, <1>3, Sending DEF Base, PlacesInv
<1>5. PlacesType'
  BY <1>2, <1>4 DEF Base, PlacesInv, PlacesType
<1>6. PopIsIdle'
  BY <1>2 DEF Base, PlacesInv, PopIsIdle
<1>7. OnePlace'
  <2>1. \A p \in Processors : Waiting(p) \subseteq Tapes
    BY DEF Base, PlacesInv, PlacesType, Waiting
  <2>2. \A p, q \in Processors : p # q => Waiting(p)' \cap Waiting(q)' = {}
    BY <1>4 DEF Base, PlacesInv, OnePlace
  <2>3. \A v \in Workers : \A p \in Processors : tape'[v] \notin Waiting(p)'
    BY <1>2, <1>3, <1>4 DEF Base, PlacesInv, OnePlace
  <2>4. \A v, u \in Workers : tape'[v] = tape'[u] /\ tape'[v] # NULL => v = u
    BY <1>2 DEF Base, PlacesInv, OnePlace
  <2>5. \A p \in Processors : \A u \in Waiting(p)' : u <= numHanded' /\ fate'[u] = "in"
    BY <2>1, <1>1, <1>2, <1>4 DEF Base, PlacesInv, OnePlace, Tapes
  <2>6. \A v \in Workers : tape'[v] # NULL => tape'[v] <= numHanded' /\ fate'[tape'[v]] = "in"
    BY <1>1, <1>2, <1>3, <1>4 DEF Base, PlacesInv, PlacesType, OnePlace
  <2>7. QED
    BY <1>4, <2>2, <2>3, <2>4, <2>5, <2>6 DEF OnePlace
<1>8. QED
  BY <1>1, <1>2, <1>3, <1>4, <1>5, <1>6, <1>7 DEF PlacesInv
-----------------------------------------------------------------------------
(* The names of the tapes                                                  *)

\* The step leaves the names and the slips of tape u alone.
SameNames(u) ==
  /\ m_fileIdentifier'[u] = m_fileIdentifier[u]
  /\ m_fileExtension'[u] = m_fileExtension[u]
  /\ m_filename'[u] = m_filename[u]
  /\ u \in unflushed' <=> u \in unflushed
  /\ u \in misnamed' <=> u \in misnamed

\* The identifiers that TapeFileNaming may choose.
LEMMA FinalIds ==
  ASSUME NEW t \in Tapes, NEW id \in FinalIdentifiers(t), m_fileIdentifier[t] \in Ids(t)
  PROVE  /\ id \in Ids(t)
         /\ \/ id = m_fileIdentifier[t]
            \/ id = WithUid(Configured, t)
            \/ id = WithUid(m_fileIdentifier[t], t)
            \/ id = Configured /\ ~There(File(Configured, m_fileExtension[t]))
BY IdsDiffer DEF FinalIdentifiers, PreventFileIdentifierCollision

LEMMA UnchangedNames ==
  ASSUME UNCHANGED <<nameVars, slipVars>>, FilesType,
         outOpen' \in [BatchThreads -> BOOLEAN], numSamplesOut' \in [BatchThreads -> BOOLEAN]
  PROVE  FilesType' /\ \A u \in Tapes : SameNames(u)
BY DEF nameVars, slipVars, FilesType, SameNames

LEMMA NamesOfSelector ==
  ASSUME FilesType, PlacesInv, StepsOK, Selector
  PROVE  /\ FilesType' /\ StepsOK'
         /\ \A u \in Tapes : u # tape["DirectionSelector"] => SameNames(u)
<1> DEFINE w == "DirectionSelector"
<1>0. w \in Workers /\ w \notin BatchThreads /\ pc \in [Workers -> Steps]
  BY ThreadsDiffer DEF PlacesInv, PlacesType, Workers
<1>1. CASE PopSelector
  <2>1. FilesType' /\ \A u \in Tapes : SameNames(u)
    BY <1>1, UnchangedNames DEF PopSelector, outVars, FilesType
  <2>2. pc' = [pc EXCEPT ![w] = "rename"]
    BY <1>1 DEF PopSelector, Pop
  <2>3. QED
    BY <1>0, <2>1, <2>2 DEF StepsOK
<1>2. CASE MoveAside
  <2>1. PICK t \in Tapes : t = tape[w]
    BY <1>0, <1>2 DEF MoveAside, PlacesInv, PlacesType, PopIsIdle
  <2>2. /\ m_fileExtension' = [m_fileExtension EXCEPT ![t] = "tmp"]
        /\ m_filename' = [m_filename EXCEPT ![t] = Tmp(t)]
        /\ UNCHANGED <<outOpen, numSamplesOut, m_fileIdentifier, unflushed, misnamed>>
        /\ \E s \in {"rewrite", "pop"} : pc' = [pc EXCEPT ![w] = s]
    BY <1>2, <2>1 DEF MoveAside, Proceed, GiveUp, Again, outVars, slipVars
  <2>3. Tmp(t) \in UNION {FileNames(u) : u \in Tapes}
    <3>1. PICK u \in Tapes : m_fileIdentifier[t] \in Ids(u)
      BY DEF FilesType
    <3>2. Tmp(t) \in FileNames(u)
      BY <3>1, FileParts DEF Tmp, Extensions
    <3>3. QED
      BY <3>2
  <2>4. FilesType'
    BY <2>2, <2>3 DEF FilesType, Extensions
  <2>5. \A u \in Tapes : u # t => SameNames(u)
    BY <2>2 DEF FilesType, SameNames
  <2>6. StepsOK'
    BY <1>0, <2>2 DEF StepsOK
  <2>7. QED
    BY <2>1, <2>4, <2>5, <2>6
<1>3. CASE OpenRewrite
  <2>1. FilesType' /\ \A u \in Tapes : SameNames(u)
    BY <1>3, UnchangedNames DEF OpenRewrite, outVars, FilesType
  <2>2. \E s \in {"copy", "pop"} : pc' = [pc EXCEPT ![w] = s]
    BY <1>3 DEF OpenRewrite, Proceed, GiveUp, Again
  <2>3. QED
    BY <1>0, <2>1, <2>2 DEF StepsOK
<1>4. CASE CopyAndClose
  <2>1. PICK t \in Tapes : t = tape[w]
    BY <1>0, <1>4 DEF CopyAndClose, PlacesInv, PlacesType, PopIsIdle
  <2>2. UNCHANGED <<outOpen, numSamplesOut, m_fileIdentifier, misnamed>>
    BY <1>4 DEF CopyAndClose, outVars
  <2>3. pc' = [pc EXCEPT ![w] = "pop"]
    BY <1>4 DEF CopyAndClose, PassOn, GiveUp, Again
  <2>4. CASE /\ unflushed' \in {unflushed, unflushed \cup {t}}
             /\ m_fileExtension' = [m_fileExtension EXCEPT ![t] = "mcf"]
             /\ m_filename' = [m_filename EXCEPT ![t] = Mcf(t)]
    <3>1. Mcf(t) \in UNION {FileNames(u) : u \in Tapes}
      <4>1. PICK u \in Tapes : m_fileIdentifier[t] \in Ids(u)
        BY DEF FilesType
      <4>2. Mcf(t) \in FileNames(u)
        BY <4>1, FileParts DEF Mcf, Extensions
      <4>3. QED
        BY <4>2
    <3>2. FilesType'
      BY <2>2, <2>4, <3>1 DEF FilesType, Extensions
    <3>3. \A u \in Tapes : u # t => SameNames(u)
      BY <2>2, <2>4 DEF FilesType, SameNames
    <3>4. QED
      BY <1>0, <2>1, <2>3, <3>2, <3>3 DEF StepsOK
  <2>5. CASE UNCHANGED <<unflushed, m_fileExtension, m_filename>>
    BY <1>0, <2>2, <2>3, <2>5 DEF StepsOK, FilesType, SameNames
  <2>6. QED
    BY <1>4, <2>1, <2>4, <2>5 DEF CopyAndClose
<1>5. QED
  BY <1>1, <1>2, <1>3, <1>4 DEF Selector

LEMMA NamesOfBatch ==
  ASSUME FilesType, PlacesInv, StepsOK, NEW b \in BatchThreads, Batch(b)
  PROVE  /\ FilesType' /\ StepsOK' /\ (\A u \in Tapes : SameNames(u))
         /\ \A c \in BatchThreads : c # b =>
              outOpen'[c] = outOpen[c] /\ numSamplesOut'[c] = numSamplesOut[c]
<1>0. /\ pc \in [Workers -> Steps] /\ b \in Workers
      /\ outOpen \in [BatchThreads -> BOOLEAN] /\ numSamplesOut \in [BatchThreads -> BOOLEAN]
      /\ b \notin {"DirectionSelector", "TapeFileNaming", "CommandProcessing"}
  BY ThreadsDiffer DEF PlacesInv, PlacesType, Workers, FilesType
<1>1. UNCHANGED <<nameVars, slipVars>>
  BY DEF Batch, PopTape, OpenNative, OpenOutput, TranscodeChunk, CloseFiles, Finish, Catch
<1>2. \E s \in {"pop", "open", "read", "done", "catch"} : pc' = [pc EXCEPT ![b] = s]
  <2>1. CASE PopTape(b)
    BY <2>1 DEF PopTape, Pop
  <2>2. CASE OpenNative(b)
    BY <2>2 DEF OpenNative, Proceed
  <2>3. CASE OpenOutput(b) \/ TranscodeChunk(b)
    <3>1. pc[b] = "read" /\ (pc' = pc \/ pc' = [pc EXCEPT ![b] = "catch"])
      BY <2>3 DEF OpenOutput, TranscodeChunk, Proceed
    <3>2. QED
      BY <1>0, <3>1
  <2>4. CASE CloseFiles(b)
    BY <2>4 DEF CloseFiles, Proceed
  <2>5. CASE Finish(b) \/ Catch(b)
    BY <2>5 DEF Finish, Catch, PassOn, nextTape, GiveUp, Again
  <2>6. QED
    BY <2>1, <2>2, <2>3, <2>4, <2>5 DEF Batch
<1>3. StepsOK'
  BY <1>0, <1>2 DEF StepsOK, Workers
<1>4. /\ \E x \in BOOLEAN : outOpen' = [outOpen EXCEPT ![b] = x]
      /\ \E x \in BOOLEAN : numSamplesOut' = [numSamplesOut EXCEPT ![b] = x]
  <2>1. outOpen = [outOpen EXCEPT ![b] = outOpen[b]] /\ outOpen[b] \in BOOLEAN
    BY <1>0
  <2>2. numSamplesOut = [numSamplesOut EXCEPT ![b] = numSamplesOut[b]]
          /\ numSamplesOut[b] \in BOOLEAN
    BY <1>0
  <2>3. CASE PopTape(b)
    BY <2>3 DEF PopTape
  <2>4. CASE OpenNative(b) \/ Finish(b) \/ Catch(b)
    BY <2>1, <2>2, <2>4 DEF OpenNative, Finish, Catch, outVars
  <2>5. CASE OpenOutput(b)
    BY <2>1, <2>2, <2>5 DEF OpenOutput
  <2>6. CASE TranscodeChunk(b)
    BY <2>1, <2>2, <2>6 DEF TranscodeChunk
  <2>7. CASE CloseFiles(b)
    <3>1. CASE UNCHANGED outVars
      BY <2>1, <2>2, <3>1 DEF outVars
    <3>2. CASE /\ outOpen' = [outOpen EXCEPT ![b] = FALSE]
               /\ \E samples \in BOOLEAN : numSamplesOut' =
                    [numSamplesOut EXCEPT ![b] = @ \/ (samples /\ outOpen[b])]
      <4>1. \A samples \in BOOLEAN : (numSamplesOut[b] \/ (samples /\ outOpen[b])) \in BOOLEAN
        OBVIOUS
      <4>2. QED
        BY <3>2, <4>1
    <3>3. QED
      BY <2>7, <3>1, <3>2 DEF CloseFiles
  <2>8. QED
    BY <2>3, <2>4, <2>5, <2>6, <2>7 DEF Batch
<1>5. /\ outOpen' \in [BatchThreads -> BOOLEAN] /\ numSamplesOut' \in [BatchThreads -> BOOLEAN]
      /\ \A c \in BatchThreads : c # b =>
           outOpen'[c] = outOpen[c] /\ numSamplesOut'[c] = numSamplesOut[c]
  BY <1>0, <1>4
<1>6. QED
  BY <1>1, <1>3, <1>5, UnchangedNames

LEMMA NamesOfNaming ==
  ASSUME FilesType, PlacesInv, StepsOK, Naming
  PROVE  /\ FilesType' /\ StepsOK'
         /\ UNCHANGED outVars
         /\ \A u \in Tapes : u # tape["TapeFileNaming"] => SameNames(u)
<1> DEFINE w == "TapeFileNaming"
<1>0. w \in Workers /\ w \notin BatchThreads /\ pc \in [Workers -> Steps]
  BY ThreadsDiffer DEF PlacesInv, PlacesType, Workers
<1>1. CASE PopNaming \/ PassNamed
  <2>1. UNCHANGED <<outVars, nameVars, slipVars>>
    BY <1>1 DEF PopNaming, PassNamed
  <2>2. FilesType' /\ \A u \in Tapes : SameNames(u)
    BY <2>1, UnchangedNames DEF outVars, FilesType
  <2>3. \E s \in {"name", "pop"} : pc' = [pc EXCEPT ![w] = s]
    BY <1>1 DEF PopNaming, Pop, PassNamed, PassOn, Again
  <2>4. QED
    BY <1>0, <2>1, <2>2, <2>3 DEF StepsOK
<1>2. CASE NameFile
  <2>1. PICK t \in Tapes : t = tape[w]
    BY <1>0, <1>2 DEF NameFile, PlacesInv, PlacesType, PopIsIdle
  <2>2. PICK id \in FinalIdentifiers(t) :
          /\ m_fileIdentifier' = [m_fileIdentifier EXCEPT ![t] = id]
          /\ misnamed' = misnamed \/ misnamed' = misnamed \cup {t}
    BY <1>2, <2>1 DEF NameFile
  <2>3. UNCHANGED <<outVars, m_fileExtension, m_filename, unflushed>>
    BY <1>2 DEF NameFile
  <2>4. id \in UNION {Ids(u) : u \in Tapes}
    BY IdsDiffer DEF FinalIdentifiers, PreventFileIdentifierCollision, FilesType
  <2>5. FilesType'
    BY <2>2, <2>3, <2>4 DEF FilesType, outVars
  <2>6. \A u \in Tapes : u # t => SameNames(u)
    BY <2>2, <2>3 DEF FilesType, SameNames
  <2>7. pc' = [pc EXCEPT ![w] = "pass"]
    BY <1>2 DEF NameFile
  <2>8. QED
    BY <1>0, <2>1, <2>3, <2>5, <2>6, <2>7 DEF StepsOK
<1>3. QED
  BY <1>1, <1>2 DEF Naming

LEMMA NamesOfCommand ==
  ASSUME FilesType, PlacesInv, StepsOK, Command
  PROVE  /\ FilesType' /\ StepsOK'
         /\ UNCHANGED outVars
         /\ \A u \in Tapes : u # tape["CommandProcessing"] => SameNames(u)
<1> DEFINE w == "CommandProcessing"
<1>0. w \in Workers /\ w \notin BatchThreads /\ pc \in [Workers -> Steps]
  BY ThreadsDiffer DEF PlacesInv, PlacesType, Workers
<1>1. CASE PopCommand \/ PassCommanded \/ RenameInput \/ RunCommand
  <2>1. UNCHANGED <<outVars, nameVars, slipVars>>
    BY <1>1 DEF PopCommand, PassCommanded, RenameInput, RunCommand
  <2>2. FilesType' /\ \A u \in Tapes : SameNames(u)
    BY <2>1, UnchangedNames DEF outVars, FilesType
  <2>3. \E s \in {"pop", "pass", "rename", "run", "check"} : pc' = [pc EXCEPT ![w] = s]
    BY <1>1 DEF PopCommand, Pop, PassCommanded, PassOn, Again, RenameInput, RunCommand,
                Proceed, GiveUp
  <2>4. QED
    BY <1>0, <2>1, <2>2, <2>3 DEF StepsOK
<1>2. CASE CheckOutput
  <2>1. PICK t \in Tapes : t = tape[w]
    BY <1>0, <1>2 DEF CheckOutput, PlacesInv, PlacesType, PopIsIdle
  <2>2. /\ \/ m_fileExtension' = [m_fileExtension EXCEPT ![t] = "path of gsm.wav"]
           \/ m_fileExtension' = m_fileExtension
        /\ UNCHANGED <<outVars, m_fileIdentifier, m_filename, slipVars>>
    BY <1>2, <2>1 DEF CheckOutput
  <2>3. FilesType'
    BY <2>2 DEF FilesType, outVars, slipVars, Extensions
  <2>4. \A u \in Tapes : u # t => SameNames(u)
    BY <2>2 DEF FilesType, SameNames, slipVars
  <2>5. \E s \in {"pop", "pass"} : pc' = [pc EXCEPT ![w] = s]
    BY <1>2 DEF CheckOutput, Proceed, GiveUp, Again
  <2>6. StepsOK'
    BY <1>0, <2>5 DEF StepsOK
  <2>7. UNCHANGED outVars
    BY <2>2
  <2>8. QED
    BY <2>1, <2>3, <2>4, <2>6, <2>7
<1>3. QED
  BY <1>1, <1>2 DEF Command

\* The four threads and the capture.
LEMMA WhoSteps ==
  ASSUME Next
  PROVE  \/ RunProcessingChain
         \/ Selector \/ Naming \/ Command
         \/ \E b \in BatchThreads : Batch(b)
BY DEF Next

\* The tapes not yet handed over stay as they are.
LEMMA BaseOfThread ==
  ASSUME Base, NEW w \in Workers, Motion(w), FilesType', StepsOK',
         \A u \in Tapes : u # tape[w] => SameNames(u)
  PROVE  Base'
<1>1. config' = config /\ numHanded' = numHanded
  BY DEF Motion, Taking, Keeping, Dropping, Passing
<1>2. PlacesInv' /\ \A u \in Tapes : u # tape[w] => fate'[u] = fate[u]
  <2>1. PlacesInv
    BY DEF Base
  <2>2. CASE Taking(w)
    BY <2>1, <2>2, TakingKeepsPlaces DEF Taking, endVars
  <2>3. CASE Keeping(w)
    BY <2>1, <2>3, KeepingKeepsPlaces
  <2>4. CASE Dropping(w)
    BY <2>1, <2>4, DroppingKeepsPlaces
  <2>5. CASE Passing(w)
    BY <2>1, <2>5, PassingKeepsPlaces
  <2>6. QED
    BY <2>2, <2>3, <2>4, <2>5 DEF Motion
<1>3. Fresh'
  <2>1. \A t \in Tapes : t > numHanded => t # tape[w]
    BY DEF Base, PlacesInv, OnePlace, Tapes, NULL
  <2>2. QED
    BY <1>1, <1>2, <2>1 DEF Base, Fresh, SameNames
<1>4. QED
  BY <1>1, <1>2, <1>3 DEF Base

LEMMA BaseStep ==
  ASSUME Base, Next
  PROVE  Base'
<1>1. FilesType /\ PlacesInv /\ StepsOK /\ PlacesType
  BY DEF Base, PlacesInv
<1>2. CASE RunProcessingChain
  <2>1. PICK t : t = numHanded + 1
    OBVIOUS
  <2>2. t \in Tapes /\ t \in 0..config.tapes /\ numHanded \in Nat
    BY <1>2, <2>1, HandedTape DEF Base
  <2>3. /\ PlacesInv' /\ numHanded' = t /\ pc' = pc
        /\ \A u \in Tapes : u # t => fate'[u] = fate[u]
    BY <1>2, <2>1, HandingKeepsPlaces
  <2>4. UNCHANGED <<config, outVars, nameVars, slipVars>>
    BY <1>2 DEF RunProcessingChain
  <2>5. FilesType' /\ \A u \in Tapes : SameNames(u)
    BY <1>1, <2>4, UnchangedNames DEF outVars, FilesType
  <2>6. StepsOK'
    BY <1>1, <2>3 DEF StepsOK
  <2>7. Fresh'
    <3>1. \A u \in Tapes : u > t => u > numHanded /\ u # t
      BY <2>1, <2>2 DEF Tapes
    <3>2. QED
      BY <2>3, <2>5, <3>1 DEF Base, Fresh, SameNames
  <2>8. QED
    BY <2>2, <2>3, <2>4, <2>5, <2>6, <2>7 DEF Base
<1>3. CASE Selector
  BY <1>1, <1>3, MotionOfSelector, NamesOfSelector, BaseOfThread DEF Workers
<1>4. CASE \E b \in BatchThreads : Batch(b)
  BY <1>1, <1>4, MotionOfBatch, NamesOfBatch, BaseOfThread DEF Workers
<1>5. CASE Naming
  BY <1>1, <1>5, MotionOfNaming, NamesOfNaming, BaseOfThread DEF Workers, FilesType
<1>6. CASE Command
  BY <1>1, <1>6, MotionOfCommand, NamesOfCommand, BaseOfThread DEF Workers
<1>7. QED
  BY <1>2, <1>3, <1>4, <1>5, <1>6, WhoSteps
-----------------------------------------------------------------------------
(* What a step on one tape leaves of the others                            *)

\* The settings do not change.
LEMMA SettingsStay ==
  ASSUME config' = config
  PROVE  /\ \A p : InChain(p)' <=> InChain(p)
         /\ \A p, q : Before(p, q)' <=> Before(p, q)
         /\ \A p, q : Upto(p, q)' <=> Upto(p, q)
         /\ NamedOnce' <=> NamedOnce
         /\ Commanded' <=> Commanded
         /\ KeepsFiles' <=> KeepsFiles
         /\ ReportsTranscoded' <=> ReportsTranscoded
         /\ ReportsCommanded' <=> ReportsCommanded
         /\ InOrder' <=> InOrder
<1>1. Chain' = Chain
  BY DEF Chain
<1>2. \A p : InChain(p)' <=> InChain(p)
  BY <1>1 DEF InChain
<1>3. \A p, q : Before(p, q)' <=> Before(p, q)
  BY <1>1 DEF Before
<1>4. \A p, q : Upto(p, q)' <=> Upto(p, q)
  BY <1>3 DEF Upto
<1>5. NamedOnce' <=> NamedOnce
  BY <1>1 DEF NamedOnce
<1>6. Commanded' <=> Commanded
  BY <1>2 DEF Commanded
<1>7. KeepsFiles' <=> KeepsFiles
  BY <1>3, <1>5, <1>6 DEF KeepsFiles
<1>8. ReportsTranscoded' <=> ReportsTranscoded
  BY <1>2, <1>3, <1>7 DEF ReportsTranscoded
<1>9. ReportsCommanded' <=> ReportsCommanded
  BY <1>3, <1>5 DEF ReportsCommanded
<1>10. InOrder' <=> InOrder
  BY <1>3, <1>5 DEF InOrder
<1>11. QED
  BY <1>2, <1>3, <1>4, <1>5, <1>6, <1>7, <1>8, <1>9, <1>10

\* The settings of the properties name the tapes when the files have their names.
LEMMA SettingsInOrder ==
  KeepsFiles \/ ReportsTranscoded \/ ReportsCommanded => InOrder
<1>1. ASSUME config.command # "empty", ~Commanded
      PROVE  ~Before("TapeFileNaming", "CommandProcessing")
  BY <1>1 DEF Commanded, InChain, Before
<1>2. QED
  BY <1>1 DEF KeepsFiles, ReportsTranscoded, ReportsCommanded, InOrder

\* The step creates, changes and removes files of tape t only.
TouchesOnly(t) ==
  \A f : \/ f \in DOMAIN disk /\ f \in DOMAIN disk' /\ disk'[f] = disk[f]
         \/ /\ f \in DOMAIN disk => disk[f].of = t
            /\ f \in DOMAIN disk' => disk'[f].of = t

SameFiles(u) ==
  /\ \A f \in DOMAIN disk : disk[f].of = u => f \in DOMAIN disk' /\ disk'[f] = disk[f]
  /\ \A f \in DOMAIN disk' : disk'[f].of = u => f \in DOMAIN disk /\ disk'[f] = disk[f]

LEMMA OthersAreSpared ==
  ASSUME NEW t, TouchesOnly(t), NEW u, u # t
  PROVE  SameFiles(u)
BY DEF TouchesOnly, SameFiles

\* A file with the identifier of the capture of a tape is of that tape.
LEMMA CapturedIsOwn ==
  ASSUME FilesOK, NEW u \in Tapes, NEW f \in DOMAIN disk, f.id = Captured(u)
  PROVE  disk[f].of = u
<1>1. f \in FileNames(disk[f].of)
  BY DEF FilesOK
<1>2. f.id \in Ids(disk[f].of)
  BY <1>1, FileParts
<1>3. QED
  BY <1>2, IdsDiffer

LEMMA CapturedIsOwnAfter ==
  ASSUME FilesOK', NEW u \in Tapes, NEW f \in DOMAIN disk', f.id = Captured(u)
  PROVE  disk'[f].of = u
<1>1. f \in FileNames(disk'[f].of)
  BY DEF FilesOK
<1>2. f.id \in Ids(disk'[f].of)
  BY <1>1, FileParts
<1>3. QED
  BY <1>2, IdsDiffer

\* What is said of a tape stays true in a step that leaves its names and files alone.
LEMMA SaidOfOthers ==
  ASSUME config' = config, NEW u \in Tapes, SameNames(u), SameFiles(u)
  PROVE  /\ \A f : HeldBy(f, u) => HeldBy(f, u)'
         /\ \A f : OwnFile(f, u) <=> OwnFile(f, u)'
         /\ \A p : Arrived(p, u) => Arrived(p, u)'
         /\ \A p : Leaving(p, u) => Leaving(p, u)'
         /\ Aside(u) => Aside(u)'
<1>1. \A f : OwnFile(f, u) <=> OwnFile(f, u)'
  BY DEF OwnFile, SameFiles
<1>2. \A f : HeldBy(f, u) => HeldBy(f, u)'
  <2>1. \A f : disk[f] = [of |-> u, whole |-> TRUE] => disk[f].of = u
    OBVIOUS
  <2>2. QED
    BY <2>1 DEF HeldBy, There, SameFiles
<1>3. Unnamed(u) => Unnamed(u)'
  BY <1>1 DEF Unnamed, SameNames, OwnFile
<1>4. NoTmp(u) => NoTmp(u)'
  BY <1>1 DEF NoTmp, OwnFile
<1>5. Captures(u) => Captures(u)'
  BY <1>2 DEF Captures, SameNames
<1>6. Transcoded(u) => Transcoded(u)'
  BY <1>2 DEF Transcoded, SameNames
<1>7. HasOutput(u) => HasOutput(u)'
  BY <1>1 DEF HasOutput, OwnFile
<1>8. \A p : Arrived(p, u) => Arrived(p, u)'
  BY <1>3, <1>4, <1>5, <1>6, <1>7, SettingsStay DEF Arrived, SameNames
<1>9. \A p : Leaving(p, u) => Leaving(p, u)'
  BY <1>3, <1>4, <1>5, <1>6, <1>7, SettingsStay DEF Leaving, SameNames
<1>10. Aside(u) => Aside(u)'
  BY <1>1, <1>2, <1>3, <1>7, SettingsStay DEF Aside, SameNames, Tmp
<1>11. QED
  BY <1>1, <1>2, <1>8, <1>9, <1>10

\* A tape that arrives at the next processor.
LEMMA ArrivesNext ==
  ASSUME config \in Configs, config' = config, NamedOnce, NEW p, NEW t,
         NEW r \in Processors, r = NextProcessor(p), Leaving(p, t)'
  PROVE  Arrived(r, t)'
<1>1. InChain(r) /\ Before(p, r) /\ \A q : Before(q, r) => Upto(q, p)
  BY NextOfChain
<1>2. \A q : Upto(q, p) => Before(q, r)
  BY <1>1, BeforeIsAnOrder DEF Upto
<1>3. \A q : r = q \/ Before(r, q) => Before(p, q)
  BY <1>1, BeforeIsAnOrder
<1>4. QED
  BY <1>1, <1>2, <1>3, SettingsStay DEF Arrived, Leaving

WorkerOK(w) ==
  /\ w = "DirectionSelector" => SelectorOK
  /\ w \in BatchThreads => BatchOK(w)
  /\ w = "TapeFileNaming" => NamingOK
  /\ w = "CommandProcessing" => CommandOK

LEMMA PlacesByWorker ==
  /\ PlacesOK <=> /\ \A p \in Processors : \A t \in Waiting(p) : Arrived(p, t)
                  /\ \A w \in Workers : WorkerOK(w)
  /\ PlacesOK' <=> /\ \A p \in Processors : \A t \in Waiting(p)' : Arrived(p, t)'
                   /\ \A w \in Workers : WorkerOK(w)'
BY ThreadsDiffer DEF PlacesOK, WorkerOK, Workers

LEMMA CapturedStays ==
  ASSUME FilesOK, FilesOK', NEW u \in Tapes, SameFiles(u), NEW f, f.id = Captured(u)
  PROVE  There(f)' <=> There(f)
<1>1. There(f) => There(f)'
  BY CapturedIsOwn DEF There, SameFiles
<1>2. There(f)' => There(f)
  BY CapturedIsOwnAfter DEF There, SameFiles
<1>3. QED
  BY <1>1, <1>2

\* A tape that is with BatchProcessing or with a command still has its first name.
LEMMA FirstNames ==
  ASSUME InOrder, NEW t
  PROVE  /\ Arrived("BatchProcessing", t) =>
              /\ Unnamed(t) /\ m_fileIdentifier[t] = Captured(t)
              /\ Captures(t) /\ m_filename[t] = File(Captured(t), "mcf")
         /\ Arrived("CommandProcessing", t) /\ config.command # "empty" =>
              Unnamed(t) /\ m_fileIdentifier[t] = Captured(t)
BY DEF InOrder, Arrived, Unnamed, Captures

\* A thread that does not step keeps what is said of its tape.
LEMMA OtherWorkers ==
  ASSUME InOrder, FilesOK, FilesOK', PlacesInv, StepsOK, config' = config,
         NEW v \in Workers, WorkerOK(v), tape'[v] = tape[v], pc'[v] = pc[v],
         v \in BatchThreads => outOpen'[v] = outOpen[v] /\ numSamplesOut'[v] = numSamplesOut[v],
         tape[v] \in Tapes => SameNames(tape[v]) /\ SameFiles(tape[v])
  PROVE  WorkerOK(v)'
<1>1. CASE pc[v] = "pop"
  BY <1>1 DEF WorkerOK, SelectorOK, BatchOK, NamingOK, CommandOK
<1>2. CASE pc[v] # "pop"
  <2>1. PICK t \in Tapes : t = tape[v]
    BY <1>2 DEF PlacesInv, PlacesType, PopIsIdle
  <2>2. /\ SameNames(t) /\ SameFiles(t) /\ tape'[v] = t
        /\ m_fileIdentifier'[t] = m_fileIdentifier[t] /\ m_filename'[t] = m_filename[t]
        /\ t \in unflushed' <=> t \in unflushed
    BY <2>1 DEF SameNames
  <2>3. /\ \A f : HeldBy(f, t) => HeldBy(f, t)'
        /\ \A p : Arrived(p, t) => Arrived(p, t)'
        /\ \A p : Leaving(p, t) => Leaving(p, t)'
        /\ Aside(t) => Aside(t)'
    BY <2>2, SaidOfOthers
  <2>4. \A e : There(File(Captured(t), e))' <=> There(File(Captured(t), e))
    BY <2>2, CapturedStays, FileParts
  <2>5. ASSUME v = "DirectionSelector"
        PROVE  SelectorOK'
    <3>1. SelectorOK
      BY <2>5 DEF WorkerOK
    <3>2. pc[v] = "rename" => Arrived(v, t)'
      BY <2>1, <2>3, <2>5, <3>1 DEF SelectorOK
    <3>3. pc[v] \in {"rewrite", "copy"} => Aside(t) /\ Aside(t)' /\ m_fileIdentifier[t] = Captured(t)
      BY <2>1, <2>3, <2>5, <3>1 DEF SelectorOK, Aside
    <3>4. pc[v] \in {"rewrite", "copy"} => (There(Mcf(t))' <=> There(Mcf(t)))
      BY <2>2, <2>4, <3>3 DEF Mcf
    <3>5. QED
      BY <2>1, <2>2, <2>5, <3>1, <3>2, <3>3, <3>4 DEF SelectorOK
  <2>6. ASSUME v \in BatchThreads
        PROVE  BatchOK(v)'
    <3>1. BatchOK(v) /\ Arrived("BatchProcessing", t)
      BY <1>2, <2>1, <2>6 DEF WorkerOK, BatchOK
    <3>2. m_fileIdentifier[t] = Captured(t) /\ m_filename[t] = File(Captured(t), "mcf")
      BY <3>1, FirstNames
    <3>3. /\ There(m_filename[t])' <=> There(m_filename[t])
          /\ There(Storage(t))' <=> There(Storage(t))
      BY <2>2, <2>4, <3>2 DEF Storage
    <3>4. HeldBy(Storage(t), t) => HeldBy(Storage(t), t)'
      BY <2>2, <2>3, <3>2 DEF Storage
    <3>5. QED
      BY <2>1, <2>2, <2>3, <2>6, <3>1, <3>3, <3>4 DEF BatchOK
  <2>7. ASSUME v = "TapeFileNaming"
        PROVE  NamingOK'
    BY <2>1, <2>2, <2>3, <2>7 DEF WorkerOK, NamingOK
  <2>8. ASSUME v = "CommandProcessing"
        PROVE  CommandOK'
    <3>1. CommandOK
      BY <2>8 DEF WorkerOK
    <3>2. pc[v] = "run" => Arrived(v, t) /\ config.command # "empty"
      BY <2>1, <2>8, <3>1 DEF CommandOK
    <3>3. pc[v] = "run" => (There(CommandTmp(t))' <=> There(CommandTmp(t)))
      BY <2>2, <2>4, <2>8, <3>2, FirstNames DEF CommandTmp
    <3>4. QED
      BY <2>1, <2>2, <2>3, <2>8, <3>1, <3>3 DEF CommandOK
  <2>9. QED
    BY <2>5, <2>6, <2>7, <2>8 DEF WorkerOK
<1>3. QED
  BY <1>1, <1>2
-----------------------------------------------------------------------------
(* What a step on tape t must do                                           *)

\* It touches files of t only, under names of t, and does not lose the recording.
NewFilesOK(t) ==
  \A f \in DOMAIN disk' : disk'[f].of = t =>
    /\ disk'[f] \in [of : {t}, whole : BOOLEAN]
    /\ f \in FileNames(t)
    /\ f.ext \in {"mcf", "tmp"} /\ ~Before("DirectionSelector", "TapeFileNaming")
         => f.id = Captured(t)

Survives(t) ==
  KeepsFiles /\ ~config.failed /\ t \notin unflushed' => \E f \in DOMAIN disk' : HeldBy(f, t)'

Effect(t) ==
  /\ TouchesOnly(t)
  /\ m_fileIdentifier'[t] \in Ids(t)
  /\ m_fileExtension'[t] = "path of gsm.wav" => Commanded
  /\ t \in unflushed' => InChain("DirectionSelector")
  /\ NewFilesOK(t)

LEMMA FilesStayOK ==
  ASSUME FilesOK, config' = config, numHanded \in Nat, numHanded' \in Nat,
         numHanded <= numHanded', NEW t \in Tapes, t <= numHanded',
         Effect(t), \A u \in Tapes : u # t => SameNames(u)
  PROVE  FilesOK'
<1>1. \A u \in Tapes : /\ m_fileIdentifier'[u] \in Ids(u)
                       /\ m_fileExtension'[u] = "path of gsm.wav" => Commanded'
                       /\ u \in unflushed' => InChain("DirectionSelector")'
  BY SettingsStay DEF FilesOK, Effect, SameNames
<1>2. ASSUME NEW f \in DOMAIN disk'
      PROVE  /\ disk'[f] \in [of : 1..numHanded', whole : BOOLEAN]
             /\ f \in FileNames(disk'[f].of)
             /\ f.ext \in {"mcf", "tmp"} /\ ~Before("DirectionSelector", "TapeFileNaming")'
                  => f.id = Captured(disk'[f].of)
  <2>1. CASE disk'[f].of = t
    <3>1. t \in 1..numHanded'
      BY DEF Tapes
    <3>2. QED
      BY <2>1, <3>1, SettingsStay DEF Effect, NewFilesOK
  <2>2. CASE disk'[f].of # t
    <3>1. f \in DOMAIN disk /\ disk'[f] = disk[f]
      BY <2>2 DEF Effect, TouchesOnly
    <3>2. 1..numHanded \subseteq 1..numHanded'
      OBVIOUS
    <3>3. QED
      BY <3>1, <3>2, SettingsStay DEF FilesOK
  <2>3. QED
    BY <2>1, <2>2
<1>3. QED
  BY <1>1, <1>2 DEF FilesOK

\* The properties of the other tapes stay.
LEMMA PropertiesStay ==
  ASSUME RecordingSurvives, ReportedFileExists, CommandOutputVerified,
         config' = config, numHanded \in Nat, NEW t \in Tapes, TouchesOnly(t),
         numHanded' = numHanded \/ (numHanded' = t /\ t = numHanded + 1),
         \A u \in Tapes : u # t =>
           SameNames(u) /\ fate'[u] = fate[u] /\ reportedAs'[u] = reportedAs[u],
         numHanded' \in 0..MaxTapes,
         Survives(t),
         fate'[t] = "reported" => /\ ReportsTranscoded /\ t \notin misnamed'
                                       => HeldBy(reportedAs[t], t)'
                                  /\ ReportsCommanded => HasOutput(t)'
  PROVE  RecordingSurvives' /\ ReportedFileExists' /\ CommandOutputVerified'
<1>1. \A u \in Tapes : u # t =>
         /\ \A f : HeldBy(f, u) => HeldBy(f, u)'
         /\ \A f : OwnFile(f, u) <=> OwnFile(f, u)'
  BY OthersAreSpared, SaidOfOthers
<1>2. 1..numHanded' \subseteq Tapes /\ \A u \in 1..numHanded' : u # t => u \in 1..numHanded
  BY ProcessingBounds DEF Tapes
<1>3. RecordingSurvives'
  <2> SUFFICES ASSUME KeepsFiles, ~config.failed, NEW u \in 1..numHanded', u \notin unflushed'
               PROVE  \E f \in DOMAIN disk' : HeldBy(f, u)'
    BY SettingsStay DEF RecordingSurvives
  <2>1. CASE u = t
    BY <2>1 DEF Survives
  <2>2. CASE u # t
    <3>1. u \in Tapes /\ u \in (1..numHanded) \ unflushed
      BY <1>2, <2>2 DEF SameNames
    <3>2. PICK f : HeldBy(f, u)
      BY <3>1 DEF RecordingSurvives
    <3>3. HeldBy(f, u)' /\ f \in DOMAIN disk'
      BY <1>1, <2>2, <3>1, <3>2 DEF HeldBy, There
    <3>4. QED
      BY <3>3
  <2>3. QED
    BY <2>1, <2>2
<1>4. ReportedFileExists'
  <2> SUFFICES ASSUME ReportsTranscoded, NEW u \in Tapes, u \notin misnamed', fate'[u] = "reported"
               PROVE  HeldBy(reportedAs[u], u)'
    BY SettingsStay DEF ReportedFileExists
  <2>1. CASE u = t
    BY <2>1
  <2>2. CASE u # t
    <3>1. u \notin misnamed /\ fate[u] = "reported" /\ reportedAs'[u] = reportedAs[u]
      BY <2>2 DEF SameNames
    <3>2. HeldBy(reportedAs[u], u)
      BY <3>1 DEF ReportedFileExists
    <3>3. PICK f : f = reportedAs[u]
      OBVIOUS
    <3>4. HeldBy(f, u)'
      BY <1>1, <2>2, <3>2, <3>3
    <3>5. QED
      BY <3>1, <3>3, <3>4 DEF HeldBy, There
  <2>3. QED
    BY <2>1, <2>2
<1>5. CommandOutputVerified'
  <2> SUFFICES ASSUME ReportsCommanded, NEW u \in Tapes, fate'[u] = "reported"
               PROVE  \E f \in DOMAIN disk' : f.ext = "gsm.wav" /\ disk'[f].of = u
    BY SettingsStay DEF CommandOutputVerified
  <2>1. CASE u = t
    BY <2>1 DEF HasOutput, OwnFile
  <2>2. CASE u # t
    <3>1. fate[u] = "reported"
      BY <2>2
    <3>2. PICK f \in DOMAIN disk : f.ext = "gsm.wav" /\ disk[f].of = u
      BY <3>1 DEF CommandOutputVerified
    <3>3. OwnFile(f, u)'
      BY <1>1, <2>2, <3>2 DEF OwnFile
    <3>4. QED
      BY <3>2, <3>3 DEF OwnFile
  <2>3. QED
    BY <2>1, <2>2
<1>6. QED
  BY <1>3, <1>4, <1>5

\* Without the order of the names the properties say nothing.
LEMMA PropertiesNeedOrder ==
  ASSUME config' = config, ~InOrder
  PROVE  RecordingSurvives' /\ ReportedFileExists' /\ CommandOutputVerified'
BY SettingsStay, SettingsInOrder DEF RecordingSurvives, ReportedFileExists, CommandOutputVerified

\* A tape that is passed on to Reporting, with all that is promised of it.
LEMMA ReportedAsPromised ==
  ASSUME config \in Configs, config' = config, NamedOnce, NEW t \in Tapes,
         Arrived("Reporting", t)',
         reportedAs'[t] = File(m_fileIdentifier'[t], m_fileExtension'[t])
  PROVE  /\ ReportsTranscoded /\ t \notin misnamed' => HeldBy(reportedAs[t], t)'
         /\ ReportsCommanded => HasOutput(t)'
<1>1. ASSUME ReportsTranscoded, t \notin misnamed'
      PROVE  HeldBy(reportedAs[t], t)'
  <2>1. Before("BatchProcessing", "Reporting")
    BY <1>1 DEF ReportsTranscoded
  <2>2. Transcoded(t)'
    BY <1>1, <2>1, SettingsStay DEF Arrived
  <2>3. m_fileExtension'[t] = "wav" /\ HeldBy(File(m_fileIdentifier[t], "wav"), t)'
    BY <1>1, <2>2 DEF Transcoded
  <2>4. QED
    BY <2>3 DEF HeldBy, There
<1>2. ASSUME ReportsCommanded
      PROVE  HasOutput(t)'
  BY <1>2, SettingsStay DEF Arrived, ReportsCommanded
<1>3. QED
  BY <1>1, <1>2

\* What the invariant says of files and of the tapes in their places.
Rest ==
  /\ FilesOK /\ PlacesOK
  /\ RecordingSurvives /\ ReportedFileExists /\ CommandOutputVerified

\* A thread goes on with its tape, gives it up or passes it on.
LEMMA StepOfThread ==
  ASSUME Base, InOrder, Rest, NEW w \in Workers, NEW t \in Tapes, t = tape[w],
         config' = config, numHanded' = numHanded,
         \A c \in BatchThreads : c # w =>
           outOpen'[c] = outOpen[c] /\ numSamplesOut'[c] = numSamplesOut[c],
         \A u \in Tapes : u # t => SameNames(u),
         Effect(t), Survives(t),
         \/ Keeping(w) /\ WorkerOK(w)'
         \/ Dropping(w)
         \/ Passing(w) /\ Leaving(HomeOf(w), t)' /\ m_fileIdentifier'[t] = m_fileIdentifier[t]
  PROVE  Rest'
<1>1. /\ PlacesInv /\ StepsOK /\ config \in Configs /\ numHanded \in Nat
      /\ numHanded \in 0..MaxTapes /\ t <= numHanded /\ NamedOnce
      /\ \A v \in Workers : v # w => tape[v] # t
      /\ \A p \in Processors : t \notin Waiting(p) /\ Waiting(p) \subseteq Tapes
      /\ fate[t] = "in"
  <2>1. config.tapes \in 1..MaxTapes
    BY ProcessingSettings DEF Settings, Base
  <2>2. numHanded \in Nat /\ numHanded \in 0..MaxTapes
    BY <2>1, ProcessingBounds DEF Base
  <2>3. t # NULL
    BY DEF Tapes, NULL
  <2>4. \A p \in Processors : Waiting(p) \subseteq Tapes
    BY DEF Base, PlacesInv, PlacesType, Waiting
  <2>5. QED
    BY <2>2, <2>3, <2>4 DEF Base, PlacesInv, OnePlace, InOrder
<1>2. FilesOK'
  BY <1>1, FilesStayOK DEF Rest
<1>3. \A u \in Tapes : u # t => SameFiles(u)
  BY OthersAreSpared DEF Effect
<1>4. PICK r : r = NextProcessor(HomeOf(w))
  OBVIOUS
<1>5. /\ \A v \in Workers : v # w => tape'[v] = tape[v] /\ pc'[v] = pc[v]
      /\ \A p \in Processors : Waiting(p)' \subseteq Waiting(p) \cup {t}
      /\ \A p \in Processors : t \in Waiting(p)' =>
           p = r /\ Passing(w) /\ Leaving(HomeOf(w), t)'
      /\ \A u \in Tapes : u # t => fate'[u] = fate[u] /\ reportedAs'[u] = reportedAs[u]
      /\ fate'[t] = "reported" =>
           /\ Passing(w) /\ Leaving(HomeOf(w), t)' /\ r = "Reporting"
           /\ reportedAs'[t] = File(m_fileIdentifier'[t], m_fileExtension'[t])
      /\ WorkerOK(w)' \/ pc'[w] = "pop"
  <2>1. CASE Keeping(w) /\ WorkerOK(w)'
    BY <1>1, <2>1, KeepingKeepsPlaces
  <2>2. CASE Dropping(w)
    BY <1>1, <2>2, DroppingKeepsPlaces
  <2>3. CASE /\ Passing(w) /\ Leaving(HomeOf(w), t)'
             /\ m_fileIdentifier'[t] = m_fileIdentifier[t]
    BY <1>1, <1>4, <2>3, PassingKeepsPlaces
  <2>4. QED
    BY <2>1, <2>2, <2>3
<1>6. \A p \in Processors : \A u \in Waiting(p)' : Arrived(p, u)'
  <2> SUFFICES ASSUME NEW p \in Processors, NEW u \in Waiting(p)'
               PROVE  Arrived(p, u)'
    OBVIOUS
  <2>1. CASE u = t
    <3>1. p = r /\ Leaving(HomeOf(w), t)'
      BY <1>5, <2>1
    <3>2. QED
      BY <1>1, <1>4, <2>1, <3>1, ArrivesNext
  <2>2. CASE u # t
    <3>1. u \in Waiting(p) /\ u \in Tapes
      BY <1>1, <1>5, <2>2
    <3>2. Arrived(p, u)
      BY <3>1 DEF Rest, PlacesOK
    <3>3. QED
      BY <1>3, <2>2, <3>1, <3>2, SaidOfOthers
  <2>3. QED
    BY <2>1, <2>2
<1>7. \A v \in Workers : WorkerOK(v)'
  <2> SUFFICES ASSUME NEW v \in Workers
               PROVE  WorkerOK(v)'
    OBVIOUS
  <2>1. CASE v = w
    <3>1. pc'[w] = "pop" => WorkerOK(w)'
      BY DEF WorkerOK, SelectorOK, BatchOK, NamingOK, CommandOK
    <3>2. QED
      BY <1>5, <2>1, <3>1
  <2>2. CASE v # w
    <3>1. WorkerOK(v) /\ FilesOK
      BY PlacesByWorker DEF Rest
    <3>2. /\ tape'[v] = tape[v] /\ pc'[v] = pc[v] /\ tape[v] # t
          /\ v \in BatchThreads => outOpen'[v] = outOpen[v] /\ numSamplesOut'[v] = numSamplesOut[v]
      BY <1>1, <1>5, <2>2
    <3>3. tape[v] \in Tapes => SameNames(tape[v]) /\ SameFiles(tape[v])
      BY <1>3, <3>2
    <3>4. QED
      BY <1>1, <1>2, <3>1, <3>2, <3>3, OtherWorkers
  <2>3. QED
    BY <2>1, <2>2
<1>8. PlacesOK'
  BY <1>6, <1>7, PlacesByWorker
<1>9. fate'[t] = "reported" => /\ ReportsTranscoded /\ t \notin misnamed'
                                    => HeldBy(reportedAs[t], t)'
                               /\ ReportsCommanded => HasOutput(t)'
  <2> SUFFICES ASSUME fate'[t] = "reported"
               PROVE  /\ ReportsTranscoded /\ t \notin misnamed' => HeldBy(reportedAs[t], t)'
                      /\ ReportsCommanded => HasOutput(t)'
    OBVIOUS
  <2>1. /\ r = "Reporting" /\ Leaving(HomeOf(w), t)' /\ r \in Processors
        /\ reportedAs'[t] = File(m_fileIdentifier'[t], m_fileExtension'[t])
    BY <1>5 DEF Processors
  <2>2. Arrived("Reporting", t)'
    BY <1>1, <1>4, <2>1, ArrivesNext
  <2>3. QED
    BY <1>1, <2>1, <2>2, ReportedAsPromised
<1>10. RecordingSurvives' /\ ReportedFileExists' /\ CommandOutputVerified'
  <2>1. TouchesOnly(t) /\ numHanded' \in 0..MaxTapes
    BY <1>1 DEF Effect
  <2>2. \A u \in Tapes : u # t =>
          SameNames(u) /\ fate'[u] = fate[u] /\ reportedAs'[u] = reportedAs[u]
    BY <1>5
  <2>3. QED
    BY <1>1, <1>9, <2>1, <2>2, PropertiesStay DEF Rest
<1>11. QED
  BY <1>2, <1>8, <1>10 DEF Rest

\* A thread takes a tape.
LEMMA StepOfTaking ==
  ASSUME Base, InOrder, Rest, NEW w \in Workers, NEW t, t = tape'[w], Taking(w),
         UNCHANGED <<nameVars, slipVars, disk>>,
         \A c \in BatchThreads : c # w =>
           outOpen'[c] = outOpen[c] /\ numSamplesOut'[c] = numSamplesOut[c],
         Arrived(HomeOf(w), t)' => WorkerOK(w)'
  PROVE  Rest'
<1>1. config' = config /\ numHanded' = numHanded /\ fate' = fate /\ reportedAs' = reportedAs
  BY DEF Taking, endVars
<1>2. \A u \in Tapes : SameNames(u) /\ SameFiles(u)
  BY DEF SameNames, SameFiles, nameVars, slipVars
<1>3. /\ t \in Tapes /\ t \in Waiting(HomeOf(w)) /\ HomeOf(w) \in Processors
      /\ \A v \in Workers : v # w => tape'[v] = tape[v] /\ pc'[v] = pc[v]
      /\ \A p \in Processors : Waiting(p)' \subseteq Waiting(p) \ {t}
  BY TakingKeepsPlaces, HomesOK DEF Base
<1>4. \A p \in Processors : Waiting(p) \subseteq Tapes
  BY DEF Base, PlacesInv, PlacesType, Waiting
<1>5. \A p \in Processors : \A u \in Waiting(p) : Arrived(p, u)'
  BY <1>1, <1>2, <1>4, SaidOfOthers DEF Rest, PlacesOK
<1>6. FilesOK'
  BY <1>1, <1>2, SettingsStay DEF Rest, FilesOK, SameNames
<1>7. \A v \in Workers : WorkerOK(v)'
  <2>1. WorkerOK(w)'
    BY <1>3, <1>5
  <2>2. ASSUME NEW v \in Workers, v # w
        PROVE  WorkerOK(v)'
    <3>1. WorkerOK(v) /\ FilesOK /\ PlacesInv /\ StepsOK
      BY PlacesByWorker DEF Rest, Base
    <3>2. tape'[v] = tape[v] /\ pc'[v] = pc[v]
      BY <1>3, <2>2
    <3>3. v \in BatchThreads => outOpen'[v] = outOpen[v] /\ numSamplesOut'[v] = numSamplesOut[v]
      BY <2>2
    <3>4. QED
      BY <1>1, <1>2, <1>6, <3>1, <3>2, <3>3, OtherWorkers
  <2>3. QED
    BY <2>1, <2>2
<1>8. PlacesOK'
  BY <1>3, <1>5, <1>7, PlacesByWorker
<1>9. RecordingSurvives' /\ ReportedFileExists' /\ CommandOutputVerified'
  <2>1. UNCHANGED <<config, numHanded, fate, reportedAs, disk, unflushed, misnamed>>
    BY <1>1 DEF slipVars
  <2>2. \A f, u : HeldBy(f, u)' <=> HeldBy(f, u)
    BY <2>1 DEF HeldBy, There
  <2>3. RecordingSurvives'
    BY <2>1, <2>2, SettingsStay DEF Rest, RecordingSurvives
  <2>4. ReportedFileExists'
    <3>1. \A u : HeldBy(reportedAs[u], u)' <=> HeldBy(reportedAs[u], u)
      BY <2>1 DEF HeldBy, There
    <3>2. QED
      BY <2>1, <3>1, SettingsStay DEF Rest, ReportedFileExists
  <2>5. CommandOutputVerified'
    BY <2>1, SettingsStay DEF Rest, CommandOutputVerified
  <2>6. QED
    BY <2>3, <2>4, <2>5
<1>10. QED
  BY <1>6, <1>8, <1>9 DEF Rest

\* A tape is handed over with its capture file.
LEMMA StepOfHanding ==
  ASSUME Base, InOrder, Rest, RunProcessingChain
  PROVE  Rest'
<1>1. PICK t : t = numHanded + 1
  OBVIOUS
<1>2. PICK r : r = FirstProcessor
  OBVIOUS
<1>3. /\ t \in Tapes /\ t \in 0..config.tapes /\ numHanded \in Nat /\ t > numHanded
      /\ t \in 0..MaxTapes /\ config \in Configs /\ NamedOnce
  <2>1. t \in Tapes /\ t \in 0..config.tapes /\ numHanded \in Nat
    BY <1>1, HandedTape DEF Base
  <2>2. QED
    BY <1>1, <2>1, ProcessingBounds DEF Tapes, Base, InOrder
<1>4. /\ tape' = tape /\ pc' = pc /\ numHanded' = t
      /\ \A v \in Workers : tape[v] # t
      /\ \A p \in Processors : Waiting(p)' \subseteq Waiting(p) \cup {t}
      /\ \A p \in Processors : t \in Waiting(p)' => p = r
      /\ \A u \in Tapes : u # t => fate'[u] = fate[u] /\ reportedAs'[u] = reportedAs[u]
      /\ fate'[t] = "reported" =>
           r = "Reporting" /\ reportedAs'[t] = File(m_fileIdentifier[t], m_fileExtension'[t])
  BY <1>1, <1>2, HandingKeepsPlaces
<1>5. PICK f : f = File(Captured(t), "mcf")
  OBVIOUS
<1>6. /\ m_fileIdentifier[t] = Captured(t) /\ m_fileExtension[t] = "wav" /\ m_filename[t] = f
      /\ t \notin unflushed
  BY <1>3, <1>5 DEF Base, Fresh
<1>7. /\ UNCHANGED <<config, outVars, nameVars, slipVars>>
      /\ disk' = Written(disk, f, [of |-> t, whole |-> TRUE])
  BY <1>1, <1>6 DEF RunProcessingChain
<1>8. /\ DOMAIN disk' = DOMAIN disk \cup {f}
      /\ disk'[f] = [of |-> t, whole |-> TRUE]
      /\ \A g \in DOMAIN disk : g # f => disk'[g] = disk[g]
  <2>1. PICK rec : rec = [of |-> t, whole |-> TRUE]
    OBVIOUS
  <2>2. PICK d : d = disk
    OBVIOUS
  <2>3. /\ DOMAIN Written(d, f, rec) = DOMAIN d \cup {f}
        /\ Written(d, f, rec)[f] = rec
        /\ \A g \in DOMAIN d : g # f => Written(d, f, rec)[g] = d[g]
    BY DEF Written
  <2>4. disk' = Written(d, f, rec)
    BY <1>7, <2>1, <2>2
  <2>5. QED
    BY <2>1, <2>2, <2>3, <2>4
<1>9. \A g \in DOMAIN disk : disk[g].of # t
  <2>1. \A g \in DOMAIN disk : disk[g] \in [of : 1..numHanded, whole : BOOLEAN]
    BY Zenon DEF Rest, FilesOK
  <2>2. t \notin 1..numHanded
    BY <1>3
  <2>3. QED
    BY <2>1, <2>2
<1>10. f \notin DOMAIN disk /\ f.id = Captured(t) /\ f.ext = "mcf" /\ f \in FileNames(t)
  <2>1. "mcf" \in Extensions /\ Captured(t) \in Ids(t)
    BY IdsDiffer DEF Extensions
  <2>2. f.id = Captured(t) /\ f.ext = "mcf" /\ f \in FileNames(t)
    BY <1>5, <2>1, FileParts
  <2>3. f \in DOMAIN disk => disk[f].of = t
    BY <1>3, <2>2, CapturedIsOwn DEF Rest
  <2>4. QED
    BY <1>9, <2>2, <2>3
<1>11. \A u \in Tapes : SameNames(u)
  BY <1>7 DEF SameNames, nameVars, slipVars
<1>12. \A g : OwnFile(g, t)' <=> g = f
  BY <1>8, <1>9, <1>10 DEF OwnFile
<1>13. HeldBy(f, t)'
  BY <1>8 DEF HeldBy, There
<1>14. Effect(t)
  <2>1. TouchesOnly(t)
    BY <1>8, <1>10 DEF TouchesOnly
  <2>2. NewFilesOK(t)
    <3>1. [of |-> t, whole |-> TRUE] \in [of : {t}, whole : BOOLEAN]
      OBVIOUS
    <3>2. QED
      BY <1>8, <1>9, <1>10, <3>1 DEF NewFilesOK
  <2>3. m_fileIdentifier'[t] \in Ids(t)
    BY <1>6, <1>3, <1>11, IdsDiffer DEF SameNames
  <2>4. m_fileExtension'[t] # "path of gsm.wav" /\ t \notin unflushed'
    BY <1>3, <1>6, <1>11 DEF SameNames
  <2>5. QED
    BY <2>1, <2>2, <2>3, <2>4 DEF Effect
<1>15. Survives(t)
  BY <1>8, <1>13 DEF Survives
<1>16. /\ m_fileIdentifier'[t] = Captured(t) /\ m_fileExtension'[t] = "wav"
       /\ m_filename'[t] = f
  BY <1>3, <1>6, <1>11 DEF SameNames
<1>17. r \in Processors => Arrived(r, t)'
  <2> SUFFICES ASSUME r \in Processors
               PROVE  Arrived(r, t)'
    OBVIOUS
  <2>1. InChain(r) /\ \A q : ~Before(q, r)
    BY <1>2, <1>3, FirstOfChain
  <2>2. Unnamed(t)'
    BY <1>10, <1>12, <1>16 DEF Unnamed, OwnFile
  <2>3. NoTmp(t)'
    BY <1>10, <1>12 DEF NoTmp, OwnFile
  <2>4. Captures(t)'
    BY <1>5, <1>13, <1>16 DEF Captures
  <2>5. QED
    BY <1>7, <1>16, <2>1, <2>2, <2>3, <2>4, SettingsStay DEF Arrived
<1>18. FilesOK'
  BY <1>3, <1>4, <1>7, <1>11, <1>14, FilesStayOK DEF Rest
<1>19. \A u \in Tapes : u # t => SameFiles(u)
  BY <1>14, OthersAreSpared DEF Effect
<1>20. \A p \in Processors : \A u \in Waiting(p)' : Arrived(p, u)'
  <2> SUFFICES ASSUME NEW p \in Processors, NEW u \in Waiting(p)'
               PROVE  Arrived(p, u)'
    OBVIOUS
  <2>1. CASE u = t
    BY <1>4, <1>17, <2>1
  <2>2. CASE u # t
    <3>1. u \in Waiting(p) /\ u \in Tapes
      <4>1. Waiting(p) \subseteq Tapes
        BY DEF Base, PlacesInv, PlacesType, Waiting
      <4>2. QED
        BY <1>4, <2>2, <4>1
    <3>2. Arrived(p, u)
      BY <3>1 DEF Rest, PlacesOK
    <3>3. QED
      BY <1>7, <1>11, <1>19, <2>2, <3>1, <3>2, SaidOfOthers
  <2>3. QED
    BY <2>1, <2>2
<1>21. \A v \in Workers : WorkerOK(v)'
  <2> SUFFICES ASSUME NEW v \in Workers
               PROVE  WorkerOK(v)'
    OBVIOUS
  <2>1. WorkerOK(v) /\ FilesOK /\ PlacesInv /\ StepsOK
    BY PlacesByWorker DEF Rest, Base
  <2>2. tape'[v] = tape[v] /\ pc'[v] = pc[v]
    BY <1>4
  <2>3. v \in BatchThreads => outOpen'[v] = outOpen[v] /\ numSamplesOut'[v] = numSamplesOut[v]
    BY <1>7 DEF outVars
  <2>4. tape[v] \in Tapes => SameNames(tape[v]) /\ SameFiles(tape[v])
    BY <1>4, <1>11, <1>19
  <2>5. QED
    BY <1>7, <1>18, <2>1, <2>2, <2>3, <2>4, OtherWorkers
<1>22. PlacesOK'
  BY <1>20, <1>21, PlacesByWorker
<1>23. fate'[t] = "reported" => /\ ReportsTranscoded /\ t \notin misnamed'
                                     => HeldBy(reportedAs[t], t)'
                                /\ ReportsCommanded => HasOutput(t)'
  <2> SUFFICES ASSUME fate'[t] = "reported"
               PROVE  /\ ReportsTranscoded /\ t \notin misnamed' => HeldBy(reportedAs[t], t)'
                      /\ ReportsCommanded => HasOutput(t)'
    OBVIOUS
  <2>1. /\ Arrived("Reporting", t)'
        /\ reportedAs'[t] = File(m_fileIdentifier'[t], m_fileExtension'[t])
    BY <1>4, <1>6, <1>16, <1>17 DEF Processors
  <2>2. QED
    BY <1>3, <1>7, <2>1, ReportedAsPromised
<1>24. RecordingSurvives' /\ ReportedFileExists' /\ CommandOutputVerified'
  <2>1. TouchesOnly(t)
    BY <1>14 DEF Effect
  <2>2. \A u \in Tapes : u # t =>
          SameNames(u) /\ fate'[u] = fate[u] /\ reportedAs'[u] = reportedAs[u]
    BY <1>4, <1>11
  <2>3. numHanded' = t /\ t = numHanded + 1 /\ numHanded' \in 0..MaxTapes
    BY <1>1, <1>3, <1>4
  <2>4. QED
    BY <1>3, <1>7, <1>15, <1>23, <2>1, <2>2, <2>3, PropertiesStay DEF Rest
<1>25. QED
  BY <1>18, <1>22, <1>24 DEF Rest
-----------------------------------------------------------------------------
(* What a change of some files of a tape does                              *)

\* Only the files of S change, and they are of tape t before and after.
Changes(S, t) ==
  /\ \A f : f \notin S => /\ f \in DOMAIN disk' <=> f \in DOMAIN disk
                          /\ f \in DOMAIN disk => disk'[f] = disk[f]
  /\ \A f \in S : /\ f \in DOMAIN disk => disk[f].of = t
                  /\ f \in DOMAIN disk' => disk'[f] \in [of : {t}, whole : BOOLEAN]

\* The names of tape t as long as it has its first identifier.
CapturedNames(t) == {File(Captured(t), e) : e \in Extensions}

LEMMA KeptFiles ==
  ASSUME NEW S, NEW t, Changes(S, t), NEW f, f \notin S
  PROVE  /\ There(f)' <=> There(f)
         /\ \A u : HeldBy(f, u)' <=> HeldBy(f, u)
         /\ \A u : OwnFile(f, u)' <=> OwnFile(f, u)
BY DEF Changes, There, HeldBy, OwnFile

LEMMA ChangeHasEffect ==
  ASSUME FilesOK, NEW t \in Tapes, NEW S \in SUBSET FileNames(t), Changes(S, t),
         \A f \in S : f.ext \in {"mcf", "tmp"} /\ ~Before("DirectionSelector", "TapeFileNaming")
           => f.id = Captured(t),
         m_fileIdentifier'[t] \in Ids(t),
         m_fileExtension'[t] = "path of gsm.wav" => Commanded,
         t \in unflushed' => InChain("DirectionSelector")
  PROVE  Effect(t)
<1>1. TouchesOnly(t)
  BY DEF Changes, TouchesOnly
<1>2. ASSUME NEW f \in DOMAIN disk', disk'[f].of = t
      PROVE  /\ disk'[f] \in [of : {t}, whole : BOOLEAN]
             /\ f \in FileNames(t)
             /\ f.ext \in {"mcf", "tmp"} /\ ~Before("DirectionSelector", "TapeFileNaming")
                  => f.id = Captured(t)
  <2>1. CASE f \in S
    BY <2>1 DEF Changes
  <2>2. CASE f \notin S
    <3>1. f \in DOMAIN disk /\ disk'[f] = disk[f] /\ disk[f].of = t
      BY <1>2, <2>2 DEF Changes
    <3>2. /\ disk[f] \in [of : 1..numHanded, whole : BOOLEAN]
          /\ f \in FileNames(t)
          /\ f.ext \in {"mcf", "tmp"} /\ ~Before("DirectionSelector", "TapeFileNaming")
               => f.id = Captured(t)
      BY <3>1 DEF FilesOK
    <3>3. disk[f] \in [of : {t}, whole : BOOLEAN]
      BY <3>1, <3>2
    <3>4. QED
      BY <3>1, <3>2, <3>3
  <2>3. QED
    BY <2>1, <2>2
<1>3. QED
  BY <1>1, <1>2 DEF Effect, NewFilesOK

LEMMA CapturedNamesAreOwn ==
  ASSUME FilesOK, NEW t \in Tapes
  PROVE  /\ CapturedNames(t) \subseteq FileNames(t)
         /\ \A f \in CapturedNames(t) :
              f.id = Captured(t) /\ (f \in DOMAIN disk => disk[f].of = t)
<1>1. CapturedNames(t) \subseteq FileNames(t)
  BY FileParts, IdsDiffer DEF CapturedNames
<1>2. \A f \in CapturedNames(t) : f.id = Captured(t)
  BY FileParts DEF CapturedNames
<1>3. QED
  BY <1>1, <1>2, CapturedIsOwn

\* What is said of a tape with its first identifier when some of its files change.
LEMMA CapturedChange ==
  ASSUME FilesOK, config' = config, NEW t \in Tapes, NEW S \in SUBSET CapturedNames(t),
         Changes(S, t), SameNames(t)
  PROVE  /\ Effect(t)
         /\ Unnamed(t) => Unnamed(t)'
         /\ (\A f \in S : f.ext # "tmp") /\ NoTmp(t) => NoTmp(t)'
         /\ (\A f \in S : f.ext # "mcf") /\ Captures(t) => Captures(t)'
         /\ (\A f \in S : f.ext # "gsm.wav") /\ HasOutput(t) => HasOutput(t)'
<1>1. /\ S \in SUBSET FileNames(t)
      /\ \A f \in S : f.id = Captured(t)
  BY CapturedNamesAreOwn
<1>2. Effect(t)
  <2>1. /\ m_fileIdentifier'[t] \in Ids(t)
        /\ m_fileExtension'[t] = "path of gsm.wav" => Commanded
        /\ t \in unflushed' => InChain("DirectionSelector")
    BY DEF FilesOK, SameNames
  <2>2. QED
    BY <1>1, <2>1, ChangeHasEffect
<1>3. ASSUME Unnamed(t)
      PROVE  Unnamed(t)'
  <2>1. m_fileIdentifier'[t] = Captured(t)
    BY <1>3 DEF Unnamed, SameNames
  <2>2. ASSUME NEW f \in DOMAIN disk', OwnFile(f, t)'
        PROVE  f.id = Captured(t)
    BY <1>1, <1>3, <2>2, KeptFiles DEF Unnamed, OwnFile
  <2>3. QED
    BY <2>1, <2>2 DEF Unnamed, OwnFile
<1>4. ASSUME \A f \in S : f.ext # "tmp", NoTmp(t)
      PROVE  NoTmp(t)'
  <2>1. ASSUME NEW f \in DOMAIN disk', OwnFile(f, t)'
        PROVE  f.ext # "tmp"
    BY <1>4, <2>1, KeptFiles DEF NoTmp, OwnFile
  <2>2. QED
    BY <2>1 DEF NoTmp, OwnFile
<1>5. ASSUME \A f \in S : f.ext # "mcf", Captures(t)
      PROVE  Captures(t)'
  <2>1. File(Captured(t), "mcf") \notin S
    BY <1>5, FileParts
  <2>2. HeldBy(File(Captured(t), "mcf"), t) => HeldBy(File(Captured(t), "mcf"), t)'
    BY <2>1, KeptFiles
  <2>3. QED
    BY <1>5, <2>2 DEF Captures, SameNames
<1>6. ASSUME \A f \in S : f.ext # "gsm.wav", HasOutput(t)
      PROVE  HasOutput(t)'
  <2>1. PICK f \in DOMAIN disk : OwnFile(f, t) /\ f.ext = "gsm.wav"
    BY <1>6 DEF HasOutput
  <2>2. OwnFile(f, t)'
    BY <1>6, <2>1, KeptFiles
  <2>3. QED
    BY <2>1, <2>2 DEF HasOutput, OwnFile
<1>7. QED
  BY <1>2, <1>3, <1>4, <1>5, <1>6

\* The transcoded file of a tape and what a command makes of it change, and what
\* is true of an arrived tape stays; only the promise of a transcoded file does not.
LEMMA ArrivedChange ==
  ASSUME FilesOK, config' = config, NEW t \in Tapes, NEW S \in SUBSET CapturedNames(t),
         Changes(S, t), SameNames(t), \A f \in S : f.ext \in {"wav", "wav.tmp"},
         NEW p, ReportsTranscoded => ~Before("BatchProcessing", p),
         Arrived(p, t)
  PROVE  Arrived(p, t)'
<1>1. \A f \in S : f.ext # "tmp" /\ f.ext # "mcf" /\ f.ext # "gsm.wav"
  OBVIOUS
<1>2. /\ Unnamed(t) => Unnamed(t)'
      /\ NoTmp(t) => NoTmp(t)'
      /\ Captures(t) => Captures(t)'
      /\ HasOutput(t) => HasOutput(t)'
  BY <1>1, CapturedChange
<1>3. QED
  BY <1>2, SettingsStay DEF Arrived, SameNames
\* The recording of a tape survives a change if it does where the change is.
LEMMA SurvivesChange ==
  ASSUME RecordingSurvives, NEW t \in Tapes, t \in 1..numHanded, NEW S, Changes(S, t),
         t \in unflushed => t \in unflushed',
         KeepsFiles /\ ~config.failed /\ t \notin unflushed'
           => \A f \in S : HeldBy(f, t) => \E g : HeldBy(g, t)'
  PROVE  Survives(t)
<1> SUFFICES ASSUME KeepsFiles, ~config.failed, t \notin unflushed'
             PROVE  \E f \in DOMAIN disk' : HeldBy(f, t)'
  BY DEF Survives
<1>1. PICK f : HeldBy(f, t)
  BY DEF RecordingSurvives
<1>2. \E g : HeldBy(g, t)'
  BY <1>1, KeptFiles
<1>3. QED
  BY <1>2 DEF HeldBy, There

\* Nothing changes.
LEMMA NothingChanges ==
  ASSUME disk' = disk, NEW t
  PROVE  Changes({}, t)
BY DEF Changes

\* A file of the tape is renamed, written, removed, or completed.
LEMMA RenamingChanges ==
  ASSUME NEW t, NEW f \in DOMAIN disk, disk[f] \in [of : {t}, whole : BOOLEAN],
         NEW g, g # f, g \in DOMAIN disk => disk[g].of = t, disk' = Renamed(disk, f, g)
  PROVE  /\ Changes({f, g}, t)
         /\ f \notin DOMAIN disk' /\ g \in DOMAIN disk' /\ disk'[g] = disk[f]
         /\ HeldBy(f, t) => HeldBy(g, t)'
<1>1. /\ DOMAIN disk' = (DOMAIN disk \ {f}) \cup {g}
      /\ disk'[g] = disk[f]
      /\ \A h \in DOMAIN disk : h # f /\ h # g => disk'[h] = disk[h]
  BY DEF Renamed, Written, Without
<1>2. Changes({f, g}, t)
  BY <1>1 DEF Changes
<1>3. QED
  BY <1>1, <1>2 DEF HeldBy, There

LEMMA WritingChanges ==
  ASSUME NEW t, NEW f, NEW b \in BOOLEAN, f \in DOMAIN disk => disk[f].of = t,
         disk' = Written(disk, f, [of |-> t, whole |-> b])
  PROVE  /\ Changes({f}, t)
         /\ f \in DOMAIN disk' /\ disk'[f] = [of |-> t, whole |-> b]
<1>1. /\ DOMAIN disk' = DOMAIN disk \cup {f}
      /\ disk'[f] = [of |-> t, whole |-> b]
      /\ \A h \in DOMAIN disk : h # f => disk'[h] = disk[h]
  BY DEF Written
<1>2. [of |-> t, whole |-> b] \in [of : {t}, whole : BOOLEAN]
  OBVIOUS
<1>3. Changes({f}, t)
  BY <1>1, <1>2 DEF Changes
<1>4. QED
  BY <1>1, <1>3

LEMMA RemovingChanges ==
  ASSUME NEW t, NEW fs, \A f \in fs : f \in DOMAIN disk => disk[f].of = t,
         disk' = Without(disk, fs)
  PROVE  Changes(fs, t) /\ \A f \in fs : f \notin DOMAIN disk'
<1>1. /\ DOMAIN disk' = DOMAIN disk \ fs
      /\ \A h \in DOMAIN disk : h \notin fs => disk'[h] = disk[h]
  BY DEF Without
<1>2. QED
  BY <1>1 DEF Changes

LEMMA CompletingChanges ==
  ASSUME NEW t, NEW f \in DOMAIN disk, disk[f] \in [of : {t}, whole : BOOLEAN],
         NEW b \in BOOLEAN, disk' = [disk EXCEPT ![f].whole = b]
  PROVE  /\ Changes({f}, t) /\ DOMAIN disk' = DOMAIN disk
         /\ disk'[f] = [of |-> t, whole |-> b]
<1>1. /\ DOMAIN disk' = DOMAIN disk
      /\ disk'[f] = [of |-> t, whole |-> b]
      /\ \A h \in DOMAIN disk : h # f => disk'[h] = disk[h]
  OBVIOUS
<1>2. [of |-> t, whole |-> b] \in [of : {t}, whole : BOOLEAN]
  OBVIOUS
<1>3. Changes({f}, t)
  BY <1>1, <1>2 DEF Changes
<1>4. QED
  BY <1>1, <1>3

LEMMA NoChangeHasEffect ==
  ASSUME FilesOK, RecordingSurvives, NEW t \in Tapes, t \in 1..numHanded, disk' = disk,
         m_fileIdentifier'[t] \in Ids(t),
         m_fileExtension'[t] = "path of gsm.wav" => Commanded,
         t \in unflushed' <=> t \in unflushed
  PROVE  Effect(t) /\ Survives(t)
<1>1. Changes({}, t) /\ {} \in SUBSET FileNames(t)
  BY NothingChanges
<1>2. t \in unflushed' => InChain("DirectionSelector")
  BY DEF FilesOK
<1>3. Effect(t)
  BY <1>1, <1>2, ChangeHasEffect
<1>4. \A f \in {} : HeldBy(f, t) => \E g : HeldBy(g, t)'
  OBVIOUS
<1>5. Survives(t)
  BY <1>1, <1>4, SurvivesChange
<1>6. QED
  BY <1>3, <1>5

\* A file of a tape says so.
LEMMA OwnFileType ==
  ASSUME FilesOK, NEW f \in DOMAIN disk, NEW t, disk[f].of = t
  PROVE  disk[f] \in [of : {t}, whole : BOOLEAN] /\ f \in FileNames(t)
<1>1. disk[f] \in [of : 1..numHanded, whole : BOOLEAN] /\ f \in FileNames(disk[f].of)
  BY DEF FilesOK
<1>2. QED
  BY <1>1

\* A thread with a tape.
LEMMA Holding ==
  ASSUME Base, InOrder, Rest, NEW w \in Workers, NEW t, t = tape[w], pc[w] # "pop"
  PROVE  /\ t \in Tapes /\ t \in 1..numHanded
         /\ FilesOK /\ WorkerOK(w) /\ RecordingSurvives
         /\ m_fileIdentifier[t] \in Ids(t)
         /\ m_fileExtension[t] \in Extensions \ {"wav.tmp", "gsm.wav"}
         /\ config \in Configs /\ NamedOnce
<1>1. t \in Tapes /\ t <= numHanded
  BY DEF Base, PlacesInv, PlacesType, PopIsIdle, OnePlace
<1>2. t \in 1..numHanded
  BY <1>1, ProcessingSettings DEF Base, Tapes, Settings
<1>3. WorkerOK(w) /\ FilesOK /\ RecordingSurvives
  BY PlacesByWorker DEF Rest
<1>4. m_fileExtension[t] \in Extensions \ {"wav.tmp", "gsm.wav"}
  BY <1>1 DEF Base, FilesType
<1>5. config \in Configs /\ NamedOnce
  BY DEF Base, InOrder
<1>6. m_fileIdentifier[t] \in Ids(t)
  BY <1>1, <1>3 DEF FilesOK
<1>7. QED
  BY <1>1, <1>2, <1>3, <1>4, <1>5, <1>6
-----------------------------------------------------------------------------
(* The steps of DirectionSelector                                          *)

\* Only a tape with its first identifier has a capture file or one moved aside.
LEMMA CaptureFileHasFirstName ==
  ASSUME config \in Configs, NamedOnce, FilesOK, NEW t \in Tapes,
         Arrived("DirectionSelector", t),
         NEW e \in {"mcf", "tmp"}, There(File(m_fileIdentifier[t], e))
  PROVE  m_fileIdentifier[t] = Captured(t)
<1>1. CASE Before("DirectionSelector", "TapeFileNaming")
  BY <1>1, BeforeIsAnOrder DEF Arrived, Unnamed
<1>2. CASE ~Before("DirectionSelector", "TapeFileNaming")
  <2>1. PICK f : f = File(m_fileIdentifier[t], e)
    OBVIOUS
  <2>2. f \in DOMAIN disk /\ f.id = m_fileIdentifier[t] /\ f.ext = e
    BY <2>1, FileParts DEF There
  <2>3. f.id = Captured(disk[f].of)
    BY <1>2, <2>2 DEF FilesOK
  <2>4. f.id \in Ids(t) \cap Ids(disk[f].of) /\ f.id # Configured
    <3>1. m_fileIdentifier[t] \in Ids(t)
      BY DEF FilesOK
    <3>2. QED
      BY <2>2, <2>3, <3>1, IdsDiffer
  <2>5. QED
    BY <2>2, <2>3, <2>4, IdsDiffer
<1>3. QED
  BY <1>1, <1>2

LEMMA StepPopSelector ==
  ASSUME Base, InOrder, Rest, PopSelector
  PROVE  Rest'
<1>1. PICK w : w = "DirectionSelector"
  OBVIOUS
<1>2. w \in Workers /\ w \notin BatchThreads /\ HomeOf(w) = "DirectionSelector"
  BY <1>1, HomesOK, ThreadsDiffer DEF Workers
<1>3. PICK t : t = tape'[w]
  OBVIOUS
<1>4. Pop(HomeOf(w), w, "rename") /\ Taking(w)
  BY <1>1, <1>2 DEF PopSelector, Taking, Steps
<1>5. pc'["DirectionSelector"] = "rename"
  BY <1>1, <1>2, <1>4, HomesOK DEF Pop, Base, PlacesInv, PlacesType
<1>6. Arrived("DirectionSelector", t)' => WorkerOK(w)'
  BY <1>1, <1>2, <1>3, <1>5 DEF WorkerOK, SelectorOK
<1>7. \A c \in BatchThreads : c # w =>
         outOpen'[c] = outOpen[c] /\ numSamplesOut'[c] = numSamplesOut[c]
  BY DEF PopSelector, outVars
<1>8. UNCHANGED <<nameVars, slipVars, disk>>
  BY DEF PopSelector
<1>9. QED
  BY <1>2, <1>3, <1>4, <1>6, <1>7, <1>8, StepOfTaking

LEMMA StepMoveAside ==
  ASSUME Base, InOrder, Rest, MoveAside
  PROVE  Rest'
<1>1. PICK w : w = "DirectionSelector"
  OBVIOUS
<1>2. PICK t : t = tape[w]
  OBVIOUS
<1>3. w \in Workers /\ w \notin BatchThreads /\ pc[w] = "rename" /\ HomeOf(w) = w
  BY <1>1, ThreadsDiffer DEF Workers, MoveAside, HomeOf
<1>4. /\ t \in Tapes /\ t \in 1..numHanded
      /\ FilesOK /\ WorkerOK(w) /\ RecordingSurvives
      /\ m_fileIdentifier[t] \in Ids(t)
      /\ config \in Configs /\ NamedOnce
  BY <1>2, <1>3, Holding
<1>5. Arrived("DirectionSelector", t) /\ InChain("DirectionSelector")
  BY <1>1, <1>2, <1>3, <1>4 DEF WorkerOK, SelectorOK, Arrived
<1>6. /\ m_fileExtension' = [m_fileExtension EXCEPT ![t] = "tmp"]
      /\ m_filename' = [m_filename EXCEPT ![t] = Tmp(t)]
      /\ \/ There(Mcf(t)) /\ disk' = Renamed(disk, Mcf(t), Tmp(t))
         \/ UNCHANGED disk
      /\ \/ Tmp(t) \in DOMAIN disk' /\ Proceed(w, "rewrite")
         \/ GiveUp(w)
      /\ UNCHANGED <<config, numHanded, outVars, m_fileIdentifier, slipVars>>
  BY <1>1, <1>2 DEF MoveAside
<1>7. /\ \A u \in Tapes : u # t => SameNames(u)
      /\ m_fileIdentifier'[t] = m_fileIdentifier[t] /\ m_fileExtension'[t] = "tmp"
      /\ config' = config /\ numHanded' = numHanded
      /\ unflushed' = unflushed /\ misnamed' = misnamed
  BY <1>4, <1>6 DEF SameNames, slipVars, Base, FilesType
<1>8. \A c \in BatchThreads :
         outOpen'[c] = outOpen[c] /\ numSamplesOut'[c] = numSamplesOut[c]
  BY <1>6 DEF outVars
<1>9. PICK f, g : f = Mcf(t) /\ g = Tmp(t)
  OBVIOUS
<1>10. /\ f.id = m_fileIdentifier[t] /\ f.ext = "mcf"
       /\ g.id = m_fileIdentifier[t] /\ g.ext = "tmp" /\ f # g
  BY <1>9, FileParts DEF Mcf, Tmp
<1>11. /\ t \in unflushed' => InChain("DirectionSelector")
       /\ m_fileExtension'[t] # "path of gsm.wav"
       /\ m_fileIdentifier'[t] \in Ids(t)
  BY <1>4, <1>5, <1>7
\* Nothing is there under the temporary name before the capture file is moved.
<1>12. /\ There(f) \/ There(g) => m_fileIdentifier[t] = Captured(t)
       /\ ~There(g)
  <2>1. There(f) \/ There(g) => m_fileIdentifier[t] = Captured(t)
    BY <1>4, <1>5, <1>9, CaptureFileHasFirstName DEF Mcf, Tmp
  <2>2. NoTmp(t)
    BY <1>4, <1>5, BeforeIsAnOrder DEF Arrived
  <2>3. There(g) => disk[g].of = t
    BY <1>4, <1>10, <2>1, CapturedIsOwn DEF There
  <2>4. QED
    BY <1>10, <2>1, <2>2, <2>3 DEF NoTmp, There, OwnFile
<1>13. CASE UNCHANGED disk
  <2>1. GiveUp(w)
    BY <1>6, <1>9, <1>12, <1>13 DEF There
  <2>2. Dropping(w)
    BY <1>3, <1>6, <2>1 DEF Dropping
  <2>3. Effect(t) /\ Survives(t)
    BY <1>4, <1>7, <1>11, <1>13, NoChangeHasEffect
  <2>4. QED
    BY <1>2, <1>3, <1>4, <1>7, <1>8, <2>2, <2>3, StepOfThread
<1>14. CASE There(Mcf(t)) /\ disk' = Renamed(disk, Mcf(t), Tmp(t))
  <2>1. /\ m_fileIdentifier[t] = Captured(t) /\ f \in DOMAIN disk /\ g \notin DOMAIN disk
        /\ f \in CapturedNames(t) /\ g \in CapturedNames(t)
    <3>1. "mcf" \in Extensions /\ "tmp" \in Extensions
      BY DEF Extensions
    <3>2. QED
      BY <1>9, <1>12, <1>14, <3>1 DEF There, CapturedNames, Mcf, Tmp
  <2>2. disk[f].of = t
    BY <1>4, <2>1, CapturedNamesAreOwn
  <2>3. disk[f] \in [of : {t}, whole : BOOLEAN]
    BY <1>4, <2>1, <2>2, OwnFileType
  <2>4. disk' = Renamed(disk, f, g)
    BY <1>9, <1>14
  <2>5. /\ Changes({f, g}, t)
        /\ f \notin DOMAIN disk' /\ g \in DOMAIN disk' /\ disk'[g] = disk[f]
        /\ HeldBy(f, t) => HeldBy(g, t)'
    BY <1>10, <2>1, <2>3, <2>4, RenamingChanges
  <2>6. {f, g} \in SUBSET FileNames(t) /\ f.id = Captured(t) /\ g.id = Captured(t)
    BY <1>4, <2>1, CapturedNamesAreOwn
  <2>7. Effect(t)
    BY <1>4, <1>11, <2>5, <2>6, ChangeHasEffect
  <2>8. Survives(t)
    <3>1. ~HeldBy(g, t)
      BY <2>1 DEF HeldBy, There
    <3>2. \A h \in {f, g} : HeldBy(h, t) => \E k : HeldBy(k, t)'
      BY <2>5, <3>1
    <3>3. QED
      BY <1>4, <1>7, <2>5, <3>2, SurvivesChange
  <2>9. ASSUME Proceed(w, "rewrite")
        PROVE  Keeping(w) /\ WorkerOK(w)'
    <3>1. Keeping(w)
      BY <1>3, <1>6, <2>9 DEF Keeping, Proceed, Steps
    <3>2. pc'[w] = "rewrite" /\ tape'[w] = t
      BY <1>2, <1>3, <2>9 DEF Proceed, Base, PlacesInv, PlacesType
    <3>3. m_fileIdentifier'[t] = Captured(t)
      BY <1>7, <2>1
    <3>4. Mcf(t)' = f /\ Tmp(t)' = g
      BY <1>7, <1>9 DEF Mcf, Tmp
    <3>5. ~There(Mcf(t))' /\ OwnFile(Tmp(t), t)'
      BY <2>2, <2>5, <3>4 DEF There, OwnFile
    <3>6. Unnamed(t) => Unnamed(t)'
      <4> SUFFICES ASSUME Unnamed(t), NEW h, OwnFile(h, t)'
                   PROVE  h.id = Captured(t)
        BY <3>3 DEF Unnamed
      <4>1. h \notin {f, g} => OwnFile(h, t)
        BY <2>5, KeptFiles
      <4>2. QED
        BY <2>6, <4>1 DEF Unnamed, OwnFile
    <3>7. /\ ~Before("TapeFileNaming", "DirectionSelector") => Unnamed(t)'
          /\ Before("DirectionSelector", "BatchProcessing") => Captures(t)
          /\ ReportsCommanded /\ Before("CommandProcessing", "DirectionSelector") => HasOutput(t)
      BY <1>5, <3>6 DEF Arrived
    <3>8. Captures(t) /\ t \notin unflushed => HeldBy(g, t)'
      BY <1>9, <2>1, <2>5 DEF Captures, Mcf
    <3>9. HasOutput(t) => HasOutput(t)'
      <4> SUFFICES ASSUME NEW h, OwnFile(h, t), h.ext = "gsm.wav"
                   PROVE  OwnFile(h, t)'
        BY DEF HasOutput, OwnFile
      <4>1. h \notin {f, g}
        BY <1>10
      <4>2. QED
        BY <2>5, <4>1, KeptFiles
    <3>10. Before("DirectionSelector", "BatchProcessing") /\ t \notin unflushed' => HeldBy(Tmp(t), t)'
      <4>1. Before("DirectionSelector", "BatchProcessing") /\ t \notin unflushed => HeldBy(g, t)'
        BY <3>7, <3>8
      <4>2. QED
        BY <1>7, <3>4, <4>1 DEF HeldBy, There
    <3>11. Aside(t)'
      BY <1>5, <1>7, <3>3, <3>5, <3>7, <3>9, <3>10, SettingsStay DEF Aside
    <3>12. QED
      BY <1>1, <1>3, <3>1, <3>2, <3>5, <3>11 DEF WorkerOK, SelectorOK
  <2>10. Dropping(w) \/ (Keeping(w) /\ WorkerOK(w)')
    BY <1>3, <1>6, <2>9 DEF Dropping
  <2>11. QED
    BY <1>2, <1>3, <1>4, <1>7, <1>8, <2>7, <2>8, <2>10, StepOfThread
<1>15. QED
  BY <1>6, <1>13, <1>14
LEMMA StepOpenRewrite ==
  ASSUME Base, InOrder, Rest, OpenRewrite
  PROVE  Rest'
<1>1. PICK w : w = "DirectionSelector"
  OBVIOUS
<1>2. PICK t : t = tape[w]
  OBVIOUS
<1>3. w \in Workers /\ w \notin BatchThreads /\ pc[w] = "rewrite"
  BY <1>1, ThreadsDiffer DEF Workers, OpenRewrite
<1>4. /\ t \in Tapes /\ t \in 1..numHanded
      /\ FilesOK /\ WorkerOK(w) /\ RecordingSurvives
      /\ m_fileIdentifier[t] \in Ids(t)
  BY <1>2, <1>3, Holding
<1>5. Aside(t) /\ ~There(Mcf(t))
  BY <1>1, <1>2, <1>3, <1>4 DEF WorkerOK, SelectorOK
<1>6. /\ \/ disk' = Written(disk, Mcf(t), [of |-> t, whole |-> FALSE]) /\ Proceed(w, "copy")
         \/ UNCHANGED disk /\ GiveUp(w)
      /\ UNCHANGED <<config, numHanded, outVars, nameVars, slipVars>>
  BY <1>1, <1>2 DEF OpenRewrite
<1>7. /\ \A u \in Tapes : SameNames(u)
      /\ config' = config /\ numHanded' = numHanded /\ m_fileIdentifier' = m_fileIdentifier
      /\ unflushed' = unflushed /\ m_fileExtension' = m_fileExtension
  BY <1>6 DEF SameNames, nameVars, slipVars
<1>8. \A c \in BatchThreads :
         outOpen'[c] = outOpen[c] /\ numSamplesOut'[c] = numSamplesOut[c]
  BY <1>6 DEF outVars
<1>9. CASE UNCHANGED disk /\ GiveUp(w)
  <2>1. Dropping(w)
    BY <1>3, <1>6, <1>9 DEF Dropping
  <2>2. Effect(t) /\ Survives(t)
    BY <1>4, <1>7, <1>9, NoChangeHasEffect DEF FilesOK
  <2>3. QED
    BY <1>2, <1>3, <1>4, <1>7, <1>8, <2>1, <2>2, StepOfThread
<1>10. CASE disk' = Written(disk, Mcf(t), [of |-> t, whole |-> FALSE]) /\ Proceed(w, "copy")
  <2>1. PICK f : f = Mcf(t)
    OBVIOUS
  <2>2. /\ m_fileIdentifier[t] = Captured(t) /\ f \in CapturedNames(t) /\ f \notin DOMAIN disk
        /\ f.ext = "mcf"
    <3>1. "mcf" \in Extensions
      BY DEF Extensions
    <3>2. QED
      BY <1>5, <2>1, <3>1, FileParts DEF Aside, There, CapturedNames, Mcf
  <2>3. disk' = Written(disk, f, [of |-> t, whole |-> FALSE]) /\ FALSE \in BOOLEAN
    BY <1>10, <2>1
  <2>4. Changes({f}, t) /\ f \in DOMAIN disk'
    BY <2>2, <2>3, WritingChanges
  <2>5. {f} \in SUBSET CapturedNames(t)
    BY <2>2
  <2>6. SameNames(t)
    BY <1>4, <1>7
  <2>7. /\ Effect(t)
        /\ Unnamed(t) => Unnamed(t)'
        /\ HasOutput(t) => HasOutput(t)'
    BY <1>4, <1>7, <2>2, <2>4, <2>5, <2>6, CapturedChange
  <2>8. Survives(t)
    <3>1. \A h \in {f} : ~HeldBy(h, t)
      BY <2>2 DEF HeldBy, There
    <3>2. QED
      BY <1>4, <1>7, <2>4, <3>1, SurvivesChange
  <2>9. Keeping(w)
    BY <1>3, <1>6, <1>10 DEF Keeping, Proceed, Steps
  <2>10. pc'[w] = "copy" /\ tape'[w] = t
    BY <1>2, <1>3, <1>10 DEF Proceed, Base, PlacesInv, PlacesType
  <2>11. Mcf(t)' = f /\ Tmp(t)' = Tmp(t) /\ There(Mcf(t))'
    BY <1>7, <2>1, <2>4 DEF Mcf, Tmp, There
  <2>12. PICK g : g = Tmp(t)
    OBVIOUS
  <2>13. g \notin {f}
    BY <2>2, <2>12, FileParts DEF Tmp
  <2>14. (OwnFile(g, t)' <=> OwnFile(g, t)) /\ (HeldBy(g, t)' <=> HeldBy(g, t))
    BY <2>4, <2>13, KeptFiles
  <2>15. /\ OwnFile(Tmp(t), t)'
         /\ Before("DirectionSelector", "BatchProcessing") /\ t \notin unflushed' => HeldBy(Tmp(t), t)'
    <3>1. /\ OwnFile(g, t)'
          /\ Before("DirectionSelector", "BatchProcessing") /\ t \notin unflushed => HeldBy(g, t)'
      BY <1>5, <2>12, <2>14 DEF Aside
    <3>2. QED
      BY <1>7, <2>11, <2>12, <3>1 DEF OwnFile, HeldBy, There
  <2>16. Aside(t)'
    BY <1>5, <1>7, <2>7, <2>15, SettingsStay DEF Aside
  <2>17. WorkerOK(w)'
    BY <1>1, <1>3, <2>10, <2>11, <2>16 DEF WorkerOK, SelectorOK
  <2>18. QED
    BY <1>2, <1>3, <1>4, <1>7, <1>8, <2>7, <2>8, <2>9, <2>17, StepOfThread
<1>11. QED
  BY <1>6, <1>9, <1>10

LEMMA StepCopyAndClose ==
  ASSUME Base, InOrder, Rest, CopyAndClose
  PROVE  Rest'
<1>1. PICK w : w = "DirectionSelector"
  OBVIOUS
<1>2. PICK t : t = tape[w]
  OBVIOUS
<1>3. w \in Workers /\ w \notin BatchThreads /\ pc[w] = "copy" /\ HomeOf(w) = "DirectionSelector"
  BY <1>1, ThreadsDiffer DEF Workers, CopyAndClose, HomeOf
<1>4. /\ t \in Tapes /\ t \in 1..numHanded
      /\ FilesOK /\ WorkerOK(w) /\ RecordingSurvives
      /\ m_fileIdentifier[t] \in Ids(t) /\ config \in Configs /\ NamedOnce
  BY <1>2, <1>3, Holding
<1>5. Aside(t) /\ There(Mcf(t))
  BY <1>1, <1>2, <1>3, <1>4 DEF WorkerOK, SelectorOK
<1>6. /\ \/ /\ \E whole \in {disk[Tmp(t)].whole, FALSE} :
               /\ disk' = Without([disk EXCEPT ![Mcf(t)].whole = whole], {Tmp(t)})
               /\ unflushed' = IF whole THEN unflushed ELSE unflushed \cup {t}
            /\ m_fileExtension' = [m_fileExtension EXCEPT ![t] = "mcf"]
            /\ m_filename' = [m_filename EXCEPT ![t] = Mcf(t)]
            /\ PassOn("DirectionSelector", w)
         \/ GiveUp(w) /\ UNCHANGED <<disk, unflushed, m_fileExtension, m_filename>>
      /\ UNCHANGED <<config, numHanded, outVars, m_fileIdentifier, misnamed>>
  BY <1>1, <1>2 DEF CopyAndClose
<1>7. \A c \in BatchThreads :
         outOpen'[c] = outOpen[c] /\ numSamplesOut'[c] = numSamplesOut[c]
  BY <1>6 DEF outVars
<1>8. CASE GiveUp(w) /\ UNCHANGED <<disk, unflushed, m_fileExtension, m_filename>>
  <2>1. Dropping(w)
    BY <1>3, <1>6, <1>8 DEF Dropping
  <2>2. Effect(t) /\ Survives(t)
    BY <1>4, <1>6, <1>8, NoChangeHasEffect DEF FilesOK
  <2>3. \A u \in Tapes : SameNames(u)
    BY <1>6, <1>8 DEF SameNames
  <2>4. QED
    BY <1>2, <1>3, <1>4, <1>6, <1>7, <2>1, <2>2, <2>3, StepOfThread
<1>9. ASSUME NEW whole \in {disk[Tmp(t)].whole, FALSE},
             disk' = Without([disk EXCEPT ![Mcf(t)].whole = whole], {Tmp(t)}),
             unflushed' = IF whole THEN unflushed ELSE unflushed \cup {t},
             m_fileExtension' = [m_fileExtension EXCEPT ![t] = "mcf"],
             m_filename' = [m_filename EXCEPT ![t] = Mcf(t)],
             PassOn("DirectionSelector", w)
      PROVE  Rest'
  <2>1. PICK f, g : f = Mcf(t) /\ g = Tmp(t)
    OBVIOUS
  <2>2. /\ m_fileIdentifier[t] = Captured(t) /\ InChain("DirectionSelector")
        /\ f \in DOMAIN disk /\ g \in DOMAIN disk
        /\ f \in CapturedNames(t) /\ g \in CapturedNames(t)
        /\ f = File(Captured(t), "mcf")
    <3>1. "mcf" \in Extensions /\ "tmp" \in Extensions
      BY DEF Extensions
    <3>2. QED
      BY <1>5, <2>1, <3>1 DEF Aside, There, OwnFile, CapturedNames, Mcf, Tmp
  <2>3. /\ f.ext = "mcf" /\ g.ext = "tmp" /\ f # g
    BY <2>1, FileParts DEF Mcf, Tmp
  <2>4. disk[f].of = t /\ disk[g].of = t /\ f.id = Captured(t) /\ g.id = Captured(t)
    BY <1>4, <2>2, CapturedNamesAreOwn
  <2>5. /\ disk[f] \in [of : {t}, whole : BOOLEAN]
        /\ disk[g] \in [of : {t}, whole : BOOLEAN]
    BY <1>4, <2>2, <2>4, OwnFileType
  <2>6. whole \in BOOLEAN /\ (whole => disk[g] = [of |-> t, whole |-> TRUE])
    BY <1>9, <2>1, <2>5
  <2>7. /\ DOMAIN disk' = DOMAIN disk \ {g}
        /\ disk'[f] = [of |-> t, whole |-> whole]
        /\ \A h \in DOMAIN disk : h # f /\ h # g => disk'[h] = disk[h]
    <3>1. PICK d : d = [disk EXCEPT ![f].whole = whole]
      OBVIOUS
    <3>2. /\ DOMAIN d = DOMAIN disk
          /\ d[f] = [of |-> t, whole |-> whole]
          /\ \A h \in DOMAIN disk : h # f => d[h] = disk[h]
      BY <2>2, <2>5, <2>6, <3>1
    <3>3. disk' = Without(d, {g})
      BY <1>9, <2>1, <3>1
    <3>4. DOMAIN disk' = DOMAIN d \ {g} /\ \A h \in DOMAIN d \ {g} : disk'[h] = d[h]
      BY <3>3 DEF Without
    <3>5. QED
      BY <2>2, <2>3, <3>2, <3>4
  <2>8. Changes({f, g}, t)
    <3>1. [of |-> t, whole |-> whole] \in [of : {t}, whole : BOOLEAN]
      BY <2>6
    <3>2. QED
      BY <2>4, <2>7, <3>1 DEF Changes
  <2>9. /\ \A u \in Tapes : u # t => SameNames(u)
        /\ m_fileIdentifier'[t] = m_fileIdentifier[t] /\ m_fileExtension'[t] = "mcf"
        /\ m_filename'[t] = f /\ config' = config /\ numHanded' = numHanded
        /\ t \in unflushed => t \in unflushed'
        /\ t \notin unflushed' => whole
    BY <1>4, <1>6, <1>9, <2>1 DEF SameNames, Base, FilesType
  <2>10. {f, g} \in SUBSET FileNames(t)
    BY <1>4, <2>2, CapturedNamesAreOwn
  <2>11. /\ m_fileIdentifier'[t] \in Ids(t)
         /\ m_fileExtension'[t] # "path of gsm.wav"
    BY <1>4, <2>9
  <2>12. Effect(t)
    BY <1>4, <2>2, <2>4, <2>8, <2>10, <2>11, ChangeHasEffect
  <2>13. t \notin unflushed' => HeldBy(f, t)'
    BY <2>2, <2>3, <2>7, <2>9 DEF HeldBy, There
  <2>14. Survives(t)
    BY <1>4, <2>8, <2>9, <2>13, SurvivesChange
  <2>15. Unnamed(t) => Unnamed(t)'
    <3> SUFFICES ASSUME Unnamed(t), NEW h, OwnFile(h, t)'
                 PROVE  h.id = Captured(t)
      BY <2>2, <2>9 DEF Unnamed
    <3>1. h \notin {f, g} => OwnFile(h, t)
      BY <2>8, KeptFiles
    <3>2. QED
      BY <2>4, <3>1 DEF Unnamed, OwnFile
  <2>16. HasOutput(t) => HasOutput(t)'
    <3> SUFFICES ASSUME NEW h, OwnFile(h, t), h.ext = "gsm.wav"
                 PROVE  OwnFile(h, t)'
      BY DEF HasOutput, OwnFile
    <3>1. h \notin {f, g}
      BY <2>3
    <3>2. QED
      BY <2>8, <3>1, KeptFiles
  <2>17. Captures(t)'
    BY <2>2, <2>9, <2>13 DEF Captures
  <2>18. Upto("DirectionSelector", "DirectionSelector")
    BY DEF Upto
  <2>19. ~Upto("TapeFileNaming", "DirectionSelector") => Unnamed(t)'
    BY <1>5, <2>15 DEF Aside, Upto
  <2>20. ReportsCommanded /\ Upto("CommandProcessing", "DirectionSelector") => HasOutput(t)'
    BY <1>5, <2>16 DEF Aside, Upto
  <2>21. ~ReportsTranscoded
    BY <2>2 DEF ReportsTranscoded
  <2>22. Leaving("DirectionSelector", t)'
    BY <2>2, <2>9, <2>17, <2>18, <2>19, <2>20, <2>21, SettingsStay DEF Leaving
  <2>23. Passing(w) /\ Leaving(HomeOf(w), t)'
    BY <1>3, <1>6, <1>9, <2>22 DEF Passing
  <2>24. QED
    BY <1>2, <1>3, <1>4, <1>7, <2>9, <2>12, <2>14, <2>23, StepOfThread
<1>10. QED
  BY <1>6, <1>8, <1>9

LEMMA StepOfSelector ==
  ASSUME Base, InOrder, Rest, Selector
  PROVE  Rest'
BY StepPopSelector, StepMoveAside, StepOpenRewrite, StepCopyAndClose DEF Selector
-----------------------------------------------------------------------------
(* The steps of TapeFileNaming                                             *)

LEMMA StepPopNaming ==
  ASSUME Base, InOrder, Rest, PopNaming
  PROVE  Rest'
<1>1. PICK w : w = "TapeFileNaming"
  OBVIOUS
<1>2. w \in Workers /\ w \notin BatchThreads /\ HomeOf(w) = "TapeFileNaming"
  BY <1>1, HomesOK, ThreadsDiffer DEF Workers
<1>3. PICK t : t = tape'[w]
  OBVIOUS
<1>4. Pop(HomeOf(w), w, "name") /\ Taking(w)
  BY <1>1, <1>2 DEF PopNaming, Taking, Steps
<1>5. pc'["TapeFileNaming"] = "name"
  BY <1>1, <1>2, <1>4, HomesOK DEF Pop, Base, PlacesInv, PlacesType
<1>6. Arrived("TapeFileNaming", t)' => WorkerOK(w)'
  BY <1>1, <1>2, <1>3, <1>5 DEF WorkerOK, NamingOK
<1>7. \A c \in BatchThreads : c # w =>
         outOpen'[c] = outOpen[c] /\ numSamplesOut'[c] = numSamplesOut[c]
  BY DEF PopNaming, outVars
<1>8. UNCHANGED <<nameVars, slipVars, disk>>
  BY DEF PopNaming
<1>9. QED
  BY <1>2, <1>3, <1>4, <1>6, <1>7, <1>8, StepOfTaking

\* The new name of a tape is its old one, or no file has it.
LEMMA NewNameIsFree ==
  ASSUME FilesOK, NEW t \in Tapes, Unnamed(t), NEW id \in FinalIdentifiers(t)
  PROVE  /\ id \in Ids(t)
         /\ id # Captured(t) => ~There(File(id, m_fileExtension[t]))
<1>1. m_fileIdentifier[t] \in Ids(t) /\ m_fileIdentifier[t] = Captured(t)
  BY DEF FilesOK, Unnamed
<1>2. /\ id \in Ids(t)
      /\ \/ id = m_fileIdentifier[t]
         \/ id = WithUid(Configured, t)
         \/ id = WithUid(m_fileIdentifier[t], t)
         \/ id = Configured /\ ~There(File(Configured, m_fileExtension[t]))
  BY <1>1, FinalIds
<1>3. ASSUME NEW f \in DOMAIN disk, f.id = id, id # Configured
      PROVE  id = Captured(t)
  <2>1. f.id \in Ids(disk[f].of)
    BY FileParts DEF FilesOK
  <2>2. disk[f].of = t
    BY <1>2, <1>3, <2>1, IdsDiffer
  <2>3. QED
    BY <1>3, <2>2 DEF Unnamed, OwnFile
<1>4. ASSUME id # Captured(t), id # Configured
      PROVE  ~There(File(id, m_fileExtension[t]))
  BY <1>3, <1>4, FileParts DEF There
<1>5. ASSUME id = Configured
      PROVE  ~There(File(id, m_fileExtension[t]))
  BY <1>1, <1>2, <1>5, IdsDiffer
<1>6. QED
  BY <1>2, <1>4, <1>5

LEMMA StepNameFile ==
  ASSUME Base, InOrder, Rest, NameFile
  PROVE  Rest'
<1>1. PICK w : w = "TapeFileNaming"
  OBVIOUS
<1>2. PICK t : t = tape[w]
  OBVIOUS
<1>3. PICK e : e = m_fileExtension[t]
  OBVIOUS
<1>4. w \in Workers /\ w \notin BatchThreads /\ pc[w] = "name"
  BY <1>1, ThreadsDiffer DEF Workers, NameFile
<1>5. /\ t \in Tapes /\ t \in 1..numHanded
      /\ FilesOK /\ WorkerOK(w) /\ RecordingSurvives
      /\ e \in Extensions \ {"wav.tmp", "gsm.wav"}
      /\ config \in Configs /\ NamedOnce
  BY <1>2, <1>3, <1>4, Holding
<1>6. Arrived("TapeFileNaming", t)
  BY <1>1, <1>2, <1>4, <1>5 DEF WorkerOK, NamingOK
<1>7. /\ InChain("TapeFileNaming") /\ Unnamed(t)
      /\ e \in {"mcf", "tmp"} => Before("DirectionSelector", "TapeFileNaming")
  BY <1>3, <1>5, <1>6, BeforeIsAnOrder DEF Arrived
<1>8. PICK old : old = File(m_fileIdentifier[t], e)
  OBVIOUS
<1>9. PICK id \in FinalIdentifiers(t) :
        LET new == File(id, e) IN
          /\ m_fileIdentifier' = [m_fileIdentifier EXCEPT ![t] = id]
          /\ \/ new = old /\ UNCHANGED <<disk, misnamed>>
             \/ new # old /\ There(old) /\ disk' = Renamed(disk, old, new) /\ UNCHANGED misnamed
             \/ new # old /\ misnamed' = misnamed \cup {t} /\ UNCHANGED disk
  BY <1>1, <1>2, <1>3, <1>8 DEF NameFile
<1>10. PICK new : new = File(id, e)
  OBVIOUS
<1>11. /\ UNCHANGED <<m_fileExtension, m_filename>>
       /\ pc' = [pc EXCEPT ![w] = "pass"]
       /\ UNCHANGED <<config, numHanded, m_audioTapeQueue, tape, outVars, endVars, unflushed>>
  BY <1>1 DEF NameFile
<1>12. /\ id \in Ids(t)
       /\ id # Captured(t) => new \notin DOMAIN disk
  BY <1>3, <1>5, <1>7, <1>10, NewNameIsFree DEF There
<1>13. /\ old.id = Captured(t) /\ old.ext = e /\ old \in FileNames(t) /\ old \in CapturedNames(t)
       /\ new.id = id /\ new.ext = e /\ new \in FileNames(t)
  <2>1. m_fileIdentifier[t] = Captured(t) /\ Captured(t) \in Ids(t) /\ e \in Extensions
    BY <1>5, <1>7, IdsDiffer DEF Unnamed
  <2>2. QED
    BY <1>8, <1>10, <1>12, <2>1, FileParts DEF CapturedNames
<1>14. new # old => new \notin DOMAIN disk
  <2>1. id = Captured(t) => new = old
    BY <1>7, <1>8, <1>10 DEF Unnamed
  <2>2. QED
    BY <1>12, <2>1
<1>15. /\ \A u \in Tapes : u # t => SameNames(u)
       /\ m_fileIdentifier'[t] = id /\ m_fileExtension'[t] = e
       /\ config' = config /\ numHanded' = numHanded
       /\ unflushed' = unflushed
       /\ t \in misnamed => t \in misnamed'
  <2>1. misnamed' = misnamed \/ misnamed' = misnamed \cup {t}
    BY <1>9
  <2>2. m_fileIdentifier \in [Tapes -> UNION {Ids(u) : u \in Tapes}]
    BY DEF Base, FilesType
  <2>3. QED
    BY <1>3, <1>5, <1>9, <1>11, <2>1, <2>2 DEF SameNames
<1>16. \A c \in BatchThreads :
         outOpen'[c] = outOpen[c] /\ numSamplesOut'[c] = numSamplesOut[c]
  BY <1>11 DEF outVars
<1>17. m_fileExtension'[t] = "path of gsm.wav" => Commanded
  BY <1>3, <1>5, <1>15 DEF FilesOK
\* Whatever happens to the file, the tape has what it had.
<1>18. /\ Effect(t) /\ Survives(t)
       /\ NoTmp(t) /\ e # "tmp" => NoTmp(t)'
       /\ HasOutput(t) => HasOutput(t)'
       /\ t \notin misnamed' /\ HeldBy(old, t) => HeldBy(new, t)'
  <2>1. CASE new # old /\ There(old) /\ disk' = Renamed(disk, old, new)
    <3>1. old \in DOMAIN disk /\ new \notin DOMAIN disk
      BY <1>14, <2>1 DEF There
    <3>2. disk[old].of = t
      BY <1>5, <1>13, <3>1, CapturedNamesAreOwn
    <3>3. disk[old] \in [of : {t}, whole : BOOLEAN]
      BY <1>5, <3>1, <3>2, OwnFileType
    <3>4. /\ Changes({old, new}, t)
          /\ new \in DOMAIN disk' /\ old \notin DOMAIN disk'
          /\ HeldBy(old, t) => HeldBy(new, t)'
      BY <2>1, <3>1, <3>3, RenamingChanges
    <3>5. {old, new} \in SUBSET FileNames(t)
      BY <1>13
    <3>6. \A f \in {old, new} :
            f.ext \in {"mcf", "tmp"} /\ ~Before("DirectionSelector", "TapeFileNaming")
              => f.id = Captured(t)
      BY <1>7, <1>13
    <3>7. t \in unflushed' => InChain("DirectionSelector")
      BY <1>5, <1>15 DEF FilesOK
    <3>8. Effect(t)
      BY <1>5, <1>12, <1>15, <1>17, <3>4, <3>5, <3>6, <3>7, ChangeHasEffect
    <3>9. Survives(t)
      <4>1. ~HeldBy(new, t)
        BY <3>1 DEF HeldBy, There
      <4>2. \A f \in {old, new} : HeldBy(f, t) => \E g : HeldBy(g, t)'
        BY <3>4, <4>1
      <4>3. QED
        BY <1>5, <1>15, <3>4, <4>2, SurvivesChange
    <3>10. ASSUME NoTmp(t), e # "tmp"
           PROVE  NoTmp(t)'
      <4> SUFFICES ASSUME NEW f, OwnFile(f, t)'
                   PROVE  f.ext # "tmp"
        BY DEF NoTmp
      <4>1. f \notin {old, new} => OwnFile(f, t)
        BY <3>4, KeptFiles
      <4>2. QED
        BY <1>13, <3>10, <4>1 DEF NoTmp, OwnFile
    <3>11. HasOutput(t) => HasOutput(t)'
      <4> SUFFICES ASSUME NEW f, OwnFile(f, t), f.ext = "gsm.wav"
                   PROVE  OwnFile(f, t)'
        BY DEF HasOutput, OwnFile
      <4>1. f \notin {old, new}
        BY <1>5, <1>13
      <4>2. QED
        BY <3>4, <4>1, KeptFiles
    <3>12. QED
      BY <3>4, <3>8, <3>9, <3>10, <3>11
  <2>2. CASE disk' = disk
    <3>1. Effect(t) /\ Survives(t)
      BY <1>5, <1>12, <1>15, <1>17, <2>2, NoChangeHasEffect
    <3>2. /\ NoTmp(t) => NoTmp(t)'
          /\ HasOutput(t) => HasOutput(t)'
      BY <2>2 DEF NoTmp, HasOutput, OwnFile
    <3>3. t \notin misnamed' => new = old
      <4> SUFFICES ASSUME t \notin misnamed', new # old
                   PROVE  FALSE
        OBVIOUS
      <4>1. There(old) /\ disk' = Renamed(disk, old, new)
        BY <1>9, <1>10
      <4>2. old \notin DOMAIN Renamed(disk, old, new) /\ old \in DOMAIN disk
        BY <4>1 DEF There, Renamed, Written, Without
      <4>3. QED
        BY <2>2, <4>1, <4>2
    <3>4. HeldBy(old, t) => HeldBy(old, t)'
      BY <2>2 DEF HeldBy, There
    <3>5. QED
      BY <3>1, <3>2, <3>3, <3>4
  <2>3. QED
    BY <1>9, <1>10, <2>1, <2>2
<1>19. Keeping(w)
  BY <1>4, <1>11 DEF Keeping, Steps
<1>20. pc'[w] = "pass" /\ tape'[w] = t
  BY <1>2, <1>4, <1>11 DEF Base, PlacesInv, PlacesType
<1>21. Upto("TapeFileNaming", "TapeFileNaming")
  BY DEF Upto
<1>22. /\ e \in {"mcf", "tmp"} => Upto("DirectionSelector", "TapeFileNaming")
       /\ ~Upto("DirectionSelector", "TapeFileNaming") => NoTmp(t)'
  BY <1>6, <1>7, <1>18 DEF Upto, Arrived
<1>23. ReportsTranscoded /\ Upto("BatchProcessing", "TapeFileNaming") => Transcoded(t)'
  <2> SUFFICES ASSUME ReportsTranscoded, Upto("BatchProcessing", "TapeFileNaming"), t \notin misnamed'
               PROVE  m_fileExtension'[t] = "wav" /\ HeldBy(File(m_fileIdentifier[t], "wav"), t)'
    BY DEF Transcoded
  <2>1. Transcoded(t) /\ t \notin misnamed
    BY <1>6, <1>15 DEF Upto, Arrived
  <2>2. e = "wav" /\ HeldBy(old, t)
    BY <1>3, <1>8, <2>1 DEF Transcoded
  <2>3. HeldBy(new, t)' /\ new = File(m_fileIdentifier'[t], "wav")
    BY <1>10, <1>15, <1>18, <2>2
  <2>4. QED
    BY <1>15, <2>2, <2>3 DEF HeldBy, There
<1>24. ReportsCommanded /\ Upto("CommandProcessing", "TapeFileNaming") => HasOutput(t)'
  BY <1>6, <1>18 DEF Upto, Arrived
<1>25. ~Before("TapeFileNaming", "BatchProcessing")
  BY DEF InOrder
<1>26. Leaving("TapeFileNaming", t)'
  BY <1>7, <1>15, <1>21, <1>22, <1>23, <1>24, <1>25, SettingsStay DEF Leaving
<1>27. WorkerOK(w)'
  BY <1>1, <1>4, <1>20, <1>26 DEF WorkerOK, NamingOK
<1>28. QED
  BY <1>2, <1>4, <1>5, <1>15, <1>16, <1>18, <1>19, <1>27, StepOfThread

LEMMA StepPassNamed ==
  ASSUME Base, InOrder, Rest, PassNamed
  PROVE  Rest'
<1>1. PICK w : w = "TapeFileNaming"
  OBVIOUS
<1>2. PICK t : t = tape[w]
  OBVIOUS
<1>3. w \in Workers /\ w \notin BatchThreads /\ pc[w] = "pass" /\ HomeOf(w) = "TapeFileNaming"
  BY <1>1, ThreadsDiffer DEF Workers, PassNamed, HomeOf
<1>4. t \in Tapes /\ t \in 1..numHanded /\ FilesOK /\ WorkerOK(w) /\ RecordingSurvives
  BY <1>2, <1>3, Holding
<1>5. Leaving("TapeFileNaming", t)
  BY <1>1, <1>2, <1>3, <1>4 DEF WorkerOK, NamingOK
<1>6. /\ PassOn("TapeFileNaming", w)
      /\ UNCHANGED <<config, numHanded, outVars, nameVars, disk, slipVars>>
  BY <1>1 DEF PassNamed
<1>7. /\ \A u \in Tapes : SameNames(u) /\ SameFiles(u)
      /\ m_fileIdentifier' = m_fileIdentifier /\ m_fileExtension' = m_fileExtension
      /\ config' = config /\ numHanded' = numHanded /\ disk' = disk /\ unflushed' = unflushed
  BY <1>6 DEF SameNames, SameFiles, nameVars, slipVars
<1>8. \A c \in BatchThreads :
         outOpen'[c] = outOpen[c] /\ numSamplesOut'[c] = numSamplesOut[c]
  BY <1>6 DEF outVars
<1>9. Effect(t) /\ Survives(t)
  BY <1>4, <1>7, NoChangeHasEffect DEF FilesOK
<1>10. Passing(w) /\ Leaving(HomeOf(w), t)'
  BY <1>3, <1>4, <1>5, <1>6, <1>7, SaidOfOthers DEF Passing
<1>11. QED
  BY <1>2, <1>3, <1>4, <1>7, <1>8, <1>9, <1>10, StepOfThread

LEMMA StepOfNaming ==
  ASSUME Base, InOrder, Rest, Naming
  PROVE  Rest'
BY StepPopNaming, StepNameFile, StepPassNamed DEF Naming
-----------------------------------------------------------------------------
(* The steps of CommandProcessing                                          *)

LEMMA StepPopCommand ==
  ASSUME Base, InOrder, Rest, PopCommand
  PROVE  Rest'
<1>1. PICK w : w = "CommandProcessing"
  OBVIOUS
<1>2. w \in Workers /\ w \notin BatchThreads /\ HomeOf(w) = "CommandProcessing"
  BY <1>1, HomesOK, ThreadsDiffer DEF Workers
<1>3. PICK t : t = tape'[w]
  OBVIOUS
<1>4. PICK next : next = IF config.command = "empty" THEN "pass" ELSE "rename"
  OBVIOUS
<1>5. Pop(HomeOf(w), w, next) /\ Taking(w)
  BY <1>1, <1>2, <1>4 DEF PopCommand, Taking, Steps
<1>6. pc'["CommandProcessing"] = next
  BY <1>1, <1>2, <1>4, <1>5, HomesOK DEF Pop, Base, PlacesInv, PlacesType
<1>7. UNCHANGED <<config, numHanded, nameVars, slipVars, disk>>
  BY DEF PopCommand
\* An empty command is not run, and the tape is passed on as it came.
<1>8. Arrived("CommandProcessing", t)' /\ config.command = "empty"
        => Leaving("CommandProcessing", t)'
  BY <1>7, SettingsStay DEF Arrived, Leaving, Upto, ReportsCommanded
<1>9. Arrived("CommandProcessing", t)' => WorkerOK(w)'
  BY <1>1, <1>2, <1>3, <1>4, <1>6, <1>7, <1>8 DEF WorkerOK, CommandOK
<1>10. \A c \in BatchThreads : c # w =>
          outOpen'[c] = outOpen[c] /\ numSamplesOut'[c] = numSamplesOut[c]
  BY DEF PopCommand, outVars
<1>11. QED
  BY <1>2, <1>3, <1>5, <1>7, <1>9, <1>10, StepOfTaking

LEMMA StepPassCommanded ==
  ASSUME Base, InOrder, Rest, PassCommanded
  PROVE  Rest'
<1>1. PICK w : w = "CommandProcessing"
  OBVIOUS
<1>2. PICK t : t = tape[w]
  OBVIOUS
<1>3. w \in Workers /\ w \notin BatchThreads /\ pc[w] = "pass" /\ HomeOf(w) = "CommandProcessing"
  BY <1>1, ThreadsDiffer DEF Workers, PassCommanded, HomeOf
<1>4. t \in Tapes /\ t \in 1..numHanded /\ FilesOK /\ WorkerOK(w) /\ RecordingSurvives
  BY <1>2, <1>3, Holding
<1>5. Leaving("CommandProcessing", t)
  BY <1>1, <1>2, <1>3, <1>4 DEF WorkerOK, CommandOK
<1>6. /\ PassOn("CommandProcessing", w)
      /\ UNCHANGED <<config, numHanded, outVars, nameVars, disk, slipVars>>
  BY <1>1 DEF PassCommanded
<1>7. /\ \A u \in Tapes : SameNames(u) /\ SameFiles(u)
      /\ m_fileIdentifier' = m_fileIdentifier /\ m_fileExtension' = m_fileExtension
      /\ config' = config /\ numHanded' = numHanded /\ disk' = disk /\ unflushed' = unflushed
  BY <1>6 DEF SameNames, SameFiles, nameVars, slipVars
<1>8. \A c \in BatchThreads :
         outOpen'[c] = outOpen[c] /\ numSamplesOut'[c] = numSamplesOut[c]
  BY <1>6 DEF outVars
<1>9. Effect(t) /\ Survives(t)
  BY <1>4, <1>7, NoChangeHasEffect DEF FilesOK
<1>10. Passing(w) /\ Leaving(HomeOf(w), t)'
  BY <1>3, <1>4, <1>5, <1>6, <1>7, SaidOfOthers DEF Passing
<1>11. QED
  BY <1>2, <1>3, <1>4, <1>7, <1>8, <1>9, <1>10, StepOfThread

\* A tape with CommandProcessing, whose thread runs a command on it: the chain is
\* not one that promises something of a transcoded file.
LEMMA TapeOfCommand ==
  ASSUME Base, InOrder, Rest, pc["CommandProcessing"] \in {"rename", "run", "check"},
         NEW t, t = tape["CommandProcessing"]
  PROVE  /\ t \in Tapes /\ t \in 1..numHanded /\ FilesOK /\ RecordingSurvives
         /\ Arrived("CommandProcessing", t) /\ InChain("CommandProcessing")
         /\ Unnamed(t) /\ m_fileIdentifier[t] = Captured(t)
         /\ Commanded /\ ~KeepsFiles /\ ~ReportsTranscoded
         /\ pc["CommandProcessing"] = "run" => There(CommandTmp(t))
         /\ pc["CommandProcessing"] = "check" => config.command = "inout"
         /\ {Storage(t), CommandTmp(t), GsmWav(t)} \subseteq CapturedNames(t)
         /\ Storage(t).ext = "wav" /\ CommandTmp(t).ext = "wav.tmp" /\ GsmWav(t).ext = "gsm.wav"
<1>1. "CommandProcessing" \in Workers /\ pc["CommandProcessing"] # "pop"
  BY DEF Workers
<1>2. t \in Tapes /\ t \in 1..numHanded /\ FilesOK /\ RecordingSurvives /\ CommandOK
  BY <1>1, Holding DEF WorkerOK
<1>3. /\ Arrived("CommandProcessing", t) /\ config.command # "empty"
      /\ pc["CommandProcessing"] = "run" => There(CommandTmp(t))
      /\ pc["CommandProcessing"] = "check" => config.command = "inout"
  BY <1>2 DEF CommandOK
<1>4. Unnamed(t) /\ m_fileIdentifier[t] = Captured(t)
  BY <1>3, FirstNames
<1>5. InChain("CommandProcessing") /\ Commanded /\ ~KeepsFiles /\ ~ReportsTranscoded
  BY <1>3 DEF Arrived, Commanded, KeepsFiles, ReportsTranscoded
<1>6. "wav" \in Extensions /\ "wav.tmp" \in Extensions /\ "gsm.wav" \in Extensions
  BY DEF Extensions
<1>7. /\ {Storage(t), CommandTmp(t), GsmWav(t)} \subseteq CapturedNames(t)
      /\ Storage(t).ext = "wav" /\ CommandTmp(t).ext = "wav.tmp" /\ GsmWav(t).ext = "gsm.wav"
  BY <1>4, <1>6, FileParts DEF Storage, CommandTmp, GsmWav, CapturedNames
<1>8. QED
  BY <1>2, <1>3, <1>4, <1>5, <1>7

LEMMA StepRenameInput ==
  ASSUME Base, InOrder, Rest, RenameInput
  PROVE  Rest'
<1>1. PICK w : w = "CommandProcessing"
  OBVIOUS
<1>2. PICK t : t = tape[w]
  OBVIOUS
<1>3. w \in Workers /\ w \notin BatchThreads /\ pc[w] = "rename"
  BY <1>1, ThreadsDiffer DEF Workers, RenameInput
<1>4. PICK f, g : f = Storage(t) /\ g = CommandTmp(t)
  OBVIOUS
<1>5. /\ t \in Tapes /\ t \in 1..numHanded /\ FilesOK /\ RecordingSurvives
      /\ Arrived("CommandProcessing", t)
      /\ Commanded /\ ~KeepsFiles /\ ~ReportsTranscoded
      /\ f \in CapturedNames(t) /\ g \in CapturedNames(t) /\ f.ext = "wav" /\ g.ext = "wav.tmp"
  BY <1>1, <1>2, <1>3, <1>4, TapeOfCommand
<1>6. /\ \/ /\ There(Storage(t))
            /\ disk' = Renamed(disk, Storage(t), CommandTmp(t))
            /\ Proceed(w, "run")
         \/ GiveUp(w) /\ UNCHANGED disk
      /\ UNCHANGED <<config, numHanded, outVars, nameVars, slipVars>>
  BY <1>1, <1>2 DEF RenameInput
<1>7. /\ \A u \in Tapes : SameNames(u)
      /\ config' = config /\ numHanded' = numHanded /\ m_fileIdentifier' = m_fileIdentifier
      /\ unflushed' = unflushed /\ m_fileExtension' = m_fileExtension
  BY <1>6 DEF SameNames, nameVars, slipVars
<1>8. \A c \in BatchThreads :
         outOpen'[c] = outOpen[c] /\ numSamplesOut'[c] = numSamplesOut[c]
  BY <1>6 DEF outVars
<1>9. CASE GiveUp(w) /\ UNCHANGED disk
  <2>1. Dropping(w)
    BY <1>3, <1>6, <1>9 DEF Dropping
  <2>2. Effect(t) /\ Survives(t)
    BY <1>5, <1>7, <1>9, NoChangeHasEffect DEF FilesOK
  <2>3. QED
    BY <1>2, <1>3, <1>5, <1>7, <1>8, <2>1, <2>2, StepOfThread
<1>10. CASE /\ There(Storage(t))
            /\ disk' = Renamed(disk, Storage(t), CommandTmp(t))
            /\ Proceed(w, "run")
  <2>1. f \in DOMAIN disk /\ disk[f].of = t /\ (g \in DOMAIN disk => disk[g].of = t) /\ g # f
    BY <1>4, <1>5, <1>10, CapturedNamesAreOwn DEF There
  <2>2. disk[f] \in [of : {t}, whole : BOOLEAN]
    BY <1>5, <2>1, OwnFileType
  <2>3. disk' = Renamed(disk, f, g)
    BY <1>4, <1>10
  <2>4. Changes({f, g}, t) /\ g \in DOMAIN disk'
    BY <2>1, <2>2, <2>3, RenamingChanges
  <2>5. {f, g} \in SUBSET CapturedNames(t) /\ \A h \in {f, g} : h.ext \in {"wav", "wav.tmp"}
    BY <1>5
  <2>6. SameNames(t)
    BY <1>5, <1>7
  <2>7. Effect(t)
    BY <1>5, <1>7, <2>4, <2>5, <2>6, CapturedChange
  <2>8. Arrived("CommandProcessing", t)'
    BY <1>5, <1>7, <2>4, <2>5, <2>6, ArrivedChange
  <2>9. Survives(t)
    BY <1>5 DEF Survives
  <2>10. Keeping(w)
    BY <1>3, <1>6, <1>10 DEF Keeping, Proceed, Steps
  <2>11. pc'[w] = "run" /\ tape'[w] = t
    BY <1>2, <1>3, <1>10 DEF Proceed, Base, PlacesInv, PlacesType
  <2>12. There(CommandTmp(t))'
    BY <1>4, <1>7, <2>4 DEF There, CommandTmp
  <2>13. config'.command # "empty"
    BY <1>5, <1>7 DEF Commanded
  <2>14. WorkerOK(w)'
    BY <1>1, <1>3, <2>8, <2>11, <2>12, <2>13 DEF WorkerOK, CommandOK
  <2>15. QED
    BY <1>2, <1>3, <1>5, <1>7, <1>8, <2>7, <2>9, <2>10, <2>14, StepOfThread
<1>11. QED
  BY <1>6, <1>9, <1>10

LEMMA StepRunCommand ==
  ASSUME Base, InOrder, Rest, RunCommand
  PROVE  Rest'
<1>1. PICK w : w = "CommandProcessing"
  OBVIOUS
<1>2. PICK t : t = tape[w]
  OBVIOUS
<1>3. w \in Workers /\ w \notin BatchThreads /\ pc[w] = "run"
  BY <1>1, ThreadsDiffer DEF Workers, RunCommand
<1>4. PICK f, g : f = Storage(t) /\ g = CommandTmp(t)
  OBVIOUS
<1>5. /\ t \in Tapes /\ t \in 1..numHanded /\ FilesOK /\ RecordingSurvives
      /\ Arrived("CommandProcessing", t)
      /\ Commanded /\ ~KeepsFiles /\ ~ReportsTranscoded
      /\ f \in CapturedNames(t) /\ g \in CapturedNames(t) /\ f.ext = "wav"
      /\ g \in DOMAIN disk
  BY <1>1, <1>2, <1>3, <1>4, TapeOfCommand DEF There
<1>6. /\ \/ config.command = "plain" /\ UNCHANGED disk /\ Proceed(w, "pass")
         \/ /\ config.command = "inout"
            /\ \/ \E whole \in {disk[CommandTmp(t)].whole, FALSE} :
                    disk' = Written(disk, Storage(t), [of |-> t, whole |-> whole])
               \/ UNCHANGED disk
            /\ Proceed(w, "check")
      /\ UNCHANGED <<config, numHanded, outVars, nameVars, slipVars>>
  BY <1>1, <1>2 DEF RunCommand
<1>7. /\ \A u \in Tapes : SameNames(u)
      /\ config' = config /\ numHanded' = numHanded /\ m_fileIdentifier' = m_fileIdentifier
      /\ unflushed' = unflushed /\ m_fileExtension' = m_fileExtension
  BY <1>6 DEF SameNames, nameVars, slipVars
<1>8. \A c \in BatchThreads :
         outOpen'[c] = outOpen[c] /\ numSamplesOut'[c] = numSamplesOut[c]
  BY <1>6 DEF outVars
<1>9. disk[g].of = t /\ (f \in DOMAIN disk => disk[f].of = t)
  BY <1>5, CapturedNamesAreOwn
<1>10. disk[g].whole \in BOOLEAN
  BY <1>5, <1>9, OwnFileType
\* The files of the tape and what was true when it arrived.
<1>11. Effect(t) /\ Survives(t) /\ Arrived("CommandProcessing", t)'
  <2>1. CASE UNCHANGED disk
    <3>1. SameFiles(t)
      BY <2>1 DEF SameFiles
    <3>2. Arrived("CommandProcessing", t)'
      BY <1>5, <1>7, <3>1, SaidOfOthers
    <3>3. QED
      BY <1>5, <1>7, <2>1, <3>2, NoChangeHasEffect DEF FilesOK
  <2>2. ASSUME NEW whole \in {disk[CommandTmp(t)].whole, FALSE},
               disk' = Written(disk, Storage(t), [of |-> t, whole |-> whole])
        PROVE  Effect(t) /\ Survives(t) /\ Arrived("CommandProcessing", t)'
    <3>1. whole \in BOOLEAN /\ disk' = Written(disk, f, [of |-> t, whole |-> whole])
      BY <1>4, <1>10, <2>2
    <3>2. Changes({f}, t)
      BY <1>9, <3>1, WritingChanges
    <3>3. {f} \in SUBSET CapturedNames(t) /\ \A h \in {f} : h.ext \in {"wav", "wav.tmp"}
      BY <1>5
    <3>4. SameNames(t)
      BY <1>5, <1>7
    <3>5. Effect(t)
      BY <1>5, <1>7, <3>2, <3>3, <3>4, CapturedChange
    <3>6. Arrived("CommandProcessing", t)'
      BY <1>5, <1>7, <3>2, <3>3, <3>4, ArrivedChange
    <3>7. Survives(t)
      BY <1>5 DEF Survives
    <3>8. QED
      BY <3>5, <3>6, <3>7
  <2>3. QED
    BY <1>6, <2>1, <2>2
<1>12. PICK next \in {"pass", "check"} :
          /\ Proceed(w, next)
          /\ config.command = IF next = "pass" THEN "plain" ELSE "inout"
  BY <1>6
<1>13. Keeping(w)
  BY <1>3, <1>6, <1>12 DEF Keeping, Proceed, Steps
<1>14. pc'[w] = next /\ tape'[w] = t
  BY <1>2, <1>3, <1>12 DEF Proceed, Base, PlacesInv, PlacesType
<1>15. next = "pass" => Leaving("CommandProcessing", t)'
  BY <1>7, <1>11, <1>12, SettingsStay DEF Arrived, Leaving, Upto, ReportsCommanded
<1>16. config'.command = config.command /\ config.command # "empty"
  BY <1>7, <1>12
<1>17. WorkerOK(w)'
  BY <1>1, <1>3, <1>11, <1>12, <1>14, <1>15, <1>16 DEF WorkerOK, CommandOK
<1>18. QED
  BY <1>2, <1>3, <1>5, <1>7, <1>8, <1>11, <1>13, <1>17, StepOfThread
LEMMA StepCheckOutput ==
  ASSUME Base, InOrder, Rest, CheckOutput
  PROVE  Rest'
<1>1. PICK w : w = "CommandProcessing"
  OBVIOUS
<1>2. PICK t : t = tape[w]
  OBVIOUS
<1>3. w \in Workers /\ w \notin BatchThreads /\ pc[w] = "check"
  BY <1>1, ThreadsDiffer DEF Workers, CheckOutput
<1>4. PICK f, g, h : f = Storage(t) /\ g = CommandTmp(t) /\ h = GsmWav(t)
  OBVIOUS
<1>5. /\ t \in Tapes /\ t \in 1..numHanded /\ FilesOK /\ RecordingSurvives
      /\ Arrived("CommandProcessing", t) /\ InChain("CommandProcessing") /\ Unnamed(t)
      /\ Commanded /\ ~KeepsFiles /\ ~ReportsTranscoded
      /\ f \in CapturedNames(t) /\ g \in CapturedNames(t) /\ h \in CapturedNames(t)
      /\ f.ext = "wav" /\ g.ext = "wav.tmp" /\ h.ext = "gsm.wav"
  BY <1>1, <1>2, <1>3, <1>4, TapeOfCommand
<1>6. /\ disk' = IF f \in DOMAIN disk THEN Renamed(Without(disk, {g}), f, h)
                                      ELSE Without(disk, {g})
      /\ \/ /\ f \in DOMAIN disk
            /\ m_fileExtension' = [m_fileExtension EXCEPT ![t] = "path of gsm.wav"]
            /\ Proceed(w, "pass")
         \/ GiveUp(w) /\ UNCHANGED m_fileExtension
      /\ UNCHANGED <<config, numHanded, outVars, m_fileIdentifier, m_filename, slipVars>>
  BY <1>1, <1>2, <1>4 DEF CheckOutput, outputIsThere, There
<1>7. /\ \A u \in Tapes : u # t => SameNames(u)
      /\ config' = config /\ numHanded' = numHanded
      /\ m_fileIdentifier' = m_fileIdentifier /\ m_filename' = m_filename
      /\ unflushed' = unflushed
  <2>1. \A u \in Tapes : u # t => m_fileExtension'[u] = m_fileExtension[u]
    BY <1>6 DEF Base, FilesType
  <2>2. QED
    BY <1>6, <2>1 DEF SameNames, slipVars
<1>8. \A c \in BatchThreads :
         outOpen'[c] = outOpen[c] /\ numSamplesOut'[c] = numSamplesOut[c]
  BY <1>6 DEF outVars
<1>9. /\ \A k \in {f, g, h} : k.id = Captured(t) /\ (k \in DOMAIN disk => disk[k].of = t)
      /\ {f, g, h} \in SUBSET FileNames(t)
  BY <1>5, CapturedNamesAreOwn
<1>10. /\ \A k : k \notin {f, g, h} => /\ k \in DOMAIN disk' <=> k \in DOMAIN disk
                                       /\ k \in DOMAIN disk => disk'[k] = disk[k]
       /\ f \notin DOMAIN disk' /\ g \notin DOMAIN disk'
       /\ f \in DOMAIN disk => h \in DOMAIN disk' /\ disk'[h] = disk[f]
       /\ f \notin DOMAIN disk /\ h \in DOMAIN disk' => h \in DOMAIN disk /\ disk'[h] = disk[h]
  <2>1. PICK d : d = Without(disk, {g})
    OBVIOUS
  <2>2. /\ DOMAIN d = DOMAIN disk \ {g}
        /\ \A k \in DOMAIN disk : k # g => d[k] = disk[k]
    BY <2>1 DEF Without
  <2>3. f # g /\ f # h /\ g # h
    BY <1>5
  <2>4. CASE f \in DOMAIN disk
    <3>1. disk' = Renamed(d, f, h)
      BY <1>6, <2>1, <2>4
    <3>2. /\ DOMAIN disk' = (DOMAIN d \ {f}) \cup {h}
          /\ disk'[h] = d[f]
          /\ \A k \in DOMAIN d : k # f /\ k # h => disk'[k] = d[k]
      BY <3>1 DEF Renamed, Written, Without
    <3>3. QED
      BY <2>2, <2>3, <2>4, <3>2
  <2>5. CASE f \notin DOMAIN disk
    <3>1. disk' = d
      BY <1>6, <2>1, <2>5
    <3>2. QED
      BY <2>2, <2>3, <2>5, <3>1
  <2>6. QED
    BY <2>4, <2>5
<1>11. Changes({f, g, h}, t)
  <2>1. h \in DOMAIN disk' => disk'[h] \in [of : {t}, whole : BOOLEAN]
    BY <1>5, <1>9, <1>10, OwnFileType
  <2>2. QED
    BY <1>9, <1>10, <2>1 DEF Changes
<1>12. m_fileExtension'[t] = "path of gsm.wav" => Commanded
  BY <1>5
<1>13. Effect(t) /\ Survives(t)
  <2>1. m_fileIdentifier'[t] \in Ids(t) /\ (t \in unflushed' => InChain("DirectionSelector"))
    BY <1>5, <1>7 DEF FilesOK
  <2>2. Effect(t)
    BY <1>5, <1>9, <1>11, <1>12, <2>1, ChangeHasEffect
  <2>3. QED
    BY <1>5, <2>2 DEF Survives
<1>14. CASE GiveUp(w)
  <2>1. Dropping(w)
    BY <1>3, <1>6, <1>14 DEF Dropping
  <2>2. QED
    BY <1>2, <1>3, <1>5, <1>7, <1>8, <1>13, <2>1, StepOfThread
<1>15. CASE /\ f \in DOMAIN disk
            /\ m_fileExtension' = [m_fileExtension EXCEPT ![t] = "path of gsm.wav"]
            /\ Proceed(w, "pass")
  <2>1. Keeping(w)
    BY <1>3, <1>6, <1>15 DEF Keeping, Proceed, Steps
  <2>2. pc'[w] = "pass" /\ tape'[w] = t
    BY <1>2, <1>3, <1>15 DEF Proceed, Base, PlacesInv, PlacesType
  <2>3. m_fileExtension'[t] \notin {"mcf", "tmp"}
    BY <1>5, <1>15 DEF Base, FilesType
  <2>4. Unnamed(t)'
    <3> SUFFICES ASSUME NEW k, OwnFile(k, t)'
                 PROVE  k.id = Captured(t)
      BY <1>5, <1>7 DEF Unnamed
    <3>1. k \notin {f, g, h} => OwnFile(k, t)
      BY <1>11, KeptFiles
    <3>2. QED
      BY <1>5, <1>9, <3>1 DEF Unnamed, OwnFile
  <2>5. NoTmp(t) => NoTmp(t)'
    <3> SUFFICES ASSUME NoTmp(t), NEW k, OwnFile(k, t)'
                 PROVE  k.ext # "tmp"
      BY DEF NoTmp
    <3>1. k \notin {f, g, h} => OwnFile(k, t)
      BY <1>11, KeptFiles
    <3>2. QED
      BY <1>5, <3>1 DEF NoTmp, OwnFile
  <2>6. Captures(t) => Captures(t)'
    <3>1. PICK k : k = File(Captured(t), "mcf")
      OBVIOUS
    <3>2. k \notin {f, g, h}
      BY <1>5, <3>1, FileParts
    <3>3. HeldBy(k, t) => HeldBy(k, t)'
      BY <1>11, <3>2, KeptFiles
    <3>4. QED
      BY <1>7, <3>1, <3>3 DEF Captures, HeldBy, There
  \* The output is there under its final name.
  <2>7. HasOutput(t)'
    BY <1>5, <1>9, <1>10, <1>15 DEF HasOutput, OwnFile
  <2>8. /\ ~Upto("DirectionSelector", "CommandProcessing") => NoTmp(t)'
        /\ Before("CommandProcessing", "BatchProcessing") => Captures(t)'
    BY <1>5, <2>5, <2>6 DEF Arrived, Upto
  <2>9. Leaving("CommandProcessing", t)'
    BY <1>5, <1>7, <2>3, <2>4, <2>7, <2>8, SettingsStay DEF Leaving
  <2>10. WorkerOK(w)'
    BY <1>1, <1>3, <2>2, <2>9 DEF WorkerOK, CommandOK
  <2>11. QED
    BY <1>2, <1>3, <1>5, <1>7, <1>8, <1>13, <2>1, <2>10, StepOfThread
<1>16. QED
  BY <1>6, <1>14, <1>15

LEMMA StepOfCommand ==
  ASSUME Base, InOrder, Rest, Command
  PROVE  Rest'
BY StepPopCommand, StepPassCommanded, StepRenameInput, StepRunCommand, StepCheckOutput
   DEF Command
-----------------------------------------------------------------------------
(* The steps of BatchProcessing                                            *)

\* A tape with a thread of BatchProcessing still has its first identifier and
\* its capture file.
LEMMA TapeOfBatch ==
  ASSUME Base, InOrder, Rest, NEW b \in BatchThreads, pc[b] # "pop", NEW t, t = tape[b]
  PROVE  /\ t \in Tapes /\ t \in 1..numHanded /\ FilesOK /\ RecordingSurvives
         /\ config \in Configs /\ NamedOnce
         /\ Arrived("BatchProcessing", t) /\ InChain("BatchProcessing")
         /\ BatchOK(b)
         /\ Unnamed(t) /\ m_fileIdentifier[t] = Captured(t) /\ Captures(t)
         /\ m_filename[t] = File(Captured(t), "mcf") /\ Storage(t) = File(Captured(t), "wav")
         /\ {m_filename[t], Storage(t)} \subseteq CapturedNames(t)
         /\ m_filename[t].ext = "mcf" /\ Storage(t).ext = "wav"
         /\ ~Before("BatchProcessing", "BatchProcessing")
<1>1. b \in Workers
  BY DEF Workers
<1>2. /\ t \in Tapes /\ t \in 1..numHanded /\ FilesOK /\ RecordingSurvives /\ BatchOK(b)
      /\ config \in Configs /\ NamedOnce
  BY <1>1, Holding DEF WorkerOK
<1>3. Arrived("BatchProcessing", t) /\ InChain("BatchProcessing")
  BY <1>2 DEF BatchOK, Arrived
<1>4. /\ Unnamed(t) /\ m_fileIdentifier[t] = Captured(t) /\ Captures(t)
      /\ m_filename[t] = File(Captured(t), "mcf")
  BY <1>3, FirstNames
<1>5. "wav" \in Extensions /\ "mcf" \in Extensions
  BY DEF Extensions
<1>6. Storage(t) = File(Captured(t), "wav")
  BY <1>4 DEF Storage
<1>7. /\ {m_filename[t], Storage(t)} \subseteq CapturedNames(t)
      /\ m_filename[t].ext = "mcf" /\ Storage(t).ext = "wav"
  BY <1>4, <1>5, <1>6, FileParts DEF CapturedNames
<1>8. ~Before("BatchProcessing", "BatchProcessing")
  BY <1>2, BeforeIsAnOrder
<1>9. QED
  BY <1>2, <1>3, <1>4, <1>6, <1>7, <1>8

LEMMA StepPopTape ==
  ASSUME Base, InOrder, Rest, NEW b \in BatchThreads, PopTape(b)
  PROVE  Rest'
<1>1. b \in Workers /\ HomeOf(b) = "BatchProcessing"
  BY HomesOK DEF Workers
<1>2. PICK t : t = tape'[b]
  OBVIOUS
<1>3. Pop(HomeOf(b), b, "open") /\ Taking(b)
  BY <1>1 DEF PopTape, Taking, Steps
<1>4. pc'[b] = "open" /\ ~outOpen'[b] /\ ~numSamplesOut'[b]
  BY <1>1, <1>3 DEF Pop, PopTape, Base, PlacesInv, PlacesType, FilesType
<1>5. Arrived("BatchProcessing", t)' => BatchOK(b)'
  BY <1>2, <1>4 DEF BatchOK
<1>6. Arrived("BatchProcessing", t)' => WorkerOK(b)'
  BY <1>5, ThreadsDiffer DEF WorkerOK
<1>7. \A c \in BatchThreads : c # b =>
         outOpen'[c] = outOpen[c] /\ numSamplesOut'[c] = numSamplesOut[c]
  BY DEF PopTape, Base, FilesType
<1>8. UNCHANGED <<nameVars, slipVars, disk>>
  BY DEF PopTape
<1>9. QED
  BY <1>1, <1>2, <1>3, <1>6, <1>7, <1>8, StepOfTaking

\* A thread goes on with the tape, which keeps its capture file: the storage file
\* may have changed.
LEMMA StepOfTranscoding ==
  ASSUME Base, InOrder, Rest, NEW b \in BatchThreads, pc[b] # "pop", NEW t, t = tape[b],
         UNCHANGED <<config, numHanded, nameVars, slipVars>>,
         \A c \in BatchThreads : c # b =>
           outOpen'[c] = outOpen[c] /\ numSamplesOut'[c] = numSamplesOut[c],
         Keeping(b), pc'[b] \in {"read", "done", "catch"}, tape'[b] = t,
         Changes({Storage(t)}, t),
         pc'[b] = "read" => /\ There(m_filename[t])
                            /\ outOpen'[b] => There(Storage(t))'
                            /\ numSamplesOut'[b] => outOpen'[b],
         pc'[b] = "done" /\ numSamplesOut'[b] /\ t \notin unflushed => HeldBy(Storage(t), t)'
  PROVE  Rest'
<1>1. PICK f, g : f = Storage(t) /\ g = m_filename[t]
  OBVIOUS
<1>2. /\ t \in Tapes /\ t \in 1..numHanded /\ FilesOK /\ RecordingSurvives
      /\ Arrived("BatchProcessing", t) /\ Captures(t)
      /\ f \in CapturedNames(t) /\ f.ext = "wav" /\ g.ext = "mcf"
      /\ g = File(Captured(t), "mcf")
      /\ ~Before("BatchProcessing", "BatchProcessing")
  BY <1>1, TapeOfBatch
<1>3. /\ \A u \in Tapes : SameNames(u)
      /\ config' = config /\ numHanded' = numHanded
      /\ unflushed' = unflushed /\ m_filename' = m_filename
      /\ m_fileIdentifier' = m_fileIdentifier
  BY DEF SameNames, nameVars, slipVars
<1>4. Changes({f}, t)
  BY <1>1
<1>5. {f} \in SUBSET CapturedNames(t) /\ \A h \in {f} : h.ext \in {"wav", "wav.tmp"}
  BY <1>2
<1>6. SameNames(t)
  BY <1>2, <1>3
<1>7. Effect(t)
  BY <1>2, <1>3, <1>4, <1>5, <1>6, CapturedChange
<1>8. Arrived("BatchProcessing", t)'
  BY <1>2, <1>3, <1>4, <1>5, <1>6, ArrivedChange
<1>9. g \notin {f}
  BY <1>2
<1>10. (HeldBy(g, t)' <=> HeldBy(g, t)) /\ (There(g)' <=> There(g))
  BY <1>4, <1>9, KeptFiles
<1>11. Survives(t)
  <2>1. t \notin unflushed' => HeldBy(g, t)'
    BY <1>2, <1>3, <1>10 DEF Captures
  <2>2. QED
    BY <1>2, <1>3, <1>4, <2>1, SurvivesChange
<1>12. There(m_filename[t]) => There(m_filename[t])'
  BY <1>1, <1>3, <1>10 DEF There
<1>13. BatchOK(b)'
  BY <1>3, <1>8, <1>12 DEF BatchOK
<1>14. WorkerOK(b)'
  BY <1>13, ThreadsDiffer DEF WorkerOK
<1>15. b \in Workers
  BY DEF Workers
<1>16. QED
  BY <1>2, <1>3, <1>7, <1>11, <1>14, <1>15, StepOfThread

LEMMA UntouchedStorage ==
  ASSUME FilesOK, NEW t \in Tapes, Storage(t) \in CapturedNames(t), disk' = disk
  PROVE  Changes({Storage(t)}, t)
<1>1. PICK f : f = Storage(t)
  OBVIOUS
<1>2. f \in DOMAIN disk => disk[f].of = t
  BY <1>1, CapturedNamesAreOwn
<1>3. f \in DOMAIN disk => disk[f] \in [of : {t}, whole : BOOLEAN]
  BY <1>2, OwnFileType
<1>4. QED
  BY <1>1, <1>2, <1>3 DEF Changes

LEMMA StepOpenNative ==
  ASSUME Base, InOrder, Rest, NEW b \in BatchThreads, OpenNative(b)
  PROVE  Rest'
<1>1. PICK t : t = tape[b]
  OBVIOUS
<1>2. b \in Workers /\ pc[b] = "open"
  BY DEF Workers, OpenNative
<1>3. ~outOpen[b] /\ ~numSamplesOut[b]
  BY <1>1, <1>2, TapeOfBatch DEF BatchOK
<1>4. /\ UNCHANGED <<config, numHanded, outVars, nameVars, disk, slipVars>>
      /\ (There(m_filename[t]) /\ Proceed(b, "read")) \/ Proceed(b, "catch")
  BY <1>1 DEF OpenNative
<1>5. PICK next \in {"read", "catch"} :
         Proceed(b, next) /\ (next = "read" => There(m_filename[t]))
  BY <1>4
<1>6. Keeping(b)
  BY <1>2, <1>4, <1>5 DEF Keeping, Proceed, Steps
<1>7. pc'[b] = next /\ tape'[b] = t
  BY <1>1, <1>2, <1>5 DEF Proceed, Base, PlacesInv, PlacesType
<1>8. outOpen' = outOpen /\ numSamplesOut' = numSamplesOut
  BY <1>4 DEF outVars
<1>9. Changes({Storage(t)}, t)
  BY <1>1, <1>2, <1>4, TapeOfBatch, UntouchedStorage
<1>10. QED
  BY <1>1, <1>2, <1>3, <1>4, <1>5, <1>6, <1>7, <1>8, <1>9, StepOfTranscoding
LEMMA StepOpenOutput ==
  ASSUME Base, InOrder, Rest, NEW b \in BatchThreads, OpenOutput(b)
  PROVE  Rest'
<1>1. PICK t, f : t = tape[b] /\ f = Storage(t)
  OBVIOUS
<1>2. b \in Workers /\ pc[b] = "read"
  BY DEF Workers, OpenOutput
<1>3. /\ t \in Tapes /\ FilesOK /\ Storage(t) \in CapturedNames(t)
      /\ There(m_filename[t]) /\ (numSamplesOut[b] => outOpen[b])
  BY <1>1, <1>2, TapeOfBatch DEF BatchOK
<1>4. /\ UNCHANGED <<config, numHanded, numSamplesOut, nameVars, slipVars>>
      /\ \/ /\ outOpen' = [outOpen EXCEPT ![b] = TRUE]
            /\ disk' = Written(disk, Storage(t), [of |-> t, whole |-> FALSE])
            /\ UNCHANGED <<pc, tape, m_audioTapeQueue, endVars>>
         \/ Proceed(b, "catch") /\ UNCHANGED <<outOpen, disk>>
  BY <1>1 DEF OpenOutput
<1>5. \A c \in BatchThreads : c # b =>
         outOpen'[c] = outOpen[c] /\ numSamplesOut'[c] = numSamplesOut[c]
  BY <1>4 DEF Base, FilesType
<1>6. pc \in [Workers -> Steps] /\ outOpen \in [BatchThreads -> BOOLEAN]
  BY DEF Base, PlacesInv, PlacesType, FilesType
<1>7. CASE Proceed(b, "catch") /\ UNCHANGED <<outOpen, disk>>
  <2>1. Keeping(b)
    BY <1>2, <1>4, <1>7 DEF Keeping, Proceed, Steps
  <2>2. pc'[b] = "catch" /\ tape'[b] = t
    BY <1>1, <1>2, <1>6, <1>7 DEF Proceed
  <2>3. Changes({Storage(t)}, t)
    BY <1>3, <1>7, UntouchedStorage
  <2>4. QED
    BY <1>1, <1>2, <1>4, <1>5, <2>1, <2>2, <2>3, StepOfTranscoding
<1>8. CASE /\ outOpen' = [outOpen EXCEPT ![b] = TRUE]
           /\ disk' = Written(disk, Storage(t), [of |-> t, whole |-> FALSE])
           /\ UNCHANGED <<pc, tape, m_audioTapeQueue, endVars>>
  <2>1. Keeping(b)
    <3>1. pc' = [pc EXCEPT ![b] = "read"] /\ "read" \in Steps
      BY <1>2, <1>6, <1>8 DEF Steps
    <3>2. QED
      BY <1>2, <1>4, <1>8, <3>1 DEF Keeping
  <2>2. pc'[b] = "read" /\ tape'[b] = t /\ outOpen'[b]
    BY <1>1, <1>2, <1>6, <1>8
  <2>3. f \in DOMAIN disk => disk[f].of = t
    BY <1>1, <1>3, CapturedNamesAreOwn
  <2>4. disk' = Written(disk, f, [of |-> t, whole |-> FALSE]) /\ FALSE \in BOOLEAN
    BY <1>1, <1>8
  <2>5. Changes({f}, t) /\ f \in DOMAIN disk'
    BY <2>3, <2>4, WritingChanges
  <2>6. Changes({Storage(t)}, t) /\ There(Storage(t))'
    <3>1. Storage(t)' = Storage(t)
      BY <1>4 DEF Storage, nameVars
    <3>2. QED
      BY <1>1, <2>5, <3>1 DEF There
  <2>7. QED
    BY <1>1, <1>2, <1>3, <1>4, <1>5, <2>1, <2>2, <2>6, StepOfTranscoding
<1>9. QED
  BY <1>4, <1>7, <1>8

LEMMA StepTranscodeChunk ==
  ASSUME Base, InOrder, Rest, NEW b \in BatchThreads, TranscodeChunk(b)
  PROVE  Rest'
<1>1. PICK t : t = tape[b]
  OBVIOUS
<1>2. b \in Workers /\ pc[b] = "read"
  BY DEF Workers, TranscodeChunk
<1>3. /\ t \in Tapes /\ FilesOK /\ Storage(t) \in CapturedNames(t)
      /\ There(m_filename[t]) /\ (outOpen[b] => There(Storage(t)))
  BY <1>1, <1>2, TapeOfBatch DEF BatchOK
<1>4. /\ UNCHANGED <<config, numHanded, outOpen, nameVars, disk, slipVars>>
      /\ outOpen[b]
      /\ \/ /\ numSamplesOut' = [numSamplesOut EXCEPT ![b] = TRUE]
            /\ UNCHANGED <<pc, tape, m_audioTapeQueue, endVars>>
         \/ Proceed(b, "catch") /\ UNCHANGED numSamplesOut
  BY DEF TranscodeChunk
<1>5. \A c \in BatchThreads : c # b =>
         outOpen'[c] = outOpen[c] /\ numSamplesOut'[c] = numSamplesOut[c]
  BY <1>4 DEF Base, FilesType
<1>6. pc \in [Workers -> Steps]
  BY DEF Base, PlacesInv, PlacesType
<1>7. Changes({Storage(t)}, t)
  BY <1>3, <1>4, UntouchedStorage
<1>8. Keeping(b) /\ pc'[b] \in {"read", "catch"} /\ tape'[b] = t
  <2>1. CASE Proceed(b, "catch")
    BY <1>1, <1>2, <1>4, <1>6, <2>1 DEF Keeping, Proceed, Steps
  <2>2. CASE UNCHANGED <<pc, tape, m_audioTapeQueue, endVars>>
    <3>1. pc' = [pc EXCEPT ![b] = "read"] /\ "read" \in Steps
      BY <1>2, <1>6, <2>2 DEF Steps
    <3>2. QED
      BY <1>1, <1>2, <1>4, <2>2, <3>1 DEF Keeping
  <2>3. QED
    BY <1>4, <2>1, <2>2
<1>9. /\ There(Storage(t))' /\ outOpen'[b]
  <2>1. Storage(t)' = Storage(t)
    BY <1>4 DEF Storage, nameVars
  <2>2. QED
    BY <1>3, <1>4, <2>1 DEF There
<1>10. QED
  BY <1>1, <1>2, <1>3, <1>4, <1>5, <1>7, <1>8, <1>9, StepOfTranscoding

LEMMA StepCloseFiles ==
  ASSUME Base, InOrder, Rest, NEW b \in BatchThreads, CloseFiles(b)
  PROVE  Rest'
<1>1. PICK t, f, g : t = tape[b] /\ f = Storage(t) /\ g = m_filename[t]
  OBVIOUS
<1>2. b \in Workers /\ pc[b] = "read"
  BY DEF Workers, CloseFiles
<1>3. /\ t \in Tapes /\ FilesOK /\ Storage(t) \in CapturedNames(t) /\ g \in CapturedNames(t)
      /\ g \in DOMAIN disk /\ (outOpen[b] => f \in DOMAIN disk)
      /\ (numSamplesOut[b] => outOpen[b])
      /\ Captures(t) /\ g = File(Captured(t), "mcf")
  BY <1>1, <1>2, TapeOfBatch DEF BatchOK, There
<1>4. /\ UNCHANGED <<config, numHanded, nameVars, slipVars>>
      /\ \/ /\ \E samples \in BOOLEAN :
                 numSamplesOut' = [numSamplesOut EXCEPT ![b] = @ \/ (samples /\ outOpen[b])]
            /\ outOpen' = [outOpen EXCEPT ![b] = FALSE]
            /\ disk' = IF numSamplesOut'[b]
                       THEN [disk EXCEPT ![Storage(t)].whole = disk[m_filename[t]].whole]
                       ELSE disk
            /\ Proceed(b, "done")
         \/ outOpen[b] /\ Proceed(b, "catch") /\ UNCHANGED <<outVars, disk>>
  BY <1>1 DEF CloseFiles
<1>5. \A c \in BatchThreads : c # b =>
         outOpen'[c] = outOpen[c] /\ numSamplesOut'[c] = numSamplesOut[c]
  BY <1>4 DEF outVars, Base, FilesType
<1>6. PICK next \in {"done", "catch"} : Proceed(b, next)
  BY <1>4
<1>7. Keeping(b)
  BY <1>2, <1>4, <1>6 DEF Keeping, Proceed, Steps
<1>8. pc'[b] = next /\ tape'[b] = t
  BY <1>1, <1>2, <1>6 DEF Proceed, Base, PlacesInv, PlacesType
<1>9. next = "done" /\ numSamplesOut'[b] => outOpen[b]
  <2>1. ASSUME NEW samples \in BOOLEAN,
               numSamplesOut' = [numSamplesOut EXCEPT ![b] = @ \/ (samples /\ outOpen[b])]
        PROVE  numSamplesOut'[b] => outOpen[b]
    <3>1. numSamplesOut'[b] = (numSamplesOut[b] \/ (samples /\ outOpen[b]))
      BY <2>1 DEF Base, FilesType
    <3>2. QED
      BY <1>3, <3>1
  <2>2. CASE outOpen[b]
    BY <2>2
  <2>3. CASE ~outOpen[b]
    BY <1>4, <2>1, <2>3
  <2>4. QED
    BY <2>2, <2>3
\* The transcoded file is complete if the capture file was.
<1>10. /\ Changes({f}, t)
       /\ next = "done" /\ numSamplesOut'[b] /\ t \notin unflushed => HeldBy(f, t)'
  <2>1. CASE disk' = [disk EXCEPT ![f].whole = disk[g].whole] /\ f \in DOMAIN disk
    <3>1. disk[f].of = t /\ disk[g].of = t
      BY <1>1, <1>3, <2>1, CapturedNamesAreOwn
    <3>2. disk[f] \in [of : {t}, whole : BOOLEAN] /\ disk[g] \in [of : {t}, whole : BOOLEAN]
      BY <1>3, <2>1, <3>1, OwnFileType
    <3>3. disk[g].whole \in BOOLEAN
      BY <3>2
    <3>4. PICK whole \in BOOLEAN : whole = disk[g].whole
      BY <3>3
    <3>5. disk' = [disk EXCEPT ![f].whole = whole]
      BY <2>1, <3>4
    <3>6. /\ Changes({f}, t) /\ DOMAIN disk' = DOMAIN disk
          /\ disk'[f] = [of |-> t, whole |-> whole]
      BY <2>1, <3>2, <3>5, CompletingChanges
    <3>7. t \notin unflushed => whole = TRUE
      BY <1>3, <3>4 DEF Captures, HeldBy
    <3>8. QED
      BY <2>1, <3>6, <3>7 DEF HeldBy, There
  <2>2. CASE disk' = disk /\ ~(next = "done" /\ numSamplesOut'[b])
    BY <1>1, <1>3, <2>2, UntouchedStorage
  <2>3. next = "catch" => disk' = disk
    <3>1. next = "catch" => ~Proceed(b, "done")
      BY <1>2, <1>8 DEF Proceed, Base, PlacesInv, PlacesType
    <3>2. QED
      BY <1>4, <3>1
  <2>4. next = "done" => disk' = IF numSamplesOut'[b]
                                 THEN [disk EXCEPT ![f].whole = disk[g].whole] ELSE disk
    <3>1. next = "done" => ~Proceed(b, "catch")
      BY <1>2, <1>8 DEF Proceed, Base, PlacesInv, PlacesType
    <3>2. QED
      BY <1>1, <1>4, <3>1
  <2>5. next = "done" /\ numSamplesOut'[b] => f \in DOMAIN disk
    BY <1>3, <1>9
  <2>6. QED
    BY <2>1, <2>2, <2>3, <2>4, <2>5
<1>11. pc'[b] = "done" /\ numSamplesOut'[b] /\ t \notin unflushed => HeldBy(Storage(t), t)'
  <2>1. Storage(t)' = Storage(t)
    BY <1>4 DEF Storage, nameVars
  <2>2. QED
    BY <1>1, <1>8, <1>10, <2>1 DEF HeldBy, There
<1>12. Changes({Storage(t)}, t)
  BY <1>1, <1>10
<1>13. QED
  BY <1>1, <1>2, <1>4, <1>5, <1>7, <1>8, <1>11, <1>12, StepOfTranscoding
LEMMA StepFinish ==
  ASSUME Base, InOrder, Rest, NEW b \in BatchThreads, Finish(b)
  PROVE  Rest'
<1>1. PICK t, f, g : t = tape[b] /\ f = Storage(t) /\ g = m_filename[t]
  OBVIOUS
<1>2. b \in Workers /\ pc[b] = "done" /\ HomeOf(b) = "BatchProcessing"
  BY HomesOK DEF Workers, Finish
<1>3. /\ t \in Tapes /\ t \in 1..numHanded /\ FilesOK /\ RecordingSurvives
      /\ config \in Configs /\ NamedOnce
      /\ Arrived("BatchProcessing", t) /\ InChain("BatchProcessing") /\ Unnamed(t)
      /\ m_fileIdentifier[t] = Captured(t) /\ f = File(Captured(t), "wav")
      /\ f \in CapturedNames(t) /\ g \in CapturedNames(t) /\ f.ext = "wav" /\ g.ext = "mcf"
      /\ numSamplesOut[b] /\ t \notin unflushed => HeldBy(f, t)
      /\ ~Before("BatchProcessing", "BatchProcessing")
  BY <1>1, <1>2, TapeOfBatch DEF BatchOK
<1>4. PICK S : S = afterTranscoding(b)
  OBVIOUS
<1>5. /\ disk' = Without(disk, S)
      /\ UNCHANGED <<config, numHanded, outVars, nameVars, slipVars>>
      /\ \/ numSamplesOut[b] /\ PassOn("BatchProcessing", b)
         \/ ~numSamplesOut[b] /\ GiveUp(b)
  BY <1>4 DEF Finish
<1>6. /\ S \subseteq {f, g}
      /\ numSamplesOut[b] /\ (config.native \/ ~config.failed) => f \notin S
      /\ ~numSamplesOut[b] /\ ~config.failed => S = {}
      /\ numSamplesOut[b] /\ ~config.native /\ ~config.failed => S = {}
  <2>1. S = IF config.native /\ numSamplesOut[b] THEN {g}
            ELSE IF config.failed THEN {g, f} ELSE {}
    BY <1>1, <1>4 DEF afterTranscoding
  <2>2. f # g
    BY <1>3
  <2>3. QED
    BY <2>1, <2>2
<1>7. /\ \A u \in Tapes : SameNames(u)
      /\ config' = config /\ numHanded' = numHanded /\ unflushed' = unflushed
      /\ m_fileIdentifier' = m_fileIdentifier /\ m_fileExtension' = m_fileExtension
      /\ misnamed' = misnamed
  BY <1>5 DEF SameNames, nameVars, slipVars
<1>8. \A c \in BatchThreads :
         outOpen'[c] = outOpen[c] /\ numSamplesOut'[c] = numSamplesOut[c]
  BY <1>5 DEF outVars
<1>9. \A h \in S : h \in DOMAIN disk => disk[h].of = t
  BY <1>3, <1>6, CapturedNamesAreOwn
<1>10. Changes(S, t)
  BY <1>5, <1>9, RemovingChanges
<1>11. S \in SUBSET CapturedNames(t) /\ SameNames(t)
  BY <1>3, <1>6, <1>7
<1>12. /\ Effect(t)
       /\ Unnamed(t)'
       /\ NoTmp(t) => NoTmp(t)'
       /\ HasOutput(t) => HasOutput(t)'
  <2>1. \A h \in S : h.ext # "tmp" /\ h.ext # "gsm.wav"
    BY <1>3, <1>6
  <2>2. QED
    BY <1>3, <1>7, <1>10, <1>11, <2>1, CapturedChange
<1>13. numSamplesOut[b] /\ (config.native \/ ~config.failed) /\ t \notin unflushed => HeldBy(f, t)'
  <2>1. f \notin S => (HeldBy(f, t)' <=> HeldBy(f, t))
    BY <1>10, KeptFiles
  <2>2. QED
    BY <1>3, <1>6, <2>1
<1>14. Survives(t)
  <2> SUFFICES ASSUME KeepsFiles, ~config.failed, t \notin unflushed'
               PROVE  \A h \in S : HeldBy(h, t) => \E k : HeldBy(k, t)'
    BY <1>3, <1>7, <1>10, SurvivesChange
  <2>1. CASE S = {}
    BY <2>1
  <2>2. CASE S # {}
    BY <1>6, <1>7, <1>13, <2>2
  <2>3. QED
    BY <2>1, <2>2
<1>15. CASE ~numSamplesOut[b] /\ GiveUp(b)
  <2>1. Dropping(b)
    BY <1>2, <1>5, <1>15 DEF Dropping
  <2>2. QED
    BY <1>1, <1>2, <1>3, <1>7, <1>8, <1>12, <1>14, <2>1, StepOfThread
<1>16. CASE numSamplesOut[b] /\ PassOn("BatchProcessing", b)
  <2>1. Passing(b)
    BY <1>2, <1>5, <1>16 DEF Passing
  <2>2. ReportsTranscoded => Transcoded(t)'
    <3> SUFFICES ASSUME ReportsTranscoded
                 PROVE  m_fileExtension'[t] = "wav" /\ HeldBy(File(m_fileIdentifier[t], "wav"), t)'
      BY DEF Transcoded
    <3>1. ~Commanded /\ ~InChain("DirectionSelector") /\ (config.native \/ ~config.failed)
      BY DEF ReportsTranscoded, KeepsFiles
    <3>2. ~Before("DirectionSelector", "BatchProcessing")
      BY <3>1 DEF Before, InChain
    <3>3. m_fileExtension[t] \in Extensions \ {"wav.tmp", "gsm.wav"}
      BY <1>3 DEF Base, FilesType
    <3>4. m_fileExtension[t] # "path of gsm.wav" /\ t \notin unflushed
      BY <1>3, <3>1 DEF FilesOK
    <3>5. m_fileExtension[t] \notin {"mcf", "tmp"}
      BY <1>3, <3>2 DEF Arrived
    <3>6. m_fileExtension[t] = "wav"
      BY <3>3, <3>4, <3>5 DEF Extensions
    <3>7. HeldBy(f, t)'
      BY <1>13, <1>16, <3>1, <3>4
    <3>8. m_fileIdentifier'[t] = Captured(t)
      BY <1>3, <1>7
    <3>9. QED
      BY <1>3, <1>7, <3>6, <3>7, <3>8 DEF HeldBy, There
  <2>3. /\ m_fileExtension[t] \in {"mcf", "tmp"} => Upto("DirectionSelector", "BatchProcessing")
        /\ ~Upto("DirectionSelector", "BatchProcessing") => NoTmp(t)'
        /\ ReportsCommanded /\ Upto("CommandProcessing", "BatchProcessing") => HasOutput(t)'
    BY <1>3, <1>12 DEF Arrived, Upto
  <2>4. Leaving("BatchProcessing", t)'
    BY <1>3, <1>7, <1>12, <2>2, <2>3, SettingsStay DEF Leaving
  <2>5. QED
    BY <1>1, <1>2, <1>3, <1>7, <1>8, <1>12, <1>14, <2>1, <2>4, StepOfThread
<1>17. QED
  BY <1>5, <1>15, <1>16

LEMMA StepCatch ==
  ASSUME Base, InOrder, Rest, NEW b \in BatchThreads, Catch(b)
  PROVE  Rest'
<1>1. PICK t, f, g : t = tape[b] /\ f = Storage(t) /\ g = m_filename[t]
  OBVIOUS
<1>2. b \in Workers /\ pc[b] = "catch"
  BY DEF Workers, Catch
<1>3. /\ t \in Tapes /\ t \in 1..numHanded /\ FilesOK /\ RecordingSurvives
      /\ f \in CapturedNames(t) /\ g \in CapturedNames(t)
  BY <1>1, <1>2, TapeOfBatch
<1>4. /\ disk' = IF config.failed THEN Without(disk, {g, f}) ELSE disk
      /\ GiveUp(b)
      /\ UNCHANGED <<config, numHanded, outVars, nameVars, slipVars>>
  BY <1>1 DEF Catch, nextTape
<1>5. /\ \A u \in Tapes : SameNames(u)
      /\ config' = config /\ numHanded' = numHanded /\ unflushed' = unflushed
      /\ m_fileIdentifier' = m_fileIdentifier /\ m_fileExtension' = m_fileExtension
  BY <1>4 DEF SameNames, nameVars, slipVars
<1>6. \A c \in BatchThreads :
         outOpen'[c] = outOpen[c] /\ numSamplesOut'[c] = numSamplesOut[c]
  BY <1>4 DEF outVars
<1>7. Effect(t) /\ Survives(t)
  <2>1. CASE ~config.failed
    BY <1>3, <1>4, <1>5, <2>1, NoChangeHasEffect DEF FilesOK
  <2>2. CASE config.failed
    <3>1. \A h \in {g, f} : h \in DOMAIN disk => disk[h].of = t
      BY <1>3, CapturedNamesAreOwn
    <3>2. disk' = Without(disk, {g, f})
      BY <1>4, <2>2
    <3>3. Changes({g, f}, t)
      BY <3>1, <3>2, RemovingChanges
    <3>4. {g, f} \in SUBSET CapturedNames(t) /\ SameNames(t)
      BY <1>3, <1>5
    <3>5. Effect(t)
      BY <1>3, <1>5, <3>3, <3>4, CapturedChange
    <3>6. QED
      BY <2>2, <3>5 DEF Survives
  <2>3. QED
    BY <2>1, <2>2
<1>8. Dropping(b)
  BY <1>2, <1>4 DEF Dropping
<1>9. QED
  BY <1>1, <1>2, <1>3, <1>5, <1>6, <1>7, <1>8, StepOfThread

LEMMA StepOfBatch ==
  ASSUME Base, InOrder, Rest, NEW b \in BatchThreads, Batch(b)
  PROVE  Rest'
BY StepPopTape, StepOpenNative, StepOpenOutput, StepTranscodeChunk, StepCloseFiles,
   StepFinish, StepCatch DEF Batch
-----------------------------------------------------------------------------
(* The theorems                                                            *)

\* No tape has been handed over, and there is no file.
LEMMA InitInvariant ==
  ASSUME Init
  PROVE  IInv
<1>1. \A p : Waiting(p) = {} \/ p \notin Processors
  BY DEF Init, Waiting
<1>2. \A t \in Tapes : /\ m_fileIdentifier[t] = Captured(t) /\ m_fileExtension[t] = "wav"
                       /\ m_filename[t] = File(Captured(t), "mcf")
                       /\ fate[t] = "in" /\ t \notin unflushed /\ t \notin misnamed
  BY DEF Init
<1>3. \A t \in Tapes : Captured(t) \in Ids(t) /\ File(Captured(t), "mcf") \in FileNames(t)
  <2>1. "mcf" \in Extensions
    BY DEF Extensions
  <2>2. QED
    BY <2>1, IdsDiffer, FileParts
<1>4. Base
  <2>1. config \in Configs /\ numHanded \in 0..config.tapes
    BY ProcessingSettings, ProcessingBounds DEF Init, Settings
  <2>2. PlacesType
    <3>1. << >> \in Seq(Tapes)
      OBVIOUS
    <3>2. /\ m_audioTapeQueue \in [Processors -> Seq(Tapes)]
          /\ pc \in [Workers -> Steps]
      BY <3>1 DEF Init, Steps
    <3>3. tape \in [Workers -> Tapes \cup {NULL}]
      BY DEF Init
    <3>4. fate \in [Tapes -> {"in", "end", "reported", "refused", "failed"}]
      BY DEF Init
    <3>5. reportedAs = [t \in Tapes |-> reportedAs[t]]
      BY DEF Init
    <3>6. QED
      BY <3>2, <3>3, <3>4, <3>5 DEF PlacesType
  <2>3. PopIsIdle
    BY DEF Init, PopIsIdle
  <2>4. OnePlace
    <3>1. \A p \in Processors : m_audioTapeQueue[p] = << >> /\ Waiting(p) = {}
      BY <1>1 DEF Init
    <3>2. \A w \in Workers : tape[w] = NULL
      BY DEF Init
    <3>3. QED
      BY <3>1, <3>2 DEF OnePlace
  <2>5. FilesType
    <3>1. "wav" \in Extensions \ {"wav.tmp", "gsm.wav"}
      BY DEF Extensions
    <3>2. m_fileIdentifier \in [Tapes -> UNION {Ids(t) : t \in Tapes}]
      BY <1>3 DEF Init
    <3>3. m_filename \in [Tapes -> UNION {FileNames(t) : t \in Tapes}]
      BY <1>3 DEF Init
    <3>4. QED
      BY <3>1, <3>2, <3>3 DEF Init, FilesType
  <2>6. StepsOK
    BY DEF Init, StepsOK, Workers
  <2>7. Fresh
    BY <1>2 DEF Fresh
  <2>8. QED
    BY <2>1, <2>2, <2>3, <2>4, <2>5, <2>6, <2>7 DEF Base, PlacesInv
<1>5. FilesOK
  <2>1. DOMAIN disk = {}
    BY DEF Init
  <2>2. QED
    BY <1>2, <1>3, <2>1 DEF FilesOK
<1>6. PlacesOK
  <2>1. \A w \in Workers : pc[w] = "pop"
    BY DEF Init
  <2>2. QED
    BY <1>1, <2>1 DEF PlacesOK, SelectorOK, BatchOK, NamingOK, CommandOK, Workers
<1>7. numHanded = 0 /\ \A t \in Tapes : fate[t] # "reported"
  BY <1>2 DEF Init
<1>8. RecordingSurvives /\ ReportedFileExists /\ CommandOutputVerified
  BY <1>7 DEF RecordingSurvives, ReportedFileExists, CommandOutputVerified
<1>9. QED
  BY <1>4, <1>5, <1>6, <1>8 DEF IInv

LEMMA NextInvariant ==
  ASSUME IInv, Next
  PROVE  IInv'
<1>1. Base'
  BY BaseStep DEF IInv
<1>2. config' = config
  BY DEF Next, RunProcessingChain, Selector, PopSelector, MoveAside, OpenRewrite, CopyAndClose,
         Batch, PopTape, OpenNative, OpenOutput, TranscodeChunk, CloseFiles, Finish, Catch,
         Naming, PopNaming, NameFile, PassNamed, Command, PopCommand, PassCommanded,
         RenameInput, RunCommand, CheckOutput
<1>3. CASE InOrder
  <2>1. Base /\ Rest
    BY <1>3 DEF IInv, Rest
  <2>2. Rest'
    BY <1>3, <2>1, StepOfHanding, StepOfSelector, StepOfNaming, StepOfCommand, StepOfBatch
       DEF Next
  <2>3. QED
    BY <1>1, <2>2 DEF IInv, Rest
<1>4. CASE ~InOrder
  <2>1. ~InOrder'
    BY <1>2, <1>4, SettingsStay
  <2>2. RecordingSurvives' /\ ReportedFileExists' /\ CommandOutputVerified'
    BY <1>2, <1>4, PropertiesNeedOrder
  <2>3. QED
    BY <1>1, <2>1, <2>2 DEF IInv
<1>5. QED
  BY <1>3, <1>4

\* A step in which nothing happens.
LEMMA StutterInvariant ==
  ASSUME IInv, UNCHANGED vars
  PROVE  IInv'
<1>1. /\ UNCHANGED <<config, numHanded, m_audioTapeQueue, pc, tape, outOpen, numSamplesOut>>
      /\ UNCHANGED <<m_fileIdentifier, m_fileExtension, m_filename, disk>>
      /\ UNCHANGED <<fate, reportedAs, unflushed, misnamed>>
  BY DEF vars, outVars, nameVars, endVars, slipVars
<1>2. Base'
  <2>1. PlacesType' /\ PopIsIdle'
    BY <1>1 DEF IInv, Base, PlacesInv, PlacesType, PopIsIdle
  <2>2. OnePlace'
    <3>1. \A p : Waiting(p)' = Waiting(p)
      BY <1>1 DEF Waiting
    <3>2. QED
      BY <1>1, <3>1 DEF IInv, Base, PlacesInv, OnePlace
  <2>3. FilesType' /\ StepsOK' /\ Fresh'
    BY <1>1 DEF IInv, Base, FilesType, StepsOK, Fresh
  <2>4. QED
    BY <1>1, <2>1, <2>2, <2>3 DEF IInv, Base, PlacesInv
<1>3. CASE ~InOrder
  BY <1>1, <1>2, <1>3, SettingsStay, PropertiesNeedOrder DEF IInv
<1>4. CASE InOrder
  <2>1. \A u \in Tapes : SameNames(u) /\ SameFiles(u)
    BY <1>1 DEF SameNames, SameFiles
  <2>2. FilesOK'
    BY <1>1, <1>4, SettingsStay DEF IInv, FilesOK
  <2>3. \A p \in Processors : Waiting(p)' = Waiting(p) /\ Waiting(p) \subseteq Tapes
    BY <1>1 DEF IInv, Base, PlacesInv, PlacesType, Waiting
  <2>4. PlacesOK'
    <3>1. \A p \in Processors : \A t \in Waiting(p)' : Arrived(p, t)'
      BY <1>1, <1>4, <2>1, <2>3, SaidOfOthers DEF IInv, PlacesOK
    <3>2. ASSUME NEW v \in Workers
          PROVE  WorkerOK(v)'
      <4>1. WorkerOK(v) /\ FilesOK /\ PlacesInv /\ StepsOK
        BY <1>4, PlacesByWorker DEF IInv, Base
      <4>2. QED
        BY <1>1, <1>4, <2>1, <2>2, <4>1, OtherWorkers
    <3>3. QED
      BY <3>1, <3>2, PlacesByWorker
  <2>5. RecordingSurvives' /\ ReportedFileExists' /\ CommandOutputVerified'
    <3>1. \A f, u : HeldBy(f, u)' <=> HeldBy(f, u)
      BY <1>1 DEF HeldBy, There
    <3>2. RecordingSurvives'
      BY <1>1, <3>1, SettingsStay DEF IInv, RecordingSurvives
    <3>3. \A u : HeldBy(reportedAs[u], u)' <=> HeldBy(reportedAs[u], u)
      BY <1>1 DEF HeldBy, There
    <3>4. ReportedFileExists'
      BY <1>1, <3>3, SettingsStay DEF IInv, ReportedFileExists
    <3>5. CommandOutputVerified'
      BY <1>1, SettingsStay DEF IInv, CommandOutputVerified
    <3>6. QED
      BY <3>2, <3>4, <3>5
  <2>6. QED
    BY <1>2, <2>2, <2>4, <2>5 DEF IInv
<1>5. QED
  BY <1>3, <1>4

\* The inductive invariant: each tape is in one place, its files bear its name,
\* and in each place it has what the processors before that place have made of it.
THEOREM ProcessingInvariant == Spec => []IInv
<1>1. IInv /\ [Next]_vars => IInv'
  BY NextInvariant, StutterInvariant
<1>2. QED
  BY <1>1, InitInvariant, PTL DEF Spec

\* DirectionSelector, BatchProcessing and TapeFileNaming move, rewrite, delete and
\* rename the files of a tape, and any of it may fail: the recording of every tape
\* is on the disk all the time.
THEOREM RecordingsSurvive == Spec => []RecordingSurvives
<1>1. IInv => RecordingSurvives
  BY DEF IInv
<1>2. QED
  BY <1>1, ProcessingInvariant, PTL

\* The file whose name Reporting tells the trackers is there, complete and of the
\* tape reported, and no tape that comes later takes its name away.
THEOREM ReportedFilesExist == Spec => []ReportedFileExists
<1>1. IInv => ReportedFileExists
  BY DEF IInv
<1>2. QED
  BY <1>1, ProcessingInvariant, PTL

\* CommandProcessing passes on no tape whose output it has not seen: a tape that
\* is reported after it has an output of its own.
THEOREM CommandOutputsAreVerified == Spec => []CommandOutputVerified
<1>1. IInv => CommandOutputVerified
  BY DEF IInv
<1>2. QED
  BY <1>1, ProcessingInvariant, PTL
=============================================================================
