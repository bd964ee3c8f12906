--------------------------- MODULE TapeProcessing ---------------------------
(***************************************************************************)
(* The processing chain of finished tapes, as TapeProcessors of the        *)
(* configuration lines it up: DirectionSelector, which rewrites a capture  *)
(* file without the sides that are not to be kept; BatchProcessing, whose  *)
(* threads transcode it into its storage format; TapeFileNaming, which     *)
(* gives the result its configured name; CommandProcessing, which runs a   *)
(* command of the operator on it; and Reporting, which tells the trackers. *)
(*                                                                         *)
(* What a step can do wrong is a failed open, write or rename; what the    *)
(* chain must not do wrong is to lose the recording, to mix up two tapes   *)
(* or to report a file that is not there.  disk is the files there are,    *)
(* each with the tape it is of and whether it holds all of the recording.  *)
(***************************************************************************)
EXTENDS Naturals, Sequences, FiniteSets, FiniteSetsExt, TLC

CONSTANTS
  MaxTapes,                  \* bound on the tapes handed to the chain
  BatchThreads,              \* NumBatchThreads threads
  QueueSize,                 \* of every processor
  Configs                    \* settings explored

Processors ==
  {"DirectionSelector", "BatchProcessing", "TapeFileNaming", "CommandProcessing", "Reporting"}
Workers == BatchThreads \cup {"DirectionSelector", "TapeFileNaming", "CommandProcessing"}

\* TapeProcessors, the tapes of a run, DeleteNativeFile, DeleteFailedCaptureFile,
\* the command, empty or without or with [IN] and [OUT], and whether
\* TapeFileNaming or TapePathNaming is set.
Settings == [processors : Seq(Processors \cup {"Unknown"}), tapes : 1..MaxTapes,
             native : BOOLEAN, failed : BOOLEAN,
             command : {"empty", "plain", "inout"}, naming : BOOLEAN]

ASSUME ProcessingBounds == MaxTapes \in Nat /\ QueueSize \in Nat
ASSUME ProcessingSettings == \A c \in Configs : c \in Settings
ASSUME ThreadsDiffer ==
  BatchThreads \cap {"DirectionSelector", "TapeFileNaming", "CommandProcessing"} = {}

NULL == 0
Tapes == 1..MaxTapes

\* An identifier: that of the capture, made of the time and the port, the one the
\* settings give to every tape alike, and one with the tape's orkuid appended.
Captured(t) == <<"captured", t>>
Configured == <<"configured", 0>>
WithUid(id, t) == IF id = Configured THEN <<"configured", t>> ELSE <<"captured, uid", t>>
File(id, ext) == [id |-> id, ext |-> ext]

VARIABLES
  config,
  numHanded,
  m_audioTapeQueue,          \* per processor
  pc, tape,                  \* per thread
  outOpen, numSamplesOut,    \* per thread of BatchProcessing
  m_fileIdentifier, m_fileExtension,   \* of each tape
  m_filename,                \* of the tape's m_audioFileRef
  disk,
  \* history
  fate,                      \* how each tape left the chain
  reportedAs,                \* the file Reporting told the trackers of
  unflushed,                 \* tapes rewritten with a last flush that failed unseen
  misnamed                   \* tapes whose rename failed

nameVars == <<m_fileIdentifier, m_fileExtension, m_filename>>
outVars == <<outOpen, numSamplesOut>>
endVars == <<fate, reportedAs>>
slipVars == <<unflushed, misnamed>>
vars == <<config, numHanded, m_audioTapeQueue, pc, tape, outVars, nameVars, disk, endVars,
          slipVars>>

Init ==
  /\ config \in Configs
  /\ numHanded = 0
  /\ m_audioTapeQueue = [p \in Processors |-> << >>]
  /\ pc = [w \in Workers |-> "pop"]
  /\ tape = [w \in Workers |-> NULL]
  /\ outOpen = [b \in BatchThreads |-> FALSE]
  /\ numSamplesOut = [b \in BatchThreads |-> FALSE]
  /\ m_fileIdentifier = [t \in Tapes |-> Captured(t)]
  /\ m_fileExtension = [t \in Tapes |-> "wav"]
  /\ m_filename = [t \in Tapes |-> File(Captured(t), "mcf")]
  /\ disk = << >>
  /\ fate = [t \in Tapes |-> "in"]
  /\ reportedAs = [t \in Tapes |-> NULL]
  /\ unflushed = {} /\ misnamed = {}
-----------------------------------------------------------------------------
(* The files *)

There(f) == f \in DOMAIN disk

\* A disk after a file is created or truncated, remove() and rename().
Written(d, f, r) == [g \in DOMAIN d \cup {f} |-> IF g = f THEN r ELSE d[g]]
Without(d, fs) == [f \in DOMAIN d \ fs |-> d[f]]
Renamed(d, f, g) == Written(Without(d, {f}), g, d[f])
-----------------------------------------------------------------------------
(* The chain *)

\* CreateProcessingChain: names that no processor has are skipped, so that the
\* chain is the other places of the list.
Chain == {i \in DOMAIN config.processors : config.processors[i] \in Processors}
Later(i) == {j \in Chain : j > i}

FirstProcessor == IF Chain = {} THEN "none" ELSE config.processors[Min(Chain)]

\* SetNextProcessor: a processor is a singleton, so the last call counts.
Places(p) == {i \in Chain : config.processors[i] = p /\ Later(i) # {}}
NextProcessor(p) ==
  IF Places(p) = {} THEN "none" ELSE config.processors[Min(Later(Max(Places(p))))]

\* AddAudioTape of a processor, which logs "queue full" and forgets the tape when
\* it is; Reporting makes its message of the tape's file name at once.
AddAudioTape(p, t) ==
  \/ /\ p = "none"
     /\ fate' = [fate EXCEPT ![t] = "end"]
     /\ UNCHANGED <<m_audioTapeQueue, reportedAs>>
  \/ /\ p = "Reporting"
     /\ fate' = [fate EXCEPT ![t] = "reported"]
     /\ reportedAs' = [reportedAs EXCEPT ![t] = File(m_fileIdentifier[t], m_fileExtension'[t])]
     /\ UNCHANGED m_audioTapeQueue
  \/ /\ p \notin {"none", "Reporting"} /\ Len(m_audioTapeQueue[p]) < QueueSize
     /\ m_audioTapeQueue' = [m_audioTapeQueue EXCEPT ![p] = Append(@, t)]
     /\ UNCHANGED endVars
  \/ /\ p \notin {"none", "Reporting"} /\ Len(m_audioTapeQueue[p]) >= QueueSize
     /\ fate' = [fate EXCEPT ![t] = "refused"]
     /\ UNCHANGED <<m_audioTapeQueue, reportedAs>>

RunNextProcessor(p, t) == AddAudioTape(NextProcessor(p), t)

\* RunProcessingChain for a tape that ImmediateProcessing has finished.
RunProcessingChain ==
  LET t == numHanded + 1 IN
    /\ numHanded < config.tapes
    /\ numHanded' = t
    /\ disk' = Written(disk, m_filename[t], [of |-> t, whole |-> TRUE])
    /\ UNCHANGED nameVars
    /\ AddAudioTape(FirstProcessor, t)
    /\ UNCHANGED <<config, pc, tape, outVars, slipVars>>

\* A thread of processor p takes a tape.
Pop(p, w, next) ==
  /\ pc[w] = "pop"
  /\ m_audioTapeQueue[p] # << >>
  /\ m_audioTapeQueue' = [m_audioTapeQueue EXCEPT ![p] = Tail(@)]
  /\ tape' = [tape EXCEPT ![w] = Head(m_audioTapeQueue[p])]
  /\ pc' = [pc EXCEPT ![w] = next]

\* The thread's loop begins anew.
Again(w) == pc' = [pc EXCEPT ![w] = "pop"] /\ tape' = [tape EXCEPT ![w] = NULL]
PassOn(p, w) == RunNextProcessor(p, tape[w]) /\ Again(w)
GiveUp(w) ==
  /\ fate' = [fate EXCEPT ![tape[w]] = "failed"]
  /\ Again(w)
  /\ UNCHANGED <<m_audioTapeQueue, reportedAs>>
Proceed(w, next) ==
  pc' = [pc EXCEPT ![w] = next] /\ UNCHANGED <<tape, m_audioTapeQueue, endVars>>

-----------------------------------------------------------------------------
(* DirectionSelector::ThreadHandler                                        *)

\* The names of a tape whose extension is set to .mcf and to .tmp.
Mcf(t) == File(m_fileIdentifier[t], "mcf")
Tmp(t) == File(m_fileIdentifier[t], "tmp")

PopSelector ==
  /\ Pop("DirectionSelector", "DirectionSelector", "rename")
  /\ UNCHANGED <<config, numHanded, outVars, nameVars, disk, endVars, slipVars>>

\* The capture file is moved aside and opened under its temporary name; a
\* failed rename is only logged, and then there is nothing to open.
MoveAside ==
  LET w == "DirectionSelector"  t == tape[w] IN
    /\ pc[w] = "rename"
    /\ m_fileExtension' = [m_fileExtension EXCEPT ![t] = "tmp"]
    /\ m_filename' = [m_filename EXCEPT ![t] = Tmp(t)]
    /\ \/ There(Mcf(t)) /\ disk' = Renamed(disk, Mcf(t), Tmp(t))
       \/ UNCHANGED disk
    /\ \/ Tmp(t) \in DOMAIN disk' /\ Proceed(w, "rewrite")
       \/ GiveUp(w)
    /\ UNCHANGED <<config, numHanded, outVars, m_fileIdentifier, slipVars>>

\* The output takes the name of the capture file; opening and writing may throw.
OpenRewrite ==
  LET w == "DirectionSelector"  t == tape[w] IN
    /\ pc[w] = "rewrite"
    /\ \/ disk' = Written(disk, Mcf(t), [of |-> t, whole |-> FALSE]) /\ Proceed(w, "copy")
       \/ UNCHANGED disk /\ GiveUp(w)
    /\ UNCHANGED <<config, numHanded, outVars, nameVars, slipVars>>

\* All chunks are copied, or a write throws and the tape is left half rewritten.
\* Close ignores a last flush that fails, and the moved file is removed.
CopyAndClose ==
  LET w == "DirectionSelector"  t == tape[w] IN
    /\ pc[w] = "copy"
    /\ \/ /\ \E whole \in {disk[Tmp(t)].whole, FALSE} :
               /\ disk' = Without([disk EXCEPT ![Mcf(t)].whole = whole], {Tmp(t)})
               /\ unflushed' = IF whole THEN unflushed ELSE unflushed \cup {t}
          /\ m_fileExtension' = [m_fileExtension EXCEPT ![t] = "mcf"]
          /\ m_filename' = [m_filename EXCEPT ![t] = Mcf(t)]
          /\ PassOn("DirectionSelector", w)
       \/ GiveUp(w) /\ UNCHANGED <<disk, unflushed, m_fileExtension, m_filename>>
    /\ UNCHANGED <<config, numHanded, outVars, m_fileIdentifier, misnamed>>

Selector == PopSelector \/ MoveAside \/ OpenRewrite \/ CopyAndClose
-----------------------------------------------------------------------------
(* BatchProcessing::ThreadHandler                                          *)

Storage(t) == File(m_fileIdentifier[t], "wav")

PopTape(b) ==
  /\ Pop("BatchProcessing", b, "open")
  /\ outOpen' = [outOpen EXCEPT ![b] = FALSE]
  /\ numSamplesOut' = [numSamplesOut EXCEPT ![b] = FALSE]
  /\ UNCHANGED <<config, numHanded, nameVars, disk, endVars, slipVars>>

\* The capture file is opened and the filters are created; both may throw.
OpenNative(b) ==
  /\ pc[b] = "open"
  /\ \/ There(m_filename[tape[b]]) /\ Proceed(b, "read")
     \/ Proceed(b, "catch")
  /\ UNCHANGED <<config, numHanded, outVars, nameVars, disk, slipVars>>

\* The first chunk with a known codec opens the storage file.
OpenOutput(b) ==
  /\ pc[b] = "read" /\ ~outOpen[b]
  /\ \/ /\ outOpen' = [outOpen EXCEPT ![b] = TRUE]
        /\ disk' = Written(disk, Storage(tape[b]), [of |-> tape[b], whole |-> FALSE])
        /\ UNCHANGED <<pc, tape, m_audioTapeQueue, endVars>>
     \/ Proceed(b, "catch") /\ UNCHANGED <<outOpen, disk>>
  /\ UNCHANGED <<config, numHanded, numSamplesOut, nameVars, slipVars>>

\* A chunk is decoded, mixed and written, which may yield samples or throw.
\* Chunks that are skipped or have an unknown codec change nothing.
TranscodeChunk(b) ==
  /\ pc[b] = "read" /\ outOpen[b]
  /\ \/ /\ numSamplesOut' = [numSamplesOut EXCEPT ![b] = TRUE]
        /\ UNCHANGED <<pc, tape, m_audioTapeQueue, endVars>>
     \/ Proceed(b, "catch") /\ UNCHANGED numSamplesOut
  /\ UNCHANGED <<config, numHanded, outOpen, nameVars, disk, slipVars>>

\* The end of the capture file: the mixer is flushed into the storage file,
\* which may yield the only samples or throw, and the files are closed.
CloseFiles(b) ==
  LET t == tape[b] IN
    /\ pc[b] = "read"
    /\ \/ /\ \E samples \in BOOLEAN :
               numSamplesOut' = [numSamplesOut EXCEPT ![b] = @ \/ (samples /\ outOpen[b])]
          /\ outOpen' = [outOpen EXCEPT ![b] = FALSE]
          /\ disk' = IF numSamplesOut'[b]
                     THEN [disk EXCEPT ![Storage(t)].whole = disk[m_filename[t]].whole]
                     ELSE disk
          /\ Proceed(b, "done")
       \/ /\ outOpen[b]
          /\ Proceed(b, "catch")
          /\ UNCHANGED <<outVars, disk>>
    /\ UNCHANGED <<config, numHanded, nameVars, slipVars>>

\* Slip: the capture file is deleted whether or not anything came out of it.
afterNativeDeletedAnyway(b) == IF config.native THEN {m_filename[tape[b]]} ELSE {}

\* The files deleted after the transcoding: the capture file, or both files if
\* there are no samples or the capture file is to be kept.
afterTranscoding(b) ==
  IF config.native /\ numSamplesOut[b] THEN {m_filename[tape[b]]}
  ELSE IF config.failed THEN {m_filename[tape[b]], Storage(tape[b])} ELSE {}

\* The end of a tape whose transcoding threw nothing; it is passed on if there
\* are samples.
Finish(b) ==
  /\ pc[b] = "done"
  /\ disk' = Without(disk, afterTranscoding(b))
  /\ UNCHANGED nameVars
  /\ \/ numSamplesOut[b] /\ PassOn("BatchProcessing", b)
     \/ ~numSamplesOut[b] /\ GiveUp(b)
  /\ UNCHANGED <<config, numHanded, outVars, slipVars>>

\* Slip: the thread is left where the exception was thrown.
endsThread(b) ==
  /\ pc' = [pc EXCEPT ![b] = "ended"]
  /\ UNCHANGED <<tape, m_audioTapeQueue, endVars>>

nextTape(b) == GiveUp(b)

Catch(b) ==
  /\ pc[b] = "catch"
  /\ disk' = IF config.failed THEN Without(disk, {m_filename[tape[b]], Storage(tape[b])})
                              ELSE disk
  /\ nextTape(b)
  /\ UNCHANGED <<config, numHanded, outVars, nameVars, slipVars>>

Batch(b) ==
  \/ PopTape(b) \/ OpenNative(b) \/ OpenOutput(b) \/ TranscodeChunk(b) \/ CloseFiles(b)
  \/ Finish(b) \/ Catch(b)
-----------------------------------------------------------------------------
(* TapeFileNaming::ThreadHandler                                           *)

PopNaming ==
  /\ Pop("TapeFileNaming", "TapeFileNaming", "name")
  /\ UNCHANGED <<config, numHanded, outVars, nameVars, disk, endVars, slipVars>>

\* Slip: the configured name is taken as it is.
CollisionIgnored(id, t) == id

\* PreventFileIdentifierCollision
PreventFileIdentifierCollision(id, t) ==
  IF There(File(id, m_fileExtension[t])) THEN WithUid(id, t) ELSE id

\* GenerateFinalFilePathAndIdentifier: the settings may give an empty identifier,
\* which leaves the old one, and that one collides with the tape's own file.
FinalIdentifiers(t) ==
  IF config.naming
  THEN {PreventFileIdentifierCollision(id, t) : id \in {Configured, m_fileIdentifier[t]}}
  ELSE {m_fileIdentifier[t]}

\* The file follows the new name of its tape, or else the failure is logged.
NameFile ==
  LET w == "TapeFileNaming"  t == tape[w]  old == File(m_fileIdentifier[t], m_fileExtension[t]) IN
    /\ pc[w] = "name"
    /\ \E id \in FinalIdentifiers(t) :
         LET new == File(id, m_fileExtension[t]) IN
           /\ m_fileIdentifier' = [m_fileIdentifier EXCEPT ![t] = id]
           /\ \/ new = old /\ UNCHANGED <<disk, misnamed>>
              \/ new # old /\ There(old) /\ disk' = Renamed(disk, old, new) /\ UNCHANGED misnamed
              \/ new # old /\ misnamed' = misnamed \cup {t} /\ UNCHANGED disk
    /\ UNCHANGED <<m_fileExtension, m_filename>>
    /\ pc' = [pc EXCEPT ![w] = "pass"]
    /\ UNCHANGED <<config, numHanded, m_audioTapeQueue, tape, outVars, endVars, unflushed>>

PassNamed ==
  /\ pc["TapeFileNaming"] = "pass"
  /\ UNCHANGED nameVars
  /\ PassOn("TapeFileNaming", "TapeFileNaming")
  /\ UNCHANGED <<config, numHanded, outVars, disk, slipVars>>

Naming == PopNaming \/ NameFile \/ PassNamed
-----------------------------------------------------------------------------
(* CommandProcessing::ThreadHandler                                        *)

CommandTmp(t) == File(m_fileIdentifier[t], "wav.tmp")
GsmWav(t) == File(m_fileIdentifier[t], "gsm.wav")

PopCommand ==
  /\ Pop("CommandProcessing", "CommandProcessing",
         IF config.command = "empty" THEN "pass" ELSE "rename")
  /\ UNCHANGED <<config, numHanded, outVars, nameVars, disk, endVars, slipVars>>

PassCommanded ==
  /\ pc["CommandProcessing"] = "pass"
  /\ UNCHANGED nameVars
  /\ PassOn("CommandProcessing", "CommandProcessing")
  /\ UNCHANGED <<config, numHanded, outVars, disk, slipVars>>

\* The storage file is renamed out of the way of the command's output.
RenameInput ==
  LET w == "CommandProcessing"  t == tape[w] IN
    /\ pc[w] = "rename"
    /\ \/ /\ There(Storage(t))
          /\ disk' = Renamed(disk, Storage(t), CommandTmp(t))
          /\ Proceed(w, "run")
       \/ GiveUp(w) /\ UNCHANGED disk
    /\ UNCHANGED <<config, numHanded, outVars, nameVars, slipVars>>

\* system(command) may or may not write its output, or part of it.  A command
\* without [IN] is told nothing of the file.
RunCommand ==
  LET w == "CommandProcessing"  t == tape[w] IN
    /\ pc[w] = "run"
    /\ \/ config.command = "plain" /\ UNCHANGED disk /\ Proceed(w, "pass")
       \/ /\ config.command = "inout"
          /\ \/ \E whole \in {disk[CommandTmp(t)].whole, FALSE} :
                  disk' = Written(disk, Storage(t), [of |-> t, whole |-> whole])
             \/ UNCHANGED disk
          /\ Proceed(w, "check")
    /\ UNCHANGED <<config, numHanded, outVars, nameVars, slipVars>>

\* Slip: the output is passed on without a look at it.
unverified(t) == TRUE

outputIsThere(t) == There(Storage(t))

\* The input is removed, the output renamed and its size verified; what is set
\* as the extension is the whole path of the output.
CheckOutput ==
  LET w == "CommandProcessing"  t == tape[w]  d == Without(disk, {CommandTmp(t)}) IN
    /\ pc[w] = "check"
    /\ disk' = IF There(Storage(t)) THEN Renamed(d, Storage(t), GsmWav(t)) ELSE d
    /\ \/ /\ outputIsThere(t)
          /\ m_fileExtension' = [m_fileExtension EXCEPT ![t] = "path of gsm.wav"]
          /\ Proceed(w, "pass")
       \/ GiveUp(w) /\ UNCHANGED m_fileExtension    \* rename failed, or less than 1 kb
    /\ UNCHANGED <<config, numHanded, outVars, m_fileIdentifier, m_filename, slipVars>>

Command == PopCommand \/ PassCommanded \/ RenameInput \/ RunCommand \/ CheckOutput

Next == RunProcessingChain \/ Selector \/ (\E b \in BatchThreads : Batch(b)) \/ Naming \/ Command

Spec == Init /\ [][Next]_vars

\* Threads are scheduled, and capture files are finite.
Fairness ==
  /\ \A b \in BatchThreads : WF_vars(Batch(b)) /\ SF_vars(CloseFiles(b))
  /\ WF_vars(Selector) /\ WF_vars(Naming) /\ WF_vars(Command)

FairSpec == Spec /\ Fairness
-----------------------------------------------------------------------------
(* Properties *)

InChain(p) == \E i \in Chain : config.processors[i] = p
\* p is passed before q.
Before(p, q) ==
  \E i, j \in Chain : i < j /\ config.processors[i] = p /\ config.processors[j] = q

\* No processor is named twice, which would link the chain into a loop.
NamedOnce ==
  \A i, j \in Chain : config.processors[i] = config.processors[j] => i = j

\* A command of the operator gets the tape, whose files are then its own matter.
Commanded == InChain("CommandProcessing") /\ config.command # "empty"

HeldBy(f, t) == There(f) /\ disk[f] = [of |-> t, whole |-> TRUE]

\* Names are given when the files have them, and no tape comes back to a processor.
KeepsFiles ==
  NamedOnce /\ ~Commanded /\ ~Before("TapeFileNaming", "BatchProcessing")

\* DirectionSelector moves the capture file and removes it, BatchProcessing
\* deletes it, TapeFileNaming renames its successor over whatever has the name:
\* through all of it some file has the whole recording.  Not so with
\* DeleteFailedCaptureFile, which asks for the contrary, or after a last flush
\* that failed unseen.
RecordingSurvives ==
  KeepsFiles /\ ~config.failed
    => \A t \in (1..numHanded) \ unflushed : \E f \in DOMAIN disk : HeldBy(f, t)

\* The chain transcodes before it reports and does not delete what it transcoded
\* (TranscodedKept); DirectionSelector leaves the wrong extension on the tape.
ReportsTranscoded ==
  /\ KeepsFiles /\ Before("BatchProcessing", "Reporting")
  /\ ~InChain("DirectionSelector")
  /\ config.native \/ ~config.failed

\* Reporting tells the trackers a name: the file of that name is there, is
\* complete, and is of that tape, whatever the tapes before it were named; unless
\* a rename failed.
ReportedFileExists ==
  ReportsTranscoded
    => \A t \in Tapes \ misnamed : fate[t] = "reported" => HeldBy(reportedAs[t], t)

\* A command that writes an output is run before the tapes are named and reported.
ReportsCommanded ==
  /\ NamedOnce /\ Before("CommandProcessing", "Reporting") /\ config.command = "inout"
  /\ ~Before("TapeFileNaming", "CommandProcessing")
  /\ ~Before("TapeFileNaming", "BatchProcessing")

\* CommandProcessing passes a tape on only after it has seen the output of the
\* command under its final name: no tape is reported after it without an output
\* of its own.
CommandOutputVerified ==
  ReportsCommanded
    => \A t \in Tapes : fate[t] = "reported"
         => \E f \in DOMAIN disk : f.ext = "gsm.wav" /\ disk[f].of = t

\* No failure of a file ends a thread or holds up the tapes behind it: every
\* tape handed to the chain is reported, given up, refused, or at the chain's end.
EveryTapeLeaves == \A t \in Tapes : numHanded >= t ~> fate[t] # "in"
-----------------------------------------------------------------------------
(* What a message in the code says and the code does not keep.             *)

\* BatchProcessing.cpp:660, "deleting native that could not be transcoded": the
\* storage file of a tape that was transcoded is not deleted.  With
\* DeleteNativeFile off and DeleteFailedCaptureFile on, it is.
TranscodedKept ==
  \A t \in Tapes : fate[t] = "reported" => \E f \in DOMAIN disk : disk[f].of = t
=============================================================================
