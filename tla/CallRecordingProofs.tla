------------------------ MODULE CallRecordingProofs ------------------------
(***************************************************************************)
(* Proofs about CallRecording for every set of scenarios and every value   *)
(* of the counters: a call is started once, and no stream that is alive    *)
(* loses its side of the recording.                                        *)
(***************************************************************************)
EXTENDS CallRecording, TLAPS, FiniteSetTheorems

-----------------------------------------------------------------------------
(* What handlers of a session leave alone, and what they tell              *)

\* The members of a session that the starts and the sides rest on.
Core == {"protocol", "started", "numRtp", "numIgnored", "startWhenS2", "nonLookBackStarted",
         "metadataProcessed", "last", "last1", "last2", "alien1", "alien2"}

IsSession(s) ==
  /\ Core \cup {"out", "tags"} \subseteq DOMAIN s
  /\ IsFiniteSet(DOMAIN s.tags)

\* r is a session, and as s in what they rest on.
Same(r, s) == IsSession(r) /\ \A f \in Core : r[f] = s[f]

IsSeq(q) == \E S : q \in Seq(S)

\* Call-backs q, and after them others that are events, k of them EtStart.
Extends(r, q) ==
  /\ IsSeq(r) /\ Len(q) <= Len(r)
  /\ \A i \in 1..Len(q) : r[i] = q[i]

NotStarting(r, q) == \A i \in 1..Len(r) : i > Len(q) => ~IsStart(r[i])

Adds(r, q, k) ==
  /\ Extends(r, q)
  /\ \A i \in 1..Len(r) : i > Len(q) => "event" \in DOMAIN r[i]
  /\ Starting(r) = Starting(q) + k

\* The session tells something, but not that it starts.
Quiet(r, s) == Same(r, s) /\ Adds(r.out, s.out, 0)

\* The length and the places of a sequence, whatever it is of.
LEMMA SeqLen == ASSUME NEW q, IsSeq(q) PROVE Len(q) \in Nat /\ DOMAIN q = 1..Len(q)
  BY DEF IsSeq

\* The number of starts is a number.
LEMMA StartingNat ==
  ASSUME NEW q, IsSeq(q)
  PROVE  Starting(q) \in Nat
<1>1. IsFiniteSet(1..Len(q)) /\ DOMAIN q = 1..Len(q)
  BY SeqLen, FS_Interval
<1>2. {i \in DOMAIN q : IsStart(q[i])} \subseteq 1..Len(q)
  BY <1>1
<1>3. IsFiniteSet({i \in DOMAIN q : IsStart(q[i])})
  BY <1>1, <1>2, FS_Subset
<1>4. QED
  BY <1>3, FS_CardinalityType DEF Starting

\* Sequences that agree on where they start.
LEMMA StartingSame ==
  ASSUME NEW q, NEW r, IsSeq(q), Extends(r, q), NotStarting(r, q)
  PROVE  Starting(r) = Starting(q)
<1>1. DOMAIN q = 1..Len(q) /\ DOMAIN r = 1..Len(r) /\ Len(q) \in Nat /\ Len(r) \in Nat
  BY SeqLen DEF Extends
<1>2. {i \in DOMAIN r : IsStart(r[i])} = {i \in DOMAIN q : IsStart(q[i])}
  BY <1>1 DEF Extends, NotStarting
<1>3. QED
  BY <1>2 DEF Starting

\* One more call-back.
LEMMA AppendSeq ==
  ASSUME NEW q, IsSeq(q), NEW x
  PROVE  /\ IsSeq(Append(q, x)) /\ Len(Append(q, x)) = Len(q) + 1
         /\ \A i \in 1..Len(q) : Append(q, x)[i] = q[i]
         /\ Append(q, x)[Len(q) + 1] = x
<1>1. PICK S : q \in Seq(S)
  BY DEF IsSeq
<1>2. q \in Seq(S \cup {x})
  BY <1>1
<1>3. Append(q, x) \in Seq(S \cup {x})
  BY <1>2
<1>4. QED
  BY <1>2, <1>3 DEF IsSeq

\* More call-backs.
LEMMA ConcatSeq ==
  ASSUME NEW q, NEW t, IsSeq(q), IsSeq(t)
  PROVE  /\ IsSeq(q \o t) /\ Len(q \o t) = Len(q) + Len(t)
         /\ \A i \in 1..Len(q) : (q \o t)[i] = q[i]
         /\ \A i \in 1..Len(q \o t) : i > Len(q) =>
              i - Len(q) \in 1..Len(t) /\ (q \o t)[i] = t[i - Len(q)]
<1>1. PICK S : q \in Seq(S)
  BY DEF IsSeq
<1>2. PICK T : t \in Seq(T)
  BY DEF IsSeq
<1>3. q \in Seq(S \cup T) /\ t \in Seq(S \cup T)
  BY <1>1, <1>2
<1>4. q \o t \in Seq(S \cup T) /\ Len(q \o t) = Len(q) + Len(t)
  BY <1>3
<1>5. Len(q) \in Nat /\ Len(t) \in Nat
  BY <1>3
<1>6. \A i \in 1..Len(q) : (q \o t)[i] = q[i]
  BY <1>3, <1>5
<1>7. \A i \in 1..Len(q \o t) : i > Len(q) =>
              i - Len(q) \in 1..Len(t) /\ (q \o t)[i] = t[i - Len(q)]
  BY <1>3, <1>4, <1>5
<1>8. QED
  BY <1>4, <1>6, <1>7 DEF IsSeq

\* Nothing is added; and additions add up.
LEMMA AddsNothing ==
  ASSUME NEW q, IsSeq(q)
  PROVE  Adds(q, q, 0)
  BY SeqLen, StartingNat DEF Adds, Extends

\* Call-backs added in two steps.
LEMMA AddsUp ==
  ASSUME NEW q, NEW r, NEW t, IsSeq(q), NEW j \in Nat, NEW k \in Nat, Adds(r, q, j), Adds(t, r, k)
  PROVE  Adds(t, q, j + k)
<1>1. IsSeq(r) /\ IsSeq(t)
  BY DEF Adds, Extends
<1>2. Len(q) \in Nat /\ Len(r) \in Nat /\ Len(t) \in Nat
  BY <1>1, SeqLen
<1>3. \A i \in 1..Len(t) : i > Len(q) => "event" \in DOMAIN t[i]
  <2>1. SUFFICES ASSUME NEW i \in 1..Len(t), i > Len(q)
                 PROVE  "event" \in DOMAIN t[i]
    OBVIOUS
  <2>2. CASE i > Len(r)
    BY <2>2 DEF Adds, Extends
  <2>3. CASE i <= Len(r)
    <3>1. i \in 1..Len(r)
      BY <1>2, <2>3
    <3>2. t[i] = r[i] /\ "event" \in DOMAIN r[i]
      BY <2>1, <3>1 DEF Adds, Extends
    <3>3. QED
      BY <3>2
  <2>4. QED
    BY <1>2, <2>2, <2>3
<1>4. Starting(t) = Starting(q) + (j + k)
  BY <1>1, StartingNat DEF Adds, Extends
<1>5. \A i \in 1..Len(q) : i \in 1..Len(r) /\ t[i] = q[i]
  BY <1>2 DEF Adds, Extends
<1>6. QED
  BY <1>1, <1>2, <1>3, <1>4, <1>5 DEF Adds, Extends

\* A session that has no new call-backs.
LEMMA QuietSelf ==
  ASSUME NEW r, NEW s, Same(r, s), IsSeq(s.out), r.out = s.out
  PROVE  Quiet(r, s)
  BY AddsNothing DEF Quiet

\* One quiet step after another.
LEMMA QuietThen ==
  ASSUME NEW s, NEW r, NEW t, IsSeq(s.out), Quiet(r, s), Quiet(t, r)
  PROVE  Quiet(t, s)
<1>1. Adds(t.out, s.out, 0 + 0)
  BY AddsUp DEF Quiet
<1>2. QED
  BY <1>1 DEF Quiet, Same

\* An event other than EtStart.
LEMMA TellQuiet ==
  ASSUME NEW s, IsSession(s), IsSeq(s.out), NEW e, e.type # "EtStart"
  PROVE  Quiet(Tell(s, e), s)
<1> DEFINE x == [port |-> s.capturePort, event |-> e]
           r == Append(s.out, x)
<1>1. Same(Tell(s, e), s) /\ Tell(s, e).out = r
  BY DEF IsSession, Same, Core, Tell
<1>2. "event" \in DOMAIN x /\ ~IsStart(x)
  BY DEF IsStart
<1> HIDE DEF x
<1>3. /\ IsSeq(r) /\ Len(r) = Len(s.out) + 1 /\ r[Len(s.out) + 1] = x
      /\ \A i \in 1..Len(s.out) : r[i] = s.out[i]
  BY AppendSeq
<1>4. Len(s.out) \in Nat
  BY SeqLen
<1>5. \A i \in 1..Len(r) : i > Len(s.out) => r[i] = x
  <2> HIDE DEF r
  <2> QED BY <1>3, <1>4
<1>6. Starting(r) = Starting(s.out)
  <2> HIDE DEF r
  <2>1. Extends(r, s.out) /\ NotStarting(r, s.out)
    BY <1>2, <1>3, <1>4, <1>5 DEF Extends, NotStarting
  <2> QED BY <2>1, StartingSame
<1>7. Adds(r, s.out, 0)
  <2> HIDE DEF r
  <2> QED BY <1>2, <1>3, <1>4, <1>5, <1>6, StartingNat DEF Adds, Extends
<1>8. QED
  BY <1>1, <1>7 DEF Quiet

\* Several events, none of them EtStart.
LEMMA TellAllQuiet ==
  ASSUME NEW s, IsSession(s), IsSeq(s.out), NEW es, IsSeq(es),
         \A i \in 1..Len(es) : es[i].type # "EtStart"
  PROVE  Quiet(TellAll(s, es), s)
<1> DEFINE t == [i \in 1..Len(es) |-> [port |-> s.capturePort, event |-> es[i]]]
           r == s.out \o t
<1>1. Same(TellAll(s, es), s) /\ TellAll(s, es).out = r
  BY DEF IsSession, Same, Core, TellAll
<1>2. Len(es) \in Nat
  BY SeqLen
<1>3. \A i \in 1..Len(es) : "event" \in DOMAIN t[i] /\ ~IsStart(t[i])
  BY DEF IsStart
<1>4. t \in Seq({t[i] : i \in 1..Len(es)}) /\ Len(t) = Len(es)
  BY <1>2
<1> HIDE DEF t
<1>5. IsSeq(t)
  BY <1>4 DEF IsSeq
<1>6. /\ IsSeq(r) /\ Len(r) = Len(s.out) + Len(t)
      /\ \A i \in 1..Len(s.out) : r[i] = s.out[i]
      /\ \A i \in 1..Len(r) : i > Len(s.out) =>
           i - Len(s.out) \in 1..Len(t) /\ r[i] = t[i - Len(s.out)]
  BY <1>5, ConcatSeq
<1> HIDE DEF r
<1>7. Len(s.out) \in Nat
  BY SeqLen
<1>8. \A i \in 1..Len(r) : i > Len(s.out) => "event" \in DOMAIN r[i] /\ ~IsStart(r[i])
  BY <1>3, <1>4, <1>6
<1>9. Starting(r) = Starting(s.out)
  <2>1. Extends(r, s.out) /\ NotStarting(r, s.out)
    BY <1>2, <1>4, <1>6, <1>7, <1>8 DEF Extends, NotStarting
  <2>2. QED
    BY <2>1, StartingSame
<1>10. Adds(r, s.out, 0)
  BY <1>2, <1>4, <1>6, <1>7, <1>8, <1>9, StartingNat DEF Adds, Extends
<1>11. QED
  BY <1>1, <1>10 DEF Quiet

\* The elements of a finite set, in some order.
LEMMA SetToSeqSeq ==
  ASSUME NEW S, IsFiniteSet(S)
  PROVE  IsSeq(SetToSeq(S))
<1>1. PICK n \in Nat : ExistsBijection(1..n, S)
  BY FS_NatBijection
<1>2. Cardinality(S) = n
  BY <1>1, FS_CountingElements
<1>3. PICK f : f \in Bijection(1..n, S)
  BY <1>1 DEF ExistsBijection
<1>4. f \in [1..Cardinality(S) -> S] /\ IsInjective(f)
  BY <1>2, <1>3 DEF Bijection, Injection, Surjection, IsInjective
<1>5. SetToSeq(S) \in [1..Cardinality(S) -> S]
  BY <1>4 DEF SetToSeq
<1>6. SetToSeq(S) \in Seq(S)
  BY <1>2, <1>5
<1>7. QED
  BY <1>6 DEF IsSeq

\* What is learnt before the session starts.
LEMMA ProcessMetadataSame ==
  ASSUME NEW c, NEW s, NEW p, IsSession(s)
  PROVE  LET r == ProcessMetadata(c, s, p)
         IN /\ IsSession(r) /\ r.out = s.out /\ r.metadataProcessed
            /\ \A f \in Core : f # "metadataProcessed" => r[f] = s[f]
  BY DEF ProcessMetadata, ProcessMetadataRawRtp, ProcessMetadataSip, ProcessMetadataSipIncoming, ProcessMetadataSipOutgoing, ProcessMetadataSkinny, IsSession, Core

\* AddLocalIp changes what the session knows of itself, and tells nothing.
LEMMA AddLocalIpSame ==
  ASSUME NEW c, NEW s, IsSession(s)
  PROVE  Same(AddLocalIp(c, s), s) /\ AddLocalIp(c, s).out = s.out /\ AddLocalIp(c, s).tags = s.tags
  BY DEF AddLocalIp, IsSession, Core, Same

\* Events to be told, none of them EtStart.
Events(es) == IsSeq(es) /\ \A i \in 1..Len(es) : es[i].type # "EtStart"

\* No events.
LEMMA EventsNone == Events(<< >>)
<1>1. << >> \in Seq({}) /\ Len(<< >>) = 0
  OBVIOUS
<1>2. QED
  BY <1>1 DEF Events, IsSeq

\* Events, or none.
LEMMA EventsSome ==
  ASSUME NEW n \in Nat, NEW es, es = [i \in 1..n |-> es[i]], \A i \in 1..n : es[i].type # "EtStart"
  PROVE  Events(es)
<1>1. es \in Seq({es[i] : i \in 1..n}) /\ Len(es) = n
  OBVIOUS
<1>2. QED
  BY <1>1 DEF Events, IsSeq

\* Events after events.
LEMMA EventsConcat ==
  ASSUME NEW a, NEW b, Events(a), Events(b)
  PROVE  Events(a \o b)
<1>1. /\ IsSeq(a \o b)
      /\ \A i \in 1..Len(a) : (a \o b)[i] = a[i]
      /\ \A i \in 1..Len(a \o b) : i > Len(a) =>
              i - Len(a) \in 1..Len(b) /\ (a \o b)[i] = b[i - Len(a)]
  BY ConcatSeq DEF Events
<1>2. Len(a) \in Nat
  BY SeqLen DEF Events
<1>3. \A i \in 1..Len(a \o b) : (a \o b)[i].type # "EtStart"
  BY <1>1, <1>2 DEF Events
<1>4. QED
  BY <1>1, <1>3 DEF Events

\* One event, and two.
LEMMA EventsOne ==
  ASSUME NEW e, e.type # "EtStart"
  PROVE  Events(<<e>>)
<1> DEFINE es == <<e>>
<1>1. es = [i \in 1..1 |-> es[i]] /\ \A i \in 1..1 : es[i].type # "EtStart"
  OBVIOUS
<1> HIDE DEF es
<1>2. Events(es)
  BY <1>1, EventsSome
<1>3. QED
  BY <1>2 DEF es

\* Events that follow each other, as ReportMetadata puts them together: two ...
LEMMA EventsTwo ==
  ASSUME NEW e, NEW f, e.type # "EtStart", f.type # "EtStart"
  PROVE  Events(<<e, f>>)
<1> DEFINE es == <<e, f>>
<1>1. es = [i \in 1..2 |-> es[i]] /\ \A i \in 1..2 : es[i].type # "EtStart"
  OBVIOUS
<1> HIDE DEF es
<1>2. Events(es)
  BY <1>1, EventsSome
<1>3. QED
  BY <1>2 DEF es

\* ... three ...
LEMMA EventsThree ==
  ASSUME NEW e, NEW f, NEW g, e.type # "EtStart", f.type # "EtStart", g.type # "EtStart"
  PROVE  Events(<<e, f, g>>)
<1> DEFINE es == <<e, f, g>>
<1>1. es = [i \in 1..3 |-> es[i]] /\ \A i \in 1..3 : es[i].type # "EtStart"
  OBVIOUS
<1> HIDE DEF es
<1>2. Events(es)
  BY <1>1, EventsSome
<1>3. QED
  BY <1>2 DEF es

\* ... and four of them.
LEMMA EventsFour ==
  ASSUME NEW e, NEW f, NEW g, NEW h, e.type # "EtStart", f.type # "EtStart", g.type # "EtStart", h.type # "EtStart"
  PROVE  Events(<<e, f, g, h>>)
<1> DEFINE es == <<e, f, g, h>>
<1>1. es = [i \in 1..4 |-> es[i]] /\ \A i \in 1..4 : es[i].type # "EtStart"
  OBVIOUS
<1> HIDE DEF es
<1>2. Events(es)
  BY <1>1, EventsSome
<1>3. QED
  BY <1>2 DEF es

\* A session that tells its port events that are not EtStart.
LEMMA TellsQuietly ==
  ASSUME NEW s, IsSession(s), IsSeq(s.out), NEW r, Same(r, s), r.out = s.out, NEW es, Events(es)
  PROVE  Quiet(TellAll(r, es), s)
<1>1. IsSession(r) /\ IsSeq(r.out)
  BY DEF Same
<1>2. Quiet(TellAll(r, es), r)
  BY <1>1, TellAllQuiet DEF Events
<1>3. QED
  BY <1>2, QuietSelf, QuietThen

\* A session that tells one such event.
LEMMA TellsOneQuietly ==
  ASSUME NEW s, IsSession(s), IsSeq(s.out), NEW r, Same(r, s), r.out = s.out, NEW e, e.type # "EtStart"
  PROVE  Quiet(Tell(r, e), s)
<1>1. IsSession(r) /\ IsSeq(r.out)
  BY DEF Same
<1>2. Quiet(Tell(r, e), r)
  BY <1>1, TellQuiet
<1>3. QED
  BY <1>2, QuietSelf, QuietThen

\* Events are of the type they were made with.
LEMMA EventType == ASSUME NEW t, NEW v PROVE Event(t, v).type = t /\ KeyValue(t, v).type = "EtKeyValue"
  BY DEF Event, KeyValue

\* ReportMetadata.
LEMMA ReportMetadataQuiet ==
  ASSUME NEW c, NEW s, IsSession(s), IsSeq(s.out)
  PROVE  Quiet(ReportMetadata(c, s), s)
<1> DEFINE local == IF c.localPartyForceLocalIp THEN GetLocalPartyMap(c, Ip(s.localIp))
               ELSE IF s.localParty = None /\ s.protocol = "Skinny" /\ s.endPointIp \in DOMAIN c.extensions
               THEN GetLocalPartyMap(c, c.extensions[s.endPointIp])
               ELSE s.localParty
      q == [s EXCEPT
             !.localParty = IF local = None THEN GetLocalPartyMap(c, Ip(s.localIp)) ELSE local,
             !.direction = IF ~s.isCallPickUp THEN @ ELSE IF @ = "in" THEN "out" ELSE "in",
             !.localPartyReported = TRUE, !.remotePartyReported = TRUE]
      r == AddLocalIp(c, q)
      tags == SetToSeq(DOMAIN s.tags)
      e1 == <<Event("EtLocalParty", r.localParty), Event("EtRemoteParty", r.remoteParty)>>
      e2 == IF r.entryPoint = None THEN << >> ELSE <<Event("EtLocalEntryPoint", r.entryPoint)>>
      e3 == <<Event("EtDirection", r.direction), Event("EtLocalIp", r.localIp),
            Event("EtOrkUid", r.orkUid), Event("EtCallId", CallIdOf(r))>>
      e4 == IF r.onDemand THEN <<KeyValue("ondemand", "true")>> ELSE << >>
      e5 == [i \in 1..Len(tags) |-> KeyValue(tags[i], s.tags[tags[i]])]
      e6 == <<Event("EtEndMetadata", "")>>
<1>1. ReportMetadata(c, s) = TellAll(r, e1 \o e2 \o e3 \o e4 \o e5 \o e6)
  BY DEF ReportMetadata
<1>2. Same(q, s) /\ q.out = s.out
  BY DEF Same, IsSession, Core
<1> HIDE DEF q
<1>3. Same(r, s) /\ r.out = s.out
  BY <1>2, AddLocalIpSame DEF Same
<1> HIDE DEF r
<1>4. Events(e1)
  BY EventsTwo, EventType
<1>5. Events(e2)
  BY EventsOne, EventsNone, EventType
<1>6. Events(e3)
  BY EventsFour, EventType
<1>7. Events(e4)
  BY EventsOne, EventsNone, EventType
<1>8. Events(e5)
  <2>1. IsSeq(tags)
    BY SetToSeqSeq DEF IsSession
  <2>2. Len(tags) \in Nat
    BY <2>1, SeqLen
  <2> HIDE DEF tags
  <2>3. e5 = [i \in 1..Len(tags) |-> e5[i]] /\ \A i \in 1..Len(tags) : e5[i].type # "EtStart"
    BY EventType
  <2> HIDE DEF e5
  <2>4. QED
    BY <2>2, <2>3, EventsSome
<1>9. Events(e6)
  BY EventsOne, EventType
<1> HIDE DEF e1, e2, e3, e4, e5, e6
<1>10. Events(e1 \o e2 \o e3 \o e4 \o e5 \o e6)
  BY <1>4, <1>5, <1>6, <1>7, <1>8, <1>9, EventsConcat
<1>11. QED
  BY <1>1, <1>3, <1>10, TellsQuietly

\* VoIpSession::Start tells once that the session starts.
LEMMA StartAdds ==
  ASSUME NEW s, IsSession(s), IsSeq(s.out), NEW n
  PROVE  LET r == Start(s, n)
         IN /\ IsSession(r) /\ r.started /\ Adds(r.out, s.out, 1)
            /\ \A f \in Core : f # "started" => r[f] = s[f]
<1> DEFINE r == Start(s, n)
           x == [port |-> s.capturePort, event |-> Event("EtStart", s.trackingId)]
           t == Append(s.out, x)
<1>1. IsSession(r) /\ r.started /\ (\A f \in Core : f # "started" => r[f] = s[f]) /\ r.out = t
  BY DEF Start, Tell, IsSession, Core
<1>2. "event" \in DOMAIN x /\ IsStart(x)
  BY EventType DEF IsStart
<1> HIDE DEF x, r
<1>3. /\ IsSeq(t) /\ Len(t) = Len(s.out) + 1 /\ t[Len(s.out) + 1] = x
      /\ \A i \in 1..Len(s.out) : t[i] = s.out[i]
  BY AppendSeq
<1>4. Len(s.out) \in Nat /\ DOMAIN s.out = 1..Len(s.out)
  BY SeqLen
<1>5. DOMAIN t = 1..(Len(s.out) + 1)
  BY <1>3, SeqLen
<1> HIDE DEF t
<1>6. Extends(t, s.out)
  BY <1>3, <1>4 DEF Extends
<1>7. {i \in DOMAIN t : IsStart(t[i])} = {i \in DOMAIN s.out : IsStart(s.out[i])} \cup {Len(s.out) + 1}
  BY <1>2, <1>3, <1>4, <1>5
<1>8. Starting(t) = Starting(s.out) + 1
  <2>1. IsFiniteSet({i \in DOMAIN s.out : IsStart(s.out[i])})
    <3>1. IsFiniteSet(1..Len(s.out)) /\ {i \in DOMAIN s.out : IsStart(s.out[i])} \subseteq 1..Len(s.out)
      BY <1>4, FS_Interval
    <3>2. QED
      BY <3>1, FS_Subset
  <2>2. Len(s.out) + 1 \notin {i \in DOMAIN s.out : IsStart(s.out[i])}
    BY <1>4
  <2>3. QED
    BY <1>7, <2>1, <2>2, FS_AddElement DEF Starting
<1>9. \A i \in 1..Len(t) : i > Len(s.out) => "event" \in DOMAIN t[i]
  BY <1>2, <1>3, <1>4
<1>10. Adds(t, s.out, 1)
  BY <1>6, <1>8, <1>9 DEF Adds
<1>11. QED
  BY <1>1, <1>10 DEF r

\* VoIpSession::Start and ReportMetadata tell one EtStart.
LEMMA BeginAdds ==
  ASSUME NEW c, NEW s, IsSession(s), IsSeq(s.out), NEW n
  PROVE  LET r == Begin(c, s, n)
         IN /\ IsSession(r) /\ r.started /\ Adds(r.out, s.out, 1)
            /\ \A f \in Core : f # "started" => r[f] = s[f]
<1> DEFINE q == Start(s, n)
           r == Begin(c, s, n)
<1>1. /\ IsSession(q) /\ q.started /\ Adds(q.out, s.out, 1)
      /\ \A f \in Core : f # "started" => q[f] = s[f]
  BY StartAdds
<1>2. r = ReportMetadata(c, q)
  BY DEF Begin
<1> HIDE DEF q, r
<1>3. IsSeq(q.out)
  BY <1>1 DEF Adds, Extends
<1>4. Quiet(r, q)
  BY <1>1, <1>2, <1>3, ReportMetadataQuiet
<1>5. Adds(r.out, s.out, 1 + 0)
  BY <1>1, <1>4, AddsUp DEF Quiet
<1>6. IsSession(r) /\ r.started /\ \A f \in Core : f # "started" => r[f] = s[f]
  BY <1>1, <1>4 DEF Quiet, Same, Core
<1>7. QED
  BY <1>5, <1>6 DEF r

\* GoOnHold starts nothing.
LEMMA GoOnHoldQuiet ==
  ASSUME NEW c, NEW s, IsSession(s), IsSeq(s.out), NEW n
  PROVE  Quiet(GoOnHold(c, s, n), s)
<1> DEFINE held == [s EXCEPT !.onHold = TRUE, !.holdBegin = n]
<1>1. Same(held, s) /\ held.out = s.out
  BY DEF Same, IsSession, Core
<1> HIDE DEF held
<1>2. Quiet(held, s) /\ Quiet(Tell(held, Event("EtHold", s.trackingId)), s)
  BY <1>1, QuietSelf, TellsOneQuietly, EventType
<1>3. GoOnHold(c, s, n) \in {s, held, Tell(held, Event("EtHold", s.trackingId))}
  BY DEF GoOnHold, held
<1>4. Quiet(s, s)
  BY QuietSelf DEF Same
<1>5. QED
  BY <1>2, <1>3, <1>4

\* GoOffHold starts nothing.
LEMMA GoOffHoldQuiet ==
  ASSUME NEW c, NEW s, IsSession(s), IsSeq(s.out), NEW n
  PROVE  Quiet(GoOffHold(c, s, n), s)
<1> DEFINE r == [s EXCEPT !.lastUpdated = n, !.onHold = FALSE,
                     !.holdDuration = @ + (n - s.holdBegin)]
           e1 == IF c.holdReportStats THEN <<KeyValue("holdtime", r.holdDuration)>> ELSE << >>
           e2 == IF c.holdDuration \/ c.holdEvents THEN <<Event("EtResume", s.trackingId)>> ELSE << >>
<1>1. Same(r, s) /\ r.out = s.out
  BY DEF Same, IsSession, Core
<1>2. GoOffHold(c, s, n) = TellAll(r, e1 \o e2)
  BY DEF GoOffHold
<1> HIDE DEF r
<1>3. Events(e1) /\ Events(e2)
  BY EventsOne, EventsNone, EventType
<1> HIDE DEF e1, e2
<1>4. QED
  BY <1>1, <1>2, <1>3, EventsConcat, TellsQuietly

\* MarkAsOnDemand starts nothing.
LEMMA MarkAsOnDemandQuiet ==
  ASSUME NEW s, IsSession(s), IsSeq(s.out), NEW side
  PROVE  Quiet(MarkAsOnDemand(s, side), s) /\ Quiet(MarkAsOnDemandOff(s), s)
<1> DEFINE r(on) == [s EXCEPT !.onDemand = on]
           es == <<KeyValue("ondemand", "true"), Event("EtAudioKeepDirection", side), Event("EtUpdate", "")>>
           off == <<KeyValue("ondemand", "false"), Event("EtUpdate", "")>>
<1>1. \A on : Same(r(on), s) /\ r(on).out = s.out
  BY DEF Same, IsSession, Core
<1>2. /\ MarkAsOnDemand(s, side) \in {r(TRUE), TellAll(r(TRUE), es)}
      /\ MarkAsOnDemandOff(s) \in {r(FALSE), TellAll(r(FALSE), off)}
  BY DEF MarkAsOnDemand, MarkAsOnDemandOff
<1> HIDE DEF r
<1>3. Events(es)
  <2>1. QED
    BY EventsThree, EventType
<1>4. Events(off)
  BY EventsTwo, EventType
<1> HIDE DEF es, off
<1>5. QED
  BY <1>1, <1>2, <1>3, <1>4, TellsQuietly, QuietSelf

\* Digits.
LEMMA ReportDtmfDigitQuiet ==
  ASSUME NEW c, NEW s, IsSession(s), IsSeq(s.out), NEW digit
  PROVE  Quiet(ReportDtmfDigit(c, s, digit), s)
<1> DEFINE string == Append(IF Len(s.dtmf) > 100 THEN << >> ELSE s.dtmf, digit)
      isStart == Occurs(string, c.onDemandDigits)
      isPause == Occurs(string, c.pauseDigits)
      toggles == c.onDemandDigits = c.pauseDigits /\ isStart
      start == isStart /\ ~(toggles /\ s.keepRtp)
      pause == isPause /\ ~(toggles /\ ~s.keepRtp)
      heard == [s EXCEPT !.dtmf = IF c.onDemandDigits # << >> /\ (isStart \/ isPause)
                                  THEN << >> ELSE string]
      marked == MarkAsOnDemand(heard, "both")
      acted == IF c.onDemandDigits = << >> THEN heard
               ELSE IF start /\ ~(s.onDemand /\ s.keepRtp)
               THEN [marked EXCEPT !.keepRtp = TRUE]
               ELSE IF pause /\ s.keepRtp THEN [heard EXCEPT !.keepRtp = FALSE]
               ELSE heard
      e1 == IF c.dtmfReportFullString THEN <<KeyValue("dtmfstring", acted.dtmf)>> ELSE << >>
      e2 == <<KeyValue("dtmfdigit", digit)>>
<1>1. ReportDtmfDigit(c, s, digit) = TellAll(acted, e1 \o e2)
  BY DEF ReportDtmfDigit
<1> HIDE DEF isStart, isPause, string
<1>2. Same(heard, s) /\ heard.out = s.out
  BY DEF Same, IsSession, Core
<1> HIDE DEF heard
<1>3. Quiet(heard, s)
  BY <1>2, QuietSelf
<1>4. Quiet(marked, s)
  BY <1>2, <1>3, MarkAsOnDemandQuiet, QuietThen DEF Same
<1> HIDE DEF marked, start, pause
<1>5. \A x : Same([marked EXCEPT !.keepRtp = x], marked) /\ [marked EXCEPT !.keepRtp = x].out = marked.out
  BY <1>4 DEF Quiet, Same, IsSession, Core
<1>6. \A x : Same([heard EXCEPT !.keepRtp = x], heard) /\ [heard EXCEPT !.keepRtp = x].out = heard.out
  BY <1>2 DEF Same, IsSession, Core
<1>7. Quiet([marked EXCEPT !.keepRtp = TRUE], s)
  <2>1. IsSeq(marked.out)
    BY <1>4 DEF Quiet, Adds, Extends
  <2>2. QED
    BY <1>4, <1>5, <2>1, QuietSelf, QuietThen
<1>8. Quiet([heard EXCEPT !.keepRtp = FALSE], s)
  BY <1>2, <1>3, <1>6, QuietSelf, QuietThen
<1>9. Quiet(acted, s)
  BY <1>3, <1>7, <1>8
<1> HIDE DEF acted
<1>10. Events(e1) /\ Events(e2)
  BY EventsOne, EventsNone, EventType
<1> HIDE DEF e1, e2
<1>11. Events(e1 \o e2)
  BY <1>10, EventsConcat
<1>12. IsSession(acted) /\ IsSeq(acted.out) /\ Same(acted, acted)
  BY <1>9 DEF Quiet, Adds, Extends, Same
<1>13. Quiet(TellAll(acted, e1 \o e2), acted)
  BY <1>11, <1>12, TellsQuietly
<1>14. QED
  BY <1>1, <1>9, <1>13, QuietThen

\* A DTMF digit starts nothing: it marks the session, and the next packet starts it.
LEMMA HandleRtpEventQuiet ==
  ASSUME NEW c, NEW s, IsSession(s), IsSeq(s.out), NEW p
  PROVE  Quiet(HandleRtpEvent(c, s, p), s)
<1> DEFINE q == [s EXCEPT !.eventTs = p.ts]
<1>1. Same(q, s) /\ q.out = s.out
  BY DEF Same, IsSession, Core
<1>2. HandleRtpEvent(c, s, p) \in {s, ReportDtmfDigit(c, q, p.kind)}
  BY DEF HandleRtpEvent
<1> HIDE DEF q
<1>3. Quiet(s, s) /\ Quiet(q, s)
  BY <1>1, QuietSelf DEF Same
<1>4. Quiet(ReportDtmfDigit(c, q, p.kind), q)
  BY <1>1, ReportDtmfDigitQuiet DEF Same
<1>5. QED
  BY <1>2, <1>3, <1>4, QuietThen

\* A digit in a SIP INFO starts nothing either.
LEMMA ReportSipInfoQuiet ==
  ASSUME NEW c, NEW s, IsSession(s), IsSeq(s.out), NEW info
  PROVE  Quiet(ReportSipInfo(c, s, info), s)
<1> DEFINE noted == [s EXCEPT !.cSeq = info.cSeq]
      keyed == IF info.digit \in Digits /\ c.sipInfoDtmf
               THEN ReportDtmfDigit(c, noted, info.digit) ELSE noted
      on == IF info.onDemand = "on" THEN MarkAsOnDemand(keyed, "both") ELSE keyed
      off == MarkAsOnDemandOff(on)
<1>1. ReportSipInfo(c, s, info) \in {s, off, on}
  BY DEF ReportSipInfo
<1>2. Same(noted, s) /\ noted.out = s.out
  BY DEF Same, IsSession, Core
<1> HIDE DEF noted
<1>3. Quiet(s, s) /\ Quiet(noted, s) /\ IsSession(noted) /\ IsSeq(noted.out)
  BY <1>2, QuietSelf DEF Same
<1>4. Quiet(keyed, s)
  BY <1>3, ReportDtmfDigitQuiet, QuietThen
<1> HIDE DEF keyed
<1>5. IsSession(keyed) /\ IsSeq(keyed.out)
  BY <1>4 DEF Quiet, Adds, Extends, Same
<1>6. Quiet(on, s)
  BY <1>4, <1>5, MarkAsOnDemandQuiet, QuietThen
<1> HIDE DEF on
<1>7. IsSession(on) /\ IsSeq(on.out)
  BY <1>6 DEF Quiet, Adds, Extends, Same
<1>8. Quiet(off, s)
  BY <1>6, <1>7, MarkAsOnDemandQuiet, QuietThen
<1>9. QED
  BY <1>1, <1>3, <1>6, <1>8

\* The tags of REFER, of an error and of NEC's NOTIFY.
LEMMA TagsQuiet ==
  ASSUME NEW c, NEW s, IsSession(s), IsSeq(s.out), NEW dsp
  PROVE  /\ Quiet(ReportSipRefer(s), s) /\ Quiet(ReportSipErrorPacket(s), s)
         /\ Quiet(ReportSipNotify(c, s, dsp), s)
<1>1. Same(s, s)
  BY DEF Same
<1>2. Quiet(ReportSipRefer(s), s) /\ Quiet(ReportSipErrorPacket(s), s)
  BY <1>1, TellsOneQuietly, EventType DEF ReportSipRefer, ReportSipErrorPacket
<1> DEFINE known == [s EXCEPT !.sipRemoteParty = dsp]
           noted == [known EXCEPT !.invite.sipRemoteParty = dsp]
<1>3. ReportSipNotify(c, s, dsp) \in {s, Tell(known, Event("EtRemoteParty", dsp)), noted}
  BY DEF ReportSipNotify
<1>4. Same(known, s) /\ known.out = s.out
  BY DEF Same, IsSession, Core
<1>5. Same(noted, s) /\ noted.out = s.out
  BY DEF Same, IsSession, Core
<1> HIDE DEF known, noted
<1>6. Quiet(s, s) /\ Quiet(noted, s)
  BY <1>1, <1>5, QuietSelf
<1>7. Quiet(Tell(known, Event("EtRemoteParty", dsp)), s)
  BY <1>4, TellsOneQuietly, EventType
<1>8. QED
  BY <1>2, <1>3, <1>6, <1>7

\* ReportSipBye starts nothing.
LEMMA ReportSipByeQuiet ==
  ASSUME NEW c, NEW s, IsSession(s), IsSeq(s.out), NEW bye
  PROVE  Quiet(ReportSipBye(c, s, bye), s)
<1> DEFINE
      local == [s EXCEPT !.localParty =
                  GetLocalPartyMap(c, IF s.remoteParty # bye.to THEN bye.to ELSE bye.from)]
      remote == [s EXCEPT !.remoteParty =
                   GetLocalPartyMap(c, IF s.localParty # GetLocalPartyMap(c, bye.to)
                                       THEN bye.to ELSE bye.from)]
<1>1. Same(local, s) /\ local.out = s.out /\ Same(remote, s) /\ remote.out = s.out /\ Same(s, s)
  BY DEF Same, IsSession, Core
<1>2. ReportSipBye(c, s, bye) \in {s, Tell(local, Event("EtLocalParty", local.localParty)),
                                   Tell(remote, Event("EtRemoteParty", remote.remoteParty))}
  BY DEF ReportSipBye
<1> HIDE DEF local, remote
<1>3. Quiet(s, s)
  BY <1>1, QuietSelf
<1>4. /\ Quiet(Tell(local, Event("EtLocalParty", local.localParty)), s)
      /\ Quiet(Tell(remote, Event("EtRemoteParty", remote.remoteParty)), s)
  BY <1>1, TellsOneQuietly, EventType
<1>5. QED
  BY <1>2, <1>3, <1>4

\* ReportRtcpSrcDescription starts nothing.
LEMMA RtcpQuiet ==
  ASSUME NEW c, NEW s, IsSession(s), IsSeq(s.out), NEW cname
  PROVE  Quiet(ReportRtcpSrcDescription(c, s, cname), s)
<1> DEFINE
      local == [s EXCEPT !.rtcpLocal = TRUE, !.localParty = GetLocalPartyMap(c, cname)]
      remote == [s EXCEPT !.rtcpRemote = TRUE, !.remoteParty = GetLocalPartyMap(c, cname)]
      r == AddLocalIp(c, local)
<1>1. Same(local, s) /\ local.out = s.out /\ Same(remote, s) /\ remote.out = s.out /\ Same(s, s)
  BY DEF Same, IsSession, Core
<1>2. ReportRtcpSrcDescription(c, s, cname)
        \in {s, local, remote, Tell(r, Event("EtLocalParty", r.localParty)),
             Tell(remote, Event("EtRemoteParty", remote.remoteParty))}
  BY DEF ReportRtcpSrcDescription
<1> HIDE DEF local, remote
<1>3. Same(r, s) /\ r.out = s.out
  BY <1>1, AddLocalIpSame DEF Same
<1> HIDE DEF r
<1>4. Quiet(s, s) /\ Quiet(local, s) /\ Quiet(remote, s)
  BY <1>1, QuietSelf
<1>5. /\ Quiet(Tell(r, Event("EtLocalParty", r.localParty)), s)
      /\ Quiet(Tell(remote, Event("EtRemoteParty", remote.remoteParty)), s)
  BY <1>1, <1>3, TellsOneQuietly, EventType
<1>6. QED
  BY <1>2, <1>4, <1>5

\* VoIpSession::Stop starts nothing.
LEMMA StopQuiet ==
  ASSUME NEW c, NEW s, IsSession(s), IsSeq(s.out)
  PROVE  Quiet(Stop(c, s), s)
<1> DEFINE local(p) == p # NoPacket /\ p.src \notin c.referenceAddresses
      side == CASE local(s.last1) /\ local(s.last2) -> "both"
                [] local(s.last1) /\ ~local(s.last2) -> "side1"
                [] ~local(s.last1) /\ local(s.last2) -> "side2"
                [] OTHER -> s.localSide
      r == [s EXCEPT !.localSide = side, !.stopped = TRUE]
      es == <<Event("EtLocalSide", side), Event("EtStop", s.lastUpdated)>>
<1>1. Stop(c, s) \in {s, TellAll(r, es)}
  BY DEF Stop
<1> HIDE DEF side
<1>2. Same(r, s) /\ r.out = s.out /\ Same(s, s)
  BY DEF Same, IsSession, Core
<1> HIDE DEF r
<1>3. Events(es)
  BY EventsTwo, EventType
<1> HIDE DEF es
<1>4. Quiet(s, s) /\ Quiet(TellAll(r, es), s)
  BY <1>2, <1>3, QuietSelf, TellsQuietly
<1>5. QED
  BY <1>1, <1>4

\* A new INVITE.
LEMMA ExtractFieldsQuiet ==
  ASSUME NEW c, NEW s, IsSession(s), IsSeq(s.out), NEW inv, IsFiniteSet(DOMAIN inv.extractedFields)
  PROVE  Quiet(ExtractFields(s, inv), s)
<1> DEFINE fields == SetToSeq(DOMAIN inv.extractedFields)
           es == [i \in 1..Len(fields) |-> KeyValue(fields[i], inv.extractedFields[fields[i]])]
           tags == [f \in DOMAIN s.tags \cup DOMAIN inv.extractedFields |->
                      IF f \in DOMAIN s.tags THEN s.tags[f] ELSE inv.extractedFields[f]]
           r == [s EXCEPT !.tags = tags]
<1>1. ExtractFields(s, inv) = IF s.started THEN TellAll(s, es) ELSE r
  BY DEF ExtractFields
<1>2. Events(es)
  <2>1. IsSeq(fields)
    BY SetToSeqSeq
  <2>2. Len(fields) \in Nat
    BY <2>1, SeqLen
  <2> HIDE DEF fields
  <2>3. es = [i \in 1..Len(fields) |-> es[i]] /\ \A i \in 1..Len(fields) : es[i].type # "EtStart"
    BY EventType
  <2> HIDE DEF es
  <2>4. QED
    BY <2>2, <2>3, EventsSome
<1> HIDE DEF es
<1>3. IsFiniteSet(DOMAIN tags)
  <2>1. DOMAIN tags = DOMAIN s.tags \cup DOMAIN inv.extractedFields
    OBVIOUS
  <2>2. QED
    BY <2>1, FS_Union DEF IsSession
<1> HIDE DEF tags
<1>4. Same(r, s) /\ r.out = s.out /\ Same(s, s)
  BY <1>3 DEF Same, IsSession, Core
<1> HIDE DEF r
<1>5. Quiet(TellAll(s, es), s) /\ Quiet(r, s)
  BY <1>2, <1>4, QuietSelf, TellsQuietly
<1>6. QED
  BY <1>1, <1>5

\* ReportSipInvite starts nothing.
LEMMA ReportSipInviteQuiet ==
  ASSUME NEW c, NEW s, IsSession(s), IsSeq(s.out), NEW inv, IsFiniteSet(DOMAIN inv.extractedFields)
  PROVE  Quiet(ReportSipInvite(c, s, inv), s)
<1> DEFINE q == KeepInvite(c, s, inv)
           a == [q EXCEPT !.remoteParty = GetLocalPartyMap(c, inv.contact), !.direction = "out"]
           es == <<Event("EtRemoteParty", a.remoteParty), Event("EtDirection", a.direction)>>
           kept == ContactOfSelf(c, q, inv)
           known == NewSipRemoteParty(c, kept, inv)
           tagged == ExtractFields(known, inv)
           end == KeepOnDemandField(c, tagged)
<1>1. ReportSipInvite(c, s, inv) = end
  BY DEF ReportSipInvite
<1>2. Same(q, s) /\ q.out = s.out
  BY DEF KeepInvite, Same, IsSession, Core
<1>3. kept \in {q, TellAll(a, es)}
  BY DEF ContactOfSelf
<1> HIDE DEF q, kept
<1>4. Quiet(q, s) /\ IsSession(q) /\ IsSeq(q.out)
  BY <1>2, QuietSelf DEF Same
<1>5. Same(a, q) /\ a.out = q.out
  BY <1>4 DEF Same, IsSession, Core
<1> HIDE DEF a
<1>6. Events(es)
  BY EventsTwo, EventType
<1> HIDE DEF es
<1>7. Quiet(TellAll(a, es), q)
  BY <1>4, <1>5, <1>6, TellsQuietly
<1>8. Quiet(kept, s)
  BY <1>3, <1>4, <1>7, QuietThen
<1>9. IsSession(kept) /\ IsSeq(kept.out)
  BY <1>8 DEF Quiet, Adds, Extends, Same
<1>10. Same(known, kept) /\ known.out = kept.out
  BY <1>9 DEF NewSipRemoteParty, Same, IsSession, Core
<1> HIDE DEF known
<1>11. Quiet(known, s) /\ IsSession(known) /\ IsSeq(known.out)
  BY <1>8, <1>9, <1>10, QuietSelf, QuietThen DEF Same
<1>12. Quiet(tagged, s)
  BY <1>11, ExtractFieldsQuiet, QuietThen
<1> HIDE DEF tagged
<1>13. IsSession(tagged) /\ IsSeq(tagged.out)
  BY <1>12 DEF Quiet, Adds, Extends, Same
<1>14. Same(end, tagged) /\ end.out = tagged.out
  BY <1>13 DEF KeepOnDemandField, Same, IsSession, Core
<1> HIDE DEF end
<1>15. QED
  BY <1>1, <1>12, <1>13, <1>14, QuietSelf, QuietThen

\* A new address of the RTP.
LEMMA RtpChangeQuiet ==
  ASSUME NEW c, NEW s, IsSession(s), IsSeq(s.out), NEW p, NEW new
  PROVE  Quiet(UpdateMetadataSipOnRtpChange(c, s, p, new), s)
<1> DEFINE i == InviteOf(s, p, new)
      uri == c.sipRequestUriAsLocalParty /\ s.invite.requestUri # s.invite.to
      q == [s EXCEPT
             !.validated = @ \cup {i},
             !.localParty = GetLocalPartyMap(c, IF uri THEN s.invite.requestUri ELSE s.invites[i].to),
             !.remoteParty = GetLocalPartyMap(c, IF uri THEN s.invite.from ELSE s.invites[i].from),
             !.direction = IF uri THEN "in" ELSE @,
             !.entryPoint = IF uri THEN s.invite.to ELSE @,
             !.localIp = s.invites[i].receiver]
      r == AddLocalIp(c, q)
      es == <<Event("EtLocalParty", r.localParty),
                       Event("EtRemoteParty", r.remoteParty),
                       Event("EtLocalIp", r.localIp), Event("EtUpdate", "")>>
<1>1. UpdateMetadataSipOnRtpChange(c, s, p, new) \in {s, TellAll(r, es)}
  BY DEF UpdateMetadataSipOnRtpChange
<1> HIDE DEF i, uri
<1>2. Same(q, s) /\ q.out = s.out /\ Same(s, s)
  BY DEF Same, IsSession, Core
<1> HIDE DEF q
<1>3. Same(r, s) /\ r.out = s.out
  BY <1>2, AddLocalIpSame DEF Same
<1> HIDE DEF r
<1>4. Events(es)
  BY EventsFour, EventType
<1> HIDE DEF es
<1>5. Quiet(s, s) /\ Quiet(TellAll(r, es), s)
  BY <1>2, <1>3, <1>4, QuietSelf, TellsQuietly
<1>6. QED
  BY <1>1, <1>5

-----------------------------------------------------------------------------
(* Starts: the invariant, and what keeps it                                *)

\* What is true of a session s that was started n times, at any time.
Sided(s) == s.last2 # NoPacket

\* The number of packets after which a session that looks back starts.
Enough(c, s) == CASE s.protocol = "RawRtp" -> MinPackets
                  [] s.protocol = "Skinny" -> 2
                  [] OTHER -> IF c.discardUnidirectional THEN 1 ELSE 2

\* How often a session was started, by what it is started for.
Started(c, s, n) ==
  /\ n \in Nat /\ s.numRtp \in Nat /\ s.numIgnored \in Nat
  /\ s.protocol \in {"Sip", "Skinny", "RawRtp"}
  /\ s.started <=> n > 0
  /\ s.last1 = NoPacket => ~Sided(s)
  /\ c.lookBack /\ ~c.discardUnidirectional =>
       n = IF s.numRtp >= Enough(c, s) THEN 1 ELSE 0
  /\ c.lookBack /\ c.discardUnidirectional => n <= 1
  /\ c.lookBack /\ c.discardUnidirectional /\ ~c.s2Activity =>
       /\ n > 0 => Sided(s)
       /\ s.numRtp >= Enough(c, s) => s.startWhenS2
       /\ s.protocol = "Sip" /\ s.numIgnored = 0 /\ Sided(s) => n > 0
  /\ ~c.lookBack /\ s.protocol # "RawRtp" =>
       IF ~c.discardUnidirectional THEN n = IF s.nonLookBackStarted THEN 1 ELSE 0
       ELSE IF c.s2Activity THEN n <= 1
       ELSE n = (IF Sided(s) THEN 1 ELSE 0) /\ (s.nonLookBackStarted <=> Sided(s))

\* The session starts with its first packet, or will with its second side.
Ready(c, s) ==
  ~c.lookBack /\ s.protocol # "RawRtp" =>
    s.nonLookBackStarted \/ (c.discardUnidirectional /\ s.startWhenS2)

\* What was detected was counted or ignored.
Counted(c, s) ==
  c.lookBack /\ s.numIgnored = 0 /\ s.last1 # NoPacket => s.numRtp >= 1

StartInv(c, s, n) == Started(c, s, n) /\ Counted(c, s) /\ (s.metadataProcessed => Ready(c, s))

\* The invariant of a session in the middle of a step, that was started b times
\* before it.
Mid(c, s, b) ==
  IsSession(s) /\ IsSeq(s.out) /\ b \in Nat /\ Started(c, s, b + Starting(s.out))

\* r is as s but for which packets are its last ones.
Steady(r, s) ==
  /\ IsSession(r) /\ r.out = s.out
  /\ \A f \in Core \ {"last", "last1", "last2", "alien1", "alien2"} : r[f] = s[f]
  /\ r.last1 = NoPacket <=> s.last1 = NoPacket
  /\ r.last2 = NoPacket <=> s.last2 = NoPacket

\* All that is added between two steps of the handler, by a session that is
\* otherwise the same.
LEMMA SameMid ==
  ASSUME NEW c, NEW s, NEW r, NEW b, Mid(c, s, b), Quiet(r, s)
  PROVE  /\ Mid(c, r, b)
         /\ Ready(c, s) => Ready(c, r)
         /\ Counted(c, s) => Counted(c, r)
<1>1. IsSession(r) /\ IsSeq(r.out) /\ Starting(r.out) = Starting(s.out) + 0 /\ Starting(s.out) \in Nat
  BY StartingNat DEF Mid, Quiet, Same, Adds, Extends
<1>2. \A f \in Core : r[f] = s[f]
  BY DEF Quiet, Same
<1>3. Starting(r.out) = Starting(s.out)
  BY <1>1
<1>4. Started(c, r, b + Starting(r.out))
  BY <1>2, <1>3 DEF Mid, Core, Started, Sided, Enough
<1>5. QED
  BY <1>1, <1>2, <1>4 DEF Mid, Ready, Counted, Core

\* Last packets do not matter to what a session was started for.
LEMMA SteadyMid ==
  ASSUME NEW c, NEW s, NEW r, NEW b, Mid(c, s, b), Steady(r, s)
  PROVE  /\ Mid(c, r, b)
         /\ Ready(c, s) => Ready(c, r)
         /\ Counted(c, s) => Counted(c, r)
<1>1. /\ r.started = s.started /\ r.numRtp = s.numRtp /\ r.numIgnored = s.numIgnored
      /\ r.protocol = s.protocol /\ r.startWhenS2 = s.startWhenS2
      /\ r.nonLookBackStarted = s.nonLookBackStarted
  BY DEF Steady, Core
<1>2. Started(c, r, b + Starting(r.out))
  BY <1>1 DEF Mid, Steady, Started, Sided, Enough
<1>3. QED
  BY <1>1, <1>2 DEF Mid, Ready, Counted, Steady

\* One start more.
LEMMA BeginMid ==
  ASSUME NEW c, NEW s, NEW time, IsSession(s), IsSeq(s.out)
  PROVE  LET r == Begin(c, s, time)
         IN /\ IsSession(r) /\ IsSeq(r.out) /\ r.started
            /\ Starting(s.out) \in Nat /\ Starting(r.out) = Starting(s.out) + 1
            /\ \A f \in Core : f # "started" => r[f] = s[f]
<1> DEFINE r == Begin(c, s, time)
<1>1. /\ IsSession(r) /\ r.started /\ Adds(r.out, s.out, 1)
      /\ \A f \in Core : f # "started" => r[f] = s[f]
  BY BeginAdds
<1> HIDE DEF r
<1>2. IsSeq(r.out) /\ Starting(r.out) = Starting(s.out) + 1
  BY <1>1 DEF Adds, Extends
<1>3. Starting(s.out) \in Nat
  BY StartingNat
<1>4. QED
  BY <1>1, <1>2, <1>3 DEF r

\* Without look-back, a session starts when it is seen, or gets ready.
LEMMA StartOnSightMid ==
  ASSUME NEW c, NEW s, NEW b, NEW time, Mid(c, s, b), Counted(c, s)
  PROVE  LET r == StartOnSight(c, s, time)
         IN Mid(c, r, b) /\ Ready(c, r) /\ Counted(c, r)
<1> DEFINE r == StartOnSight(c, s, time)
           n == b + Starting(s.out)
           ready == [s EXCEPT !.startWhenS2 = TRUE]
           begun == Begin(c, s, time)
           noted == [begun EXCEPT !.nonLookBackStarted = TRUE]
<1>1. CASE c.lookBack \/ s.nonLookBackStarted
           \/ (s.protocol = "RawRtp" /\ ~(c.trackRaw /\ s.numIgnored = MinPackets))
  <2>1. r = s
    BY <1>1 DEF StartOnSight
  <2>2. QED
    BY <1>1, <2>1 DEF Ready
<1>2. CASE ~(c.lookBack \/ s.nonLookBackStarted
           \/ (s.protocol = "RawRtp" /\ ~(c.trackRaw /\ s.numIgnored = MinPackets)))
      /\ c.discardUnidirectional
  <2>1. r = ready
    BY <1>2 DEF StartOnSight
  <2>2. IsSession(ready) /\ ready.out = s.out /\ \A f \in Core : f # "startWhenS2" => ready[f] = s[f]
    BY DEF Mid, IsSession, Core
  <2>3. ready.startWhenS2
    BY DEF Mid, IsSession, Core
  <2> HIDE DEF ready, r
  <2>4. Started(c, ready, n)
    BY <1>2, <2>2, <2>3 DEF Mid, Started, Sided, Enough, Core
  <2>5. QED
    BY <1>2, <2>1, <2>2, <2>3, <2>4 DEF Mid, Ready, Counted, Core, r
<1>3. CASE ~(c.lookBack \/ s.nonLookBackStarted
           \/ (s.protocol = "RawRtp" /\ ~(c.trackRaw /\ s.numIgnored = MinPackets)))
      /\ ~c.discardUnidirectional
  <2>1. r = noted
    BY <1>3 DEF StartOnSight
  <2>2. /\ IsSession(begun) /\ IsSeq(begun.out) /\ begun.started
        /\ b + Starting(begun.out) = n + 1
        /\ \A f \in Core : f # "started" => begun[f] = s[f]
    <3>1. IsSession(s) /\ IsSeq(s.out) /\ b \in Nat
      BY DEF Mid
    <3>2. /\ IsSession(begun) /\ IsSeq(begun.out) /\ begun.started
          /\ Starting(s.out) \in Nat /\ Starting(begun.out) = Starting(s.out) + 1
          /\ \A f \in Core : f # "started" => begun[f] = s[f]
      BY <3>1, BeginMid
    <3> HIDE DEF begun
    <3>3. QED
      BY <3>1, <3>2
  <2> HIDE DEF begun
  <2>3. /\ IsSession(noted) /\ noted.out = begun.out /\ noted.nonLookBackStarted
        /\ \A f \in Core : f # "nonLookBackStarted" => noted[f] = begun[f]
    BY <2>2 DEF IsSession, Core
  <2> HIDE DEF noted
  <2>4. /\ noted.started /\ noted.numRtp = s.numRtp /\ noted.numIgnored = s.numIgnored
        /\ noted.protocol = s.protocol /\ noted.last1 = s.last1 /\ noted.last2 = s.last2
    BY <2>2, <2>3 DEF Core
  <2> HIDE DEF r
  <2>5. Started(c, noted, n + 1)
    BY <1>3, <2>3, <2>4 DEF Mid, Started, Sided, Enough
  <2>6. QED
    BY <1>3, <2>1, <2>2, <2>3, <2>4, <2>5 DEF Mid, Ready, Counted, r
<1>4. QED
  BY <1>1, <1>2, <1>3

\* With or without, a packet that is to be kept starts nothing more.
LEMMA StartOnDemandMid ==
  ASSUME NEW c, NEW s, NEW b, NEW time, Mid(c, s, b), Counted(c, s), Ready(c, s)
  PROVE  LET r == StartOnDemand(c, s, time)
         IN Mid(c, r, b) /\ Ready(c, r) /\ Counted(c, r)
<1> DEFINE r == StartOnDemand(c, s, time)
           n == b + Starting(s.out)
           ready == [s EXCEPT !.startWhenS2 = TRUE]
           begun == Begin(c, s, time)
<1>1. CASE c.lookBack \/ s.numRtp > 0 \/ s.nonLookBackStarted
  BY <1>1 DEF StartOnDemand
<1>2. CASE ~(c.lookBack \/ s.numRtp > 0 \/ s.nonLookBackStarted) /\ c.discardUnidirectional
  <2>1. r = ready
    BY <1>2 DEF StartOnDemand
  <2>2. IsSession(ready) /\ ready.out = s.out /\ \A f \in Core : f # "startWhenS2" => ready[f] = s[f]
    BY DEF Mid, IsSession, Core
  <2>3. ready.startWhenS2
    BY DEF Mid, IsSession, Core
  <2> HIDE DEF ready, r
  <2>4. Started(c, ready, n)
    BY <1>2, <2>2, <2>3 DEF Mid, Started, Sided, Enough, Core
  <2>5. QED
    BY <1>2, <2>1, <2>2, <2>3, <2>4 DEF Mid, Ready, Counted, Core, r
<1>3. CASE ~(c.lookBack \/ s.numRtp > 0 \/ s.nonLookBackStarted) /\ ~c.discardUnidirectional
  <2>1. r = begun
    BY <1>3 DEF StartOnDemand
  <2>2. /\ IsSession(begun) /\ IsSeq(begun.out) /\ begun.started
        /\ b + Starting(begun.out) = n + 1
        /\ \A f \in Core : f # "started" => begun[f] = s[f]
    <3>1. IsSession(s) /\ IsSeq(s.out) /\ b \in Nat
      BY DEF Mid
    <3>2. /\ IsSession(begun) /\ IsSeq(begun.out) /\ begun.started
          /\ Starting(s.out) \in Nat /\ Starting(begun.out) = Starting(s.out) + 1
          /\ \A f \in Core : f # "started" => begun[f] = s[f]
      BY <3>1, BeginMid
    <3> HIDE DEF begun
    <3>3. QED
      BY <3>1, <3>2
  <2>3. s.protocol = "RawRtp"
    BY <1>3 DEF Ready
  <2> HIDE DEF begun, r
  <2>4. /\ begun.started /\ begun.numRtp = s.numRtp /\ begun.numIgnored = s.numIgnored
        /\ begun.protocol = s.protocol /\ begun.last1 = s.last1 /\ begun.last2 = s.last2
    BY <2>2 DEF Core
  <2>5. Started(c, begun, n + 1)
    BY <1>3, <2>3, <2>4 DEF Mid, Started, Sided, Enough
  <2>6. QED
    BY <1>3, <2>1, <2>2, <2>3, <2>4, <2>5 DEF Mid, Ready, Counted, r
<1>4. QED
  BY <1>1, <1>2, <1>3

\* A session that starts with its second side.
LEMMA BeginWithS2Mid ==
  ASSUME NEW c, NEW s, NEW b, NEW time, IsSession(s), IsSeq(s.out), b \in Nat
  PROVE  LET r == BeginWithS2(c, s, time)
         IN /\ IsSession(r) /\ IsSeq(r.out) /\ r.started
            /\ b + Starting(r.out) = b + Starting(s.out) + 1
            /\ r.nonLookBackStarted <=> (s.nonLookBackStarted \/ ~c.lookBack)
            /\ \A f \in Core : f \notin {"started", "nonLookBackStarted"} => r[f] = s[f]
<1> DEFINE q == Begin(c, s, time)
           r == BeginWithS2(c, s, time)
<1>1. /\ IsSession(q) /\ IsSeq(q.out) /\ q.started
      /\ Starting(s.out) \in Nat /\ Starting(q.out) = Starting(s.out) + 1
      /\ \A f \in Core : f # "started" => q[f] = s[f]
  BY BeginMid
<1>2. r = [q EXCEPT !.nonLookBackStarted = @ \/ ~c.lookBack]
  BY DEF BeginWithS2
<1> HIDE DEF q, r
<1>3. /\ IsSession(r) /\ r.out = q.out
      /\ r.nonLookBackStarted <=> (q.nonLookBackStarted \/ ~c.lookBack)
      /\ \A f \in Core : f # "nonLookBackStarted" => r[f] = q[f]
  BY <1>1, <1>2 DEF IsSession, Core
<1>4. q.nonLookBackStarted = s.nonLookBackStarted
  BY <1>1 DEF Core
<1>5. \A f \in Core : f \notin {"started", "nonLookBackStarted"} => r[f] = s[f]
  BY <1>1, <1>3 DEF Core
<1>6. r.started
  BY <1>1, <1>3 DEF Core
<1>7. QED
  BY <1>1, <1>3, <1>4, <1>5, <1>6 DEF r

\* OrkSession::DetectChannel.
LEMMA DetectChannelMid ==
  ASSUME NEW c, NEW s, NEW b, NEW p, Mid(c, s, b), Counted(c, s), Ready(c, s), p # NoPacket,
         c.s2Activity => c.discardUnidirectional
  PROVE  LET d == DetectChannel(c, s, p)
         IN /\ Mid(c, d.s, b) /\ Ready(c, d.s)
            /\ d.s.last1 # NoPacket /\ d.channel \in 0..2
            /\ d.first => d.channel # 0
            /\ ~d.first => Counted(c, d.s)
            /\ ~d.first /\ d.channel # 1 => d.s.last2 # NoPacket
            /\ d.s.numRtp = s.numRtp
<1> DEFINE first == s.last1 = NoPacket \/ (s.last2 = NoPacket /\ ~SameStream(p, s.last1))
      channel == IF s.last1 = NoPacket \/ SameStream(p, s.last1) THEN 1
                 ELSE IF s.last2 = NoPacket \/ SameStream(p, s.last2) THEN 2 ELSE 0
      begins == channel = 2
                /\ IF first THEN ~c.s2Activity /\ c.discardUnidirectional /\ s.startWhenS2
                   ELSE ~s.started /\ c.s2Activity /\ p.loudness = "loud"
      seen == CASE first /\ channel = 1 -> [s EXCEPT !.last1 = p]
                [] first /\ channel = 2 -> [s EXCEPT !.last2 = p]
                [] OTHER -> s
      d == DetectChannel(c, s, p)
      begun == BeginWithS2(c, seen, p.at)
      n == b + Starting(s.out)
<1>1. d = [s |-> IF begins THEN begun ELSE seen, channel |-> channel, first |-> first]
  BY DEF DetectChannel
<1>2. /\ channel \in 0..2 /\ (first => channel # 0)
      /\ first /\ channel = 1 => s.last1 = NoPacket /\ s.last2 = NoPacket
      /\ first /\ channel = 2 => s.last1 # NoPacket /\ s.last2 = NoPacket
      /\ ~first => s.last1 # NoPacket
      /\ ~first /\ channel # 1 => s.last2 # NoPacket
  BY DEF Mid, Started, Sided
<1>3. /\ IsSession(seen) /\ seen.out = s.out
      /\ \A f \in Core \ {"last1", "last2"} : seen[f] = s[f]
      /\ seen.last1 = IF first /\ channel = 1 THEN p ELSE s.last1
      /\ seen.last2 = IF first /\ channel = 2 THEN p ELSE s.last2
  <2> HIDE DEF first, channel
  <2>1. QED
    BY DEF Mid, IsSession, Core
<1>4. /\ begins => channel = 2
      /\ begins /\ first => ~c.s2Activity /\ c.discardUnidirectional /\ s.startWhenS2
      /\ begins /\ ~first => ~s.started /\ c.s2Activity
      /\ first /\ channel = 2 /\ ~c.s2Activity /\ c.discardUnidirectional /\ s.startWhenS2 => begins
  OBVIOUS
<1> HIDE DEF begins, channel, first, seen
<1>5. /\ seen.numRtp = s.numRtp /\ seen.numIgnored = s.numIgnored /\ seen.protocol = s.protocol
      /\ seen.started = s.started /\ seen.startWhenS2 = s.startWhenS2
      /\ seen.nonLookBackStarted = s.nonLookBackStarted
  BY <1>3 DEF Core
<1>6. ~begins => Mid(c, seen, b) /\ Ready(c, seen)
  <2>1. SUFFICES ASSUME ~begins PROVE Mid(c, seen, b) /\ Ready(c, seen)
    OBVIOUS
  <2>2. Ready(c, seen)
    BY <1>5 DEF Ready
  <2>3. Started(c, seen, n)
    <3>1. CASE first /\ channel = 2
      <4>1. ~Sided(s) /\ Sided(seen) /\ s.last1 # NoPacket /\ seen.last1 = s.last1
        BY <3>1, <1>2, <1>3 DEF Sided
      <4>2. QED
        BY <2>1, <3>1, <4>1, <1>4, <1>5 DEF Mid, Started, Enough, Ready, Counted
    <3>2. CASE ~(first /\ channel = 2)
      <4>1. Sided(seen) <=> Sided(s)
        BY <3>2, <1>3 DEF Sided
      <4>2. seen.last1 = NoPacket => s.last1 = NoPacket
        BY <3>2, <1>3
      <4>3. QED
        BY <4>1, <4>2, <1>5 DEF Mid, Started, Enough
    <3>3. QED
      BY <3>1, <3>2
  <2>4. QED
    BY <2>2, <2>3, <1>3 DEF Mid
<1>7. begins => Mid(c, begun, b) /\ Ready(c, begun)
  <2>1. SUFFICES ASSUME begins PROVE Mid(c, begun, b) /\ Ready(c, begun)
    OBVIOUS
  <2>2. /\ IsSession(begun) /\ IsSeq(begun.out) /\ begun.started
        /\ b + Starting(begun.out) = n + 1
        /\ begun.nonLookBackStarted <=> (seen.nonLookBackStarted \/ ~c.lookBack)
        /\ \A f \in Core : f \notin {"started", "nonLookBackStarted"} => begun[f] = seen[f]
    BY <1>3, BeginWithS2Mid DEF Mid
  <2> HIDE DEF begun
  <2>3. /\ begun.numRtp = s.numRtp /\ begun.numIgnored = s.numIgnored /\ begun.protocol = s.protocol
        /\ begun.startWhenS2 = s.startWhenS2 /\ begun.last1 = seen.last1 /\ begun.last2 = seen.last2
    BY <1>5, <2>2 DEF Core
  <2>4. Sided(begun) /\ begun.last1 # NoPacket
    BY <2>1, <2>3, <1>2, <1>3, <1>4 DEF Sided
  <2>5. (c.discardUnidirectional /\ ~Sided(s) /\ ~c.s2Activity) \/ (c.s2Activity /\ ~s.started)
    BY <2>1, <1>2, <1>4 DEF Sided
  <2>6. Started(c, begun, n + 1)
    BY <2>2, <2>3, <2>4, <2>5, <1>5 DEF Mid, Started, Enough
  <2>7. Ready(c, begun)
    BY <2>2, <2>3, <1>5 DEF Ready
  <2>8. QED
    BY <2>2, <2>6, <2>7 DEF Mid
<1>8. begins => begun.last1 = seen.last1 /\ begun.last2 = seen.last2 /\ begun.numRtp = seen.numRtp
               /\ begun.numIgnored = seen.numIgnored
  <2>1. IsSession(seen) /\ IsSeq(seen.out) /\ b \in Nat
    BY <1>3 DEF Mid
  <2>2. \A f \in Core : f \notin {"started", "nonLookBackStarted"} => begun[f] = seen[f]
    BY <2>1, BeginWithS2Mid
  <2>3. QED
    BY <2>2 DEF Core
<1> HIDE DEF begun, d
<1>9. /\ begins => d.s = begun
      /\ ~begins => d.s = seen
      /\ d.channel = channel /\ d.first = first
  BY <1>1
<1>13. d.s.last1 = seen.last1 /\ d.s.last2 = seen.last2 /\ d.s.numRtp = s.numRtp
      /\ d.s.numIgnored = s.numIgnored
  BY <1>5, <1>8, <1>9
<1>14. seen.last1 # NoPacket /\ (~first /\ channel # 1 => seen.last2 # NoPacket)
  BY <1>2, <1>3
<1>10. ~first => Counted(c, d.s)
  <2>1. ~first => seen.last1 = s.last1
    BY <1>3
  <2>2. QED
    BY <2>1, <1>13 DEF Counted
<1>11. Mid(c, d.s, b) /\ Ready(c, d.s)
  BY <1>6, <1>7, <1>9
<1>12. QED
  BY <1>2, <1>9, <1>10, <1>11, <1>13, <1>14 DEF d

\* What the steps of the handler pass on.
IsResult(r) == {"s", "channel", "ok"} \subseteq DOMAIN r /\ r.channel \in 0..2

\* A foreign packet that is counted starts nothing ...
LEMMA CandidateSteady ==
  ASSUME NEW s, NEW p, IsSession(s)
  PROVE  Steady(Candidate(s, p), s)
  BY DEF Candidate, Steady, IsSession, Core

\* ... nor one that replaces a side ...
LEMMA ReplaceSteady ==
  ASSUME NEW s, NEW p, IsSession(s), p # NoPacket, s.last1 # NoPacket, s.last2 # NoPacket
  PROVE  IsResult(Replace(s, p)) /\ Steady(Replace(s, p).s, s)
<1> DEFINE first == [s EXCEPT !.alien1 = 0, !.last1 = p, !.candidate = "none", !.mapped = FALSE]
           second == [s EXCEPT !.alien2 = 0, !.last2 = p, !.candidate = "none", !.mapped = FALSE]
<1>1. Replace(s, p) \in {On(1, first), On(2, second), On(0, s)}
  BY DEF Replace
<1>2. Steady(first, s) /\ Steady(second, s) /\ Steady(s, s)
  BY DEF Steady, IsSession, Core
<1> HIDE DEF first, second
<1>3. QED
  BY <1>1, <1>2 DEF On, IsResult

\* ... nor one of a side that is known.
LEMMA EstablishedSteady ==
  ASSUME NEW c, NEW s, NEW p, NEW channel \in {1, 2}, IsSession(s), p # NoPacket, s.last1 # NoPacket,
         channel = 2 => s.last2 # NoPacket
  PROVE  IsResult(Established(c, s, p, channel)) /\ Steady(Established(c, s, p, channel).s, s)
<1> DEFINE before == IF channel = 1 THEN s.last1 ELSE s.last2
           heard == IF channel = 1 THEN [s EXCEPT !.last1 = p, !.alien1 = 0]
                    ELSE [s EXCEPT !.last2 = p, !.alien2 = 0]
           other == p.ts # before.ts /\ Discontinuous(c, p, before)
<1>1. Established(c, s, p, channel) =
        CASE p.ts = before.ts -> On(0, s)
          [] other -> [On(0, s) EXCEPT !.ok = FALSE]
          [] OTHER -> On(channel, heard)
  BY DEF Established
<1>2. Steady(heard, s) /\ Steady(s, s)
  BY DEF Steady, IsSession, Core
<1> HIDE DEF heard, before, other
<1>3. QED
  BY <1>1, <1>2 DEF On, IsResult

\* A packet on a channel: the session knows the same sides, or one less.
LEMMA ChannelSteady ==
  ASSUME NEW c, NEW d, NEW p, IsSession(d.s), p # NoPacket, d.s.last1 # NoPacket,
         d.channel \in 0..2, ~d.first /\ d.channel # 1 => d.s.last2 # NoPacket,
         d.first => d.channel # 0
  PROVE  /\ IsResult(Channel(c, d, p)) /\ Steady(Channel(c, d, p).s, d.s)
         /\ d.first => Channel(c, d, p).channel # 0
<1> DEFINE q == Candidate(d.s, p)
<1>1. CASE d.channel = 0
  <2>1. Steady(q, d.s)
    BY CandidateSteady
  <2>2. IsSession(q) /\ q.last1 # NoPacket /\ q.last2 # NoPacket
    BY <1>1, <2>1 DEF Steady
  <2>3. Channel(c, d, p) = Replace(q, p)
    BY <1>1 DEF Channel
  <2> HIDE DEF q
  <2>4. IsResult(Replace(q, p)) /\ Steady(Replace(q, p).s, q)
    BY <2>2, ReplaceSteady
  <2>5. Steady(Replace(q, p).s, d.s)
    BY <2>1, <2>4 DEF Steady
  <2>6. QED
    BY <1>1, <2>3, <2>4, <2>5
<1>2. CASE d.channel # 0 /\ d.first
  <2>1. Channel(c, d, p) = On(d.channel, d.s)
    BY <1>2 DEF Channel
  <2>2. QED
    BY <1>2, <2>1 DEF On, IsResult, Steady
<1>3. CASE d.channel # 0 /\ ~d.first
  <2>1. Channel(c, d, p) = Established(c, d.s, p, d.channel)
    BY <1>3 DEF Channel
  <2>2. d.channel \in {1, 2}
    BY <1>3
  <2>3. QED
    BY <1>3, <2>1, <2>2, EstablishedSteady
<1>4. QED
  BY <1>1, <1>2, <1>3

\* Sides that are swapped are still two.
LEMMA MapSidesSteady ==
  ASSUME NEW c, NEW r, NEW s, IsResult(r), IsSession(r.s)
  PROVE  /\ IsResult(MapSides(c, r)) /\ Steady(MapSides(c, r).s, r.s)
         /\ MapSides(c, r).channel = 0 <=> r.channel = 0
<1> DEFINE mapped == [r EXCEPT !.s.mapped = TRUE]
           swapped == [mapped EXCEPT !.s.last1 = r.s.last2, !.s.last2 = r.s.last1, !.channel = 3 - @]
<1>1. /\ mapped.s = [r.s EXCEPT !.mapped = TRUE] /\ mapped.channel = r.channel
      /\ {"s", "channel", "ok"} \subseteq DOMAIN mapped
  BY DEF IsResult
<1>2. /\ swapped.s = [mapped.s EXCEPT !.last1 = r.s.last2, !.last2 = r.s.last1]
      /\ swapped.channel = 3 - r.channel
      /\ {"s", "channel", "ok"} \subseteq DOMAIN swapped
  <2> HIDE DEF mapped
  <2> QED BY <1>1
<1>3. IsSession(mapped.s) /\ mapped.s.out = r.s.out /\ \A f \in Core : mapped.s[f] = r.s[f]
  BY <1>1 DEF IsSession, Core
<1>4. Steady(mapped.s, r.s) /\ Steady(r.s, r.s)
  BY <1>3 DEF Steady, Core
<1>5. MapSides(c, r) \in {r, mapped, swapped}
  BY DEF MapSides
<1>6. \/ MapSides(c, r) \in {r, mapped}
      \/ MapSides(c, r) = swapped /\ r.channel # 0 /\ r.s.last1 # NoPacket /\ r.s.last2 # NoPacket
  BY DEF MapSides
<1>7. r.s.last1 # NoPacket /\ r.s.last2 # NoPacket => Steady(swapped.s, r.s)
  <2> HIDE DEF mapped, swapped
  <2>1. \A f \in Core \ {"last1", "last2"} : swapped.s[f] = mapped.s[f]
    BY <1>2, <1>3 DEF IsSession, Core
  <2>2. IsSession(swapped.s) /\ swapped.s.out = r.s.out
        /\ swapped.s.last1 = r.s.last2 /\ swapped.s.last2 = r.s.last1
    BY <1>2, <1>3 DEF IsSession, Core
  <2>3. \A f \in Core \ {"last", "last1", "last2", "alien1", "alien2"} : swapped.s[f] = r.s[f]
    BY <2>1, <1>3
  <2>4. QED
    BY <2>2, <2>3 DEF Steady
<1> HIDE DEF mapped, swapped
<1>8. IsResult(mapped) /\ IsResult(r)
  BY <1>1 DEF IsResult
<1>9. r.channel # 0 => IsResult(swapped) /\ swapped.channel # 0
  BY <1>2 DEF IsResult
<1>10. QED
  BY <1>1, <1>4, <1>5, <1>6, <1>7, <1>8, <1>9

\* A chunk is not a start.
LEMMA RecordMid ==
  ASSUME NEW c, NEW s, NEW b, NEW p, NEW channel, Mid(c, s, b)
  PROVE  LET r == Record(s, p, channel)
         IN /\ Mid(c, r, b)
            /\ Ready(c, s) => Ready(c, r)
            /\ Counted(c, s) => Counted(c, r)
<1> DEFINE chunk == [n |-> p.n, stream |-> p.stream, channel |-> channel, loudness |-> p.loudness]
           x == [port |-> s.capturePort, chunk |-> chunk]
           t == Append(s.out, x)
           r == Record(s, p, channel)
<1>1. CASE ~s.started
  BY <1>1 DEF Record
<1>2. CASE s.started
  <2>1. r = [s EXCEPT !.out = t]
    BY <1>2 DEF Record
  <2>2. ~IsStart(x)
    BY DEF IsStart
  <2> HIDE DEF x, r
  <2>3. /\ IsSeq(t) /\ Len(t) = Len(s.out) + 1 /\ t[Len(s.out) + 1] = x
        /\ \A i \in 1..Len(s.out) : t[i] = s.out[i]
    BY AppendSeq DEF Mid
  <2>4. Len(s.out) \in Nat
    BY SeqLen DEF Mid
  <2> HIDE DEF t
  <2>5. Extends(t, s.out) /\ NotStarting(t, s.out)
    BY <2>2, <2>3, <2>4 DEF Extends, NotStarting
  <2>6. Starting(t) = Starting(s.out)
    BY <2>5, StartingSame DEF Mid
  <2>7. IsSession(r) /\ r.out = t /\ \A f \in Core : r[f] = s[f]
    BY <2>1 DEF Mid, IsSession, Core
  <2>8. Started(c, r, b + Starting(t))
    BY <2>6, <2>7 DEF Mid, Started, Sided, Enough, Core
  <2>9. QED
    BY <2>3, <2>7, <2>8 DEF Mid, Ready, Counted, Core, r
<1>3. QED
  BY <1>1, <1>2

\* A packet that counts, with its new addresses.
LEMMA RelocateAdds ==
  ASSUME NEW c, NEW s, NEW p, IsSession(s), IsSeq(s.out)
  PROVE  LET r == Relocate(c, s, p)
         IN /\ IsSession(r) /\ Adds(r.out, s.out, 0) /\ r.numRtp = s.numRtp + 1
            /\ \A f \in Core : f # "numRtp" => r[f] = s[f]
<1> DEFINE q == [s EXCEPT !.numRtp = @ + 1, !.lastUpdated = p.at,
                     !.addresses = @ \cup {p.src, p.dst}]
           new == UpdateMetadataSipOnRtpChange(c, q, p, p.dst \in s.addresses)
           r == Relocate(c, s, p)
<1>1. r \in {q, new}
  BY DEF Relocate
<1>2. IsSession(q) /\ q.out = s.out /\ q.numRtp = s.numRtp + 1 /\ \A f \in Core : f # "numRtp" => q[f] = s[f]
  BY DEF IsSession, Core
<1> HIDE DEF q, r
<1>3. Quiet(new, q) /\ Quiet(q, q)
  BY <1>2, RtpChangeQuiet, QuietSelf DEF Same
<1> HIDE DEF new
<1>4. Quiet(r, q)
  BY <1>1, <1>3
<1>5. IsSession(r) /\ Adds(r.out, s.out, 0) /\ \A f \in Core : r[f] = q[f]
  BY <1>2, <1>4 DEF Quiet, Same
<1>6. QED
  BY <1>2, <1>5 DEF Core, r

\* A packet that counts, and the start it may lead to.
LEMMA CountsMid ==
  ASSUME NEW c, NEW s, NEW b, NEW p, NEW time, Mid(c, s, b), Ready(c, s)
  PROVE  LET z == StartOnEnough(c, Relocate(c, s, p), time)
         IN Mid(c, z, b) /\ Ready(c, z) /\ Counted(c, z)
<1> DEFINE q == Relocate(c, s, p)
           z == StartOnEnough(c, q, time)
           n == b + Starting(s.out)
           ready == [q EXCEPT !.startWhenS2 = TRUE]
           begun == Begin(c, q, time)
<1>1. /\ IsSession(q) /\ Adds(q.out, s.out, 0) /\ q.numRtp = s.numRtp + 1
      /\ \A f \in Core : f # "numRtp" => q[f] = s[f]
  BY RelocateAdds DEF Mid
<1> HIDE DEF q
<1>2. IsSeq(q.out) /\ b + Starting(q.out) = n /\ b \in Nat /\ n \in Nat
  BY <1>1, StartingNat DEF Mid, Adds, Extends
<1>3. /\ q.started = s.started /\ q.numIgnored = s.numIgnored /\ q.protocol = s.protocol
      /\ q.last1 = s.last1 /\ q.last2 = s.last2 /\ q.startWhenS2 = s.startWhenS2
      /\ q.nonLookBackStarted = s.nonLookBackStarted
  BY <1>1 DEF Core
<1>4. /\ EnoughPackets(c, q) <=> q.numRtp = Enough(c, s)
      /\ Enough(c, q) = Enough(c, s)
      /\ Enough(c, s) \in Nat \ {0}
  BY <1>3, CountersAreNat DEF EnoughPackets, Enough
<1>9. q.numRtp >= 1
  BY <1>1 DEF Mid, Started
<1>5. CASE ~c.lookBack \/ ~EnoughPackets(c, q)
  <2>1. z = q
    BY <1>5 DEF StartOnEnough
  <2>2. Started(c, q, n)
    BY <1>1, <1>3, <1>4, <1>5 DEF Mid, Started, Sided
  <2>3. Mid(c, q, b) /\ Ready(c, q) /\ Counted(c, q)
    BY <1>1, <1>2, <1>3, <1>9, <2>2 DEF Mid, Ready, Counted
  <2>4. QED
    BY <2>1, <2>3 DEF z, q
<1>6. CASE c.lookBack /\ EnoughPackets(c, q) /\ c.discardUnidirectional
  <2>1. z = ready
    BY <1>6 DEF StartOnEnough
  <2>2. /\ IsSession(ready) /\ ready.out = q.out /\ ready.startWhenS2
        /\ \A f \in Core : f # "startWhenS2" => ready[f] = q[f]
    BY <1>1 DEF IsSession, Core
  <2> HIDE DEF ready, z
  <2>3. /\ ready.started = s.started /\ ready.numIgnored = s.numIgnored /\ ready.protocol = s.protocol
        /\ ready.last1 = s.last1 /\ ready.last2 = s.last2 /\ ready.numRtp = q.numRtp
        /\ ready.nonLookBackStarted = s.nonLookBackStarted
    BY <1>3, <2>2 DEF Core
  <2>4. Started(c, ready, n)
    BY <1>1, <1>4, <1>6, <2>2, <2>3 DEF Mid, Started, Sided
  <2>5. Mid(c, ready, b) /\ Ready(c, ready) /\ Counted(c, ready)
    BY <1>1, <1>2, <1>6, <1>9, <2>2, <2>3, <2>4 DEF Mid, Ready, Counted
  <2>6. QED
    BY <2>1, <2>5 DEF z, q
<1>7. CASE c.lookBack /\ EnoughPackets(c, q) /\ ~c.discardUnidirectional
  <2>1. z = begun
    BY <1>7 DEF StartOnEnough
  <2>2. /\ IsSession(begun) /\ IsSeq(begun.out) /\ begun.started
        /\ b + Starting(begun.out) = n + 1
        /\ \A f \in Core : f # "started" => begun[f] = q[f]
    BY <1>1, <1>2, BeginMid
  <2> HIDE DEF begun, z
  <2>3. /\ begun.numIgnored = s.numIgnored /\ begun.protocol = s.protocol
        /\ begun.last1 = s.last1 /\ begun.last2 = s.last2 /\ begun.numRtp = q.numRtp
    BY <1>3, <2>2 DEF Core
  <2>4. Enough(c, begun) = Enough(c, s)
    BY <2>3 DEF Enough
  <2>5. s.numRtp \in Nat /\ n = 0
    BY <1>1, <1>4, <1>7 DEF Mid, Started
  <2>6. Started(c, begun, n + 1)
    BY <1>1, <1>4, <1>7, <2>2, <2>3, <2>4, <2>5 DEF Mid, Started, Sided
  <2>7. Mid(c, begun, b) /\ Ready(c, begun) /\ Counted(c, begun)
    BY <1>1, <1>2, <1>7, <1>9, <2>2, <2>3, <2>6 DEF Mid, Ready, Counted
  <2>8. QED
    BY <2>1, <2>7 DEF z, q
<1>8. QED
  BY <1>5, <1>6, <1>7

\* Between two packets.
At(c, s, b) == Mid(c, s, b) /\ Ready(c, s) /\ Counted(c, s)

\* A packet that counts, from the invariant in the middle of a step ...
LEMMA CountAt ==
  ASSUME NEW c, NEW r, NEW b, NEW p, IsResult(r), Mid(c, r.s, b), Ready(c, r.s),
         r.channel = 0 => Counted(c, r.s)
  PROVE  At(c, Count(c, r, p).s, b)
<1> DEFINE z == StartOnEnough(c, Relocate(c, r.s, p), p.at)
<1>1. r.channel # 0 => Count(c, r, p).s = Record(z, p, r.channel)
  BY DEF Count, On
<1>2. r.channel = 0 => Count(c, r, p) = r
  BY DEF Count
<1>3. Mid(c, z, b) /\ Ready(c, z) /\ Counted(c, z)
  BY CountsMid
<1> HIDE DEF z
<1>4. At(c, Record(z, p, r.channel), b)
  BY <1>3, RecordMid DEF At
<1>5. QED
  BY <1>1, <1>2, <1>4 DEF At

\* ... one that is kept ...
LEMMA KeepAt ==
  ASSUME NEW c, NEW s, NEW b, NEW p, At(c, s, b), p # NoPacket,
         c.s2Activity => c.discardUnidirectional
  PROVE  At(c, Keep(c, s, p).s, b)
<1> DEFINE woken == WakeUp(c, s, p)
           awake == [woken EXCEPT !.last = p]
           d == DetectChannel(c, awake, p)
           r == Channel(c, d, p)
           m == MapSides(c, r)
<1>1. CASE Dismissed(s, p)
  BY <1>1 DEF Keep, On
<1>2. CASE ~Dismissed(s, p)
  <2>1. Keep(c, s, p) = Count(c, m, p)
    BY <1>2 DEF Keep
  <2>2. IsSession(s) /\ IsSeq(s.out)
    BY DEF At, Mid
  <2>3. Quiet(woken, s)
    <3>1. woken \in {s, GoOffHold(c, s, p.at)}
      BY DEF WakeUp
    <3>2. Quiet(s, s)
      BY <2>2, QuietSelf DEF Same
    <3>3. QED
      BY <2>2, <3>1, <3>2, GoOffHoldQuiet
  <2> HIDE DEF woken
  <2>4. Mid(c, woken, b) /\ Ready(c, woken) /\ Counted(c, woken)
    BY <2>3, SameMid DEF At
  <2>5. Steady(awake, woken)
    BY <2>4 DEF Mid, Steady, IsSession, Core
  <2> HIDE DEF awake
  <2>6. Mid(c, awake, b) /\ Ready(c, awake) /\ Counted(c, awake)
    BY <2>4, <2>5, SteadyMid
  <2>7. /\ Mid(c, d.s, b) /\ Ready(c, d.s)
        /\ d.s.last1 # NoPacket /\ d.channel \in 0..2
        /\ d.first => d.channel # 0
        /\ ~d.first => Counted(c, d.s)
        /\ ~d.first /\ d.channel # 1 => d.s.last2 # NoPacket
    BY <2>6, DetectChannelMid
  <2> HIDE DEF d
  <2>8. /\ IsResult(r) /\ Steady(r.s, d.s)
        /\ d.first => r.channel # 0
    BY <2>7, ChannelSteady DEF Mid
  <2> HIDE DEF r
  <2>9. /\ IsResult(m) /\ Steady(m.s, r.s)
        /\ m.channel = 0 <=> r.channel = 0
    BY <2>8, MapSidesSteady DEF Steady
  <2> HIDE DEF m
  <2>10. Mid(c, r.s, b) /\ Ready(c, r.s) /\ (~d.first => Counted(c, r.s))
    BY <2>7, <2>8, SteadyMid
  <2>11. Mid(c, m.s, b) /\ Ready(c, m.s) /\ (~d.first => Counted(c, m.s))
    BY <2>9, <2>10, SteadyMid
  <2>12. m.channel = 0 => Counted(c, m.s)
    BY <2>8, <2>9, <2>11
  <2>13. QED
    BY <2>1, <2>9, <2>11, <2>12, CountAt
<1>3. QED
  BY <1>1, <1>2

\* ... one that is ignored ...
LEMMA IgnoreAt ==
  ASSUME NEW c, NEW s, NEW b, NEW p, At(c, s, b), p # NoPacket,
         c.s2Activity => c.discardUnidirectional
  PROVE  At(c, Ignore(c, s, p), b)
<1> DEFINE d == DetectChannel(c, s, p)
           seen == IF s.nonLookBackStarted THEN s ELSE d.s
           r == [seen EXCEPT !.lastUpdated = p.at, !.numIgnored = @ + 1]
<1>1. Ignore(c, s, p) = r
  BY DEF Ignore
<1>2. Mid(c, d.s, b) /\ Ready(c, d.s)
  BY DetectChannelMid DEF At
<1> HIDE DEF d
<1>3. Mid(c, seen, b) /\ Ready(c, seen)
  BY <1>2 DEF At
<1> HIDE DEF seen
<1>4. /\ IsSession(r) /\ r.out = seen.out /\ r.numIgnored = seen.numIgnored + 1
      /\ r.started = seen.started /\ r.numRtp = seen.numRtp /\ r.protocol = seen.protocol
      /\ r.last1 = seen.last1 /\ r.last2 = seen.last2 /\ r.startWhenS2 = seen.startWhenS2
      /\ r.nonLookBackStarted = seen.nonLookBackStarted
  BY <1>3 DEF Mid, IsSession, Core
<1> HIDE DEF r
<1>5. Started(c, r, b + Starting(r.out))
  BY <1>3, <1>4 DEF Mid, Started, Sided, Enough
<1>6. seen.numIgnored \in Nat
  BY <1>3 DEF Mid, Started
<1>7. QED
  BY <1>1, <1>3, <1>4, <1>5, <1>6 DEF At, Mid, Ready, Counted

\* ... and either, after DTMF was looked at.
LEMMA TakePacketAt ==
  ASSUME NEW c, NEW s, NEW b, NEW p, At(c, s, b), p # NoPacket,
         c.s2Activity => c.discardUnidirectional
  PROVE  At(c, TakePacket(c, s, p).s, b)
<1> DEFINE q == StartOnDemand(c, s, p.at)
<1>1. TakePacket(c, s, p).s \in {s, HandleRtpEvent(c, s, p), Keep(c, q, p).s, Ignore(c, s, p)}
  BY DEF TakePacket, On
<1>2. IsSession(s) /\ IsSeq(s.out)
  BY DEF At, Mid
<1>3. At(c, HandleRtpEvent(c, s, p), b)
  BY <1>2, HandleRtpEventQuiet, SameMid DEF At
<1>4. At(c, q, b)
  BY StartOnDemandMid DEF At
<1> HIDE DEF q
<1>5. At(c, Keep(c, q, p).s, b) /\ At(c, Ignore(c, s, p), b)
  BY <1>4, KeepAt, IgnoreAt
<1>6. QED
  BY <1>1, <1>3, <1>5

\* A packet preserves the invariant of its session.
LEMMA AddRtpPacketStarts ==
  ASSUME NEW c, NEW s, NEW b, NEW p, IsSession(s), IsSeq(s.out), b \in Nat,
         StartInv(c, s, b + Starting(s.out)), p # NoPacket,
         c.s2Activity => c.discardUnidirectional
  PROVE  LET r == AddRtpPacket(c, s, p).s
         IN /\ IsSession(r) /\ IsSeq(r.out)
            /\ StartInv(c, r, b + Starting(r.out))
<1> DEFINE q == ProcessMetadata(c, s, p)
           z == StartOnSight(c, q, p.at)
           r == AddRtpPacket(c, s, p).s
<1>1. /\ IsSession(q) /\ q.out = s.out
      /\ \A f \in Core : f # "metadataProcessed" => q[f] = s[f]
  BY ProcessMetadataSame
<1> HIDE DEF q
<1>2. /\ q.started = s.started /\ q.numRtp = s.numRtp /\ q.numIgnored = s.numIgnored
      /\ q.protocol = s.protocol /\ q.last1 = s.last1 /\ q.last2 = s.last2
      /\ q.startWhenS2 = s.startWhenS2 /\ q.nonLookBackStarted = s.nonLookBackStarted
  BY <1>1 DEF Core
<1>3. Mid(c, q, b) /\ Counted(c, q)
  BY <1>1, <1>2 DEF StartInv, Mid, Started, Sided, Enough, Counted
<1>4. At(c, z, b)
  BY <1>3, StartOnSightMid DEF At
<1>5. r = TakePacket(c, z, p).s
  BY DEF AddRtpPacket, q
<1> HIDE DEF z, r
<1>6. At(c, r, b)
  BY <1>4, <1>5, TakePacketAt
<1>7. QED
  BY <1>6 DEF At, Mid, StartInv, r

-----------------------------------------------------------------------------
(* Starts: the calls                                                       *)

\* A session at rest that was started n times.
Resting(c, s, n) ==
  IsSession(s) /\ s.out = << >> /\ StartInv(c, s, n)

\* The invariant of the calls.
StartsInv == scenario \in Scenarios /\ Resting(scenario, session, starts)

\* A session at rest has no call-backs to make.
LEMMA NoCallBacks ==
  ASSUME NEW q, q = << >>
  PROVE  IsSeq(q) /\ Starting(q) = 0 /\ IsFiniteSet(DOMAIN q)
<1>1. q \in Seq({}) /\ DOMAIN q = {}
  OBVIOUS
<1>2. IsSeq(q)
  BY <1>1 DEF IsSeq
<1>3. {i \in DOMAIN q : IsStart(q[i])} = {}
  BY <1>1
<1>4. Starting(q) = 0
  BY <1>3, FS_EmptySet DEF Starting
<1>5. QED
  BY <1>1, <1>2, <1>4, FS_EmptySet

\* After the call-backs have been made.
LEMMA RestsAfter ==
  ASSUME NEW c, NEW s, NEW n, IsSession(s), StartInv(c, s, n)
  PROVE  Resting(c, [s EXCEPT !.out = << >>], n)
<1> DEFINE r == [s EXCEPT !.out = << >>]
<1>1. IsSession(r) /\ r.out = << >> /\ \A f \in Core : r[f] = s[f]
  BY DEF IsSession, Core
<1> HIDE DEF r
<1>2. /\ r.started = s.started /\ r.numRtp = s.numRtp /\ r.numIgnored = s.numIgnored
      /\ r.protocol = s.protocol /\ r.last1 = s.last1 /\ r.last2 = s.last2
      /\ r.startWhenS2 = s.startWhenS2 /\ r.nonLookBackStarted = s.nonLookBackStarted
      /\ r.metadataProcessed = s.metadataProcessed
  BY <1>1 DEF Core
<1>3. StartInv(c, r, n)
  BY <1>2 DEF StartInv, Started, Sided, Enough, Ready, Counted
<1>4. QED
  BY <1>1, <1>3 DEF Resting, r

\* A session that tells something, but not that it starts.
LEMMA RestsQuietly ==
  ASSUME NEW c, NEW s, NEW r, NEW n, IsSession(s), StartInv(c, s, n), Quiet(r, s)
  PROVE  StartInv(c, r, n) /\ IsSession(r)
<1>1. IsSession(r) /\ \A f \in Core : r[f] = s[f]
  BY DEF Quiet, Same
<1>2. /\ r.started = s.started /\ r.numRtp = s.numRtp /\ r.numIgnored = s.numIgnored
      /\ r.protocol = s.protocol /\ r.last1 = s.last1 /\ r.last2 = s.last2
      /\ r.startWhenS2 = s.startWhenS2 /\ r.nonLookBackStarted = s.nonLookBackStarted
      /\ r.metadataProcessed = s.metadataProcessed
  BY <1>1 DEF Core
<1>3. QED
  BY <1>1, <1>2 DEF StartInv, Started, Sided, Enough, Ready, Counted

\* A new session was not started.
LEMMA NewSessionRests ==
  ASSUME NEW c, NEW id, NEW protocol \in {"Sip", "Skinny", "RawRtp"}, NEW time
  PROVE  /\ Resting(c, NewSession(c, id, protocol, time), 0)
         /\ NewSession(c, id, protocol, time).protocol = protocol
<1> DEFINE s == NewSession(c, id, protocol, time)
<1>1. /\ Core \cup {"out", "tags"} \subseteq DOMAIN s /\ s.tags = << >> /\ s.out = << >>
      /\ s.protocol = protocol /\ s.started = FALSE /\ s.numRtp = 0 /\ s.numIgnored = 0
      /\ s.last1 = NoPacket /\ s.last2 = NoPacket
      /\ s.nonLookBackStarted = FALSE /\ s.metadataProcessed = FALSE
  BY DEF NewSession, Core
<1> HIDE DEF s
<1>2. IsSession(s)
  BY <1>1, NoCallBacks DEF IsSession
<1>3. Enough(c, s) \in Nat \ {0}
  BY <1>1, CountersAreNat DEF Enough
<1>4. Started(c, s, 0)
  BY <1>1, <1>3 DEF Started, Sided
<1>5. Counted(c, s) /\ ~s.metadataProcessed
  BY <1>1 DEF Counted
<1>6. QED
  BY <1>1, <1>2, <1>4, <1>5 DEF Resting, StartInv, s

\* A call that was signalled was not started.
LEMMA NewCallRests ==
  ASSUME NEW c \in Scenarios, NEW id, NEW time
  PROVE  Resting(c, [NewCall(c, id, time) EXCEPT !.out = << >>], 0)
<1> DEFINE s == NewSession(c, id, c.protocol, time)
           sip == [s EXCEPT !.sipDialedNumber = c.invite.sipDialedNumber, !.isCallPickUp = c.isCallPickUp]
           skinny == [s EXCEPT !.endPointIp = c.invite.receiver, !.localParty = c.invite.to,
                      !.remoteParty = c.invite.from, !.direction = "in"]
           told1 == ReportSipInvite(c, sip, c.invite)
<1>1. NewCall(c, id, time) \in {told1, skinny, s}
  BY DEF NewCall
<1>2. IsSession(s) /\ s.out = << >> /\ StartInv(c, s, 0)
  BY ScenarioTypes, NewSessionRests DEF Resting
<1> HIDE DEF s
<1>3. Same(sip, s) /\ sip.out = s.out /\ Same(skinny, s) /\ skinny.out = s.out /\ Same(s, s)
  BY <1>2 DEF Same, IsSession, Core
<1> HIDE DEF sip, skinny
<1>4. Quiet(sip, s) /\ Quiet(skinny, s) /\ Quiet(s, s) /\ IsSeq(s.out)
  BY <1>2, <1>3, NoCallBacks, QuietSelf
<1>5. Quiet(told1, sip)
  BY <1>2, <1>3, <1>4, ReportSipInviteQuiet, ScenarioTypes DEF Same
<1> HIDE DEF told1
<1>6. Quiet(told1, s)
  BY <1>4, <1>5, QuietThen
<1>7. Quiet(NewCall(c, id, time), s)
  BY <1>1, <1>4, <1>6
<1>8. QED
  BY <1>2, <1>7, RestsQuietly, RestsAfter

\* A step after which the session is s.
LEMMA BecomesResting ==
  ASSUME StartsInv, NEW s, NEW n, IsSession(s), StartInv(scenario, s, n), Becomes(s),
         scenario' = scenario, starts' = n
  PROVE  StartsInv'
  BY RestsAfter DEF Becomes, StartsInv

\* A signal.
LEMMA SignalStarts ==
  ASSUME StartsInv, NEW what, NEW s, Quiet(s, session), Signal(what, s)
  PROVE  StartsInv'
<1>1. IsSession(s) /\ StartInv(scenario, s, starts)
  BY RestsQuietly DEF StartsInv, Resting
<1>2. QED
  BY <1>1, BecomesResting DEF Signal

\* The end of a call.
LEMMA EndStarts ==
  ASSUME StartsInv, NEW s, Quiet(s, session), EndOf(s)
  PROVE  StartsInv'
<1>1. IsSession(session) /\ IsSeq(session.out)
  BY NoCallBacks DEF StartsInv, Resting
<1>2. IsSession(s) /\ IsSeq(s.out)
  BY DEF Quiet, Same, Adds, Extends
<1>3. Quiet(Stop(scenario, s), session)
  BY <1>1, <1>2, StopQuiet, QuietThen
<1>4. IsSession(Stop(scenario, s)) /\ StartInv(scenario, Stop(scenario, s), starts)
  BY <1>3, RestsQuietly DEF StartsInv, Resting
<1>5. QED
  BY <1>4, BecomesResting DEF EndOf

\* The packet that arrives, and what becomes of it: r is the outcome for the
\* session, raw the session that takes over.
Arriving(x, how, kind, loudness) ==
  LET y == Advance(how, net[x.stream])
  IN [stream |-> x.stream, src |-> x.src, dst |-> x.dst, seq |-> y.seq,
              ts |-> y.ts, at |-> now, kind |-> kind, loudness |-> loudness,
              n |-> packets + 1]
Replaced(r) == ~r.ok /\ (scenario.lookBack \/ scenario.trackRaw)
Successor == NewSession(scenario, Id(sessions + 1), "RawRtp", now)
Takes(x, how, p, r, raw) ==
  LET y == Advance(how, net[x.stream])
      replaced == Replaced(r)
  IN   /\ up /\ packets < scenario.packets
       /\ how = "again" => packets > 0
       /\ ~r.ok => sessions < Cardinality(Ids)
       /\ packets' = packets + 1
       /\ net' = [net EXCEPT ![x.stream] = y]
       /\ Becomes(IF r.ok THEN r.s
                  ELSE IF replaced THEN [raw EXCEPT !.out = Stop(scenario, r.s).out \o @]
                  ELSE Stop(scenario, r.s))
       /\ up' = (r.ok \/ replaced)
       /\ sessions' = IF replaced THEN sessions + 1 ELSE sessions
       /\ starts' = IF replaced THEN Starting(raw.out) ELSE starts + Starting(r.s.out)
       /\ silence' = IF replaced THEN [side \in Keys(scenario) |-> 0] ELSE Silence(p, session, r.s)
       /\ crossed' = (~replaced /\ (crossed \/ Crosses(session, r.s)))
       /\ UNCHANGED <<scenario, now, signals, asked>>

\* VoIpSessions::ReportRtpPacket in these terms.
LEMMA RtpPacketTakes ==
  ASSUME RtpPacket
  PROVE  \E x \in scenario.streams, how \in scenario.advances, kind \in scenario.kinds,
            loudness \in scenario.loudness :
         LET p == Arriving(x, how, kind, loudness)
             r == AddRtpPacket(scenario, session, p)
         IN Takes(x, how, p, r, IF ~Replaced(r) THEN r.s ELSE AddRtpPacket(scenario, Successor, p).s)
<1>1. PICK x \in scenario.streams, how \in scenario.advances, kind \in scenario.kinds,
           loudness \in scenario.loudness :
         \E r \in {AddRtpPacket(scenario, session, Arriving(x, how, kind, loudness))} :
         \E raw \in {IF ~Replaced(r) THEN r.s
                     ELSE AddRtpPacket(scenario, Successor, Arriving(x, how, kind, loudness)).s} :
           Takes(x, how, Arriving(x, how, kind, loudness), r, raw)
  BY Zenon DEF RtpPacket, Arriving, Replaced, Successor, Takes
<1> DEFINE p == Arriving(x, how, kind, loudness)
           r == AddRtpPacket(scenario, session, p)
<1>2. Takes(x, how, p, r, IF ~Replaced(r) THEN r.s ELSE AddRtpPacket(scenario, Successor, p).s)
  BY <1>1
<1>3. QED
  BY <1>2

\* A packet.
LEMMA RtpPacketStarts ==
  ASSUME StartsInv, RtpPacket
  PROVE  StartsInv'
<1>1. PICK x \in scenario.streams, how \in scenario.advances, kind \in scenario.kinds,
            loudness \in scenario.loudness :
         LET p == Arriving(x, how, kind, loudness)
             r == AddRtpPacket(scenario, session, p)
         IN Takes(x, how, p, r, IF ~Replaced(r) THEN r.s ELSE AddRtpPacket(scenario, Successor, p).s)
  BY RtpPacketTakes
<1> DEFINE p == Arriving(x, how, kind, loudness)
           r == AddRtpPacket(scenario, session, p)
           replaced == Replaced(r)
           new == Successor
           raw == AddRtpPacket(scenario, new, p).s
           both == [raw EXCEPT !.out = Stop(scenario, r.s).out \o @]
<1>2. p # NoPacket
  <2>1. "seq" \in DOMAIN p /\ "seq" \notin DOMAIN NoPacket
    BY DEF NoPacket, Arriving
  <2>2. QED
    BY <2>1
<1>3. /\ r.ok => Becomes(r.s) /\ starts' = starts + Starting(r.s.out)
      /\ replaced => Becomes(both) /\ starts' = Starting(raw.out)
      /\ ~r.ok /\ ~replaced => Becomes(Stop(scenario, r.s)) /\ starts' = starts + Starting(r.s.out)
      /\ replaced => ~r.ok
      /\ scenario' = scenario
  BY <1>1 DEF Takes, Replaced
<1> HIDE DEF p, replaced
<1>4. /\ IsSession(session) /\ IsSeq(session.out) /\ Starting(session.out) = 0
      /\ starts \in Nat /\ StartInv(scenario, session, starts + Starting(session.out))
      /\ scenario.s2Activity => scenario.discardUnidirectional
  <2>1. scenario \in Scenarios /\ IsSession(session) /\ session.out = << >> /\ StartInv(scenario, session, starts)
    BY DEF StartsInv, Resting
  <2>2. starts \in Nat
    BY <2>1 DEF StartInv, Started
  <2>3. starts + 0 = starts
    BY <2>2
  <2>4. QED
    BY <2>1, <2>2, <2>3, NoCallBacks, ScenarioTypes
<1>5. IsSession(r.s) /\ IsSeq(r.s.out) /\ StartInv(scenario, r.s, starts + Starting(r.s.out))
  BY <1>2, <1>4, AddRtpPacketStarts
<1>6. IsSession(raw) /\ IsSeq(raw.out) /\ StartInv(scenario, raw, Starting(raw.out))
  <2>1. IsSession(new) /\ new.out = << >> /\ StartInv(scenario, new, 0)
    BY NewSessionRests DEF Resting, Successor
  <2> HIDE DEF new
  <2>2. IsSeq(new.out) /\ StartInv(scenario, new, 0 + Starting(new.out)) /\ 0 \in Nat
    BY <2>1, NoCallBacks
  <2>3. IsSession(raw) /\ IsSeq(raw.out) /\ StartInv(scenario, raw, 0 + Starting(raw.out))
    BY <1>2, <1>4, <2>1, <2>2, AddRtpPacketStarts
  <2> HIDE DEF raw
  <2>4. Starting(raw.out) \in Nat
    BY <2>3, StartingNat
  <2>5. QED
    BY <2>3, <2>4
<1> HIDE DEF r, raw
<1>7. CASE r.ok
  BY <1>3, <1>5, <1>7, BecomesResting
<1>8. CASE ~r.ok /\ ~replaced
  <2>1. Quiet(Stop(scenario, r.s), r.s)
    BY <1>5, StopQuiet
  <2>2. IsSession(Stop(scenario, r.s)) /\ StartInv(scenario, Stop(scenario, r.s), starts + Starting(r.s.out))
    BY <1>5, <2>1, RestsQuietly
  <2>3. QED
    BY <1>3, <1>8, <2>2, BecomesResting
<1>9. CASE replaced
  <2>1. IsSession(both) /\ \A f \in Core : both[f] = raw[f]
    BY <1>6 DEF IsSession, Core
  <2> HIDE DEF both
  <2>2. /\ both.started = raw.started /\ both.numRtp = raw.numRtp /\ both.numIgnored = raw.numIgnored
        /\ both.protocol = raw.protocol /\ both.last1 = raw.last1 /\ both.last2 = raw.last2
        /\ both.startWhenS2 = raw.startWhenS2 /\ both.nonLookBackStarted = raw.nonLookBackStarted
        /\ both.metadataProcessed = raw.metadataProcessed
    BY <2>1 DEF Core
  <2>3. StartInv(scenario, both, Starting(raw.out))
    BY <1>6, <2>2 DEF StartInv, Started, Sided, Enough, Ready, Counted
  <2>4. QED
    BY <1>3, <1>9, <2>1, <2>3, BecomesResting
<1>10. QED
  BY <1>7, <1>8, <1>9

\* Keeping the packets of a session, or not, tells nothing.
LEMMA KeptQuiet ==
  ASSUME NEW s, IsSession(s), IsSeq(s.out), NEW x
  PROVE  Quiet([s EXCEPT !.keepRtp = x], s)
<1> DEFINE r == [s EXCEPT !.keepRtp = x]
<1>1. Same(r, s) /\ r.out = s.out
  BY DEF Same, IsSession, Core
<1> HIDE DEF r
<1>2. QED
  BY <1>1, QuietSelf DEF r

\* StartCapture keeps the packets and marks the session, and the next packet starts it.
LEMMA StartCaptureQuiet ==
  ASSUME NEW s, IsSession(s), IsSeq(s.out)
  PROVE  Quiet(MarkAsOnDemand([s EXCEPT !.keepRtp = TRUE], "both"), s)
<1> DEFINE r == [s EXCEPT !.keepRtp = TRUE]
<1>1. Quiet(r, s)
  BY KeptQuiet
<1> HIDE DEF r
<1>2. IsSession(r) /\ IsSeq(r.out)
  BY <1>1 DEF Quiet, Same, Adds, Extends
<1>3. Quiet(MarkAsOnDemand(r, "both"), s)
  BY <1>1, <1>2, MarkAsOnDemandQuiet, QuietThen
<1>4. QED
  BY <1>3 DEF r

\* The first call was not started.
LEMMA StartsInvInit == Init => StartsInv
  BY NewCallRests DEF Init, StartsInv

\* Every step keeps the account of starts.
LEMMA StartsInvNext == StartsInv /\ [Next]_vars => StartsInv'
<1> SUFFICES ASSUME StartsInv, [Next]_vars PROVE StartsInv'
  OBVIOUS
<1>1. IsSession(session) /\ IsSeq(session.out) /\ scenario \in Scenarios
  BY NoCallBacks DEF StartsInv, Resting
<1>2. \A x : Quiet([session EXCEPT !.keepRtp = x], session)
  BY <1>1, KeptQuiet
<1>3. CASE RtpPacket
  BY <1>3, RtpPacketStarts
<1>4. CASE Invite
  <2>1. PICK inv \in scenario.reinvites : Signal("invite", ReportSipInvite(scenario, session, inv))
    BY <1>4 DEF Invite
  <2>2. Quiet(ReportSipInvite(scenario, session, inv), session)
    BY <1>1, ReportSipInviteQuiet, ScenarioTypes
  <2>3. QED
    BY <2>1, <2>2, SignalStarts
<1>5. CASE Hold
  BY <1>1, <1>5, GoOnHoldQuiet, SignalStarts DEF Hold
<1>6. CASE Resume
  BY <1>1, <1>6, GoOffHoldQuiet, SignalStarts DEF Resume
<1>7. CASE Info
  BY <1>1, <1>7, ReportSipInfoQuiet, SignalStarts DEF Info
<1>8. CASE Refer
  BY <1>1, <1>8, TagsQuiet, SignalStarts DEF Refer
<1>9. CASE Failure
  BY <1>1, <1>9, TagsQuiet, EndStarts DEF Failure
<1>10. CASE Notify
  BY <1>1, <1>10, TagsQuiet, SignalStarts DEF Notify
<1>11. CASE Rtcp
  BY <1>1, <1>11, RtcpQuiet, SignalStarts DEF Rtcp
<1>12. CASE StartCapture
  BY <1>1, <1>12, StartCaptureQuiet, SignalStarts DEF StartCapture
<1>13. CASE PauseCapture
  <2>1. Signal("pause", [session EXCEPT !.keepRtp = FALSE])
    BY <1>13 DEF PauseCapture
  <2>2. QED
    BY <1>2, <2>1, SignalStarts
<1>14. CASE FindLiveSession
  BY <1>14 DEF FindLiveSession, StartsInv, history
<1>15. CASE EnterFilter \/ OpenStream \/ ListCall \/ TellTape
  BY <1>15 DEF EnterFilter, OpenStream, ListCall, TellTape, LiveThread, StartsInv
<1>16. Quiet(session, session)
  BY <1>1, QuietSelf DEF Same
<1>17. CASE Hangup
  BY <1>16, <1>17, EndStarts DEF Hangup
<1>18. CASE Bye
  BY <1>1, <1>18, ReportSipByeQuiet, EndStarts DEF Bye
<1>19. CASE Call
  <2>1. /\ session' = [NewCall(scenario, Id(sessions + 1), now) EXCEPT !.out = << >>]
        /\ starts' = 0 /\ scenario' = scenario
    BY <1>19 DEF Call, Becomes
  <2>2. QED
    BY <1>1, <2>1, NewCallRests DEF StartsInv
<1>20. CASE Tick
  BY <1>20 DEF Tick, StartsInv, history
<1>21. CASE UNCHANGED vars
  BY <1>21 DEF vars, StartsInv, history
<1>22. QED
  BY <1>3, <1>4, <1>5, <1>6, <1>7, <1>8, <1>9, <1>10, <1>11, <1>12, <1>13, <1>14, <1>15,
     <1>17, <1>18, <1>19, <1>20, <1>21 DEF Next

\* Whatever packets, signals and commands come in whatever order, the eight places
\* of AddRtpPacket and DetectChannel that call VoIpSession::Start amount to one
\* start of every call.
THEOREM CallRecordedOnce == Spec => []RecordedOnce
<1>1. StartsInv => RecordedOnce
  BY DEF StartsInv, Resting, RecordedOnce, Due, StartInv, Started, Sided, Enough, Ready
<1>2. QED
  BY <1>1, StartsInvInit, StartsInvNext, PTL DEF Spec

-----------------------------------------------------------------------------
(* Sides: the invariant, and what a packet does to them                    *)

\* What the sides of a session rest on: sil is the silence of each stream, and
\* cross whether sides were swapped since foreign packets came.
KnownSides(c, s, sil) ==
  /\ s.alien1 \in Nat /\ s.alien2 \in Nat /\ s.numRtp \in Nat
  /\ s.last1 = NoPacket => s.last2 = NoPacket
  /\ s.last2 = NoPacket => s.alien1 = 0 /\ s.alien2 = 0
  /\ s.last1 # NoPacket => Key(s.last1) \in Keys(c)
  /\ s.last2 # NoPacket => Key(s.last2) \in Keys(c) /\ Key(s.last2) # Key(s.last1)
  /\ \A x \in Keys(c) : sil[x] \in Nat

\* No more foreign packets are counted for a side than came since it was heard.
Outlasted(s, sil) ==
  s.last2 # NoPacket =>
    s.alien1 <= sil[Key(s.last1)] /\ s.alien2 <= sil[Key(s.last2)]

SidesInv(c, s, sil, cross) == KnownSides(c, s, sil) /\ (~cross => Outlasted(s, sil))

\* r has the sides of s, and counts what s counts.
SideFields == {"numRtp", "last1", "last2", "alien1", "alien2"}
SameSides(r, s) == \A f \in SideFields : r[f] = s[f]

\* What is known of the sides follows from them.
LEMMA SameSidesInv ==
  ASSUME NEW c, NEW s, NEW r, NEW sil, NEW cross, SidesInv(c, s, sil, cross), SameSides(r, s)
  PROVE  SidesInv(c, r, sil, cross) /\ Sides(r) = Sides(s)
<1>1. /\ r.numRtp = s.numRtp /\ r.last1 = s.last1 /\ r.last2 = s.last2
      /\ r.alien1 = s.alien1 /\ r.alien2 = s.alien2
  BY DEF SameSides, SideFields
<1>2. QED
  BY <1>1 DEF SidesInv, KnownSides, Outlasted, Sides

\* More silence does no harm, nor do swapped sides that are known.
LEMMA MoreSilence ==
  ASSUME NEW c, NEW s, NEW sil, NEW more, NEW cross, NEW crossing, SidesInv(c, s, sil, cross),
         \A x \in Keys(c) : more[x] \in Nat /\ more[x] >= sil[x], cross => crossing
  PROVE  SidesInv(c, s, more, crossing)
<1>1. ~crossing /\ s.last2 # NoPacket =>
        s.alien1 <= more[Key(s.last1)] /\ s.alien2 <= more[Key(s.last2)]
  <2>1. SUFFICES ASSUME ~crossing, s.last2 # NoPacket
                 PROVE  s.alien1 <= more[Key(s.last1)] /\ s.alien2 <= more[Key(s.last2)]
    OBVIOUS
  <2>2. Key(s.last1) \in Keys(c) /\ Key(s.last2) \in Keys(c)
    BY <2>1 DEF SidesInv, KnownSides, Outlasted
  <2> DEFINE k1 == Key(s.last1)
             k2 == Key(s.last2)
  <2>3. s.alien1 <= sil[k1] /\ s.alien2 <= sil[k2] /\ s.alien1 \in Nat /\ s.alien2 \in Nat
    BY <2>1 DEF SidesInv, KnownSides, Outlasted
  <2>4. sil[k1] \in Nat /\ sil[k2] \in Nat /\ more[k1] \in Nat /\ more[k2] \in Nat
        /\ more[k1] >= sil[k1] /\ more[k2] >= sil[k2]
    BY <2>2 DEF SidesInv, KnownSides, Outlasted
  <2> HIDE DEF k1, k2
  <2>5. s.alien1 <= more[k1] /\ s.alien2 <= more[k2]
    BY <2>3, <2>4
  <2>6. QED
    BY <2>5 DEF k1, k2
<1>2. QED
  BY <1>1 DEF SidesInv, KnownSides, Outlasted

\* DetectChannel compares sources and destinations.
LEMMA SameStreamKey ==
  ASSUME NEW p, NEW q
  PROVE  SameStream(p, q) <=> Key(p) = Key(q)
  BY DEF SameStream, Key

\* The sides after OrkSession::DetectChannel.
LEMMA DetectChannelSides ==
  ASSUME NEW c, NEW s, NEW p, IsSession(s), IsSeq(s.out)
  PROVE  LET d == DetectChannel(c, s, p)
             first == s.last1 = NoPacket \/ (s.last2 = NoPacket /\ ~SameStream(p, s.last1))
             channel == IF s.last1 = NoPacket \/ SameStream(p, s.last1) THEN 1
                        ELSE IF s.last2 = NoPacket \/ SameStream(p, s.last2) THEN 2 ELSE 0
         IN /\ IsSession(d.s) /\ IsSeq(d.s.out) /\ d.first = first /\ d.channel = channel
            /\ \A f \in {"last", "numRtp", "alien1", "alien2", "protocol"} : d.s[f] = s[f]
            /\ d.s.last1 = IF first /\ channel = 1 THEN p ELSE s.last1
            /\ d.s.last2 = IF first /\ channel = 2 THEN p ELSE s.last2
<1> DEFINE first == s.last1 = NoPacket \/ (s.last2 = NoPacket /\ ~SameStream(p, s.last1))
      channel == IF s.last1 = NoPacket \/ SameStream(p, s.last1) THEN 1
                 ELSE IF s.last2 = NoPacket \/ SameStream(p, s.last2) THEN 2 ELSE 0
      begins == channel = 2
                /\ IF first THEN ~c.s2Activity /\ c.discardUnidirectional /\ s.startWhenS2
                   ELSE ~s.started /\ c.s2Activity /\ p.loudness = "loud"
      seen == CASE first /\ channel = 1 -> [s EXCEPT !.last1 = p]
                [] first /\ channel = 2 -> [s EXCEPT !.last2 = p]
                [] OTHER -> s
      d == DetectChannel(c, s, p)
      begun == BeginWithS2(c, seen, p.at)
<1>1. d = [s |-> IF begins THEN begun ELSE seen, channel |-> channel, first |-> first]
  BY DEF DetectChannel
<1>3. /\ IsSession(seen) /\ seen.out = s.out
      /\ \A f \in Core \ {"last1", "last2"} : seen[f] = s[f]
      /\ seen.last1 = IF first /\ channel = 1 THEN p ELSE s.last1
      /\ seen.last2 = IF first /\ channel = 2 THEN p ELSE s.last2
  <2> HIDE DEF first, channel
  <2>1. QED
    BY DEF IsSession, Core
<1> HIDE DEF seen, begins
<1>4. /\ IsSession(begun) /\ IsSeq(begun.out)
      /\ \A f \in Core : f \notin {"started", "nonLookBackStarted"} => begun[f] = seen[f]
  <2>1. 0 \in Nat /\ IsSeq(seen.out)
    BY <1>3
  <2>2. QED
    BY <1>3, <2>1, BeginWithS2Mid
<1>5. begins => d.s = begun
  BY <1>1
<1>6. ~begins => d.s = seen
  BY <1>1
<1>7. d.first = first /\ d.channel = channel
  <2> HIDE DEF first, channel
  <2> QED BY <1>1
<1> HIDE DEF begun, d
<1>8. IsSession(d.s) /\ IsSeq(d.s.out) /\ \A f \in Core : f \notin {"started", "nonLookBackStarted"} => d.s[f] = seen[f]
  BY <1>3, <1>4, <1>5, <1>6
<1>9. /\ \A f \in {"last", "numRtp", "alien1", "alien2", "protocol"} : d.s[f] = s[f]
      /\ d.s.last1 = seen.last1 /\ d.s.last2 = seen.last2
  BY <1>3, <1>8 DEF Core
<1> HIDE DEF first, channel
<1>10. /\ d.s.last1 = IF first /\ channel = 1 THEN p ELSE s.last1
       /\ d.s.last2 = IF first /\ channel = 2 THEN p ELSE s.last2
  BY <1>3, <1>9
<1>11. QED
  BY <1>7, <1>8, <1>9, <1>10 DEF d, first, channel

\* The silence after packet p, which counts as heard or does not.
Hushed(c, s, sil, p, heard) ==
  [x \in Keys(c) |-> IF heard /\ x = Key(p) THEN 0
                     ELSE IF Foreign(p, s) THEN sil[x] + 1 ELSE sil[x]]

\* A session before packet p.
Before(c, s, sil, cross, p) ==
  SidesInv(c, s, sil, cross) /\ p # NoPacket /\ Key(p) \in Keys(c)

\* What packet p may do to the sides: nothing is lost that was not silent for
\* long, and a side is kept unless there were foreign packets.
Moved(c, s, u, sil, cross, p, heard) ==
  /\ SidesInv(c, u, Hushed(c, s, sil, p, heard), cross)
  /\ u.last1 = s.last1 \/ u.last2 = s.last2
  /\ heard /\ s.alien1 = 0 /\ s.alien2 = 0 => u.alien1 = 0 /\ u.alien2 = 0
  /\ ~cross => \A x \in Sides(s) \ Sides(u) : Hushed(c, s, sil, p, heard)[x] > AlienPackets
  /\ s.last1 = NoPacket => u.last2 = NoPacket

\* The silence after a packet.
LEMMA HushedNat ==
  ASSUME NEW c, NEW s, NEW sil, NEW cross, NEW p, NEW heard, SidesInv(c, s, sil, cross)
  PROVE  /\ \A x \in Keys(c) : Hushed(c, s, sil, p, heard)[x] \in Nat
         /\ \A x \in Keys(c) : ~heard => Hushed(c, s, sil, p, heard)[x] >= sil[x]
         /\ \A x \in Keys(c) : heard /\ x = Key(p) => Hushed(c, s, sil, p, heard)[x] = 0
         /\ \A x \in Keys(c) : x # Key(p) =>
              Hushed(c, s, sil, p, heard)[x] = IF Foreign(p, s) THEN sil[x] + 1 ELSE sil[x]
  BY DEF Hushed, SidesInv, KnownSides, Outlasted

\* The sides are those of the last packets.
LEMMA SidesOf ==
  ASSUME NEW s
  PROVE  /\ s.last1 # NoPacket => Key(s.last1) \in Sides(s)
         /\ s.last2 # NoPacket => Key(s.last2) \in Sides(s)
         /\ \A x \in Sides(s) : (s.last1 # NoPacket /\ x = Key(s.last1))
                                 \/ (s.last2 # NoPacket /\ x = Key(s.last2))
  BY DEF Sides

\* The sides stay, and what is counted.
LEMMA StillMoved ==
  ASSUME NEW c, NEW s, NEW u, NEW sil, NEW cross, NEW p, Before(c, s, sil, cross, p), SameSides(u, s)
  PROVE  Moved(c, s, u, sil, cross, p, FALSE)
<1> DEFINE h == Hushed(c, s, sil, p, FALSE)
<1>1. SidesInv(c, u, sil, cross) /\ Sides(u) = Sides(s)
  BY SameSidesInv DEF Before
<1>2. \A x \in Keys(c) : h[x] \in Nat /\ h[x] >= sil[x]
  BY HushedNat DEF Before
<1> HIDE DEF h
<1>3. SidesInv(c, u, h, cross)
  BY <1>1, <1>2, MoreSilence
<1>4. u.last1 = s.last1 /\ u.last2 = s.last2
  BY DEF SameSides, SideFields
<1>5. s.last1 = NoPacket => u.last2 = NoPacket
  BY <1>4 DEF Before, SidesInv, KnownSides, Outlasted
<1>6. QED
  BY <1>1, <1>3, <1>4, <1>5 DEF Moved, h

\* A side is known for the first time; the silence does not matter yet.
LEMMA FirstMoved ==
  ASSUME NEW c, NEW s, NEW u, NEW sil, NEW cross, NEW p, NEW heard, Before(c, s, sil, cross, p),
         u.numRtp = s.numRtp, u.alien1 = s.alien1, u.alien2 = s.alien2,
         s.last2 = NoPacket,
         \/ s.last1 = NoPacket /\ u.last1 = p /\ u.last2 = s.last2
         \/ s.last1 # NoPacket /\ Key(p) # Key(s.last1) /\ u.last1 = s.last1 /\ u.last2 = p
  PROVE  Moved(c, s, u, sil, cross, p, heard)
<1> DEFINE h == Hushed(c, s, sil, p, heard)
<1>1. \A x \in Keys(c) : h[x] \in Nat
  BY HushedNat DEF Before
<1>2. u.alien1 = 0 /\ u.alien2 = 0
  BY DEF Before, SidesInv, KnownSides, Outlasted
<1> HIDE DEF h
<1>3. u.last1 # NoPacket /\ Key(u.last1) \in Keys(c)
  BY DEF Before, SidesInv, KnownSides, Outlasted
<1>4. u.last2 # NoPacket => Key(u.last2) \in Keys(c) /\ Key(u.last2) # Key(u.last1)
  BY DEF Before, SidesInv, KnownSides, Outlasted
<1>5. SidesInv(c, u, h, cross)
  BY <1>1, <1>2, <1>3, <1>4 DEF Before, SidesInv, KnownSides, Outlasted
<1>6. Sides(s) \ Sides(u) = {}
  BY SidesOf
<1>7. QED
  BY <1>2, <1>5, <1>6 DEF Moved, h

\* A side is heard.
LEMMA HeardMoved ==
  ASSUME NEW c, NEW s, NEW u, NEW sil, NEW cross, NEW p, Before(c, s, sil, cross, p),
         u.numRtp = s.numRtp,
         \/ /\ Key(p) = Key(s.last1) /\ s.last1 # NoPacket
            /\ u.last1 = p /\ u.last2 = s.last2 /\ u.alien1 = 0 /\ u.alien2 = s.alien2
         \/ /\ Key(p) = Key(s.last2) /\ s.last2 # NoPacket
            /\ u.last1 = s.last1 /\ u.last2 = p /\ u.alien1 = s.alien1 /\ u.alien2 = 0
  PROVE  Moved(c, s, u, sil, cross, p, TRUE)
<1> DEFINE h == Hushed(c, s, sil, p, TRUE)
<1>1. /\ \A x \in Keys(c) : h[x] \in Nat
      /\ h[Key(p)] = 0
      /\ \A x \in Keys(c) : x # Key(p) => h[x] = IF Foreign(p, s) THEN sil[x] + 1 ELSE sil[x]
  BY DEF Hushed, Before, SidesInv, KnownSides, Outlasted
<1>2. ~Foreign(p, s)
  BY SidesOf DEF Foreign
<1> HIDE DEF h
<1>3. /\ Key(u.last1) = Key(s.last1) /\ u.last1 # NoPacket /\ Key(u.last1) \in Keys(c)
      /\ u.last2 # NoPacket <=> s.last2 # NoPacket
      /\ u.last2 # NoPacket => Key(u.last2) = Key(s.last2)
  BY DEF Before, SidesInv, KnownSides, Outlasted
<1>4. u.alien1 \in Nat /\ u.alien2 \in Nat /\ (u.last2 = NoPacket => u.alien1 = 0 /\ u.alien2 = 0)
  BY DEF Before, SidesInv, KnownSides, Outlasted
<1>5. ~cross /\ u.last2 # NoPacket => u.alien1 <= h[Key(u.last1)] /\ u.alien2 <= h[Key(u.last2)]
  BY <1>1, <1>2, <1>3 DEF Before, SidesInv, KnownSides, Outlasted
<1>6. SidesInv(c, u, h, cross)
  BY <1>1, <1>3, <1>4, <1>5 DEF Before, SidesInv, KnownSides, Outlasted
<1>7. Sides(s) \ Sides(u) = {}
  BY <1>3, SidesOf
<1>8. QED
  BY <1>3, <1>6, <1>7 DEF Moved, Before, SidesInv, KnownSides, Outlasted, h

\* A foreign packet is dismissed, or replaces a side that more were counted for.
LEMMA ForeignMoved ==
  ASSUME NEW c, NEW s, NEW u, NEW q, NEW sil, NEW cross, NEW p, NEW heard, Before(c, s, sil, cross, p),
         Foreign(p, s), u.numRtp = s.numRtp,
         q.alien1 \in Nat, q.alien1 <= s.alien1 + 1,
         q.alien2 \in Nat, q.alien2 <= s.alien2 + 1,
         \/ /\ ~heard /\ u.last1 = s.last1 /\ u.last2 = s.last2
            /\ u.alien1 = q.alien1 /\ u.alien2 = q.alien2
         \/ /\ heard /\ q.alien1 > AlienPackets /\ u.last1 = p /\ u.last2 = s.last2
            /\ u.alien1 = 0 /\ u.alien2 = q.alien2
         \/ /\ heard /\ q.alien2 > AlienPackets /\ u.last1 = s.last1 /\ u.last2 = p
            /\ u.alien1 = q.alien1 /\ u.alien2 = 0
  PROVE  Moved(c, s, u, sil, cross, p, heard)
<1> DEFINE h == Hushed(c, s, sil, p, heard)
           k == Key(p)
           k1 == Key(s.last1)
           k2 == Key(s.last2)
<1>1. s.last2 # NoPacket /\ s.last1 # NoPacket
  BY DEF Foreign, Before, SidesInv, KnownSides, Outlasted
<1>2. /\ k # k1 /\ k # k2 /\ k1 # k2 /\ k \in Keys(c) /\ k1 \in Keys(c) /\ k2 \in Keys(c)
  BY <1>1, SidesOf DEF Foreign, Before, SidesInv, KnownSides, Outlasted
<1>3. /\ \A x \in Keys(c) : h[x] \in Nat
      /\ heard => h[k] = 0
      /\ h[k1] = sil[k1] + 1 /\ h[k2] = sil[k2] + 1
  BY <1>2, HushedNat DEF Before
<1>4. /\ s.alien1 \in Nat /\ s.alien2 \in Nat /\ sil[k1] \in Nat /\ sil[k2] \in Nat
      /\ ~cross => s.alien1 <= sil[k1] /\ s.alien2 <= sil[k2]
  BY <1>1, <1>2 DEF Before, SidesInv, KnownSides, Outlasted
<1>5. AlienPackets \in Nat \ {0}
  BY CountersAreNat
<1> HIDE DEF h
<1>6. ~cross => q.alien1 <= h[k1] /\ q.alien2 <= h[k2]
  BY <1>3, <1>4
<1>7. u.alien1 \in Nat /\ u.alien2 \in Nat /\ u.last1 # NoPacket /\ u.last2 # NoPacket
  BY <1>1 DEF Before
<1>8. Key(u.last1) \in Keys(c) /\ Key(u.last2) \in Keys(c) /\ Key(u.last2) # Key(u.last1)
  BY <1>2
<1>9. ~cross => u.alien1 <= h[Key(u.last1)] /\ u.alien2 <= h[Key(u.last2)]
  BY <1>3, <1>6
<1>10. SidesInv(c, u, h, cross)
  BY <1>3, <1>7, <1>8, <1>9 DEF Before, SidesInv, KnownSides, Outlasted
<1>11. heard => s.alien1 # 0 \/ s.alien2 # 0
  BY <1>4, <1>5
<1>12. ASSUME ~cross, NEW x \in Sides(s) \ Sides(u)
       PROVE  h[x] > AlienPackets
  <2>1. x = k1 \/ x = k2
    BY SidesOf
  <2>2. Key(u.last1) \in Sides(u) /\ Key(u.last2) \in Sides(u)
    BY <1>7, SidesOf
  <2>3. heard /\ (x = k1 => q.alien1 > AlienPackets) /\ (x = k2 => q.alien2 > AlienPackets)
    BY <2>1, <2>2, <1>2
  <2>4. h[x] \in Nat
    BY <2>1, <1>2, <1>3
  <2>5. QED
    BY <2>1, <2>3, <2>4, <1>5, <1>6, <1>12
<1>13. QED
  BY <1>1, <1>10, <1>11, <1>12 DEF Moved, h

\* r is a session with the sides of s.
Alike(r, s) == IsSession(r) /\ IsSeq(r.out) /\ SameSides(r, s)

\* What is quiet has the same sides.
LEMMA QuietAlike ==
  ASSUME NEW s, NEW r, Quiet(r, s)
  PROVE  Alike(r, s)
  BY DEF Quiet, Same, Adds, Extends, Alike, SameSides, SideFields, Core

\* The same sides twice over.
LEMMA AlikeThen ==
  ASSUME NEW s, NEW r, NEW t, Alike(r, s), Alike(t, r)
  PROVE  Alike(t, s)
  BY DEF Alike, SameSides

\* A start leaves the sides.
LEMMA BeginAlike ==
  ASSUME NEW c, NEW s, NEW time, IsSession(s), IsSeq(s.out)
  PROVE  Alike(Begin(c, s, time), s)
<1>1. /\ IsSession(Begin(c, s, time)) /\ Adds(Begin(c, s, time).out, s.out, 1)
      /\ \A f \in Core : f # "started" => Begin(c, s, time)[f] = s[f]
  BY BeginAdds
<1>2. QED
  BY <1>1 DEF Alike, SameSides, SideFields, Core, Adds, Extends

\* Fields that nothing of the sides rests on.
LEMMA ExceptAlike ==
  ASSUME NEW s, IsSession(s), IsSeq(s.out)
  PROVE  /\ Alike([s EXCEPT !.startWhenS2 = TRUE], s)
         /\ Alike([s EXCEPT !.nonLookBackStarted = TRUE], s)
         /\ Alike(s, s)
  BY DEF Alike, SameSides, SideFields, IsSession, Core

\* So do the decisions to start.
LEMMA StartsAlike ==
  ASSUME NEW c, NEW s, NEW time, IsSession(s), IsSeq(s.out)
  PROVE  /\ Alike(StartOnSight(c, s, time), s)
         /\ Alike(StartOnDemand(c, s, time), s)
         /\ Alike(StartOnEnough(c, s, time), s)
<1> DEFINE ready == [s EXCEPT !.startWhenS2 = TRUE]
           begun == Begin(c, s, time)
           noted == [begun EXCEPT !.nonLookBackStarted = TRUE]
<1>1. /\ StartOnSight(c, s, time) \in {s, ready, noted}
      /\ StartOnDemand(c, s, time) \in {s, ready, begun}
      /\ StartOnEnough(c, s, time) \in {s, ready, begun}
  BY DEF StartOnSight, StartOnDemand, StartOnEnough
<1>2. Alike(s, s) /\ Alike(ready, s) /\ Alike(begun, s)
  BY ExceptAlike, BeginAlike
<1> HIDE DEF begun
<1>3. Alike(noted, begun)
  BY <1>2, ExceptAlike DEF Alike
<1> HIDE DEF ready, noted
<1>4. Alike(noted, s)
  BY <1>2, <1>3, AlikeThen
<1>5. QED
  BY <1>1, <1>2, <1>4

\* So does recording a packet.
LEMMA RecordAlike ==
  ASSUME NEW s, NEW p, NEW channel, IsSession(s), IsSeq(s.out)
  PROVE  /\ Alike(Record(s, p, channel), s)
         /\ Record(s, p, channel).last = s.last
<1> DEFINE chunk == [n |-> p.n, stream |-> p.stream, channel |-> channel, loudness |-> p.loudness]
           x == [port |-> s.capturePort, chunk |-> chunk]
           t == Append(s.out, x)
           r == [s EXCEPT !.out = t]
<1>1. Record(s, p, channel) \in {s, r}
  BY DEF Record
<1>2. IsSeq(t)
  BY AppendSeq
<1> HIDE DEF t
<1>3. Alike(r, s) /\ r.last = s.last /\ Alike(s, s)
  BY <1>2 DEF Alike, SameSides, SideFields, IsSession, Core
<1>4. QED
  BY <1>1, <1>3

\* What packet p does to the sides, before they are mapped.
LEMMA ChannelMoved ==
  ASSUME NEW c, NEW s, NEW sil, NEW cross, NEW p, Before(c, s, sil, cross, p),
         IsSession(s), IsSeq(s.out)
  PROVE  LET r == Channel(c, DetectChannel(c, s, p), p)
         IN /\ IsResult(r) /\ IsSession(r.s) /\ IsSeq(r.s.out)
            /\ r.s.numRtp = s.numRtp /\ r.s.last = s.last
            /\ Moved(c, s, r.s, sil, cross, p, r.channel # 0)
<1> DEFINE first == s.last1 = NoPacket \/ (s.last2 = NoPacket /\ ~SameStream(p, s.last1))
           channel == IF s.last1 = NoPacket \/ SameStream(p, s.last1) THEN 1
                        ELSE IF s.last2 = NoPacket \/ SameStream(p, s.last2) THEN 2 ELSE 0
           d == DetectChannel(c, s, p)
           r == Channel(c, d, p)
<1>1. /\ IsSession(d.s) /\ IsSeq(d.s.out) /\ d.first = first /\ d.channel = channel
      /\ \A f \in {"last", "numRtp", "alien1", "alien2", "protocol"} : d.s[f] = s[f]
      /\ d.s.last1 = IF first /\ channel = 1 THEN p ELSE s.last1
      /\ d.s.last2 = IF first /\ channel = 2 THEN p ELSE s.last2
  BY DetectChannelSides
<1> HIDE DEF d
<1>2. channel \in 0..2 /\ (first => channel # 0) /\ (s.last1 = NoPacket => s.last2 = NoPacket)
  BY DEF Before, SidesInv, KnownSides, Outlasted
<1>3. CASE d.first
  <2>1. r = On(d.channel, d.s)
    BY <1>1, <1>2, <1>3 DEF Channel
  <2>0. d.channel = channel /\ channel \in 0..2 /\ channel # 0
    BY <1>1, <1>2, <1>3
  <2>2. IsResult(r) /\ r.s = d.s /\ r.channel = channel /\ channel # 0
    <3> HIDE DEF channel
    <3>1. QED
      BY <2>0, <2>1 DEF On, IsResult
  <2>3. s.last2 = NoPacket
    BY <1>1, <1>2, <1>3
  <2>4. \/ s.last1 = NoPacket /\ d.s.last1 = p /\ d.s.last2 = s.last2
        \/ s.last1 # NoPacket /\ Key(p) # Key(s.last1) /\ d.s.last1 = s.last1 /\ d.s.last2 = p
    <3>1. CASE s.last1 = NoPacket
      <4>1. channel = 1 /\ first
        BY <3>1
      <4> HIDE DEF first, channel
      <4>2. QED
        BY <1>1, <3>1, <4>1
    <3>2. CASE s.last1 # NoPacket
      <4>1. channel = 2 /\ first /\ ~SameStream(p, s.last1)
        BY <1>1, <1>3, <2>3, <3>2
      <4>2. Key(p) # Key(s.last1)
        BY <4>1, SameStreamKey
      <4> HIDE DEF first, channel
      <4>3. QED
        BY <1>1, <3>2, <4>1, <4>2
    <3>3. QED
      BY <3>1, <3>2
  <2>5. d.s.numRtp = s.numRtp /\ d.s.alien1 = s.alien1 /\ d.s.alien2 = s.alien2 /\ d.s.last = s.last
    BY <1>1
  <2> HIDE DEF r, first, channel
  <2>6. Moved(c, s, r.s, sil, cross, p, r.channel # 0)
    BY <2>2, <2>3, <2>4, <2>5, FirstMoved
  <2>7. QED
    BY <1>1, <2>2, <2>5, <2>6 DEF r, d
<1>4. ASSUME ~d.first
      PROVE  /\ ~first /\ SameSides(d.s, s) /\ d.s.last = s.last /\ d.s.last1 # NoPacket
             /\ d.s.last1 = s.last1 /\ d.s.last2 = s.last2
             /\ d.s.numRtp = s.numRtp /\ d.s.alien1 = s.alien1 /\ d.s.alien2 = s.alien2
             /\ channel = 1 => Key(p) = Key(s.last1)
             /\ channel = 2 => Key(p) = Key(s.last2) /\ s.last2 # NoPacket
             /\ channel = 0 => Foreign(p, s) /\ s.last2 # NoPacket
  <2>1. ~first
    BY <1>1, <1>4
  <2>2. d.s.last1 = s.last1 /\ d.s.last2 = s.last2 /\ s.last1 # NoPacket
    BY <1>1, <2>1
  <2>3. d.s.numRtp = s.numRtp /\ d.s.alien1 = s.alien1 /\ d.s.alien2 = s.alien2 /\ d.s.last = s.last
    BY <1>1
  <2>4. /\ channel = 1 => Key(p) = Key(s.last1)
        /\ channel = 2 => Key(p) = Key(s.last2) /\ s.last2 # NoPacket
        /\ channel = 0 => s.last2 # NoPacket /\ Key(p) # Key(s.last1) /\ Key(p) # Key(s.last2)
    BY <2>1, <2>2, SameStreamKey
  <2> HIDE DEF first, channel
  <2>5. channel = 0 => Foreign(p, s)
    BY <2>4, SidesOf DEF Foreign
  <2>6. QED
    BY <2>1, <2>2, <2>3, <2>4, <2>5 DEF SameSides, SideFields
<1>5. CASE ~d.first /\ d.channel # 0
  <2> DEFINE before == IF d.channel = 1 THEN d.s.last1 ELSE d.s.last2
             heard == IF d.channel = 1 THEN [d.s EXCEPT !.last1 = p, !.alien1 = 0]
                      ELSE [d.s EXCEPT !.last2 = p, !.alien2 = 0]
             other == p.ts # before.ts /\ Discontinuous(c, p, before)
             no == On(0, d.s)
             notOk == [no EXCEPT !.ok = FALSE]
  <2>1. r = Established(c, d.s, p, d.channel)
    BY <1>5 DEF Channel
  <2>2. r \in {no, notOk, On(d.channel, heard)}
    <3>1. Established(c, d.s, p, d.channel) =
        CASE p.ts = before.ts -> no
          [] other -> notOk
          [] OTHER -> On(d.channel, heard)
      BY DEF Established
    <3> HIDE DEF before, heard, other, no, notOk, r
    <3>2. QED
      BY <2>1, <3>1
  <2>3. /\ no.s = d.s /\ no.channel = 0 /\ notOk.s = d.s /\ notOk.channel = 0
        /\ IsResult(no) /\ IsResult(notOk)
    BY DEF On, IsResult
  <2>4. /\ IsSession(heard) /\ heard.out = d.s.out /\ heard.numRtp = s.numRtp /\ heard.last = s.last
        /\ \/ /\ Key(p) = Key(s.last1) /\ s.last1 # NoPacket
              /\ heard.last1 = p /\ heard.last2 = s.last2 /\ heard.alien1 = 0 /\ heard.alien2 = s.alien2
           \/ /\ Key(p) = Key(s.last2) /\ s.last2 # NoPacket
              /\ heard.last1 = s.last1 /\ heard.last2 = p /\ heard.alien1 = s.alien1 /\ heard.alien2 = 0
    <3> HIDE DEF first, channel
    <3>1. CASE d.channel = 1
      BY <1>1, <1>4, <1>5, <3>1 DEF IsSession, Core
    <3>2. CASE d.channel = 2
      BY <1>1, <1>4, <1>5, <3>2 DEF IsSession, Core
    <3>3. QED
      BY <1>1, <1>2, <1>5, <3>1, <3>2
  <2> HIDE DEF heard, no, notOk, r
  <2>5. Moved(c, s, heard, sil, cross, p, TRUE)
    BY <2>4, HeardMoved
  <2>6. Moved(c, s, d.s, sil, cross, p, FALSE)
    BY <1>4, <1>5, StillMoved
  <2>7. CASE r \in {no, notOk}
    <3>1. r.s = d.s /\ (r.channel # 0) = FALSE /\ IsResult(r)
      BY <2>3, <2>7
    <3>2. Moved(c, s, r.s, sil, cross, p, r.channel # 0)
      BY <2>6, <3>1
    <3>3. QED
      BY <1>1, <1>4, <1>5, <3>1, <3>2 DEF r, d
  <2>8. CASE r = On(d.channel, heard)
    <3>1. r.s = heard /\ (r.channel # 0) = TRUE /\ IsResult(r)
      BY <1>1, <1>2, <1>5, <2>8 DEF On, IsResult
    <3>2. Moved(c, s, r.s, sil, cross, p, r.channel # 0)
      BY <2>5, <3>1
    <3>3. QED
      BY <1>1, <2>4, <3>1, <3>2 DEF r, d
  <2>9. QED
    BY <2>2, <2>7, <2>8
<1>6. CASE ~d.first /\ d.channel = 0
  <2> DEFINE q == Candidate(d.s, p)
             one == [q EXCEPT !.alien1 = 0, !.last1 = p, !.candidate = "none", !.mapped = FALSE]
             two == [q EXCEPT !.alien2 = 0, !.last2 = p, !.candidate = "none", !.mapped = FALSE]
  <2>1. r = Replace(q, p)
    BY <1>6 DEF Channel
  <2>2. Foreign(p, s) /\ s.alien1 \in Nat /\ s.alien2 \in Nat
    BY <1>1, <1>4, <1>6 DEF Before, SidesInv, KnownSides, Outlasted
  <2>3. /\ IsSession(q) /\ q.out = d.s.out /\ q.last = s.last /\ q.numRtp = s.numRtp
        /\ q.last1 = s.last1 /\ q.last2 = s.last2
        /\ q.alien1 \in {0, s.alien1, s.alien1 + 1} /\ q.alien2 \in {0, s.alien2, s.alien2 + 1}
    <3>1. d.s.alien1 = s.alien1 /\ d.s.alien2 = s.alien2 /\ d.s.last = s.last
          /\ d.s.numRtp = s.numRtp /\ d.s.last1 = s.last1 /\ d.s.last2 = s.last2
      BY <1>4, <1>6
    <3>2. /\ IsSession(q) /\ q.out = d.s.out /\ q.last = d.s.last /\ q.numRtp = d.s.numRtp
          /\ q.last1 = d.s.last1 /\ q.last2 = d.s.last2
          /\ q.alien1 \in {0, d.s.alien1, d.s.alien1 + 1} /\ q.alien2 \in {0, d.s.alien2, d.s.alien2 + 1}
      BY <1>1 DEF Candidate, IsSession, Core
    <3>3. QED
      BY <3>1, <3>2
  <2> HIDE DEF q
  <2>4. /\ q.alien1 \in Nat /\ q.alien1 <= s.alien1 + 1
        /\ q.alien2 \in Nat /\ q.alien2 <= s.alien2 + 1
    BY <2>2, <2>3
  <2>5. \/ q.alien1 > AlienPackets /\ r = On(1, one)
        \/ q.alien2 > AlienPackets /\ r = On(2, two)
        \/ r = On(0, q)
    BY <2>1 DEF Replace
  <2>6. /\ IsSession(one) /\ one.out = q.out /\ one.last = q.last /\ one.numRtp = q.numRtp
        /\ one.last1 = p /\ one.last2 = q.last2 /\ one.alien1 = 0 /\ one.alien2 = q.alien2
    BY <2>3 DEF IsSession, Core
  <2>7. /\ IsSession(two) /\ two.out = q.out /\ two.last = q.last /\ two.numRtp = q.numRtp
        /\ two.last1 = q.last1 /\ two.last2 = p /\ two.alien1 = q.alien1 /\ two.alien2 = 0
    BY <2>3 DEF IsSession, Core
  <2> HIDE DEF one, two, r
  <2>8. CASE q.alien1 > AlienPackets /\ r = On(1, one)
    <3>1. IsResult(r) /\ r.s = one /\ r.channel # 0
      BY <2>8 DEF On, IsResult
    <3>2. one.numRtp = s.numRtp /\ one.last1 = p /\ one.last2 = s.last2
          /\ one.alien1 = 0 /\ one.alien2 = q.alien2
      BY <2>3, <2>6
    <3>3. Moved(c, s, one, sil, cross, p, r.channel # 0)
      BY <2>2, <2>4, <2>8, <3>1, <3>2, ForeignMoved
    <3>4. QED
      BY <1>1, <2>3, <2>6, <3>1, <3>3 DEF r, d
  <2>9. CASE q.alien2 > AlienPackets /\ r = On(2, two)
    <3>1. IsResult(r) /\ r.s = two /\ r.channel # 0
      BY <2>9 DEF On, IsResult
    <3>2. two.numRtp = s.numRtp /\ two.last1 = s.last1 /\ two.last2 = p
          /\ two.alien1 = q.alien1 /\ two.alien2 = 0
      BY <2>3, <2>7
    <3>3. Moved(c, s, two, sil, cross, p, r.channel # 0)
      BY <2>2, <2>4, <2>9, <3>1, <3>2, ForeignMoved
    <3>4. QED
      BY <1>1, <2>3, <2>7, <3>1, <3>3 DEF r, d
  <2>10. CASE r = On(0, q)
    <3>1. IsResult(r) /\ r.s = q /\ ~(r.channel # 0)
      BY <2>10 DEF On, IsResult
    <3>3. Moved(c, s, q, sil, cross, p, r.channel # 0)
      BY <2>2, <2>3, <2>4, <3>1, ForeignMoved
    <3>4. QED
      BY <1>1, <2>3, <3>1, <3>3 DEF r, d
  <2>11. QED
    BY <2>5, <2>8, <2>9, <2>10
<1>7. QED
  BY <1>3, <1>5, <1>6

\* The silence of each stream after a packet, as CallRecording counts it.
SilenceOf(c, s, t, sil, p) ==
  [x \in Keys(c) |-> IF x = Key(p) /\ t.numRtp > s.numRtp THEN 0
                     ELSE IF t.last = p /\ Foreign(p, s) THEN sil[x] + 1 ELSE sil[x]]

\* What a packet does to the sides of session s, that it leaves as t.
Outcome(c, s, t, sil, cross, p) ==
  /\ IsSession(t) /\ IsSeq(t.out)
  /\ SidesInv(c, t, SilenceOf(c, s, t, sil, p), cross \/ Crosses(s, t))
  /\ ~cross => \A x \in Sides(s) \ Sides(t) : SilenceOf(c, s, t, sil, p)[x] > AlienPackets
  /\ s.last1 = NoPacket => t.last2 = NoPacket

\* What a packet does to a session, it does to any with the same sides.
LEMMA OutcomeFrom ==
  ASSUME NEW c, NEW s, NEW r, NEW t, NEW sil, NEW cross, NEW p, Alike(r, s),
         Outcome(c, r, t, sil, cross, p)
  PROVE  Outcome(c, s, t, sil, cross, p)
<1>1. /\ r.numRtp = s.numRtp /\ r.last1 = s.last1 /\ r.last2 = s.last2
      /\ r.alien1 = s.alien1 /\ r.alien2 = s.alien2
  BY DEF Alike, SameSides, SideFields
<1>2. Sides(r) = Sides(s)
  BY <1>1 DEF Sides
<1>3. Foreign(p, r) <=> Foreign(p, s)
  BY <1>1, <1>2 DEF Foreign
<1>4. SilenceOf(c, r, t, sil, p) = SilenceOf(c, s, t, sil, p)
  BY <1>1, <1>3 DEF SilenceOf
<1>5. Crosses(r, t) <=> Crosses(s, t)
  BY <1>1 DEF Crosses
<1>6. SidesInv(c, t, SilenceOf(c, s, t, sil, p), cross \/ Crosses(s, t))
  BY <1>4, <1>5 DEF Outcome, SidesInv, KnownSides, Outlasted
<1>7. QED
  BY <1>1, <1>2, <1>4, <1>6 DEF Outcome

\* A packet that is not counted, after which no side is lost.
LEMMA NotHeardOutcome ==
  ASSUME NEW c, NEW s, NEW u, NEW t, NEW sil, NEW cross, NEW p, Before(c, s, sil, cross, p),
         Alike(t, u), u.numRtp = s.numRtp,
         SidesInv(c, u, sil, cross), Sides(s) \subseteq Sides(u),
         s.last1 = NoPacket => u.last2 = NoPacket
  PROVE  Outcome(c, s, t, sil, cross, p)
<1> DEFINE h == SilenceOf(c, s, t, sil, p)
<1>1. /\ t.numRtp = u.numRtp /\ t.last1 = u.last1 /\ t.last2 = u.last2
  BY DEF Alike, SameSides, SideFields
<1>2. SidesInv(c, t, sil, cross) /\ Sides(t) = Sides(u)
  BY SameSidesInv DEF Alike
<1>3. t.numRtp = s.numRtp /\ s.numRtp \in Nat
  BY <1>1 DEF Before, SidesInv, KnownSides, Outlasted
<1>4. \A x \in Keys(c) : h[x] \in Nat /\ h[x] >= sil[x]
  BY <1>3 DEF SilenceOf, Before, SidesInv, KnownSides, Outlasted
<1> HIDE DEF h
<1>5. SidesInv(c, t, h, cross \/ Crosses(s, t))
  BY <1>2, <1>4, MoreSilence
<1>6. QED
  BY <1>1, <1>2, <1>5 DEF Outcome, Alike, h

\* r with its sides swapped.
Swapped(t, r) ==
  /\ r.last1 # NoPacket /\ r.last2 # NoPacket /\ t.last1 = r.last2 /\ t.last2 = r.last1
  /\ t.alien1 = r.alien1 /\ t.alien2 = r.alien2 /\ t.numRtp = r.numRtp

\* Sides that are swapped: foreign packets of both are then counted for the other.
LEMMA SwappedSides ==
  ASSUME NEW c, NEW s, NEW r, NEW t, NEW h, KnownSides(c, r, h), Swapped(t, r),
         r.last1 = s.last1 \/ r.last2 = s.last2,
         s.alien1 = 0 /\ s.alien2 = 0 => r.alien1 = 0 /\ r.alien2 = 0
  PROVE  /\ KnownSides(c, t, h) /\ (Crosses(s, t) \/ Outlasted(t, h))
         /\ Sides(t) = Sides(r)
<1>2. Crosses(s, t) \/ (r.alien1 = 0 /\ r.alien2 = 0)
  BY DEF Crosses, Swapped
<1>3. /\ Key(t.last1) \in Keys(c) /\ Key(t.last2) \in Keys(c) /\ Key(t.last2) # Key(t.last1)
      /\ t.last1 # NoPacket /\ t.last2 # NoPacket
      /\ t.alien1 \in Nat /\ t.alien2 \in Nat /\ t.numRtp \in Nat
      /\ \A x \in Keys(c) : h[x] \in Nat
  BY DEF KnownSides, Swapped
<1>4. Crosses(s, t) \/ Outlasted(t, h)
  BY <1>2, <1>3 DEF Swapped, Outlasted
<1>5. KnownSides(c, t, h)
  BY <1>3 DEF KnownSides
<1>6. Sides(t) = Sides(r)
  BY DEF Sides, Swapped
<1>7. QED
  BY <1>4, <1>5, <1>6

\* The sides after they were mapped.
LEMMA MapSidesMoved ==
  ASSUME NEW c, NEW s, NEW r, NEW sil, NEW cross, NEW p, Before(c, s, sil, cross, p),
         IsResult(r), IsSession(r.s), IsSeq(r.s.out), Moved(c, s, r.s, sil, cross, p, r.channel # 0)
  PROVE  LET m == MapSides(c, r)
         IN /\ IsResult(m) /\ IsSession(m.s) /\ IsSeq(m.s.out)
            /\ m.s.numRtp = r.s.numRtp /\ m.s.last = r.s.last
            /\ m.channel = 0 <=> r.channel = 0
            /\ SidesInv(c, m.s, Hushed(c, s, sil, p, r.channel # 0), cross \/ Crosses(s, m.s))
            /\ Sides(m.s) = Sides(r.s)
            /\ s.last1 = NoPacket => m.s.last2 = NoPacket
<1> DEFINE mapped == [r EXCEPT !.s.mapped = TRUE]
           swapped == [mapped EXCEPT !.s.last1 = r.s.last2, !.s.last2 = r.s.last1, !.channel = 3 - @]
           h == Hushed(c, s, sil, p, r.channel # 0)
           m == MapSides(c, r)
<1>1. /\ mapped.s = [r.s EXCEPT !.mapped = TRUE] /\ mapped.channel = r.channel
      /\ {"s", "channel", "ok"} \subseteq DOMAIN mapped
  BY DEF IsResult
<1>2. /\ swapped.s = [mapped.s EXCEPT !.last1 = r.s.last2, !.last2 = r.s.last1]
      /\ swapped.channel = 3 - r.channel
      /\ {"s", "channel", "ok"} \subseteq DOMAIN swapped
  <2> HIDE DEF mapped
  <2> QED BY <1>1
<1>3. IsSession(mapped.s) /\ mapped.s.out = r.s.out /\ \A f \in Core : mapped.s[f] = r.s[f]
  BY <1>1 DEF IsSession, Core
<1>4. m \in {r, mapped} \/ (m = swapped /\ r.channel # 0 /\ r.s.last1 # NoPacket /\ r.s.last2 # NoPacket)
  BY DEF MapSides
<1>5. IsResult(m) /\ (m.channel = 0 <=> r.channel = 0)
  BY MapSidesSteady
<1> HIDE DEF m, h
<1>6. ASSUME IsSession(m.s), m.s.out = r.s.out, \A f \in Core : m.s[f] = r.s[f]
      PROVE  /\ m.s.numRtp = r.s.numRtp /\ m.s.last = r.s.last
             /\ SidesInv(c, m.s, h, cross \/ Crosses(s, m.s))
             /\ Sides(m.s) = Sides(r.s)
             /\ s.last1 = NoPacket => m.s.last2 = NoPacket
  <2>1. /\ SameSides(m.s, r.s) /\ m.s.last = r.s.last /\ m.s.last2 = r.s.last2
        /\ m.s.numRtp = r.s.numRtp
    BY <1>6 DEF SameSides, SideFields, Core
  <2>2. SidesInv(c, r.s, h, cross)
    BY DEF Moved, h
  <2>3. SidesInv(c, m.s, h, cross) /\ Sides(m.s) = Sides(r.s)
    BY <2>1, <2>2, SameSidesInv
  <2>4. \A x \in Keys(c) : h[x] \in Nat /\ h[x] >= h[x]
    BY <2>2 DEF SidesInv, KnownSides, Outlasted
  <2>5. SidesInv(c, m.s, h, cross \/ Crosses(s, m.s))
    BY <2>3 DEF SidesInv, KnownSides, Outlasted
  <2>6. QED
    BY <2>1, <2>3, <2>5 DEF Moved
<1>7. CASE m \in {r, mapped}
  <2>1. IsSession(m.s) /\ m.s.out = r.s.out /\ \A f \in Core : m.s[f] = r.s[f]
    BY <1>3, <1>7
  <2>2. QED
    BY <2>1, <1>5, <1>6 DEF m, h
<1>8. CASE m = swapped /\ r.channel # 0 /\ r.s.last1 # NoPacket /\ r.s.last2 # NoPacket
  <2>1. /\ IsSession(m.s) /\ m.s.out = r.s.out /\ m.s.numRtp = r.s.numRtp /\ m.s.last = r.s.last
        /\ m.s.last1 = r.s.last2 /\ m.s.last2 = r.s.last1
        /\ m.s.alien1 = r.s.alien1 /\ m.s.alien2 = r.s.alien2
    <3> DEFINE q == mapped.s
    <3>1. IsSession(q) /\ q.out = r.s.out /\ (\A f \in Core : q[f] = r.s[f])
          /\ m.s = [q EXCEPT !.last1 = r.s.last2, !.last2 = r.s.last1]
      BY <1>2, <1>3, <1>8
    <3> HIDE DEF q, mapped, swapped
    <3>2. QED
      BY <3>1 DEF IsSession, Core
  <2>2. Moved(c, s, r.s, sil, cross, p, r.channel # 0) /\ r.channel # 0
    BY <1>8
  <2>3. SidesInv(c, m.s, h, cross \/ Crosses(s, m.s)) /\ Sides(m.s) = Sides(r.s)
    <3>1. Swapped(m.s, r.s)
      BY <1>8, <2>1 DEF Swapped
    <3>2. /\ KnownSides(c, r.s, h) /\ (r.s.last1 = s.last1 \/ r.s.last2 = s.last2)
          /\ s.alien1 = 0 /\ s.alien2 = 0 => r.s.alien1 = 0 /\ r.s.alien2 = 0
      BY <2>2 DEF Moved, SidesInv, h
    <3>3. /\ KnownSides(c, m.s, h) /\ (Crosses(s, m.s) \/ Outlasted(m.s, h))
          /\ Sides(m.s) = Sides(r.s)
      BY <3>1, <3>2, SwappedSides
    <3>4. QED
      BY <3>3 DEF SidesInv
  <2>4. s.last1 # NoPacket
    BY <1>8, <2>2 DEF Moved
  <2>5. QED
    BY <1>5, <2>1, <2>3, <2>4 DEF m, h
<1>9. QED
  BY <1>4, <1>7, <1>8

\* A packet that counts: its session has the same sides.
LEMMA CountSides ==
  ASSUME NEW c, NEW m, NEW p, IsSession(m.s), IsSeq(m.s.out), m.s.numRtp \in Nat
  PROVE  LET t == Count(c, m, p).s
         IN /\ IsSession(t) /\ IsSeq(t.out) /\ t.last = m.s.last
            /\ \A f \in {"last1", "last2", "alien1", "alien2"} : t[f] = m.s[f]
            /\ t.numRtp = IF m.channel = 0 THEN m.s.numRtp ELSE m.s.numRtp + 1
<1> DEFINE q == Relocate(c, m.s, p)
           z == StartOnEnough(c, q, p.at)
           t == Count(c, m, p).s
           ready == [q EXCEPT !.startWhenS2 = TRUE]
           begun == Begin(c, q, p.at)
<1>1. CASE m.channel = 0
  BY <1>1 DEF Count
<1>2. CASE m.channel # 0
  <2>1. t = Record(z, p, m.channel)
    BY <1>2 DEF Count, On
  <2>2. /\ IsSession(q) /\ IsSeq(q.out) /\ q.numRtp = m.s.numRtp + 1
        /\ \A f \in Core : f # "numRtp" => q[f] = m.s[f]
    BY RelocateAdds DEF Adds, Extends
  <2> HIDE DEF q
  <2>3. Alike(z, q)
    BY <2>2, StartsAlike
  <2>4. z.last = q.last
    <3>1. z \in {q, ready, begun}
      BY DEF StartOnEnough
    <3>2. ready.last = q.last
      BY <2>2 DEF IsSession, Core
    <3>3. begun.last = q.last
      BY <2>2, BeginAdds DEF Core
    <3>4. QED
      BY <3>1, <3>2, <3>3
  <2> HIDE DEF z
  <2>5. Alike(Record(z, p, m.channel), z) /\ Record(z, p, m.channel).last = z.last
    BY <2>3, RecordAlike DEF Alike
  <2> HIDE DEF t
  <2>6. Alike(t, q) /\ t.last = q.last
    BY <2>1, <2>3, <2>4, <2>5, AlikeThen
  <2>7. q.last = m.s.last /\ \A f \in {"last1", "last2", "alien1", "alien2"} : q[f] = m.s[f]
    BY <2>2 DEF Core
  <2>8. \A f \in SideFields : t[f] = q[f]
    BY <2>6 DEF Alike, SameSides
  <2>9. (\A f \in {"last1", "last2", "alien1", "alien2"} : t[f] = q[f]) /\ t.numRtp = q.numRtp
    BY <2>8 DEF SideFields
  <2>10. QED
    BY <1>2, <2>2, <2>6, <2>7, <2>9 DEF Alike, t
<1>3. QED
  BY <1>1, <1>2

\* A packet that is kept.
LEMMA KeepOutcome ==
  ASSUME NEW c, NEW s, NEW sil, NEW cross, NEW p, Before(c, s, sil, cross, p),
         IsSession(s), IsSeq(s.out)
  PROVE  Outcome(c, s, Keep(c, s, p).s, sil, cross, p)
<1> DEFINE woken == WakeUp(c, s, p)
           awake == [woken EXCEPT !.last = p]
           r == Channel(c, DetectChannel(c, awake, p), p)
           m == MapSides(c, r)
           t == Count(c, m, p).s
<1>1. CASE Dismissed(s, p)
  <2>1. Keep(c, s, p).s = s
    BY <1>1 DEF Keep, On
  <2>2. Alike(s, s) /\ SidesInv(c, s, sil, cross) /\ (s.last1 = NoPacket => s.last2 = NoPacket)
    BY ExceptAlike DEF Before, SidesInv, KnownSides
  <2>3. Outcome(c, s, s, sil, cross, p)
    BY <2>2, NotHeardOutcome
  <2>4. QED
    BY <2>1, <2>3
<1>2. CASE ~Dismissed(s, p)
  <2>1. Keep(c, s, p).s = t
    BY <1>2 DEF Keep
  <2>2. Quiet(woken, s)
    <3>1. woken \in {s, GoOffHold(c, s, p.at)}
      BY DEF WakeUp
    <3>2. Quiet(s, s)
      BY QuietSelf DEF Same
    <3>3. QED
      BY <3>1, <3>2, GoOffHoldQuiet
  <2> HIDE DEF woken
  <2>3. Alike(woken, s)
    BY <2>2, QuietAlike
  <2>4. Alike(awake, woken) /\ awake.last = p
    BY <2>3 DEF Alike, SameSides, SideFields, IsSession, Core
  <2> HIDE DEF awake
  <2>5. Alike(awake, s)
    BY <2>3, <2>4, AlikeThen
  <2>6. Before(c, awake, sil, cross, p)
    BY <2>5, SameSidesInv DEF Before, Alike
  <2>7. /\ IsResult(r) /\ IsSession(r.s) /\ IsSeq(r.s.out)
        /\ r.s.numRtp = awake.numRtp /\ r.s.last = p
        /\ Moved(c, awake, r.s, sil, cross, p, r.channel # 0)
    BY <2>4, <2>5, <2>6, ChannelMoved DEF Alike
  <2> HIDE DEF r
  <2> DEFINE h == Hushed(c, awake, sil, p, r.channel # 0)
  <2>8. /\ IsResult(m) /\ IsSession(m.s) /\ IsSeq(m.s.out)
        /\ m.s.numRtp = awake.numRtp /\ m.s.last = p
        /\ m.channel = 0 <=> r.channel = 0
        /\ SidesInv(c, m.s, h, cross \/ Crosses(awake, m.s))
        /\ Sides(m.s) = Sides(r.s)
        /\ awake.last1 = NoPacket => m.s.last2 = NoPacket
    BY <2>6, <2>7, MapSidesMoved
  <2> HIDE DEF m, h
  <2>9. awake.numRtp \in Nat
    BY <2>6 DEF Before, SidesInv, KnownSides
  <2>10. /\ IsSession(t) /\ IsSeq(t.out) /\ t.last = p
         /\ \A f \in {"last1", "last2", "alien1", "alien2"} : t[f] = m.s[f]
         /\ t.numRtp = IF r.channel = 0 THEN awake.numRtp ELSE awake.numRtp + 1
    BY <2>8, <2>9, CountSides
  <2> HIDE DEF t
  <2>11. /\ t.last1 = m.s.last1 /\ t.last2 = m.s.last2 /\ t.alien1 = m.s.alien1 /\ t.alien2 = m.s.alien2
         /\ t.numRtp \in Nat /\ (t.numRtp > awake.numRtp <=> r.channel # 0)
    BY <2>9, <2>10
  <2>12. SilenceOf(c, awake, t, sil, p) = h
    BY <2>10, <2>11 DEF SilenceOf, Hushed, h
  <2>13. (Crosses(awake, t) <=> Crosses(awake, m.s)) /\ Sides(t) = Sides(m.s)
    BY <2>11 DEF Crosses, Sides
  <2>14. SidesInv(c, t, h, cross \/ Crosses(awake, t))
    BY <2>8, <2>11, <2>13 DEF SidesInv, KnownSides, Outlasted
  <2>15. ~cross => \A x \in Sides(awake) \ Sides(t) : h[x] > AlienPackets
    BY <2>7, <2>8, <2>13 DEF Moved, h
  <2>16. Outcome(c, awake, t, sil, cross, p)
    BY <2>8, <2>10, <2>11, <2>12, <2>14, <2>15 DEF Outcome
  <2>17. QED
    BY <2>1, <2>5, <2>16, OutcomeFrom
<1>3. QED
  BY <1>1, <1>2

\* A packet that is ignored while the session is paused may still show a side.
LEMMA IgnoreOutcome ==
  ASSUME NEW c, NEW s, NEW sil, NEW cross, NEW p, Before(c, s, sil, cross, p),
         IsSession(s), IsSeq(s.out)
  PROVE  Outcome(c, s, Ignore(c, s, p), sil, cross, p)
<1> DEFINE d == DetectChannel(c, s, p)
           seen == IF s.nonLookBackStarted THEN s ELSE d.s
           t == [seen EXCEPT !.lastUpdated = p.at, !.numIgnored = @ + 1]
           first == s.last1 = NoPacket \/ (s.last2 = NoPacket /\ ~SameStream(p, s.last1))
           channel == IF s.last1 = NoPacket \/ SameStream(p, s.last1) THEN 1
                        ELSE IF s.last2 = NoPacket \/ SameStream(p, s.last2) THEN 2 ELSE 0
<1>1. Ignore(c, s, p) = t
  BY DEF Ignore
<1>2. /\ IsSession(d.s) /\ IsSeq(d.s.out)
      /\ \A f \in {"last", "numRtp", "alien1", "alien2", "protocol"} : d.s[f] = s[f]
      /\ d.s.last1 = IF first /\ channel = 1 THEN p ELSE s.last1
      /\ d.s.last2 = IF first /\ channel = 2 THEN p ELSE s.last2
  BY DetectChannelSides
<1> HIDE DEF d
<1>3. /\ SidesInv(c, s, sil, cross) /\ Sides(s) \subseteq Sides(s)
      /\ s.last1 = NoPacket => s.last2 = NoPacket
  BY DEF Before, SidesInv, KnownSides
<1>4. /\ SidesInv(c, d.s, sil, cross) /\ Sides(s) \subseteq Sides(d.s)
      /\ s.last1 = NoPacket => d.s.last2 = NoPacket
      /\ d.s.numRtp = s.numRtp
  <2>1. /\ d.s.numRtp = s.numRtp /\ d.s.alien1 = s.alien1 /\ d.s.alien2 = s.alien2
    BY <1>2
  <2>2. CASE ~first
    <3>1. d.s.last1 = s.last1 /\ d.s.last2 = s.last2
      BY <1>2, <2>2
    <3>2. SameSides(d.s, s)
      BY <2>1, <3>1 DEF SameSides, SideFields
    <3>3. QED
      BY <1>3, <2>1, <3>1, <3>2, SameSidesInv
  <2>3. CASE first /\ s.last1 = NoPacket
    <3>1. d.s.last1 = p /\ d.s.last2 = NoPacket
      BY <1>2, <1>3, <2>3
    <3>2. Sides(s) = {}
      BY <1>3, <2>3, SidesOf
    <3>3. s.alien1 = 0 /\ s.alien2 = 0 /\ s.numRtp \in Nat /\ \A x \in Keys(c) : sil[x] \in Nat
      BY <1>3, <2>3 DEF SidesInv, KnownSides
    <3>4. SidesInv(c, d.s, sil, cross)
      BY <2>1, <3>1, <3>3 DEF Before, SidesInv, KnownSides, Outlasted
    <3>5. QED
      BY <2>1, <3>1, <3>2, <3>4
  <2>4. CASE first /\ s.last1 # NoPacket
    <3>1. d.s.last1 = s.last1 /\ d.s.last2 = p /\ s.last2 = NoPacket /\ ~SameStream(p, s.last1)
      BY <1>2, <2>4
    <3>2. Key(p) # Key(s.last1)
      BY <3>1, SameStreamKey
    <3>3. s.alien1 = 0 /\ s.alien2 = 0
      BY <1>3, <3>1 DEF SidesInv, KnownSides
    <3>4. Key(s.last1) \in Keys(c) /\ Key(p) \in Keys(c) /\ p # NoPacket
      BY <1>3, <2>4 DEF Before, SidesInv, KnownSides
    <3>5. sil[Key(s.last1)] \in Nat /\ sil[Key(p)] \in Nat
      BY <1>3, <3>4 DEF SidesInv, KnownSides
    <3>6. SidesInv(c, d.s, sil, cross)
      BY <1>3, <2>1, <2>4, <3>1, <3>2, <3>3, <3>4, <3>5 DEF SidesInv, KnownSides, Outlasted
    <3>7. Sides(s) \subseteq Sides(d.s)
      BY <3>1, SidesOf
    <3>8. QED
      BY <2>1, <2>4, <3>6, <3>7
  <2>5. QED
    BY <2>2, <2>3, <2>4
<1>5. /\ SidesInv(c, seen, sil, cross) /\ Sides(s) \subseteq Sides(seen)
      /\ s.last1 = NoPacket => seen.last2 = NoPacket
      /\ seen.numRtp = s.numRtp /\ IsSession(seen) /\ IsSeq(seen.out)
  BY <1>2, <1>3, <1>4
<1> HIDE DEF seen
<1>6. Alike(t, seen)
  BY <1>5 DEF Alike, SameSides, SideFields, IsSession, Core
<1> HIDE DEF t
<1>7. QED
  BY <1>1, <1>5, <1>6, NotHeardOutcome

\* What a packet may do to a session.
LEMMA AddRtpPacketSides ==
  ASSUME NEW c, NEW s, NEW sil, NEW cross, NEW p, Before(c, s, sil, cross, p),
         IsSession(s), IsSeq(s.out)
  PROVE  Outcome(c, s, AddRtpPacket(c, s, p).s, sil, cross, p)
<1> DEFINE q == ProcessMetadata(c, s, p)
           z == StartOnSight(c, q, p.at)
           y == StartOnDemand(c, z, p.at)
           t == AddRtpPacket(c, s, p).s
<1>1. t \in {z, HandleRtpEvent(c, z, p), Keep(c, y, p).s, Ignore(c, z, p)}
  BY DEF AddRtpPacket, TakePacket, On
<1>2. Alike(q, s)
  BY ProcessMetadataSame DEF Alike, SameSides, SideFields, Core
<1> HIDE DEF q
<1>3. Alike(z, q)
  BY <1>2, StartsAlike DEF Alike
<1> HIDE DEF z
<1>4. Alike(z, s)
  BY <1>2, <1>3, AlikeThen
<1>5. Alike(y, z)
  BY <1>4, StartsAlike DEF Alike
<1> HIDE DEF y, t
<1>6. Alike(y, s)
  BY <1>4, <1>5, AlikeThen
<1>7. \A r : Alike(r, s) => Before(c, r, sil, cross, p)
  BY SameSidesInv DEF Before, Alike
<1>8. Alike(HandleRtpEvent(c, z, p), s) /\ Alike(z, s)
  <2>1. Quiet(HandleRtpEvent(c, z, p), z)
    BY <1>4, HandleRtpEventQuiet DEF Alike
  <2>2. QED
    BY <1>4, <2>1, QuietAlike, AlikeThen
<1>9. SidesInv(c, s, sil, cross) /\ (s.last1 = NoPacket => s.last2 = NoPacket)
  BY DEF Before, SidesInv, KnownSides
<1>10. \A r : Alike(r, s) => Outcome(c, s, r, sil, cross, p)
  BY <1>9, NotHeardOutcome
<1>11. Outcome(c, s, Keep(c, y, p).s, sil, cross, p)
  BY <1>6, <1>7, KeepOutcome, OutcomeFrom DEF Alike
<1>12. Outcome(c, s, Ignore(c, z, p), sil, cross, p)
  BY <1>4, <1>7, IgnoreOutcome, OutcomeFrom DEF Alike
<1>13. QED
  BY <1>1, <1>8, <1>10, <1>11, <1>12 DEF t

-----------------------------------------------------------------------------
(* Sides: the calls                                                        *)

\* The invariant of the sides.
SidesKnown ==
  /\ scenario \in Scenarios /\ sessions \in Nat
  /\ IsSession(session) /\ session.out = << >>
  /\ SidesInv(scenario, session, silence, crossed)

\* What a step may do to the sides.
SidesKept ==
  sessions' = sessions /\ ~crossed =>
    \A x \in Sides(session) \ Sides(session') : silence'[x] > AlienPackets

SidesStep == SidesKnown' /\ SidesKept

\* The call-backs of a session say nothing of its sides.
LEMMA OutSides ==
  ASSUME NEW s, IsSession(s)
  PROVE  LET r == [s EXCEPT !.out = << >>]
         IN IsSession(r) /\ r.out = << >> /\ SameSides(r, s) /\ Sides(r) = Sides(s)
<1> DEFINE r == [s EXCEPT !.out = << >>]
<1>1. IsSession(r) /\ r.out = << >> /\ \A f \in Core : r[f] = s[f]
  BY DEF IsSession, Core
<1> HIDE DEF r
<1>2. SameSides(r, s)
  BY <1>1 DEF SameSides, SideFields, Core
<1>3. Sides(r) = Sides(s)
  BY <1>2 DEF SameSides, SideFields, Sides
<1>4. QED
  BY <1>1, <1>2, <1>3 DEF r

\* A session without sides.
LEMMA NoSides ==
  ASSUME NEW c, NEW s, NEW sil, NEW cross,
         s.last1 = NoPacket, s.last2 = NoPacket, s.alien1 = 0, s.alien2 = 0, s.numRtp \in Nat,
         \A x \in Keys(c) : sil[x] = 0
  PROVE  SidesInv(c, s, sil, cross)
  BY DEF SidesInv, KnownSides, Outlasted

\* A new session has none.
LEMMA NewSessionSides ==
  ASSUME NEW c, NEW id, NEW protocol, NEW time
  PROVE  LET s == NewSession(c, id, protocol, time)
         IN /\ IsSession(s) /\ s.out = << >> /\ s.last1 = NoPacket /\ s.last2 = NoPacket
            /\ s.alien1 = 0 /\ s.alien2 = 0 /\ s.numRtp = 0
<1> DEFINE s == NewSession(c, id, protocol, time)
<1>1. /\ Core \cup {"out", "tags"} \subseteq DOMAIN s /\ s.tags = << >> /\ s.out = << >>
      /\ s.last1 = NoPacket /\ s.last2 = NoPacket
      /\ s.alien1 = 0 /\ s.alien2 = 0 /\ s.numRtp = 0
  BY DEF NewSession, Core
<1> HIDE DEF s
<1>2. IsSession(s)
  BY <1>1, NoCallBacks DEF IsSession
<1>3. QED
  BY <1>1, <1>2 DEF s

\* Nor has a new call.
LEMMA NewCallSides ==
  ASSUME NEW c \in Scenarios, NEW id, NEW time
  PROVE  LET s == [NewCall(c, id, time) EXCEPT !.out = << >>]
         IN /\ IsSession(s) /\ s.out = << >> /\ s.last1 = NoPacket /\ s.last2 = NoPacket
            /\ s.alien1 = 0 /\ s.alien2 = 0 /\ s.numRtp = 0
<1> DEFINE s == NewSession(c, id, c.protocol, time)
           sip == [s EXCEPT !.sipDialedNumber = c.invite.sipDialedNumber, !.isCallPickUp = c.isCallPickUp]
           skinny == [s EXCEPT !.endPointIp = c.invite.receiver, !.localParty = c.invite.to,
                      !.remoteParty = c.invite.from, !.direction = "in"]
           told1 == ReportSipInvite(c, sip, c.invite)
           new == NewCall(c, id, time)
<1>1. new \in {told1, skinny, s}
  BY DEF NewCall
<1>2. /\ IsSession(s) /\ s.out = << >> /\ s.last1 = NoPacket /\ s.last2 = NoPacket
      /\ s.alien1 = 0 /\ s.alien2 = 0 /\ s.numRtp = 0
  BY NewSessionSides
<1> HIDE DEF s
<1>3. Same(sip, s) /\ sip.out = s.out /\ Same(skinny, s) /\ skinny.out = s.out /\ Same(s, s)
  BY <1>2 DEF Same, IsSession, Core
<1> HIDE DEF sip, skinny
<1>4. Quiet(sip, s) /\ Quiet(skinny, s) /\ Quiet(s, s) /\ IsSeq(s.out)
  BY <1>2, <1>3, NoCallBacks, QuietSelf
<1>5. Quiet(told1, sip)
  BY <1>2, <1>3, <1>4, ReportSipInviteQuiet, ScenarioTypes DEF Same
<1> HIDE DEF told1, new
<1>6. Quiet(told1, s)
  BY <1>4, <1>5, QuietThen
<1>7. Alike(new, s)
  BY <1>1, <1>4, <1>6, QuietAlike
<1> DEFINE r == [new EXCEPT !.out = << >>]
<1>8. IsSession(r) /\ r.out = << >> /\ SameSides(r, new)
  BY <1>7, OutSides DEF Alike
<1> HIDE DEF r
<1>9. /\ r.last1 = s.last1 /\ r.last2 = s.last2 /\ r.alien1 = s.alien1 /\ r.alien2 = s.alien2
      /\ r.numRtp = s.numRtp
  BY <1>7, <1>8 DEF Alike, SameSides, SideFields
<1>10. QED
  BY <1>2, <1>8, <1>9 DEF r, new

\* A step that only tells something.
LEMMA QuietSides ==
  ASSUME SidesKnown, NEW s, Quiet(s, session), Becomes(s),
         UNCHANGED <<scenario, sessions, silence, crossed>>
  PROVE  SidesStep
<1> DEFINE r == [s EXCEPT !.out = << >>]
<1>1. Alike(s, session)
  BY QuietAlike
<1>2. IsSession(r) /\ r.out = << >> /\ SameSides(r, s) /\ Sides(r) = Sides(s)
  BY <1>1, OutSides DEF Alike
<1>3. session' = r
  BY DEF Becomes
<1> HIDE DEF r
<1>4. SidesInv(scenario, s, silence, crossed) /\ Sides(s) = Sides(session)
  BY <1>1, SameSidesInv DEF SidesKnown, Alike
<1>5. SidesInv(scenario, r, silence, crossed)
  BY <1>2, <1>4, SameSidesInv
<1>6. SidesKnown'
  BY <1>2, <1>3, <1>5 DEF SidesKnown
<1>7. SidesKept
  BY <1>2, <1>3, <1>4 DEF SidesKept
<1>8. QED
  BY <1>6, <1>7 DEF SidesStep

\* A signal, and the end of a call.
LEMMA SignalSides ==
  ASSUME SidesKnown, NEW what, NEW s, Quiet(s, session), Signal(what, s)
  PROVE  SidesStep
  BY QuietSides DEF Signal

\* The end of a call leaves the sides.
LEMMA EndSides ==
  ASSUME SidesKnown, NEW s, Quiet(s, session), EndOf(s)
  PROVE  SidesStep
<1>1. IsSession(session) /\ IsSeq(session.out)
  BY NoCallBacks DEF SidesKnown
<1>2. IsSession(s) /\ IsSeq(s.out)
  BY DEF Quiet, Same, Adds, Extends
<1>3. Quiet(Stop(scenario, s), session)
  BY <1>1, <1>2, StopQuiet, QuietThen
<1>4. QED
  BY <1>3, QuietSides DEF EndOf

\* Steps that do not touch the session.
LEMMA StillSides ==
  ASSUME SidesKnown, UNCHANGED <<scenario, sessions, session, silence, crossed>>
  PROVE  SidesStep
  BY DEF SidesStep, SidesKnown, SidesKept

\* A packet the session takes, or that ends it: t is the session after it.
LEMMA TakenSides ==
  ASSUME SidesKnown, NEW p, NEW t, NEW s,
         Outcome(scenario, session, t, silence, crossed, p), Alike(s, t),
         Becomes(s), scenario' = scenario, sessions' = sessions,
         silence' = Silence(p, session, t), crossed' = (crossed \/ Crosses(session, t))
  PROVE  SidesStep
<1> DEFINE r == [s EXCEPT !.out = << >>]
           h == SilenceOf(scenario, session, t, silence, p)
<1>1. IsSession(r) /\ r.out = << >> /\ SameSides(r, s) /\ Sides(r) = Sides(s)
  BY OutSides DEF Alike
<1>2. session' = r
  BY DEF Becomes
<1>3. silence' = h
  BY DEF Silence, SilenceOf
<1> HIDE DEF r
<1>4. SidesInv(scenario, t, h, crossed \/ Crosses(session, t))
  BY DEF Outcome
<1>5. ~crossed => \A x \in Sides(session) \ Sides(t) : h[x] > AlienPackets
  BY DEF Outcome
<1> HIDE DEF h
<1>6. SidesInv(scenario, t, silence', crossed')
  BY <1>3, <1>4 DEF SidesInv, KnownSides, Outlasted
<1>7. SidesInv(scenario, s, silence', crossed') /\ Sides(s) = Sides(t)
  BY <1>6, SameSidesInv DEF Alike
<1>8. SidesInv(scenario, r, silence', crossed')
  BY <1>1, <1>7, SameSidesInv
<1>9. SidesKnown'
  BY <1>1, <1>2, <1>8 DEF SidesKnown
<1>10. SidesKept
  BY <1>1, <1>2, <1>3, <1>5, <1>7 DEF SidesKept
<1>11. QED
  BY <1>9, <1>10 DEF SidesStep

\* A new session, of a packet or of a call, whose first packet leaves it one side.
LEMMA NewSides ==
  ASSUME SidesKnown, NEW s, IsSession(s), KnownSides(scenario, s, silence'), s.last2 = NoPacket,
         session' = [s EXCEPT !.out = << >>], scenario' = scenario, sessions' = sessions + 1
  PROVE  SidesStep
<1> DEFINE r == [s EXCEPT !.out = << >>]
<1>1. IsSession(r) /\ r.out = << >> /\ SameSides(r, s)
  BY OutSides
<1>2. session' = r
  OBVIOUS
<1> HIDE DEF r
<1>3. SidesInv(scenario, s, silence', crossed')
  BY DEF SidesInv, Outlasted
<1>4. SidesInv(scenario, r, silence', crossed')
  BY <1>1, <1>3, SameSidesInv
<1>5. sessions' \in Nat /\ sessions' # sessions
  BY DEF SidesKnown
<1>6. QED
  BY <1>1, <1>2, <1>4, <1>5 DEF SidesStep, SidesKnown, SidesKept

\* The first packet of a session leaves it one side at most.
LEMMA FirstSides ==
  ASSUME NEW c, NEW s, NEW zero, NEW cross, NEW p, p # NoPacket, Key(p) \in Keys(c),
         zero = [x \in Keys(c) |-> 0],
         IsSession(s), s.out = << >>, s.last1 = NoPacket, s.last2 = NoPacket,
         s.alien1 = 0, s.alien2 = 0, s.numRtp = 0
  PROVE  LET t == AddRtpPacket(c, s, p).s
         IN IsSession(t) /\ t.last2 = NoPacket /\ KnownSides(c, t, zero)
<1> DEFINE t == AddRtpPacket(c, s, p).s
<1>1. Before(c, s, zero, cross, p)
  BY NoSides DEF Before
<1>2. Outcome(c, s, t, zero, cross, p)
  BY <1>1, NoCallBacks, AddRtpPacketSides
<1> HIDE DEF t
<1>3. IsSession(t) /\ t.last2 = NoPacket
  BY <1>2 DEF Outcome
<1>4. KnownSides(c, t, SilenceOf(c, s, t, zero, p))
  BY <1>2 DEF Outcome, SidesInv
<1>5. \A x \in Keys(c) : zero[x] \in Nat
  OBVIOUS
<1>6. KnownSides(c, t, zero)
  BY <1>4, <1>5 DEF KnownSides
<1>7. QED
  BY <1>3, <1>6 DEF t

\* A packet, whether the session takes it, ends with it, or is replaced over it.
LEMMA RtpPacketSides ==
  ASSUME SidesKnown, RtpPacket
  PROVE  SidesStep
<1>1. PICK x \in scenario.streams, how \in scenario.advances, kind \in scenario.kinds,
            loudness \in scenario.loudness :
         LET p == Arriving(x, how, kind, loudness)
             r == AddRtpPacket(scenario, session, p)
         IN Takes(x, how, p, r, IF ~Replaced(r) THEN r.s ELSE AddRtpPacket(scenario, Successor, p).s)
  BY RtpPacketTakes
<1> DEFINE p == Arriving(x, how, kind, loudness)
           r == AddRtpPacket(scenario, session, p)
           new == Successor
           raw == AddRtpPacket(scenario, new, p).s
           both == [raw EXCEPT !.out = Stop(scenario, r.s).out \o @]
<1>2. p # NoPacket /\ Key(p) \in Keys(scenario)
  <2>1. "seq" \in DOMAIN p /\ "seq" \notin DOMAIN NoPacket
    BY DEF NoPacket, Arriving
  <2>2. Key(p) = Key(x)
    BY DEF Key, Arriving
  <2> HIDE DEF p
  <2>3. QED
    BY <2>1, <2>2 DEF Keys
<1>3. /\ scenario' = scenario
      /\ ~Replaced(r) => /\ sessions' = sessions
                         /\ silence' = Silence(p, session, r.s)
                         /\ crossed' = (crossed \/ Crosses(session, r.s))
                         /\ Becomes(r.s) \/ Becomes(Stop(scenario, r.s))
      /\ Replaced(r) => /\ sessions' = sessions + 1
                        /\ silence' = [side \in Keys(scenario) |-> 0]
                        /\ Becomes(both)
  BY <1>1 DEF Takes, Replaced
<1> HIDE DEF p
<1>4. Outcome(scenario, session, r.s, silence, crossed, p)
  <2>1. Before(scenario, session, silence, crossed, p)
    BY <1>2 DEF SidesKnown, Before
  <2>2. QED
    BY <2>1, NoCallBacks, AddRtpPacketSides DEF SidesKnown
<1>5. CASE ~Replaced(r)
  <2> HIDE DEF r
  <2>1. IsSession(r.s) /\ IsSeq(r.s.out)
    BY <1>4 DEF Outcome
  <2>2. Alike(r.s, r.s) /\ Alike(Stop(scenario, r.s), r.s)
    BY <2>1, ExceptAlike, StopQuiet, QuietAlike
  <2>3. QED
    BY <1>3, <1>4, <1>5, <2>2, TakenSides
<1>6. CASE Replaced(r)
  <2>1. /\ IsSession(new) /\ new.out = << >> /\ new.last1 = NoPacket /\ new.last2 = NoPacket
        /\ new.alien1 = 0 /\ new.alien2 = 0 /\ new.numRtp = 0
    BY NewSessionSides DEF Successor
  <2> HIDE DEF new
  <2>2. IsSession(raw) /\ raw.last2 = NoPacket /\ KnownSides(scenario, raw, silence')
    BY <1>2, <1>3, <1>6, <2>1, FirstSides
  <2> HIDE DEF raw
  <2>3. /\ IsSession(both) /\ both.last1 = raw.last1 /\ both.last2 = raw.last2
        /\ both.alien1 = raw.alien1 /\ both.alien2 = raw.alien2 /\ both.numRtp = raw.numRtp
    BY <2>2 DEF IsSession, Core
  <2>4. session' = [both EXCEPT !.out = << >>]
    BY <1>3, <1>6 DEF Becomes
  <2> HIDE DEF both
  <2>5. KnownSides(scenario, both, silence')
    BY <2>2, <2>3 DEF KnownSides
  <2>6. QED
    BY <1>3, <1>6, <2>2, <2>3, <2>4, <2>5, NewSides
<1>7. QED
  BY <1>5, <1>6

\* The first call has no sides.
LEMMA SidesKnownInit == Init => SidesKnown
<1> SUFFICES ASSUME Init PROVE SidesKnown
  OBVIOUS
<1>1. /\ scenario \in Scenarios /\ sessions = 1
      /\ session = [NewCall(scenario, "s1", 1) EXCEPT !.out = << >>]
      /\ silence = [x \in Keys(scenario) |-> 0]
  BY DEF Init
<1>2. /\ IsSession(session) /\ session.out = << >>
      /\ session.last1 = NoPacket /\ session.last2 = NoPacket
      /\ session.alien1 = 0 /\ session.alien2 = 0 /\ session.numRtp = 0
  BY <1>1, NewCallSides
<1>3. \A x \in Keys(scenario) : silence[x] = 0
  BY <1>1
<1>4. SidesInv(scenario, session, silence, crossed)
  BY <1>2, <1>3, NoSides
<1>5. QED
  BY <1>1, <1>2, <1>4 DEF SidesKnown

\* Nor has the next.
LEMMA CallSides ==
  ASSUME SidesKnown, Call
  PROVE  SidesStep
<1> DEFINE s == [NewCall(scenario, Id(sessions + 1), now) EXCEPT !.out = << >>]
<1>1. /\ session' = s /\ scenario' = scenario /\ sessions' = sessions + 1
      /\ silence' = [x \in Keys(scenario) |-> 0]
  BY DEF Call, Becomes
<1>2. /\ IsSession(s) /\ s.out = << >> /\ s.last1 = NoPacket /\ s.last2 = NoPacket
      /\ s.alien1 = 0 /\ s.alien2 = 0 /\ s.numRtp = 0
  BY NewCallSides DEF SidesKnown
<1> HIDE DEF s
<1>3. \A x \in Keys(scenario) : silence'[x] = 0
  BY <1>1
<1>4. SidesInv(scenario, s, silence', crossed')
  BY <1>2, <1>3, NoSides
<1>5. sessions' \in Nat /\ sessions' # sessions
  BY <1>1 DEF SidesKnown
<1>6. QED
  BY <1>1, <1>2, <1>4, <1>5 DEF SidesStep, SidesKnown, SidesKept

\* Every step keeps what is known of the sides, and loses only one that was silent.
LEMMA SidesNext == SidesKnown /\ [Next]_vars => SidesStep
<1> SUFFICES ASSUME SidesKnown, [Next]_vars PROVE SidesStep
  OBVIOUS
<1>1. IsSession(session) /\ IsSeq(session.out) /\ scenario \in Scenarios
  BY NoCallBacks DEF SidesKnown
<1>2. \A x : Quiet([session EXCEPT !.keepRtp = x], session)
  BY <1>1, KeptQuiet
<1>3. CASE RtpPacket
  BY <1>3, RtpPacketSides
<1>4. CASE Invite
  <2>1. PICK inv \in scenario.reinvites : Signal("invite", ReportSipInvite(scenario, session, inv))
    BY <1>4 DEF Invite
  <2>2. Quiet(ReportSipInvite(scenario, session, inv), session)
    BY <1>1, ReportSipInviteQuiet, ScenarioTypes
  <2>3. QED
    BY <2>1, <2>2, SignalSides
<1>5. CASE Hold
  BY <1>1, <1>5, GoOnHoldQuiet, SignalSides DEF Hold
<1>6. CASE Resume
  BY <1>1, <1>6, GoOffHoldQuiet, SignalSides DEF Resume
<1>7. CASE Info
  BY <1>1, <1>7, ReportSipInfoQuiet, SignalSides DEF Info
<1>8. CASE Refer
  BY <1>1, <1>8, TagsQuiet, SignalSides DEF Refer
<1>9. CASE Failure
  BY <1>1, <1>9, TagsQuiet, EndSides DEF Failure
<1>10. CASE Notify
  BY <1>1, <1>10, TagsQuiet, SignalSides DEF Notify
<1>11. CASE Rtcp
  BY <1>1, <1>11, RtcpQuiet, SignalSides DEF Rtcp
<1>12. CASE StartCapture
  BY <1>1, <1>12, StartCaptureQuiet, SignalSides DEF StartCapture
<1>13. CASE PauseCapture
  <2>1. Signal("pause", [session EXCEPT !.keepRtp = FALSE])
    BY <1>13 DEF PauseCapture
  <2>2. QED
    BY <1>2, <2>1, SignalSides
<1>14. CASE FindLiveSession
  BY <1>14, StillSides DEF FindLiveSession, history
<1>15. CASE EnterFilter \/ OpenStream \/ ListCall \/ TellTape
  BY <1>15, StillSides DEF EnterFilter, OpenStream, ListCall, TellTape, LiveThread
<1>16. Quiet(session, session)
  BY <1>1, QuietSelf DEF Same
<1>17. CASE Hangup
  BY <1>16, <1>17, EndSides DEF Hangup
<1>18. CASE Bye
  BY <1>1, <1>18, ReportSipByeQuiet, EndSides DEF Bye
<1>19. CASE Call
  BY <1>19, CallSides
<1>20. CASE Tick
  BY <1>20, StillSides DEF Tick, history
<1>21. CASE UNCHANGED vars
  BY <1>21, StillSides DEF vars, history
<1>22. QED
  BY <1>3, <1>4, <1>5, <1>6, <1>7, <1>8, <1>9, <1>10, <1>11, <1>12, <1>13, <1>14, <1>15,
     <1>17, <1>18, <1>19, <1>20, <1>21 DEF Next

\* Whatever streams pass by the addresses of a call, and however the counters of
\* foreign packets are shared, no stream loses its side of the recording to them but
\* after more than AlienPackets of them, and none of its own that counted.
THEOREM LiveSidesKept == Spec => NoLiveSideIsReplaced
<1>1. SidesKnown /\ [Next]_vars => SidesKnown'
  BY SidesNext DEF SidesStep
<1>2. SidesKnown /\ [Next]_vars => [sessions' = sessions /\ ~crossed =>
       \A x \in Sides(session) \ Sides(session') : silence'[x] > AlienPackets]_vars
  BY SidesNext DEF SidesStep, SidesKept
<1>3. QED
  BY SidesKnownInit, <1>1, <1>2, PTL DEF Spec, NoLiveSideIsReplaced

=============================================================================
