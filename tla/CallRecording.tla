---------------------------- MODULE CallRecording ----------------------------
(***************************************************************************)
(* Calls as they are recorded: a network sends RTP and signalling to the   *)
(* session of a call, which tells the capture port what to record under    *)
(* which parties.  A packet that is foreign to the session ends it, and a  *)
(* raw RTP session goes on with the packet.                                *)
(*                                                                         *)
(* All of this happens in the capture thread or under the mutex of the     *)
(* sessions, so that every packet and every command is one step.  Only the *)
(* commands of live streaming do not: they come from a thread of the HTTP  *)
(* server, whose steps the capture thread's fall between.                  *)
(***************************************************************************)
EXTENDS VoIpSession

CONSTANT Scenarios  \* configurations, each with the network it is tried on

ASSUME ScenarioTypes ==
  \A c \in Scenarios :
    /\ c.mode \in Modes /\ c.protocol \in {"Sip", "Skinny", "RawRtp"}
    /\ c.live \in {"no", "all", "asked"} /\ c.rtmp \in {"up", "down", "breaks"}
    /\ c.misused \in {"fails", "passes"}
    /\ c.advances \subseteq {"next", "again", "jump", "stall"}
    /\ c.loudness \subseteq Loudness /\ c.kinds \subseteq {"audio", "dynamic"} \cup Digits
    /\ \A x \in c.streams : x.src # x.dst
    /\ \A inv \in c.reinvites \cup {c.invite} : IsFiniteSet(DOMAIN inv.extractedFields)
    \* AcpConfig::Validate
    /\ c.s2Activity => c.discardUnidirectional /\ c.deterministic /\ c.s1IsLocal

VARIABLES
  scenario,
  now,
  net,       \* sequence number and timestamp of each stream
  session,   \* the session of the call
  up,        \* whether the call goes on
  recorder,  \* ports and tapes
  asked,     \* where the thread of the live streams is, and with which event for
             \* which port
  sessions,  \* number of sessions so far
  packets,   \* number of packets so far
  signals,   \* number of signals so far
  \* history
  given,     \* chunks given to the ports
  starts,    \* EtStart events of the session
  told,      \* the parties and tags the session told last
  silence,   \* per side, foreign packets since its last packet that counted
  crossed    \* whether the sides were swapped while foreign packets were counted

network == <<net, packets>>
history == <<given, starts, told, silence, crossed>>
vars == <<scenario, now, network, session, up, recorder, asked, sessions, signals, history>>

Ids == {"s1", "s2", "s3"}
Id(n) == CASE n = 1 -> "s1" [] n = 2 -> "s2" [] OTHER -> "s3"
Ports == Ids \cup {"trunk", ""}

\* What DetectChannel knows a side by.
Key(p) == <<p.stream, p.dst>>
Keys(c) == {Key(x) : x \in c.streams}
Sides(s) == {Key(p) : p \in {s.last1, s.last2} \ {NoPacket}}

NothingAsked == [at |-> "idle", port |-> "", event |-> KeyValue("LiveStream", "stop")]

\* A call that is signalled, or will be found by its RTP.
NewCall(c, id, time) ==
  LET s == NewSession(c, id, c.protocol, time)
  IN CASE c.protocol = "Sip" ->
            ReportSipInvite(c, [s EXCEPT !.sipDialedNumber = c.invite.sipDialedNumber,
                                         !.isCallPickUp = c.isCallPickUp], c.invite)
       [] c.protocol = "Skinny" ->
            [s EXCEPT !.endPointIp = c.invite.receiver, !.localParty = c.invite.to,
                      !.remoteParty = c.invite.from, !.direction = "in"]
       [] OTHER -> s

\* A port takes what a session sends it.
CallBack(w, x) ==
  IF "event" \in DOMAIN x THEN CaptureEventCallBack(scenario, w, x.port, x.event, now)
  ELSE AddAudioChunk(scenario, w, x.port, x.chunk, now)

Learn(t, x) ==
  IF "event" \notin DOMAIN x THEN t
  ELSE CASE x.event.type = "EtLocalParty" -> [t EXCEPT !.localParty = x.event.value]
         [] x.event.type = "EtRemoteParty" -> [t EXCEPT !.remoteParty = x.event.value]
         [] x.event.type = "EtOrkUid" -> [t EXCEPT !.orkUid = x.event.value]
         [] x.event.type = "EtKeyValue" -> [t EXCEPT !.tags = (x.event.key :> x.event.value) @@ @]
         [] OTHER -> t

Chunks(out) ==
  LET chunks == SelectSeq(out, LAMBDA x : "chunk" \in DOMAIN x)
  IN [i \in 1..Len(chunks) |-> chunks[i].chunk]
IsStart(x) == "event" \in DOMAIN x /\ x.event.type = "EtStart"
Starting(out) == Cardinality({i \in DOMAIN out : IsStart(out[i])})

\* The step after which the session is s, all its call-backs having been made.
Becomes(s) ==
  /\ session' = [s EXCEPT !.out = << >>]
  /\ recorder' = FoldLeft(CallBack, recorder, s.out)
  /\ given' = given \o Chunks(s.out)
  /\ told' = FoldLeft(Learn, IF s.trackingId = session.trackingId THEN told
                             ELSE [told EXCEPT !.tags = << >>], s.out)

Init ==
  /\ scenario \in Scenarios
  /\ now = 1
  /\ net = [x \in {y.stream : y \in scenario.streams} |-> [seq |-> 0, ts |-> 0]]
  /\ session = [NewCall(scenario, "s1", 1) EXCEPT !.out = << >>]
  /\ up = TRUE
  /\ recorder = [ports |-> [p \in Ports |-> NewPort], tapes |-> << >>, streamCallList |-> {}]
  /\ asked = NothingAsked
  /\ sessions = 1 /\ packets = 0 /\ signals = 0
  /\ given = << >> /\ starts = 0
  /\ told = [localParty |-> None, remoteParty |-> None, orkUid |-> None, tags |-> << >>]
  /\ silence = [x \in Keys(scenario) |-> 0] /\ crossed = FALSE
-----------------------------------------------------------------------------
(* RTP                                                                     *)

\* How a stream may go on: the next packet, the same again, a packet of
\* another call on the same ports, or one after a pause.
Advance(how, x) ==
  CASE how = "next" -> [seq |-> x.seq + 1, ts |-> x.ts + 1]
    [] how = "again" -> x
    [] how = "jump" -> [seq |-> x.seq + MinSeqDelta + 2, ts |-> x.ts + MinSeqDelta + 2]
    [] OTHER -> [seq |-> x.seq + 1, ts |-> x.ts + 3]

\* A packet of neither side.
Foreign(p, s) == s.last2 # NoPacket /\ Key(p) \notin Sides(s)

\* Foreign packets that were kept count as silence of both sides.
Silence(p, before, after) ==
  [x \in Keys(scenario) |->
     IF x = Key(p) /\ after.numRtp > before.numRtp THEN 0
     ELSE IF after.last = p /\ Foreign(p, before) THEN silence[x] + 1
     ELSE silence[x]]

\* A stream of one side is now the other side, and the foreign packets of the
\* other side are counted as its own.
Crosses(before, after) ==
  /\ before.alien1 # 0 \/ before.alien2 # 0
  /\ \/ Key(after.last2) = Key(before.last1)
     \/ Key(after.last1) = Key(before.last2)

\* VoIpSessions::ReportRtpPacket
RtpPacket ==
  \E x \in scenario.streams, how \in scenario.advances, kind \in scenario.kinds,
     loudness \in scenario.loudness :
    LET y == Advance(how, net[x.stream])
        p == [stream |-> x.stream, src |-> x.src, dst |-> x.dst, seq |-> y.seq,
              ts |-> y.ts, at |-> now, kind |-> kind, loudness |-> loudness,
              n |-> packets + 1]
    IN \E r \in {AddRtpPacket(scenario, session, p)} :
    LET replaced == ~r.ok /\ (scenario.lookBack \/ scenario.trackRaw)
    IN \E raw \in {IF ~replaced THEN r.s
                   ELSE AddRtpPacket(scenario,
                          NewSession(scenario, Id(sessions + 1), "RawRtp", now), p).s} :
       /\ up /\ packets < scenario.packets
       /\ how = "again" => packets > 0
       /\ ~r.ok => sessions < Cardinality(Ids)
       /\ packets' = packets + 1
       /\ net' = [net EXCEPT ![x.stream] = y]
       /\ Becomes(IF r.ok THEN r.s
                  ELSE IF replaced THEN [raw EXCEPT !.out = Stop(scenario, r.s).out \o @]
                  ELSE Stop(scenario, r.s))
       /\ up' = (r.ok \/ replaced)
       /\ sessions' = IF replaced THEN sessions + 1 ELSE sessions
       /\ starts' = IF replaced THEN Starting(raw.out) ELSE starts + Starting(r.s.out)
       /\ silence' = IF replaced THEN [side \in Keys(scenario) |-> 0] ELSE Silence(p, session, r.s)
       /\ crossed' = (~replaced /\ (crossed \/ Crosses(session, r.s)))
       /\ UNCHANGED <<scenario, now, signals, asked>>
-----------------------------------------------------------------------------
(* Signalling, RTCP and the commands of the API                            *)

Signal(what, s) ==
  /\ up /\ signals < scenario.signals
  /\ what \in scenario.signalling
  /\ signals' = signals + 1
  /\ Becomes(s)
  /\ UNCHANGED <<scenario, now, network, up, asked, sessions, starts, silence, crossed>>

\* Signalling finds a session by its call id, which raw RTP has none of.
Sip(s) == s.protocol = "Sip"

Invite == Sip(session) /\ \E inv \in scenario.reinvites :
                            Signal("invite", ReportSipInvite(scenario, session, inv))
Hold == session.protocol # "RawRtp" /\ Signal("hold", GoOnHold(scenario, session, now))

\* A phone may resume a call that is not on hold, an INVITE does not.
Resume == /\ session.protocol # "RawRtp" /\ (Sip(session) => session.onHold)
          /\ Signal("resume", GoOffHold(scenario, session, now))
Info == Sip(session) /\ \E i \in scenario.infos :
                          Signal("info", ReportSipInfo(scenario, session, i))
Refer == Sip(session) /\ Signal("refer", ReportSipRefer(session))
Notify == Sip(session) /\ Signal("notify", ReportSipNotify(scenario, session, <<"dsp">>))
Rtcp == \E cname \in scenario.cnames :
          Signal("rtcp", ReportRtcpSrcDescription(scenario, session, cname))

\* The API finds a session by its party, which the first packet tells, or by its
\* call id.
Known(by, s) == IF by = "party" THEN s.localParty # None ELSE s.protocol # "RawRtp"
StartCapture ==
  \E by \in {"party", "callId"} :
    /\ Known(by, session)
    /\ Signal("start", MarkAsOnDemand([session EXCEPT !.keepRtp = TRUE], "both"))
PauseCapture ==
  \E by \in {"party", "callId"} :
    /\ Known(by, session)
    /\ Signal("pause", [session EXCEPT !.keepRtp = FALSE])

\* LiveStreamSessions::StartStreamNativeCallId and StopStreamNativeCallId look
\* for the session without the mutex of the sessions ...
FindLiveSession ==
  \E what \in {"start", "stop"} :
    /\ up /\ "live" \in scenario.signalling /\ signals < scenario.signals
    /\ asked.at = "idle"
    /\ session.protocol # "RawRtp"
    /\ what = "stop" => CallIdOf(session) \in recorder.streamCallList
    /\ signals' = signals + 1
    /\ asked' = [at |-> "found", port |-> session.capturePort,
                 event |-> KeyValue("LiveStream", what)]
    /\ UNCHANGED <<scenario, now, network, session, up, recorder, sessions, history>>

\* The thread goes on from one place to another, the capture thread being
\* anywhere: the call may have ended meanwhile.
LiveThread(from, to, w) ==
  /\ asked.at = from
  /\ recorder' = w
  /\ asked' = IF to = "idle" THEN NothingAsked ELSE [asked EXCEPT !.at = to]
  /\ UNCHANGED <<scenario, now, network, session, up, sessions, signals, given, starts,
                 silence, crossed>>

\* ... and then call back its port, whose filter makes a stream, or stops
\* streaming to the one it has ...
EnterFilter ==
  LET w == IF scenario.mode = "plain" THEN recorder
           ELSE QueueCaptureEvent(recorder, asked.port, asked.event)
      opens == Opens(scenario, asked.event) /\ w.ports[asked.port].live.callId # << >>
  IN /\ told' = Learn(told, asked)
     /\ \/ /\ opens
           /\ LiveThread("found", "opening", [w EXCEPT !.ports[asked.port].live = Create(@)])
        \/ /\ ~opens
           /\ LiveThread("found", "filtered",
                         FilterCaptureEvent(scenario, w, asked.port, asked.event))

\* ... waits for the server's answers to its handshake, connection and publication ...
OpenStream ==
  \E accepted \in Answers(scenario, recorder.ports[asked.port].live) :
    /\ LiveThread("opening", IF accepted THEN "published" ELSE "filtered",
                  [recorder EXCEPT !.ports[asked.port].live = Published(@, accepted)])
    /\ UNCHANGED told

\* ... lists the call ...
ListCall ==
  /\ LiveThread("published", "filtered",
                [recorder EXCEPT !.streamCallList =
                                   @ \cup {recorder.ports[asked.port].live.callId}])
  /\ UNCHANGED told

\* ... and the port gives the event to its tape.
TellTape ==
  /\ LiveThread("filtered", "idle",
                HandleCaptureEvent(scenario, recorder, asked.port, asked.event, now))
  /\ UNCHANGED told

EndOf(s) ==
  /\ up
  /\ up' = FALSE
  /\ Becomes(Stop(scenario, s))
  /\ UNCHANGED <<scenario, now, network, asked, sessions, signals, starts, silence, crossed>>

\* The sweep of the sessions that are silent, or the end of another protocol.
Hangup == EndOf(session)
Bye == Sip(session) /\ \E bye \in scenario.byes : EndOf(ReportSipBye(scenario, session, bye))
Failure == Sip(session) /\ "error" \in scenario.signalling /\ EndOf(ReportSipErrorPacket(session))

\* The next call.
Call ==
  /\ ~up /\ sessions < scenario.calls
  /\ up' = TRUE
  /\ sessions' = sessions + 1
  /\ Becomes(NewCall(scenario, Id(sessions + 1), now))
  /\ starts' = 0
  /\ silence' = [x \in Keys(scenario) |-> 0] /\ crossed' = FALSE
  /\ UNCHANGED <<scenario, now, network, signals, asked>>

Tick ==
  /\ now < scenario.ticks
  /\ now' = now + 1
  /\ UNCHANGED <<scenario, network, session, up, recorder, asked, sessions, signals, history>>

Next ==
  \/ RtpPacket \/ Invite \/ Hold \/ Resume \/ Info \/ Refer \/ Failure \/ Notify \/ Rtcp
  \/ StartCapture \/ PauseCapture \/ Hangup \/ Bye \/ Call \/ Tick
  \/ FindLiveSession \/ EnterFilter \/ OpenStream \/ ListCall \/ TellTape

Spec == Init /\ [][Next]_vars
-----------------------------------------------------------------------------
\* OrkSession::DetectChannel and the candidates of AddRtpPacket: a stream only
\* loses its side of the recording after more than AlienPackets packets of others
\* came, and none of its own that counted.  (Sides that were
\* swapped while foreign packets were counted are excepted: see the README.)
NoLiveSideIsReplaced ==
  [][sessions' = sessions /\ ~crossed =>
       \A x \in Sides(session) \ Sides(session') : silence'[x] > AlienPackets]_vars

\* Whether the session should have been started by now.  Left out are calls
\* whose start waits for a loud second side, and with DiscardUnidirectionalCalls
\* those that are not SIP or were paused before they had both sides.
Due(c, s) ==
  /\ ~c.s2Activity
  /\ IF c.lookBack
     THEN /\ s.numRtp >= IF s.protocol = "RawRtp" THEN MinPackets ELSE 2
          /\ c.discardUnidirectional =>
               s.last2 # NoPacket /\ s.protocol = "Sip" /\ s.numIgnored = 0
     ELSE /\ s.metadataProcessed /\ s.protocol # "RawRtp"
          /\ c.discardUnidirectional => s.last2 # NoPacket

\* VoIpSession::Start is called at eight places of AddRtpPacket and
\* DetectChannel: they must amount to one start of every call.  (Raw RTP without
\* look-back is excepted: see the README.)
RecordedOnce ==
  /\ Due(scenario, session) => starts > 0
  /\ starts <= 1 \/ (session.protocol = "RawRtp" /\ ~scenario.lookBack)

Taped == FlattenSeq([i \in 1..Len(recorder.tapes) |-> recorder.tapes[i].chunks])

\* CapturePort::AddAudioChunk: what a session has recorded is on the tapes, once
\* and in order, over all starts, stops and segments.  VAD leaves out what is
\* silent, and a port that segments and is used again what comes before its last
\* segment is over; but a tape has no gap.
NothingLostOnTape ==
  IF scenario.mode = "plain" \/ (scenario.mode = "segmentation" /\ ~scenario.sangoma)
  THEN Taped = given
  ELSE /\ \A i \in 1..Len(Taped) - 1 : Taped[i].n < Taped[i + 1].n
       /\ \A i \in 1..Len(recorder.tapes) :
            LET chunks == recorder.tapes[i].chunks
            IN chunks # << >> =>
                 \E k \in 0..Len(given) - Len(chunks) :
                   SubSeq(given, k + 1, k + Len(chunks)) = chunks

\* ReportEventBacklog and ClearEventQueue of CapturePort: whatever tape is being
\* recorded carries the parties and the OrkUid that the session of its own call
\* told last, and no tag that an earlier call on its port told.  (A command of the
\* HTTP server that is under way may not have told the tape yet.)
TapesCarryTheParties ==
  \A p \in Ports :
    recorder.ports[p].capturing =>
      LET t == recorder.tapes[recorder.ports[p].tape]
      IN /\ t.localParty = told.localParty /\ t.remoteParty = told.remoteParty
         /\ SubSeq(t.orkUid, 1, 2) = told.orkUid
         /\ \A k \in DOMAIN t.tags :
              /\ k \in DOMAIN told.tags
              /\ (asked.at # "idle" /\ k = asked.event.key) \/ t.tags[k] = told.tags[k]

\* RingBuffer.h and PushToRTMP: of the side that spoke first nothing is streamed
\* twice, out of order, or lost, but for what still waits in the ring, and the other
\* side is streamed in order, whatever starts, stops and breaks of the stream came
\* in between, by segments, calls or the thread of the HTTP server.
LiveAudioInOrder ==
  \A p \in Ports :
    LET l == recorder.ports[p].live
        other == Heard(l, 1)
    IN /\ Heard(l, 2) \o Waiting(l) = l.waited
       /\ \A i \in 1..Len(other) - 1 : other[i] < other[i + 1]

\* OrkSession.cpp:108, "it starts the session if session is set to start with the
\* first s2", and VoIpSession.cpp:1416, "We've got enough packets to start the
\* session": a call with both sides and enough packets is recorded.
BidirectionalCallsStart ==
  scenario.discardUnidirectional /\ scenario.lookBack /\ ~scenario.s2Activity
  /\ session.last2 # NoPacket
  /\ session.numRtp >= (IF session.protocol = "RawRtp" THEN MinPackets ELSE 2)
    => session.started
=============================================================================
