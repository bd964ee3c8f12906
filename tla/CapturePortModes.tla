-------------------------- MODULE CapturePortModes --------------------------
(***************************************************************************)
(* What a capture port makes of the audio chunks and the events its        *)
(* plug-in sends (CapturePort.cpp and the call-backs of                    *)
(* CapturePluginProxy.cpp): it records what the plug-in starts and stops,  *)
(* or cuts the audio into segments of a given length, or records while     *)
(* there is a voice (VAD).  In the last two modes the plug-in's own start  *)
(* is ignored and the other events of the call are kept, to be replayed on *)
(* every tape the port starts.                                             *)
(*                                                                         *)
(* A recorder w is [ports, tapes, streamCallList]; a port refers to its    *)
(* tape by number, 0 is none.  Tapes only keep what a report of the call   *)
(* shows.                                                                  *)
(***************************************************************************)
EXTENDS LiveStream

CONSTANTS
  AudioSegmentDuration,  \* seconds
  VadHoldOn              \* chunks below the low threshold that end a recording

Modes == {"plain", "segmentation", "vad"}

\* Loudness of a chunk, by both thresholds; "unsupported" has no decoder.
Loudness == {"quiet", "medium", "loud", "unsupported"}

\* A capture event.  An EtKeyValue is [type, key, value].
Event(type, value) == [type |-> type, value |-> value]
KeyValue(key, value) == [type |-> "EtKeyValue", key |-> key, value |-> value]

NewPort == [capturing |-> FALSE, tape |-> 0, events |-> << >>, segmentNumber |-> 0,
            vadUp |-> FALSE, below |-> 0, live |-> NewLive]

NewTape(p, now) ==
  [port |-> p, begin |-> now, stops |-> 0, shouldStop |-> FALSE, chunks |-> << >>,
   localParty |-> << >>, remoteParty |-> << >>, direction |-> "unkn",
   localIp |-> "none", orkUid |-> << >>, tags |-> << >>, keep |-> "both",
   entryPoint |-> << >>, localSide |-> "unkn",
   lastHold |-> 0, holdDuration |-> 0, sent |-> << >>]

\* The members AudioTape::AddCaptureEvent sets.
Member == [EtLocalParty |-> "localParty", EtRemoteParty |-> "remoteParty",
           EtDirection |-> "direction", EtLocalIp |-> "localIp",
           EtOrkUid |-> "orkUid", EtAudioKeepDirection |-> "keep",
           EtLocalEntryPoint |-> "entryPoint", EtLocalSide |-> "localSide"]

\* Single digits are no tags unless DtmfReportingDetailed is set.
TapeCaptureEvent(t, e) ==
  IF e.type \in DOMAIN Member THEN [t EXCEPT ![Member[e.type]] = e.value]
  ELSE IF e.type = "EtKeyValue" /\ e.key # "dtmfdigit"
       THEN [t EXCEPT !.tags = (e.key :> e.value) @@ @]
  ELSE t

\* The message made of the tape's members for the trackers.
GetMessage(t) ==
  [t EXCEPT !.sent = Append(@, [localParty |-> t.localParty,
                                remoteParty |-> t.remoteParty, orkUid |-> t.orkUid])]

\* What an event other than EtStart does to the tape that takes it.
Take(c, t, e, now) ==
  CASE e.type = "EtStop" ->
         GetMessage([t EXCEPT !.shouldStop = TRUE, !.stops = @ + 1])
    [] e.type = "EtHold" ->
         IF t.lastHold # 0 THEN t
         ELSE LET held == [t EXCEPT !.lastHold = now]
              IN IF c.holdEvents THEN GetMessage(held) ELSE held
    [] e.type = "EtResume" ->
         IF t.lastHold = 0 THEN t
         ELSE LET resumed == [t EXCEPT !.holdDuration = @ + (now - t.lastHold)]
              IN [(IF c.holdEvents THEN GetMessage(resumed) ELSE resumed)
                    EXCEPT !.lastHold = 0]
    [] e.type \in {"EtEndMetadata", "EtUpdate"} -> GetMessage(t)
    [] OTHER -> TapeCaptureEvent(t, e)

\* CapturePort::FilterCaptureEvent
FilterCaptureEvent(c, w, p, e) ==
  IF c.live = "no" THEN w
  ELSE LET live == CaptureEventIn(c, w.ports[p].live, e)
       IN [w EXCEPT !.ports[p].live = live,
                    !.streamCallList = StreamCallList(c, @, live, e)]

\* What the port does with an event the filter has seen.
HandleCaptureEvent(c, w, p, e, now) ==
  LET cur == w.ports[p].tape
  IN IF e.type = "EtStart"
     THEN [w EXCEPT !.ports[p].capturing = TRUE,
                    !.ports[p].tape = Len(w.tapes) + 1,
                    !.tapes = Append(IF cur = 0 THEN @
                                     ELSE [@ EXCEPT ![cur].shouldStop = TRUE],
                                     NewTape(p, now))]
     ELSE IF cur = 0 THEN w
     ELSE [w EXCEPT !.ports[p].capturing = @ /\ e.type # "EtStop",
                    !.tapes[cur] = Take(c, @, e, now)]

\* CapturePort::AddCaptureEvent
AddCaptureEvent(c, w, p, e, now) ==
  HandleCaptureEvent(c, FilterCaptureEvent(c, w, p, e), p, e, now)

\* Events kept for the tapes to come are replayed; the call's OrkUid gets the
\* number of the segment.
ReportEventBacklog(c, w, p, now) ==
  LET replay(v, e) ==
        IF e.type # "EtOrkUid" THEN AddCaptureEvent(c, v, p, e, now)
        ELSE LET n == v.ports[p].segmentNumber + 1
             IN AddCaptureEvent(c, [v EXCEPT !.ports[p].segmentNumber = n], p,
                                Event("EtOrkUid", Append(e.value, n)), now)
  IN FoldLeft(replay, w, w.ports[p].events)

\* The port starts a tape of its own.  (The tape it makes before that is
\* replaced by EtStart's and nobody sees it.)
StartSegment(c, w, p, now) ==
  ReportEventBacklog(c, AddCaptureEvent(c, w, p, Event("EtStart", p), now), p, now)

StopSegment(c, w, p, now) == AddCaptureEvent(c, w, p, Event("EtStop", now), now)

\* Slip: the next segment is started before the last one is stopped.
SegmentStopLast(c, w, p, now) ==
  LET cur == w.ports[p].tape
  IN IF cur = 0 THEN StartSegment(c, w, p, now)
     ELSE IF now - w.tapes[cur].begin >= AudioSegmentDuration
     THEN StopSegment(c, StartSegment(c, w, p, now), p, now)
     ELSE w

\* <AudioSegmentation>
Segment(c, w, p, now) ==
  LET cur == w.ports[p].tape
  IN IF cur = 0 THEN StartSegment(c, w, p, now)
     ELSE IF now - w.tapes[cur].begin >= AudioSegmentDuration
     THEN StartSegment(c, StopSegment(c, w, p, now), p, now)
     ELSE w

\* <VAD>
DetectVoice(c, w, p, loudness, now) ==
  LET port == w.ports[p]
      below == IF loudness = "quiet" THEN port.below + 1 ELSE 0
      up == [w EXCEPT !.ports[p].vadUp = TRUE, !.ports[p].below = 0]
  IN IF loudness = "unsupported" THEN w
     ELSE IF port.vadUp
     THEN IF below <= VadHoldOn THEN [w EXCEPT !.ports[p].below = below]
          ELSE [StopSegment(c, w, p, now) EXCEPT !.ports[p].below = below,
                                                 !.ports[p].vadUp = FALSE,
                                                 !.ports[p].tape = 0]
     ELSE IF loudness # "loud" THEN w
     ELSE IF port.tape = 0 THEN StartSegment(c, up, p, now)
     ELSE up

\* CapturePort::FilterAudioChunk
FilterAudioChunk(c, w, p, chunk) ==
  IF c.live = "no" THEN w
  ELSE [w EXCEPT !.ports[p].live = AudioChunkIn(c, @, chunk)]

\* What the port does with a chunk the filter has seen.
HandleAudioChunk(c, w, p, chunk, now) ==
  LET v == CASE c.mode = "segmentation" -> Segment(c, w, p, now)
             [] c.mode = "vad" -> DetectVoice(c, w, p, chunk.loudness, now)
             [] OTHER -> w
      cur == v.ports[p].tape
  IN IF cur = 0 \/ ~v.ports[p].capturing THEN v
     ELSE [v EXCEPT !.tapes[cur].chunks = Append(@, chunk)]

\* CapturePort::AddAudioChunk
AddAudioChunk(c, w, p, chunk, now) ==
  HandleAudioChunk(c, FilterAudioChunk(c, w, p, chunk), p, chunk, now)

\* Slip: the events of a call that ends are kept.
CaptureEventCallBackKeeping(c, w, p, e, now) ==
  IF c.mode = "plain" THEN AddCaptureEvent(c, w, p, e, now)
  ELSE IF e.type = "EtStart" THEN w
  ELSE IF e.type = "EtStop" THEN AddCaptureEvent(c, w, p, e, now)
  ELSE AddCaptureEvent(c, [w EXCEPT !.ports[p].events = Append(@, e)], p, e, now)

\* CapturePort::QueueCaptureEvent
QueueCaptureEvent(w, p, e) == [w EXCEPT !.ports[p].events = Append(@, e)]

\* CapturePluginProxy::CaptureEventCallBack
CaptureEventCallBack(c, w, p, e, now) ==
  IF c.mode = "plain" THEN AddCaptureEvent(c, w, p, e, now)
  ELSE IF e.type = "EtStart" THEN w
  ELSE IF e.type = "EtStop"
  THEN AddCaptureEvent(c, [w EXCEPT !.ports[p].events = << >>], p, e, now)
  ELSE AddCaptureEvent(c, QueueCaptureEvent(w, p, e), p, e, now)
=============================================================================
