----------------------------- MODULE LiveStream -----------------------------
(***************************************************************************)
(* The live stream of a call (LiveStreamFilter.cpp, RingBuffer.h).  Every  *)
(* capture port has a filter that sees the chunks and the events of the    *)
(* port before the port does.  While it streams it sends frames of two     *)
(* channels: what the side that spoke first said waits in a ring buffer    *)
(* for the next chunk of the other side, and goes out over silence when    *)
(* the ring is full.                                                       *)
(*                                                                         *)
(* A thread of the HTTP server enters a filter without the mutex of the    *)
(* sessions, so that the parts of CaptureEventIn that open a stream are    *)
(* operators of their own.                                                 *)
(*                                                                         *)
(* A filter l belongs to a port; chunks are known by their numbers, and a  *)
(* frame is a pair of them.                                                *)
(***************************************************************************)
EXTENDS Integers, SequencesExt

CONSTANT QueueSize    \* LiveStreamingQueueFlushThreshold over 20 ms

ASSUME QueueSizeType == QueueSize \in Nat \ {0}

SILENCE == 0

\* rtmp is "null", "created", "open" (it is published) or "destroyed"; a destroyed
\* stream is not null.
NewLive ==
  [callId |-> << >>, status |-> FALSE, rtmp |-> "null", headChannel |-> 0,
   buf |-> [i \in 0..QueueSize - 1 |-> SILENCE], head |-> 0, tail |-> 0, full |-> FALSE,
   frames |-> << >>,   \* history: frames handed to the stream
   waited |-> << >>]   \* history: chunks that were put into the ring

next(i) == (i + 1) % QueueSize
empty(l) == ~l.full /\ l.head = l.tail

\* Slip: what is overwritten is not passed over.
putOverTail(l, n) ==
  [l EXCEPT !.buf[l.head] = n, !.head = next(@), !.full = next(l.head) = l.tail,
            !.waited = Append(@, n)]

\* RingBuffer::put, but for what it returns when the ring is full.
put(l, n) ==
  LET tail == IF l.full THEN next(l.tail) ELSE l.tail
  IN [l EXCEPT !.buf[l.head] = n, !.tail = tail, !.head = next(@),
               !.full = next(l.head) = tail, !.waited = Append(@, n)]

\* RingBuffer::get
get(l) == [l EXCEPT !.full = FALSE, !.tail = next(@)]

\* srs_audio_write_raw_frame fails.  The server may break off at the third frame;
\* what a write to a stream does that is not published yet, or was destroyed, is
\* undefined (it may also end the program).
WriteFails(c, l) ==
  \/ c.rtmp = "breaks" /\ Len(l.frames) = 2
  \/ l.rtmp # "open" /\ c.misused = "fails"

\* PushToRTMP
PushToRTMP(c, l, first, second) ==
  IF l.rtmp = "null" THEN l
  ELSE [l EXCEPT !.frames = Append(@, <<first, second>>),
                 !.status = @ /\ ~WriteFails(c, l)]

\* LiveStreamFilter::AudioChunkIn
AudioChunkIn(c, filter, chunk) ==
  LET l == [filter EXCEPT !.headChannel = IF @ = 0 THEN chunk.channel ELSE @]
      first == l.buf[l.tail]
  IN CASE ~l.status -> l
       [] l.status /\ chunk.channel = l.headChannel ->
            IF l.full THEN PushToRTMP(c, put(l, chunk.n), SILENCE, first) ELSE put(l, chunk.n)
       [] OTHER ->
            IF empty(l) THEN PushToRTMP(c, l, chunk.n, SILENCE)
            ELSE PushToRTMP(c, get(l), chunk.n, first)

\* A stream is made ...
Create(l) == [l EXCEPT !.rtmp = "created"]

\* ... which the server accepts, or not.  What comes of a stream that was destroyed
\* or published by another thread meanwhile is undefined.
Answers(c, l) ==
  CASE l.rtmp # "created" -> BOOLEAN
    [] c.rtmp = "up" -> {TRUE}
    [] c.rtmp = "down" -> {FALSE}
    [] OTHER -> BOOLEAN

\* ... and that is streamed to if it was.
Published(l, accepted) ==
  IF ~accepted THEN l
  ELSE [l EXCEPT !.status = TRUE, !.rtmp = IF @ = "created" THEN "open" ELSE @]

\* All of it, by the capture thread.
Open(c, l) == IF l.callId = << >> THEN l ELSE Published(Create(l), c.rtmp # "down")

IsLiveStream(e, value) ==
  e.type = "EtKeyValue" /\ e.key = "LiveStream" /\ e.value = value

Closes(e) == e.type = "EtStop" \/ IsLiveStream(e, "stop")

Opens(c, e) == IF c.live = "all" THEN e.type = "EtCallId"
               ELSE c.live = "asked" /\ IsLiveStream(e, "start")

\* LiveStreamFilter::CaptureEventIn
CaptureEventIn(c, filter, e) ==
  LET l == [filter EXCEPT !.callId = IF e.type = "EtCallId" THEN e.value ELSE @]
  IN CASE Opens(c, e) -> Open(c, l)
       [] Closes(e) ->
            [l EXCEPT !.status = FALSE,
                      !.rtmp = IF e.type = "EtStop" /\ @ # "null" THEN "destroyed" ELSE @]
       [] OTHER -> l

\* The calls that are said to be streamed.
StreamCallList(c, list, l, e) ==
  IF Opens(c, e) /\ l.callId # << >> /\ c.rtmp # "down" THEN list \cup {l.callId}
  ELSE IF Closes(e) THEN list \ {l.callId} ELSE list
-----------------------------------------------------------------------------
\* What is in the ring, first in first.
Waiting(l) ==
  LET size == IF l.full THEN QueueSize ELSE (l.head - l.tail) % QueueSize
  IN [i \in 1..size |-> l.buf[(l.tail + i - 1) % QueueSize]]

\* What was heard of one side.
Heard(l, side) ==
  LET heard[i \in 0..Len(l.frames)] ==
        IF i = 0 THEN << >>
        ELSE IF l.frames[i][side] = SILENCE THEN heard[i - 1]
        ELSE Append(heard[i - 1], l.frames[i][side])
  IN heard[Len(l.frames)]
=============================================================================
