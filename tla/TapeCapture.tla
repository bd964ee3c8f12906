---------------------------- MODULE TapeCapture ----------------------------
(***************************************************************************)
(* The audio path of one capture port: CapturePort::AddAudioChunk and      *)
(* AddCaptureEvent (plain mode, neither VAD nor segmentation) run by a     *)
(* capture thread, and the one ImmediateProcessing thread that writes the  *)
(* tapes to disk and hands finished ones to the processing chain.          *)
(*                                                                         *)
(* The two threads share the tapes.  AudioTape::m_mutex protects the chunk *)
(* queue and ImmediateProcessing::m_mutex the queue of tapes; m_state,     *)
(* m_shouldStop, m_duration and m_keep are read and written with no lock,  *)
(* so each access to them by the other thread is a step of its own.        *)
(*                                                                         *)
(* Chunks are numbered in the order of capture; one chunk counts as one    *)
(* byte of m_bytesWritten and of m_chunkQueueDataSize.                     *)
(***************************************************************************)
EXTENDS Naturals, Sequences, FiniteSets

CONSTANTS
  MaxTapes,                \* bound on the EtStart events explored
  MaxChunks,               \* bound on the chunks captured
  MaxStops,                \* bound on the EtStop events, repeated ones included
  MaxCalls,                \* bound on the chunks and EtStop events together
  ChunkQueueLimit,         \* 3 * CaptureFileBatchSizeKByte
  CaptureFileSizeLimit,    \* CaptureFileSizeLimitKb
  TapeDurationMinimumSec,
  Durations,               \* lengths of calls, in seconds
  KeepValues,              \* values the "Keep" tag is given
  PartyFilterSettings      \* values of PartyFilterActive explored

ASSUME BoundsAreNat ==
  /\ MaxTapes \in Nat /\ MaxChunks \in Nat /\ MaxStops \in Nat
  /\ MaxCalls \in Nat
  /\ ChunkQueueLimit \in Nat /\ CaptureFileSizeLimit \in Nat
  /\ TapeDurationMinimumSec \in Nat /\ Durations \subseteq Nat
ASSUME FlagsAreBoolean == PartyFilterSettings \subseteq BOOLEAN /\ KeepValues \subseteq BOOLEAN

NULL  == 0
Tapes == 1..MaxTapes
Chunks == 1..MaxChunks

VARIABLES
  \* CapturePort, used by the capture thread only
  m_audioTapeRef, m_capturing,
  numTapes, numChunks, numStops,  \* EtStart, chunks and EtStop so far
  capPc,                     \* where the capture thread is
  \* AudioTape, one function per member
  m_state, m_chunkQueue, m_shouldStop, m_duration, m_keep,
  m_passedPartyFilterTest, m_audioFileRef, m_readyForBatchProcessing, m_isQueued,
  \* ImmediateProcessing
  m_audioTapeQueue, m_semaphore,
  immPc, immTape, immChunk,  \* where its thread is, its tape and its chunk
  stopping,                  \* Daemon::IsStopping()
  PartyFilterActive,         \* whether <PartyFilter> is configured
  \* history
  filed,        \* chunks for which AudioFile::WriteChunk returned, per tape
  ended,        \* tapes that received EtStop
  callDuration, \* length of the call by its last EtStop
  handed,       \* tapes given to the processing chain, in order
  tooShort,     \* tapes deleted for being too short
  notKept       \* tapes deleted for carrying Keep=0

portVars == <<m_audioTapeRef, m_capturing, numTapes, numChunks, numStops, capPc>>
tapeVars == <<m_state, m_chunkQueue, m_shouldStop, m_duration, m_keep,
              m_passedPartyFilterTest, m_audioFileRef, m_readyForBatchProcessing>>
queueVars == <<m_isQueued, m_audioTapeQueue, m_semaphore>>
immVars == <<immPc, immTape, immChunk>>
endVars == <<ended, callDuration>>
doneVars == <<handed, tooShort, notKept>>
daemonVars == <<stopping, PartyFilterActive>>
vars == <<portVars, tapeVars, queueVars, immVars, daemonVars, filed, endVars, doneVars>>

Init ==
  /\ m_audioTapeRef = NULL
  /\ m_capturing = FALSE
  /\ numTapes = 0
  /\ numChunks = 0
  /\ numStops = 0
  /\ capPc = "idle"
  /\ m_state = [t \in Tapes |-> "Created"]
  /\ m_chunkQueue = [t \in Tapes |-> << >>]
  /\ m_shouldStop = [t \in Tapes |-> FALSE]
  /\ m_duration = [t \in Tapes |-> 0]
  /\ m_keep = [t \in Tapes |-> TRUE]
  /\ m_passedPartyFilterTest = [t \in Tapes |-> FALSE]
  /\ m_audioFileRef = [t \in Tapes |-> "none"]
  /\ m_readyForBatchProcessing = [t \in Tapes |-> FALSE]
  /\ m_isQueued = [t \in Tapes |-> FALSE]
  /\ m_audioTapeQueue = << >>
  /\ m_semaphore = 0
  /\ immPc = "acquire"
  /\ immTape = NULL
  /\ immChunk = NULL
  /\ stopping = FALSE /\ PartyFilterActive \in PartyFilterSettings
  /\ filed = [t \in Tapes |-> << >>]
  /\ ended = {}
  /\ callDuration = [t \in Tapes |-> 0]
  /\ handed = << >>
  /\ tooShort = {}
  /\ notKept = {}
-----------------------------------------------------------------------------
(* The capture thread.                                                     *)

\* CapturePort::AddCaptureEvent(EtStart).  The previous tape, if any, is only
\* told to stop: nothing is queued for ImmediateProcessing.
EtStart ==
  /\ capPc = "idle"
  /\ numTapes < MaxTapes
  /\ m_capturing' = TRUE
  /\ m_shouldStop' = IF m_audioTapeRef = NULL THEN m_shouldStop
                     ELSE [m_shouldStop EXCEPT ![m_audioTapeRef] = TRUE]
  /\ numTapes' = numTapes + 1
  /\ m_audioTapeRef' = numTapes + 1
  /\ UNCHANGED <<numChunks, numStops, capPc, m_state, m_chunkQueue, m_duration,
                 m_keep, m_passedPartyFilterTest, m_audioFileRef,
                 m_readyForBatchProcessing, queueVars, immVars, daemonVars, filed,
                 endVars, doneVars>>

\* CapturePort::AddAudioChunk down to the unlocked test of m_state that opens
\* AudioTape::AddAudioChunk.
AddAudioChunk ==
  /\ capPc = "idle"
  /\ numChunks < MaxChunks /\ numChunks + numStops < MaxCalls
  /\ numChunks' = numChunks + 1
  /\ \/ /\ m_audioTapeRef # NULL /\ m_capturing
        /\ capPc' = IF m_state[m_audioTapeRef] \in {"Created", "Active"}
                    THEN "push" ELSE "notify"
     \/ /\ m_audioTapeRef = NULL \/ ~m_capturing
        /\ UNCHANGED capPc
  /\ UNCHANGED <<m_audioTapeRef, m_capturing, numTapes, numStops, tapeVars, queueVars,
                 immVars, daemonVars, filed, endVars, doneVars>>

\* Slip: the newest chunk is put where the oldest is taken from.
pushFront(queue, chunk) == <<chunk>> \o queue

pushBack(queue, chunk) == Append(queue, chunk)

\* The locked part of AudioTape::AddAudioChunk.
PushChunk ==
  /\ capPc = "push"
  /\ m_chunkQueue' =
       IF Len(m_chunkQueue[m_audioTapeRef]) >= ChunkQueueLimit
       THEN m_chunkQueue
       ELSE [m_chunkQueue EXCEPT ![m_audioTapeRef] = pushBack(@, numChunks)]
  /\ capPc' = "notify"
  /\ UNCHANGED <<m_audioTapeRef, m_capturing, numTapes, numChunks, numStops, m_state,
                 m_shouldStop, m_duration, m_keep, m_passedPartyFilterTest,
                 m_audioFileRef, m_readyForBatchProcessing, queueVars, immVars,
                 daemonVars, filed, endVars, doneVars>>

\* CapturePort::AddCaptureEvent(EtStop): AudioTape::AddCaptureEvent raises
\* m_shouldStop first and sets m_duration afterwards.
EtStop ==
  /\ capPc = "idle"
  /\ m_audioTapeRef # NULL
  /\ numStops < MaxStops /\ numChunks + numStops < MaxCalls
  /\ numStops' = numStops + 1
  /\ m_capturing' = FALSE
  /\ m_shouldStop' = [m_shouldStop EXCEPT ![m_audioTapeRef] = TRUE]
  /\ ended' = ended \cup {m_audioTapeRef}
  /\ \E d \in Durations :
       /\ d >= callDuration[m_audioTapeRef]
       /\ callDuration' = [callDuration EXCEPT ![m_audioTapeRef] = d]
  /\ capPc' = "duration"
  /\ UNCHANGED <<m_audioTapeRef, numTapes, numChunks, m_state, m_chunkQueue,
                 m_duration, m_keep, m_passedPartyFilterTest, m_audioFileRef,
                 m_readyForBatchProcessing, queueVars, immVars, daemonVars, filed, doneVars>>

SetDuration ==
  /\ capPc = "duration"
  /\ m_duration' = [m_duration EXCEPT ![m_audioTapeRef] = callDuration[m_audioTapeRef]]
  /\ capPc' = "notify"
  /\ UNCHANGED <<m_audioTapeRef, m_capturing, numTapes, numChunks, numStops, m_state,
                 m_chunkQueue, m_shouldStop, m_keep, m_passedPartyFilterTest,
                 m_audioFileRef, m_readyForBatchProcessing, queueVars, immVars,
                 daemonVars, filed, endVars, doneVars>>

\* ImmediateProcessing::Push, the last thing done for a chunk and for EtStop.
\* The semaphore is released even when the tape is queued already.
Push ==
  /\ capPc = "notify"
  /\ \/ /\ ~m_isQueued[m_audioTapeRef]
        /\ m_isQueued' = [m_isQueued EXCEPT ![m_audioTapeRef] = TRUE]
        /\ m_audioTapeQueue' = Append(m_audioTapeQueue, m_audioTapeRef)
     \/ /\ m_isQueued[m_audioTapeRef]
        /\ UNCHANGED <<m_isQueued, m_audioTapeQueue>>
  /\ m_semaphore' = m_semaphore + 1
  /\ capPc' = "idle"
  /\ UNCHANGED <<m_audioTapeRef, m_capturing, numTapes, numChunks, numStops, tapeVars, immVars,
                 daemonVars, filed, endVars, doneVars>>

\* AudioTape::AddCaptureEvent(EtKeyValue) with the key "Keep".
EtKeep(keep) ==
  /\ capPc = "idle"
  /\ m_audioTapeRef # NULL
  /\ m_keep' = [m_keep EXCEPT ![m_audioTapeRef] = keep]
  /\ UNCHANGED <<portVars, m_state, m_chunkQueue, m_shouldStop, m_duration,
                 m_passedPartyFilterTest, m_audioFileRef, m_readyForBatchProcessing,
                 queueVars, immVars, daemonVars, filed, endVars, doneVars>>

\* AudioTape::AddCaptureEvent(EtRemoteParty or EtLocalParty) with a party that
\* matches the filter.
EtParty ==
  /\ capPc = "idle"
  /\ m_audioTapeRef # NULL
  /\ PartyFilterActive /\ ~m_passedPartyFilterTest[m_audioTapeRef]
  /\ m_passedPartyFilterTest' = [m_passedPartyFilterTest EXCEPT ![m_audioTapeRef] = TRUE]
  /\ UNCHANGED <<portVars, m_state, m_chunkQueue, m_shouldStop, m_duration, m_keep,
                 m_audioFileRef, m_readyForBatchProcessing, queueVars, immVars,
                 daemonVars, filed, endVars, doneVars>>

\* Daemon::Stop.
Stop ==
  /\ ~stopping
  /\ stopping' = TRUE
  /\ UNCHANGED <<PartyFilterActive, portVars, tapeVars, queueVars, immVars, filed, endVars, doneVars>>
-----------------------------------------------------------------------------
(* The ImmediateProcessing thread.                                         *)

takeToken == m_semaphore > 0 /\ m_semaphore' = m_semaphore - 1

\* The first half of ImmediateProcessing::Pop.
Acquire ==
  /\ immPc = "acquire"
  /\ takeToken
  /\ immPc' = "pop"
  /\ UNCHANGED <<portVars, tapeVars, m_isQueued, m_audioTapeQueue, immTape, immChunk,
                 daemonVars, filed, endVars, doneVars>>

\* Slip: the flag is not cleared, so that the tape is never queued again.
keepQueued(t) == UNCHANGED m_isQueued

clearQueued(t) == m_isQueued' = [m_isQueued EXCEPT ![t] = FALSE]

\* The locked half of ImmediateProcessing::Pop, and the test for NULL that
\* ThreadHandler makes of its result.  m_isQueued is cleared before the tape is
\* written, so that a chunk that comes during the write queues the tape again.
Pop ==
  /\ immPc = "pop"
  /\ \/ /\ m_audioTapeQueue # << >>
        /\ immTape' = Head(m_audioTapeQueue)
        /\ m_audioTapeQueue' = Tail(m_audioTapeQueue)
        /\ clearQueued(Head(m_audioTapeQueue))
        /\ immPc' = "write"
     \/ /\ m_audioTapeQueue = << >>
        /\ immPc' = IF stopping THEN "exited" ELSE "acquire"
        /\ UNCHANGED <<immTape, m_audioTapeQueue, m_isQueued>>
  /\ UNCHANGED <<portVars, tapeVars, m_semaphore, immChunk, daemonVars, filed, endVars,
                 doneVars>>

rejected(t) == PartyFilterActive /\ ~m_passedPartyFilterTest[t]

\* The beginning of AudioTape::Write: a tape that has not passed the party
\* filter becomes active without a file and has its chunks discarded.
Write ==
  /\ immPc = "write"
  /\ \/ /\ rejected(immTape)
        /\ m_state' = [m_state EXCEPT ![immTape] = IF @ = "Created" THEN "Active" ELSE @]
        /\ immPc' = "discard"
     \/ /\ ~rejected(immTape)
        /\ immPc' = "loop"
        /\ UNCHANGED m_state
  /\ UNCHANGED <<portVars, m_chunkQueue, m_shouldStop, m_duration, m_keep,
                 m_passedPartyFilterTest, m_audioFileRef, m_readyForBatchProcessing,
                 queueVars, immTape, immChunk, daemonVars, filed, endVars, doneVars>>

popChunk(t) == m_chunkQueue' = [m_chunkQueue EXCEPT ![t] = Tail(@)]

\* One turn of the discarding loop; Write returns when the queue is empty.
Discard ==
  /\ immPc = "discard"
  /\ \/ /\ m_chunkQueue[immTape] # << >>
        /\ popChunk(immTape)
        /\ UNCHANGED immPc
     \/ /\ m_chunkQueue[immTape] = << >>
        /\ immPc' = "ready"
        /\ UNCHANGED m_chunkQueue
  /\ UNCHANGED <<portVars, m_state, m_shouldStop, m_duration, m_keep,
                 m_passedPartyFilterTest, m_audioFileRef, m_readyForBatchProcessing,
                 queueVars, immTape, immChunk, daemonVars, filed, endVars, doneVars>>

\* The top of the writing loop: take the oldest chunk, or leave the loop.
TakeChunk ==
  /\ immPc = "loop"
  /\ \/ /\ m_state[immTape] # "Stopped"
        /\ m_chunkQueue[immTape] # << >>
        /\ immChunk' = Head(m_chunkQueue[immTape])
        /\ popChunk(immTape)
        /\ immPc' = "chunk"
     \/ /\ m_state[immTape] = "Stopped" \/ m_chunkQueue[immTape] = << >>
        /\ immPc' = "end"
        /\ UNCHANGED <<immChunk, m_chunkQueue>>
  /\ UNCHANGED <<portVars, m_state, m_shouldStop, m_duration, m_keep,
                 m_passedPartyFilterTest, m_audioFileRef, m_readyForBatchProcessing,
                 queueVars, immTape, daemonVars, filed, endVars, doneVars>>

m_bytesWritten(t) == Len(filed[t])

\* The body of the writing loop.  The first chunk creates and opens the file;
\* a failed Open, like a failed WriteChunk, throws, and the chunk is lost.
WriteChunk ==
  /\ immPc = "chunk"
  /\ immChunk' = NULL
  /\ m_state' = [m_state EXCEPT ![immTape] = "Active"]
  /\ \/ /\ m_state[immTape] = "Created"
        /\ \E file \in {"open", "unopened"} :
             /\ m_audioFileRef' = [m_audioFileRef EXCEPT ![immTape] = file]
             /\ \/ file = "open" /\ filed' = [filed EXCEPT ![immTape] = Append(@, immChunk)]
                \/ UNCHANGED filed
        /\ immPc' = "loop" /\ UNCHANGED capPc
     \/ /\ m_state[immTape] = "Active"
        /\ m_bytesWritten(immTape) <= CaptureFileSizeLimit
        /\ m_audioFileRef[immTape] # "none"
        /\ \/ filed' = [filed EXCEPT ![immTape] = Append(@, immChunk)]
           \/ UNCHANGED filed
        /\ immPc' = "loop" /\ UNCHANGED capPc
        /\ UNCHANGED m_audioFileRef
     \/ /\ m_state[immTape] = "Active"
        /\ m_bytesWritten(immTape) > CaptureFileSizeLimit
        /\ immPc' = "loop" /\ UNCHANGED capPc
        /\ UNCHANGED <<filed, m_audioFileRef>>
     \/ /\ m_state[immTape] = "Active"
        /\ m_bytesWritten(immTape) <= CaptureFileSizeLimit
        /\ m_audioFileRef[immTape] = "none"    \* WriteChunk on a NULL reference
        /\ immPc' = "crashed" /\ capPc' = "crashed"
        /\ UNCHANGED <<filed, m_audioFileRef>>
  /\ UNCHANGED <<m_audioTapeRef, m_capturing, numTapes, numChunks, numStops, m_chunkQueue, m_shouldStop, m_duration, m_keep,
                 m_passedPartyFilterTest, m_readyForBatchProcessing, queueVars, immTape,
                 daemonVars, endVars, doneVars>>

\* Slip: the file is left open.
leaveOpen(t) == UNCHANGED m_audioFileRef

closeFile(t) ==
  m_audioFileRef' = [m_audioFileRef EXCEPT ![t] = IF @ = "open" THEN "closed" ELSE @]

\* The end of AudioTape::Write: the test of m_shouldStop comes after the loop
\* has seen an empty queue.
StopTape ==
  /\ immPc = "end"
  /\ \/ /\ m_shouldStop[immTape] /\ m_state[immTape] # "Stopped"
        /\ m_state' = [m_state EXCEPT ![immTape] = "Stopped"]
        /\ closeFile(immTape)
        /\ m_readyForBatchProcessing' =
             [m_readyForBatchProcessing EXCEPT
                ![immTape] = @ \/ (m_audioFileRef[immTape] # "none" /\ m_bytesWritten(immTape) > 0)]
     \/ /\ ~m_shouldStop[immTape] \/ m_state[immTape] = "Stopped"
        /\ UNCHANGED <<m_state, m_audioFileRef, m_readyForBatchProcessing>>
  /\ immPc' = "ready"
  /\ UNCHANGED <<portVars, m_chunkQueue, m_shouldStop, m_duration, m_keep,
                 m_passedPartyFilterTest, queueVars, immTape, immChunk, daemonVars, filed,
                 endVars, doneVars>>

\* Slip: the flag is not toggled.
keepReady(t) == UNCHANGED m_readyForBatchProcessing

clearReady(t) ==
  m_readyForBatchProcessing' = [m_readyForBatchProcessing EXCEPT ![t] = FALSE]

\* AudioTape::IsReadyForBatchProcessing and what ThreadHandler does with a
\* finished tape: discard it, delete it or give it to the processing chain.
Dispose ==
  /\ immPc = "ready"
  /\ clearReady(immTape)
  /\ \/ /\ m_readyForBatchProcessing[immTape]
        /\ \/ /\ TapeDurationMinimumSec > 0 /\ m_duration[immTape] < TapeDurationMinimumSec
              /\ tooShort' = tooShort \cup {immTape}
              /\ UNCHANGED <<notKept, handed>>
           \/ /\ TapeDurationMinimumSec = 0 \/ m_duration[immTape] >= TapeDurationMinimumSec
              /\ ~m_keep[immTape]
              /\ notKept' = notKept \cup {immTape}
              /\ UNCHANGED <<tooShort, handed>>
           \/ /\ TapeDurationMinimumSec = 0 \/ m_duration[immTape] >= TapeDurationMinimumSec
              /\ m_keep[immTape]
              /\ handed' = Append(handed, immTape)
              /\ UNCHANGED <<tooShort, notKept>>
     \/ /\ ~m_readyForBatchProcessing[immTape]
        /\ UNCHANGED <<tooShort, notKept, handed>>
  /\ immTape' = NULL
  /\ immPc' = "acquire"
  /\ UNCHANGED <<portVars, m_state, m_chunkQueue, m_shouldStop, m_duration, m_keep,
                 m_passedPartyFilterTest, m_audioFileRef, queueVars, immChunk, daemonVars,
                 filed, endVars>>

Capture ==
  \/ EtStart \/ AddAudioChunk \/ PushChunk \/ EtStop \/ SetDuration \/ Push
  \/ (\E keep \in KeepValues : EtKeep(keep)) \/ EtParty

Immediate ==
  Acquire \/ Pop \/ Write \/ Discard \/ TakeChunk \/ WriteChunk \/ StopTape \/ Dispose

Next == Capture \/ Immediate \/ Stop

Spec == Init /\ [][Next]_vars

\* Both threads are scheduled; a capture thread finishes the call it is in, and
\* nothing obliges calls to start, to bring audio or to stop.
Fairness ==
  /\ WF_vars(Immediate)
  /\ WF_vars(PushChunk \/ SetDuration \/ Push)

FairSpec == Spec /\ Fairness
-----------------------------------------------------------------------------
(* Properties *)

PortType ==
  /\ m_audioTapeRef \in Tapes \cup {NULL} /\ m_capturing \in BOOLEAN
  /\ numTapes \in 0..MaxTapes /\ numChunks \in 0..MaxChunks /\ numStops \in 0..MaxStops
  /\ capPc \in {"idle", "push", "duration", "notify", "crashed"}

TapeType ==
  /\ m_state \in [Tapes -> {"Created", "Active", "Stopped"}]
  /\ m_chunkQueue \in [Tapes -> Seq(Chunks)]
  /\ m_shouldStop \in [Tapes -> BOOLEAN]
  /\ m_duration \in [Tapes -> Nat]
  /\ m_keep \in [Tapes -> BOOLEAN]
  /\ m_passedPartyFilterTest \in [Tapes -> BOOLEAN]
  /\ m_audioFileRef \in [Tapes -> {"none", "open", "unopened", "closed"}]
  /\ m_readyForBatchProcessing \in [Tapes -> BOOLEAN]

QueueType ==
  /\ m_isQueued \in [Tapes -> BOOLEAN]
  /\ m_audioTapeQueue \in Seq(Tapes)
  /\ m_semaphore \in Nat

ImmType ==
  /\ immPc \in {"acquire", "pop", "write", "discard", "loop", "chunk", "end", "ready",
                "crashed", "exited"}
  /\ immTape \in Tapes \cup {NULL} /\ immChunk \in Chunks \cup {NULL}

HistoryType ==
  /\ filed \in [Tapes -> Seq(Chunks)]
  /\ ended \in SUBSET Tapes
  /\ callDuration \in [Tapes -> Nat]
  /\ handed \in Seq(Tapes)
  /\ tooShort \in SUBSET Tapes /\ notKept \in SUBSET Tapes

\* Every member of the port, of its tapes and of ImmediateProcessing holds a
\* value of its type.
TypeOK ==
  /\ PortType /\ TapeType /\ QueueType /\ ImmType /\ HistoryType
  /\ stopping \in BOOLEAN /\ PartyFilterActive \in BOOLEAN

Queued(t) == \E i \in 1..Len(m_audioTapeQueue) : m_audioTapeQueue[i] = t

\* ImmediateProcessing::Push/Pop: m_isQueued tells exactly which tapes are in
\* the queue, no tape is in it twice, and each has a token of the semaphore
\* that will make the thread fetch it.
QueueAccount ==
  /\ \A t \in Tapes : m_isQueued[t] <=> Queued(t)
  /\ \A i, j \in 1..Len(m_audioTapeQueue) : m_audioTapeQueue[i] = m_audioTapeQueue[j] => i = j
  /\ Len(m_audioTapeQueue) <= m_semaphore + (IF immPc = "pop" THEN 1 ELSE 0)

\* The capture thread is about to queue t.
WillQueue(t) == m_audioTapeRef = t /\ capPc \in {"push", "duration", "notify", "crashed"}

\* The immediate thread has t, and is at one of these places.
ImmAt(t, places) == immTape = t /\ immPc \in places

ChunkWakeup(t) ==
  m_state[t] # "Stopped" /\ m_chunkQueue[t] # << >>
    => Queued(t) \/ WillQueue(t)
         \/ ImmAt(t, {"write", "discard", "loop", "chunk", "crashed"})

StopWakeup(t) ==
  ~PartyFilterActive /\ t \in ended /\ m_state[t] # "Stopped"
    => Queued(t) \/ WillQueue(t) \/ ImmAt(t, {"write", "loop", "chunk", "end"})

\* The m_isQueued test of ImmediateProcessing::Push never swallows a wake-up: a
\* chunk waiting in a tape that is not stopped, and the stop of a tape, are
\* always ahead of the immediate thread, in its queue, about to be put there,
\* or in the part of Write() that will still see them.
NoLostWakeup == \A t \in Tapes : ChunkWakeup(t) /\ StopWakeup(t)

IsHanded(t) == \E i \in 1..Len(handed) : handed[i] = t

\* IsReadyForBatchProcessing() toggles its flag "to ensure not processed
\* twice": a tape is discarded, deleted or handed to the processing chain at
\* most once, however often it is queued again after it stopped.
DisposedOnce ==
  /\ \A i, j \in 1..Len(handed) : handed[i] = handed[j] => i = j
  /\ \A t \in Tapes : IsHanded(t) => t \notin tooShort \cup notKept
  /\ tooShort \cap notKept = {}
  /\ \A t \in Tapes : m_readyForBatchProcessing[t]
                        => ~IsHanded(t) /\ t \notin tooShort \cup notKept

\* The chunks of t, oldest first: in the file, in the immediate thread's
\* hands, in the queue.
ChunksOf(t) ==
  filed[t] \o (IF ImmAt(t, {"chunk"}) THEN <<immChunk>> ELSE << >>) \o m_chunkQueue[t]

\* AudioTape::AddAudioChunk and Write: the file receives the chunks of its own
\* tape only, each at most once, in the order of capture, whatever was lost to
\* a full queue, a write error or the size limit.
FiledInOrder ==
  \A t \in Tapes :
    /\ \A i, j \in 1..Len(ChunksOf(t)) : i < j => ChunksOf(t)[i] < ChunksOf(t)[j]
    /\ \A u \in Tapes \ {t} : \A i \in 1..Len(ChunksOf(t)), j \in 1..Len(ChunksOf(u)) :
         ChunksOf(t)[i] # ChunksOf(u)[j]

\* The same in parts, with what makes it inductive: every chunk a tape holds was
\* captured, and the one about to be pushed is in no tape yet.
Ascending(q) == \A i, j \in 1..Len(q) : i < j => q[i] < q[j]
Before(q, r) == \A i \in 1..Len(q), j \in 1..Len(r) : q[i] < r[j]

Holds(t, c) ==
  \/ \E i \in 1..Len(filed[t]) : filed[t][i] = c
  \/ ImmAt(t, {"chunk"}) /\ immChunk = c
  \/ \E i \in 1..Len(m_chunkQueue[t]) : m_chunkQueue[t][i] = c

PartsInOrder(t) ==
  /\ Ascending(filed[t]) /\ Ascending(m_chunkQueue[t])
  /\ Before(filed[t], m_chunkQueue[t])
  /\ ImmAt(t, {"chunk"})
       => Before(filed[t], <<immChunk>>) /\ Before(<<immChunk>>, m_chunkQueue[t])

ChunkInv ==
  /\ \A t \in Tapes : PartsInOrder(t)
  /\ \A t \in Tapes, c \in Chunks :
       Holds(t, c) => c <= numChunks /\ (capPc = "push" => c < numChunks)
  /\ \A t, u \in Tapes, c \in Chunks : Holds(t, c) /\ Holds(u, c) => t = u

\* Once ImmediateProcessing has disposed of a tape, its file is closed and
\* AudioTape::Write adds nothing to it: the next stages may read, rename and
\* delete it.
FileFrozen ==
  \A t \in Tapes :
    IsHanded(t) \/ t \in tooShort \cup notKept
      => filed'[t] = filed[t] /\ m_audioFileRef[t] # "open"

FileFrozenAfterDisposal == [][FileFrozen]_vars


\* Where the threads are, and what they hold there.
ThreadsConsistent ==
  /\ capPc \in {"push", "duration", "notify"} => m_audioTapeRef \in Tapes
  /\ capPc = "push" => numChunks \in Chunks
  /\ immPc \notin {"acquire", "pop", "exited"} => immTape \in Tapes
  /\ immPc = "chunk" => immChunk \in Chunks /\ m_state[immTape] # "Stopped"
  /\ immPc = "discard" => PartyFilterActive

\* What the unlocked members of a tape say about each other.
TapeConsistent(t) ==
  /\ t \in ended => m_shouldStop[t]
  /\ m_readyForBatchProcessing[t]
       => m_state[t] = "Stopped" /\ immPc = "ready" /\ immTape = t
  /\ IsHanded(t) \/ t \in tooShort \cup notKept => m_state[t] = "Stopped"
  /\ ~PartyFilterActive /\ m_state[t] = "Active" => m_audioFileRef[t] # "none"
  /\ m_state[t] = "Stopped" => m_audioFileRef[t] # "open"

TapesConsistent == \A t \in Tapes : TapeConsistent(t)

\* The inductive invariant of the proofs.
IInv ==
  /\ TypeOK /\ ThreadsConsistent /\ TapesConsistent
  /\ QueueAccount /\ NoLostWakeup /\ DisposedOnce

Settled(t) ==
  /\ m_state[t] = "Stopped"
  /\ m_bytesWritten(t) > 0 => IsHanded(t) \/ t \in tooShort \cup notKept

\* Under the fairness of the two threads, EtStop takes effect: unless the
\* daemon is stopping, the tape reaches StateStopped and, if it has audio, is
\* disposed of.
EveryEndedTapeSettles ==
  \A t \in Tapes : t \in ended /\ ~PartyFilterActive ~> Settled(t) \/ stopping

-----------------------------------------------------------------------------
(* What comments in the code say and the code does not keep.               *)

\* ImmediateProcessing.cpp:121, "is less than %d sec, discarding": only a tape
\* whose call was that short is discarded.  AddCaptureEvent(EtStop) raises
\* m_shouldStop before it sets m_duration, which is 0 until then.
DiscardedOnlyIfShort ==
  [][\A t \in tooShort' \ tooShort : callDuration[t] < TapeDurationMinimumSec]_vars
=============================================================================
