------------------------- MODULE TapeCaptureProofs -------------------------
(***************************************************************************)
(* Proofs about TapeCapture for every number of tapes, chunks and stops,   *)
(* every limit and with or without a party filter.                         *)
(***************************************************************************)
EXTENDS TapeCapture, TLAPS

USE DEF daemonVars, takeToken, clearQueued, rejected, popChunk, closeFile, clearReady

\* Append, Head and Tail stay within the set a sequence is over.
LEMMA SeqTypes ==
  ASSUME NEW S, NEW q \in Seq(S)
  PROVE  /\ \A e \in S : Append(q, e) \in Seq(S)
         /\ q # << >> => Head(q) \in S /\ Tail(q) \in Seq(S)
  OBVIOUS

\* The capture thread keeps the types of the port.
LEMMA PortTypeStep ==
  ASSUME IInv, [Next]_vars
  PROVE  PortType'
<1> USE DEF IInv, TypeOK, ThreadsConsistent, PortType
<1>1. CASE EtStart
  BY <1>1, BoundsAreNat DEF EtStart, Tapes
<1>2. CASE AddAudioChunk
  BY <1>2, BoundsAreNat DEF AddAudioChunk
<1>3. CASE PushChunk
  BY <1>3 DEF PushChunk, pushBack
<1>4. CASE EtStop
  <2>1. numStops < MaxStops /\ numStops' = numStops + 1 /\ capPc' = "duration"
        /\ m_capturing' = FALSE /\ UNCHANGED <<m_audioTapeRef, numTapes, numChunks>>
    BY <1>4 DEF EtStop
  <2>2. numStops' \in 0..MaxStops
    BY <2>1, BoundsAreNat
  <2>3. QED
    BY <2>1, <2>2
<1>5. CASE SetDuration
  BY <1>5 DEF SetDuration
<1>6. CASE Push
  BY <1>6 DEF Push
<1>7. CASE WriteChunk
  BY <1>7 DEF WriteChunk
<1>8. CASE UNCHANGED portVars
  BY <1>8 DEF portVars
<1>9. QED
  BY <1>1, <1>2, <1>3, <1>4, <1>5, <1>6, <1>7, <1>8
  DEF Next, Capture, Immediate, EtKeep, EtParty, Stop, Acquire, Pop, Write, Discard, TakeChunk, StopTape, Dispose,
      vars, portVars, tapeVars, queueVars, immVars, endVars, doneVars

\* Both threads keep the types of the tapes' members.
LEMMA TapeTypeStep ==
  ASSUME IInv, [Next]_vars
  PROVE  TapeType'
<1> USE DEF IInv, TypeOK, ThreadsConsistent, TapeType
<1>1. CASE EtStart
  BY <1>1 DEF EtStart
<1>2. CASE PushChunk
  BY <1>2 DEF PushChunk, pushBack
<1>3. CASE EtStop
  BY <1>3 DEF EtStop
<1>4. CASE SetDuration
  BY <1>4 DEF SetDuration, HistoryType
<1>5. ASSUME NEW keep \in KeepValues, EtKeep(keep) PROVE TapeType'
  BY <1>5, FlagsAreBoolean DEF EtKeep
<1>6. CASE EtParty
  BY <1>6 DEF EtParty
<1>7. CASE Write
  BY <1>7 DEF Write
<1>8. CASE Discard
  <2>1. m_chunkQueue[immTape] \in Seq(Chunks) /\ immTape \in Tapes
    BY <1>8 DEF Discard
  <2>2. m_chunkQueue[immTape] # << >> => Tail(m_chunkQueue[immTape]) \in Seq(Chunks)
    BY <2>1, SeqTypes
  <2>3. QED
    BY <1>8, <2>1, <2>2 DEF Discard
<1>9. CASE TakeChunk
  <2>1. m_chunkQueue[immTape] \in Seq(Chunks) /\ immTape \in Tapes
    BY <1>9 DEF TakeChunk
  <2>2. m_chunkQueue[immTape] # << >> => Tail(m_chunkQueue[immTape]) \in Seq(Chunks)
    BY <2>1, SeqTypes
  <2>3. QED
    BY <1>9, <2>1, <2>2 DEF TakeChunk
<1>10. CASE WriteChunk
  BY <1>10 DEF WriteChunk
<1>11. CASE StopTape
  BY <1>11 DEF StopTape
<1>12. CASE Dispose
  BY <1>12 DEF Dispose
<1>13. CASE UNCHANGED tapeVars
  BY <1>13 DEF tapeVars
<1>14. QED
  BY <1>1, <1>2, <1>3, <1>4, <1>5, <1>6, <1>7, <1>8, <1>9, <1>10, <1>11, <1>12, <1>13
  DEF Next, Capture, Immediate, AddAudioChunk, Push, Stop, Acquire, Pop,
      vars, portVars, tapeVars, queueVars, immVars, endVars, doneVars

\* Push and Pop keep the types of the queue of tapes.
LEMMA QueueTypeStep ==
  ASSUME IInv, [Next]_vars
  PROVE  QueueType'
<1> USE DEF IInv, TypeOK, ThreadsConsistent, QueueType
<1>1. CASE Push
  <2>1. m_audioTapeRef \in Tapes /\ m_semaphore' = m_semaphore + 1
    BY <1>1 DEF Push
  <2>2. Append(m_audioTapeQueue, m_audioTapeRef) \in Seq(Tapes)
    BY <2>1, SeqTypes
  <2>3. m_audioTapeQueue' \in Seq(Tapes)
    BY <1>1, <2>2 DEF Push
  <2>4. m_isQueued' \in [Tapes -> BOOLEAN]
    BY <1>1, <2>1 DEF Push
  <2>5. QED
    BY <2>1, <2>3, <2>4
<1>2. CASE Acquire
  BY <1>2 DEF Acquire
<1>3. CASE Pop
  <2>1. m_audioTapeQueue # << >>
          => Head(m_audioTapeQueue) \in Tapes /\ Tail(m_audioTapeQueue) \in Seq(Tapes)
    BY SeqTypes
  <2>2. QED
    BY <1>3, <2>1 DEF Pop
<1>4. CASE UNCHANGED queueVars
  BY <1>4 DEF queueVars
<1>5. QED
  BY <1>1, <1>2, <1>3, <1>4
  DEF Next, Capture, Immediate, EtStart, AddAudioChunk, PushChunk, pushBack, EtStop, SetDuration, EtKeep, EtParty, Stop, Write, Discard, TakeChunk, WriteChunk, StopTape, Dispose,
      vars, portVars, tapeVars, queueVars, immVars, endVars, doneVars

\* The immediate thread's place, tape and chunk keep their types.
LEMMA ImmTypeStep ==
  ASSUME IInv, [Next]_vars
  PROVE  ImmType'
<1> USE DEF IInv, TypeOK, ThreadsConsistent, ImmType
<1>1. CASE Acquire
  BY <1>1 DEF Acquire
<1>2. CASE Pop
  BY <1>2 DEF Pop, QueueType
<1>3. CASE Write
  BY <1>3 DEF Write
<1>4. CASE Discard
  BY <1>4 DEF Discard
<1>5. CASE TakeChunk
  BY <1>5 DEF TakeChunk, TapeType
<1>6. CASE WriteChunk
  BY <1>6 DEF WriteChunk
<1>7. CASE StopTape
  BY <1>7 DEF StopTape
<1>8. CASE Dispose
  BY <1>8 DEF Dispose
<1>9. CASE UNCHANGED immVars
  BY <1>9 DEF immVars
<1>10. QED
  BY <1>1, <1>2, <1>3, <1>4, <1>5, <1>6, <1>7, <1>8, <1>9
  DEF Next, Capture, Immediate, EtStart, AddAudioChunk, PushChunk, pushBack, EtStop, SetDuration, Push, EtKeep, EtParty, Stop,
      vars, portVars, tapeVars, queueVars, immVars, endVars, doneVars

\* The history variables keep their types.
LEMMA HistoryTypeStep ==
  ASSUME IInv, [Next]_vars
  PROVE  HistoryType'
<1> USE DEF IInv, TypeOK, ThreadsConsistent, HistoryType
<1>1. CASE EtStop
  <2>1. m_audioTapeRef \in Tapes
    BY <1>1 DEF EtStop, PortType
  <2>2. PICK d \in Durations : callDuration' = [callDuration EXCEPT ![m_audioTapeRef] = d]
    BY <1>1 DEF EtStop
  <2>3. d \in Nat /\ ended' = ended \cup {m_audioTapeRef}
    BY <1>1, BoundsAreNat DEF EtStop
  <2>4. UNCHANGED <<filed, handed, tooShort, notKept>>
    BY <1>1 DEF EtStop, doneVars
  <2>5. QED
    BY <2>1, <2>2, <2>3, <2>4
<1>2. CASE WriteChunk
  <2>1. immTape \in Tapes /\ immChunk \in Chunks
    BY <1>2 DEF WriteChunk
  <2>2. Append(filed[immTape], immChunk) \in Seq(Chunks)
    BY <2>1, SeqTypes
  <2>3. \/ filed' = [filed EXCEPT ![immTape] = Append(filed[immTape], immChunk)]
        \/ filed' = filed
    BY <1>2 DEF WriteChunk
  <2>4. filed' \in [Tapes -> Seq(Chunks)]
    BY <2>1, <2>2, <2>3
  <2>5. QED
    BY <1>2, <2>4 DEF WriteChunk, endVars, doneVars
<1>3. CASE Dispose
  <2>1. immTape \in Tapes /\ UNCHANGED <<filed, ended, callDuration>>
    BY <1>3 DEF Dispose, endVars
  <2>2. Append(handed, immTape) \in Seq(Tapes)
    BY <2>1, SeqTypes
  <2>3. handed' \in Seq(Tapes)
    BY <1>3, <2>2 DEF Dispose
  <2>4. tooShort' \in SUBSET Tapes /\ notKept' \in SUBSET Tapes
    BY <1>3, <2>1 DEF Dispose
  <2>5. QED
    BY <2>1, <2>3, <2>4
<1>4. CASE UNCHANGED <<filed, endVars, doneVars>>
  BY <1>4 DEF endVars, doneVars
<1>5. QED
  BY <1>1, <1>2, <1>3, <1>4
  DEF Next, Capture, Immediate, EtStart, AddAudioChunk, PushChunk, pushBack, SetDuration, Push, EtKeep, EtParty, Stop, Acquire, Pop, Write, Discard, TakeChunk, StopTape,
      vars, portVars, tapeVars, queueVars, immVars, endVars, doneVars

\* Every step keeps the two threads in consistent places.
LEMMA ThreadsStep ==
  ASSUME IInv, [Next]_vars
  PROVE  ThreadsConsistent'
<1> USE DEF IInv, TypeOK, ThreadsConsistent, PortType, ImmType
<1>1. CASE EtStart
  BY <1>1 DEF EtStart, immVars
<1>2. CASE AddAudioChunk
  <2>1. numChunks' \in Chunks
    BY <1>2, BoundsAreNat DEF AddAudioChunk, Chunks
  <2>2. QED
    BY <1>2, <2>1 DEF AddAudioChunk, immVars, tapeVars
<1>3. CASE PushChunk
  BY <1>3 DEF PushChunk, pushBack, immVars
<1>4. CASE EtStop
  <2>1. capPc' = "duration" /\ m_audioTapeRef' \in Tapes
    BY <1>4 DEF EtStop
  <2>2. UNCHANGED <<immPc, immTape, immChunk, m_state, PartyFilterActive>>
    BY <1>4 DEF EtStop, immVars
  <2>3. QED
    BY <2>1, <2>2
<1>5. CASE SetDuration
  BY <1>5 DEF SetDuration, immVars
<1>6. CASE Push
  BY <1>6 DEF Push, immVars, tapeVars
<1>7. ASSUME NEW keep \in KeepValues, EtKeep(keep) PROVE ThreadsConsistent'
  BY <1>7 DEF EtKeep, immVars, portVars
<1>8. CASE EtParty
  BY <1>8 DEF EtParty, immVars, portVars
<1>9. CASE Stop
  BY <1>9 DEF Stop, immVars, portVars, tapeVars
<1>10. CASE Acquire
  BY <1>10 DEF Acquire, portVars, tapeVars
<1>11. CASE Pop
  <2>1. m_audioTapeQueue # << >> => Head(m_audioTapeQueue) \in Tapes
    BY SeqTypes DEF QueueType
  <2>2. QED
    BY <1>11, <2>1 DEF Pop, portVars, tapeVars
<1>12. CASE Write
  BY <1>12 DEF Write, portVars
<1>13. CASE Discard
  BY <1>13 DEF Discard, portVars
<1>14. CASE TakeChunk
  <2>1. m_chunkQueue[immTape] # << >> => Head(m_chunkQueue[immTape]) \in Chunks
    BY <1>14, SeqTypes DEF TapeType, TakeChunk
  <2>2. QED
    BY <1>14, <2>1 DEF TakeChunk, portVars
<1>15. CASE WriteChunk
  BY <1>15 DEF WriteChunk
<1>16. CASE StopTape
  BY <1>16 DEF StopTape, portVars
<1>17. CASE Dispose
  BY <1>17 DEF Dispose, portVars
<1>18. CASE UNCHANGED vars
  BY <1>18 DEF vars, portVars, tapeVars, immVars
<1>19. QED
  BY <1>1, <1>2, <1>3, <1>4, <1>5, <1>6, <1>7, <1>8, <1>9, <1>10, <1>11, <1>12, <1>13,
     <1>14, <1>15, <1>16, <1>17, <1>18 DEF Next, Capture, Immediate

\* ImmediateProcessing::Push and Pop keep m_isQueued, the queue and the tokens
\* of the semaphore in step.
LEMMA QueueStep ==
  ASSUME IInv, [Next]_vars
  PROVE  QueueAccount'
<1> USE DEF IInv, TypeOK, QueueType, Queued
<1> DEFINE q == m_audioTapeQueue
<1>1. CASE Push
  <2>1. m_audioTapeRef \in Tapes /\ immPc' = immPc
    BY <1>1 DEF Push, ThreadsConsistent, immVars
  <2>2. CASE m_isQueued[m_audioTapeRef]
    BY <1>1, <2>1, <2>2 DEF Push, QueueAccount
  <2>3. CASE ~m_isQueued[m_audioTapeRef]
    <3>1. q' = Append(q, m_audioTapeRef)
          /\ m_isQueued' = [m_isQueued EXCEPT ![m_audioTapeRef] = TRUE]
      BY <1>1, <2>3 DEF Push
    <3>2. /\ Len(q) \in Nat /\ Len(q') = Len(q) + 1 /\ q'[Len(q) + 1] = m_audioTapeRef
          /\ \A i \in 1..Len(q) : q'[i] = q[i]
      BY <2>1, <3>1
    <3>3. \A i \in 1..Len(q) : q[i] # m_audioTapeRef
      BY <2>1, <2>3 DEF QueueAccount
    <3>4. \A i, j \in 1..Len(q') : q'[i] = q'[j] => i = j
      BY <3>2, <3>3 DEF QueueAccount
    <3>5. ASSUME NEW t \in Tapes PROVE m_isQueued'[t] <=> Queued(t)'
      <4>1. CASE t = m_audioTapeRef
        BY <2>1, <3>1, <3>2, <4>1
      <4>2. CASE t # m_audioTapeRef
        <5>1. m_isQueued'[t] = m_isQueued[t]
          BY <3>1, <4>2
        <5>2. Queued(t)' <=> Queued(t)
          BY <3>2, <4>2
        <5>3. QED
          BY <5>1, <5>2 DEF QueueAccount
      <4>3. QED
        BY <4>1, <4>2
    <3>6. Len(q') <= m_semaphore' + (IF immPc' = "pop" THEN 1 ELSE 0)
      BY <1>1, <2>1, <3>2 DEF Push, QueueAccount
    <3>7. QED
      BY <3>4, <3>5, <3>6 DEF QueueAccount
  <2>4. QED
    BY <2>2, <2>3
<1>2. CASE Acquire
  <2>1. /\ immPc = "acquire" /\ immPc' = "pop" /\ UNCHANGED <<m_isQueued, q>>
        /\ m_semaphore > 0 /\ m_semaphore' = m_semaphore - 1
    BY <1>2 DEF Acquire
  <2>2. QED
    BY <2>1 DEF QueueAccount
<1>3. CASE Pop
  <2>1. immPc = "pop" /\ immPc' # "pop" /\ m_semaphore' = m_semaphore
    BY <1>3 DEF Pop
  <2>2. CASE q = << >>
    BY <1>3, <2>1, <2>2 DEF Pop, QueueAccount
  <2>3. CASE q # << >>
    <3>1. q' = Tail(q) /\ m_isQueued' = [m_isQueued EXCEPT ![Head(q)] = FALSE]
      BY <1>3, <2>3 DEF Pop
    <3>2. /\ Len(q) \in Nat /\ Len(q) > 0 /\ Len(q') = Len(q) - 1
          /\ Head(q) = q[1] /\ Head(q) \in Tapes
          /\ \A i \in 1..Len(q') : q'[i] = q[i + 1]
      BY <2>3, <3>1
    <3>3. \A i \in 1..Len(q) : q[i] = Head(q) => i = 1
      BY <3>2 DEF QueueAccount
    <3>4. \A i, j \in 1..Len(q') : q'[i] = q'[j] => i = j
      <4>1. ASSUME NEW i \in 1..Len(q'), NEW j \in 1..Len(q'), q'[i] = q'[j] PROVE i = j
        <5>1. i + 1 \in 1..Len(q) /\ j + 1 \in 1..Len(q) /\ q[i + 1] = q[j + 1]
          BY <3>2, <4>1
        <5>2. i + 1 = j + 1
          BY <5>1 DEF QueueAccount
        <5>3. QED
          BY <5>2
      <4>2. QED
        BY <4>1
    <3>5. ASSUME NEW t \in Tapes PROVE m_isQueued'[t] <=> Queued(t)'
      <4>1. CASE t = Head(q)
        <5>1. ~Queued(t)'
          BY <3>2, <3>3, <4>1
        <5>2. ~m_isQueued'[t]
          BY <3>1, <3>2, <4>1
        <5>3. QED
          BY <5>1, <5>2
      <4>2. CASE t # Head(q)
        <5>1. Queued(t) => Queued(t)'
          <6>1. ASSUME NEW i \in 1..Len(q), q[i] = t PROVE Queued(t)'
            <7>1. i - 1 \in 1..Len(q') /\ q'[i - 1] = t
              BY <3>2, <4>2, <6>1
            <7>2. QED
              BY <7>1
          <6>2. QED
            BY <6>1
        <5>2. Queued(t)' => Queued(t)
          <6>1. ASSUME NEW i \in 1..Len(q'), q'[i] = t PROVE Queued(t)
            <7>1. i + 1 \in 1..Len(q) /\ q[i + 1] = t
              BY <3>2, <6>1
            <7>2. QED
              BY <7>1
          <6>2. QED
            BY <6>1
        <5>3. m_isQueued'[t] = m_isQueued[t]
          BY <3>1, <4>2
        <5>4. QED
          BY <5>1, <5>2, <5>3 DEF QueueAccount
      <4>3. QED
        BY <4>1, <4>2
    <3>6. Len(q') <= m_semaphore' + (IF immPc' = "pop" THEN 1 ELSE 0)
      BY <2>1, <3>2 DEF QueueAccount
    <3>7. QED
      BY <3>4, <3>5, <3>6 DEF QueueAccount
  <2>4. QED
    BY <2>2, <2>3
<1>4. CASE UNCHANGED queueVars /\ (immPc = "pop" <=> immPc' = "pop")
  BY <1>4 DEF QueueAccount, queueVars
<1>5. QED
  BY <1>1, <1>2, <1>3, <1>4
  DEF Next, Capture, Immediate, EtStart, AddAudioChunk, PushChunk, pushBack, EtStop, SetDuration,
      EtKeep, EtParty, Stop, Write, Discard, TakeChunk, WriteChunk, StopTape, Dispose,
      vars, queueVars, immVars

\* The locked half of Pop removes one tape from the queue, the one the thread
\* then holds; Push only adds to it; nothing else touches it.
LEMMA QueuedStep ==
  ASSUME IInv, [Next]_vars, NEW t \in Tapes, Queued(t)
  PROVE  Queued(t)' \/ (immPc' = "write" /\ immTape' = t)
<1> USE DEF IInv, TypeOK, QueueType, Queued
<1> DEFINE q == m_audioTapeQueue
<1>1. CASE Push
  <2>1. q' = q \/ (q' = Append(q, m_audioTapeRef) /\ m_audioTapeRef \in Tapes)
    BY <1>1 DEF Push, ThreadsConsistent
  <2>2. QED
    BY <2>1
<1>2. CASE Pop
  <2>1. PICK i \in 1..Len(q) : q[i] = t
    OBVIOUS
  <2>2. q # << >> /\ q' = Tail(q) /\ immTape' = Head(q) /\ immPc' = "write"
    BY <1>2, <2>1 DEF Pop
  <2>3. CASE i = 1
    BY <2>1, <2>2, <2>3
  <2>4. CASE i # 1
    <3>1. i - 1 \in 1..Len(q') /\ q'[i - 1] = t
      BY <2>1, <2>2, <2>4
    <3>2. QED
      BY <3>1
  <2>5. QED
    BY <2>3, <2>4
<1>3. CASE UNCHANGED m_audioTapeQueue
  BY <1>3
<1>4. QED
  BY <1>1, <1>2, <1>3
  DEF Next, Capture, Immediate, EtStart, AddAudioChunk, PushChunk, pushBack, EtStop, SetDuration,
      EtKeep, EtParty, Stop, Acquire, Write, Discard, TakeChunk, WriteChunk, StopTape,
      Dispose, vars, queueVars

\* After ImmediateProcessing::Push the tape is queued, whichever way the test of
\* m_isQueued went.
LEMMA PushQueues ==
  ASSUME IInv, Push, NEW t \in Tapes, t = m_audioTapeRef
  PROVE  Queued(t)'
<1> USE DEF IInv, TypeOK, QueueType, Queued
<1>1. CASE m_isQueued[t]
  BY <1>1 DEF Push, QueueAccount
<1>2. CASE ~m_isQueued[t]
  <2>1. m_audioTapeQueue' = Append(m_audioTapeQueue, t)
    BY <1>2 DEF Push
  <2>2. /\ Len(m_audioTapeQueue) + 1 \in 1..Len(m_audioTapeQueue')
        /\ m_audioTapeQueue'[Len(m_audioTapeQueue) + 1] = t
    BY <2>1
  <2>3. QED
    BY <2>2
<1>3. QED
  BY <1>1, <1>2

\* The chunks waiting in a tape that is not stopped keep being announced.
LEMMA ChunkWakeupStep ==
  ASSUME IInv, [Next]_vars, NEW t \in Tapes
  PROVE  ChunkWakeup(t)'
<1> USE DEF IInv, TypeOK, TapeType, ThreadsConsistent, ChunkWakeup, WillQueue, ImmAt
<1>0. ChunkWakeup(t) /\ (Queued(t) => Queued(t)' \/ (immPc' = "write" /\ immTape' = t))
  BY QueuedStep DEF NoLostWakeup
<1>1. CASE EtStart
  BY <1>0, <1>1 DEF EtStart, immVars
<1>2. CASE AddAudioChunk
  BY <1>0, <1>2 DEF AddAudioChunk, immVars, tapeVars
<1>3. CASE PushChunk
  BY <1>0, <1>3 DEF PushChunk, pushBack, immVars
<1>4. CASE EtStop
  BY <1>0, <1>4 DEF EtStop, immVars
<1>5. CASE SetDuration
  BY <1>0, <1>5 DEF SetDuration, immVars
<1>6. CASE Push
  <2>1. t = m_audioTapeRef => Queued(t)'
    BY <1>6, PushQueues
  <2>2. QED
    BY <1>0, <1>6, <2>1 DEF Push, immVars, tapeVars
<1>7. ASSUME NEW keep \in KeepValues, EtKeep(keep) PROVE ChunkWakeup(t)'
  BY <1>0, <1>7 DEF EtKeep, immVars, portVars
<1>8. CASE EtParty
  BY <1>0, <1>8 DEF EtParty, immVars, portVars
<1>9. CASE Stop
  BY <1>0, <1>9 DEF Stop, immVars, portVars, tapeVars
<1>10. CASE Acquire
  BY <1>0, <1>10 DEF Acquire, portVars, tapeVars
<1>11. CASE Pop
  BY <1>0, <1>11 DEF Pop, portVars, tapeVars
<1>12. CASE Write
  BY <1>0, <1>12 DEF Write, portVars
<1>13. CASE Discard
  BY <1>0, <1>13 DEF Discard, portVars
<1>14. CASE TakeChunk
  BY <1>0, <1>14 DEF TakeChunk, portVars
<1>15. CASE WriteChunk
  BY <1>0, <1>15 DEF WriteChunk
<1>16. CASE StopTape
  BY <1>0, <1>16 DEF StopTape, portVars
<1>17. CASE Dispose
  BY <1>0, <1>17 DEF Dispose, portVars
<1>18. CASE UNCHANGED vars
  BY <1>0, <1>18 DEF vars, portVars, tapeVars, immVars
<1>19. QED
  BY <1>1, <1>2, <1>3, <1>4, <1>5, <1>6, <1>7, <1>8, <1>9, <1>10, <1>11, <1>12, <1>13,
     <1>14, <1>15, <1>16, <1>17, <1>18 DEF Next, Capture, Immediate

\* The stop of a tape keeps being announced until the tape has stopped.
LEMMA StopWakeupStep ==
  ASSUME IInv, [Next]_vars, NEW t \in Tapes
  PROVE  StopWakeup(t)'
<1> USE DEF IInv, TypeOK, TapeType, ThreadsConsistent, StopWakeup, WillQueue, ImmAt
<1>0. StopWakeup(t) /\ (Queued(t) => Queued(t)' \/ (immPc' = "write" /\ immTape' = t))
  BY QueuedStep DEF NoLostWakeup
<1>1. CASE EtStart
  BY <1>0, <1>1 DEF EtStart, immVars, endVars
<1>2. CASE AddAudioChunk
  BY <1>0, <1>2 DEF AddAudioChunk, immVars, endVars, tapeVars
<1>3. CASE PushChunk
  BY <1>0, <1>3 DEF PushChunk, pushBack, immVars, endVars
<1>4. CASE EtStop
  BY <1>0, <1>4 DEF EtStop, immVars, endVars
<1>5. CASE SetDuration
  BY <1>0, <1>5 DEF SetDuration, immVars, endVars
<1>6. CASE Push
  <2>1. t = m_audioTapeRef => Queued(t)'
    BY <1>6, PushQueues
  <2>2. QED
    BY <1>0, <1>6, <2>1 DEF Push, immVars, endVars, tapeVars
<1>7. ASSUME NEW keep \in KeepValues, EtKeep(keep) PROVE StopWakeup(t)'
  BY <1>0, <1>7 DEF EtKeep, immVars, portVars, endVars
<1>8. CASE EtParty
  BY <1>0, <1>8 DEF EtParty, immVars, portVars, endVars
<1>9. CASE Stop
  BY <1>0, <1>9 DEF Stop, immVars, portVars, endVars, tapeVars
<1>10. CASE Acquire
  BY <1>0, <1>10 DEF Acquire, portVars, endVars, tapeVars
<1>11. CASE Pop
  BY <1>0, <1>11 DEF Pop, portVars, endVars, tapeVars
<1>12. CASE Write
  BY <1>0, <1>12 DEF Write, portVars, endVars
<1>13. CASE Discard
  BY <1>0, <1>13 DEF Discard, portVars, endVars
<1>14. CASE TakeChunk
  BY <1>0, <1>14 DEF TakeChunk, portVars, endVars
<1>15. CASE WriteChunk
  <2>1. ~PartyFilterActive => immPc' = "loop"
    BY <1>15 DEF WriteChunk, TapesConsistent, TapeConsistent
  <2>2. UNCHANGED <<m_audioTapeRef, immTape, ended>>
    BY <1>15 DEF WriteChunk, endVars
  <2>3. QED
    BY <1>0, <1>15, <2>1, <2>2 DEF WriteChunk
<1>16. CASE StopTape
  BY <1>0, <1>16 DEF StopTape, portVars, endVars, TapesConsistent, TapeConsistent
<1>17. CASE Dispose
  BY <1>0, <1>17 DEF Dispose, portVars, endVars
<1>18. CASE UNCHANGED vars
  BY <1>0, <1>18 DEF vars, portVars, tapeVars, immVars, endVars
<1>19. QED
  BY <1>1, <1>2, <1>3, <1>4, <1>5, <1>6, <1>7, <1>8, <1>9, <1>10, <1>11, <1>12, <1>13,
     <1>14, <1>15, <1>16, <1>17, <1>18 DEF Next, Capture, Immediate

\* Handing a tape over adds that tape to those handed over, at the end.
LEMMA HandOver ==
  ASSUME handed \in Seq(Tapes), NEW x \in Tapes, handed' = Append(handed, x)
  PROVE  /\ \A t \in Tapes : IsHanded(t)' <=> IsHanded(t) \/ t = x
         /\ (\A i, j \in 1..Len(handed) : handed[i] = handed[j] => i = j) /\ ~IsHanded(x)
              => \A i, j \in 1..Len(handed') : handed'[i] = handed'[j] => i = j
<1>1. /\ Len(handed) \in Nat /\ Len(handed') = Len(handed) + 1
      /\ handed'[Len(handed) + 1] = x
      /\ \A i \in 1..Len(handed) : handed'[i] = handed[i]
  OBVIOUS
<1>2. \A i \in 1..Len(handed') : i \in 1..Len(handed) \/ i = Len(handed) + 1
  BY <1>1
<1>3. ASSUME NEW t \in Tapes PROVE IsHanded(t)' <=> IsHanded(t) \/ t = x
  <2>1. IsHanded(t)' => IsHanded(t) \/ t = x
    BY <1>1, <1>2 DEF IsHanded
  <2>2. IsHanded(t) => IsHanded(t)'
    BY <1>1 DEF IsHanded
  <2>3. t = x => IsHanded(t)'
    <3>1. Len(handed) + 1 \in 1..Len(handed')
      BY <1>1
    <3>2. QED
      BY <1>1, <3>1 DEF IsHanded
  <2>4. QED
    BY <2>1, <2>2, <2>3
<1>4. ASSUME \A i, j \in 1..Len(handed) : handed[i] = handed[j] => i = j, ~IsHanded(x),
             NEW i \in 1..Len(handed'), NEW j \in 1..Len(handed'), handed'[i] = handed'[j]
      PROVE  i = j
  BY <1>1, <1>2, <1>4 DEF IsHanded
<1>5. QED
  BY <1>3, <1>4

\* The unlocked members of a tape stay consistent with each other.
LEMMA TapesStep ==
  ASSUME IInv, [Next]_vars, NEW t \in Tapes
  PROVE  TapeConsistent(t)'
<1> USE DEF IInv, TypeOK, TapeType, ThreadsConsistent, TapeConsistent, IsHanded
<1>0. TapeConsistent(t)
  BY DEF TapesConsistent
<1>1. CASE EtStart
  BY <1>0, <1>1 DEF EtStart, immVars, endVars, doneVars
<1>2. CASE AddAudioChunk
  BY <1>0, <1>2 DEF AddAudioChunk, immVars, tapeVars, endVars, doneVars
<1>3. CASE PushChunk
  BY <1>0, <1>3 DEF PushChunk, pushBack, immVars, endVars, doneVars
<1>4. CASE EtStop
  BY <1>0, <1>4 DEF EtStop, immVars, doneVars
<1>5. CASE SetDuration
  BY <1>0, <1>5 DEF SetDuration, immVars, endVars, doneVars
<1>6. CASE Push
  BY <1>0, <1>6 DEF Push, immVars, tapeVars, endVars, doneVars
<1>7. ASSUME NEW keep \in KeepValues, EtKeep(keep) PROVE TapeConsistent(t)'
  BY <1>0, <1>7 DEF EtKeep, immVars, endVars, doneVars
<1>8. CASE EtParty
  BY <1>0, <1>8 DEF EtParty, immVars, endVars, doneVars
<1>9. CASE Stop
  BY <1>0, <1>9 DEF Stop, immVars, tapeVars, endVars, doneVars
<1>10. CASE Acquire
  BY <1>0, <1>10 DEF Acquire, tapeVars, endVars, doneVars
<1>11. CASE Pop
  BY <1>0, <1>11 DEF Pop, tapeVars, endVars, doneVars
<1>12. CASE Write
  BY <1>0, <1>12 DEF Write, endVars, doneVars
<1>13. CASE Discard
  BY <1>0, <1>13 DEF Discard, endVars, doneVars
<1>14. CASE TakeChunk
  BY <1>0, <1>14 DEF TakeChunk, endVars, doneVars
<1>15. CASE WriteChunk
  BY <1>0, <1>15 DEF WriteChunk, endVars, doneVars
<1>16. CASE StopTape
  BY <1>0, <1>16 DEF StopTape, endVars, doneVars
<1>17. CASE Dispose
  <2>1. /\ immTape \in Tapes
        /\ UNCHANGED <<m_state, m_audioFileRef, ended, m_shouldStop, PartyFilterActive>>
    BY <1>17 DEF Dispose, endVars
  <2>2. ~m_readyForBatchProcessing'[t]
    BY <1>0, <1>17, <2>1 DEF Dispose
  <2>3. IsHanded(t)' \/ t \in tooShort' \cup notKept' => m_state[t] = "Stopped"
    <3>1. CASE UNCHANGED doneVars
      BY <1>0, <3>1 DEF doneVars
    <3>2. CASE m_readyForBatchProcessing[immTape]
      <4>1. m_state[immTape] = "Stopped"
        BY <2>1, <3>2 DEF TapesConsistent
      <4>2. IsHanded(t)' => IsHanded(t) \/ t = immTape
        <5>1. CASE UNCHANGED handed
          BY <5>1
        <5>2. CASE handed' = Append(handed, immTape)
          BY <2>1, <5>2, HandOver DEF HistoryType
        <5>3. QED
          BY <1>17, <5>1, <5>2 DEF Dispose
      <4>3. t \in tooShort' \cup notKept' => t \in tooShort \cup notKept \/ t = immTape
        BY <1>17 DEF Dispose
      <4>4. QED
        BY <1>0, <4>1, <4>2, <4>3
    <3>3. QED
      BY <1>17, <3>1, <3>2 DEF Dispose, doneVars
  <2>4. QED
    BY <1>0, <2>1, <2>2, <2>3
<1>18. CASE UNCHANGED vars
  BY <1>0, <1>18 DEF vars, tapeVars, immVars, endVars, doneVars
<1>19. QED
  BY <1>1, <1>2, <1>3, <1>4, <1>5, <1>6, <1>7, <1>8, <1>9, <1>10, <1>11, <1>12, <1>13,
     <1>14, <1>15, <1>16, <1>17, <1>18 DEF Next, Capture, Immediate

\* IsReadyForBatchProcessing()'s toggle, and StateStopped, keep a tape from
\* being disposed of twice.
LEMMA DisposedStep ==
  ASSUME IInv, [Next]_vars
  PROVE  DisposedOnce'
<1> USE DEF IInv, TypeOK, TapeType, HistoryType, ThreadsConsistent, DisposedOnce
<1>1. CASE StopTape
  <2>1. immTape \in Tapes /\ UNCHANGED <<handed, tooShort, notKept>>
    BY <1>1 DEF StopTape, doneVars
  <2>2. ASSUME NEW t \in Tapes, m_readyForBatchProcessing'[t]
        PROVE  ~IsHanded(t) /\ t \notin tooShort \cup notKept
    <3>1. m_readyForBatchProcessing[t] \/ m_state[t] # "Stopped"
      BY <1>1, <2>1, <2>2 DEF StopTape
    <3>2. QED
      BY <3>1 DEF TapesConsistent, TapeConsistent
  <2>3. QED
    BY <2>1, <2>2 DEF IsHanded
<1>2. CASE Dispose
  <2>1. /\ immTape \in Tapes /\ ~m_readyForBatchProcessing'[immTape]
        /\ \A t \in Tapes \ {immTape} : m_readyForBatchProcessing'[t] = m_readyForBatchProcessing[t]
    BY <1>2 DEF Dispose
  <2>2. CASE ~m_readyForBatchProcessing[immTape]
    BY <1>2, <2>1, <2>2 DEF Dispose, IsHanded
  <2>3. CASE m_readyForBatchProcessing[immTape]
    <3>1. ~IsHanded(immTape) /\ immTape \notin tooShort \cup notKept
      BY <2>1, <2>3
    <3>2. \A t \in Tapes : ~m_readyForBatchProcessing'[t]
      BY <2>1 DEF TapesConsistent, TapeConsistent
    <3>3. CASE tooShort' = tooShort \cup {immTape} /\ UNCHANGED <<notKept, handed>>
      <4>1. \A t \in Tapes : IsHanded(t)' <=> IsHanded(t)
        BY <3>3 DEF IsHanded
      <4>2. QED
        BY <3>1, <3>2, <3>3, <4>1
    <3>4. CASE notKept' = notKept \cup {immTape} /\ UNCHANGED <<tooShort, handed>>
      <4>1. \A t \in Tapes : IsHanded(t)' <=> IsHanded(t)
        BY <3>4 DEF IsHanded
      <4>2. QED
        BY <3>1, <3>2, <3>4, <4>1
    <3>5. CASE handed' = Append(handed, immTape) /\ UNCHANGED <<tooShort, notKept>>
      <4>1. \A i, j \in 1..Len(handed) : handed[i] = handed[j] => i = j
        OBVIOUS
      <4>2. \A i, j \in 1..Len(handed') : handed'[i] = handed'[j] => i = j
        BY <2>1, <3>1, <3>5, <4>1, HandOver
      <4>3. \A t \in Tapes : IsHanded(t)' <=> IsHanded(t) \/ t = immTape
        BY <2>1, <3>5, HandOver
      <4>4. QED
        BY <3>1, <3>2, <3>5, <4>2, <4>3
    <3>6. QED
      BY <1>2, <2>3, <3>3, <3>4, <3>5 DEF Dispose
  <2>4. QED
    BY <2>2, <2>3
<1>3. CASE UNCHANGED <<doneVars, m_readyForBatchProcessing>>
  BY <1>3 DEF doneVars, IsHanded
<1>4. QED
  BY <1>1, <1>2, <1>3
  DEF Next, Capture, Immediate, EtStart, AddAudioChunk, PushChunk, pushBack, EtStop, SetDuration, Push,
      EtKeep, EtParty, Stop, Acquire, Pop, Write, Discard, TakeChunk, WriteChunk,
      vars, tapeVars, doneVars

\* The state at start-up satisfies the inductive invariant.
LEMMA InitIInv == Init => IInv
<1> SUFFICES ASSUME Init PROVE IInv
  OBVIOUS
<1> USE DEF Init
<1>1. TypeOK
  <2>1. 0 \in 0..MaxTapes /\ 0 \in 0..MaxChunks /\ 0 \in 0..MaxStops
    BY BoundsAreNat
  <2>2. PortType
    BY <2>1 DEF PortType
  <2>3. TapeType
    BY DEF TapeType
  <2>4. QueueType
    BY DEF QueueType
  <2>5. ImmType
    BY DEF ImmType
  <2>6. HistoryType
    BY DEF HistoryType
  <2>7. QED
    BY <2>2, <2>3, <2>4, <2>5, <2>6, FlagsAreBoolean DEF TypeOK
<1>2. ThreadsConsistent
  BY DEF ThreadsConsistent
<1>3. TapesConsistent
  BY DEF TapesConsistent, TapeConsistent, IsHanded
<1>4. QueueAccount
  BY DEF QueueAccount, Queued
<1>5. NoLostWakeup
  BY DEF NoLostWakeup, ChunkWakeup, StopWakeup
<1>6. DisposedOnce
  BY DEF DisposedOnce, IsHanded
<1>7. QED
  BY <1>1, <1>2, <1>3, <1>4, <1>5, <1>6 DEF IInv

\* stopping is a flag that only Daemon::Stop raises; the filter is not changed.
LEMMA StoppingStep ==
  ASSUME IInv, [Next]_vars
  PROVE  stopping' \in BOOLEAN /\ PartyFilterActive' \in BOOLEAN
BY DEF IInv, TypeOK, Next, Capture, Immediate, EtStart, AddAudioChunk, PushChunk, pushBack, EtStop,
       SetDuration, Push, EtKeep, EtParty, Stop, Acquire, Pop, Write, Discard, TakeChunk,
       WriteChunk, StopTape, Dispose, vars

\* IInv is an invariant of the two threads.
THEOREM Invariance == Spec => []IInv
<1>1. IInv /\ [Next]_vars => IInv'
  <2> SUFFICES ASSUME IInv, [Next]_vars PROVE IInv'
    OBVIOUS
  <2>1. TypeOK'
    BY PortTypeStep, TapeTypeStep, QueueTypeStep, ImmTypeStep, HistoryTypeStep, StoppingStep
    DEF TypeOK
  <2>2. TapesConsistent'
    BY TapesStep DEF TapesConsistent, Tapes
  <2>3. NoLostWakeup'
    BY ChunkWakeupStep, StopWakeupStep DEF NoLostWakeup, Tapes
  <2>4. QED
    BY <2>1, <2>2, <2>3, ThreadsStep, QueueStep, DisposedStep DEF IInv
<1>2. QED
  BY InitIInv, <1>1, PTL DEF Spec

\* AudioTape, CapturePort, ImmediateProcessing: every member keeps its type.
THEOREM TypeCorrect == Spec => []TypeOK
<1>1. IInv => TypeOK
  BY DEF IInv
<1>2. QED
  BY Invariance, <1>1, PTL

\* ImmediateProcessing::Push: no chunk and no EtStop is ever forgotten by the
\* test of m_isQueued, however the two threads interleave.
THEOREM NoWakeupLost == Spec => []NoLostWakeup
<1>1. IInv => NoLostWakeup
  BY DEF IInv
<1>2. QED
  BY Invariance, <1>1, PTL

\* ImmediateProcessing::Push/Pop: flags, queue and tokens agree.
THEOREM QueueAccounted == Spec => []QueueAccount
<1>1. IInv => QueueAccount
  BY DEF IInv
<1>2. QED
  BY Invariance, <1>1, PTL

\* ImmediateProcessing::ThreadHandler: no tape is processed twice.
THEOREM NeverDisposedTwice == Spec => []DisposedOnce
<1>1. IInv => DisposedOnce
  BY DEF IInv
<1>2. QED
  BY Invariance, <1>1, PTL

\* AudioTape::Write never adds to the file of a tape that was disposed of, and
\* that file is not open.
THEOREM FrozenAfterDisposal == Spec => FileFrozenAfterDisposal
<1>1. IInv /\ [Next]_vars => [FileFrozen]_vars
  <2> SUFFICES ASSUME IInv, [Next]_vars, NEW t \in Tapes,
                      IsHanded(t) \/ t \in tooShort \cup notKept
               PROVE  filed'[t] = filed[t] /\ m_audioFileRef[t] # "open"
    BY DEF FileFrozen
  <2>1. m_state[t] = "Stopped" /\ m_audioFileRef[t] # "open"
    BY DEF IInv, TapesConsistent, TapeConsistent
  <2>2. CASE WriteChunk
    <3>1. t # immTape
      BY <2>1, <2>2 DEF WriteChunk, IInv, ThreadsConsistent
    <3>2. QED
      BY <2>1, <2>2, <3>1 DEF WriteChunk, IInv, TypeOK, HistoryType
  <2>3. CASE UNCHANGED filed
    BY <2>1, <2>3
  <2>4. QED
    BY <2>2, <2>3
    DEF Next, Capture, Immediate, EtStart, AddAudioChunk, PushChunk, pushBack, EtStop, SetDuration,
        Push, EtKeep, EtParty, Stop, Acquire, Pop, Write, Discard, TakeChunk, StopTape,
        Dispose, vars
<1>2. QED
  BY Invariance, <1>1, PTL DEF Spec, FileFrozenAfterDisposal

-----------------------------------------------------------------------------
(* The order of the chunks.  ChunkInv is a second inductive invariant, over *)
(* IInv.                                                                    *)

\* What Append and Tail do to an ascending sequence, and what is in them.
LEMMA AppendOrder ==
  ASSUME NEW q \in Seq(Chunks), NEW c \in Chunks
  PROVE  /\ \A i \in 1..Len(Append(q, c)) :
              Append(q, c)[i] = c \/ (i \in 1..Len(q) /\ Append(q, c)[i] = q[i])
         /\ Ascending(q) /\ Before(q, <<c>>) => Ascending(Append(q, c))
<1>1. /\ Len(q) \in Nat /\ Len(Append(q, c)) = Len(q) + 1
      /\ Append(q, c)[Len(q) + 1] = c
      /\ \A i \in 1..Len(q) : Append(q, c)[i] = q[i] /\ q[i] \in Nat
  BY BoundsAreNat DEF Chunks
<1>2. \A i \in 1..(Len(q) + 1) : i = Len(q) + 1 \/ i \in 1..Len(q)
  BY <1>1
<1>3. ASSUME Ascending(q), Before(q, <<c>>) PROVE Ascending(Append(q, c))
  <2>1. \A i \in 1..Len(q) : q[i] < c
    BY <1>3 DEF Before
  <2>2. QED
    BY <1>1, <1>2, <1>3, <2>1 DEF Ascending
<1>4. QED
  BY <1>1, <1>2, <1>3

\* The order of a queue survives taking its head.
LEMMA TailOrder ==
  ASSUME NEW q \in Seq(Chunks), q # << >>
  PROVE  /\ Head(q) = q[1] /\ 1 \in 1..Len(q)
         /\ \A i \in 1..Len(Tail(q)) : i + 1 \in 1..Len(q) /\ Tail(q)[i] = q[i + 1]
         /\ Ascending(q) => Ascending(Tail(q)) /\ Before(<<Head(q)>>, Tail(q))
<1>1. /\ Len(q) \in Nat /\ Len(q) > 0 /\ Len(Tail(q)) = Len(q) - 1 /\ Head(q) = q[1]
      /\ \A i \in 1..(Len(q) - 1) : Tail(q)[i] = q[i + 1]
  OBVIOUS
<1>2. Ascending(q) => Ascending(Tail(q))
  BY <1>1 DEF Ascending
<1>3. Ascending(q) => Before(<<Head(q)>>, Tail(q))
  BY <1>1 DEF Ascending, Before
<1>4. QED
  BY <1>1, <1>2, <1>3

\* Where a sequence, an element and a sequence are put together, an index falls
\* in one of the three.
LEMMA ConcatParts ==
  ASSUME NEW q \in Seq(Chunks), NEW r \in Seq(Chunks)
  PROVE  /\ q \o r \in Seq(Chunks)
         /\ \A i \in 1..Len(q \o r) :
              \/ i \in 1..Len(q) /\ (q \o r)[i] = q[i]
              \/ i > Len(q) /\ i - Len(q) \in 1..Len(r) /\ (q \o r)[i] = r[i - Len(q)]
         /\ Ascending(q) /\ Ascending(r) /\ Before(q, r) => Ascending(q \o r)
<1>1. /\ q \o r \in Seq(Chunks) /\ Len(q \o r) = Len(q) + Len(r)
      /\ Len(q) \in Nat /\ Len(r) \in Nat
  OBVIOUS
<1>2. ASSUME NEW i \in 1..Len(q \o r)
      PROVE  \/ i \in 1..Len(q) /\ (q \o r)[i] = q[i]
             \/ i > Len(q) /\ i - Len(q) \in 1..Len(r) /\ (q \o r)[i] = r[i - Len(q)]
  BY <1>1
<1>3. ASSUME Ascending(q), Ascending(r), Before(q, r),
             NEW i \in 1..Len(q \o r), NEW j \in 1..Len(q \o r), i < j
      PROVE  (q \o r)[i] < (q \o r)[j]
  <2>1. CASE i \in 1..Len(q) /\ j \in 1..Len(q)
    BY <1>2, <1>3, <2>1 DEF Ascending
  <2>2. CASE i \in 1..Len(q) /\ j > Len(q)
    BY <1>2, <1>3, <2>2 DEF Before
  <2>3. CASE i > Len(q) /\ j > Len(q)
    BY <1>1, <1>2, <1>3, <2>3 DEF Ascending
  <2>4. QED
    BY <1>1, <1>3, <2>1, <2>2, <2>3
<1>4. QED
  BY <1>1, <1>2, <1>3 DEF Ascending

\* What comes before a sequence, and after one, that grows.
LEMMA BeforeAppend ==
  ASSUME NEW q \in Seq(Chunks), NEW r \in Seq(Chunks), NEW c \in Chunks
  PROVE  /\ Before(q, r) /\ Before(<<c>>, r) => Before(Append(q, c), r)
         /\ Before(r, q) /\ Before(r, <<c>>) => Before(r, Append(q, c))
<1>1. ASSUME NEW i \in 1..Len(Append(q, c))
      PROVE  Append(q, c)[i] = c \/ (i \in 1..Len(q) /\ Append(q, c)[i] = q[i])
  BY AppendOrder
<1>2. Before(<<c>>, r) <=> \A j \in 1..Len(r) : c < r[j]
  BY DEF Before
<1>3. Before(r, <<c>>) <=> \A j \in 1..Len(r) : r[j] < c
  BY DEF Before
<1>4. QED
  BY <1>1, <1>2, <1>3 DEF Before

\* A sequence that precedes two others precedes them one after the other.
LEMMA BeforeConcat ==
  ASSUME NEW p \in Seq(Chunks), NEW q \in Seq(Chunks), NEW r \in Seq(Chunks),
         Before(p, q), Before(p, r)
  PROVE  Before(p, q \o r)
<1>1. ASSUME NEW i \in 1..Len(q \o r)
      PROVE  \/ i \in 1..Len(q) /\ (q \o r)[i] = q[i]
             \/ i - Len(q) \in 1..Len(r) /\ (q \o r)[i] = r[i - Len(q)]
  BY ConcatParts
<1>2. QED
  BY <1>1 DEF Before

\* A chunk a tape holds after a step it held before, or was just pushed there.
LEMMA HoldsStep ==
  ASSUME IInv, [Next]_vars, NEW t \in Tapes, NEW c \in Chunks, Holds(t, c)'
  PROVE  Holds(t, c) \/ (PushChunk /\ t = m_audioTapeRef /\ c = numChunks)
<1> USE DEF IInv, TypeOK, TapeType, HistoryType, ThreadsConsistent, Holds, ImmAt
<1>0. filed[t] \in Seq(Chunks) /\ m_chunkQueue[t] \in Seq(Chunks)
  OBVIOUS
<1>1. CASE PushChunk
  <2>1. m_audioTapeRef \in Tapes /\ numChunks \in Chunks
        /\ UNCHANGED <<filed, immPc, immTape, immChunk>>
    BY <1>1 DEF PushChunk, pushBack, immVars
  <2>2. m_chunkQueue'[t] = m_chunkQueue[t]
        \/ (t = m_audioTapeRef /\ m_chunkQueue'[t] = Append(m_chunkQueue[t], numChunks))
    BY <1>1, <2>1 DEF PushChunk, pushBack
  <2>3. \A i \in 1..Len(Append(m_chunkQueue[t], numChunks)) :
          \/ Append(m_chunkQueue[t], numChunks)[i] = numChunks
          \/ /\ i \in 1..Len(m_chunkQueue[t])
             /\ Append(m_chunkQueue[t], numChunks)[i] = m_chunkQueue[t][i]
    BY <1>0, <2>1, AppendOrder
  <2>4. QED
    BY <1>1, <2>1, <2>2, <2>3
<1>2. CASE Discard \/ TakeChunk
  <2>1. immTape \in Tapes /\ UNCHANGED filed /\ immPc # "chunk"
    BY <1>2 DEF Discard, TakeChunk
  <2>2. CASE m_chunkQueue' = m_chunkQueue
    <3>1. ~ImmAt(t, {"chunk"})'
      BY <1>2, <2>1, <2>2 DEF Discard, TakeChunk
    <3>2. QED
      BY <2>1, <2>2, <3>1
  <2>3. CASE m_chunkQueue[immTape] # << >>
             /\ m_chunkQueue' = [m_chunkQueue EXCEPT ![immTape] = Tail(@)]
    <3>1. /\ 1 \in 1..Len(m_chunkQueue[immTape])
          /\ m_chunkQueue[immTape][1] = Head(m_chunkQueue[immTape])
          /\ \A i \in 1..Len(Tail(m_chunkQueue[immTape])) :
               /\ i + 1 \in 1..Len(m_chunkQueue[immTape])
               /\ Tail(m_chunkQueue[immTape])[i] = m_chunkQueue[immTape][i + 1]
      BY <2>1, <2>3, TailOrder
    <3>2. ImmAt(t, {"chunk"})' => t = immTape /\ immChunk' = Head(m_chunkQueue[immTape])
      BY <1>2, <2>1, <2>3 DEF Discard, TakeChunk
    <3>3. (\E i \in 1..Len(m_chunkQueue'[t]) : m_chunkQueue'[t][i] = c)
            => \E i \in 1..Len(m_chunkQueue[t]) : m_chunkQueue[t][i] = c
      <4>1. CASE t = immTape
        BY <2>1, <2>3, <3>1, <4>1
      <4>2. CASE t # immTape
        BY <2>1, <2>3, <4>2
      <4>3. QED
        BY <4>1, <4>2
    <3>4. QED
      BY <2>1, <3>1, <3>2, <3>3
  <2>4. QED
    BY <1>2, <2>2, <2>3 DEF Discard, TakeChunk
<1>3. CASE WriteChunk
  <2>1. /\ immTape \in Tapes /\ immPc = "chunk" /\ immChunk \in Chunks
        /\ immPc' # "chunk" /\ UNCHANGED <<m_chunkQueue, immTape>>
    BY <1>3 DEF WriteChunk
  <2>2. filed'[t] = filed[t]
        \/ (t = immTape /\ filed'[t] = Append(filed[t], immChunk))
    BY <1>3, <2>1 DEF WriteChunk
  <2>3. \A i \in 1..Len(Append(filed[t], immChunk)) :
          \/ Append(filed[t], immChunk)[i] = immChunk
          \/ i \in 1..Len(filed[t]) /\ Append(filed[t], immChunk)[i] = filed[t][i]
    BY <1>0, <2>1, AppendOrder
  <2>4. QED
    BY <2>1, <2>2, <2>3
<1>4. CASE UNCHANGED <<filed, m_chunkQueue>> /\ (immPc' = "chunk" => UNCHANGED immVars)
  BY <1>4 DEF immVars
<1>5. QED
  BY <1>1, <1>2, <1>3, <1>4
  DEF Next, Capture, Immediate, EtStart, AddAudioChunk, EtStop, SetDuration, Push,
      EtKeep, EtParty, Stop, Acquire, Pop, Write, StopTape, Dispose,
      vars, tapeVars, queueVars, immVars

\* The file, the chunk in hand and the queue of a tape stay in the order of
\* capture.
LEMMA PartsStep ==
  ASSUME IInv, ChunkInv, [Next]_vars, NEW t \in Tapes
  PROVE  PartsInOrder(t)'
<1> USE DEF IInv, TypeOK, TapeType, HistoryType, ThreadsConsistent, ImmAt
<1>0. /\ filed[t] \in Seq(Chunks) /\ m_chunkQueue[t] \in Seq(Chunks)
      /\ PartsInOrder(t)
  BY DEF ChunkInv
<1>1. CASE PushChunk
  <2>1. /\ m_audioTapeRef \in Tapes /\ numChunks \in Chunks /\ capPc = "push"
        /\ UNCHANGED <<filed, immPc, immTape, immChunk>>
    BY <1>1 DEF PushChunk, pushBack, immVars
  <2>2. CASE m_chunkQueue'[t] = m_chunkQueue[t]
    BY <1>0, <2>1, <2>2 DEF PartsInOrder
  <2>3. CASE m_chunkQueue'[t] = Append(m_chunkQueue[t], numChunks)
    <3>1. \A c \in Chunks : Holds(t, c) => c < numChunks
      BY <2>1 DEF ChunkInv
    <3>2. Before(m_chunkQueue[t], <<numChunks>>) /\ Before(filed[t], <<numChunks>>)
      BY <1>0, <3>1 DEF Before, Holds
    <3>3. ImmAt(t, {"chunk"}) => immChunk \in Chunks /\ Before(<<immChunk>>, <<numChunks>>)
      BY <3>1 DEF Holds, Before
    <3>4. Ascending(m_chunkQueue'[t])
      BY <1>0, <2>1, <2>3, <3>2, AppendOrder DEF PartsInOrder
    <3>5. Before(filed[t], m_chunkQueue'[t])
      BY <1>0, <2>1, <2>3, <3>2, BeforeAppend DEF PartsInOrder
    <3>6. ImmAt(t, {"chunk"}) => Before(<<immChunk>>, m_chunkQueue'[t])
      <4>1. ImmAt(t, {"chunk"}) => <<immChunk>> \in Seq(Chunks)
        BY <3>3
      <4>2. ASSUME ImmAt(t, {"chunk"}) PROVE Before(<<immChunk>>, m_chunkQueue'[t])
        <5>1. /\ Before(<<immChunk>>, m_chunkQueue[t]) /\ Before(<<immChunk>>, <<numChunks>>)
              /\ <<immChunk>> \in Seq(Chunks)
          BY <1>0, <3>3, <4>1, <4>2 DEF PartsInOrder
        <5>2. Before(<<immChunk>>, Append(m_chunkQueue[t], numChunks))
          BY <1>0, <2>1, <5>1, BeforeAppend
        <5>3. QED
          BY <2>3, <5>2
      <4>3. QED
        BY <4>2
    <3>7. QED
      BY <1>0, <2>1, <3>4, <3>5, <3>6 DEF PartsInOrder
  <2>4. QED
    BY <1>1, <2>1, <2>2, <2>3 DEF PushChunk, pushBack
<1>2. CASE Discard \/ TakeChunk
  <2>1. immTape \in Tapes /\ UNCHANGED filed /\ immPc # "chunk"
    BY <1>2 DEF Discard, TakeChunk
  <2>2. CASE m_chunkQueue'[t] = m_chunkQueue[t] /\ ~ImmAt(t, {"chunk"})'
    BY <1>0, <2>1, <2>2 DEF PartsInOrder
  <2>3. CASE /\ t = immTape /\ m_chunkQueue[t] # << >>
             /\ m_chunkQueue'[t] = Tail(m_chunkQueue[t])
             /\ (ImmAt(t, {"chunk"})' => immChunk' = Head(m_chunkQueue[t]))
    <3>1. Ascending(m_chunkQueue'[t]) /\ Before(<<Head(m_chunkQueue[t])>>, m_chunkQueue'[t])
      BY <1>0, <2>3, TailOrder DEF PartsInOrder
    <3>2. Before(filed[t], m_chunkQueue'[t]) /\ Before(filed[t], <<Head(m_chunkQueue[t])>>)
      <4>1. /\ Head(m_chunkQueue[t]) = m_chunkQueue[t][1] /\ 1 \in 1..Len(m_chunkQueue[t])
            /\ \A i \in 1..Len(m_chunkQueue'[t]) :
                 i + 1 \in 1..Len(m_chunkQueue[t])
                 /\ m_chunkQueue'[t][i] = m_chunkQueue[t][i + 1]
        BY <1>0, <2>3, TailOrder
      <4>2. QED
        BY SMTT(30), <1>0, <4>1 DEF PartsInOrder, Before
    <3>3. QED
      BY <1>0, <2>1, <2>3, <3>1, <3>2 DEF PartsInOrder
  <2>4. QED
    BY <1>2, <2>1, <2>2, <2>3 DEF Discard, TakeChunk
<1>3. CASE WriteChunk
  <2>1. /\ immTape \in Tapes /\ immPc = "chunk" /\ immChunk \in Chunks
        /\ immPc' # "chunk" /\ UNCHANGED <<m_chunkQueue, immTape>>
    BY <1>3 DEF WriteChunk
  <2>2. CASE filed'[t] = filed[t]
    BY <1>0, <2>1, <2>2 DEF PartsInOrder
  <2>3. CASE t = immTape /\ filed'[t] = Append(filed[t], immChunk)
    <3>1. Ascending(filed'[t])
      BY <1>0, <2>1, <2>3, AppendOrder DEF PartsInOrder
    <3>2. Before(filed'[t], m_chunkQueue[t])
      BY <1>0, <2>1, <2>3, BeforeAppend DEF PartsInOrder
    <3>3. QED
      BY <1>0, <2>1, <3>1, <3>2 DEF PartsInOrder
  <2>4. QED
    BY <1>3, <2>1, <2>2, <2>3 DEF WriteChunk
<1>4. CASE UNCHANGED <<filed, m_chunkQueue>> /\ (immPc' = "chunk" => UNCHANGED immVars)
  BY <1>0, <1>4 DEF PartsInOrder, immVars
<1>5. QED
  BY <1>1, <1>2, <1>3, <1>4
  DEF Next, Capture, Immediate, EtStart, AddAudioChunk, EtStop, SetDuration, Push,
      EtKeep, EtParty, Stop, Acquire, Pop, Write, StopTape, Dispose,
      vars, tapeVars, queueVars, immVars

\* ChunkInv is an invariant of the two threads.
THEOREM ChunksInOrder == Spec => []ChunkInv
<1> USE DEF IInv, TypeOK, PortType
<1>1. Init => ChunkInv
  BY DEF Init, ChunkInv, PartsInOrder, Holds, Ascending, Before, ImmAt
<1>2. IInv /\ ChunkInv /\ [Next]_vars => ChunkInv'
  <2> SUFFICES ASSUME IInv, ChunkInv, [Next]_vars PROVE ChunkInv'
    OBVIOUS
  <2>1. ASSUME NEW t \in Tapes, NEW c \in Chunks, Holds(t, c)'
        PROVE  c <= numChunks' /\ (capPc' = "push" => c < numChunks')
    <3>1. Holds(t, c) \/ (PushChunk /\ c = numChunks)
      BY <2>1, HoldsStep
    <3>2. numChunks' >= numChunks /\ numChunks \in Nat /\ numChunks' \in Nat
          /\ (capPc' = "push" => (capPc = "push" /\ ~PushChunk) \/ numChunks' = numChunks + 1)
      BY BoundsAreNat
      DEF Next, Capture, Immediate, EtStart, AddAudioChunk, PushChunk, pushBack, EtStop, SetDuration,
          Push, EtKeep, EtParty, Stop, Acquire, Pop, Write, Discard, TakeChunk, WriteChunk,
          StopTape, Dispose, vars, portVars
    <3>3. PushChunk => numChunks' = numChunks /\ capPc' # "push"
      BY DEF PushChunk, pushBack
    <3>4. Holds(t, c) => c <= numChunks /\ (capPc = "push" => c < numChunks)
      BY DEF ChunkInv
    <3>5. QED
      BY <3>1, <3>2, <3>3, <3>4 DEF Chunks
  <2>2. ASSUME NEW t \in Tapes, NEW u \in Tapes, NEW c \in Chunks,
               Holds(t, c)', Holds(u, c)'
        PROVE  t = u
    <3>1. Holds(t, c) \/ (PushChunk /\ t = m_audioTapeRef /\ c = numChunks)
      BY <2>2, HoldsStep
    <3>2. Holds(u, c) \/ (PushChunk /\ u = m_audioTapeRef /\ c = numChunks)
      BY <2>2, HoldsStep
    <3>3. PushChunk /\ c = numChunks => ~Holds(t, c) /\ ~Holds(u, c)
      BY DEF PushChunk, pushBack, ChunkInv, Chunks
    <3>4. QED
      BY <3>1, <3>2, <3>3 DEF ChunkInv
  <2>3. QED
    BY <2>1, <2>2, PartsStep DEF ChunkInv, Tapes, Chunks
<1>3. QED
  BY Invariance, <1>1, <1>2, PTL DEF Spec

\* AudioTape::AddAudioChunk and Write: a file receives the chunks of its own
\* tape only, each at most once and in the order of capture.
THEOREM FiledInCaptureOrder == Spec => []FiledInOrder
<1>1. IInv /\ ChunkInv => FiledInOrder
  <2> SUFFICES ASSUME IInv, ChunkInv PROVE FiledInOrder
    OBVIOUS
  <2> DEFINE Hand(t) == IF ImmAt(t, {"chunk"}) THEN <<immChunk>> ELSE << >>
             Rest(t) == Hand(t) \o m_chunkQueue[t]
  <2> USE DEF IInv, TypeOK, TapeType, HistoryType, ThreadsConsistent
  <2>1. ASSUME NEW t \in Tapes
        PROVE  /\ filed[t] \in Seq(Chunks) /\ m_chunkQueue[t] \in Seq(Chunks)
               /\ Hand(t) \in Seq(Chunks) /\ Rest(t) \in Seq(Chunks)
               /\ ChunksOf(t) = filed[t] \o Rest(t)
    <3>1. filed[t] \in Seq(Chunks) /\ m_chunkQueue[t] \in Seq(Chunks) /\ Hand(t) \in Seq(Chunks)
      BY DEF ImmAt
    <3>2. Rest(t) \in Seq(Chunks)
      BY <3>1, ConcatParts
    <3>3. (filed[t] \o Hand(t)) \o m_chunkQueue[t] = filed[t] \o (Hand(t) \o m_chunkQueue[t])
      BY SMTT(30), <3>1
    <3>4. QED
      BY <3>1, <3>2, <3>3 DEF ChunksOf
  <2>2. ASSUME NEW t \in Tapes, NEW i \in 1..Len(ChunksOf(t))
        PROVE  ChunksOf(t)[i] \in Chunks /\ Holds(t, ChunksOf(t)[i])
    <3>1. CASE i \in 1..Len(filed[t]) /\ ChunksOf(t)[i] = filed[t][i]
      BY <2>1, <3>1 DEF Holds
    <3>2. CASE \E j \in 1..Len(Rest(t)) : ChunksOf(t)[i] = Rest(t)[j]
      <4>1. PICK j \in 1..Len(Rest(t)) : ChunksOf(t)[i] = Rest(t)[j]
        BY <3>2
      <4>2. \/ j \in 1..Len(Hand(t)) /\ Rest(t)[j] = Hand(t)[j]
            \/ j - Len(Hand(t)) \in 1..Len(m_chunkQueue[t])
               /\ Rest(t)[j] = m_chunkQueue[t][j - Len(Hand(t))]
        BY <2>1, ConcatParts
      <4>3. CASE j \in 1..Len(Hand(t)) /\ Rest(t)[j] = Hand(t)[j]
        BY <2>1, <4>1, <4>3 DEF Holds, ImmAt
      <4>4. CASE \E k \in 1..Len(m_chunkQueue[t]) : Rest(t)[j] = m_chunkQueue[t][k]
        BY <2>1, <4>1, <4>4 DEF Holds
      <4>5. QED
        BY <4>2, <4>3, <4>4
    <3>3. \/ i \in 1..Len(filed[t]) /\ ChunksOf(t)[i] = filed[t][i]
          \/ /\ i - Len(filed[t]) \in 1..Len(Rest(t))
             /\ ChunksOf(t)[i] = Rest(t)[i - Len(filed[t])]
      <4>1. i \in 1..Len(filed[t] \o Rest(t))
        BY <2>1, <2>2
      <4>2. QED
        BY SMTT(30), <2>1, <4>1, ConcatParts
    <3>4. QED
      BY <3>1, <3>2, <3>3
  <2>3. ASSUME NEW t \in Tapes PROVE Ascending(ChunksOf(t))
    <3>1. PartsInOrder(t)
      BY DEF ChunkInv
    <3>2. Ascending(Hand(t)) /\ Before(Hand(t), m_chunkQueue[t]) /\ Before(filed[t], Hand(t))
      BY <3>1 DEF PartsInOrder, Ascending, Before
    <3>3. Ascending(Rest(t))
      BY <2>1, <3>1, <3>2, ConcatParts DEF PartsInOrder
    <3>4. Before(filed[t], Rest(t))
      BY <2>1, <3>1, <3>2, BeforeConcat DEF PartsInOrder
    <3>5. Ascending(filed[t] \o Rest(t))
      BY <2>1, <3>1, <3>3, <3>4, ConcatParts DEF PartsInOrder
    <3>6. QED
      BY <2>1, <3>5
  <2>4. ASSUME NEW t \in Tapes, NEW u \in Tapes \ {t},
               NEW i \in 1..Len(ChunksOf(t)), NEW j \in 1..Len(ChunksOf(u))
        PROVE  ChunksOf(t)[i] # ChunksOf(u)[j]
    BY <2>2 DEF ChunkInv
  <2>5. QED
    BY <2>3, <2>4 DEF FiledInOrder, Ascending
<1>2. QED
  BY Invariance, ChunksInOrder, <1>1, PTL

=============================================================================
