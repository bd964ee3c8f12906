--------------------------- MODULE TapeReporting ---------------------------
(***************************************************************************)
(* How a call is reported to the trackers: the branches of                 *)
(* CapturePort::AddCaptureEvent that send a message, AudioTape::GetMessage *)
(* and Reporting::AddMessage, run by a capture thread and, for a finished  *)
(* tape, by the thread at the end of the processing chain; and one         *)
(* ReportingThread per tracker that sends, retries and skips.              *)
(*                                                                         *)
(* The stage of a message is not given by the event that causes it but by  *)
(* its place in AudioTape::m_toSendEventQueue, from which both threads     *)
(* take; an empty queue means "ready".  Taking the event and queueing the  *)
(* message for each tracker are separate steps, with no lock around them.  *)
(*                                                                         *)
(* The audio path is that of TapeCapture, reduced to a tape's m_state and  *)
(* to whether it has bytes.  The sequence of events of a call is the one   *)
(* the VoIP plugin produces: Start() and ReportMetadata() together, then   *)
(* updates, holds and resumes, then Stop().                                *)
(***************************************************************************)
EXTENDS EventStreaming

CONSTANTS
  MaxTapes,                \* bound on the EtStart events explored
  MaxTrackers,             \* bound on the entries of <TrackerHostname>
  Reachable,               \* the trackers that are up again and again
  ReportingQueueSize,
  Scenarios                \* settings explored, each with its own bounds

\* The entries of <TrackerHostname> whose thread could be started, and two
\* settings; and bounds on the EtStart events, on the EtUpdate, EtHold and EtResume events, on what an operator asks
\* a tracker to skip and on the answers of a tracker that get lost; and the
\* clients that may connect to follow the messages.
Settings == [trackers : 0..MaxTrackers, HoldResumeReportEvents : BOOLEAN,
             PartyFilterActive : BOOLEAN,
             tapes : 0..MaxTapes, updates : Nat, skips : Nat, lost : Nat,
             clients : SUBSET Clients]

ASSUME ReportingBounds == MaxTapes \in Nat /\ MaxTrackers \in Nat /\ ReportingQueueSize \in Nat
ASSUME ReportingScenarios == \A s \in Scenarios : s \in Settings
ASSUME ReachableTrackers == Reachable \subseteq 1..MaxTrackers

NULL == 0
Tapes == 1..MaxTapes
Trackers == 1..MaxTrackers

\* The threads that take a message from a tape: the capture thread, and the
\* thread that ends the processing of each tape.
CAPTURE == 0
Reporters == {CAPTURE} \cup Tapes

\* "none" is the message of a tape without events and without audio; its
\* m_recId is empty.
Stages == {"start", "update", "hold", "resume", "stop", "ready", "none"}
Messages == [tape : Tapes, stage : Stages]
NoMessage == [tape |-> NULL, stage |-> "none"]

VARIABLES
  scenario,
  \* the plugin's session and the port
  session, numTapes, numUpdates, m_audioTapeRef, m_needSendStop,
  \* AudioTape, one function per member
  m_toSendEventQueue, m_shouldStop, m_state, hasAudio, m_lastHoldTs,
  m_passedPartyFilterTest,
  \* the threads that report: where they are, the event, the message, the tracker
  pc, capEvent, msgRef, dest,
  \* ReportingThread, per tracker
  repPc, m_messageQueue, current, m_numTapesToSkip,
  \* history
  numSkips, numLost,
  enqueued,     \* messages accepted by the tracker's queue
  received,     \* places in enqueued of the messages the tracker received
  lost,         \* messages refused by a full queue or skipped
  deleted,      \* tapes whose file was deleted on a tracker's order
  expired       \* tapes whose port expired: ten minutes without a chunk

callVars == <<session, numTapes, numUpdates>>
portVars == <<m_audioTapeRef, m_needSendStop>>
audioVars == <<m_state, hasAudio, expired>>
tapeVars == <<m_toSendEventQueue, m_shouldStop, m_lastHoldTs, m_passedPartyFilterTest>>
threadVars == <<pc, capEvent, msgRef, dest>>
sendVars == <<repPc, current, numLost, received, deleted>>
queueVars == <<m_messageQueue, enqueued>>
skipVars == <<m_numTapesToSkip, numSkips>>
vars == <<scenario, streamVars, callVars, portVars, audioVars, tapeVars, threadVars, sendVars,
          queueVars, skipVars, lost>>

Init ==
  /\ scenario \in Scenarios
  /\ StreamInit
  /\ session = "none" /\ numTapes = 0 /\ numUpdates = 0
  /\ m_audioTapeRef = NULL /\ m_needSendStop = FALSE
  /\ m_toSendEventQueue = [t \in Tapes |-> << >>]
  /\ m_shouldStop = [t \in Tapes |-> FALSE]
  /\ m_state = [t \in Tapes |-> "Created"]
  /\ hasAudio = [t \in Tapes |-> FALSE]
  /\ m_lastHoldTs = [t \in Tapes |-> FALSE]
  /\ m_passedPartyFilterTest = [t \in Tapes |-> FALSE]
  /\ pc = [r \in Reporters |-> "idle"]
  /\ capEvent = "none"
  /\ msgRef = [r \in Reporters |-> NoMessage]
  /\ dest = [r \in Reporters |-> 1]
  /\ repPc = [k \in Trackers |-> "init"]
  /\ m_messageQueue = [k \in Trackers |-> << >>]
  /\ current = [k \in Trackers |-> NoMessage]
  /\ m_numTapesToSkip = [k \in Trackers |-> 0]
  /\ numSkips = [k \in Trackers |-> 0]
  /\ numLost = [k \in Trackers |-> 0]
  /\ enqueued = [k \in Trackers |-> << >>]
  /\ received = [k \in Trackers |-> << >>]
  /\ lost = [k \in Trackers |-> {}]
  /\ deleted = {} /\ expired = {}

rejected(t) == scenario.PartyFilterActive /\ ~m_passedPartyFilterTest[t]

\* Nothing follows the dereference of NULL in GetMessage, below.
alive == \A r \in Reporters : pc[r] # "crashed"
-----------------------------------------------------------------------------
(* The capture thread.                                                     *)

\* Slip: updates are stored with send = false.
sendsAllButUpdate(e) == e # "update"

\* The events CapturePort hands to AudioTape::AddCaptureEvent with send = true.
sends(e) == TRUE

toSend(t, e) ==
  m_toSendEventQueue' = IF sends(e) THEN [m_toSendEventQueue EXCEPT ![t] = Append(@, e)]
                                    ELSE m_toSendEventQueue

idle == alive /\ pc[CAPTURE] = "idle"
report(e) == pc' = [pc EXCEPT ![CAPTURE] = "get"] /\ capEvent' = e

\* VoIpSession::Start: a new tape, with its start event still to be sent.
EtStart ==
  /\ idle
  /\ session # "started"
  /\ numTapes < scenario.tapes
  /\ session' = "started"
  /\ numTapes' = numTapes + 1
  /\ m_audioTapeRef' = numTapes + 1
  /\ m_shouldStop' = IF m_audioTapeRef = NULL THEN m_shouldStop
                     ELSE [m_shouldStop EXCEPT ![m_audioTapeRef] = TRUE]
  /\ toSend(numTapes + 1, "start")
  /\ UNCHANGED <<scenario, streamVars, numUpdates, m_needSendStop, audioVars, m_lastHoldTs,
                 m_passedPartyFilterTest, threadVars, sendVars, queueVars, skipVars, lost>>

\* VoIpSession::ReportMetadata: the parties, which the filter may let pass, and
\* EtEndMetadata.
EtEndMetadata ==
  /\ idle
  /\ session = "started"
  /\ session' = "reported"
  /\ \E pass \in BOOLEAN :
       m_passedPartyFilterTest' =
         [m_passedPartyFilterTest EXCEPT ![m_audioTapeRef] = scenario.PartyFilterActive /\ pass]
  /\ report("endmetadata")
  /\ UNCHANGED <<scenario, streamVars, numTapes, numUpdates, portVars, audioVars, m_toSendEventQueue,
                 m_shouldStop, m_lastHoldTs, msgRef, dest, sendVars, queueVars, skipVars,
                 lost>>

EtUpdate ==
  /\ idle
  /\ session = "reported"
  /\ numUpdates < scenario.updates
  /\ numUpdates' = numUpdates + 1
  /\ toSend(m_audioTapeRef, "update")
  /\ report("update")
  /\ UNCHANGED <<scenario, streamVars, session, numTapes, portVars, audioVars, m_shouldStop, m_lastHoldTs,
                 m_passedPartyFilterTest, msgRef, dest, sendVars, queueVars, skipVars, lost>>

\* EtHold while the tape is not on hold, EtResume while it is; the others are
\* ignored.
EtHoldResume(e, onHold) ==
  /\ idle
  /\ session = "reported"
  /\ numUpdates < scenario.updates
  /\ numUpdates' = numUpdates + 1
  /\ m_lastHoldTs[m_audioTapeRef] = ~onHold
  /\ m_lastHoldTs' = [m_lastHoldTs EXCEPT ![m_audioTapeRef] = onHold]
  /\ \/ scenario.HoldResumeReportEvents /\ toSend(m_audioTapeRef, e) /\ report(e)
     \/ ~scenario.HoldResumeReportEvents /\ UNCHANGED <<m_toSendEventQueue, pc, capEvent>>
  /\ UNCHANGED <<scenario, streamVars, session, numTapes, portVars, audioVars, m_shouldStop,
                 m_passedPartyFilterTest, msgRef, dest, sendVars, queueVars, skipVars, lost>>

\* EtStop, as the plugin or Finalize sends it: m_shouldStop is raised before the
\* event is in the queue.
stop(e) ==
  /\ m_shouldStop' = [m_shouldStop EXCEPT ![m_audioTapeRef] = TRUE]
  /\ pc' = [pc EXCEPT ![CAPTURE] = "stop"]
  /\ capEvent' = e
  /\ UNCHANGED <<scenario, streamVars, numTapes, numUpdates, portVars, m_state, hasAudio, m_toSendEventQueue,
                 m_lastHoldTs, m_passedPartyFilterTest, msgRef, dest, sendVars, queueVars,
                 skipVars, lost>>

EtStop ==
  /\ idle
  /\ session = "reported"
  /\ session' = "stopped"
  /\ stop("stop")
  /\ UNCHANGED expired

QueueStop ==
  /\ alive /\ pc[CAPTURE] = "stop"
  /\ toSend(m_audioTapeRef, "stop")
  /\ pc' = [pc EXCEPT ![CAPTURE] = "get"]
  /\ UNCHANGED <<scenario, streamVars, callVars, portVars, audioVars, m_shouldStop, m_lastHoldTs,
                 m_passedPartyFilterTest, capEvent, msgRef, dest, sendVars, queueVars,
                 skipVars, lost>>

\* CapturePort::IsExpired, ten minutes after the last event or chunk.
isExpired == m_audioTapeRef # NULL /\ m_state[m_audioTapeRef] # "Active"

\* CapturePorts::Hoover for this port: Finalize forces the stop message, if it
\* is owed, and the port is erased.  Events that still come for the old session
\* find a port without a tape.
Hoover ==
  /\ idle
  /\ session # "started"
  /\ isExpired
  /\ expired' = expired \cup {m_audioTapeRef}
  /\ \/ m_needSendStop /\ stop("finalize") /\ UNCHANGED session
     \/ /\ ~m_needSendStop
        /\ m_audioTapeRef' = NULL
        /\ session' = "none"
        /\ UNCHANGED <<scenario, streamVars, numTapes, numUpdates, m_needSendStop, m_state, hasAudio, tapeVars,
                       threadVars, sendVars, queueVars, skipVars, lost>>
-----------------------------------------------------------------------------
(* The immediate and the processing threads, see TapeCapture.              *)

WriteAudio(t) ==
  /\ alive
  /\ t < m_audioTapeRef \/ (t = m_audioTapeRef /\ session # "started")
  /\ m_state[t] # "Stopped" /\ t \notin expired
  /\ ~(m_state[t] = "Active" /\ (hasAudio[t] \/ rejected(t)))
  /\ m_state' = [m_state EXCEPT ![t] = "Active"]
  /\ hasAudio' = [hasAudio EXCEPT ![t] = ~rejected(t)]
  /\ UNCHANGED <<scenario, streamVars, callVars, portVars, expired, tapeVars, threadVars, sendVars, queueVars,
                 skipVars, lost>>

\* The tape is stopped, and one with audio is handed to the processing chain,
\* unless it is discarded there; Reporting::AddAudioTape ends the chain.
StopTape(t) ==
  /\ alive
  /\ m_shouldStop[t] /\ m_state[t] # "Stopped" /\ ~rejected(t)
  /\ m_state' = [m_state EXCEPT ![t] = "Stopped"]
  /\ \/ hasAudio[t] /\ pc' = [pc EXCEPT ![t] = "get"]
     \/ UNCHANGED pc
  /\ UNCHANGED <<scenario, streamVars, callVars, portVars, hasAudio, expired, tapeVars, capEvent, msgRef, dest, sendVars,
                 queueVars, skipVars, lost>>
-----------------------------------------------------------------------------
(* AudioTape::GetMessage and Reporting::AddMessage, by either thread.      *)

tapeOf(r) == IF r = CAPTURE THEN m_audioTapeRef ELSE r

stageOf(t) ==
  IF m_toSendEventQueue[t] # << >> THEN Head(m_toSendEventQueue[t])
  ELSE IF hasAudio[t] THEN "ready" ELSE "none"

\* Slip: the event is read and left in the queue.
peekEvent(t) == UNCHANGED m_toSendEventQueue

popEvent(t) ==
  m_toSendEventQueue' = [m_toSendEventQueue EXCEPT ![t] = IF @ = << >> THEN @ ELSE Tail(@)]

\* A tape that did not pass the party filter yields no message, and AddMessage
\* dereferences the NULL reference.
GetMessage(r) ==
  /\ alive /\ pc[r] = "get"
  /\ \/ /\ ~rejected(tapeOf(r))
        /\ msgRef' = [msgRef EXCEPT ![r] = [tape |-> tapeOf(r), stage |-> stageOf(tapeOf(r))]]
        /\ popEvent(tapeOf(r))
        /\ dest' = [dest EXCEPT ![r] = 1]
        /\ pc' = [pc EXCEPT ![r] = "add"]
     \/ /\ rejected(tapeOf(r))
        /\ pc' = [pc EXCEPT ![r] = "crashed"]
        /\ UNCHANGED <<msgRef, m_toSendEventQueue, dest>>
  /\ UNCHANGED <<scenario, streamVars, callVars, portVars, audioVars, m_shouldStop, m_lastHoldTs,
                 m_passedPartyFilterTest, capEvent, sendVars, queueVars, skipVars, lost>>

\* The rest of the handler, after the message was queued for the last tracker.
\* Finalize takes a second message after the stop message.
Reported(r) ==
  IF r # CAPTURE
  THEN pc' = [pc EXCEPT ![r] = "done"] /\ UNCHANGED <<capEvent, portVars, session>>
  ELSE /\ m_needSendStop' = CASE capEvent = "endmetadata" -> TRUE
                              [] capEvent \in {"stop", "finalize", "extra"} -> FALSE
                              [] OTHER -> m_needSendStop
       /\ \/ capEvent = "finalize" /\ report("extra") /\ UNCHANGED <<m_audioTapeRef, session>>
          \/ /\ capEvent = "extra"
             /\ pc' = [pc EXCEPT ![r] = "idle"] /\ capEvent' = "none"
             /\ m_audioTapeRef' = NULL /\ session' = "none"
          \/ /\ capEvent \notin {"finalize", "extra"}
             /\ pc' = [pc EXCEPT ![r] = "idle"] /\ capEvent' = "none"
             /\ UNCHANGED <<m_audioTapeRef, session>>

\* One turn of the loop of Reporting::AddMessage.  The clients that follow the
\* messages are told last, here in the step of the last tracker.
AddMessage(r) ==
  LET k == dest[r]
      refused == Len(m_messageQueue[k]) >= ReportingQueueSize
  IN /\ alive /\ pc[r] = "add"
     /\ \/ /\ k <= scenario.trackers /\ ~refused
           /\ m_messageQueue' = [m_messageQueue EXCEPT ![k] = Append(@, msgRef[r])]
           /\ enqueued' = [enqueued EXCEPT ![k] = Append(@, msgRef[r])]
           /\ UNCHANGED lost
        \/ /\ k <= scenario.trackers /\ refused
           /\ lost' = [lost EXCEPT ![k] = @ \cup {msgRef[r]}]
           /\ UNCHANGED queueVars
        \/ scenario.trackers = 0 /\ UNCHANGED <<queueVars, lost>>
     /\ \/ /\ k < scenario.trackers
           /\ dest' = [dest EXCEPT ![r] = k + 1]
           /\ UNCHANGED <<streamVars, pc, msgRef, capEvent, portVars, session>>
        \/ /\ k >= scenario.trackers
           /\ Broadcast
           /\ Reported(r)
           /\ msgRef' = [msgRef EXCEPT ![r] = NoMessage]
           /\ UNCHANGED dest
     /\ UNCHANGED <<scenario, numTapes, numUpdates, audioVars, tapeVars, sendVars, skipVars>>
-----------------------------------------------------------------------------
(* ReportingThread::Run.                                                   *)

\* The init message is answered with success; until then it is sent again.
InitOk(k) ==
  /\ k <= scenario.trackers
  /\ alive /\ repPc[k] = "init"
  /\ repPc' = [repPc EXCEPT ![k] = "pop"]
  /\ UNCHANGED <<scenario, streamVars, callVars, portVars, audioVars, tapeVars, threadVars, current, numLost,
                 received, deleted, queueVars, skipVars, lost>>

\* TapeMsg::IsValid
isValid(m) == m.stage # "none"

\* The next message is taken; one without m_recId is ignored.
PopMessage(k) ==
  /\ alive /\ repPc[k] = "pop"
  /\ m_messageQueue[k] # << >>
  /\ m_messageQueue' = [m_messageQueue EXCEPT ![k] = Tail(@)]
  /\ \/ /\ isValid(Head(m_messageQueue[k]))
        /\ current' = [current EXCEPT ![k] = Head(m_messageQueue[k])]
        /\ repPc' = [repPc EXCEPT ![k] = "send"]
     \/ /\ ~isValid(Head(m_messageQueue[k]))
        /\ UNCHANGED <<current, repPc>>
  /\ UNCHANGED <<scenario, streamVars, callVars, portVars, audioVars, tapeVars, threadVars, numLost, received,
                 deleted, enqueued, skipVars, lost>>

doneWith(k) ==
  /\ repPc' = [repPc EXCEPT ![k] = "pop"]
  /\ current' = [current EXCEPT ![k] = NoMessage]

\* ReportingThread::IsSkip
takeSkip(k) ==
  /\ m_numTapesToSkip[k] > 0
  /\ m_numTapesToSkip' = [m_numTapesToSkip EXCEPT ![k] = @ - 1]

\* IsSkip() says to drop the message, before the first attempt or between two.
SkipMessage(k) ==
  /\ alive /\ repPc[k] = "send"
  /\ takeSkip(k)
  /\ lost' = [lost EXCEPT ![k] = @ \cup {current[k]}]
  /\ doneWith(k)
  /\ UNCHANGED <<scenario, streamVars, callVars, portVars, audioVars, tapeVars, threadVars, numLost, received,
                 deleted, queueVars, numSkips>>

attempt(k) == alive /\ repPc[k] = "send" /\ m_numTapesToSkip[k] = 0

receive(k) ==
  received' = [received EXCEPT ![k] = Append(@, Len(enqueued[k]) - Len(m_messageQueue[k]))]

\* Execute() succeeds, and TapeMsg::HandleResponse deletes the file if told so.
ExecuteOk(k) ==
  /\ attempt(k)
  /\ receive(k)
  /\ \E m_deleteTape \in BOOLEAN :
       deleted' = IF m_deleteTape /\ current[k].stage = "ready"
                  THEN deleted \cup {current[k].tape} ELSE deleted
  /\ doneWith(k)
  /\ UNCHANGED <<scenario, streamVars, callVars, portVars, audioVars, tapeVars, threadVars, numLost, queueVars,
                 skipVars, lost>>

\* Slip: start and stop messages are sent again like the others.
neverRealtime(m) == FALSE

\* Slip: no message is ever sent again.
alwaysRealtime(m) == TRUE

\* TapeMsg::IsRealtime
isRealtime(m) == m.stage \in {"start", "stop"}

\* Execute() fails, with the message delivered and its answer lost, or with the
\* message lost.  A realtime message is given up, the others are sent again.
ExecuteFail(k) ==
  /\ attempt(k)
  /\ \/ /\ numLost[k] < scenario.lost
        /\ numLost' = [numLost EXCEPT ![k] = @ + 1]
        /\ receive(k)
     \/ UNCHANGED <<numLost, received>>
  /\ IF isRealtime(current[k]) THEN doneWith(k) ELSE UNCHANGED <<repPc, current>>
  /\ UNCHANGED <<scenario, streamVars, callVars, portVars, audioVars, tapeVars, threadVars, deleted, queueVars,
                 skipVars, lost>>

\* Reporting::SkipTapes, on the order of an operator.
SkipTapes(k) ==
  /\ alive /\ k <= scenario.trackers
  /\ numSkips[k] < scenario.skips
  /\ numSkips' = [numSkips EXCEPT ![k] = @ + 1]
  /\ m_numTapesToSkip' = [m_numTapesToSkip EXCEPT ![k] = @ + 1]
  /\ UNCHANGED <<scenario, streamVars, callVars, portVars, audioVars, tapeVars, threadVars, sendVars, queueVars,
                 lost>>

Capture ==
  \/ EtStart \/ EtEndMetadata \/ EtUpdate \/ EtStop \/ QueueStop \/ Hoover
  \/ EtHoldResume("hold", TRUE) \/ EtHoldResume("resume", FALSE)

Tape == \E t \in Tapes : WriteAudio(t) \/ StopTape(t)

Message == \E r \in Reporters : GetMessage(r) \/ AddMessage(r)

Track ==
  \E k \in Trackers : \/ InitOk(k) \/ PopMessage(k) \/ SkipMessage(k) \/ ExecuteOk(k)
                      \/ ExecuteFail(k) \/ SkipTapes(k)

\* A client connects, is served and goes.
Follow ==
  /\ alive
  /\ \E c \in scenario.clients : StreamingSvc(c)
  /\ UNCHANGED <<scenario, callVars, portVars, audioVars, tapeVars, threadVars, sendVars,
                 queueVars, skipVars, lost>>

Next == Capture \/ Tape \/ Message \/ Track \/ Follow

Spec == Init /\ [][Next]_vars

\* Threads finish the calls they are in and reporting threads go on; a reachable
\* tracker answers some attempt of those made again and again.
Fairness ==
  /\ WF_vars(QueueStop) /\ \A r \in Reporters : WF_vars(GetMessage(r) \/ AddMessage(r))
  /\ \A k \in Trackers : WF_vars(PopMessage(k) \/ SkipMessage(k))
  /\ \A k \in Reachable : WF_vars(InitOk(k)) /\ SF_vars(ExecuteOk(k))

FairSpec == Spec /\ Fairness
-----------------------------------------------------------------------------
(* Properties *)

CallType ==
  /\ session \in {"none", "started", "reported", "stopped"}
  /\ numTapes \in 0..MaxTapes /\ numUpdates \in Nat
  /\ m_audioTapeRef \in 0..MaxTapes /\ m_needSendStop \in BOOLEAN
  /\ capEvent \in {"none", "endmetadata", "update", "hold", "resume", "stop", "finalize",
                   "extra"}

TapeType ==
  /\ m_toSendEventQueue \in [Tapes -> Seq(Stages)]
  /\ m_shouldStop \in [Tapes -> BOOLEAN]
  /\ m_state \in [Tapes -> {"Created", "Active", "Stopped"}]
  /\ hasAudio \in [Tapes -> BOOLEAN]
  /\ m_lastHoldTs \in [Tapes -> BOOLEAN]
  /\ m_passedPartyFilterTest \in [Tapes -> BOOLEAN]

ThreadType ==
  /\ pc \in [Reporters -> {"idle", "stop", "get", "add", "done", "crashed"}]
  /\ msgRef \in [Reporters -> Messages \cup {NoMessage}]
  /\ dest \in [Reporters -> Trackers \cup {1}]

TrackerType ==
  /\ repPc \in [Trackers -> {"init", "pop", "send"}]
  /\ m_messageQueue \in [Trackers -> Seq(Messages)]
  /\ current \in [Trackers -> Messages \cup {NoMessage}]
  /\ m_numTapesToSkip \in [Trackers -> Nat]
  /\ numSkips \in [Trackers -> Nat] /\ numLost \in [Trackers -> Nat]
  /\ enqueued \in [Trackers -> Seq(Messages)]
  /\ received \in [Trackers -> Seq(Nat)]
  /\ lost \in [Trackers -> SUBSET Messages]
  /\ deleted \in SUBSET Tapes /\ expired \in SUBSET Tapes

\* The port, its tapes, the threads that report and the trackers' threads hold
\* values of their types.
TypeOK == scenario \in Scenarios /\ CallType /\ TapeType /\ ThreadType /\ TrackerType

\* What happened to the messages of tracker k, in the order of its queue.
At(k, i, t, stage) == enqueued[k][i].tape = t /\ enqueued[k][i].stage = stage

\* No tracker is told twice that a tape started, stopped or is ready.
OnceEach ==
  \A k \in Trackers, t \in Tapes, stage \in {"start", "stop", "ready"} :
    \A i, j \in 1..Len(enqueued[k]) : At(k, i, t, stage) /\ At(k, j, t, stage) => i = j

\* The start message comes before every other message of its tape, unless the
\* tracker's queue was full.
StartFirst ==
  \A k \in Trackers : \A i \in 1..Len(enqueued[k]) :
    LET t == enqueued[k][i].tape IN
      \/ [tape |-> t, stage |-> "start"] \in lost[k]
      \/ \E j \in 1..i : At(k, j, t, "start")

\* AudioTape::GetMessage is called by two threads on one queue of events, and an
\* empty queue stands for "ready"; CapturePort.cpp:367 generates the start message
\* when the metadata is complete, from an event that was queued before.  All the
\* same every tracker hears of each stage once, of the start first.
StagesInOrder == TypeOK /\ OnceEach /\ StartFirst

\* TapeMsg::HandleResponse deletes the file of a tape whose "ready" message is
\* answered so: no such message exists, and no file is deleted, before the tape
\* is stopped and its thread has left the processing chain.
NoPrematureReady ==
  /\ \A k \in Trackers : \A i \in 1..Len(enqueued[k]) :
       enqueued[k][i].stage = "ready" => m_state[enqueued[k][i].tape] = "Stopped"
  /\ \A t \in deleted : m_state[t] = "Stopped" /\ pc[t] \in {"get", "add", "done"}

\* ReportingThread::Run: a tracker receives messages in the order of its queue,
\* a message more than once only when its answer was lost, and a start or stop
\* message never more than once.
InOrderDelivery ==
  \A k \in Trackers : \A i, j \in 1..Len(received[k]) :
    i < j => /\ received[k][i] <= received[k][j]
             /\ enqueued[k][received[k][i]].stage \in {"start", "stop"} => received[k][i] < received[k][j]

\* A tape that leaves the processing chain is reported: every reachable tracker
\* receives its "ready" message, however often it or another tracker is down,
\* unless its queue was full, an operator had the message skipped or the process
\* failed.
ReadyReachesTrackers ==
  \A k \in Reachable, t \in Tapes :
    pc[t] = "get" /\ k <= scenario.trackers
      ~> \/ \E i \in 1..Len(received[k]) : At(k, received[k][i], t, "ready")
         \/ [tape |-> t, stage |-> "ready"] \in lost[k]
         \/ ~alive
-----------------------------------------------------------------------------
(* The inductive invariant of the proofs.                                  *)

Msg(t, stage) == [tape |-> t, stage |-> stage]
Given(k, m) == \E i \in 1..Len(enqueued[k]) : enqueued[k][i] = m
InFlight(r, m) == pc[r] = "add" /\ msgRef[r] = m
\* A thread has the message, or a tracker's queue got it.
Out(m) == (\E r \in Reporters : InFlight(r, m)) \/ (\E k \in Trackers : Given(k, m))

\* Where the call is, and what the port knows of its tape.
CallInv ==
  /\ m_audioTapeRef \in {NULL, numTapes}
  /\ m_audioTapeRef = NULL <=> session = "none"
  /\ session \in {"none", "started"} => pc[CAPTURE] = "idle"
  /\ pc[CAPTURE] = "idle" <=> capEvent = "none"
  /\ pc[CAPTURE] = "stop" => capEvent \in {"stop", "finalize"}
  /\ capEvent = "stop" => session = "stopped"
  /\ session = "stopped" => capEvent \in {"stop", "none"}
  /\ session = "reported" /\ capEvent \in {"none", "update", "hold", "resume"} => m_needSendStop
  /\ session = "stopped" /\ capEvent = "none" => ~m_needSendStop
  /\ session \in {"started", "reported"} /\ capEvent \notin {"finalize", "extra"}
       => ~m_shouldStop[m_audioTapeRef]
  /\ capEvent \in {"stop", "finalize", "extra"} => m_shouldStop[m_audioTapeRef]
  /\ capEvent \in {"finalize", "extra"}
       => m_audioTapeRef \in expired /\ ~hasAudio[m_audioTapeRef]

\* What the members of a tape and its thread say about each other.
TapeInv ==
  \A t \in Tapes :
    /\ hasAudio[t] => m_state[t] # "Created"
    /\ m_state[t] = "Stopped" => m_shouldStop[t]
    /\ m_shouldStop[t] => t <= numTapes
    /\ pc[t] # "stop"
    /\ pc[t] # "idle" => m_state[t] = "Stopped" /\ hasAudio[t]

\* The event whose message the capture thread has still to take.
EventOf(e) == CASE e = "endmetadata" -> "start" [] e = "finalize" -> "stop" [] OTHER -> e
Owed(t) ==
  IF t # m_audioTapeRef THEN << >>
  ELSE IF session = "started" THEN <<"start">>
  ELSE IF pc[CAPTURE] = "get" /\ capEvent # "extra" THEN <<EventOf(capEvent)>>
  ELSE << >>

\* The event is in the queue; or the thread of the tape took it, and the capture
\* thread will find the queue empty: of both, one takes the ready message.
QueueInv ==
  \A t \in Tapes :
    \/ m_toSendEventQueue[t] = Owed(t) /\ (pc[t] \in {"add", "done"} \/ ~Out(Msg(t, "ready")))
    \/ /\ m_toSendEventQueue[t] = << >> /\ pc[t] \in {"add", "done"}
       /\ Owed(t) # << >> /\ ~Out(Msg(t, "ready"))

\* Start and stop are not out while they can still be queued or taken.
StartInv ==
  \A t \in Tapes :
    t > numTapes \/ m_toSendEventQueue[t] = <<"start">> => ~Out(Msg(t, "start"))
StopInv ==
  \A t \in Tapes :
    \/ ~m_shouldStop[t]
    \/ t = m_audioTapeRef /\ pc[CAPTURE] = "stop"
    \/ m_toSendEventQueue[t] = <<"stop">>
    => ~Out(Msg(t, "stop"))

\* A thread has a message of its tape, which no other thread has, and which the
\* trackers that are yet to get it have not got.
FlightInv ==
  /\ \A r \in Reporters :
       pc[r] = "add" => /\ msgRef[r].tape = tapeOf(r) /\ tapeOf(r) \in Tapes
                        /\ dest[r] = 1 \/ dest[r] <= scenario.trackers
  /\ pc[CAPTURE] = "add" /\ capEvent = "endmetadata"
       => msgRef[CAPTURE] = Msg(m_audioTapeRef, "start")
  /\ \A r \in Reporters, t \in Tapes, stage \in {"start", "stop", "ready"} :
       InFlight(r, Msg(t, stage)) =>
         /\ \A s \in Reporters : InFlight(s, Msg(t, stage)) => r = s
         /\ \A k \in Trackers : dest[r] <= k => ~Given(k, Msg(t, stage))

\* The start message went to a tracker, or has yet to go.
Started(k, t) == Msg(t, "start") \in lost[k] \/ Given(k, Msg(t, "start"))
HandledInv ==
  \A k \in 1..scenario.trackers, t \in 1..numTapes :
    \/ Started(k, t)
    \/ /\ t = m_audioTapeRef
       /\ \/ session = "started"
          \/ capEvent = "endmetadata" /\ pc[CAPTURE] = "get"
          \/ capEvent = "endmetadata" /\ pc[CAPTURE] = "add" /\ dest[CAPTURE] <= k

\* The message a tracker's thread took last.
Place(k) == Len(enqueued[k]) - Len(m_messageQueue[k])
DeliveryInv ==
  \A k \in Trackers :
    /\ Len(m_messageQueue[k]) <= Len(enqueued[k])
    /\ \A i \in 1..Len(m_messageQueue[k]) : m_messageQueue[k][i] = enqueued[k][Place(k) + i]
    /\ \A i \in 1..Len(received[k]) : received[k][i] \in 1..Place(k)
    /\ repPc[k] = "send" =>
         /\ Place(k) > 0 /\ current[k] = enqueued[k][Place(k)]
         /\ isRealtime(current[k]) => \A i \in 1..Len(received[k]) : received[k][i] < Place(k)

DeletedInv == \A t \in deleted : \E k \in Trackers : Given(k, Msg(t, "ready"))
\* Nothing is ready before its thread has taken a message.
ReadyInv == \A t \in Tapes : Out(Msg(t, "ready")) => pc[t] \in {"add", "done"}

IInv ==
  /\ TypeOK /\ TapeInv /\ OnceEach /\ StartFirst /\ FlightInv /\ ReadyInv
  /\ DeliveryInv /\ InOrderDelivery /\ DeletedInv /\ StreamInv
  /\ alive => CallInv /\ QueueInv /\ StartInv /\ StopInv /\ HandledInv
=============================================================================
