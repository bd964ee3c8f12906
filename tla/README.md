# TLA+ models of OrkAudio

OrkAudio records telephone calls. A capture plug-in watches the network, follows
calls by their signalling and their RTP, and gives events and audio to
orkbasecxx, which writes each call to a capture file, transcodes it, and reports
it to one or more trackers over HTTP. This directory holds TLA+ models of the
path from a packet to a reported recording, the TLC runs that check them, and
TLAPS proofs about eight of the components.

Paths below are relative to `src/`. Names in the models are the names of the code
wherever TLA+ allows it; `PROJECT.json` gives the lines of every definition.

## 1. The system

```
   network ── VoIp ── reassembly ── sessions ──(call-backs)── CapturePluginProxy
                                                                    │
                             Live streaming ◄── filter of ── CapturePort ── AudioTape
                                                the port       │ events       │ chunks
                                                               ▼              ▼
   clients ◄── EventStreaming ◄── Reporting ◄── messages ──────┘   ImmediateProcessing
                                  one thread                                  │ finished tapes
                                  per tracker                                 ▼
                                      ▲    a chain of tape processors: DirectionSelector,
                                      │    BatchProcessing (with the mixer), TapeFileNaming,
                                      └─── CommandProcessing ...
```

The arrows between threads are `ThreadSafeQueue`s, except between AudioTape and
ImmediateProcessing, and between EventStreaming and its clients, which have queues
of their own.

| Component | State | Operations | What is hard | What makes it correct |
|---|---|---|---|---|
| **ThreadSafeQueue**, OrkSemaphore (`orkbasecxx/ThreadSafeQueue.h`, `Utils.h`) | elements, capacity, tokens | push, pop, setSize | pop takes a token and the mutex separately; a refused push releases a token all the same | no element without a token; a lossy FIFO; every element delivered |
| **AudioTape** (audio), **ImmediateProcessing** | chunk queue, state, file, `m_shouldStop`, `m_isQueued`, queue of tapes | AddAudioChunk, AddCaptureEvent, Push, Pop, Write, IsReadyForBatchProcessing | two threads and mostly unlocked members; a tape is queued only when it is not queued yet | no lost wake-up; chunks in order; each tape disposed of once, then left alone |
| **CapturePort** (events), **AudioTape** (messages), **Reporting**, TapeMsg | queue of events per tape, `m_needSendStop`, queue of messages per tracker, skips | AddCaptureEvent, IsExpired, Finalize, GetMessage, AddMessage, AddAudioTape, ReportingThread::Run | the stage of a message is its place in a queue that two threads take from; retries, lost answers, full queues | each stage once; start first; ready not too soon; the tracker that is up hears of it |
| **EventStreaming** (`EventStreaming.cpp`, `MultiThreadedServer.cpp`) | a list, a semaphore and a thread per client | AddMessage, AddSession, GetTapeMessage, WaitForMessages, StreamingSvc | a slow client's list overflows but its tokens do not; a limit that is counted after it was passed | a client gets messages in order, and the newest ones |
| **CapturePort** (VAD, segmentation), **CapturePluginProxy** | event backlog, `m_vadUp`, segment start | AddAudioChunk, AddCaptureEvent, the call-backs | tapes that start and stop in the middle of a chunk, between the plug-in's events | no chunk between two tapes; every tape carries the parties of its call |
| **LiveStream** (`orkaudio/filters/LiveStream`) | a ring buffer and an RTMP handle per port, the list of streamed calls | AudioChunkIn, PushToRTMP, CaptureEventIn, the HTTP commands | one side waits for the other, through stops and broken servers; commands of a thread without mutexes | streamed once, in order |
| **RtpMixer**, **MediaChunkFile**, BatchProcessing (audio) | circular buffer, timestamps, corrective delta; chunks in memory and on disk | AudioChunkIn, CreateShipment; WriteChunk, FlushToDisk, Close; ThreadHandler | 32-bit timestamps, two unrelated clocks, an exact fill; failing writes | one line of samples, each played once and at its time |
| **BatchProcessing**, **CommandProcessing**, **TapeFileNaming**, **DirectionSelector**, TapeProcessor | a queue each, a tape per thread, files on disk | AddAudioTape, ThreadHandler, RunNextProcessor | every file operation may fail; what is deleted depends on flags; files renamed under other stages | the recording survives; what is reported is there and of that tape |
| **VoIP sessions: registry** (`VoIpSessions` in `VoIpSession.cpp`) | `m_byIpAndPort`, `m_byCallId`, the sessions | SIP, Skinny and RTP handlers, StopCapture, Hoover | media addresses move between sessions; RTP before, after and without signalling | indexes and sessions agree; no recording falls out of both; silent ones end |
| **VoIP sessions: one session** (`VoIpSession`, OrkSession, DtmfHandling) | sides, counters of foreign packets, flags of start and pause, parties | AddRtpPacket, DetectChannel, Report..., MarkAsOnDemand, GoOnHold | eight places that start a recording; counters shared by streams | started once; no side taken by a passing stream |
| **VoIp** (HandlePacket), **IpFragmentation**, **SipTcp** | fragments, TCP streams, tunnels | HandlePacket, HandleIpFragment, TrySipTcp | order, loss, repetition, identifiers used again | a packet of fragments that fit, each used once; every packet that came whole |
| **Iax2Sessions** | two indexes by call number | NEW, ACCEPT, AUTHREQ, HANGUP, media, Hoover | call numbers used again | as VoIP sessions |
| CapturePorts | map of ports | GetPort, AddAndReturnPort, Hoover | creation under two separate locks | every port expires |
| Servers, OrkClient, TLS, configuration, messages and serializers, packet parsing, opening devices, other filters, other plug-ins, daemon, utilities | mostly none of their own | | I/O and parsing | taken as the environment |

Components meet in four ways: the plug-in *calls back* into the port on the packet
thread; the port *writes members of the tape* that the immediate thread reads
without a lock; the threads of the chain pass a tape *through queues*; and
*answers and commands* of a tracker or a client come from threads that hold none
of the mutexes of what they change.

## 2. The modules

| Module | Models |
|---|---|
| `LossyFifo` | abstract: what a stage may expect of the queue before it |
| `ThreadSafeQueue`, `MCThreadSafeQueue`, `ThreadSafeQueueProofs` | the queue and its semaphore, any number of consumers; refines LossyFifo |
| `TapeCapture`, `TapeCaptureProofs` | one capture thread, one port, its tapes, the immediate thread |
| `EventStreaming` | the clients of the event streaming server (extended by TapeReporting) |
| `TapeReporting`, `MCTapeReporting`, `TapeReportingProofs` | events, messages, trackers, and the clients beside them; the proofs are about both modules |
| `RtpMixer`, `MediaChunkFile` | the mixer, the capture file |
| `MixedAudio` | abstract: a line of places, played in order and once |
| `CallAudio`, `MCCallAudio`, `CallAudioProofs` | captured chunks to storage file, composed of the two; refines MixedAudio |
| `TapeProcessing`, `MCTapeProcessing`, `TapeProcessingProofs` | any chain of processors with its files |
| `VoIpSessions`, `MCVoIpSessions`, `VoIpSessionsProofs` | the session registry of the VoIP plug-in |
| `LiveStream` ← `CapturePortModes` ← `SessionMetadata` ← `VoIpSession` | the filter, the port, what a session knows and tells, its RTP; each extends the one before it |
| `CallRecording`, `MCCallRecording`, `CallRecordingProofs` | their composition: a network, a session, its ports and tapes |
| `IpFragmentation`, `SipTcp`, `Iax2Sessions` | reassembly, SIP over TCP, IAX2 |
| `VoIp`, `MCVoIp`, `VoIpProofs` | their composition behind HandlePacket |

**ThreadSafeQueue.** `push` holds the mutex throughout and is one step; `pop` is
`acquire` (the semaphore) and `popLocked` (under the mutex). `accepted`,
`delivered`, `rejected` and `nulls` are history.

**TapeCapture.** A step is a section under one lock or one access to an unlocked
shared member. `capPc` and `immPc` are the places of the capture thread and the
immediate thread; the actions between two places are the calls of the code in its
order (`AddAudioChunk`, `PushChunk`, `Push`; `EtStop`, `SetDuration`, `Push`;
`Acquire`, `Pop`, `Write`, `Discard` or `TakeChunk`/`WriteChunk`, `StopTape`,
`Dispose`). `WriteChunk` may fail, and a WriteChunk on a tape that has no file
ends the process ("crashed"), as dereferencing the NULL reference does.

**TapeReporting.** `EtStart`, `EtEndMetadata`, `EtUpdate`, `EtHoldResume`, `EtStop`
and `Hoover` are the branches of AddCaptureEvent and the expiry of a port;
`GetMessage` and `AddMessage` are separate steps of whichever thread reports (the
capture thread or the end of the chain); `InitOk`, `PopMessage`, `SkipMessage`,
`ExecuteOk` and `ExecuteFail` are ReportingThread::Run. A failed Execute may or may
not have reached the tracker: the answer was lost. The last step of `AddMessage`
broadcasts the message, and `Follow` is the thread of a streaming client:
EventStreaming has its sections one by one, between which messages come in.

**RtpMixer, MediaChunkFile, CallAudio.** A mixer and a file are records, and the
functions of the code are operators from record to record. A sample is
<<packet, number>>, so that the places of the storage file show whose sample is
where. `Capacity`, `Trigger`, `HoldOff` are the buffer, the level at which it ships
and what it holds back; timestamps are below `TsModulus`. CallAudio goes through
the phases of a call: captured, read back and mixed, flushed, drained, done.

**TapeProcessing.** A configuration lists its processors in any order, as
TapeProcessors does; the chain is the places of that list whose names are known, and
a processor hands a tape to whatever follows its last place, as SetNextProcessor
was last called for that one. A processor that is named twice therefore links the chain
into a loop. `disk` is the set of files with the tape each is of. Each
action of a thread is the stretch of ThreadHandler between two file operations, and
each such operation may throw.

**VoIpSessions.** Every handler runs under `s_mutex` (`VoIp.cpp:65`) and is one
step. `reg` is the registry: both indexes and all sessions ever made; 0 in an index
means no entry. Helpers are the code's as functions from registry to registry, so
that a handler composes them in the order of the code. A choice by timestamp, port
or party among several sessions is a choice of any of them; a time-out is the flag
`expired`, which any silent session may get (`FallSilent`) and which packets, hold
and resume clear.

**The call modules.** A session, a recorder (ports with their filters, tapes, list
of streamed calls) and a packet are records; handlers are operators. `AddRtpPacket`
has the code's order of decisions: start on sight, ignore, start on demand, wake
up, which side, foreign packets, replacement, start on enough packets, record.
CallRecording chooses packets and signals and keeps history (`given`, `told`,
`starts`, `silence`, `crossed`). Everything is under `s_mutex`, but for the commands of live
streaming. Their thread of the HTTP server takes five steps, and is at `asked.at`
between them: `FindLiveSession` finds the session, `EnterFilter` makes the stream (or
stops streaming), `OpenStream` is the server's answer, which the thread waits for,
`ListCall` lists the call and `TellTape` passes the event on to the tape. Whatever the
capture thread does may come between any two: chunks, segments, and the end of the call.

**VoIp.** A packet is handled in one step (`HandlePacket`): filtered, its fragments
joined, its tunnel opened, offered to the detectors, and the sessions swept when it
is time. What the SIP, Skinny and RTP detectors find is recorded as `reported`;
IAX2 frames go on to Iax2Sessions, which is composed in full.

Small operators with lower- or upper-case names and a comment that begins "Slip"
are plausible wrong versions of the definition next to them; `PROJECT.json` pairs
each with the property that fails when it takes the definition's place. They are
not used otherwise.

## 3. The runs

| Run | Module | Shows |
|---|---|---|
| `queue` | MCThreadSafeQueue | tokens and elements stay in step (`NoStrandedElement`), NULLs come from refusals only, the queue implements LossyFifo (`RefinesFifo`), every element is delivered |
| `capture` | TapeCapture | `NoLostWakeup`, `DisposedOnce`, `FiledInOrder`, `FileFrozenAfterDisposal`, `EveryEndedTapeSettles` |
| `call_audio` | MCCallAudio | `InStep` and `TimeAligned` of the mixer, `FileIsPrefix` of the capture file, `EverythingPlayed`, `KeptSideHeard`, `RefinesMixedAudio` |
| `packets` | MCVoIp | `AssembledProperly`: fragments that fit, none twice, none stale; `Reassembled`: whole when all came; `InOrderMessagesReported`: SIP over TCP; `Iax2IndexesTrue`, `UpRecordingSurvives`, `SilentIax2RecordingsEnd` |
| `call_recording` | MCCallRecording | `RecordedOnce`, `NothingLostOnTape`, `TapesCarryTheParties`, `LiveAudioInOrder`, `NoLiveSideIsReplaced` |
| `reporting` | MCTapeReporting | `StagesInOrder`, `NoPrematureReady`, `InOrderDelivery`, `ClientsFollow`, `ReadyReachesTrackers` |
| `processing` | MCTapeProcessing | `RecordingSurvives`, `ReportedFileExists`, `CommandOutputVerified`, `EveryTapeLeaves` |
| `voip` | MCVoIpSessions | `RegistryIsTrue`, `RecordingIsTracked`, `EveryPacketFindsAHome`, `SignalledCallsSurviveTransfers`, `SilentRecordingsEnd` |
| `short_discard`, `keep_native`, `voip_stop_capture`, `unidirectional` | | the disagreements of section 6 |

### Bounds

* `queue`: two consumers, a capacity that drops from 2 to 1 at any moment, four
  pushes, which overfill either capacity with elements left to deliver in both
  orders, while both consumers are between the halves of pop.
* `capture`: two tapes, three chunks and two stops, four of these together
  (`MaxCalls`), a chunk queue of two and a file that is full when it has more than one
  chunk. Two tapes are needed for an EtStart over a running call and for a queue of
  tapes of length two. Three chunks, or two and two stops: three fill the queue so that
  the third is refused, or the file so that the third is dropped, are queued together
  or apart, give a file of two chunks, one with a gap where a chunk failed to be
  written, and chunks of the second tape while the first still has some. Two stops are
  needed for two calls that end properly, and for an EtStop on a tape that was stopped.
  Both settings of the party filter.
* `call_audio`: a buffer of 8 places that ships at 6 and holds back 5, timestamps
  below 64, packets of up to three samples. Nine scenarios: gaps, late packets and
  the wrap of the buffer; the wrap of timestamps and a sender that counts
  milliseconds; a first packet of 7 samples, which is beyond the level to ship at,
  before one whose end wraps; stereo and mono with a third side; each side kept
  alone, or none; unknown codecs with a failing disk and chunks that are empty or too
  large. Three or four packets reach every branch of AudioChunkIn, a shipment and an
  exact fill, also on the side that is kept.
* `packets`: eleven networks: datagrams of two or three fragments that use an
  identifier twice, repeated, lost and out of order, with time-outs; one cut short;
  tunnelled; reassembly switched off; SIP over TCP with a sequence number that wraps;
  two IAX2 calls that share an endpoint at either side, also at the end of a replay.
* `call_recording`: twenty-seven configurations with one call or two, two or three RTP
  streams and up to eight packets. Foreign packets take a side after `AlienPackets`
  = 1, a call starts after `MinPackets` = 2, a segment lasts two ticks, a
  ring holds two chunks: each limit is passed in a run of the length allowed. Eight of
  the configurations stream: all calls on a server that breaks off, segment by
  segment (each EtStop closes the stream and the next segment opens it again on the
  same port); and calls that a client asks for, on servers that are up, down or break
  off, where three commands start, stop and start the stream of one call, and where
  the EtStop of segments and of voice activity comes between any two steps of the HTTP
  thread. What a write does to a stream that is destroyed or not published yet is
  undefined: it fails in some of them and passes in others.
* `reporting`: the hazards do not multiply, so eight scenarios each have bounds of
  their own: one call with a skip and a lost answer; two holds or resumes, reported
  or not; two calls on one port; a party filter; two trackers of which one may stay
  down; and, without a tracker, one client with a list of one message, and two
  clients where one may be served. A tracker's queue holds two messages, fewer than
  a call sends.
* `processing`: up to three tapes, two batch threads, queues of one: one tape per
  thread, one waiting, one refused. Ten chains, from the default one to the one that
  the manual misspells.
* `voip`: two media addresses on two hosts - the two ends of one stream - and two
  or three sessions, which give each end a session and a third to take over. Six
  deployments: the defaults with two SIP calls; single mapping, with hold; single
  mapping with three sessions; SIP beside Skinny, with a stale `m_endPointIp` that
  matches the phone; late CallInfo; second address with a preferred host. Packets
  count up to three: the first, the second (which starts a signalled session) and
  `RtpMinAmountOfPacketsBeforeStart`.

Deadlock is checked in `queue`, `packets` and `voip`. The other systems stop when
the bounded input is used up.

### Fairness

* A worker thread loops for ever on its own pop or Run, so its steps are weakly
  fair (`queue`, `capture`, `processing`, `reporting`).
* A capture thread finishes a call-back it has begun; nothing obliges it to begin
  one, so starts, chunks and stops are not fair.
* `processing`: a capture file is finite, so a thread that keeps reading comes
  again and again to the end of the file, and is strongly fair there.
* `reporting`: a tracker in `Reachable` answers some of the attempts that are made
  again and again (strong fairness of `ExecuteOk`); the other may never answer. The
  threads of the clients are not fair: a socket may block.
* `voip`, `packets`: Hoover is weakly fair; it is called every five seconds on the
  packet threads (`VoIp.cpp:954`) and, without traffic, from the UDP loop
  (`VoIp.cpp:1143`). Packets, signalling and the passage of time are not fair.

## 4. The proofs

Each proof module has an inductive invariant, one lemma per part of it and per
action or group of actions, and theorems that follow from it. They hold for all
values of the constants, under the assumptions named in the modules: bounds and
sizes are natural numbers, scenarios and deployments are records of their type, the
set of consumers is finite, settings are Booleans, no thread of BatchProcessing is that of another processor,
`0 < HoldOff <= Trigger < Capacity`, at least one packet to start a raw RTP session and one
foreign packet to replace a side, SessionStartsOnS2ActivityDb only with the
settings that AcpConfig::Validate makes with it (`AcpConfig.cpp:67`), timestamps that
count further than twice the capacity, and `NamesDiffer`: a name stands for one
datagram of a network.

* **ThreadSafeQueueProofs.** `IInv` adds to NoStrandedElement the exact account of
  tokens (pushes = tokens + held tokens + elements delivered + NULLs) and of
  elements (accepted = delivered followed by queued): neither inequality is
  inductive alone, because a step of pop changes both of its sides by an amount
  only the account knows. Proved: `NoStranding`, `NullsBounded`, and `Refinement`,
  which maps push to Accept or a stutter and the locked half of pop to Deliver or a
  stutter.
* **TapeCaptureProofs.** `IInv` joins the types, where each thread is and what it
  holds there (`ThreadsConsistent`), what the unlocked members of a tape say about
  each other (`TapesConsistent`: a ready flag exists only between StopTape and
  Dispose, a tape that was disposed of is stopped, a stopped tape's file is not
  open), QueueAccount, NoLostWakeup and DisposedOnce. NoLostWakeup needs
  QueueAccount, because a Push that finds m_isQueued set relies on the tape being in
  the queue; DisposedOnce and FileFrozenAfterDisposal need TapesConsistent. FiledInOrder
  speaks of the file alone; `ChunkInv`, which is inductive beside IInv, says that
  filed chunks, the one in the immediate thread's hand and the queued ones rise in
  this order, that no chunk is held by two tapes, and that the one about to be pushed
  is held by none. Proved: `TypeCorrect`, `NoWakeupLost`, `QueueAccounted`,
  `NeverDisposedTwice`, `FrozenAfterDisposal`, `FiledInCaptureOrder`.
* **CallAudioProofs.** The mixer's invariant (`MixerInv`) adds to InStep that a
  timestamp that is written is below the modulus and the one that is read a natural
  number, with the types of the buffers; it is carried through every operator of the mixer
  (StoreRtpPacket, CreateShipment, ManageOutOfRangeTimestamp, EndOfStream) by a
  lemma each, the modular arithmetic of the pointers by two more. `FileInv` ties the
  file on disk, the chunks in memory and the number captured. `SampleInv` adds that
  every sample at a place in use lies as far behind the write pointer as its timestamp
  is behind the write timestamp (`Aligned`), that channels still to be opened are empty
  (`Unopened`), since opening one makes its buffer part of the output, and that a mono
  mixer has none. `HeardInv` follows what the kept side depends on: the other
  side is mixed as side 1 once a chunk of side 1 was skipped, a mixer with a write
  timestamp holds, has shipped or has lost something (`Audible`), and it has one once a
  packet of the kept side came. The attempt to prove KeptSideHeard found it false as first stated: a packet
  that fills the buffer exactly makes the mixer forget everything, which the property now
  excepts and a scenario reaches.
  The refinement of MixedAudio is an equation of sequences: what is played followed by
  the line is the same before and after a step, but for the packet that is laid
  (`Ships`, `Lays`, `Plays`, a lemma each for ShipPart, CreateShipment, MixSamples,
  WriteSilence, StoreRtpPacket, PlacePacket, AudioChunkIn). It needs `Own`, that every
  sample is of its channel, so that a packet replaces whole packets and no others;
  `Quiet`, that a stereo mixer without channels holds nothing, since the first channel
  changes what is shown; and that samples played are of packets read (`Known`), so that
  no packet is laid twice. That FlattenSeq, which is a recursive function, gives the
  output chunks one after the other is shown by taking a least counterexample. Here too the attempt
  found a fault, in the abstract specification: a first packet of more than `Trigger`
  samples is not shipped with it, and the next packet ships it even if it is dismissed
  because its end wraps. MixedAudio had no step that plays a part of the line without a
  packet; it has one now (`Play`), and a scenario that needs it. Proved:
  `MixerStaysInStep`, `CallIsPlayed`, `CaptureFileIsPrefix`, `SamplesAreTimeAligned`,
  `KeptSideIsHeard`, `CallRefinesMixedAudio`.
* **VoIpProofs.** `Iax2Inv` is Iax2IndexesTrue with the types of the IAX2 registry
  (`Iax2Type`, `Iax2True`: an index leads to a session of that endpoint which was not
  stopped, and one that was not stopped is led to); it is followed through each function
  of the registry, and with it what the function may stop, so that a step ends only the
  calls it may end (`MayEnd`), which is the action property. Of reassembly, `MapInv` says
  that what the map holds are fragments that arrived under its key, still incomplete and
  not timed out, `AssembledInv` that the packets put together are whole and share no
  arrival with each other or with the map. `DatagramInv` adds that every fragment that
  arrived is a part of a datagram of the network, and the account that makes Reassembled
  inductive (`ReportedInv`): what came of a datagram is reported, or waits in the map, or
  came too late. Sums over the fragments are handled by least counterexamples, as no
  induction over data is to be had. `TcpInv` says that a stream whose segments came in
  order has reported every message that ends before its next sequence number, and that
  what is not finished there has a stream (`CaughtUp`). Proved: `ReassemblyProper`,
  `DatagramsReassembled`, `SipTcpMessagesReported`, `Iax2Reachability`,
  `Iax2UpRecordingSurvives`.
* **VoIpSessionsProofs.** A handler composes the registry's functions, so the
  invariant is a predicate of a registry and is followed through each of them.
  `Sound` is unconditional: the registry is well formed, and a session lists every
  media address that leads to it. `Live(r, s)` - no index leads to an ended session,
  a call id leads to its session, and every open session but `s` is in the index of its
  kind - is broken inside a handler for the one session being made and mended at its
  end, which is what `s` is for; it holds but for `MayRevive`. The attempt to prove it
  found a third case of MayRevive that no run had reached: the first packet to a
  tracking address maps the session even when the packet was foreign to it, and that
  session may have ended. `RawUncalled` - with multiple mappings and without late
  CallInfos, a session that looks like raw RTP has no call id - is what
  TransfersSpareSignalledCalls rests on: a transfer may stop raw RTP sessions, and
  only those. Proved: `IndexesAgree`, `NoRecordingIsLost`,
  and the action properties `NoStreamIsOrphaned` and `TransfersSpareSignalledCalls`.
* **TapeReportingProofs.** No property of this component says what the queue of
  events of a tape holds, yet all rest on it. `QueueInv` is that account: the queue
  holds exactly what the capture thread has queued and not yet taken (`Owed`, one
  event at most), unless the tape's own thread, at the end of the chain, took it
  first; then the capture thread will find the queue empty and take the "ready"
  message instead, and nobody has taken it so far. From it follows that a start, stop
  or ready message is new when it is taken (`Fresh`), the reason why each is reported
  once in spite of two unlocked readers. `StartInv` and `StopInv` say that an event
  still to be queued or taken has no message out; `FlightInv` that a message belongs
  to one thread and to no tracker the thread has yet to reach, which makes OnceEach
  inductive; `HandledInv` that the start message of every tape has gone to each
  tracker or is about to, which makes StartFirst inductive; `ReadyInv` that a ready
  message means the tape's thread has been in GetMessage. `DeliveryInv` relates what
  a tracker received, holds and will take to the order of its queue. Those about the
  queue of events hold while the process is `alive`; those about what trackers were
  given also after it has failed. Proved: `StagesComeInOrder`,
  `ReadyIsNotPremature`, `DeliveredInOrder`.
  Of the clients beside them, `StreamInv`: `ListInv` says that a session's list is the
  run of the latest messages, numbered without a gap, and that what left it is older;
  `ThreadInv` how tokens, list and the message in hand agree at each place of the
  client's thread. `Cardinality(Served) <= MaxSessions` needs the set of sessions to be
  finite, which is part of `StreamType`. Proved of the composition:
  `ClientsAlwaysFollow`.
* **CallRecordingProofs.** Two properties of a session, each followed through every
  call that AddRtpPacket and the signalling make. The first half says what handlers
  leave alone: `Quiet(r, s)` - r tells more than s, but no EtStart, and agrees with it in
  the members that starts and sides rest on (`Core`) - holds of hold, resume, DTMF, RTCP,
  re-INVITE, BYE and stop, so that only packets are left to argue about. `StartInv(c, s, n)`
  relates the number n of starts to what they were made for: without
  DiscardUnidirectionalCalls and with look-back, a session was started if and only if it has
  `Enough` packets; with it, at most once, and a SIP call that was never paused as soon as
  it has both sides; without look-back, if and only if it was seen, or its second side
  was. RecordedOnce is not inductive without `Counted` (a side that was detected was
  counted, or the packet was ignored) and without `startWhenS2` being set by then. The
  middle of a step has an invariant of its own (`Mid`), since a start and the count that
  justifies it are separate calls.
  `SidesInv` relates the two counters of foreign packets to the silence of each
  stream, which is what the property is about: a counter is at most the silence of the
  side it is kept for (`Outlasted`), unless sides were swapped, and the two sides are
  different streams. `Moved` says what a packet may do to the sides before they are
  mapped, `Outcome` after it was counted. The attempt to prove NoLiveSideIsReplaced
  found it false, which no run had shown: see the swap in section 6. Proved:
  `CallRecordedOnce`, `LiveSidesKept`.
* **TapeProcessingProofs.** Nothing in a tape says which processors have had it; what
  its files look like follows from where it is, and that from the order of the list. So
  the chain comes first: without repetitions `Before` is a strict order, nothing is
  before the first processor, and what is before the next one is this one or before it.
  `OnePlace`: a tape is in one queue or with one thread, so that a step of one thread
  leaves the files of all other tapes alone - if files can be told apart, which is
  `FilesOK`: the name of a file tells whose it is, except for the configured one, and
  TapeFileNaming makes sure that one is not taken. `Arrived(p, t)` says what is
  true of a tape that waits for p (it still has its first name, has no temporary file,
  its capture file is whole, it is transcoded, it has its command's output - each if
  the processor that ends or makes that is before p), and `Leaving(p, t)` of one that p is
  done with; `SelectorOK`, `BatchOK`, `NamingOK` and `CommandOK` say it of a tape whose
  thread is between two file operations. Proved: `ProcessingInvariant`,
  `RecordingsSurvive`, `ReportedFilesExist`, `CommandOutputsAreVerified`, for every list
  of processors. The attempt found that the properties, as first stated and
  checked, were false of settings that no run explored, and section 5 lists what
  they now leave out: a processor named twice sends tapes round a loop, in which a
  recording may be deleted; Reporting before BatchProcessing; DeleteNativeFile off with
  DeleteFailedCaptureFile on, which is the second disagreement of section 6;
  TapeFileNaming after CommandProcessing, which renames a tape whose extension is a path;
  DirectionSelector before Reporting.

Only model-checked: everything that is live (the prover does not do fairness), and
three of the five properties of CallRecording: `NothingLostOnTape`,
`TapesCarryTheParties` and `LiveAudioInOrder`. They are about the ports, which fold the
call-backs of a session and replay a tape from its beginning (`FoldLeft`), and choose
events with `SelectSeq`; what a fold computes for every sequence needs an induction over
data, which the prover cannot instantiate.

## 5. What is left out

* Contents: samples, names, tags and times, unless a property needs them. The
  settings of a component that do not concern its control flow are fixed at their
  defaults.
* TapeCapture: more than one port (ports share only the queue of tapes, which two
  tapes on one port exercise); imported tapes, which nothing makes, as
  `m_isExternal` is never set; the exit of batch and reporting threads, which wait in
  pop and see a stop only when a tape arrives.
* TapeReporting: the orders a tracker may give in its answer besides deleting a
  tape; the end of the process. EventStreaming: requests and connections themselves.
  A send that fails loses the message in hand with the connection, and two clients
  at the limit may both be turned away: both are in the model.
* CallAudio: the secondary output file, statistics, decoding. `KeptSideHeard` leaves
  out packets whose end wraps, which are dismissed, and exact fills; `EverythingPlayed`
  excuses exact fills too, and only `RefinesMixedAudio` says what they may lose.
* TapeProcessing: ownership and permissions of files, secondary formats; which file
  name the attributes of a tape give is a choice. All three safety properties leave out
  lists that name a processor twice, and TapeFileNaming before BatchProcessing, where the
  look for a free name comes before the file has it and two tapes may share a file.
  `RecordingSurvives` and `ReportedFileExists` leave out commands of the operator, whose
  effects are the operator's, and `CommandOutputVerified` commands without [IN] and
  tapes named before the command. `RecordingSurvives` leaves out
  DeleteFailedCaptureFile, which asks to delete recordings, and a last flush of
  DirectionSelector that fails unseen (`DirectionSelector.cpp:339`).
  `ReportedFileExists` leaves out tapes whose rename failed, DirectionSelector, which
  leaves a wrong extension on the tape, and lists where a tape is reported before it is
  transcoded. `CommandOutputVerified` holds a tape to having some output of its
  own: TapeFileNaming after CommandProcessing may rename it.
* VoIpSessions: no blocked or allowed address ranges, NAT or `MayRevive` states:
  those in which a stopped session can come back into an index (section 6), which the
  properties exclude; `RecordingIsTracked` excludes late CallInfo, where a
  session without a call id can lose its only address.
* The call modules: conferences and transfers of Skinny
  (`SkinnyTrackConferencesTransfers`), `TaggingSipTransferCalls`, names and MAC
  addresses, the payload map and statistics. `RecordedOnce` excepts raw RTP without
  look-back, which starts again with every packet after a pause
  (`VoIpSession.cpp:1124`), and, with DiscardUnidirectionalCalls, the calls of the
  fourth disagreement below; `NoLiveSideIsReplaced` excepts sides that were swapped
  while foreign packets were counted (section 6); `NothingLostOnTape` is weaker for VAD, and for a Sangoma
  port with segmentation that is used again: EtStop leaves `m_vadUp` and the tape of
  such a port, and the next call loses chunks. `TapesCarryTheParties` excepts the
  tag of a command of the HTTP thread that is under way. That thread and the capture
  thread are interleaved between the calls they make, not within them: data races on
  a member or on the list of streamed calls, and a write to a stream that ends the
  process, are left out. One command at a time is under way, as
  LiveStreamSessions has a mutex of its own (`LiveStreamSession.cpp:21`).
* VoIp: the fragment map does not tell senders apart, so two datagrams with one
  identifier may be mixed; `Reassembled` speaks of those that share theirs with no
  other and have no fragment as short as a TCP header, which HandlePacket loses.
  `InOrderMessagesReported` leaves out streams whose sequence numbers start again
  from 0, and the model connections that follow each other on the same ports:
  TrySipTcp compares addresses and ports only (`SipTcp.cpp:250`, `317`), so that the
  segments of a new connection may be dropped as repetitions of the old one's.
  `Iax2IndexesTrue` leaves out sessions renamed by an AUTHREQ. `UpRecordingSurvives`
  speaks of calls that are up when the step is taken: a repeated ACCEPT or AUTHREQ takes
  such a call back to an earlier state (`Iax2Session.cpp:704`, `763`), and in that state
  a NEW of the same endpoint ends it.
* CapturePorts: the look-up and the creation of a port under two critical sections
  (`CapturePort.cpp:472`), which call-backs of the VoIP plug-in do not run into, as
  its sessions make them under `s_mutex`.

Not modelled at all, and taken as the environment: the codecs (gsm, iLBC, g72x, opus
and silk wrappers, g711), most of them vendored and all of them signal processing;
`StdString.h`, a string library; configuration; the parsers of SIP, Skinny and IAX2
bytes; serializers and messages; the servers and clients, which are socket I/O; the opening
and reading of capture devices; the daemon; the sound device and generator plug-ins;
logging and utilities. Together these are well over half of the lines of the
repository, and none of them has a protocol or concurrency of its own to check; the models cover
the rest by what it does to state, and most of what remains of `VoIpSession.cpp`
and `AudioTape.cpp` formats, logs or copies fields.

## 6. Where the code and its comments disagree

1. `short_discard`: the immediate thread can see `m_shouldStop` before `m_duration`
   and discards a long call as too short (`AudioTape.cpp:409`).
2. `keep_native`: with DeleteNativeFile off and DeleteFailedCaptureFile on, both
   files of a transcoded tape are deleted (`BatchProcessing.cpp:652`).
3. `voip_stop_capture`: after StopCapture only the latest of the session's media
   addresses leads to its successor (`VoIpSession.cpp:4700`).
4. `unidirectional`: with DiscardUnidirectionalCalls, a raw RTP or Skinny call that
   has both sides before it has enough packets is never recorded
   (`VoIpSession.cpp:1424`).

Behaviour that the models have and no comment speaks of: pop() returns an empty
reference after a refused push (`ThreadSafeQueue.h:58`); a chunk that arrives
between the last look at the queue and the stop is never written; a second EtStart
on a port leaves the first tape unfinished; a tape can be reported ready before it
is reported stopped (`AudioTape.cpp:409`); a packet that fills the mixer's buffer
exactly is never played; DirectionSelector leaves the extension of its temporary
name on the tape (`DirectionSelector.cpp:326`); the successor of a raw RTP session
is indexed under the empty call id, and nothing ever removes it; a tape processor
that TapeProcessors names twice makes a loop of the chain (`TapeProcessor.cpp:108`); with a second RTP
address, or tracking addresses, a stopped session can be mapped again; an INVITE of another call can leave
a SIP session marked as raw RTP; a live stream that is asked for after its call has
ended is never stopped and its call stays in the list; two EtStop on a port
destroy its stream twice. With RtpMinAmountOfPacketsBeforeStart = 0 no raw RTP session
starts, as the count is compared after it was raised (`VoIpSession.cpp:1411`).

Two more disagreements have no run of their own; scenarios of `call_recording` reach
them. EtStop is to "close rtmp stream" (`LiveStreamFilter.cpp:259`), but when it comes
while the HTTP thread waits for the server to accept the stream, that thread raises
`status` afterwards (line 254) over a stream that was destroyed: in the model, EtStop
between `EnterFilter` and `OpenStream`. At the end of a call this leaves the call in the
list (`OnAir`); with VAD, where the filter still gets chunks after the tape was
stopped, they are written to the destroyed stream (`VoicesOnAir`). For this reason
LiveAudioInOrder does not ask that a filter which streams has an open stream.

The other is in `NewSides`. "We have seen 10 alien packets and no s2 packets during the same period of
time" (`VoIpSession.cpp:1346`) is what allows a foreign stream to replace a side. When a
side was replaced, deterministic mapping may swap the two sides (line 1382), but not
their counters `m_numAlienRtpPacketsS1` and `S2`: the stream that has just taken over a
side is then held to the packets counted against its predecessor, and the next foreign
packet may replace it although it was heard one packet before. The history variable
`crossed` marks such sessions, and `NoLiveSideIsReplaced` and its proof leave them out.

## 7. The plan

Done, in this order: ThreadSafeQueue with its refinement and proofs; TapeCapture
with its proofs; TapeReporting; TapeProcessing; VoIpSessions; the mixer and the
capture file with their refinement and proofs; packets and IAX2; the calls with
ports, VAD, segments and on-demand recording; event and live streaming; the proofs
about VoIpSessions, TapeReporting, EventStreaming and TapeProcessing; the proofs about
packets and IAX2, and about the samples of a call, its kept side and its refinement of
MixedAudio; the proofs about the starts and the sides of a session.

What is left, in the order of its weight:

1. The rest of the proofs about CallRecording: its ports and their tapes
   (`TapesCarryTheParties`, `NothingLostOnTape`) and live streams (`LiveAudioInOrder`).
2. Conferences and transfers of Skinny, and the tagging of SIP transfers, in the
   call modules.
3. CapturePorts: creation and expiry of ports as steps of two capture threads, for
   a plug-in that calls back without a mutex.

## 8. Running

In this directory: `tlc -config X.cfg M` for the pairs in `PROJECT.json`, and
`tlapm` on the proof modules (`*Proofs.tla`). With two workers `capture`, `reporting`,
`voip`, `packets`, `call_audio` and `call_recording` take from one to three minutes each,
the others less.
