------------------------------ MODULE CallAudio ------------------------------
(***************************************************************************)
(* The audio of one call from the chunks the plug-in captured to the       *)
(* places of the storage file: AudioTape::Write fills the capture file,    *)
(* and a batch thread later reads it back, skips the side that is not to   *)
(* be kept, decodes, mixes the rest with the RtpMixer and writes what the  *)
(* mixer ships.  Chunk i is the i-th captured; what it contains is chosen  *)
(* when it is decoded, since nothing looks at it before.                   *)
(***************************************************************************)
EXTENDS RtpMixer, MediaChunkFile

CONSTANTS
  Scenarios        \* settings of the call and the packets explored with them

Directions == {"both", "local", "remote", "none"}
LocalSides == {"unknown", "side1", "side2", "both"}

\* stereo: StereoRecording with several TapeNumChannels; keep and localSide: what
\* m_audioKeepDirectionEnum and m_localSide of the tape ended up as, with
\* DirectionLookBack; chunks, packets, failures: bounds.
Settings ==
  [stereo : BOOLEAN, keep : Directions, localSide : LocalSides, chunks : Nat,
   channels : SUBSET Channels, timestamps : SUBSET Nat, sizes : SUBSET Nat,
   codecs : SUBSET BOOLEAN, failures : BOOLEAN]

ASSUME ScenarioTypes ==
  \A s \in Scenarios :
    /\ s.keep \in Directions /\ s.localSide \in LocalSides /\ s.chunks \in Nat
    /\ s.channels \subseteq Channels /\ s.codecs \subseteq BOOLEAN
    /\ \A ts \in s.timestamps : ts \in 0..(TsModulus - 1)
    /\ \A n \in s.sizes : n \in Nat /\ (n < Capacity \/ n > MaxSamples)

VARIABLES
  scenario,
  phase,           \* of the call: "capture", "transcode", "drain", "done", "failed"
  captured,        \* chunks given to AudioTape::Write
  file,            \* the MediaChunkFile
  chunksRead,      \* by the batch thread
  forceChannel1,
  mixing,          \* the first decodable chunk has created the mixer
  mixer,
  storage,         \* the places written to the storage file
  \* history
  packets,         \* of every chunk read: its packet as mixed, or NoPacket
  spoken           \* of every chunk read: the side it was captured on

NoPacket == [id |-> 0, ch |-> 0, ts |-> 0, n |-> 0]

transcodeVars == <<chunksRead, forceChannel1, mixing, mixer, packets, spoken>>
vars == <<scenario, phase, captured, file, storage, transcodeVars>>

Init ==
  /\ scenario \in Scenarios
  /\ phase = "capture" /\ captured = 0
  /\ file = NewFile
  /\ chunksRead = 0 /\ forceChannel1 = FALSE /\ mixing = FALSE
  /\ mixer = NewMixer
  /\ storage = << >> /\ packets = << >> /\ spoken = << >>
-----------------------------------------------------------------------------
(* Capture                                                                 *)

Written(outcomes) == {f \in outcomes : scenario.failures \/ ~f.bad}

\* AudioTape::Write of one chunk.
CaptureChunk ==
  /\ phase = "capture" /\ captured < scenario.chunks
  /\ captured' = captured + 1
  /\ file' \in Written(WriteChunk(file, captured + 1))
  /\ UNCHANGED <<scenario, phase, storage, transcodeVars>>

\* AudioTape::Write of a tape that should stop, and the hand-over to the batch.
StopCapture ==
  /\ phase = "capture" /\ captured > 0
  /\ file' \in Written(Close(file))
  /\ phase' = "transcode"
  /\ UNCHANGED <<scenario, captured, storage, transcodeVars>>
-----------------------------------------------------------------------------
(* Transcoding                                                             *)

\* SkipChunk: which sides are left out, by the side that is local.
SkipChunk(keep, localSide, ch) ==
  \/ keep = "none"
  \/ keep = "local" /\ \/ localSide = "side1" /\ ch # 1
                       \/ localSide = "side2" /\ ch # 2
  \/ keep = "remote" /\ \/ localSide = "both"
                        \/ localSide = "side1" /\ ch = 1
                        \/ localSide = "side2" /\ ch = 2

\* Slip: the side that is left is mixed under its own number.
ownSide(ch) == ch

\* The side a chunk is mixed as: side 1 once side 1 is skipped.
mixedAs(ch) == IF forceChannel1 THEN 1 ELSE ch

\* What the mixer ships for a packet goes to the storage file, one output chunk
\* at a time.
WriteOutput(m) ==
  /\ mixer' = AudioChunkOut(m)
  /\ storage' = IF m.outputQueue = << >> THEN storage ELSE storage \o Head(m.outputQueue)

NextChunk == phase = "transcode" /\ ReadChunkMono(file, chunksRead) = "chunk"

\* A chunk of a side that is not kept.  Once one of side 1 was skipped the other
\* side is mixed as side 1.
SkipOne ==
  /\ NextChunk
  /\ \E ch \in scenario.channels :
       /\ SkipChunk(scenario.keep, scenario.localSide, ch)
       /\ forceChannel1' = (forceChannel1 \/ ch = 1)
       /\ spoken' = Append(spoken, ch)
  /\ chunksRead' = chunksRead + 1
  /\ packets' = Append(packets, NoPacket)
  /\ UNCHANGED <<scenario, phase, captured, file, storage, mixing, mixer>>

\* A chunk no decoder is known for.
SkipUnknownCodec ==
  /\ NextChunk /\ FALSE \in scenario.codecs
  /\ \E ch \in scenario.channels :
       /\ ~SkipChunk(scenario.keep, scenario.localSide, ch)
       /\ spoken' = Append(spoken, ch)
  /\ chunksRead' = chunksRead + 1
  /\ packets' = Append(packets, NoPacket)
  /\ UNCHANGED <<scenario, phase, captured, file, storage, forceChannel1, mixing, mixer>>

\* A chunk is decoded and mixed; the first one creates the mixer and opens the
\* storage file.
MixChunk ==
  /\ NextChunk /\ TRUE \in scenario.codecs
  /\ \E ch \in scenario.channels, ts \in scenario.timestamps, n \in scenario.sizes :
       LET c == [id |-> chunksRead + 1, ch |-> mixedAs(ch), ts |-> ts, n |-> n] IN
         /\ ~SkipChunk(scenario.keep, scenario.localSide, ch)
         /\ \E m \in AudioChunkIn(mixer, scenario.stereo, c) : WriteOutput(m)
         /\ packets' = Append(packets, CorrectRogueTimestamp(mixer, c))
         /\ spoken' = Append(spoken, ch)
  /\ chunksRead' = chunksRead + 1
  /\ mixing' = TRUE
  /\ UNCHANGED <<scenario, phase, captured, file, forceChannel1>>

\* The end of the capture file flushes the mixer.
FlushMixer ==
  /\ phase = "transcode" /\ ReadChunkMono(file, chunksRead) = "end"
  /\ phase' = "drain"
  /\ \/ mixing /\ WriteOutput(EndOfStream(mixer, scenario.stereo))
     \/ ~mixing /\ UNCHANGED <<mixer, storage>>
  /\ UNCHANGED <<scenario, captured, file, chunksRead, forceChannel1, mixing, packets,
                 spoken>>

\* The output of the mixer is written until there is none.
Drain ==
  /\ phase = "drain"
  /\ \/ mixer.outputQueue # << >> /\ WriteOutput(mixer) /\ UNCHANGED phase
     \/ mixer.outputQueue = << >> /\ phase' = "done" /\ UNCHANGED <<mixer, storage>>
  /\ UNCHANGED <<scenario, captured, file, chunksRead, forceChannel1, mixing, packets,
                 spoken>>

\* A chunk that is not whole throws, and the tape is given up.
ReadFails ==
  /\ phase = "transcode" /\ ReadChunkMono(file, chunksRead) = "incomplete"
  /\ phase' = "failed"
  /\ UNCHANGED <<scenario, captured, file, storage, transcodeVars>>

Next ==
  \/ CaptureChunk \/ StopCapture
  \/ SkipOne \/ SkipUnknownCodec \/ MixChunk \/ FlushMixer \/ Drain \/ ReadFails

Spec == Init /\ [][Next]_vars
-----------------------------------------------------------------------------
(* Properties *)

\* The places between the read and the write pointer, as they would be shipped,
\* and those shipped and written.
Flat(place) == UNION {place[i] : i \in 1..Len(place)}
Line ==
  [i \in 1..UsedSpace(mixer) |->
     Flat(MixedOutput(mixer, scenario.stereo,
                      CircularPointerAddOffset(mixer.readPtr, i - 1)))]
Played ==
  LET output == storage \o FlattenSeq(mixer.outputQueue)
  IN [i \in 1..Len(output) |-> Flat(output[i])]

\* StoreRtpPacket and CreateShipment move pointers and timestamps by separate
\* assignments, circular the ones and 32 bits wide the others: they stay apart by
\* as much, but for the places lost when a packet filled the buffer exactly.
InStep ==
  /\ mixer.writePtr \in Positions /\ mixer.readPtr \in Positions
  /\ mixer.writeTs - mixer.readTs = UsedSpace(mixer) + mixer.lost
  /\ mixer.writeTs < TsModulus

\* RtpMixer: over gaps, late packets, shipments and new windows every sample of
\* side 1 waits at the place of its timestamp.
TimeAligned ==
  \A i \in 1..Len(Line) : \A s \in Line[i] :
    packets[s[1]].ch = 1
      => packets[s[1]].ts + s[2] - 1 = mixer.writeTs - Len(Line) + i - 1

\* MediaChunkFile: the file holds the first chunks in order, each once, and
\* unless the stream failed all of them once it is closed.
FileIsPrefix ==
  /\ \A i \in 1..Len(file.disk) : file.disk[i] = i
  /\ ~file.bad /\ ~file.open => Len(file.disk) = captured

\* BatchProcessing's flush: nothing is left in the mixer of a call that is done,
\* unless an oversized chunk made it give up.
EverythingPlayed ==
  phase = "done" /\ ~mixer.error => Line = << >> /\ mixer.outputQueue = << >>

\* BatchProcessing's forceChannel1: the mixer waits for side 1, so a side that is
\* kept alone must be mixed as side 1.  It is from the first chunk of side 1 that
\* is skipped on, unless packets were dismissed since their timestamps wrap, or
\* one filled the buffer exactly and made the mixer forget what it held.
KeptSideHeard ==
  /\ phase = "done" /\ ~mixer.error /\ mixer.lost = 0
  /\ SkipChunk(scenario.keep, scenario.localSide, 1)
  /\ \A k \in 1..Len(packets) : packets[k].ts + packets[k].n < TsModulus
  /\ \E i, j \in 1..Len(spoken) : i < j /\ spoken[i] = 1 /\ packets[j].n # 0
  => storage # << >>

\* The capture file and the mixer lay every packet on one line and play it once.
AllPackets == [id : UNION {1..s.chunks : s \in Scenarios},
               n : {n \in UNION {s.sizes : s \in Scenarios} : 0 < n /\ n < Capacity}]
Mixed == INSTANCE MixedAudio WITH
           Capacity <- Capacity, Packets <- AllPackets, line <- Line, played <- Played
RefinesMixedAudio == Mixed!Spec
=============================================================================
