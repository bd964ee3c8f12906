------------------------------ MODULE RtpMixer ------------------------------
(***************************************************************************)
(* The RtpMixer filter: it places the decoded RTP packets of the sides of  *)
(* a call on one time line, by their timestamps, in a circular buffer, and *)
(* ships the mix in order.  Only what places and moves samples is kept: a  *)
(* sample is <<id, k>>, the k-th sample of packet id, and a place of the   *)
(* buffer holds the set of the samples mixed into it.                      *)
(***************************************************************************)
EXTENDS Integers, Sequences, FiniteSets

CONSTANTS
  Capacity,        \* NUM_SAMPLES_CIRCULAR_BUFFER, 16000
  Trigger,         \* m_numSampleTrigger, 12000 by default
  HoldOff,         \* m_NumSampleShipmentHoldoff, 11000 by default
  TsModulus,       \* 2^32, the RTP timestamps
  MsStep,          \* 20: a timestamp that advances by this counts milliseconds
  PacketSamples,   \* 160, the samples in those milliseconds
  MaxSamples,      \* the samples in 100000 bytes: more is an error
  MaxChannels      \* bound on the sides of a call

ASSUME MixerBounds ==
  /\ Capacity \in Nat /\ Trigger \in Nat /\ HoldOff \in Nat /\ TsModulus \in Nat
  /\ 0 < HoldOff /\ HoldOff <= Trigger /\ Trigger < Capacity
  /\ 2 * Capacity < TsModulus
  /\ MsStep \in Nat /\ PacketSamples \in Nat /\ MaxSamples \in Nat
  /\ MaxChannels \in Nat

Positions == 0..(Capacity - 1)
Channels == 1..MaxChannels
None == -1

\* A decoded RTP packet: its number, channel (side), timestamp and samples.
Samples(c) == {<<c.id, k>> : k \in 1..c.n}

\* A new mixer.  lost counts the places since the last reset that
\* will never be shipped.
NewMixer ==
  [writePtr |-> 0, readPtr |-> 0, writeTs |-> 0, readTs |-> 0,
   buffer |-> [p \in Positions |-> {}],
   numInputChannels |-> 0,
   channelBuffer |-> [ch \in Channels |-> [p \in Positions |-> {}]],
   delta |-> [ch \in Channels |-> 0],
   oneS1Packet |-> FALSE,
   firstTs |-> [ch \in Channels |-> None],    \* m_lastTimestamp, stuck at the first
   lastTs |-> [ch \in Channels |-> None],     \* timestamp of m_lastChunk
   error |-> FALSE,
   outputQueue |-> << >>,
   lost |-> 0]
-----------------------------------------------------------------------------
(* The circular buffer                                                     *)

CircularPointerAddOffset(p, offset) ==
  IF p + offset >= Capacity THEN p + offset - Capacity ELSE p + offset

CircularPointerSubtractOffset(p, offset) ==
  IF p < offset THEN Capacity - offset + p ELSE p - offset

\* A full buffer cannot be told from an empty one.
UsedSpace(m) ==
  IF m.writePtr >= m.readPtr THEN m.writePtr - m.readPtr
  ELSE Capacity + m.writePtr - m.readPtr

FreeSpace(m) == Capacity - UsedSpace(m)

\* The n places from p on.
Places(p, n) == {CircularPointerAddOffset(p, i) : i \in 0..(n - 1)}

\* (int)(a - b) of two unsigned int.
SignedDifference(a, b) ==
  LET d == (a - b) % TsModulus IN IF 2 * d >= TsModulus THEN d - TsModulus ELSE d

\* Slip: the timestamp of the next shipment is not reset.
ResetWriteOnly(m, ts) ==
  [m EXCEPT !.writePtr = 0, !.readPtr = 0, !.writeTs = ts, !.lost = 0]

Reset(m, ts) ==
  [m EXCEPT !.writePtr = 0, !.readPtr = 0, !.writeTs = ts, !.readTs = ts, !.lost = 0]

\* Slip: the pointer moves over the silence and the old samples stay.
WriteNothing(m, n) ==
  [m EXCEPT !.writePtr = CircularPointerAddOffset(@, n),
            !.writeTs = @ + n,
            !.lost = IF UsedSpace(m) + n >= Capacity THEN @ + Capacity ELSE @]

\* Silence from the write pointer to the end of the packet, in the mix and in
\* the buffer of every channel.
WriteSilence(m, n) ==
  LET zeroed == Places(m.writePtr, n) IN
    [m EXCEPT !.buffer = [p \in Positions |-> IF p \in zeroed THEN {} ELSE @[p]],
              !.channelBuffer = [ch \in Channels |-> [p \in Positions |->
                 IF p \in zeroed /\ ch <= m.numInputChannels THEN {} ELSE @[ch][p]]],
              !.writePtr = CircularPointerAddOffset(@, n),
              !.writeTs = @ + n,
              !.lost = IF UsedSpace(m) + n >= Capacity THEN @ + Capacity ELSE @]

\* Slip: the packet is taken to end where the newest one does.
FirstPlaceOfNewest(m, c, correctedTs) == CircularPointerSubtractOffset(m.writePtr, c.n)

FirstPlace(m, c, correctedTs) ==
  CircularPointerSubtractOffset(m.writePtr, m.writeTs - correctedTs)

\* The samples of packet c are added to the mix, and replace what its channel
\* buffer had, from its timestamp on.
MixSamples(m, c, correctedTs) ==
  LET start == FirstPlace(m, c, correctedTs)
      target == Places(start, c.n)
      at(p) == {<<c.id, k>> : k \in {k \in 1..c.n : CircularPointerAddOffset(start, k - 1) = p}}
  IN [m EXCEPT !.buffer = [p \in Positions |-> @[p] \cup at(p)],
               !.channelBuffer = [ch \in Channels |-> [p \in Positions |->
                  IF ch = c.ch /\ m.numInputChannels # 0 /\ p \in target
                  THEN at(p) ELSE @[ch][p]]]]

\* A packet whose end wraps, that leaves too much silence, or that starts too
\* far behind is dismissed.
StoreRtpPacket(m, c, correctedTs) ==
  LET end == correctedTs + c.n
      silence == end - m.writeTs
      zeroed == IF silence > 0 THEN WriteSilence(m, silence) ELSE m
      behind == zeroed.writeTs - correctedTs
  IN IF end >= TsModulus \/ silence >= Capacity THEN m
     ELSE IF behind < 0 \/ behind >= Capacity THEN zeroed
     ELSE MixSamples(zeroed, c, correctedTs)
-----------------------------------------------------------------------------
(* Shipments                                                               *)

\* What the output file gets of place p: the mix, or the mix of the even and
\* that of the odd channels.
MixedOutput(m, stereo, p) ==
  LET side(r) == UNION {m.channelBuffer[ch][p] :
                          ch \in {c \in Channels : c <= m.numInputChannels /\ c % 2 = r}}
  IN IF stereo /\ m.numInputChannels # 0 THEN <<side(0), side(1)>> ELSE <<m.buffer[p]>>

\* One output chunk with n places from the read pointer on, none if n is 0.
ShipPart(m, stereo, n) ==
  [m EXCEPT
     !.outputQueue = IF n = 0 THEN @
                     ELSE Append(@, [i \in 1..n |-> MixedOutput(m, stereo, m.readPtr + i - 1)]),
     !.readPtr = CircularPointerAddOffset(@, n),
     !.readTs = @ + n]

\* Everything, or everything but the hold-off, up to the end of the buffer and
\* then from its beginning if it is wrapped.
CreateShipment(m, stereo, force) ==
  LET stop == IF force THEN m.writePtr
              ELSE CircularPointerSubtractOffset(m.writePtr, HoldOff)
  IN IF stop < m.readPtr
     THEN ShipPart(ShipPart(m, stereo, Capacity - m.readPtr), stereo, stop)
     ELSE ShipPart(m, stereo, stop - m.readPtr)

\* A packet outside the window: side 1 starts a new window, the correction of
\* another side is computed anew and the packet is dropped.
ManageOutOfRangeTimestamp(m, stereo, c) ==
  IF c.ch = 1
  THEN [StoreRtpPacket(Reset(CreateShipment(m, stereo, TRUE), c.ts), c, c.ts)
          EXCEPT !.delta[2] = 0]
  ELSE IF c.ch = 2 \/ m.numInputChannels # 0
  THEN [m EXCEPT !.delta[c.ch] = c.ts - m.writeTs]
  ELSE m
-----------------------------------------------------------------------------
(* AudioChunkIn                                                            *)

CreateChannels(m, stereo, ch) ==
  IF stereo /\ ch > m.numInputChannels THEN [m EXCEPT !.numInputChannels = ch] ELSE m

\* Sides 1 and 2, and the others once there are channels, are followed.
Followed(m, ch) == ch \in {1, 2} \/ m.numInputChannels # 0

\* A sender that counts milliseconds: m_lastTimestamp advanced by MsStep.
CountsMilliseconds(m, c) ==
  /\ Followed(m, c.ch) /\ m.lastTs[c.ch] # None
  /\ (c.ts - m.firstTs[c.ch]) % TsModulus = MsStep

\* Its packet is given a timestamp in samples.
CorrectRogueTimestamp(m, c) ==
  IF CountsMilliseconds(m, c)
  THEN [c EXCEPT !.ts = (m.lastTs[c.ch] + PacketSamples) % TsModulus] ELSE c

\* m_lastTimestamp and m_lastChunk after packet c.
RememberTimestamp(m, c) ==
  IF ~Followed(m, c.ch) THEN m
  ELSE [m EXCEPT !.firstTs[c.ch] = IF m.lastTs[c.ch] = None \/ CountsMilliseconds(m, c)
                                   THEN c.ts ELSE @,
                 !.lastTs[c.ch] = CorrectRogueTimestamp(m, c).ts]

\* The correction of side 2: to the second packet's side or when it is unset,
\* for which 0 stands.
CorrectiveDelta(m, c) ==
  IF c.ch = 2 /\ (m.oneS1Packet \/ (m.delta[2] = 0 /\ m.writeTs # 0))
  THEN [m EXCEPT !.delta[2] = c.ts - m.writeTs, !.oneS1Packet = FALSE]
  ELSE m

\* The timestamp on side 1's time line.  Converting a double beyond 2^32 to
\* unsigned int is undefined: the build wraps or saturates.
CorrectedTimestamps(m, c) ==
  LET shifted == c.ts - m.delta[c.ch] IN
    IF c.ch = 1 THEN {c.ts}
    ELSE IF ~Followed(m, c.ch) THEN {0}
    ELSE IF shifted < 0 THEN {c.ts}
    ELSE IF shifted < TsModulus THEN {shifted}
    ELSE {shifted % TsModulus, TsModulus - 1}

\* The packet fits into the window of the buffer.
Fits(m, correctedTs, n) ==
  /\ SignedDifference(correctedTs + n, m.writeTs) <= FreeSpace(m)
  /\ SignedDifference(m.writeTs, correctedTs) <= UsedSpace(m)

\* The place of a packet once its timestamp is corrected.
PlacePacket(m, stereo, c, correctedTs) ==
  IF m.writeTs = 0
  THEN IF c.ch # 1 THEN m
       ELSE StoreRtpPacket([m EXCEPT !.writeTs = correctedTs, !.readTs = correctedTs,
                                     !.oneS1Packet = TRUE], c, correctedTs)
  ELSE IF correctedTs >= m.readTs /\ Fits(m, correctedTs, c.n)
  THEN LET stored == StoreRtpPacket(m, c, correctedTs) IN
         IF UsedSpace(stored) > Trigger THEN CreateShipment(stored, stereo, FALSE) ELSE stored
  ELSE ManageOutOfRangeTimestamp(m, stereo, c)

\* What a packet can make of the mixer.
AudioChunkIn(m, stereo, c) ==
  IF m.error \/ c.n = 0 THEN {m}
  ELSE IF c.n > MaxSamples THEN {[m EXCEPT !.error = TRUE]}
  ELSE LET open == CreateChannels(m, stereo, c.ch)
           packet == CorrectRogueTimestamp(open, c)
           ready == CorrectiveDelta(RememberTimestamp(open, c), packet)
       IN {PlacePacket(ready, stereo, packet, ts) : ts \in CorrectedTimestamps(ready, packet)}

\* Slip: the hold-off is not shipped at the end.
EndOfStreamHeldOff(m, stereo) == IF m.error THEN m ELSE CreateShipment(m, stereo, FALSE)

\* The marker of the end of the stream flushes the buffer.
EndOfStream(m, stereo) == IF m.error THEN m ELSE CreateShipment(m, stereo, TRUE)

\* AudioChunkOut: the oldest chunk of the output, if there is one.
AudioChunkOut(m) == IF m.outputQueue = << >> THEN m ELSE [m EXCEPT !.outputQueue = Tail(@)]
=============================================================================
