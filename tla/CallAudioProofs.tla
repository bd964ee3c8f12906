--------------------------- MODULE CallAudioProofs ---------------------------
(***************************************************************************)
(* Proofs about the audio of a call for every capacity of the circular     *)
(* buffer, every trigger and hold-off, every modulus of the timestamps and *)
(* every sequence of packets: the pointers and the timestamps of the mixer *)
(* stay in step, every sample of side 1 waits at the place of its          *)
(* timestamp, the end of the stream leaves nothing in the mixer, the       *)
(* capture file is a beginning of the chunks, a side that is kept alone is *)
(* heard, and the call implements MixedAudio.                              *)
(***************************************************************************)
EXTENDS CallAudio, SequenceTheorems, WellFoundedInduction, TLAPS

SampleSets == SUBSET (Nat \X Nat)
Mixes == [Positions -> SampleSets]
Lines == [Channels -> Mixes]
PerChannel == [Channels -> Int]
Shipments == Seq(Seq(Seq(SampleSets)))

MixerType ==
  [writePtr : Positions, readPtr : Positions, writeTs : Int, readTs : Nat,
   buffer : Mixes, numInputChannels : Nat, channelBuffer : Lines, delta : PerChannel,
   oneS1Packet : BOOLEAN, firstTs : PerChannel, lastTs : PerChannel,
   error : BOOLEAN, outputQueue : Shipments, lost : Nat]

Timestamps == 0..(TsModulus - 1)
PacketType == [id : Nat, ch : Channels, ts : Timestamps, n : Nat]

\* What every operation of the mixer preserves.
MixerInv(m) ==
  /\ m \in MixerType
  /\ m.writeTs \in Timestamps
  /\ m.writeTs - m.readTs = UsedSpace(m) + m.lost
-----------------------------------------------------------------------------
(* Pointers *)

\* Moving the write pointer by less than the capacity.
LEMMA WritePointerMoves ==
  ASSUME NEW w \in Positions, NEW r \in Positions, NEW n \in 0..(Capacity - 1),
         NEW u, u = IF w >= r THEN w - r ELSE Capacity + w - r,
         NEW w2, w2 = CircularPointerAddOffset(w, n)
  PROVE  /\ w2 \in Positions
         /\ (IF w2 >= r THEN w2 - r ELSE Capacity + w2 - r)
              = IF u + n >= Capacity THEN u + n - Capacity ELSE u + n
  BY MixerBounds DEF Positions, CircularPointerAddOffset

\* Moving the read pointer over what is used.
LEMMA ReadPointerMoves ==
  ASSUME NEW w \in Positions, NEW r \in Positions,
         NEW u, u = IF w >= r THEN w - r ELSE Capacity + w - r,
         NEW n \in 0..u,
         NEW r2, r2 = CircularPointerAddOffset(r, n)
  PROVE  /\ r2 \in Positions
         /\ (IF w >= r2 THEN w - r2 ELSE Capacity + w - r2) = u - n
  BY MixerBounds DEF Positions, CircularPointerAddOffset

\* The buffer is never more than nearly full.
LEMMA UsedSpaceBound ==
  ASSUME NEW m \in MixerType
  PROVE  UsedSpace(m) \in 0..(Capacity - 1)
<1>1. m.writePtr \in Positions /\ m.readPtr \in Positions
  BY DEF MixerType
<1>2. QED
  BY <1>1, MixerBounds DEF UsedSpace, Positions
-----------------------------------------------------------------------------
(* Storing a packet *)

\* The mixer starts in step.
LEMMA NewMixerInv == MixerInv(NewMixer)
<1>1. 0 \in Positions /\ 0 \in Timestamps
  BY MixerBounds DEF Positions, Timestamps
<1>2. NewMixer.buffer \in Mixes /\ NewMixer.channelBuffer \in Lines
  BY DEF NewMixer, Lines, Mixes, SampleSets
<1>3. << >> \in Shipments
  BY DEF Shipments
<1>4. /\ NewMixer.delta \in PerChannel /\ NewMixer.lastTs \in PerChannel
      /\ NewMixer.firstTs \in PerChannel
  BY DEF NewMixer, PerChannel, None
<1>5. NewMixer \in MixerType
  BY <1>1, <1>2, <1>3, <1>4 DEF NewMixer, MixerType
<1>6. UsedSpace(NewMixer) = 0
  BY DEF UsedSpace, NewMixer
<1>7. QED
  BY <1>1, <1>5, <1>6 DEF MixerInv, NewMixer

\* Reset empties the buffer at a timestamp.
LEMMA ResetInv ==
  ASSUME NEW m \in MixerType, NEW ts \in Timestamps
  PROVE  MixerInv(Reset(m, ts)) /\ Reset(m, ts).error = m.error
<1>1. 0 \in Positions /\ ts \in Int /\ ts \in Nat
  BY MixerBounds DEF Positions, Timestamps
<1>2. Reset(m, ts) \in MixerType
  BY <1>1 DEF Reset, MixerType
<1>3. /\ Reset(m, ts).writePtr = 0 /\ Reset(m, ts).readPtr = 0
      /\ Reset(m, ts).writeTs = ts /\ Reset(m, ts).readTs = ts
      /\ Reset(m, ts).lost = 0 /\ Reset(m, ts).error = m.error
  BY DEF Reset, MixerType
<1>4. UsedSpace(Reset(m, ts)) = 0
  BY <1>3 DEF UsedSpace
<1>5. QED
  BY <1>1, <1>2, <1>3, <1>4 DEF MixerInv

\* Silence moves the write pointer and the write timestamp alike, or loses what
\* the whole buffer held.
LEMMA WriteSilenceInv ==
  ASSUME NEW m, MixerInv(m), NEW n \in 1..(Capacity - 1), m.writeTs + n < TsModulus
  PROVE  /\ MixerInv(WriteSilence(m, n))
         /\ WriteSilence(m, n).writeTs = m.writeTs + n
         /\ WriteSilence(m, n).error = m.error
<1> DEFINE m2 == WriteSilence(m, n)
           u == UsedSpace(m)
           zeroed == Places(m.writePtr, n)
           b == [p \in Positions |-> IF p \in zeroed THEN {} ELSE m.buffer[p]]
           cb == [ch \in Channels |-> [p \in Positions |->
                    IF p \in zeroed /\ ch <= m.numInputChannels THEN {}
                    ELSE m.channelBuffer[ch][p]]]
           w2 == CircularPointerAddOffset(m.writePtr, n)
           l2 == IF u + n >= Capacity THEN m.lost + Capacity ELSE m.lost
<1>1. m \in MixerType /\ m.writePtr \in Positions /\ m.readPtr \in Positions
      /\ m.lost \in Nat /\ m.buffer \in Mixes /\ m.channelBuffer \in Lines
      /\ m.writeTs \in Timestamps /\ m.readTs \in Int
  BY DEF MixerInv, MixerType
<1>2. u \in 0..(Capacity - 1)
  BY <1>1, UsedSpaceBound
<1>3. n \in 0..(Capacity - 1)
  BY MixerBounds
<1>4. /\ w2 \in Positions
      /\ (IF w2 >= m.readPtr THEN w2 - m.readPtr ELSE Capacity + w2 - m.readPtr)
           = IF u + n >= Capacity THEN u + n - Capacity ELSE u + n
  BY <1>1, <1>3, WritePointerMoves DEF UsedSpace
<1>5. l2 \in Nat
  BY <1>1, MixerBounds
<1>6. b \in Mixes
  BY <1>1 DEF Mixes, SampleSets
<1>7. cb \in Lines
  BY <1>1 DEF Lines, Mixes, SampleSets
<1>8. m.writeTs + n \in Timestamps /\ m.writeTs + n \in Int
  BY <1>1, <1>3, MixerBounds DEF Timestamps
<1>9. m2 = [m EXCEPT !.buffer = b, !.channelBuffer = cb, !.writePtr = w2,
                     !.writeTs = m.writeTs + n, !.lost = l2]
  BY DEF WriteSilence
<1> HIDE DEF m2, b, cb, w2, l2
<1>10. /\ m2 \in MixerType /\ m2.writePtr = w2 /\ m2.readPtr = m.readPtr /\ m2.lost = l2
       /\ m2.writeTs = m.writeTs + n /\ m2.readTs = m.readTs /\ m2.error = m.error
  BY <1>1, <1>4, <1>5, <1>6, <1>7, <1>8, <1>9 DEF MixerType
<1>11. UsedSpace(m2) = IF u + n >= Capacity THEN u + n - Capacity ELSE u + n
  BY <1>4, <1>10 DEF UsedSpace
<1>12. m2.writeTs - m2.readTs = UsedSpace(m2) + m2.lost
  <2>1. m.writeTs - m.readTs = u + m.lost
    BY DEF MixerInv
  <2>2. u \in Int /\ m.lost \in Int /\ m.writeTs \in Int /\ n \in Int /\ Capacity \in Int
    BY <1>1, <1>2, <1>3, MixerBounds DEF Timestamps
  <2> HIDE DEF u
  <2>3. CASE u + n >= Capacity
    BY <1>1, <1>10, <1>11, <2>1, <2>2, <2>3 DEF l2
  <2>4. CASE ~(u + n >= Capacity)
    BY <1>1, <1>10, <1>11, <2>1, <2>2, <2>4 DEF l2
  <2>5. QED
    BY <2>3, <2>4
<1>13. QED
  BY <1>8, <1>10, <1>12 DEF MixerInv, m2

\* Mixing in the samples of a packet touches neither pointer nor timestamp.
LEMMA MixSamplesInv ==
  ASSUME NEW m, MixerInv(m), NEW c \in PacketType, NEW ts
  PROVE  MixerInv(MixSamples(m, c, ts)) /\ MixSamples(m, c, ts).error = m.error
<1> DEFINE start == FirstPlace(m, c, ts)
           target == Places(start, c.n)
           at(p) == {<<c.id, k>> : k \in {k \in 1..c.n : CircularPointerAddOffset(start, k - 1) = p}}
           b == [p \in Positions |-> m.buffer[p] \cup at(p)]
           cb == [ch \in Channels |-> [p \in Positions |->
                    IF ch = c.ch /\ m.numInputChannels # 0 /\ p \in target
                    THEN at(p) ELSE m.channelBuffer[ch][p]]]
           m2 == MixSamples(m, c, ts)
<1>1. m \in MixerType /\ m.buffer \in Mixes /\ m.channelBuffer \in Lines
  BY DEF MixerInv, MixerType
<1>2. c.id \in Nat /\ c.n \in Nat
  BY DEF PacketType
<1>3. \A p : at(p) \in SampleSets
  BY <1>2 DEF SampleSets
<1>4. m2 = [m EXCEPT !.buffer = b, !.channelBuffer = cb]
  BY DEF MixSamples
<1> HIDE DEF at
<1>5. b \in Mixes
  BY <1>1, <1>3 DEF Mixes, SampleSets
<1>6. cb \in Lines
  BY <1>1, <1>3 DEF Lines, Mixes, SampleSets
<1> HIDE DEF b, cb, m2
<1>7. /\ m2 \in MixerType /\ m2.writePtr = m.writePtr /\ m2.readPtr = m.readPtr
      /\ m2.writeTs = m.writeTs /\ m2.readTs = m.readTs /\ m2.lost = m.lost
      /\ m2.error = m.error
  BY <1>1, <1>4, <1>5, <1>6 DEF MixerType
<1>8. QED
  BY <1>7 DEF MixerInv, UsedSpace, m2

\* StoreRtpPacket keeps the mixer in step whatever the packet is.
LEMMA StoreInv ==
  ASSUME NEW m, MixerInv(m), NEW c \in PacketType, NEW ts \in Timestamps
  PROVE  MixerInv(StoreRtpPacket(m, c, ts)) /\ StoreRtpPacket(m, c, ts).error = m.error
<1> DEFINE end == ts + c.n
           silence == end - m.writeTs
           zeroed == IF silence > 0 THEN WriteSilence(m, silence) ELSE m
           behind == zeroed.writeTs - ts
<1>1. m.writeTs \in Timestamps /\ c.n \in Nat /\ end \in Int /\ silence \in Int
  BY MixerBounds DEF MixerInv, PacketType, Timestamps
<1>2. CASE end >= TsModulus \/ silence >= Capacity
  BY <1>2 DEF StoreRtpPacket
<1>3. CASE ~(end >= TsModulus \/ silence >= Capacity)
  <2>1. MixerInv(zeroed) /\ zeroed.error = m.error
    <3>1. CASE silence > 0
      <4>1. silence \in 1..(Capacity - 1) /\ m.writeTs + silence < TsModulus
        BY <1>1, <1>3, <3>1, MixerBounds DEF Timestamps
      <4>2. QED
        BY <3>1, <4>1, WriteSilenceInv
    <3>2. CASE ~(silence > 0)
      BY <3>2
    <3>3. QED
      BY <3>1, <3>2
  <2>2. StoreRtpPacket(m, c, ts) = IF behind < 0 \/ behind >= Capacity THEN zeroed
                                   ELSE MixSamples(zeroed, c, ts)
    BY <1>3 DEF StoreRtpPacket
  <2> HIDE DEF zeroed
  <2>3. MixerInv(MixSamples(zeroed, c, ts)) /\ MixSamples(zeroed, c, ts).error = zeroed.error
    BY <2>1, MixSamplesInv
  <2>4. QED
    BY <2>1, <2>2, <2>3
<1>4. QED
  BY <1>2, <1>3
-----------------------------------------------------------------------------
(* Shipping *)

\* What goes to the output for a place of the buffer.
LEMMA MixedOutputType ==
  ASSUME NEW m \in MixerType, NEW stereo, NEW p \in Positions
  PROVE  MixedOutput(m, stereo, p) \in Seq(SampleSets)
<1> DEFINE side(r) == UNION {m.channelBuffer[ch][p] :
                               ch \in {c \in Channels : c <= m.numInputChannels /\ c % 2 = r}}
<1>1. m.buffer \in Mixes /\ m.channelBuffer \in Lines
  BY DEF MixerType
<1>2. m.buffer[p] \in SampleSets
  BY <1>1 DEF Mixes
<1>3. \A r : side(r) \in SampleSets
  BY <1>1 DEF Lines, Mixes, SampleSets
<1>4. MixedOutput(m, stereo, p) = IF stereo /\ m.numInputChannels # 0
                                  THEN <<side(0), side(1)>> ELSE <<m.buffer[p]>>
  BY DEF MixedOutput
<1> HIDE DEF side
<1>5. QED
  BY <1>2, <1>3, <1>4

\* A shipment of what is used, up to the end of the buffer, keeps the mixer in
\* step and leaves the rest.
LEMMA ShipPartInv ==
  ASSUME NEW m, MixerInv(m), NEW stereo, NEW n \in 0..UsedSpace(m),
         m.readPtr + n <= Capacity
  PROVE  /\ MixerInv(ShipPart(m, stereo, n))
         /\ UsedSpace(ShipPart(m, stereo, n)) = UsedSpace(m) - n
         /\ ShipPart(m, stereo, n).writePtr = m.writePtr
         /\ ShipPart(m, stereo, n).readPtr = CircularPointerAddOffset(m.readPtr, n)
         /\ ShipPart(m, stereo, n).error = m.error
<1> DEFINE m2 == ShipPart(m, stereo, n)
           u == UsedSpace(m)
           r2 == CircularPointerAddOffset(m.readPtr, n)
           chunk == [i \in 1..n |-> MixedOutput(m, stereo, m.readPtr + i - 1)]
           queue == IF n = 0 THEN m.outputQueue ELSE Append(m.outputQueue, chunk)
<1>1. m \in MixerType /\ m.writePtr \in Positions /\ m.readPtr \in Positions
      /\ m.writeTs \in Int /\ m.readTs \in Nat /\ m.lost \in Nat
      /\ m.outputQueue \in Shipments
  BY DEF MixerInv, MixerType
<1>2. u \in 0..(Capacity - 1) /\ n \in Nat
  BY <1>1, UsedSpaceBound
<1>3. r2 \in Positions
      /\ (IF m.writePtr >= r2 THEN m.writePtr - r2 ELSE Capacity + m.writePtr - r2) = u - n
  BY <1>1, <1>2, ReadPointerMoves DEF UsedSpace
<1>4. queue \in Shipments
  <2>1. \A i \in 1..n : m.readPtr + i - 1 \in Positions
    BY <1>1, <1>2, MixerBounds DEF Positions
  <2>2. \A i \in 1..n : MixedOutput(m, stereo, m.readPtr + i - 1) \in Seq(SampleSets)
    BY <1>1, <2>1, MixedOutputType
  <2>3. chunk \in Seq(Seq(SampleSets))
    BY <1>2, <2>2
  <2>4. QED
    BY <1>1, <2>3 DEF Shipments
<1>5. m2 = [m EXCEPT !.outputQueue = queue, !.readPtr = r2, !.readTs = m.readTs + n]
  BY DEF ShipPart
<1> HIDE DEF m2, r2, queue, chunk
<1>6. m.readTs + n \in Nat
  BY <1>1, <1>2
<1>7. /\ m2 \in MixerType /\ m2.writePtr = m.writePtr /\ m2.readPtr = r2
      /\ m2.writeTs = m.writeTs /\ m2.readTs = m.readTs + n /\ m2.lost = m.lost
      /\ m2.error = m.error
  BY <1>1, <1>3, <1>4, <1>5, <1>6 DEF MixerType
<1>8. UsedSpace(m2) = u - n
  BY <1>3, <1>7 DEF UsedSpace
<1>9. m2.writeTs - m2.readTs = UsedSpace(m2) + m2.lost
  <2>1. m.writeTs - m.readTs = u + m.lost
    BY DEF MixerInv
  <2> HIDE DEF u
  <2>2. QED
    BY <1>1, <1>2, <1>7, <1>8, <2>1
<1>10. m2.writeTs \in Timestamps
  BY <1>7 DEF MixerInv
<1>11. QED
  BY <1>7, <1>8, <1>9, <1>10 DEF MixerInv, m2, r2

\* CreateShipment ships everything, or all but the hold-off when there is more.
LEMMA CreateShipmentInv ==
  ASSUME NEW m, MixerInv(m), NEW stereo, NEW force \in BOOLEAN,
         force \/ HoldOff <= UsedSpace(m)
  PROVE  /\ MixerInv(CreateShipment(m, stereo, force))
         /\ force => UsedSpace(CreateShipment(m, stereo, force)) = 0
         /\ CreateShipment(m, stereo, force).error = m.error
<1> DEFINE u == UsedSpace(m)
           stop == IF force THEN m.writePtr
                   ELSE CircularPointerSubtractOffset(m.writePtr, HoldOff)
<1>1. m \in MixerType /\ m.writePtr \in Positions /\ m.readPtr \in Positions
  BY DEF MixerInv, MixerType
<1>2. u \in 0..(Capacity - 1)
  BY <1>1, UsedSpaceBound
<1>3. u = IF m.writePtr >= m.readPtr THEN m.writePtr - m.readPtr
          ELSE Capacity + m.writePtr - m.readPtr
  BY DEF UsedSpace
<1>4. stop \in Positions
  BY <1>1, MixerBounds DEF Positions, CircularPointerSubtractOffset
<1>5. CASE stop < m.readPtr
  <2> DEFINE n == Capacity - m.readPtr
             m1 == ShipPart(m, stereo, n)
  <2>1. n \in 0..u /\ m.readPtr + n <= Capacity
    BY <1>1, <1>2, <1>3, <1>5, MixerBounds DEF Positions, CircularPointerSubtractOffset
  <2>2. /\ MixerInv(m1) /\ UsedSpace(m1) = u - n /\ m1.writePtr = m.writePtr
        /\ m1.readPtr = CircularPointerAddOffset(m.readPtr, n) /\ m1.error = m.error
    BY <2>1, ShipPartInv
  <2>3. m1.readPtr = 0
    BY <1>1, <2>2, MixerBounds DEF Positions, CircularPointerAddOffset
  <2>4. stop \in 0..(u - n) /\ (force => stop = u - n)
    BY <1>1, <1>2, <1>3, <1>4, <1>5, <2>1, MixerBounds
    DEF Positions, CircularPointerSubtractOffset
  <2>5. 0 + stop <= Capacity
    BY <1>4, MixerBounds DEF Positions
  <2>6. CreateShipment(m, stereo, force) = ShipPart(m1, stereo, stop)
    BY <1>5 DEF CreateShipment
  <2> HIDE DEF m1, stop, u, n
  <2>7. /\ MixerInv(ShipPart(m1, stereo, stop))
        /\ UsedSpace(ShipPart(m1, stereo, stop)) = (u - n) - stop
        /\ ShipPart(m1, stereo, stop).error = m1.error
    BY <2>2, <2>3, <2>4, <2>5, ShipPartInv
  <2>8. u - n \in Int
    BY <1>1, <1>2, MixerBounds DEF n, Positions
  <2>9. QED
    BY <2>2, <2>4, <2>6, <2>7, <2>8
<1>6. CASE ~(stop < m.readPtr)
  <2> DEFINE n == stop - m.readPtr
  <2>1. n \in 0..u /\ m.readPtr + n <= Capacity /\ (force => n = u)
    BY <1>1, <1>2, <1>3, <1>4, <1>6, MixerBounds
    DEF Positions, CircularPointerSubtractOffset
  <2>2. CreateShipment(m, stereo, force) = ShipPart(m, stereo, n)
    BY <1>6 DEF CreateShipment
  <2> HIDE DEF stop, u, n
  <2>3. /\ MixerInv(ShipPart(m, stereo, n))
        /\ UsedSpace(ShipPart(m, stereo, n)) = u - n
        /\ ShipPart(m, stereo, n).error = m.error
    BY <2>1, ShipPartInv DEF u
  <2>4. QED
    BY <1>2, <2>1, <2>2, <2>3
<1>7. QED
  BY <1>5, <1>6

\* Setting the value of one channel.
LEMMA SetChannel ==
  ASSUME NEW f \in PerChannel, NEW ch, NEW x \in Int
  PROVE  [f EXCEPT ![ch] = x] \in PerChannel
  BY DEF PerChannel

\* A packet outside the window.
LEMMA OutOfRangeInv ==
  ASSUME NEW m, MixerInv(m), NEW stereo, NEW c \in PacketType
  PROVE  MixerInv(ManageOutOfRangeTimestamp(m, stereo, c))
<1>1. m \in MixerType /\ c.ts \in Timestamps /\ c.ch \in Channels
  BY DEF MixerInv, PacketType
<1>2. CASE c.ch = 1
  <2> DEFINE shipped == CreateShipment(m, stereo, TRUE)
             stored == StoreRtpPacket(Reset(shipped, c.ts), c, c.ts)
  <2>1. MixerInv(shipped)
    BY CreateShipmentInv
  <2>2. MixerInv(Reset(shipped, c.ts))
    BY <1>1, <2>1, ResetInv DEF MixerInv
  <2>3. MixerInv(stored)
    BY <1>1, <2>2, StoreInv
  <2> DEFINE d == [stored.delta EXCEPT ![2] = 0]
             m2 == [stored EXCEPT !.delta = d]
  <2>4. ManageOutOfRangeTimestamp(m, stereo, c) = m2
    BY <1>2 DEF ManageOutOfRangeTimestamp
  <2> HIDE DEF stored
  <2>5. stored \in MixerType /\ d \in PerChannel
    <3>1. stored \in MixerType
      BY <2>3 DEF MixerInv
    <3>2. stored.delta \in PerChannel
      BY <3>1 DEF MixerType
    <3>3. \A f \in PerChannel : \A x \in Int : [f EXCEPT ![2] = x] \in PerChannel
      BY SetChannel
    <3> HIDE DEF PerChannel
    <3>4. d \in PerChannel
      BY <3>2, <3>3
    <3>5. QED
      BY <3>1, <3>4
  <2> HIDE DEF d
  <2>6. MixerInv(m2)
    BY <2>3, <2>5 DEF MixerInv, MixerType, UsedSpace
  <2>7. QED
    BY <2>4, <2>6
<1>3. CASE c.ch # 1
  <2> DEFINE d == [m.delta EXCEPT ![c.ch] = c.ts - m.writeTs]
             m2 == [m EXCEPT !.delta = d]
  <2>1. c.ts - m.writeTs \in Int
    BY <1>1 DEF MixerInv, Timestamps
  <2>2. d \in PerChannel
    BY <1>1, <2>1 DEF MixerType, PerChannel
  <2> HIDE DEF d
  <2>3. MixerInv(m2)
    BY <1>1, <2>2 DEF MixerInv, MixerType, UsedSpace
  <2>4. ManageOutOfRangeTimestamp(m, stereo, c) \in {m, m2}
    BY <1>3 DEF ManageOutOfRangeTimestamp, d
  <2>5. QED
    BY <2>3, <2>4
<1>4. QED
  BY <1>2, <1>3
-----------------------------------------------------------------------------
(* AudioChunkIn *)

\* The correction of a timestamp leaves a packet a packet.
LEMMA CorrectedPacketType ==
  ASSUME NEW m \in MixerType, NEW c \in PacketType
  PROVE  CorrectRogueTimestamp(m, c) \in PacketType
<1> DEFINE ts == (m.lastTs[c.ch] + PacketSamples) % TsModulus
<1>1. c.ch \in Channels /\ m.lastTs[c.ch] \in Int
  BY DEF MixerType, PerChannel, PacketType
<1>2. ts \in Timestamps
  BY <1>1, MixerBounds DEF Timestamps
<1>3. CorrectRogueTimestamp(m, c) \in {c, [c EXCEPT !.ts = ts]}
  BY DEF CorrectRogueTimestamp
<1> HIDE DEF ts
<1>4. [c EXCEPT !.ts = ts] \in PacketType
  BY <1>2 DEF PacketType
<1>5. QED
  BY <1>3, <1>4

\* What precedes the placement changes neither pointers nor timestamps.
LEMMA PreparationInv ==
  ASSUME NEW m, MixerInv(m), NEW stereo, NEW c \in PacketType, NEW p \in PacketType
  PROVE  /\ MixerInv(CreateChannels(m, stereo, c.ch))
         /\ MixerInv(RememberTimestamp(m, c))
         /\ MixerInv(CorrectiveDelta(m, p))
<1>1. m \in MixerType /\ c.ch \in Nat /\ c.ch \in Channels
  BY MixerBounds DEF MixerInv, PacketType, Channels
<1>2. MixerInv(CreateChannels(m, stereo, c.ch))
  BY <1>1 DEF CreateChannels, MixerInv, MixerType, UsedSpace
<1>3. MixerInv(RememberTimestamp(m, c))
  <2> DEFINE f == [m.firstTs EXCEPT ![c.ch] =
                     IF m.lastTs[c.ch] = None \/ CountsMilliseconds(m, c) THEN c.ts ELSE @]
             l == [m.lastTs EXCEPT ![c.ch] = CorrectRogueTimestamp(m, c).ts]
  <2>1. c.ts \in Int /\ CorrectRogueTimestamp(m, c).ts \in Int
    BY <1>1, CorrectedPacketType DEF PacketType, Timestamps
  <2>2. f \in PerChannel /\ l \in PerChannel
    BY <1>1, <2>1 DEF MixerType, PerChannel
  <2>3. RememberTimestamp(m, c) \in {m, [m EXCEPT !.firstTs = f, !.lastTs = l]}
    BY DEF RememberTimestamp
  <2> HIDE DEF f, l
  <2>4. MixerInv([m EXCEPT !.firstTs = f, !.lastTs = l])
    BY <1>1, <2>2 DEF MixerInv, MixerType, UsedSpace
  <2>5. QED
    BY <2>3, <2>4
<1>4. MixerInv(CorrectiveDelta(m, p))
  <2> DEFINE d == [m.delta EXCEPT ![2] = p.ts - m.writeTs]
  <2>1. p.ts - m.writeTs \in Int
    BY <1>1 DEF MixerInv, Timestamps, PacketType
  <2>2. d \in PerChannel
    BY <1>1, <2>1 DEF MixerType, PerChannel
  <2>3. CorrectiveDelta(m, p) \in {m, [m EXCEPT !.delta = d, !.oneS1Packet = FALSE]}
    BY DEF CorrectiveDelta
  <2> HIDE DEF d
  <2>4. MixerInv([m EXCEPT !.delta = d, !.oneS1Packet = FALSE])
    BY <1>1, <2>2 DEF MixerInv, MixerType, UsedSpace
  <2>5. QED
    BY <2>3, <2>4
<1>5. QED
  BY <1>2, <1>3, <1>4

\* The first packet of side 1 opens the window of a mixer nothing was put into.
LEMMA OpenWindowInv ==
  ASSUME NEW m, MixerInv(m), m.writeTs = 0, NEW ts \in Timestamps
  PROVE  MixerInv([m EXCEPT !.writeTs = ts, !.readTs = ts, !.oneS1Packet = TRUE])
<1> DEFINE m2 == [m EXCEPT !.writeTs = ts, !.readTs = ts, !.oneS1Packet = TRUE]
<1>1. m \in MixerType /\ m.readTs \in Nat /\ m.lost \in Nat
  BY DEF MixerInv, MixerType
<1>2. UsedSpace(m) \in Nat
  BY <1>1, UsedSpaceBound, MixerBounds
<1>3. UsedSpace(m) = 0 /\ m.lost = 0
  <2>1. 0 - m.readTs = UsedSpace(m) + m.lost
    BY DEF MixerInv
  <2>2. QED
    BY <1>1, <1>2, <2>1
<1>4. ts \in Nat /\ ts \in Int
  BY MixerBounds DEF Timestamps
<1>5. /\ m2 \in MixerType /\ m2.writePtr = m.writePtr /\ m2.readPtr = m.readPtr
      /\ m2.lost = 0 /\ m2.writeTs = ts /\ m2.readTs = ts
  BY <1>1, <1>3, <1>4 DEF MixerType
<1> HIDE DEF m2
<1>6. UsedSpace(m2) = 0
  BY <1>3, <1>5 DEF UsedSpace
<1>7. MixerInv(m2)
  BY <1>4, <1>5, <1>6 DEF MixerInv
<1>8. QED
  BY <1>7 DEF m2

\* A packet placed at a timestamp of side 1's time line.
LEMMA PlacePacketInv ==
  ASSUME NEW m, MixerInv(m), NEW stereo, NEW c \in PacketType, NEW ts \in Timestamps
  PROVE  MixerInv(PlacePacket(m, stereo, c, ts))
<1> DEFINE first == [m EXCEPT !.writeTs = ts, !.readTs = ts, !.oneS1Packet = TRUE]
           stored == StoreRtpPacket(m, c, ts)
<1>1. CASE m.writeTs = 0
  <2>1. PlacePacket(m, stereo, c, ts) \in {m, StoreRtpPacket(first, c, ts)}
    BY <1>1 DEF PlacePacket
  <2>2. MixerInv(first)
    BY <1>1, OpenWindowInv
  <2> HIDE DEF first
  <2>3. MixerInv(StoreRtpPacket(first, c, ts))
    BY <2>2, StoreInv
  <2>4. QED
    BY <2>1, <2>3
<1>2. CASE m.writeTs # 0
  <2>1. MixerInv(stored)
    BY StoreInv
  <2>2. MixerInv(ManageOutOfRangeTimestamp(m, stereo, c))
    BY OutOfRangeInv
  <2>3. UsedSpace(stored) > Trigger => MixerInv(CreateShipment(stored, stereo, FALSE))
    <3> HIDE DEF stored
    <3>1. UsedSpace(stored) \in Int
      BY <2>1, UsedSpaceBound, MixerBounds DEF MixerInv
    <3>2. UsedSpace(stored) > Trigger => HoldOff <= UsedSpace(stored)
      BY <3>1, MixerBounds
    <3>3. QED
      BY <2>1, <3>2, CreateShipmentInv
  <2>4. PlacePacket(m, stereo, c, ts)
          = IF ts >= m.readTs /\ Fits(m, ts, c.n)
            THEN IF UsedSpace(stored) > Trigger THEN CreateShipment(stored, stereo, FALSE)
                 ELSE stored
            ELSE ManageOutOfRangeTimestamp(m, stereo, c)
    BY <1>2 DEF PlacePacket
  <2> HIDE DEF stored
  <2>5. QED
    BY <2>1, <2>2, <2>3, <2>4
<1>3. QED
  BY <1>1, <1>2

\* Every timestamp side 1's time line may get is one.
LEMMA CorrectedTimestampsType ==
  ASSUME NEW m \in MixerType, NEW c \in PacketType
  PROVE  CorrectedTimestamps(m, c) \subseteq Timestamps
<1> DEFINE shifted == c.ts - m.delta[c.ch]
<1>1. c.ts \in Timestamps /\ shifted \in Int
  BY DEF MixerType, PerChannel, PacketType, Timestamps
<1>2. 0 \in Timestamps /\ shifted % TsModulus \in Timestamps /\ TsModulus - 1 \in Timestamps
  BY <1>1, MixerBounds DEF Timestamps
<1>3. ~(shifted < 0) /\ shifted < TsModulus => shifted \in Timestamps
  BY <1>1, MixerBounds DEF Timestamps
<1>4. CorrectedTimestamps(m, c) \subseteq
        {c.ts, 0, shifted % TsModulus, TsModulus - 1}
          \cup {x \in {shifted} : ~(shifted < 0) /\ shifted < TsModulus}
  BY DEF CorrectedTimestamps
<1> HIDE DEF shifted
<1>5. QED
  BY <1>1, <1>2, <1>3, <1>4

\* Whatever AudioChunkIn makes of a packet, the mixer is in step.
LEMMA AudioChunkInInv ==
  ASSUME NEW m, MixerInv(m), NEW stereo, NEW c \in PacketType,
         NEW m2 \in AudioChunkIn(m, stereo, c)
  PROVE  MixerInv(m2)
<1> DEFINE failed == [m EXCEPT !.error = TRUE]
           open == CreateChannels(m, stereo, c.ch)
           packet == CorrectRogueTimestamp(open, c)
           ready == CorrectiveDelta(RememberTimestamp(open, c), packet)
<1>1. MixerInv(failed)
  BY DEF MixerInv, MixerType, UsedSpace
<1>2. MixerInv(open)
  BY PreparationInv
<1>3. packet \in PacketType
  BY <1>2, CorrectedPacketType DEF MixerInv
<1>4. m2 \in {m, failed}
        \cup {PlacePacket(ready, stereo, packet, ts) : ts \in CorrectedTimestamps(ready, packet)}
  BY DEF AudioChunkIn
<1> HIDE DEF failed, open, packet
<1>5. MixerInv(RememberTimestamp(open, c))
  BY <1>2, PreparationInv
<1>6. MixerInv(ready)
  BY <1>3, <1>5, PreparationInv
<1> HIDE DEF ready
<1>7. CorrectedTimestamps(ready, packet) \subseteq Timestamps
  BY <1>3, <1>6, CorrectedTimestampsType DEF MixerInv
<1>8. \A ts \in CorrectedTimestamps(ready, packet) : MixerInv(PlacePacket(ready, stereo, packet, ts))
  BY <1>3, <1>6, <1>7, PlacePacketInv
<1>9. QED
  BY <1>1, <1>4, <1>8

\* Taking a chunk from the output leaves pointers, timestamps and the error.
LEMMA AudioChunkOutInv ==
  ASSUME NEW m, MixerInv(m)
  PROVE  /\ MixerInv(AudioChunkOut(m))
         /\ UsedSpace(AudioChunkOut(m)) = UsedSpace(m)
         /\ AudioChunkOut(m).error = m.error
<1> DEFINE q == Tail(m.outputQueue)
<1>1. m \in MixerType /\ m.outputQueue \in Shipments
  BY DEF MixerInv, MixerType
<1>2. CASE m.outputQueue = << >>
  BY <1>2 DEF AudioChunkOut
<1>3. CASE m.outputQueue # << >>
  <2>1. q \in Shipments
    BY <1>1, <1>3 DEF Shipments
  <2>2. AudioChunkOut(m) = [m EXCEPT !.outputQueue = q]
    BY <1>3 DEF AudioChunkOut
  <2> HIDE DEF q
  <2>3. QED
    BY <1>1, <2>1, <2>2 DEF MixerInv, MixerType, UsedSpace
<1>4. QED
  BY <1>2, <1>3

\* The end of the stream leaves nothing in the buffer.
LEMMA EndOfStreamInv ==
  ASSUME NEW m, MixerInv(m), NEW stereo
  PROVE  /\ MixerInv(EndOfStream(m, stereo))
         /\ EndOfStream(m, stereo).error \/ UsedSpace(EndOfStream(m, stereo)) = 0
  BY CreateShipmentInv DEF EndOfStream
-----------------------------------------------------------------------------
(* The call *)

\* The mixer is in step, is untouched before the first chunk that is mixed, and
\* once the end of the stream has been mixed in it holds nothing.
Inv ==
  /\ MixerInv(mixer)
  /\ scenario \in Scenarios
  /\ chunksRead \in Nat
  /\ ~mixing => mixer = NewMixer
  /\ phase \in {"drain", "done"} /\ ~mixer.error => UsedSpace(mixer) = 0
  /\ phase = "done" => mixer.outputQueue = << >>

\* A call starts with a new mixer.
LEMMA InitInv == Init => Inv
  BY NewMixerInv DEF Init, Inv

\* The packet a chunk is decoded into is one the mixer takes.
LEMMA DecodedPacket ==
  ASSUME Inv, NEW ch \in scenario.channels, NEW ts \in scenario.timestamps,
         NEW n \in scenario.sizes,
         NextChunk, ~SkipChunk(scenario.keep, scenario.localSide, ch)
  PROVE  [id |-> chunksRead + 1, ch |-> mixedAs(ch), ts |-> ts, n |-> n] \in PacketType
<1>1. ch \in Channels /\ ts \in Timestamps /\ n \in Nat
  BY ScenarioTypes DEF Inv, Timestamps
<1>2. mixedAs(ch) \in Channels
  BY <1>1, MixerBounds DEF mixedAs, Channels
<1>3. chunksRead + 1 \in Nat
  BY DEF Inv
<1>4. QED
  BY <1>1, <1>2, <1>3 DEF PacketType

\* Writing what the mixer ships keeps it in step.
LEMMA WriteOutputInv ==
  ASSUME NEW m, MixerInv(m), WriteOutput(m)
  PROVE  MixerInv(mixer') /\ UsedSpace(mixer') = UsedSpace(m) /\ mixer'.error = m.error
  BY AudioChunkOutInv DEF WriteOutput

\* Every step preserves the invariant.
LEMMA NextInv == Inv /\ [Next]_vars => Inv'
<1> SUFFICES ASSUME Inv, [Next]_vars PROVE Inv'
  OBVIOUS
<1>1. MixerInv(mixer) /\ scenario \in Scenarios /\ chunksRead \in Nat
  BY DEF Inv
<1>2. CASE CaptureChunk
  BY <1>2 DEF CaptureChunk, transcodeVars, Inv, MixerInv, UsedSpace
<1>3. CASE StopCapture
  BY <1>3 DEF StopCapture, transcodeVars, Inv, MixerInv, UsedSpace
<1>4. CASE SkipOne
  BY <1>4 DEF SkipOne, NextChunk, Inv, MixerInv, UsedSpace
<1>5. CASE SkipUnknownCodec
  BY <1>5 DEF SkipUnknownCodec, NextChunk, Inv, MixerInv, UsedSpace
<1>6. CASE MixChunk
  <2>1. PICK ch \in scenario.channels, ts \in scenario.timestamps, n \in scenario.sizes :
          /\ ~SkipChunk(scenario.keep, scenario.localSide, ch)
          /\ \E m \in AudioChunkIn(mixer, scenario.stereo,
                        [id |-> chunksRead + 1, ch |-> mixedAs(ch), ts |-> ts, n |-> n]) :
               WriteOutput(m)
    BY <1>6 DEF MixChunk
  <2> DEFINE c == [id |-> chunksRead + 1, ch |-> mixedAs(ch), ts |-> ts, n |-> n]
  <2>2. c \in PacketType
    BY <1>6, <2>1, DecodedPacket DEF MixChunk
  <2>3. PICK m \in AudioChunkIn(mixer, scenario.stereo, c) : WriteOutput(m)
    BY <2>1
  <2> HIDE DEF c
  <2>4. MixerInv(m)
    BY <1>1, <2>2, <2>3, AudioChunkInInv
  <2>5. MixerInv(mixer')
    BY <2>3, <2>4, WriteOutputInv
  <2>6. /\ scenario' = scenario /\ chunksRead' \in Nat /\ mixing' /\ phase' = "transcode"
    BY <1>1, <1>6 DEF MixChunk, NextChunk
  <2>7. QED
    BY <1>1, <2>5, <2>6 DEF Inv, MixerInv, UsedSpace
<1>7. CASE FlushMixer
  <2>1. /\ scenario' = scenario /\ chunksRead' = chunksRead /\ mixing' = mixing
        /\ phase' = "drain"
    BY <1>7 DEF FlushMixer
  <2>2. CASE mixing /\ WriteOutput(EndOfStream(mixer, scenario.stereo))
    <3> DEFINE m == EndOfStream(mixer, scenario.stereo)
    <3>1. MixerInv(m) /\ (m.error \/ UsedSpace(m) = 0)
      BY <1>1, EndOfStreamInv
    <3>2. WriteOutput(m)
      BY <2>2
    <3> HIDE DEF m
    <3>3. MixerInv(mixer') /\ UsedSpace(mixer') = UsedSpace(m) /\ mixer'.error = m.error
      BY <3>1, <3>2, WriteOutputInv
    <3>4. UsedSpace(mixer') = UsedSpace(mixer)'
      BY DEF UsedSpace
    <3>5. QED
      BY <1>1, <2>1, <2>2, <3>1, <3>3, <3>4 DEF Inv, MixerInv, UsedSpace
  <2>3. CASE ~mixing /\ UNCHANGED <<mixer, storage>>
    <3>1. mixer = NewMixer /\ mixer' = mixer
      BY <2>3 DEF Inv
    <3>2. UsedSpace(mixer') = 0
      BY <3>1 DEF UsedSpace, NewMixer
    <3>3. QED
      BY <1>1, <2>1, <2>3, <3>1, <3>2 DEF Inv, MixerInv, UsedSpace
  <2>4. QED
    BY <1>7, <2>2, <2>3 DEF FlushMixer
<1>8. CASE Drain
  <2>1. /\ scenario' = scenario /\ chunksRead' = chunksRead /\ mixing' = mixing
        /\ phase = "drain"
    BY <1>8 DEF Drain
  <2>2. CASE mixer.outputQueue # << >> /\ WriteOutput(mixer) /\ UNCHANGED phase
    <3>1. MixerInv(mixer') /\ UsedSpace(mixer') = UsedSpace(mixer) /\ mixer'.error = mixer.error
      BY <1>1, <2>2, WriteOutputInv
    <3>2. mixing
      BY <2>2 DEF Inv, NewMixer
    <3>3. QED
      BY <1>1, <2>1, <2>2, <3>1, <3>2 DEF Inv, MixerInv, UsedSpace
  <2>3. CASE mixer.outputQueue = << >> /\ phase' = "done" /\ UNCHANGED <<mixer, storage>>
    BY <2>1, <2>3 DEF Inv, MixerInv, UsedSpace
  <2>4. QED
    BY <1>8, <2>2, <2>3 DEF Drain
<1>9. CASE ReadFails
  BY <1>9 DEF ReadFails, transcodeVars, Inv, MixerInv, UsedSpace
<1>10. CASE UNCHANGED vars
  BY <1>10 DEF vars, transcodeVars, Inv, MixerInv, UsedSpace
<1>11. QED
  BY <1>2, <1>3, <1>4, <1>5, <1>6, <1>7, <1>8, <1>9, <1>10 DEF Next

\* The strengthened invariant holds in every state of a call.
LEMMA SpecInv == Spec => []Inv
<1>1. Init => Inv
  BY InitInv
<1>2. Inv /\ [Next]_vars => Inv'
  BY NextInv
<1>3. QED
  BY <1>1, <1>2, PTL DEF Spec

\* RtpMixer: for every capacity of the buffer, trigger, hold-off and stream of
\* packets, the pointers and the timestamps stay as far apart as each other.
THEOREM MixerStaysInStep == Spec => []InStep
<1>1. Inv => InStep
  <2> SUFFICES ASSUME Inv PROVE InStep
    OBVIOUS
  <2>1. mixer \in MixerType /\ mixer.writeTs \in Timestamps
        /\ mixer.writeTs - mixer.readTs = UsedSpace(mixer) + mixer.lost
    BY DEF Inv, MixerInv
  <2>2. mixer.writePtr \in Positions /\ mixer.readPtr \in Positions
    BY <2>1 DEF MixerType
  <2>3. mixer.writeTs < TsModulus
    BY <2>1, MixerBounds DEF Timestamps
  <2>4. QED
    BY <2>1, <2>2, <2>3 DEF InStep
<1>2. QED
  BY <1>1, SpecInv, PTL

\* BatchProcessing's flush: a call that is done, and whose mixer did not give up,
\* has left neither a sample in the buffer nor a chunk in the output.
THEOREM CallIsPlayed == Spec => []EverythingPlayed
<1>1. Inv => EverythingPlayed
  <2> SUFFICES ASSUME Inv, phase = "done", ~mixer.error
               PROVE  Line = << >> /\ mixer.outputQueue = << >>
    BY DEF EverythingPlayed
  <2>1. UsedSpace(mixer) = 0 /\ mixer.outputQueue = << >>
    BY DEF Inv
  <2>2. Line = << >>
    BY <2>1 DEF Line
  <2>3. QED
    BY <2>1, <2>2
<1>2. QED
  BY <1>1, SpecInv, PTL
-----------------------------------------------------------------------------
(* The capture file *)

FileType ==
  [open : BOOLEAN, queue : Seq(Nat), dataSize : Nat, disk : Seq(Nat), bad : BOOLEAN,
   torn : {"no", "header", "data"}]

\* The first n chunks are on disk or queued, in order, unless the stream failed;
\* what is on disk is in order even so.
FileInv(f, n) ==
  /\ f \in FileType
  /\ Len(f.disk) <= n /\ \A i \in 1..Len(f.disk) : f.disk[i] = i
  /\ ~f.bad => /\ Len(f.disk) + Len(f.queue) = n
               /\ \A i \in 1..Len(f.queue) : f.queue[i] = Len(f.disk) + i

\* A flush leaves a beginning of the chunks on disk, and all of them unless the
\* stream fails.
LEMMA FlushInv ==
  ASSUME NEW n \in Nat, NEW f, FileInv(f, n), NEW g \in FlushToDisk(f)
  PROVE  FileInv(g, n) /\ g.open = f.open /\ (~g.bad => g.queue = << >>)
<1> DEFINE all == f.disk \o f.queue
<1>1. f \in FileType /\ f.disk \in Seq(Nat) /\ f.queue \in Seq(Nat)
  BY DEF FileInv, FileType
<1>2. CASE f.bad
  <2> DEFINE q == IF f.queue = << >> THEN f.queue ELSE Tail(f.queue)
  <2>1. q \in Seq(Nat)
    BY <1>1
  <2>2. g = [f EXCEPT !.queue = q, !.dataSize = 0]
    BY <1>2 DEF FlushToDisk
  <2> HIDE DEF q
  <2>3. QED
    BY <1>1, <1>2, <2>1, <2>2 DEF FileInv, FileType
<1>3. CASE ~f.bad
  <2>1. all \in Seq(Nat) /\ Len(all) = n /\ \A i \in 1..Len(all) : all[i] = i
    <3>1. Len(f.disk) \in Nat /\ Len(f.queue) \in Nat /\ all \in Seq(Nat)
          /\ Len(all) = Len(f.disk) + Len(f.queue)
      BY <1>1
    <3>2. /\ \A i \in 1..Len(f.disk) : f.disk[i] = i
          /\ Len(f.disk) + Len(f.queue) = n
          /\ \A i \in 1..Len(f.queue) : f.queue[i] = Len(f.disk) + i
      BY <1>3 DEF FileInv
    <3>3. ASSUME NEW i \in 1..Len(all) PROVE all[i] = i
      <4>1. CASE i <= Len(f.disk)
        BY <1>1, <3>1, <3>2, <4>1
      <4>2. CASE ~(i <= Len(f.disk))
        <5>1. i - Len(f.disk) \in 1..Len(f.queue)
          <6> DEFINE a == Len(f.disk)
                     b == Len(f.queue)
                     l == Len(all)
          <6>1. a \in Nat /\ b \in Nat /\ l = a + b /\ i \in 1..l /\ ~(i <= a)
            BY <3>1, <3>3, <4>2
          <6> HIDE DEF a, b, l
          <6>2. i - a \in 1..b
            BY <6>1
          <6>3. QED
            BY <6>2 DEF a, b
        <5>2. all[i] = f.queue[i - Len(f.disk)]
          BY <1>1, <3>1, <4>2, <5>1
        <5>3. QED
          BY <3>1, <3>2, <5>1, <5>2
      <4>3. QED
        BY <4>1, <4>2
    <3>4. QED
      BY <3>1, <3>2, <3>3
  <2>2. ASSUME g = [f EXCEPT !.queue = << >>, !.dataSize = 0, !.disk = all]
        PROVE  FileInv(g, n) /\ g.open = f.open /\ g.queue = << >>
    <3> HIDE DEF all
    <3> DEFINE none == << >>
    <3>0. none \in Seq(Nat) /\ g = [f EXCEPT !.queue = none, !.dataSize = 0, !.disk = all]
      BY <2>2
    <3> HIDE DEF none
    <3>1. /\ g \in FileType /\ g.disk = all /\ g.queue = none /\ g.open = f.open
          /\ g.bad = f.bad
      BY <1>1, <2>1, <3>0 DEF FileType
    <3>2. g.queue = << >> /\ Len(g.queue) = 0
      BY <3>1 DEF none
    <3>3. QED
      BY <2>1, <3>1, <3>2 DEF FileInv
  <2>3. ASSUME NEW at \in 1..Len(f.queue), NEW kept \in 0..(Len(f.disk) + Len(f.queue) - 1),
               NEW piece \in {"no", "header", "data"}, g = FailedFlush(f, at, kept, piece)
        PROVE  FileInv(g, n) /\ g.open = f.open /\ g.bad
    <3> DEFINE q == SubSeq(f.queue, at + 1, Len(f.queue))
               d == SubSeq(all, 1, kept)
    <3>0. Len(f.disk) + Len(f.queue) = n
      BY <1>3 DEF FileInv
    <3>1. Len(f.queue) \in Nat /\ Len(f.disk) \in Nat
      BY <1>1
    <3>2. q \in Seq(Nat)
      <4>1. \A i \in at + 1..Len(f.queue) : f.queue[i] \in Nat
        BY <1>1, <3>1
      <4>2. QED
        BY <1>1, <3>1
    <3>3. kept \in 0..n
      <4> DEFINE a == Len(f.disk)
                 b == Len(f.queue)
      <4>1. a + b = n /\ a \in Nat /\ b \in Nat /\ kept \in 0..(a + b - 1)
        BY <3>0, <3>1
      <4> HIDE DEF a, b
      <4>2. QED
        BY <4>1
    <3>4. d \in Seq(Nat) /\ Len(d) <= n /\ \A i \in 1..Len(d) : d[i] = i
      <4> HIDE DEF all
      <4>1. Len(d) = kept /\ \A i \in 1..kept : d[i] = all[i]
        BY <2>1, <3>3
      <4>2. d \in Seq(Nat)
        BY <2>1, <3>3
      <4>3. QED
        BY <2>1, <3>3, <4>1, <4>2
    <3>5. g = [f EXCEPT !.queue = q, !.dataSize = 0, !.bad = TRUE, !.disk = d,
                        !.torn = piece]
      BY <2>3 DEF FailedFlush
    <3> HIDE DEF q, d, all
    <3>6. /\ g \in FileType /\ g.disk = d /\ g.bad /\ g.open = f.open
      BY <1>1, <3>2, <3>4, <3>5 DEF FileType
    <3>7. QED
      BY <3>4, <3>6 DEF FileInv
  <2>4. \/ g = [f EXCEPT !.queue = << >>, !.dataSize = 0, !.disk = all]
        \/ \E at \in 1..Len(f.queue), kept \in 0..(Len(f.disk) + Len(f.queue) - 1),
              piece \in {"no", "header", "data"} : g = FailedFlush(f, at, kept, piece)
    <3> DEFINE whole == [f EXCEPT !.queue = << >>, !.dataSize = 0, !.disk = all]
               dropped == {[f EXCEPT !.queue = IF @ = << >> THEN @ ELSE Tail(@),
                                     !.dataSize = 0]}
               A == 1..Len(f.queue)
               K == 0..(Len(f.disk) + Len(f.queue) - 1)
               P == {"no", "header", "data"}
               failed == {FailedFlush(f, at, kept, piece) : at \in A, kept \in K, piece \in P}
    <3>0. FlushToDisk(f) = IF f.bad THEN dropped ELSE {whole} \cup failed
      BY DEF FlushToDisk
    <3> HIDE DEF dropped, whole, failed
    <3>1. g \in {whole} \cup failed
      BY <1>3, <3>0
    <3> HIDE DEF A, K, P
    <3>2. g = whole \/ \E at \in A, kept \in K, piece \in P : g = FailedFlush(f, at, kept, piece)
      BY <3>1 DEF failed
    <3>3. QED
      BY <3>2 DEF whole, A, K, P
  <2> HIDE DEF all
  <2>5. QED
    BY <2>2, <2>3, <2>4
<1>4. QED
  BY <1>2, <1>3

\* Writing chunk n + 1 after n chunks.
LEMMA WriteChunkInv ==
  ASSUME NEW n \in Nat, NEW f, FileInv(f, n), NEW g \in WriteChunk(f, n + 1)
  PROVE  FileInv(g, n + 1) /\ g.open = f.open
<1> DEFINE q == Append(f.queue, n + 1)
           queued == [f EXCEPT !.queue = Append(@, n + 1), !.dataSize = @ + 1]
<1>1. f \in FileType /\ f.disk \in Seq(Nat) /\ f.queue \in Seq(Nat) /\ f.dataSize \in Nat
  BY DEF FileInv, FileType
<1>2. /\ q \in Seq(Nat) /\ Len(q) = Len(f.queue) + 1 /\ q[Len(q)] = n + 1
      /\ \A i \in 1..Len(f.queue) : q[i] = f.queue[i]
  BY <1>1
<1> DEFINE size == f.dataSize + 1
<1>3. queued = [f EXCEPT !.queue = q, !.dataSize = size] /\ size \in Nat
  BY <1>1
<1> HIDE DEF q, queued, size
<1>4. /\ queued \in FileType /\ queued.queue = q /\ queued.disk = f.disk
      /\ queued.bad = f.bad /\ queued.open = f.open
  BY <1>1, <1>2, <1>3 DEF FileType
<1>5. FileInv(queued, n + 1)
  <2>1. Len(f.disk) <= n + 1 /\ \A i \in 1..Len(f.disk) : f.disk[i] = i
    <3>1. Len(f.disk) \in Nat /\ Len(f.disk) <= n
      BY <1>1 DEF FileInv
    <3>2. QED
      BY <3>1 DEF FileInv
  <2>2. ~f.bad => Len(f.disk) + Len(q) = n + 1 /\ \A i \in 1..Len(q) : q[i] = Len(f.disk) + i
    <3> SUFFICES ASSUME ~f.bad
                 PROVE  Len(f.disk) + Len(q) = n + 1
                        /\ \A i \in 1..Len(q) : q[i] = Len(f.disk) + i
      OBVIOUS
    <3>1. /\ Len(f.disk) + Len(f.queue) = n
          /\ \A i \in 1..Len(f.queue) : f.queue[i] = Len(f.disk) + i
      BY DEF FileInv
    <3>2. Len(f.disk) \in Nat /\ Len(f.queue) \in Nat
      BY <1>1
    <3>3. Len(f.disk) + Len(q) = n + 1
      <4> DEFINE a == Len(f.disk)
                 b == Len(f.queue)
                 l == Len(q)
      <4>1. a + b = n /\ a \in Nat /\ b \in Nat /\ l = b + 1
        BY <1>2, <3>1, <3>2
      <4> HIDE DEF a, b, l
      <4>2. a + l = n + 1
        BY <4>1
      <4>3. QED
        BY <4>2 DEF a, l
    <3>4. ASSUME NEW i \in 1..Len(q) PROVE q[i] = Len(f.disk) + i
      <4>1. i \in 1..Len(f.queue) \/ i = Len(q)
        BY <1>2, <3>2
      <4>2. QED
        BY <1>2, <3>1, <3>2, <3>3, <4>1
    <3>5. QED
      BY <3>3, <3>4
  <2>3. QED
    BY <1>4, <2>1, <2>2 DEF FileInv
<1>6. g = queued \/ g \in FlushToDisk(queued)
  BY DEF WriteChunk, queued
<1>7. n + 1 \in Nat
  OBVIOUS
<1>8. QED
  BY <1>4, <1>5, <1>6, <1>7, FlushInv

\* The file of the call holds what was captured.
CaptureInv ==
  /\ scenario \in Scenarios
  /\ captured \in Nat /\ captured <= scenario.chunks
  /\ FileInv(file, captured)
  /\ phase = "capture" => file.open
  /\ ~file.open /\ ~file.bad => file.queue = << >>

\* A call starts with an empty file.
LEMMA CaptureInit == Init => CaptureInv
<1> SUFFICES ASSUME Init PROVE CaptureInv
  OBVIOUS
<1>1. file = NewFile /\ captured = 0 /\ scenario \in Scenarios /\ 0 <= scenario.chunks
  BY ScenarioTypes DEF Init
<1>2. FileInv(NewFile, 0)
  BY DEF FileInv, FileType, NewFile
<1>3. QED
  BY <1>1, <1>2 DEF CaptureInv, NewFile

\* Every step keeps the file so.
LEMMA CaptureStep == CaptureInv /\ [Next]_vars => CaptureInv'
<1> SUFFICES ASSUME CaptureInv, [Next]_vars PROVE CaptureInv'
  OBVIOUS
<1>1. captured \in Nat /\ FileInv(file, captured) /\ scenario.chunks \in Nat
  BY ScenarioTypes DEF CaptureInv
<1>2. CASE CaptureChunk
  <2>0. scenario' = scenario /\ captured + 1 <= scenario.chunks
    BY <1>1, <1>2 DEF CaptureChunk
  <2>1. /\ captured' = captured + 1 /\ phase' = phase /\ phase = "capture"
        /\ file' \in WriteChunk(file, captured + 1)
    BY <1>2 DEF CaptureChunk, Written
  <2>2. FileInv(file', captured + 1) /\ file'.open = file.open
    BY <1>1, <2>1, WriteChunkInv
  <2>3. file.open
    BY <2>1 DEF CaptureInv
  <2>4. FileInv(file', captured') /\ captured' \in Nat
    BY <1>1, <2>1, <2>2
  <2>5. FileInv(file', captured') <=> FileInv(file, captured)'
    BY DEF FileInv
  <2>6. QED
    BY <2>0, <2>1, <2>2, <2>3, <2>4, <2>5 DEF CaptureInv
<1>3. CASE StopCapture
  <2>1. PICK g \in FlushToDisk(file) : file' = [g EXCEPT !.open = FALSE]
    BY <1>3 DEF StopCapture, Written, Close
  <2>2. FileInv(g, captured) /\ (~g.bad => g.queue = << >>)
    BY <1>1, FlushInv
  <2>3. captured' = captured /\ phase' = "transcode" /\ scenario' = scenario
    BY <1>3 DEF StopCapture
  <2>4. /\ file' \in FileType /\ file'.disk = g.disk /\ file'.queue = g.queue
        /\ file'.bad = g.bad
    BY <2>1, <2>2 DEF FileInv, FileType
  <2>5. FileInv(file', captured)
    BY <2>2, <2>4 DEF FileInv
  <2>6. FileInv(file, captured)'
    BY <2>3, <2>5 DEF FileInv
  <2>7. QED
    BY <1>1, <2>2, <2>3, <2>4, <2>6 DEF CaptureInv
<1>4. CASE /\ captured' = captured /\ file' = file /\ scenario' = scenario
           /\ phase' = phase \/ phase' # "capture"
  BY <1>1, <1>4 DEF CaptureInv, FileInv
<1>5. CASE SkipOne \/ SkipUnknownCodec \/ MixChunk \/ FlushMixer \/ Drain \/ ReadFails
  BY <1>4, <1>5 DEF SkipOne, SkipUnknownCodec, MixChunk, FlushMixer, Drain, ReadFails
<1>6. CASE UNCHANGED vars
  BY <1>4, <1>6 DEF vars
<1>7. QED
  BY <1>2, <1>3, <1>5, <1>6 DEF Next

\* MediaChunkFile: for every batch size and wherever the stream fails, the file
\* is a beginning of the captured chunks, each once and in order, and all of them
\* once it is closed without a failure.
THEOREM CaptureFileIsPrefix == Spec => []FileIsPrefix
<1>1. CaptureInv => FileIsPrefix
  <2> SUFFICES ASSUME CaptureInv PROVE FileIsPrefix
    OBVIOUS
  <2>1. file.disk \in Seq(Nat) /\ file.queue \in Seq(Nat)
    BY DEF CaptureInv, FileInv, FileType
  <2>2. ~file.bad /\ ~file.open => Len(file.disk) = captured
    <3> SUFFICES ASSUME ~file.bad, ~file.open PROVE Len(file.disk) = captured
      OBVIOUS
    <3>1. Len(file.disk) + Len(file.queue) = captured /\ file.queue = << >>
      BY DEF CaptureInv, FileInv
    <3>2. Len(file.disk) \in Nat /\ Len(file.queue) = 0
      BY <2>1, <3>1
    <3>3. QED
      BY <3>1, <3>2
  <2>3. QED
    BY <2>2 DEF CaptureInv, FileInv, FileIsPrefix
<1>2. QED
  BY <1>1, CaptureInit, CaptureStep, PTL DEF Spec
-----------------------------------------------------------------------------
(* What the mixer holds is shipped *)

\* Something is to be shipped or was lost, and no shipment is empty.
Sounds(m) == m.outputQueue # << >> \/ UsedSpace(m) > 0 \/ m.lost # 0
NoneEmpty(m) == \A i \in 1..Len(m.outputQueue) : m.outputQueue[i] # << >>

\* An operation that makes m2 of m opens no channel, is no error and leaves
\* something to be heard if there was.
Leaves(m2, m) ==
  /\ m2.numInputChannels = m.numInputChannels /\ m2.error = m.error
  /\ NoneEmpty(m) => NoneEmpty(m2)
Keeps(m2, m) == Leaves(m2, m) /\ (Sounds(m) => Sounds(m2))

\* A part that is shipped waits in the output.
LEMMA ShipPartKeeps ==
  ASSUME NEW m, MixerInv(m), NEW stereo, NEW n \in 0..UsedSpace(m),
         m.readPtr + n <= Capacity
  PROVE  Keeps(ShipPart(m, stereo, n), m) /\ ShipPart(m, stereo, n).writeTs = m.writeTs
<1> DEFINE m2 == ShipPart(m, stereo, n)
           r2 == CircularPointerAddOffset(m.readPtr, n)
           chunk == [i \in 1..n |-> MixedOutput(m, stereo, m.readPtr + i - 1)]
           q == Append(m.outputQueue, chunk)
           queue == IF n = 0 THEN m.outputQueue ELSE q
<1>1. UsedSpace(m2) = UsedSpace(m) - n
  BY ShipPartInv
<1>2. m \in MixerType /\ UsedSpace(m) \in Nat /\ n \in Nat
      /\ m.outputQueue \in Shipments
  BY UsedSpaceBound, MixerBounds DEF MixerInv, MixerType
<1>3. m2 = [m EXCEPT !.outputQueue = queue, !.readPtr = r2, !.readTs = m.readTs + n]
  BY DEF ShipPart
<1>4. n # 0 => chunk # << >>
  <2>1. n # 0 => 1 \in DOMAIN chunk
    BY <1>2
  <2> HIDE DEF chunk
  <2>2. QED
    BY <2>1
<1> HIDE DEF m2, r2, queue, chunk
<1>5. /\ m2.numInputChannels = m.numInputChannels /\ m2.error = m.error
      /\ m2.outputQueue = queue /\ m2.lost = m.lost /\ m2.writeTs = m.writeTs
  BY <1>2, <1>3 DEF MixerType
<1>6. CASE n = 0
  <2>1. m2.outputQueue = m.outputQueue /\ UsedSpace(m2) = UsedSpace(m)
    BY <1>1, <1>2, <1>5, <1>6 DEF queue
  <2>2. QED
    BY <1>5, <2>1 DEF Keeps, Leaves, Sounds, NoneEmpty, m2
<1>7. CASE n # 0
  <2>1. m2.outputQueue = q
    BY <1>5, <1>7 DEF queue
  <2>2. /\ Len(q) = Len(m.outputQueue) + 1 /\ Len(m.outputQueue) \in Nat
        /\ q[Len(q)] = chunk /\ \A i \in 1..Len(m.outputQueue) : q[i] = m.outputQueue[i]
    BY <1>2 DEF Shipments
  <2>3. q # << >>
    BY <2>2
  <2> HIDE DEF q
  <2>4. NoneEmpty(m) => NoneEmpty(m2)
    <3> SUFFICES ASSUME NoneEmpty(m), NEW i \in 1..Len(q) PROVE q[i] # << >>
      BY <2>1 DEF NoneEmpty
    <3>1. i = Len(q) \/ i \in 1..Len(m.outputQueue)
      BY <2>2
    <3>2. QED
      BY <1>4, <1>7, <2>2, <3>1 DEF NoneEmpty
  <2>5. QED
    BY <1>5, <2>1, <2>3, <2>4 DEF Keeps, Leaves, Sounds, m2
<1>8. QED
  BY <1>6, <1>7

\* So do both parts.
LEMMA CreateShipmentKeeps ==
  ASSUME NEW m, MixerInv(m), NEW stereo, NEW force \in BOOLEAN,
         force \/ HoldOff <= UsedSpace(m)
  PROVE  /\ Keeps(CreateShipment(m, stereo, force), m)
         /\ CreateShipment(m, stereo, force).writeTs = m.writeTs
<1> DEFINE u == UsedSpace(m)
           stop == IF force THEN m.writePtr
                   ELSE CircularPointerSubtractOffset(m.writePtr, HoldOff)
<1>1. m \in MixerType /\ m.writePtr \in Positions /\ m.readPtr \in Positions
  BY DEF MixerInv, MixerType
<1>2. u \in 0..(Capacity - 1)
  BY <1>1, UsedSpaceBound
<1>3. u = IF m.writePtr >= m.readPtr THEN m.writePtr - m.readPtr
          ELSE Capacity + m.writePtr - m.readPtr
  BY DEF UsedSpace
<1>4. stop \in Positions
  BY <1>1, MixerBounds DEF Positions, CircularPointerSubtractOffset
<1>5. CASE stop < m.readPtr
  <2> DEFINE n == Capacity - m.readPtr
             m1 == ShipPart(m, stereo, n)
  <2>1. n \in 0..u /\ m.readPtr + n <= Capacity
    BY <1>1, <1>2, <1>3, <1>5, MixerBounds DEF Positions, CircularPointerSubtractOffset
  <2>2. /\ MixerInv(m1) /\ UsedSpace(m1) = u - n
        /\ m1.readPtr = CircularPointerAddOffset(m.readPtr, n)
    BY <2>1, ShipPartInv
  <2>3. m1.readPtr = 0
    BY <1>1, <2>2, MixerBounds DEF Positions, CircularPointerAddOffset
  <2>4. stop \in 0..(u - n)
    BY <1>1, <1>2, <1>3, <1>4, <1>5, <2>1, MixerBounds
    DEF Positions, CircularPointerSubtractOffset
  <2>5. 0 + stop <= Capacity
    BY <1>4, MixerBounds DEF Positions
  <2>6. CreateShipment(m, stereo, force) = ShipPart(m1, stereo, stop)
    BY <1>5 DEF CreateShipment
  <2>7. Keeps(m1, m) /\ m1.writeTs = m.writeTs
    BY <2>1, ShipPartKeeps
  <2> HIDE DEF m1, stop, u, n
  <2>8. Keeps(ShipPart(m1, stereo, stop), m1)
        /\ ShipPart(m1, stereo, stop).writeTs = m1.writeTs
    BY <2>2, <2>3, <2>4, <2>5, ShipPartKeeps
  <2>9. QED
    BY <2>6, <2>7, <2>8 DEF Keeps, Leaves
<1>6. CASE ~(stop < m.readPtr)
  <2> DEFINE n == stop - m.readPtr
  <2>1. n \in 0..u /\ m.readPtr + n <= Capacity
    BY <1>1, <1>2, <1>3, <1>4, <1>6, MixerBounds
    DEF Positions, CircularPointerSubtractOffset
  <2>2. CreateShipment(m, stereo, force) = ShipPart(m, stereo, n)
    BY <1>6 DEF CreateShipment
  <2> HIDE DEF stop, n
  <2>3. QED
    BY <2>1, <2>2, ShipPartKeeps
<1>7. QED
  BY <1>5, <1>6

\* Silence is to be shipped, unless it fills the buffer.
LEMMA WriteSilenceSounds ==
  ASSUME NEW m, MixerInv(m), NEW n \in 1..(Capacity - 1), m.writeTs + n < TsModulus
  PROVE  Leaves(WriteSilence(m, n), m) /\ Sounds(WriteSilence(m, n))
<1> DEFINE m2 == WriteSilence(m, n)
           zeroed == Places(m.writePtr, n)
           b == [p \in Positions |-> IF p \in zeroed THEN {} ELSE m.buffer[p]]
           cb == [ch \in Channels |-> [p \in Positions |->
                    IF p \in zeroed /\ ch <= m.numInputChannels THEN {}
                    ELSE m.channelBuffer[ch][p]]]
           w2 == CircularPointerAddOffset(m.writePtr, n)
           l2 == IF UsedSpace(m) + n >= Capacity THEN m.lost + Capacity ELSE m.lost
<1>1. m \in MixerType /\ m.writePtr \in Positions /\ m.readPtr \in Positions
      /\ m.lost \in Nat /\ UsedSpace(m) \in Nat
  BY UsedSpaceBound, MixerBounds DEF MixerInv, MixerType
<1>2. m2 = [m EXCEPT !.buffer = b, !.channelBuffer = cb, !.writePtr = w2,
                     !.writeTs = m.writeTs + n, !.lost = l2]
  BY DEF WriteSilence
<1> HIDE DEF m2, b, cb, w2, l2
<1>3. /\ m2.writePtr = w2 /\ m2.readPtr = m.readPtr /\ m2.lost = l2
      /\ m2.numInputChannels = m.numInputChannels /\ m2.error = m.error
      /\ m2.outputQueue = m.outputQueue
  BY <1>1, <1>2 DEF MixerType
<1>4. CASE UsedSpace(m) + n >= Capacity
  <2>1. l2 # 0
    BY <1>1, <1>4, MixerBounds DEF l2
  <2>2. QED
    BY <1>3, <2>1 DEF Leaves, NoneEmpty, Sounds, m2
<1>5. CASE ~(UsedSpace(m) + n >= Capacity)
  <2>1. n \in 0..(Capacity - 1)
    BY MixerBounds
  <2>2. (IF w2 >= m.readPtr THEN w2 - m.readPtr ELSE Capacity + w2 - m.readPtr)
          = IF UsedSpace(m) + n >= Capacity THEN UsedSpace(m) + n - Capacity
            ELSE UsedSpace(m) + n
    BY <1>1, <2>1, WritePointerMoves DEF UsedSpace, w2
  <2>3. UsedSpace(m2) = UsedSpace(m) + n
    BY <1>3, <1>5, <2>2 DEF UsedSpace
  <2>4. UsedSpace(m2) > 0
    BY <1>1, <2>3
  <2>5. QED
    BY <1>3, <2>4 DEF Leaves, NoneEmpty, Sounds, m2
<1>6. QED
  BY <1>4, <1>5

\* Mixing samples in touches nothing else.
LEMMA MixSamplesKeeps ==
  ASSUME NEW m, MixerInv(m), NEW c, NEW ts
  PROVE  Keeps(MixSamples(m, c, ts), m) /\ MixSamples(m, c, ts).writeTs = m.writeTs
<1>1. m \in MixerType
  BY DEF MixerInv
<1>2. ASSUME NEW b, NEW cb, NEW m2, m2 = [m EXCEPT !.buffer = b, !.channelBuffer = cb]
      PROVE  Keeps(m2, m) /\ m2.writeTs = m.writeTs
  <2>1. /\ m2.writePtr = m.writePtr /\ m2.readPtr = m.readPtr /\ m2.lost = m.lost
        /\ m2.numInputChannels = m.numInputChannels /\ m2.error = m.error
        /\ m2.outputQueue = m.outputQueue /\ m2.writeTs = m.writeTs
    BY <1>1, <1>2 DEF MixerType
  <2>2. QED
    BY <2>1 DEF Keeps, Leaves, NoneEmpty, Sounds, UsedSpace
<1> DEFINE start == FirstPlace(m, c, ts)
           target == Places(start, c.n)
           at(p) == {<<c.id, k>> : k \in {k \in 1..c.n : CircularPointerAddOffset(start, k - 1) = p}}
           b == [p \in Positions |-> m.buffer[p] \cup at(p)]
           cb == [ch \in Channels |-> [p \in Positions |->
                    IF ch = c.ch /\ m.numInputChannels # 0 /\ p \in target
                    THEN at(p) ELSE m.channelBuffer[ch][p]]]
           m2 == MixSamples(m, c, ts)
<1>3. m2 = [m EXCEPT !.buffer = b, !.channelBuffer = cb]
  BY DEF MixSamples
<1> HIDE DEF b, cb, m2
<1>4. QED
  BY <1>2, <1>3 DEF m2

\* A stored packet is to be shipped when it ends after the newest one.
LEMMA StoreKeeps ==
  ASSUME NEW m, MixerInv(m), NEW c \in PacketType, NEW ts \in Timestamps,
         NEW m2, m2 = StoreRtpPacket(m, c, ts)
  PROVE  /\ Keeps(m2, m) /\ m2.writeTs >= m.writeTs
         /\ ts + c.n < TsModulus /\ m.writeTs < ts + c.n /\ ts + c.n - m.writeTs < Capacity
              => Sounds(m2) /\ m2.writeTs # 0
<1> DEFINE end == ts + c.n
           silence == end - m.writeTs
           zeroed == IF silence > 0 THEN WriteSilence(m, silence) ELSE m
           behind == zeroed.writeTs - ts
<1>1. m.writeTs \in Timestamps /\ m.writeTs \in Nat /\ c.n \in Nat /\ end \in Nat
      /\ silence \in Int
  BY MixerBounds DEF MixerInv, PacketType, Timestamps
<1>2. CASE end >= TsModulus \/ silence >= Capacity
  <2>1. m2 = m
    BY <1>2 DEF StoreRtpPacket
  <2>2. Keeps(m, m)
    BY DEF Keeps, Leaves
  <2>3. m.writeTs >= m.writeTs /\ ~(end < TsModulus /\ silence < Capacity)
    BY <1>1, <1>2, MixerBounds
  <2>4. Keeps(m2, m) /\ m2.writeTs >= m.writeTs
    BY <1>1, <2>1, <2>2
  <2>5. ~(ts + c.n < TsModulus /\ m.writeTs < ts + c.n /\ ts + c.n - m.writeTs < Capacity)
    <3>1. ts \in Int
      BY MixerBounds DEF Timestamps
    <3>2. QED
      BY <1>1, <2>3, <3>1
  <2>6. QED
    BY <2>4, <2>5
<1>3. CASE ~(end >= TsModulus \/ silence >= Capacity)
  <2>1. /\ MixerInv(zeroed) /\ Keeps(zeroed, m) /\ zeroed.writeTs >= m.writeTs
        /\ m.writeTs < end => Sounds(zeroed) /\ zeroed.writeTs # 0
    <3>1. CASE silence > 0
      <4>1. silence \in 1..(Capacity - 1) /\ m.writeTs + silence < TsModulus
        BY <1>1, <1>3, <3>1, MixerBounds DEF Timestamps
      <4>2. /\ MixerInv(WriteSilence(m, silence))
            /\ WriteSilence(m, silence).writeTs = m.writeTs + silence
        BY <4>1, WriteSilenceInv
      <4>3. Leaves(WriteSilence(m, silence), m) /\ Sounds(WriteSilence(m, silence))
        BY <4>1, WriteSilenceSounds
      <4>4. zeroed = WriteSilence(m, silence)
        BY <3>1
      <4> HIDE DEF zeroed, silence
      <4>5. zeroed.writeTs >= m.writeTs /\ zeroed.writeTs # 0
        BY <1>1, <4>1, <4>2, <4>4, MixerBounds
      <4>6. QED
        BY <4>2, <4>3, <4>4, <4>5 DEF Keeps
    <3>2. CASE ~(silence > 0)
      <4>1. zeroed = m /\ ~(m.writeTs < end) /\ m.writeTs >= m.writeTs
        BY <1>1, <3>2
      <4> HIDE DEF zeroed
      <4>2. QED
        BY <4>1 DEF Keeps, Leaves
    <3>3. QED
      BY <3>1, <3>2
  <2>2. m2 = IF behind < 0 \/ behind >= Capacity THEN zeroed ELSE MixSamples(zeroed, c, ts)
    BY <1>3 DEF StoreRtpPacket
  <2> HIDE DEF zeroed
  <2>3. Keeps(MixSamples(zeroed, c, ts), zeroed)
        /\ MixSamples(zeroed, c, ts).writeTs = zeroed.writeTs
    BY <2>1, MixSamplesKeeps
  <2> HIDE DEF behind
  <2>4. Keeps(m2, zeroed) /\ m2.writeTs = zeroed.writeTs
    BY <2>2, <2>3 DEF Keeps, Leaves
  <2>5. Keeps(m2, m)
    BY <2>1, <2>4 DEF Keeps, Leaves
  <2>6. m.writeTs < end => Sounds(m2) /\ m2.writeTs # 0
    BY <2>1, <2>4 DEF Keeps
  <2>7. QED
    BY <2>1, <2>4, <2>5, <2>6
<1>4. QED
  BY <1>2, <1>3

\* A packet that is neither empty, nor longer than the buffer, nor wraps.
Clean(c) == c.n \in 1..(Capacity - 1) /\ c.ts + c.n < TsModulus

\* A new window begins with the packet that opens it.
LEMMA OutOfRangeSounds ==
  ASSUME NEW m, MixerInv(m), NEW stereo, NEW c \in PacketType,
         NEW m2, m2 = ManageOutOfRangeTimestamp(m, stereo, c)
  PROVE  /\ Leaves(m2, m)
         /\ (c.ch = 1 => Clean(c))
              => (Sounds(m) => Sounds(m2)) /\ (m.writeTs # 0 => m2.writeTs # 0)
<1>1. m \in MixerType /\ c.ts \in Timestamps /\ c.ch \in Channels
  BY DEF MixerInv, PacketType
<1>2. ASSUME NEW a, a \in MixerType, NEW d, NEW a2, a2 = [a EXCEPT !.delta = d]
      PROVE  /\ Keeps(a2, a) /\ a2.writeTs = a.writeTs
  <2>1. /\ a2.writePtr = a.writePtr /\ a2.readPtr = a.readPtr /\ a2.lost = a.lost
        /\ a2.numInputChannels = a.numInputChannels /\ a2.error = a.error
        /\ a2.outputQueue = a.outputQueue /\ a2.writeTs = a.writeTs
    BY <1>2 DEF MixerType
  <2>2. QED
    BY <2>1 DEF Keeps, Leaves, NoneEmpty, Sounds, UsedSpace
<1>3. CASE c.ch = 1
  <2> DEFINE shipped == CreateShipment(m, stereo, TRUE)
             reset == Reset(shipped, c.ts)
             stored == StoreRtpPacket(reset, c, c.ts)
             d == [stored.delta EXCEPT ![2] = 0]
  <2>1. m2 = [stored EXCEPT !.delta = d]
    BY <1>3 DEF ManageOutOfRangeTimestamp
  <2>2. MixerInv(shipped) /\ Leaves(shipped, m)
    BY CreateShipmentInv, CreateShipmentKeeps DEF Keeps
  <2> HIDE DEF shipped
  <2>3. MixerInv(reset) /\ shipped \in MixerType
    BY <1>1, <2>2, ResetInv DEF MixerInv
  <2>4. /\ reset.numInputChannels = shipped.numInputChannels /\ reset.error = shipped.error
        /\ reset.outputQueue = shipped.outputQueue /\ reset.writeTs = c.ts
    BY <2>3 DEF Reset, MixerType
  <2> HIDE DEF reset
  <2>5. Leaves(reset, m)
    BY <2>2, <2>4 DEF Leaves, NoneEmpty
  <2>6. MixerInv(stored)
    BY <1>1, <2>3, StoreInv
  <2>7. Keeps(stored, reset)
    BY <1>1, <2>3, StoreKeeps
  <2>8. Clean(c) => Sounds(stored) /\ stored.writeTs # 0
    <3> SUFFICES ASSUME Clean(c) PROVE Sounds(stored) /\ stored.writeTs # 0
      OBVIOUS
    <3>1. c.n \in 1..(Capacity - 1) /\ c.ts \in Nat /\ c.ts + c.n < TsModulus
      BY <1>1, MixerBounds DEF Clean, Timestamps
    <3>2. reset.writeTs < c.ts + c.n /\ c.ts + c.n - reset.writeTs < Capacity
      BY <2>4, <3>1, MixerBounds
    <3>3. QED
      BY <1>1, <2>3, <3>1, <3>2, StoreKeeps
  <2> HIDE DEF stored, d
  <2>9. Keeps(m2, stored) /\ m2.writeTs = stored.writeTs
    BY <1>2, <2>1, <2>6 DEF MixerInv
  <2>10. QED
    BY <1>3, <2>5, <2>7, <2>8, <2>9 DEF Keeps, Leaves
<1>4. CASE c.ch # 1
  <2> DEFINE d == [m.delta EXCEPT ![c.ch] = c.ts - m.writeTs]
  <2>1. m2 = m \/ m2 = [m EXCEPT !.delta = d]
    BY <1>4 DEF ManageOutOfRangeTimestamp
  <2> HIDE DEF d
  <2>2. Keeps(m, m)
    BY DEF Keeps, Leaves
  <2>3. Keeps(m2, m) /\ m2.writeTs = m.writeTs
    BY <1>1, <1>2, <2>1, <2>2
  <2>4. QED
    BY <2>3 DEF Keeps
<1>5. QED
  BY <1>3, <1>4

\* The first packet of side 1 is to be shipped, and nothing before it.
LEMMA PlacePacketSounds ==
  ASSUME NEW m, MixerInv(m), NEW stereo, NEW c \in PacketType, NEW ts \in Timestamps,
         c.ch = 1 => ts = c.ts, NEW m2, m2 = PlacePacket(m, stereo, c, ts)
  PROVE  /\ Leaves(m2, m)
         /\ (c.ch = 1 => Clean(c)) => /\ Sounds(m) => Sounds(m2)
                                      /\ m.writeTs # 0 \/ c.ch = 1 => m2.writeTs # 0
                                      /\ m.writeTs = 0 /\ c.ch = 1 => Sounds(m2)
                                      /\ m.writeTs = 0 /\ c.ch # 1 => m2.writeTs = 0
<1> DEFINE first == [m EXCEPT !.writeTs = ts, !.readTs = ts, !.oneS1Packet = TRUE]
           stored == StoreRtpPacket(m, c, ts)
<1>1. m \in MixerType /\ m.writeTs \in Nat /\ ts \in Nat
  BY MixerBounds DEF MixerInv, Timestamps
<1>2. Keeps(m, m)
  BY DEF Keeps, Leaves
<1>3. CASE m.writeTs = 0 /\ c.ch # 1
  <2>1. m2 = m
    BY <1>3 DEF PlacePacket
  <2>2. QED
    BY <1>2, <1>3, <2>1 DEF Keeps
<1>4. CASE m.writeTs = 0 /\ c.ch = 1
  <2>1. m2 = StoreRtpPacket(first, c, ts) /\ ts = c.ts
    BY <1>4 DEF PlacePacket
  <2>2. MixerInv(first)
    BY <1>4, OpenWindowInv
  <2>3. /\ first.writeTs = ts /\ first.numInputChannels = m.numInputChannels
        /\ first.error = m.error /\ first.outputQueue = m.outputQueue
    BY <1>1 DEF MixerType
  <2> HIDE DEF first
  <2>4. Keeps(m2, first)
    BY <2>1, <2>2, StoreKeeps
  <2>5. Leaves(m2, m)
    BY <2>3, <2>4 DEF Keeps, Leaves, NoneEmpty
  <2>6. Clean(c) => Sounds(m2) /\ m2.writeTs # 0
    <3> SUFFICES ASSUME Clean(c) PROVE Sounds(m2) /\ m2.writeTs # 0
      OBVIOUS
    <3>1. c.n \in 1..(Capacity - 1) /\ ts + c.n < TsModulus
      BY <2>1 DEF Clean
    <3>2. first.writeTs < ts + c.n /\ ts + c.n - first.writeTs < Capacity
      BY <1>1, <2>3, <3>1, MixerBounds
    <3>3. QED
      BY <2>1, <2>2, <3>1, <3>2, StoreKeeps
  <2>7. QED
    BY <1>4, <2>5, <2>6
<1>5. CASE m.writeTs # 0
  <2>1. MixerInv(stored) /\ Keeps(stored, m) /\ stored.writeTs >= m.writeTs
    BY StoreInv, StoreKeeps
  <2>2. stored.writeTs # 0 /\ UsedSpace(stored) \in Int
    <3> HIDE DEF stored
    <3>1. stored.writeTs \in Nat
      BY <2>1, MixerBounds DEF MixerInv, Timestamps
    <3>2. UsedSpace(stored) \in Int
      BY <2>1, UsedSpaceBound, MixerBounds DEF MixerInv
    <3>3. QED
      BY <1>1, <1>5, <2>1, <3>1, <3>2
  <2>3. m2 = IF ts >= m.readTs /\ Fits(m, ts, c.n)
             THEN IF UsedSpace(stored) > Trigger THEN CreateShipment(stored, stereo, FALSE)
                  ELSE stored
             ELSE ManageOutOfRangeTimestamp(m, stereo, c)
    BY <1>5 DEF PlacePacket
  <2> HIDE DEF stored
  <2>4. CASE m2 = CreateShipment(stored, stereo, FALSE) /\ UsedSpace(stored) > Trigger
    <3>1. HoldOff <= UsedSpace(stored)
      BY <2>2, <2>4, MixerBounds
    <3>2. Keeps(m2, stored) /\ m2.writeTs = stored.writeTs
      BY <2>1, <2>4, <3>1, CreateShipmentKeeps
    <3>3. QED
      BY <1>5, <2>1, <2>2, <3>2 DEF Keeps, Leaves
  <2>5. CASE m2 = stored
    BY <1>5, <2>1, <2>2, <2>5 DEF Keeps
  <2>6. CASE m2 = ManageOutOfRangeTimestamp(m, stereo, c)
    BY <1>5, <2>6, OutOfRangeSounds
  <2>7. QED
    BY <2>3, <2>4, <2>5, <2>6
<1>6. QED
  BY <1>3, <1>4, <1>5

-----------------------------------------------------------------------------
(* Samples wait at the place of their timestamp *)

\* How far place p lies behind the write pointer, and what the buffers have there.
Back(m, p) == IF p < m.writePtr THEN m.writePtr - p ELSE Capacity + m.writePtr - p
Held(m, p) == m.buffer[p] \cup UNION {m.channelBuffer[ch][p] : ch \in Channels}

\* Sample s is of one of the packets pk, and t is its time if that is of side 1.
OnTime(pk, s, t) ==
  /\ s[1] \in 1..Len(pk)
  /\ pk[s[1]].ch = 1 => pk[s[1]].ts + s[2] - 1 = t

\* The samples at the places in use, and nothing at those of channels to come.
Aligned(m, pk) ==
  \A p \in Positions :
    Back(m, p) <= UsedSpace(m) => \A s \in Held(m, p) : OnTime(pk, s, m.writeTs - Back(m, p))
Unopened(m) ==
  \A ch \in Channels : ch > m.numInputChannels
    => \A p \in Positions : m.channelBuffer[ch][p] = {}
MixInv(m, pk) == MixerInv(m) /\ Aligned(m, pk) /\ Unopened(m)

\* Packet c, which is mixed at timestamp ts, is one of pk, and its channel is open.
Carries(pk, c, ts) == c.id \in 1..Len(pk) /\ (pk[c.id].ch = 1 => pk[c.id].ts = ts)
Opened(m, c) == m.numInputChannels # 0 => c.ch <= m.numInputChannels

\* m2 has the samples of m at the same places, of which it may use fewer.
SameSamples(m2, m) ==
  /\ m2.buffer = m.buffer /\ m2.channelBuffer = m.channelBuffer
  /\ m2.writePtr = m.writePtr /\ m2.writeTs = m.writeTs
  /\ UsedSpace(m2) <= UsedSpace(m)
  /\ m2.numInputChannels >= m.numInputChannels

\* What only ships or prepares leaves the samples on time.
LEMMA SameSamplesAligned ==
  ASSUME NEW m, NEW m2, NEW pk, MixInv(m, pk), MixerInv(m2), SameSamples(m2, m)
  PROVE  MixInv(m2, pk)
<1>1. \A p \in Positions : Back(m2, p) = Back(m, p) /\ Held(m2, p) = Held(m, p)
  BY DEF SameSamples, Back, Held
<1>2. UsedSpace(m2) \in Int /\ UsedSpace(m) \in Int
  BY UsedSpaceBound, MixerBounds DEF MixInv, MixerInv
<1>3. Aligned(m2, pk)
  <2> SUFFICES ASSUME NEW p \in Positions, Back(m2, p) <= UsedSpace(m2), NEW s \in Held(m2, p)
               PROVE  OnTime(pk, s, m2.writeTs - Back(m2, p))
    BY DEF Aligned
  <2>1. m.writePtr \in Positions
    BY DEF MixInv, MixerInv, MixerType
  <2>2. Back(m, p) \in Int
    BY <2>1, MixerBounds DEF Back, Positions
  <2>3. Back(m, p) <= UsedSpace(m)
    BY <1>1, <1>2, <2>2 DEF SameSamples
  <2>4. OnTime(pk, s, m.writeTs - Back(m, p))
    BY <1>1, <2>3 DEF MixInv, Aligned
  <2>5. QED
    BY <1>1, <2>4 DEF SameSamples
<1>4. Unopened(m2)
  <2>1. m.numInputChannels \in Nat /\ m2.numInputChannels \in Nat
    BY DEF MixInv, MixerInv, MixerType
  <2>2. \A ch \in Channels : ch > m2.numInputChannels => ch > m.numInputChannels
    BY <2>1, MixerBounds DEF SameSamples, Channels
  <2>3. QED
    BY <2>2 DEF MixInv, Unopened, SameSamples
<1>5. QED
  BY <1>3, <1>4 DEF MixInv

\* Another packet does not disturb those that are there.
LEMMA PacketJoins ==
  ASSUME NEW S, NEW pk \in Seq(S), NEW x \in S, NEW m, MixInv(m, pk)
  PROVE  MixInv(m, Append(pk, x))
<1>1. /\ Len(pk) \in Nat /\ Len(Append(pk, x)) = Len(pk) + 1
      /\ \A i \in 1..Len(pk) : Append(pk, x)[i] = pk[i]
  OBVIOUS
<1>2. ASSUME NEW s, NEW t, OnTime(pk, s, t) PROVE OnTime(Append(pk, x), s, t)
  <2> DEFINE pk2 == Append(pk, x)
             l == Len(pk)
             k == s[1]
  <2>1. k \in 1..l /\ l \in Nat /\ Len(pk2) = l + 1 /\ pk2[k] = pk[k]
    BY <1>1, <1>2 DEF OnTime
  <2> HIDE DEF pk2, l, k
  <2>2. k \in 1..Len(pk2)
    BY <2>1
  <2>3. pk2[k].ch = 1 => pk2[k].ts + s[2] - 1 = t
    BY <1>2, <2>1 DEF OnTime, k
  <2>4. QED
    BY <2>2, <2>3 DEF OnTime, pk2, k
<1>3. QED
  BY <1>2 DEF MixInv, Aligned

\* A place that silence does not reach falls back by as much.
LEMMA PlacesFallBack ==
  ASSUME NEW w \in Positions, NEW p \in Positions, NEW n \in 1..(Capacity - 1),
         p \notin Places(w, n),
         NEW b, b = IF p < w THEN w - p ELSE Capacity + w - p,
         NEW w2, w2 = CircularPointerAddOffset(w, n)
  PROVE  (IF p < w2 THEN w2 - p ELSE Capacity + w2 - p) = b + n
<1> DEFINE i == Capacity - b
<1>1. b \in 1..Capacity /\ i \in Int
  BY MixerBounds DEF Positions
<1>2. CircularPointerAddOffset(w, i) = p
  BY <1>1, MixerBounds DEF Positions, CircularPointerAddOffset
<1>3. i \notin 0..(n - 1)
  <2> HIDE DEF i
  <2>1. QED
    BY <1>2 DEF Places
<1>4. b + n <= Capacity
  BY <1>1, <1>3, MixerBounds
<1>5. QED
  BY <1>1, <1>4, MixerBounds DEF Positions, CircularPointerAddOffset

\* Silence leaves the samples it does not wipe out on time.
LEMMA WriteSilenceAligned ==
  ASSUME NEW m, NEW pk, MixInv(m, pk), NEW n \in 1..(Capacity - 1), m.writeTs + n < TsModulus
  PROVE  /\ MixInv(WriteSilence(m, n), pk)
         /\ WriteSilence(m, n).writeTs = m.writeTs + n
         /\ WriteSilence(m, n).numInputChannels = m.numInputChannels
<1> DEFINE m2 == WriteSilence(m, n)
           zeroed == Places(m.writePtr, n)
           b == [p \in Positions |-> IF p \in zeroed THEN {} ELSE m.buffer[p]]
           cb == [ch \in Channels |-> [p \in Positions |->
                    IF p \in zeroed /\ ch <= m.numInputChannels THEN {}
                    ELSE m.channelBuffer[ch][p]]]
           w2 == CircularPointerAddOffset(m.writePtr, n)
           l2 == IF UsedSpace(m) + n >= Capacity THEN m.lost + Capacity ELSE m.lost
<1>1. MixerInv(m2) /\ m2.writeTs = m.writeTs + n
  BY WriteSilenceInv DEF MixInv
<1>2. m \in MixerType /\ m.writePtr \in Positions /\ m.readPtr \in Positions
      /\ m.numInputChannels \in Nat /\ m.writeTs \in Int
  BY DEF MixInv, MixerInv, MixerType
<1>3. m2 = [m EXCEPT !.buffer = b, !.channelBuffer = cb, !.writePtr = w2,
                     !.writeTs = m.writeTs + n, !.lost = l2]
  BY DEF WriteSilence
<1> HIDE DEF m2, b, cb, w2, l2
<1>4. /\ m2.buffer = b /\ m2.channelBuffer = cb /\ m2.writePtr = w2
      /\ m2.readPtr = m.readPtr /\ m2.numInputChannels = m.numInputChannels
  BY <1>2, <1>3 DEF MixerType
<1>5. \A ch \in Channels, p \in Positions :
        cb[ch][p] = IF p \in zeroed /\ ch <= m.numInputChannels THEN {} ELSE m.channelBuffer[ch][p]
  BY DEF cb
<1>6. ASSUME NEW p \in Positions, p \in zeroed PROVE Held(m2, p) = {}
  <2>1. b[p] = {}
    BY <1>6 DEF b
  <2>2. ASSUME NEW ch \in Channels PROVE cb[ch][p] = {}
    <3>1. CASE ch <= m.numInputChannels
      BY <1>5, <1>6, <3>1
    <3>2. CASE ~(ch <= m.numInputChannels)
      <4>1. ch > m.numInputChannels
        BY <1>2, <3>2, MixerBounds DEF Channels
      <4>2. QED
        BY <1>5, <3>2, <4>1 DEF MixInv, Unopened
    <3>3. QED
      BY <3>1, <3>2
  <2>3. QED
    BY <1>4, <2>1, <2>2 DEF Held
<1>7. ASSUME NEW p \in Positions, p \notin zeroed PROVE Held(m2, p) = Held(m, p)
  <2>1. b[p] = m.buffer[p]
    BY <1>7 DEF b
  <2>2. \A ch \in Channels : cb[ch][p] = m.channelBuffer[ch][p]
    BY <1>5, <1>7
  <2>3. QED
    BY <1>4, <2>1, <2>2 DEF Held
<1>8. Aligned(m2, pk)
  <2> SUFFICES ASSUME NEW p \in Positions, Back(m2, p) <= UsedSpace(m2), NEW s \in Held(m2, p)
               PROVE  OnTime(pk, s, m2.writeTs - Back(m2, p))
    BY DEF Aligned
  <2>1. p \notin zeroed
    BY <1>6
  <2>2. Back(m2, p) = Back(m, p) + n
    <3>1. (IF p < w2 THEN w2 - p ELSE Capacity + w2 - p)
            = (IF p < m.writePtr THEN m.writePtr - p ELSE Capacity + m.writePtr - p) + n
      BY <1>2, <2>1, PlacesFallBack DEF w2
    <3>2. QED
      BY <1>4, <3>1 DEF Back
  <2>3. /\ UsedSpace(m2) = IF UsedSpace(m) + n >= Capacity THEN UsedSpace(m) + n - Capacity
                           ELSE UsedSpace(m) + n
    <3>1. n \in 0..(Capacity - 1)
      BY MixerBounds
    <3>2. (IF w2 >= m.readPtr THEN w2 - m.readPtr ELSE Capacity + w2 - m.readPtr)
            = IF UsedSpace(m) + n >= Capacity THEN UsedSpace(m) + n - Capacity
              ELSE UsedSpace(m) + n
      BY <1>2, <3>1, WritePointerMoves DEF UsedSpace, w2
    <3>3. QED
      BY <1>4, <3>2 DEF UsedSpace
  <2>4. UsedSpace(m) \in Int /\ Back(m, p) \in Int
    BY <1>2, UsedSpaceBound, MixerBounds DEF Back, Positions
  <2>5. Back(m, p) <= UsedSpace(m)
    <3> DEFINE u == UsedSpace(m)
               u2 == UsedSpace(m2)
               k == Back(m, p)
               k2 == Back(m2, p)
    <3>1. /\ u \in Int /\ k \in Int /\ k2 = k + n /\ k2 <= u2
          /\ u2 = IF u + n >= Capacity THEN u + n - Capacity ELSE u + n
      BY <2>2, <2>3, <2>4
    <3> HIDE DEF u, u2, k, k2
    <3>2. k <= u
      BY <3>1, MixerBounds
    <3>3. QED
      BY <3>2 DEF k, u
  <2>6. OnTime(pk, s, m.writeTs - Back(m, p))
    BY <1>7, <2>1, <2>5 DEF MixInv, Aligned
  <2>7. m2.writeTs - Back(m2, p) = m.writeTs - Back(m, p)
    BY <1>1, <1>2, <2>2, <2>4
  <2>8. QED
    BY <2>6, <2>7
<1>9. Unopened(m2)
  BY <1>2, <1>4, <1>5 DEF MixInv, Unopened
<1>10. QED
  BY <1>1, <1>4, <1>8, <1>9 DEF MixInv, m2

\* The place of the k-th sample of a packet that starts d places back.
LEMMA SamplePlaces ==
  ASSUME NEW w \in Positions, NEW d \in 0..(Capacity - 1), NEW k \in 1..d,
         NEW p, p = CircularPointerAddOffset(CircularPointerSubtractOffset(w, d), k - 1)
  PROVE  /\ p \in Positions
         /\ (IF p < w THEN w - p ELSE Capacity + w - p) = d - k + 1
  BY MixerBounds DEF Positions, CircularPointerAddOffset, CircularPointerSubtractOffset

\* The samples of a packet are laid from the place of its timestamp on.
LEMMA MixSamplesAligned ==
  ASSUME NEW m, NEW pk, MixInv(m, pk), NEW c \in PacketType, NEW ts \in Timestamps,
         m.writeTs - ts \in 0..(Capacity - 1), ts + c.n <= m.writeTs,
         Carries(pk, c, ts), Opened(m, c)
  PROVE  /\ MixInv(MixSamples(m, c, ts), pk)
         /\ MixSamples(m, c, ts).numInputChannels = m.numInputChannels
<1> DEFINE start == FirstPlace(m, c, ts)
           target == Places(start, c.n)
           at(p) == {<<c.id, k>> : k \in {k \in 1..c.n : CircularPointerAddOffset(start, k - 1) = p}}
           b == [p \in Positions |-> m.buffer[p] \cup at(p)]
           cb == [ch \in Channels |-> [p \in Positions |->
                    IF ch = c.ch /\ m.numInputChannels # 0 /\ p \in target
                    THEN at(p) ELSE m.channelBuffer[ch][p]]]
           m2 == MixSamples(m, c, ts)
           d == m.writeTs - ts
<1>1. MixerInv(m2)
  BY MixSamplesInv DEF MixInv
<1>2. m \in MixerType /\ m.writePtr \in Positions /\ m.numInputChannels \in Nat
      /\ m.writeTs \in Int
  BY DEF MixInv, MixerInv, MixerType
<1>3. c.id \in Nat /\ c.n \in Nat /\ c.ch \in Channels /\ ts \in Int
  BY MixerBounds DEF PacketType, Timestamps
<1>4. m2 = [m EXCEPT !.buffer = b, !.channelBuffer = cb]
  BY DEF MixSamples
<1>5. ASSUME NEW p \in Positions, NEW s \in at(p)
      PROVE  OnTime(pk, s, m.writeTs - Back(m, p))
  <2>1. PICK k \in 1..c.n : s = <<c.id, k>> /\ CircularPointerAddOffset(start, k - 1) = p
    BY <1>5
  <2>2. k \in 1..d
    BY <1>2, <1>3
  <2>3. Back(m, p) = d - k + 1
    <3>1. p = CircularPointerAddOffset(CircularPointerSubtractOffset(m.writePtr, d), k - 1)
      BY <2>1 DEF FirstPlace
    <3> HIDE DEF d
    <3>2. (IF p < m.writePtr THEN m.writePtr - p ELSE Capacity + m.writePtr - p) = d - k + 1
      BY <1>2, <2>2, <3>1, SamplePlaces DEF d
    <3>3. QED
      BY <3>2 DEF Back
  <2>4. m.writeTs - Back(m, p) = ts + k - 1
    BY <1>2, <1>3, <2>3
  <2>5. s[1] = c.id /\ s[2] = k
    BY <2>1
  <2>6. QED
    BY <2>4, <2>5 DEF OnTime, Carries
<1> HIDE DEF at, target, start, d
<1>6. \A p \in Positions : b[p] = m.buffer[p] \cup at(p)
  BY DEF b
<1>7. \A ch \in Channels, p \in Positions :
        cb[ch][p] = IF ch = c.ch /\ m.numInputChannels # 0 /\ p \in target
                    THEN at(p) ELSE m.channelBuffer[ch][p]
  BY DEF cb
<1> HIDE DEF b, cb, m2
<1>8. /\ m2.buffer = b /\ m2.channelBuffer = cb /\ m2.writePtr = m.writePtr
      /\ m2.readPtr = m.readPtr /\ m2.writeTs = m.writeTs
      /\ m2.numInputChannels = m.numInputChannels
  BY <1>2, <1>4 DEF MixerType
<1>9. \A p \in Positions : Held(m2, p) \subseteq Held(m, p) \cup at(p)
  <2> SUFFICES ASSUME NEW p \in Positions, NEW s \in Held(m2, p)
               PROVE  s \in Held(m, p) \cup at(p)
    OBVIOUS
  <2>1. CASE s \in b[p]
    BY <1>6, <2>1 DEF Held
  <2>2. CASE s \notin b[p]
    <3>1. PICK ch \in Channels : s \in cb[ch][p]
      BY <1>8, <2>2 DEF Held
    <3>2. s \in at(p) \/ s \in m.channelBuffer[ch][p]
      BY <1>7, <3>1
    <3>3. QED
      BY <3>2 DEF Held
  <2>3. QED
    BY <2>1, <2>2
<1>10. Aligned(m2, pk)
  <2>1. \A p \in Positions : Back(m2, p) = Back(m, p)
    BY <1>8 DEF Back
  <2>2. UsedSpace(m2) = UsedSpace(m)
    BY <1>8 DEF UsedSpace
  <2>3. QED
    BY <1>5, <1>8, <1>9, <2>1, <2>2 DEF MixInv, Aligned
<1>11. Unopened(m2)
  <2> SUFFICES ASSUME NEW ch \in Channels, ch > m.numInputChannels, NEW p \in Positions
               PROVE  cb[ch][p] = {}
    BY <1>8 DEF Unopened
  <2>1. ~(ch = c.ch /\ m.numInputChannels # 0)
    BY <1>2, <1>3, MixerBounds DEF Opened, Channels
  <2>2. QED
    BY <1>7, <2>1 DEF MixInv, Unopened
<1>12. QED
  BY <1>1, <1>8, <1>10, <1>11 DEF MixInv, m2

\* A packet that is stored lies where its timestamp says.
LEMMA StoreAligned ==
  ASSUME NEW m, NEW pk, MixInv(m, pk), NEW c \in PacketType, NEW ts \in Timestamps,
         Carries(pk, c, ts), Opened(m, c)
  PROVE  MixInv(StoreRtpPacket(m, c, ts), pk)
<1> DEFINE end == ts + c.n
           silence == end - m.writeTs
           zeroed == IF silence > 0 THEN WriteSilence(m, silence) ELSE m
           behind == zeroed.writeTs - ts
<1>1. m.writeTs \in Timestamps /\ c.n \in Nat /\ end \in Int /\ silence \in Int /\ ts \in Int
      /\ m.writeTs \in Int
  BY MixerBounds DEF MixInv, MixerInv, PacketType, Timestamps
<1>2. CASE end >= TsModulus \/ silence >= Capacity
  BY <1>2 DEF StoreRtpPacket
<1>3. CASE ~(end >= TsModulus \/ silence >= Capacity)
  <2>1. /\ MixInv(zeroed, pk) /\ zeroed.numInputChannels = m.numInputChannels
        /\ zeroed.writeTs \in Int /\ ts + c.n <= zeroed.writeTs
    <3>1. CASE silence > 0
      <4>1. silence \in 1..(Capacity - 1) /\ m.writeTs + silence < TsModulus
        BY <1>1, <1>3, <3>1, MixerBounds DEF Timestamps
      <4>2. m.writeTs + silence = end
        BY <1>1
      <4> HIDE DEF silence, end
      <4>3. /\ MixInv(WriteSilence(m, silence), pk)
            /\ WriteSilence(m, silence).writeTs = end
            /\ WriteSilence(m, silence).numInputChannels = m.numInputChannels
        BY <4>1, <4>2, WriteSilenceAligned
      <4>4. zeroed = WriteSilence(m, silence)
        BY <3>1
      <4> HIDE DEF zeroed
      <4>5. end <= zeroed.writeTs
        BY <1>1, <4>3, <4>4
      <4>6. QED
        BY <1>1, <4>3, <4>4, <4>5 DEF end
    <3>2. CASE ~(silence > 0)
      BY <1>1, <3>2
    <3>3. QED
      BY <3>1, <3>2
  <2>2. StoreRtpPacket(m, c, ts) = IF behind < 0 \/ behind >= Capacity THEN zeroed
                                   ELSE MixSamples(zeroed, c, ts)
    BY <1>3 DEF StoreRtpPacket
  <2> HIDE DEF zeroed
  <2>3. CASE behind < 0 \/ behind >= Capacity
    BY <2>1, <2>2, <2>3
  <2>4. CASE ~(behind < 0 \/ behind >= Capacity)
    <3>1. zeroed.writeTs - ts \in 0..(Capacity - 1)
      BY <1>1, <2>1, <2>4, MixerBounds
    <3>2. Opened(zeroed, c)
      BY <2>1 DEF Opened
    <3>3. MixInv(MixSamples(zeroed, c, ts), pk)
      BY <2>1, <3>1, <3>2, MixSamplesAligned
    <3>4. QED
      BY <2>2, <2>4, <3>3
  <2>5. QED
    BY <2>3, <2>4
<1>4. QED
  BY <1>2, <1>3

\* Shipping leaves what is not shipped where it is.
LEMMA ShipPartAligned ==
  ASSUME NEW m, NEW pk, MixInv(m, pk), NEW stereo, NEW n \in 0..UsedSpace(m),
         m.readPtr + n <= Capacity
  PROVE  MixInv(ShipPart(m, stereo, n), pk)
<1> DEFINE m2 == ShipPart(m, stereo, n)
           r2 == CircularPointerAddOffset(m.readPtr, n)
           queue == IF n = 0 THEN m.outputQueue
                    ELSE Append(m.outputQueue,
                                [i \in 1..n |-> MixedOutput(m, stereo, m.readPtr + i - 1)])
<1>1. MixerInv(m2) /\ UsedSpace(m2) = UsedSpace(m) - n
  BY ShipPartInv DEF MixInv
<1>2. m \in MixerType /\ UsedSpace(m) \in 0..(Capacity - 1) /\ m.numInputChannels \in Nat
  BY UsedSpaceBound DEF MixInv, MixerInv, MixerType
<1>3. m2 = [m EXCEPT !.outputQueue = queue, !.readPtr = r2, !.readTs = m.readTs + n]
  BY DEF ShipPart
<1> HIDE DEF m2, r2, queue
<1>4. /\ m2.buffer = m.buffer /\ m2.channelBuffer = m.channelBuffer
      /\ m2.writePtr = m.writePtr /\ m2.writeTs = m.writeTs
      /\ m2.numInputChannels = m.numInputChannels
  BY <1>2, <1>3 DEF MixerType
<1>5. UsedSpace(m2) <= UsedSpace(m)
  BY <1>1, <1>2, MixerBounds
<1>6. m2.numInputChannels >= m.numInputChannels
  BY <1>2, <1>4
<1>7. SameSamples(m2, m)
  BY <1>4, <1>5, <1>6 DEF SameSamples
<1>8. QED
  BY <1>1, <1>7, SameSamplesAligned DEF m2

\* CreateShipment ships one part or two.
LEMMA CreateShipmentAligned ==
  ASSUME NEW m, NEW pk, MixInv(m, pk), NEW stereo, NEW force \in BOOLEAN,
         force \/ HoldOff <= UsedSpace(m)
  PROVE  MixInv(CreateShipment(m, stereo, force), pk)
<1> DEFINE u == UsedSpace(m)
           stop == IF force THEN m.writePtr
                   ELSE CircularPointerSubtractOffset(m.writePtr, HoldOff)
<1>0. MixerInv(m)
  BY DEF MixInv
<1>1. m \in MixerType /\ m.writePtr \in Positions /\ m.readPtr \in Positions
  BY <1>0 DEF MixerInv, MixerType
<1>2. u \in 0..(Capacity - 1)
  BY <1>1, UsedSpaceBound
<1>3. u = IF m.writePtr >= m.readPtr THEN m.writePtr - m.readPtr
          ELSE Capacity + m.writePtr - m.readPtr
  BY DEF UsedSpace
<1>4. stop \in Positions
  BY <1>1, MixerBounds DEF Positions, CircularPointerSubtractOffset
<1>5. CASE stop < m.readPtr
  <2> DEFINE n == Capacity - m.readPtr
             m1 == ShipPart(m, stereo, n)
  <2>1. n \in 0..u /\ m.readPtr + n <= Capacity
    BY <1>1, <1>2, <1>3, <1>5, MixerBounds DEF Positions, CircularPointerSubtractOffset
  <2>2. /\ UsedSpace(m1) = u - n
        /\ m1.readPtr = CircularPointerAddOffset(m.readPtr, n)
    BY <1>0, <2>1, ShipPartInv
  <2>3. m1.readPtr = 0
    BY <1>1, <2>2, MixerBounds DEF Positions, CircularPointerAddOffset
  <2>4. stop \in 0..(u - n)
    BY <1>1, <1>2, <1>3, <1>4, <1>5, <2>1, MixerBounds
    DEF Positions, CircularPointerSubtractOffset
  <2>5. 0 + stop <= Capacity
    BY <1>4, MixerBounds DEF Positions
  <2>6. CreateShipment(m, stereo, force) = ShipPart(m1, stereo, stop)
    BY <1>5 DEF CreateShipment
  <2>7. MixInv(m1, pk)
    BY <2>1, ShipPartAligned
  <2> HIDE DEF m1, stop, u, n
  <2>8. MixInv(ShipPart(m1, stereo, stop), pk)
    BY <2>2, <2>3, <2>4, <2>5, <2>7, ShipPartAligned
  <2>9. QED
    BY <2>6, <2>8
<1>6. CASE ~(stop < m.readPtr)
  <2> DEFINE n == stop - m.readPtr
  <2>1. n \in 0..u /\ m.readPtr + n <= Capacity
    BY <1>1, <1>2, <1>3, <1>4, <1>6, MixerBounds
    DEF Positions, CircularPointerSubtractOffset
  <2>2. CreateShipment(m, stereo, force) = ShipPart(m, stereo, n)
    BY <1>6 DEF CreateShipment
  <2> HIDE DEF stop, n
  <2>3. QED
    BY <2>1, <2>2, ShipPartAligned
<1>7. QED
  BY <1>5, <1>6

\* What does not use a place has none out of time.
LEMMA EmptyAligned ==
  ASSUME NEW m, NEW pk, MixerInv(m), UsedSpace(m) = 0, Unopened(m)
  PROVE  MixInv(m, pk)
<1>1. m.writePtr \in Positions
  BY DEF MixerInv, MixerType
<1>2. \A p \in Positions : ~(Back(m, p) <= 0)
  BY <1>1, MixerBounds DEF Positions, Back
<1>3. QED
  BY <1>2 DEF MixInv, Aligned

\* Setting the corrections of the timestamps disturbs nothing.
LEMMA DeltaAligned ==
  ASSUME NEW m, NEW pk, MixInv(m, pk), NEW d, MixerInv([m EXCEPT !.delta = d])
  PROVE  MixInv([m EXCEPT !.delta = d], pk)
<1> DEFINE m2 == [m EXCEPT !.delta = d]
<1>1. m \in MixerType /\ m.numInputChannels \in Nat /\ UsedSpace(m) \in Int
  BY UsedSpaceBound, MixerBounds DEF MixInv, MixerInv, MixerType
<1>2. /\ m2.buffer = m.buffer /\ m2.channelBuffer = m.channelBuffer
      /\ m2.writePtr = m.writePtr /\ m2.writeTs = m.writeTs /\ m2.readPtr = m.readPtr
      /\ m2.numInputChannels = m.numInputChannels
  BY <1>1 DEF MixerType
<1> HIDE DEF m2
<1>3. UsedSpace(m2) = UsedSpace(m)
  BY <1>2 DEF UsedSpace
<1>4. SameSamples(m2, m)
  BY <1>1, <1>2, <1>3 DEF SameSamples
<1>5. QED
  BY <1>4, SameSamplesAligned DEF m2

\* A new window starts empty, and the packet that opens it is on time.
LEMMA OutOfRangeAligned ==
  ASSUME NEW m, NEW pk, MixInv(m, pk), NEW stereo, NEW c \in PacketType,
         c.ch = 1 => Carries(pk, c, c.ts), Opened(m, c)
  PROVE  MixInv(ManageOutOfRangeTimestamp(m, stereo, c), pk)
<1>0. MixerInv(m)
  BY DEF MixInv
<1>1. m \in MixerType /\ c.ts \in Timestamps /\ c.ch \in Channels
  BY <1>0 DEF MixerInv, PacketType
<1>2. MixerInv(ManageOutOfRangeTimestamp(m, stereo, c))
  BY <1>0, OutOfRangeInv
<1>3. CASE c.ch = 1
  <2> DEFINE shipped == CreateShipment(m, stereo, TRUE)
             reset == Reset(shipped, c.ts)
             stored == StoreRtpPacket(reset, c, c.ts)
  <2>1. MixInv(shipped, pk) /\ shipped.numInputChannels = m.numInputChannels
    BY <1>0, CreateShipmentAligned, CreateShipmentKeeps DEF Keeps, Leaves
  <2>2. MixerInv(shipped) /\ shipped \in MixerType
    BY <2>1 DEF MixInv, MixerInv
  <2> HIDE DEF shipped
  <2>3. MixerInv(reset)
    BY <1>1, <2>2, ResetInv
  <2>4. /\ reset.writePtr = 0 /\ reset.readPtr = 0
        /\ reset.numInputChannels = m.numInputChannels
        /\ reset.channelBuffer = shipped.channelBuffer
    BY <2>1, <2>2 DEF Reset, MixerType
  <2>5. UsedSpace(reset) = 0
    BY <2>4 DEF UsedSpace
  <2>6. Unopened(reset)
    BY <2>1, <2>4 DEF MixInv, Unopened
  <2>7. Opened(reset, c)
    BY <2>4 DEF Opened
  <2> HIDE DEF reset
  <2>8. MixInv(reset, pk)
    BY <2>3, <2>5, <2>6, EmptyAligned
  <2>9. MixInv(stored, pk)
    BY <1>1, <1>3, <2>7, <2>8, StoreAligned
  <2> DEFINE d == [stored.delta EXCEPT ![2] = 0]
  <2>10. ManageOutOfRangeTimestamp(m, stereo, c) = [stored EXCEPT !.delta = d]
    BY <1>3 DEF ManageOutOfRangeTimestamp, reset, shipped
  <2> HIDE DEF stored, d
  <2>11. QED
    BY <1>2, <2>9, <2>10, DeltaAligned
<1>4. CASE c.ch # 1
  <2> DEFINE d == [m.delta EXCEPT ![c.ch] = c.ts - m.writeTs]
  <2>1. ManageOutOfRangeTimestamp(m, stereo, c) \in {m, [m EXCEPT !.delta = d]}
    BY <1>4 DEF ManageOutOfRangeTimestamp
  <2> HIDE DEF d
  <2>2. QED
    BY <1>2, <2>1, DeltaAligned
<1>5. QED
  BY <1>3, <1>4

\* A packet of side 1 is placed by its own timestamp.
LEMMA PlacePacketAligned ==
  ASSUME NEW m, NEW pk, MixInv(m, pk), NEW stereo, NEW c \in PacketType,
         NEW ts \in Timestamps, Carries(pk, c, ts), c.ch = 1 => ts = c.ts, Opened(m, c)
  PROVE  MixInv(PlacePacket(m, stereo, c, ts), pk)
<1> DEFINE first == [m EXCEPT !.writeTs = ts, !.readTs = ts, !.oneS1Packet = TRUE]
           stored == StoreRtpPacket(m, c, ts)
<1>0. MixerInv(m) /\ m \in MixerType
  BY DEF MixInv, MixerInv
<1>1. CASE m.writeTs = 0
  <2>1. PlacePacket(m, stereo, c, ts) \in {m, StoreRtpPacket(first, c, ts)}
    BY <1>1 DEF PlacePacket
  <2>2. MixerInv(first)
    BY <1>0, <1>1, OpenWindowInv
  <2>3. /\ first.writePtr = m.writePtr /\ first.readPtr = m.readPtr
        /\ first.numInputChannels = m.numInputChannels
        /\ first.channelBuffer = m.channelBuffer
    BY <1>0 DEF MixerType
  <2> HIDE DEF first
  <2>4. UsedSpace(first) = 0
    <3>1. 0 - m.readTs = UsedSpace(m) + m.lost
      BY <1>0, <1>1 DEF MixerInv
    <3>2. UsedSpace(m) \in Nat /\ m.lost \in Nat /\ m.readTs \in Nat
      BY <1>0, UsedSpaceBound, MixerBounds DEF MixerType
    <3>3. UsedSpace(m) = 0
      BY <3>1, <3>2
    <3>4. QED
      BY <2>3, <3>3 DEF UsedSpace
  <2>5. Unopened(first) /\ Opened(first, c)
    BY <2>3 DEF MixInv, Unopened, Opened
  <2>6. MixInv(first, pk)
    BY <2>2, <2>4, <2>5, EmptyAligned
  <2>7. MixInv(StoreRtpPacket(first, c, ts), pk)
    BY <2>5, <2>6, StoreAligned
  <2>8. QED
    BY <2>1, <2>7
<1>2. CASE m.writeTs # 0
  <2>1. MixInv(stored, pk)
    BY StoreAligned
  <2>2. MixInv(ManageOutOfRangeTimestamp(m, stereo, c), pk)
    BY OutOfRangeAligned
  <2>3. UsedSpace(stored) > Trigger => MixInv(CreateShipment(stored, stereo, FALSE), pk)
    <3> HIDE DEF stored
    <3>1. UsedSpace(stored) \in Int
      BY <2>1, UsedSpaceBound, MixerBounds DEF MixInv, MixerInv
    <3>2. UsedSpace(stored) > Trigger => HoldOff <= UsedSpace(stored)
      BY <3>1, MixerBounds
    <3>3. QED
      BY <2>1, <3>2, CreateShipmentAligned
  <2>4. PlacePacket(m, stereo, c, ts)
          = IF ts >= m.readTs /\ Fits(m, ts, c.n)
            THEN IF UsedSpace(stored) > Trigger THEN CreateShipment(stored, stereo, FALSE)
                 ELSE stored
            ELSE ManageOutOfRangeTimestamp(m, stereo, c)
    BY <1>2 DEF PlacePacket
  <2> HIDE DEF stored
  <2>5. QED
    BY <2>1, <2>2, <2>3, <2>4
<1>3. QED
  BY <1>1, <1>2

\* m2 has the pointers, samples and output of m.
Prepared(m2, m) ==
  /\ m2.buffer = m.buffer /\ m2.channelBuffer = m.channelBuffer
  /\ m2.writePtr = m.writePtr /\ m2.readPtr = m.readPtr /\ m2.writeTs = m.writeTs
  /\ m2.lost = m.lost /\ m2.outputQueue = m.outputQueue /\ m2.error = m.error

\* What precedes the placement of a packet touches none of those.
LEMMA PreparationLeaves ==
  ASSUME NEW m, MixerInv(m), NEW stereo, NEW c \in PacketType, NEW p \in PacketType
  PROVE  /\ Prepared(CreateChannels(m, stereo, c.ch), m)
         /\ Prepared(CorrectiveDelta(RememberTimestamp(m, c), p), m)
         /\ CorrectiveDelta(RememberTimestamp(m, c), p).numInputChannels = m.numInputChannels
<1> DEFINE r == RememberTimestamp(m, c)
<1>1. m \in MixerType
  BY DEF MixerInv
<1>2. Prepared(CreateChannels(m, stereo, c.ch), m)
  BY <1>1 DEF CreateChannels, Prepared, MixerType
<1>3. MixerInv(r)
  BY PreparationInv
<1>4. Prepared(r, m) /\ r.numInputChannels = m.numInputChannels
  <2>1. ASSUME NEW f, NEW l, NEW m2, m2 = [m EXCEPT !.firstTs = f, !.lastTs = l]
        PROVE  Prepared(m2, m) /\ m2.numInputChannels = m.numInputChannels
    BY <1>1, <2>1 DEF Prepared, MixerType
  <2>2. Prepared(m, m)
    BY DEF Prepared
  <2> DEFINE f == [m.firstTs EXCEPT ![c.ch] =
                     IF m.lastTs[c.ch] = None \/ CountsMilliseconds(m, c) THEN c.ts ELSE @]
             l == [m.lastTs EXCEPT ![c.ch] = CorrectRogueTimestamp(m, c).ts]
  <2>3. r = m \/ r = [m EXCEPT !.firstTs = f, !.lastTs = l]
    BY DEF RememberTimestamp
  <2> HIDE DEF f, l, r
  <2>4. QED
    BY <2>1, <2>2, <2>3
<1> HIDE DEF r
<1>5. r \in MixerType
  BY <1>3 DEF MixerInv
<1>6. LET m2 == CorrectiveDelta(r, p) IN
        Prepared(m2, r) /\ m2.numInputChannels = r.numInputChannels
  <2>1. ASSUME NEW d PROVE LET m2 == [r EXCEPT !.delta = d, !.oneS1Packet = FALSE] IN
                Prepared(m2, r) /\ m2.numInputChannels = r.numInputChannels
    BY <1>5 DEF Prepared, MixerType
  <2>2. Prepared(r, r)
    BY DEF Prepared
  <2> DEFINE d == [r.delta EXCEPT ![2] = p.ts - r.writeTs]
  <2>3. CorrectiveDelta(r, p) = r
        \/ CorrectiveDelta(r, p) = [r EXCEPT !.delta = d, !.oneS1Packet = FALSE]
    BY DEF CorrectiveDelta
  <2> HIDE DEF d
  <2>4. QED
    BY <2>1, <2>2, <2>3
<1>7. QED
  BY <1>2, <1>4, <1>6 DEF Prepared, r

\* A mono mixer has no channels.
OneMix(m, stereo) == stereo \/ m.numInputChannels = 0

\* AudioChunkIn of packet c, after which m has become m2 and p is the packet as it
\* was mixed.
Taken(m2, m, stereo, c, p) ==
  /\ OneMix(m2, stereo)
  /\ NoneEmpty(m) => NoneEmpty(m2)
  /\ ~m2.error => ~m.error
  /\ ~m2.error /\ p.ts + c.n < TsModulus
       => /\ Sounds(m) => Sounds(m2)
          /\ m.writeTs # 0 => m2.writeTs # 0
          /\ m2.writeTs # 0 => m.writeTs # 0 \/ Sounds(m2)
          /\ c.ch = 1 /\ c.n # 0 => m2.writeTs # 0

\* The packets of side 1 are corrected alike before and after a channel is opened.
LEMMA SideOneCorrected ==
  ASSUME NEW m \in MixerType, NEW stereo, NEW c \in PacketType, NEW d
  PROVE  /\ CorrectRogueTimestamp(m, c).ch = c.ch
         /\ CorrectRogueTimestamp(m, c).id = c.id
         /\ CorrectRogueTimestamp(m, c).n = c.n
         /\ c.ch = 1 => CorrectRogueTimestamp(CreateChannels(m, stereo, d), c)
                          = CorrectRogueTimestamp(m, c)
<1> DEFINE open == CreateChannels(m, stereo, d)
<1>1. open.firstTs = m.firstTs /\ open.lastTs = m.lastTs
  BY DEF CreateChannels, MixerType
<1> HIDE DEF open
<1>2. c.ch = 1 => (CountsMilliseconds(open, c) <=> CountsMilliseconds(m, c))
  BY <1>1 DEF CountsMilliseconds, Followed
<1>3. c.ch = 1 => CorrectRogueTimestamp(open, c) = CorrectRogueTimestamp(m, c)
  BY <1>1, <1>2 DEF CorrectRogueTimestamp
<1>4. ASSUME NEW ts PROVE LET e == [c EXCEPT !.ts = ts] IN
        e.ch = c.ch /\ e.id = c.id /\ e.n = c.n
  BY DEF PacketType
<1> DEFINE e == [c EXCEPT !.ts = (m.lastTs[c.ch] + PacketSamples) % TsModulus]
<1>5. CorrectRogueTimestamp(m, c) = c \/ CorrectRogueTimestamp(m, c) = e
  BY DEF CorrectRogueTimestamp
<1>6. e.ch = c.ch /\ e.id = c.id /\ e.n = c.n
  BY <1>4
<1> HIDE DEF e
<1>7. QED
  BY <1>3, <1>5, <1>6 DEF open

\* The packet as it is mixed, and the mixer that is ready for it.
LEMMA ReadyForPacket ==
  ASSUME NEW m, NEW pk, MixInv(m, pk), NEW stereo, OneMix(m, stereo), NEW c \in PacketType,
         c.id \in 1..Len(pk), pk[c.id] = CorrectRogueTimestamp(m, c),
         NEW open, open = CreateChannels(m, stereo, c.ch),
         NEW packet, packet = CorrectRogueTimestamp(open, c),
         NEW ready, ready = CorrectiveDelta(RememberTimestamp(open, c), packet)
  PROVE  /\ packet \in PacketType /\ packet.ch = c.ch /\ packet.id = c.id /\ packet.n = c.n
         /\ pk[c.id].ch = c.ch /\ (c.ch = 1 => packet = pk[c.id])
         /\ MixInv(ready, pk) /\ MixerInv(ready) /\ Prepared(ready, m)
         /\ OneMix(ready, stereo) /\ Opened(ready, packet)
         /\ ready.numInputChannels >= m.numInputChannels
         /\ stereo => ready.numInputChannels # 0
         /\ UsedSpace(ready) = UsedSpace(m)
         /\ \A ts \in CorrectedTimestamps(ready, packet) :
              ts \in Timestamps /\ (packet.ch = 1 => ts = packet.ts) /\ Carries(pk, packet, ts)
<1>1. MixerInv(m) /\ m \in MixerType /\ c.ch \in Channels /\ m.numInputChannels \in Nat
      /\ UsedSpace(m) \in Int /\ c.ch \in Nat /\ c.ch >= 1
  BY UsedSpaceBound, MixerBounds DEF MixInv, MixerInv, MixerType, PacketType, Channels
<1>2. MixerInv(open) /\ open \in MixerType
  BY <1>1, PreparationInv DEF MixerInv
<1>3. packet \in PacketType
  BY <1>2, CorrectedPacketType
<1>4. /\ packet.ch = c.ch /\ packet.id = c.id /\ packet.n = c.n
      /\ pk[c.id].ch = c.ch /\ (c.ch = 1 => packet = pk[c.id])
  <2>1. /\ CorrectRogueTimestamp(m, c).ch = c.ch
        /\ c.ch = 1 => packet = CorrectRogueTimestamp(m, c)
    BY <1>1, SideOneCorrected
  <2>2. packet.ch = c.ch /\ packet.id = c.id /\ packet.n = c.n
    BY <1>2, SideOneCorrected
  <2>3. QED
    BY <2>1, <2>2
<1>5. /\ Prepared(open, m) /\ open.numInputChannels \in Nat
      /\ open.numInputChannels >= m.numInputChannels
      /\ OneMix(open, stereo) /\ Opened(open, packet)
      /\ stereo => open.numInputChannels # 0
  <2>1. Prepared(open, m)
    BY <1>1, PreparationLeaves
  <2>2. open = IF stereo /\ c.ch > m.numInputChannels THEN [m EXCEPT !.numInputChannels = c.ch]
               ELSE m
    BY DEF CreateChannels
  <2>3. CASE stereo /\ c.ch > m.numInputChannels
    <3>1. open.numInputChannels = c.ch
      BY <1>1, <2>2, <2>3 DEF MixerType
    <3>2. QED
      <4>1. /\ c.ch \in Nat /\ c.ch >= 1 /\ m.numInputChannels \in Nat
            /\ c.ch > m.numInputChannels /\ packet.ch = c.ch
        BY <1>1, <1>4, <2>3
      <4>2. /\ open.numInputChannels \in Nat /\ open.numInputChannels # 0
            /\ open.numInputChannels >= m.numInputChannels
            /\ packet.ch <= open.numInputChannels
        BY <3>1, <4>1
      <4>3. QED
        BY <2>1, <2>3, <4>2 DEF OneMix, Opened
  <2>4. CASE ~(stereo /\ c.ch > m.numInputChannels)
    <3>1. open = m
      BY <2>2, <2>4
    <3>2. QED
      BY <1>1, <1>4, <2>1, <2>4, <3>1 DEF OneMix, Opened
  <2>5. QED
    BY <2>3, <2>4
<1>6. /\ MixerInv(ready) /\ Prepared(ready, open)
      /\ ready.numInputChannels = open.numInputChannels
  <2>1. MixerInv(RememberTimestamp(open, c))
    BY <1>2, PreparationInv
  <2>2. MixerInv(ready)
    BY <1>3, <2>1, PreparationInv
  <2>3. QED
    BY <1>2, <1>3, <2>2, PreparationLeaves
<1>7. /\ Prepared(ready, m) /\ OneMix(ready, stereo) /\ Opened(ready, packet)
      /\ ready.numInputChannels >= m.numInputChannels
      /\ stereo => ready.numInputChannels # 0
  BY <1>5, <1>6 DEF Prepared, OneMix, Opened
<1>8. UsedSpace(ready) = UsedSpace(m)
  BY <1>7 DEF UsedSpace, Prepared
<1>9. MixInv(ready, pk)
  <2>1. SameSamples(ready, m)
    BY <1>1, <1>7, <1>8 DEF SameSamples, Prepared
  <2>2. QED
    BY <1>6, <2>1, SameSamplesAligned
<1>10. ASSUME NEW ts \in CorrectedTimestamps(ready, packet)
       PROVE  ts \in Timestamps /\ (packet.ch = 1 => ts = packet.ts) /\ Carries(pk, packet, ts)
  <2>1. ts \in Timestamps
    BY <1>3, <1>6, CorrectedTimestampsType DEF MixerInv
  <2>2. packet.ch = 1 => ts = packet.ts
    BY DEF CorrectedTimestamps
  <2>3. QED
    BY <1>4, <2>1, <2>2 DEF Carries
<1>11. QED
  BY <1>3, <1>4, <1>6, <1>7, <1>8, <1>9, <1>10

\* Whatever AudioChunkIn makes of a packet, samples are on time and there is
\* something to be heard.
LEMMA AudioChunkInAligned ==
  ASSUME NEW m, NEW pk, MixInv(m, pk), NEW stereo, OneMix(m, stereo), NEW c \in PacketType,
         c.n < Capacity \/ c.n > MaxSamples,
         c.id \in 1..Len(pk), pk[c.id] = CorrectRogueTimestamp(m, c),
         NEW m2 \in AudioChunkIn(m, stereo, c)
  PROVE  MixInv(m2, pk) /\ Taken(m2, m, stereo, c, pk[c.id])
<1> DEFINE failed == [m EXCEPT !.error = TRUE]
           open == CreateChannels(m, stereo, c.ch)
           packet == CorrectRogueTimestamp(open, c)
           ready == CorrectiveDelta(RememberTimestamp(open, c), packet)
<1>0. MixerInv(m) /\ m \in MixerType /\ c.ch \in Channels /\ c.n \in Nat
      /\ m.numInputChannels \in Nat /\ UsedSpace(m) \in Int
  BY UsedSpaceBound, MixerBounds DEF MixInv, MixerInv, MixerType, PacketType
<1>1. CASE m2 = m /\ (m.error \/ c.n = 0)
  BY <1>1 DEF Taken
<1>2. CASE m2 = failed
  <2>1. /\ failed.error /\ failed.outputQueue = m.outputQueue
        /\ failed.numInputChannels = m.numInputChannels
        /\ failed.buffer = m.buffer /\ failed.channelBuffer = m.channelBuffer
        /\ failed.writePtr = m.writePtr /\ failed.readPtr = m.readPtr
        /\ failed.writeTs = m.writeTs
    BY <1>0 DEF MixerType
  <2>2. MixerInv(failed)
    BY <1>0 DEF MixerInv, MixerType, UsedSpace
  <2> HIDE DEF failed
  <2>3. UsedSpace(failed) = UsedSpace(m)
    BY <2>1 DEF UsedSpace
  <2>4. SameSamples(failed, m)
    BY <1>0, <2>1, <2>3 DEF SameSamples
  <2>5. MixInv(failed, pk)
    BY <2>2, <2>4, SameSamplesAligned
  <2>6. QED
    BY <1>2, <2>1, <2>5 DEF Taken, OneMix, NoneEmpty
<1>3. CASE /\ c.n # 0 /\ c.n \in 1..(Capacity - 1) /\ ~m.error
           /\ \E ts \in CorrectedTimestamps(ready, packet) :
                m2 = PlacePacket(ready, stereo, packet, ts)
  <2> HIDE DEF open, packet, ready
  <2>1. /\ packet \in PacketType /\ packet.ch = c.ch /\ packet.n = c.n
        /\ c.ch = 1 => packet = pk[c.id]
        /\ MixInv(ready, pk) /\ MixerInv(ready) /\ Prepared(ready, m)
        /\ OneMix(ready, stereo) /\ Opened(ready, packet) /\ UsedSpace(ready) = UsedSpace(m)
        /\ \A ts \in CorrectedTimestamps(ready, packet) :
             ts \in Timestamps /\ (packet.ch = 1 => ts = packet.ts) /\ Carries(pk, packet, ts)
    BY ReadyForPacket DEF open, packet, ready
  <2>2. PICK ts \in CorrectedTimestamps(ready, packet) :
          m2 = PlacePacket(ready, stereo, packet, ts)
    BY <1>3
  <2>3. ts \in Timestamps /\ (packet.ch = 1 => ts = packet.ts) /\ Carries(pk, packet, ts)
    BY <2>1, <2>2
  <2>4. MixInv(m2, pk)
    BY <2>1, <2>2, <2>3, PlacePacketAligned
  <2>5. /\ Leaves(m2, ready)
        /\ (packet.ch = 1 => Clean(packet))
             => /\ Sounds(ready) => Sounds(m2)
                /\ ready.writeTs # 0 \/ packet.ch = 1 => m2.writeTs # 0
                /\ ready.writeTs = 0 /\ packet.ch = 1 => Sounds(m2)
                /\ ready.writeTs = 0 /\ packet.ch # 1 => m2.writeTs = 0
    BY <2>1, <2>2, <2>3, PlacePacketSounds
  <2>6. (Sounds(ready) <=> Sounds(m)) /\ (NoneEmpty(ready) <=> NoneEmpty(m))
        /\ ready.writeTs = m.writeTs /\ ready.error = m.error
    BY <2>1 DEF Prepared, Sounds, NoneEmpty
  <2>7. OneMix(m2, stereo) /\ (NoneEmpty(m) => NoneEmpty(m2)) /\ (~m2.error => ~m.error)
    BY <2>1, <2>5, <2>6 DEF Leaves, OneMix
  <2>8. pk[c.id].ts + c.n < TsModulus => (packet.ch = 1 => Clean(packet))
    BY <1>3, <2>1 DEF Clean
  <2>9. Taken(m2, m, stereo, c, pk[c.id])
    BY <2>1, <2>5, <2>6, <2>7, <2>8 DEF Taken
  <2>10. QED
    BY <2>4, <2>9
<1>4. QED
  <2>1. CASE m.error \/ c.n = 0
    BY <1>1, <2>1 DEF AudioChunkIn
  <2>2. CASE ~(m.error \/ c.n = 0) /\ c.n > MaxSamples
    BY <1>2, <2>2 DEF AudioChunkIn
  <2>3. CASE ~(m.error \/ c.n = 0) /\ ~(c.n > MaxSamples)
    <3>1. c.n # 0 /\ c.n \in 1..(Capacity - 1) /\ ~m.error
      BY <1>0, <2>3, MixerBounds
    <3>2. \E ts \in CorrectedTimestamps(ready, packet) : m2 = PlacePacket(ready, stereo, packet, ts)
      BY <2>3 DEF AudioChunkIn
    <3>3. QED
      BY <1>3, <3>1, <3>2
  <2>4. QED
    BY <2>1, <2>2, <2>3
-----------------------------------------------------------------------------
(* Samples of a call *)

AnyPacket == [id : Nat, ch : Nat, ts : Nat, n : Nat]

\* Every chunk read has its packet, and the samples the mixer holds are on time.
SampleInv ==
  /\ Inv
  /\ packets \in Seq(AnyPacket) /\ Len(packets) = chunksRead
  /\ MixInv(mixer, packets)
  /\ OneMix(mixer, scenario.stereo)

\* Writing what the mixer ships disturbs neither samples nor channels.
LEMMA WriteOutputAligned ==
  ASSUME NEW m, NEW pk, MixInv(m, pk), WriteOutput(m)
  PROVE  /\ MixInv(mixer', pk) /\ mixer'.numInputChannels = m.numInputChannels
         /\ mixer'.writeTs = m.writeTs /\ mixer'.lost = m.lost
         /\ mixer'.error = m.error /\ UsedSpace(mixer') = UsedSpace(m)
         /\ mixer'.outputQueue = IF m.outputQueue = << >> THEN m.outputQueue
                                 ELSE Tail(m.outputQueue)
<1> DEFINE m2 == AudioChunkOut(m)
           q == Tail(m.outputQueue)
<1>1. MixerInv(m) /\ m \in MixerType /\ m.numInputChannels \in Nat /\ UsedSpace(m) \in Int
  BY UsedSpaceBound, MixerBounds DEF MixInv, MixerInv, MixerType
<1>2. MixerInv(m2) /\ UsedSpace(m2) = UsedSpace(m) /\ m2.error = m.error
  BY <1>1, AudioChunkOutInv
<1>3. \/ m2 = m /\ m.outputQueue = << >>
      \/ m2 = [m EXCEPT !.outputQueue = q] /\ m.outputQueue # << >>
  BY DEF AudioChunkOut
<1> HIDE DEF m2
<1>4. /\ m2.buffer = m.buffer /\ m2.channelBuffer = m.channelBuffer
      /\ m2.writePtr = m.writePtr /\ m2.writeTs = m.writeTs /\ m2.lost = m.lost
      /\ m2.numInputChannels = m.numInputChannels
  BY <1>1, <1>3 DEF MixerType
<1>5. m2.outputQueue = IF m.outputQueue = << >> THEN m.outputQueue ELSE q
  BY <1>1, <1>3 DEF MixerType
<1>6. SameSamples(m2, m)
  BY <1>1, <1>2, <1>4 DEF SameSamples
<1>7. MixInv(m2, pk)
  BY <1>2, <1>6, SameSamplesAligned
<1>8. mixer' = m2
  BY DEF WriteOutput, m2
<1>9. QED
  BY <1>2, <1>4, <1>5, <1>7, <1>8

\* A new mixer holds nothing.
LEMMA NewMixerAligned == MixInv(NewMixer, << >>) /\ NewMixer.numInputChannels = 0
<1>1. MixerInv(NewMixer)
  BY NewMixerInv
<1>2. UsedSpace(NewMixer) = 0 /\ NewMixer.numInputChannels = 0
  BY DEF UsedSpace, NewMixer
<1>3. Unopened(NewMixer)
  BY DEF Unopened, NewMixer
<1>4. QED
  BY <1>1, <1>2, <1>3, EmptyAligned

\* A chunk that is mixed: its packet, and what becomes of the mixer.
LEMMA MixChunkTakes ==
  ASSUME SampleInv, MixChunk
  PROVE  \E c \in PacketType, m \in MixerType :
           /\ c.id = chunksRead + 1
           /\ packets' = Append(packets, CorrectRogueTimestamp(mixer, c))
           /\ packets' \in Seq(AnyPacket) /\ Len(packets') = chunksRead + 1
           /\ packets'[c.id] = CorrectRogueTimestamp(mixer, c)
           /\ \A i \in 1..Len(packets) : packets'[i] = packets[i]
           /\ MixInv(mixer, packets') /\ MixInv(m, packets')
           /\ m \in AudioChunkIn(mixer, scenario.stereo, c)
           /\ c.n \in scenario.sizes /\ (c.n < Capacity \/ c.n > MaxSamples)
           /\ Taken(m, mixer, scenario.stereo, c, packets'[c.id])
           /\ WriteOutput(m)
           /\ \E ch \in scenario.channels :
                /\ c.ch = mixedAs(ch) /\ spoken' = Append(spoken, ch)
                /\ ~SkipChunk(scenario.keep, scenario.localSide, ch)
<1>1. PICK ch \in scenario.channels, ts \in scenario.timestamps, n \in scenario.sizes :
        /\ ~SkipChunk(scenario.keep, scenario.localSide, ch)
        /\ \E m \in AudioChunkIn(mixer, scenario.stereo,
                      [id |-> chunksRead + 1, ch |-> mixedAs(ch), ts |-> ts, n |-> n]) :
             WriteOutput(m)
        /\ packets' = Append(packets, CorrectRogueTimestamp(mixer,
                      [id |-> chunksRead + 1, ch |-> mixedAs(ch), ts |-> ts, n |-> n]))
        /\ spoken' = Append(spoken, ch)
  BY DEF MixChunk
<1> DEFINE c == [id |-> chunksRead + 1, ch |-> mixedAs(ch), ts |-> ts, n |-> n]
           x == CorrectRogueTimestamp(mixer, c)
<1>2. c \in PacketType
  BY <1>1, DecodedPacket DEF SampleInv, MixChunk
<1>3. c.id = chunksRead + 1 /\ c.ch = mixedAs(ch) /\ c.n = n
  OBVIOUS
<1>4. PICK m \in AudioChunkIn(mixer, scenario.stereo, c) : WriteOutput(m)
  BY <1>1
<1>5. packets' = Append(packets, x)
  BY <1>1
<1>6. n < Capacity \/ n > MaxSamples
  BY <1>1, ScenarioTypes DEF SampleInv, Inv
<1> HIDE DEF c
<1>7. /\ MixInv(mixer, packets) /\ packets \in Seq(AnyPacket) /\ Len(packets) = chunksRead
      /\ chunksRead \in Nat /\ mixer \in MixerType /\ OneMix(mixer, scenario.stereo)
  BY DEF SampleInv, Inv, MixerInv
<1>8. x \in AnyPacket
  <2>1. x \in PacketType
    BY <1>2, <1>7, CorrectedPacketType
  <2>2. QED
    BY <2>1, MixerBounds DEF PacketType, AnyPacket, Channels, Timestamps
<1> HIDE DEF x
<1>9. /\ packets' \in Seq(AnyPacket) /\ Len(packets') = chunksRead + 1
      /\ packets'[chunksRead + 1] = x
      /\ \A i \in 1..Len(packets) : packets'[i] = packets[i]
  BY <1>5, <1>7, <1>8
<1>10. MixInv(mixer, packets')
  BY <1>5, <1>7, <1>8, PacketJoins
<1>11. c.id \in 1..Len(packets') /\ packets'[c.id] = CorrectRogueTimestamp(mixer, c)
  BY <1>3, <1>7, <1>9 DEF x
<1>12. MixInv(m, packets') /\ Taken(m, mixer, scenario.stereo, c, packets'[c.id])
  BY <1>2, <1>3, <1>4, <1>6, <1>7, <1>10, <1>11, AudioChunkInAligned
<1>13. m \in MixerType
  BY <1>12 DEF MixInv, MixerInv
<1>14. QED
  BY <1>1, <1>2, <1>3, <1>4, <1>5, <1>6, <1>9, <1>10, <1>11, <1>12, <1>13 DEF x

\* A chunk that is not mixed has a packet that is none.
LEMMA SkippedPacket ==
  ASSUME SampleInv, packets' = Append(packets, NoPacket), mixer' = mixer,
         scenario' = scenario, chunksRead' = chunksRead + 1, Inv'
  PROVE  /\ SampleInv' /\ packets'[chunksRead + 1] = NoPacket
         /\ \A i \in 1..Len(packets) : packets'[i] = packets[i]
<1>1. /\ MixInv(mixer, packets) /\ packets \in Seq(AnyPacket) /\ Len(packets) = chunksRead
      /\ chunksRead \in Nat /\ OneMix(mixer, scenario.stereo)
  BY DEF SampleInv, Inv
<1>2. NoPacket \in AnyPacket
  BY DEF NoPacket, AnyPacket
<1> HIDE DEF NoPacket
<1>3. /\ packets' \in Seq(AnyPacket) /\ Len(packets') = chunksRead + 1
      /\ packets'[chunksRead + 1] = NoPacket
      /\ \A i \in 1..Len(packets) : packets'[i] = packets[i]
  BY <1>1, <1>2
<1>4. MixInv(mixer', packets')
  BY <1>1, <1>2, PacketJoins
<1>5. MixInv(mixer, packets)'
  BY <1>4 DEF MixInv, MixerInv, Aligned, Unopened, OnTime, Held, Back, UsedSpace
<1>6. OneMix(mixer, scenario.stereo)'
  BY <1>1 DEF OneMix
<1>7. QED
  BY <1>3, <1>5, <1>6 DEF SampleInv

\* Every step keeps the samples on time.
LEMMA SampleStep == SampleInv /\ [Next]_vars => SampleInv'
<1> SUFFICES ASSUME SampleInv, [Next]_vars PROVE SampleInv'
  OBVIOUS
<1>1. Inv'
  BY NextInv DEF SampleInv
<1>2. /\ MixInv(mixer, packets) /\ packets \in Seq(AnyPacket) /\ Len(packets) = chunksRead
      /\ chunksRead \in Nat /\ OneMix(mixer, scenario.stereo)
  BY DEF SampleInv, Inv
<1>3. ASSUME UNCHANGED <<scenario, mixer, packets, chunksRead>> PROVE SampleInv'
  <2>1. MixInv(mixer, packets)'
    BY <1>2, <1>3 DEF MixInv, MixerInv, Aligned, Unopened, OnTime, Held, Back, UsedSpace
  <2>2. OneMix(mixer, scenario.stereo)'
    BY <1>2, <1>3 DEF OneMix
  <2>3. QED
    BY <1>1, <1>2, <1>3, <2>1, <2>2 DEF SampleInv
<1>4. ASSUME UNCHANGED <<scenario, packets, chunksRead>>, MixInv(mixer', packets),
             mixer'.numInputChannels = mixer.numInputChannels
      PROVE  SampleInv'
  <2>1. MixInv(mixer, packets)'
    BY <1>4 DEF MixInv, MixerInv, Aligned, Unopened, OnTime, Held, Back, UsedSpace
  <2>2. OneMix(mixer, scenario.stereo)'
    BY <1>2, <1>4 DEF OneMix
  <2>3. QED
    BY <1>1, <1>2, <1>4, <2>1, <2>2 DEF SampleInv
<1>5. CASE CaptureChunk \/ StopCapture \/ ReadFails \/ UNCHANGED vars
  BY <1>3, <1>5 DEF CaptureChunk, StopCapture, ReadFails, vars, transcodeVars
<1>6. CASE SkipOne \/ SkipUnknownCodec
  <2>1. /\ packets' = Append(packets, NoPacket) /\ mixer' = mixer
        /\ scenario' = scenario /\ chunksRead' = chunksRead + 1
    BY <1>6 DEF SkipOne, SkipUnknownCodec
  <2>2. QED
    BY <1>1, <2>1, SkippedPacket
<1>7. CASE MixChunk
  <2>1. PICK c \in PacketType, m \in MixerType :
           /\ packets' \in Seq(AnyPacket) /\ Len(packets') = chunksRead + 1
           /\ MixInv(m, packets')
           /\ Taken(m, mixer, scenario.stereo, c, packets'[c.id])
           /\ WriteOutput(m)
    BY <1>7, MixChunkTakes
  <2>2. scenario' = scenario /\ chunksRead' = chunksRead + 1
    BY <1>7 DEF MixChunk
  <2>3. MixInv(mixer', packets') /\ mixer'.numInputChannels = m.numInputChannels
    BY <2>1, WriteOutputAligned
  <2>4. MixInv(mixer, packets)'
    BY <2>3 DEF MixInv, MixerInv, Aligned, Unopened, OnTime, Held, Back, UsedSpace
  <2>5. OneMix(mixer, scenario.stereo)'
    BY <2>1, <2>2, <2>3 DEF OneMix, Taken
  <2>6. QED
    BY <1>1, <2>1, <2>2, <2>4, <2>5 DEF SampleInv
<1>8. CASE FlushMixer
  <2>0. UNCHANGED <<scenario, packets, chunksRead>>
    BY <1>8 DEF FlushMixer
  <2>1. CASE WriteOutput(EndOfStream(mixer, scenario.stereo))
    <3> DEFINE m == EndOfStream(mixer, scenario.stereo)
    <3>1. MixInv(m, packets) /\ m.numInputChannels = mixer.numInputChannels
      <4>1. CASE mixer.error
        BY <1>2, <4>1 DEF EndOfStream
      <4>2. CASE ~mixer.error
        <5>1. m = CreateShipment(mixer, scenario.stereo, TRUE)
          BY <4>2 DEF EndOfStream
        <5>2. MixerInv(mixer)
          BY <1>2 DEF MixInv
        <5> HIDE DEF m
        <5>3. Keeps(m, mixer)
          BY <5>1, <5>2, CreateShipmentKeeps
        <5>4. MixInv(m, packets)
          BY <1>2, <5>1, CreateShipmentAligned
        <5>5. QED
          BY <5>3, <5>4 DEF Keeps, Leaves
      <4>3. QED
        BY <4>1, <4>2
    <3> HIDE DEF m
    <3>2. MixInv(mixer', packets) /\ mixer'.numInputChannels = m.numInputChannels
      BY <2>1, <3>1, WriteOutputAligned DEF m
    <3>3. QED
      BY <1>4, <2>0, <3>1, <3>2
  <2>2. CASE UNCHANGED <<mixer, storage>>
    BY <1>3, <2>0, <2>2
  <2>3. QED
    BY <1>8, <2>1, <2>2 DEF FlushMixer
<1>9. CASE Drain
  <2>0. UNCHANGED <<scenario, packets, chunksRead>>
    BY <1>9 DEF Drain
  <2>1. CASE WriteOutput(mixer)
    BY <1>2, <1>4, <2>0, <2>1, WriteOutputAligned
  <2>2. CASE UNCHANGED <<mixer, storage>>
    BY <1>3, <2>0, <2>2
  <2>3. QED
    BY <1>9, <2>1, <2>2 DEF Drain
<1>10. QED
  BY <1>5, <1>6, <1>7, <1>8, <1>9 DEF Next

\* A call starts without packets.
LEMMA SampleInit == Init => SampleInv
<1> SUFFICES ASSUME Init PROVE SampleInv
  OBVIOUS
<1>1. mixer = NewMixer /\ packets = << >> /\ chunksRead = 0
  BY DEF Init
<1>2. packets \in Seq(AnyPacket) /\ Len(packets) = chunksRead
  BY <1>1
<1>3. MixInv(mixer, packets) /\ OneMix(mixer, scenario.stereo)
  BY <1>1, NewMixerAligned DEF OneMix
<1>4. QED
  BY <1>2, <1>3, InitInv DEF SampleInv

\* The samples stay on time in every state of a call.
LEMMA SpecSampleInv == Spec => []SampleInv
  BY SampleInit, SampleStep, PTL DEF Spec

\* What a place of the line has is what the buffers have at its position.
LEMMA LinePlaces ==
  ASSUME NEW m \in MixerType, NEW stereo, NEW p \in Positions
  PROVE  Flat(MixedOutput(m, stereo, p)) \subseteq Held(m, p)
<1> DEFINE side(r) == UNION {m.channelBuffer[ch][p] :
                               ch \in {c \in Channels : c <= m.numInputChannels /\ c % 2 = r}}
<1>1. MixedOutput(m, stereo, p) = IF stereo /\ m.numInputChannels # 0
                                  THEN <<side(0), side(1)>> ELSE <<m.buffer[p]>>
  BY DEF MixedOutput
<1>2. \A r : side(r) \subseteq Held(m, p)
  BY DEF Held
<1>3. m.buffer[p] \subseteq Held(m, p)
  BY DEF Held
<1> HIDE DEF side
<1>4. ASSUME NEW a, NEW b, a \subseteq Held(m, p), b \subseteq Held(m, p)
      PROVE  Flat(<<a, b>>) \subseteq Held(m, p) /\ Flat(<<a>>) \subseteq Held(m, p)
  BY <1>4 DEF Flat
<1>5. QED
  BY <1>1, <1>2, <1>3, <1>4

\* RtpMixer: for every capacity and every stream of packets, over gaps, late
\* packets, shipments, new windows and opened channels, every sample of side 1
\* waits at the place of its timestamp.
THEOREM SamplesAreTimeAligned == Spec => []TimeAligned
<1>1. SampleInv => TimeAligned
  <2> SUFFICES ASSUME SampleInv PROVE TimeAligned
    OBVIOUS
  <2>1. /\ MixInv(mixer, packets) /\ mixer \in MixerType
        /\ mixer.writePtr \in Positions /\ mixer.readPtr \in Positions
        /\ mixer.writeTs \in Int
    BY DEF SampleInv, Inv, MixInv, MixerInv, MixerType
  <2> DEFINE u == UsedSpace(mixer)
             place(i) == CircularPointerAddOffset(mixer.readPtr, i - 1)
  <2>2. u \in 0..(Capacity - 1) /\ u \in Nat
    BY <2>1, UsedSpaceBound, MixerBounds
  <2>3. /\ Len(Line) = u
        /\ \A i \in 1..u : Line[i] = Flat(MixedOutput(mixer, scenario.stereo, place(i)))
    BY <2>2 DEF Line
  <2>4. ASSUME NEW i \in 1..u
        PROVE  place(i) \in Positions /\ Back(mixer, place(i)) = u - i + 1
    BY <2>1, <2>4, MixerBounds DEF UsedSpace, CircularPointerAddOffset, Positions, Back
  <2> HIDE DEF place, u
  <2>5. ASSUME NEW i \in 1..u, NEW s \in Line[i], packets[s[1]].ch = 1
        PROVE  packets[s[1]].ts + s[2] - 1 = mixer.writeTs - u + i - 1
    <3>1. s \in Held(mixer, place(i))
      BY <2>1, <2>3, <2>4, <2>5, LinePlaces
    <3>2. Back(mixer, place(i)) <= UsedSpace(mixer)
      BY <2>2, <2>4 DEF u
    <3>3. OnTime(packets, s, mixer.writeTs - Back(mixer, place(i)))
      BY <2>1, <2>4, <3>1, <3>2 DEF MixInv, Aligned
    <3>4. mixer.writeTs - Back(mixer, place(i)) = mixer.writeTs - u + i - 1
      BY <2>1, <2>2, <2>4
    <3>5. QED
      BY <2>5, <3>3, <3>4 DEF OnTime
  <2>6. QED
    BY <2>3, <2>5 DEF TimeAligned
<1>2. QED
  BY <1>1, SpecSampleInv, PTL
-----------------------------------------------------------------------------
(* The side that is kept *)

Unwrapped(pk) == \A k \in 1..Len(pk) : pk[k].ts + pk[k].n < TsModulus
SideOneSkipped == SkipChunk(scenario.keep, scenario.localSide, 1)
SpokeFirst(sp) == \E i \in 1..Len(sp) : sp[i] = 1
SpokeAfter(sp, pk) == \E i, j \in 1..Len(sp) : i < j /\ sp[i] = 1 /\ pk[j].n # 0

\* Something of the call is written, to be shipped or was lost.
Audible(m, out) == out # << >> \/ Sounds(m)

\* The other side is mixed as side 1 from the first chunk of side 1 that was
\* skipped on; a mixer with a write timestamp has something to be heard, and it
\* has one once a packet of that other side came.
HeardInv ==
  /\ SampleInv
  /\ storage \in Seq(Seq(SampleSets))
  /\ spoken \in Seq(Channels) /\ Len(spoken) = chunksRead
  /\ SideOneSkipped /\ SpokeFirst(spoken) => forceChannel1
  /\ NoneEmpty(mixer)
  /\ Unwrapped(packets) /\ ~mixer.error
       => /\ mixer.writeTs # 0 => Audible(mixer, storage)
          /\ SideOneSkipped /\ SpokeAfter(spoken, packets) => mixer.writeTs # 0

\* A chunk of the output is heard once it is written.
LEMMA WriteOutputHeard ==
  ASSUME NEW m, NEW pk, MixInv(m, pk), NoneEmpty(m), storage \in Seq(Seq(SampleSets)),
         WriteOutput(m)
  PROVE  /\ storage' \in Seq(Seq(SampleSets)) /\ NoneEmpty(mixer')
         /\ Audible(m, storage) => Audible(mixer', storage')
<1>1. m.outputQueue \in Shipments
  BY DEF MixInv, MixerInv, MixerType
<1>2. /\ mixer'.lost = m.lost /\ UsedSpace(mixer') = UsedSpace(m)
      /\ mixer'.outputQueue = IF m.outputQueue = << >> THEN m.outputQueue
                              ELSE Tail(m.outputQueue)
  BY WriteOutputAligned
<1>3. CASE m.outputQueue = << >>
  <2>1. storage' = storage /\ mixer'.outputQueue = m.outputQueue
    BY <1>2, <1>3 DEF WriteOutput
  <2>2. NoneEmpty(mixer') /\ (Audible(m, storage) => Audible(mixer', storage'))
    BY <1>2, <2>1 DEF NoneEmpty, Audible, Sounds
  <2>3. QED
    BY <2>1, <2>2
<1>4. CASE m.outputQueue # << >>
  <2> DEFINE q == m.outputQueue
             h == Head(q)
  <2>1. q \in Seq(Seq(Seq(SampleSets))) /\ q # << >> /\ Len(q) \in Nat /\ Len(q) >= 1
    BY <1>1, <1>4 DEF Shipments
  <2>2. h = q[1] /\ h \in Seq(Seq(SampleSets))
    BY <2>1
  <2>3. h # << >>
    BY <2>1, <2>2 DEF NoneEmpty
  <2>4. storage' = storage \o h /\ mixer'.outputQueue = Tail(q)
    BY <1>2, <1>4 DEF WriteOutput
  <2>5. /\ Len(Tail(q)) = Len(q) - 1 /\ \A i \in 1..Len(Tail(q)) : Tail(q)[i] = q[i + 1]
    BY <2>1
  <2> HIDE DEF q, h
  <2>6. storage' \in Seq(Seq(SampleSets)) /\ storage' # << >>
    <3>1. Len(h) \in Nat /\ Len(h) # 0 /\ Len(storage) \in Nat
      BY <2>2, <2>3
    <3>2. storage' \in Seq(Seq(SampleSets)) /\ Len(storage') = Len(storage) + Len(h)
      BY <2>2, <2>4
    <3>3. Len(storage') # 0
      BY <3>1, <3>2
    <3>4. QED
      BY <3>2, <3>3
  <2>7. NoneEmpty(mixer')
    <3> SUFFICES ASSUME NEW i \in 1..Len(Tail(q)) PROVE Tail(q)[i] # << >>
      BY <2>4 DEF NoneEmpty
    <3>1. i + 1 \in 1..Len(q)
      BY <2>1, <2>5
    <3>2. QED
      BY <2>5, <3>1 DEF NoneEmpty, q
  <2>8. QED
    BY <2>6, <2>7 DEF Audible
<1>5. QED
  BY <1>3, <1>4

\* A sequence that grew by one has what it had.
LEMMA OneMore ==
  ASSUME NEW S, NEW s \in Seq(S), NEW x \in S
  PROVE  /\ Append(s, x) \in Seq(S) /\ Len(Append(s, x)) = Len(s) + 1
         /\ Append(s, x)[Len(s) + 1] = x
         /\ \A i \in 1..Len(s) : Append(s, x)[i] = s[i]
  OBVIOUS

\* What chunk n + 1 may add to what is known of the chunks before it.
Continued(n, sp, pk, sp2, pk2) ==
  /\ Unwrapped(pk2) => Unwrapped(pk)
  /\ SpokeFirst(sp2) => SpokeFirst(sp) \/ sp2[n + 1] = 1
  /\ SpokeAfter(sp2, pk2) => SpokeAfter(sp, pk) \/ (SpokeFirst(sp) /\ pk2[n + 1].n # 0)

\* Of the chunks that were read earlier the sides and packets stay.
LEMMA EarlierChunks ==
  ASSUME NEW n \in Nat, NEW sp, NEW pk, NEW sp2, NEW pk2,
         Len(sp) = n, Len(pk) = n, Len(sp2) = n + 1, Len(pk2) = n + 1,
         \A i \in 1..n : sp2[i] = sp[i] /\ pk2[i] = pk[i]
  PROVE  Continued(n, sp, pk, sp2, pk2)
<1>1. \A i \in 1..n : i \in 1..(n + 1)
  OBVIOUS
<1>2. \A i \in 1..(n + 1) : i \in 1..n \/ i = n + 1
  OBVIOUS
<1>3. \A i, j \in 1..(n + 1) : i < j => i \in 1..n
  OBVIOUS
<1>4. Unwrapped(pk2) => Unwrapped(pk)
  BY <1>1 DEF Unwrapped
<1>5. SpokeFirst(sp2) => SpokeFirst(sp) \/ sp2[n + 1] = 1
  BY <1>2 DEF SpokeFirst
<1>6. ASSUME SpokeAfter(sp2, pk2)
      PROVE  SpokeAfter(sp, pk) \/ (SpokeFirst(sp) /\ pk2[n + 1].n # 0)
  <2>1. PICK i \in 1..(n + 1), j \in 1..(n + 1) : i < j /\ sp2[i] = 1 /\ pk2[j].n # 0
    BY <1>6 DEF SpokeAfter
  <2>2. i \in 1..n /\ sp[i] = 1
    BY <1>3, <2>1
  <2>3. CASE j \in 1..n
    BY <2>1, <2>2, <2>3 DEF SpokeAfter
  <2>4. CASE j = n + 1
    BY <2>1, <2>2, <2>4 DEF SpokeFirst
  <2>5. QED
    BY <1>2, <2>3, <2>4
<1>7. QED
  BY <1>4, <1>5, <1>6 DEF Continued

\* A chunk that is not mixed.
LEMMA SkippedHeard ==
  ASSUME HeardInv, SkipOne \/ SkipUnknownCodec, SampleInv'
  PROVE  HeardInv'
<1>1. PICK ch \in scenario.channels :
        /\ spoken' = Append(spoken, ch)
        /\ \/ forceChannel1' = (forceChannel1 \/ ch = 1)
           \/ forceChannel1' = forceChannel1
              /\ ~SkipChunk(scenario.keep, scenario.localSide, ch)
  BY DEF SkipOne, SkipUnknownCodec
<1>2. /\ packets' = Append(packets, NoPacket) /\ mixer' = mixer /\ storage' = storage
      /\ scenario' = scenario /\ chunksRead' = chunksRead + 1
  BY DEF SkipOne, SkipUnknownCodec
<1>3. /\ spoken \in Seq(Channels) /\ Len(spoken) = chunksRead /\ chunksRead \in Nat
      /\ packets \in Seq(AnyPacket) /\ Len(packets) = chunksRead
      /\ NoneEmpty(mixer) /\ storage \in Seq(Seq(SampleSets)) /\ scenario \in Scenarios
  BY DEF HeardInv, SampleInv, Inv
<1>4. ch \in Channels
  BY <1>1, <1>3, ScenarioTypes
<1>5. /\ spoken' \in Seq(Channels) /\ Len(spoken') = chunksRead + 1
      /\ spoken'[chunksRead + 1] = ch
      /\ \A i \in 1..chunksRead : spoken'[i] = spoken[i]
  BY <1>1, <1>3, <1>4, OneMore
<1>6. /\ Len(packets') = chunksRead + 1 /\ packets'[chunksRead + 1] = NoPacket
      /\ \A i \in 1..chunksRead : packets'[i] = packets[i]
  <2>1. NoPacket \in AnyPacket
    BY DEF NoPacket, AnyPacket
  <2> HIDE DEF NoPacket
  <2>2. QED
    BY <1>2, <1>3, <2>1, OneMore
<1>7. /\ Unwrapped(packets') => Unwrapped(packets)
      /\ SpokeFirst(spoken') => SpokeFirst(spoken) \/ ch = 1
      /\ SpokeAfter(spoken', packets') => SpokeAfter(spoken, packets)
  <2>1. packets'[chunksRead + 1].n = 0
    BY <1>6 DEF NoPacket
  <2>2. Continued(chunksRead, spoken, packets, spoken', packets')
    <3>1. \A i \in 1..chunksRead : spoken'[i] = spoken[i] /\ packets'[i] = packets[i]
      BY <1>5, <1>6
    <3>2. QED
      BY <1>3, <1>5, <1>6, <3>1, EarlierChunks, Zenon
  <2>3. QED
    BY <1>5, <2>1, <2>2 DEF Continued
<1>8. SideOneSkipped' <=> SideOneSkipped
  BY <1>2 DEF SideOneSkipped, SkipChunk
<1>9. SideOneSkipped' /\ SpokeFirst(spoken') => forceChannel1'
  BY <1>1, <1>7, <1>8 DEF HeardInv, SideOneSkipped
<1>10. Unwrapped(packets') /\ ~mixer'.error
         => /\ mixer'.writeTs # 0 => Audible(mixer', storage')
            /\ SideOneSkipped' /\ SpokeAfter(spoken', packets') => mixer'.writeTs # 0
  BY <1>2, <1>7, <1>8 DEF HeardInv
<1>11. NoneEmpty(mixer') /\ storage' \in Seq(Seq(SampleSets))
  BY <1>2, <1>3
<1>12. QED
  BY <1>2, <1>5, <1>9, <1>10, <1>11
  DEF HeardInv, NoneEmpty, Unwrapped, Audible, Sounds, UsedSpace, SpokeFirst, SpokeAfter

\* A chunk that is mixed.
LEMMA MixedHeard ==
  ASSUME HeardInv, MixChunk, SampleInv'
  PROVE  HeardInv'
<1>1. PICK c \in PacketType, m \in MixerType :
        /\ c.id = chunksRead + 1
        /\ packets' \in Seq(AnyPacket) /\ Len(packets') = chunksRead + 1
        /\ packets'[c.id] = CorrectRogueTimestamp(mixer, c)
        /\ \A i \in 1..Len(packets) : packets'[i] = packets[i]
        /\ MixInv(m, packets')
        /\ Taken(m, mixer, scenario.stereo, c, packets'[c.id])
        /\ WriteOutput(m)
        /\ \E ch \in scenario.channels :
             /\ c.ch = mixedAs(ch) /\ spoken' = Append(spoken, ch)
             /\ ~SkipChunk(scenario.keep, scenario.localSide, ch)
  BY MixChunkTakes DEF HeardInv
<1>2. PICK ch \in scenario.channels :
        /\ c.ch = mixedAs(ch) /\ spoken' = Append(spoken, ch)
        /\ ~SkipChunk(scenario.keep, scenario.localSide, ch)
  BY <1>1
<1>3. /\ scenario' = scenario /\ chunksRead' = chunksRead + 1
      /\ forceChannel1' = forceChannel1
  BY DEF MixChunk
<1>4. /\ spoken \in Seq(Channels) /\ Len(spoken) = chunksRead /\ chunksRead \in Nat
      /\ packets \in Seq(AnyPacket) /\ Len(packets) = chunksRead /\ mixer \in MixerType
      /\ NoneEmpty(mixer) /\ storage \in Seq(Seq(SampleSets)) /\ scenario \in Scenarios
  BY DEF HeardInv, SampleInv, Inv, MixerInv
<1>5. ch \in Channels
  BY <1>2, <1>4, ScenarioTypes
<1>6. /\ spoken' \in Seq(Channels) /\ Len(spoken') = chunksRead + 1
      /\ spoken'[chunksRead + 1] = ch
      /\ \A i \in 1..chunksRead : spoken'[i] = spoken[i]
  BY <1>2, <1>4, <1>5, OneMore
<1>7. packets'[chunksRead + 1].n = c.n /\ packets'[c.id] = packets'[chunksRead + 1]
  <2>1. CorrectRogueTimestamp(mixer, c).n = c.n
    BY <1>4, SideOneCorrected, Zenon
  <2>2. QED
    BY <1>1, <2>1
<1>8. /\ Unwrapped(packets') => Unwrapped(packets)
      /\ SpokeFirst(spoken') => SpokeFirst(spoken) \/ ch = 1
      /\ SpokeAfter(spoken', packets')
           => SpokeAfter(spoken, packets) \/ (SpokeFirst(spoken) /\ c.n # 0)
  <2>1. Continued(chunksRead, spoken, packets, spoken', packets')
    <3>1. \A i \in 1..chunksRead : spoken'[i] = spoken[i] /\ packets'[i] = packets[i]
      BY <1>1, <1>4, <1>6
    <3>2. Len(packets') = chunksRead + 1
      BY <1>1
    <3>3. QED
      BY <1>4, <1>6, <3>1, <3>2, EarlierChunks, Zenon
  <2>2. QED
    BY <1>6, <1>7, <2>1 DEF Continued
<1>9. SideOneSkipped' <=> SideOneSkipped
  BY <1>3 DEF SideOneSkipped, SkipChunk
<1>10. SideOneSkipped' /\ SpokeFirst(spoken') => forceChannel1'
  BY <1>2, <1>3, <1>8, <1>9 DEF HeardInv, SideOneSkipped
<1>11. NoneEmpty(m) /\ (~m.error => ~mixer.error)
  BY <1>1, <1>4 DEF Taken
<1>12. /\ storage' \in Seq(Seq(SampleSets)) /\ NoneEmpty(mixer')
       /\ Audible(m, storage) => Audible(mixer', storage')
  BY <1>1, <1>4, <1>11, WriteOutputHeard
<1>13. mixer'.writeTs = m.writeTs /\ mixer'.error = m.error
  BY <1>1, WriteOutputAligned
<1>14. ASSUME Unwrapped(packets'), ~mixer'.error
       PROVE  /\ mixer'.writeTs # 0 => Audible(mixer', storage')
              /\ SideOneSkipped' /\ SpokeAfter(spoken', packets') => mixer'.writeTs # 0
  <2>1. ~m.error /\ ~mixer.error /\ Unwrapped(packets)
    BY <1>8, <1>11, <1>13, <1>14
  <2>2. packets'[c.id].ts + c.n < TsModulus
    <3>1. chunksRead + 1 \in 1..Len(packets')
      BY <1>1, <1>4
    <3>2. packets'[chunksRead + 1].ts + packets'[chunksRead + 1].n < TsModulus
      BY <1>14, <3>1 DEF Unwrapped
    <3>3. QED
      BY <1>7, <3>2
  <2>3. /\ Sounds(mixer) => Sounds(m)
        /\ mixer.writeTs # 0 => m.writeTs # 0
        /\ m.writeTs # 0 => mixer.writeTs # 0 \/ Sounds(m)
        /\ c.ch = 1 /\ c.n # 0 => m.writeTs # 0
    BY <1>1, <2>1, <2>2 DEF Taken
  <2>4. mixer.writeTs # 0 => Audible(mixer, storage)
    BY <2>1 DEF HeardInv
  <2>5. m.writeTs # 0 => Audible(m, storage)
    BY <2>3, <2>4 DEF Audible
  <2>6. SideOneSkipped /\ SpokeFirst(spoken) => c.ch = 1
    BY <1>2 DEF HeardInv, mixedAs
  <2>7. SideOneSkipped /\ SpokeAfter(spoken, packets) => mixer.writeTs # 0
    BY <2>1 DEF HeardInv
  <2>8. QED
    BY <1>8, <1>9, <1>12, <1>13, <2>3, <2>5, <2>6, <2>7
<1>15. QED
  BY <1>3, <1>6, <1>10, <1>12, <1>14
  DEF HeardInv, NoneEmpty, Unwrapped, Audible, Sounds, UsedSpace, SpokeFirst, SpokeAfter

\* Every step keeps what is to be heard.
LEMMA HeardStep == HeardInv /\ [Next]_vars => HeardInv'
<1> SUFFICES ASSUME HeardInv, [Next]_vars PROVE HeardInv'
  OBVIOUS
<1>1. SampleInv'
  BY SampleStep DEF HeardInv
<1>2. /\ MixInv(mixer, packets) /\ NoneEmpty(mixer) /\ MixerInv(mixer)
      /\ storage \in Seq(Seq(SampleSets))
  BY DEF HeardInv, SampleInv, Inv
<1>3. ASSUME UNCHANGED <<scenario, packets, spoken, chunksRead, forceChannel1>>,
             storage' \in Seq(Seq(SampleSets)), NoneEmpty(mixer'),
             Audible(mixer, storage) => Audible(mixer', storage'),
             mixer'.writeTs = mixer.writeTs, mixer'.error = mixer.error
      PROVE  HeardInv'
  <2>1. SideOneSkipped' <=> SideOneSkipped
    BY <1>3 DEF SideOneSkipped, SkipChunk
  <2>2. SideOneSkipped' /\ SpokeFirst(spoken') => forceChannel1'
    BY <1>3, <2>1 DEF HeardInv
  <2>3. Unwrapped(packets') /\ ~mixer'.error
         => /\ mixer'.writeTs # 0 => Audible(mixer', storage')
            /\ SideOneSkipped' /\ SpokeAfter(spoken', packets') => mixer'.writeTs # 0
    BY <1>3, <2>1 DEF HeardInv
  <2>4. spoken' \in Seq(Channels) /\ Len(spoken') = chunksRead'
    BY <1>3 DEF HeardInv
  <2>5. QED
    BY <1>1, <1>3, <2>2, <2>3, <2>4
    DEF HeardInv, NoneEmpty, Unwrapped, Audible, Sounds, UsedSpace, SpokeFirst, SpokeAfter
<1>4. CASE UNCHANGED <<scenario, packets, spoken, chunksRead, forceChannel1, mixer, storage>>
  BY <1>2, <1>3, <1>4
<1>5. CASE CaptureChunk \/ StopCapture \/ ReadFails \/ UNCHANGED vars
  BY <1>4, <1>5 DEF CaptureChunk, StopCapture, ReadFails, vars, transcodeVars
<1>6. CASE SkipOne \/ SkipUnknownCodec
  BY <1>1, <1>6, SkippedHeard
<1>7. CASE MixChunk
  BY <1>1, <1>7, MixedHeard
<1>8. CASE FlushMixer
  <2>0. UNCHANGED <<scenario, packets, spoken, chunksRead, forceChannel1>>
    BY <1>8 DEF FlushMixer
  <2>1. CASE WriteOutput(EndOfStream(mixer, scenario.stereo))
    <3> DEFINE m == EndOfStream(mixer, scenario.stereo)
    <3>1. MixInv(m, packets) /\ Keeps(m, mixer) /\ m.writeTs = mixer.writeTs
      <4>1. CASE mixer.error
        BY <1>2, <4>1 DEF EndOfStream, Keeps, Leaves
      <4>2. CASE ~mixer.error
        <5>1. m = CreateShipment(mixer, scenario.stereo, TRUE)
          BY <4>2 DEF EndOfStream
        <5> HIDE DEF m
        <5>2. Keeps(m, mixer) /\ m.writeTs = mixer.writeTs
          BY <1>2, <5>1, CreateShipmentKeeps
        <5>3. MixInv(m, packets)
          BY <1>2, <5>1, CreateShipmentAligned
        <5>4. QED
          BY <5>2, <5>3
      <4>3. QED
        BY <4>1, <4>2
    <3> HIDE DEF m
    <3>2. NoneEmpty(m) /\ WriteOutput(m) /\ m.error = mixer.error
      BY <1>2, <2>1, <3>1 DEF Keeps, Leaves, m
    <3>3. mixer'.writeTs = m.writeTs /\ mixer'.error = m.error
      BY <3>1, <3>2, WriteOutputAligned
    <3>4. /\ storage' \in Seq(Seq(SampleSets)) /\ NoneEmpty(mixer')
          /\ Audible(m, storage) => Audible(mixer', storage')
      BY <1>2, <3>1, <3>2, WriteOutputHeard
    <3>5. Audible(mixer, storage) => Audible(m, storage)
      BY <3>1 DEF Keeps, Audible
    <3>6. QED
      BY <1>3, <2>0, <3>1, <3>2, <3>3, <3>4, <3>5
  <2>2. CASE UNCHANGED <<mixer, storage>>
    BY <1>4, <2>0, <2>2
  <2>3. QED
    BY <1>8, <2>1, <2>2 DEF FlushMixer
<1>9. CASE Drain
  <2>0. UNCHANGED <<scenario, packets, spoken, chunksRead, forceChannel1>>
    BY <1>9 DEF Drain
  <2>1. CASE WriteOutput(mixer)
    <3>1. mixer'.writeTs = mixer.writeTs /\ mixer'.error = mixer.error
      BY <1>2, <2>1, WriteOutputAligned
    <3>2. /\ storage' \in Seq(Seq(SampleSets)) /\ NoneEmpty(mixer')
          /\ Audible(mixer, storage) => Audible(mixer', storage')
      BY <1>2, <2>1, WriteOutputHeard
    <3>3. QED
      BY <1>3, <2>0, <3>1, <3>2
  <2>2. CASE UNCHANGED <<mixer, storage>>
    BY <1>4, <2>0, <2>2
  <2>3. QED
    BY <1>9, <2>1, <2>2 DEF Drain
<1>10. QED
  BY <1>5, <1>6, <1>7, <1>8, <1>9 DEF Next

\* BatchProcessing's forceChannel1: for every stream of packets, a call of which
\* side 1 is not kept has the other side in its storage file once that spoke after
\* side 1, unless the mixer gave up, lost a full buffer or a timestamp wrapped.
THEOREM KeptSideIsHeard == Spec => []KeptSideHeard
<1>1. Init => HeardInv
  <2> SUFFICES ASSUME Init PROVE HeardInv
    OBVIOUS
  <2>1. /\ mixer = NewMixer /\ packets = << >> /\ chunksRead = 0 /\ spoken = << >>
        /\ storage = << >>
    BY DEF Init
  <2>2. SampleInv
    <3>1. packets \in Seq(AnyPacket) /\ Len(packets) = chunksRead
      BY <2>1
    <3>2. MixInv(mixer, packets) /\ OneMix(mixer, scenario.stereo)
      BY <2>1, NewMixerAligned DEF OneMix
    <3>3. QED
      BY <3>1, <3>2, InitInv DEF SampleInv
  <2>3. storage \in Seq(Seq(SampleSets)) /\ spoken \in Seq(Channels) /\ Len(spoken) = chunksRead
    BY <2>1
  <2>4. ~SpokeFirst(spoken) /\ ~SpokeAfter(spoken, packets)
    BY <2>1 DEF SpokeFirst, SpokeAfter
  <2>5. NoneEmpty(mixer) /\ mixer.writeTs = 0
    BY <2>1 DEF NoneEmpty, NewMixer
  <2>6. QED
    BY <2>2, <2>3, <2>4, <2>5 DEF HeardInv
<1>2. HeardInv /\ [Next]_vars => HeardInv'
  BY HeardStep
<1>3. HeardInv => KeptSideHeard
  <2> SUFFICES ASSUME HeardInv, phase = "done", ~mixer.error, mixer.lost = 0,
                      SideOneSkipped, Unwrapped(packets), SpokeAfter(spoken, packets)
               PROVE  storage # << >>
    BY DEF KeptSideHeard, SideOneSkipped, Unwrapped, SpokeAfter
  <2>1. Audible(mixer, storage)
    BY DEF HeardInv
  <2>2. UsedSpace(mixer) = 0 /\ mixer.outputQueue = << >>
    BY DEF HeardInv, SampleInv, Inv
  <2>3. ~Sounds(mixer)
    BY <2>2 DEF Sounds
  <2>4. QED
    BY <2>1, <2>3 DEF Audible
<1>4. QED
  BY <1>1, <1>2, <1>3, PTL DEF Spec
-----------------------------------------------------------------------------
(* What is played, one shipment after the other *)

\* A set of natural numbers with a member has a least one.
LEMMA LeastNat ==
  ASSUME NEW S \in SUBSET Nat, S # {}
  PROVE  \E least \in S : \A j \in S : least <= j
<1>1. PICK least \in S : \A j \in S : ~ (<<j, least>> \in OpToRel(<, Nat))
  BY NatLessThanWellFounded, WFMin
<1>2. ASSUME NEW j \in S
      PROVE  least <= j
  <2>1. <<j, least>> \in Nat \X Nat /\ <<j, least>>[1] = j /\ <<j, least>>[2] = least
    OBVIOUS
  <2>2. ~ (j < least)
    BY <1>1, <2>1, Zenon DEF OpToRel
  <2>3. QED
    BY <2>2
<1>3. QED
  BY <1>2

\* What FlattenSeq computes: f[i] is the first i sequences of q one after the other.
Joins(f, q, n) == f = [i \in 1..n |-> IF i = 1 THEN q[i] ELSE f[i - 1] \o q[i]]

\* There is such a function for every number of sequences.
LEMMA JoinsExists ==
  ASSUME NEW q, NEW n \in Nat
  PROVE  \E f : Joins(f, q, n)
<1> DEFINE Bad == {k \in Nat : ~ \E f : Joins(f, q, k)}
<1>1. ASSUME NEW k \in Bad, \A j \in Bad : k <= j
      PROVE  FALSE
  <2>1. CASE k = 0
    <3>1. Joins([i \in 1..0 |-> q], q, 0)
      BY DEF Joins
    <3>2. QED
      BY <2>1, <3>1
  <2>2. CASE k # 0
    <3>1. k \in Nat /\ k >= 1 /\ k - 1 \in Nat /\ k - 1 \notin Bad
      BY <1>1, <2>2
    <3>2. PICK f : Joins(f, q, k - 1)
      BY <3>1
    <3> DEFINE g == [i \in 1..k |-> IF i = k THEN IF k = 1 THEN q[k] ELSE f[k - 1] \o q[k]
                                    ELSE f[i]]
    <3>3. ASSUME NEW i \in 1..k
          PROVE  g[i] = IF i = 1 THEN q[i] ELSE g[i - 1] \o q[i]
      <4>1. CASE i = k
        <5>1. CASE k = 1
          BY <4>1, <5>1
        <5>2. CASE k # 1
          <6>1. k - 1 \in 1..k /\ k - 1 # k
            BY <3>1, <5>2
          <6>2. g[k - 1] = f[k - 1]
            BY <6>1
          <6>3. g[k] = f[k - 1] \o q[k]
            <7>1. k \in 1..k
              BY <3>1
            <7> HIDE DEF Bad
            <7>2. QED
              BY <5>2, <7>1
          <6>4. QED
            BY <4>1, <5>2, <6>2, <6>3
        <5>3. QED
          BY <5>1, <5>2
      <4>2. CASE i # k
        <5>1. i \in 1..(k - 1)
          BY <3>1, <4>2
        <5>2. f[i] = IF i = 1 THEN q[i] ELSE f[i - 1] \o q[i]
          BY <3>2, <5>1 DEF Joins
        <5>3. g[i] = f[i]
          BY <4>2
        <5>4. i # 1 => i - 1 \in 1..k /\ i - 1 # k
          BY <3>1, <5>1
        <5>5. i # 1 => g[i - 1] = f[i - 1]
          BY <5>4
        <5>6. QED
          BY <5>2, <5>3, <5>5
      <4>3. QED
        BY <4>1, <4>2
    <3>4. g = [i \in 1..k |-> g[i]]
      OBVIOUS
    <3> HIDE DEF g
    <3>5. g = [i \in 1..k |-> IF i = 1 THEN q[i] ELSE g[i - 1] \o q[i]]
      BY <3>3, <3>4
    <3>6. Joins(g, q, k)
      BY <3>5 DEF Joins
    <3>7. QED
      BY <1>1, <3>6
  <2>3. QED
    BY <2>1, <2>2
<1>2. Bad = {}
  <2> HIDE DEF Bad
  <2>1. Bad \in SUBSET Nat
    BY DEF Bad
  <2>2. QED
    BY <1>1, <2>1, LeastNat
<1>3. QED
  BY <1>2

Agree(f, g, k) == \A i \in 1..k : f[i] = g[i]

\* There is only one way to join sequences.
LEMMA JoinsOnce ==
  ASSUME NEW q, NEW r, NEW n \in Nat, NEW m \in Nat, NEW f, NEW g,
         Joins(f, q, n), Joins(g, r, m), NEW k \in Nat, k <= n, k <= m,
         Agree(q, r, k)
  PROVE  Agree(f, g, k)
<1> DEFINE Bad == {i \in 1..k : f[i] # g[i]}
<1>1. ASSUME NEW i \in Bad, \A j \in Bad : i <= j
      PROVE  FALSE
  <2>1. i \in 1..n /\ i \in 1..m /\ i \in 1..k /\ f[i] # g[i]
    BY <1>1
  <2>2. /\ f[i] = IF i = 1 THEN q[i] ELSE f[i - 1] \o q[i]
        /\ g[i] = IF i = 1 THEN r[i] ELSE g[i - 1] \o r[i]
    BY <2>1 DEF Joins
  <2>3. i # 1 => i - 1 \in 1..k /\ i - 1 \notin Bad
    BY <1>1, <2>1
  <2>4. i # 1 => f[i - 1] = g[i - 1]
    BY <2>3
  <2>5. QED
    BY <2>1, <2>2, <2>4 DEF Agree
<1>2. Bad = {}
  <2>0. Bad \in SUBSET Nat
    OBVIOUS
  <2> HIDE DEF Bad
  <2>1. QED
    BY <1>1, <2>0, LeastNat
<1>3. QED
  BY <1>2 DEF Agree

\* FlattenSeq is the last of the joins.
LEMMA FlattenIsJoin ==
  ASSUME NEW T, NEW q \in Seq(T), q # << >>, NEW f, Joins(f, q, Len(q))
  PROVE  FlattenSeq(q) = f[Len(q)]
<1> DEFINE fs == CHOOSE g : g = [i \in 1..Len(q) |-> IF i = 1 THEN q[i] ELSE g[i - 1] \o q[i]]
<1>1. Len(q) \in Nat /\ Len(q) # 0
  OBVIOUS
<1>2. FlattenSeq(q) = fs[Len(q)]
  BY <1>1 DEF FlattenSeq
<1>3. Joins(fs, q, Len(q))
  BY DEF Joins
<1> HIDE DEF fs
<1>4. Len(q) \in 1..Len(q)
  BY <1>1
<1>5. Agree(fs, f, Len(q))
  <2>1. Agree(q, q, Len(q)) /\ Len(q) <= Len(q)
    BY DEF Agree
  <2>2. QED
    BY <1>1, <1>3, <2>1, JoinsOnce
<1>6. QED
  BY <1>2, <1>4, <1>5 DEF Agree

\* The joins of sequences are sequences.
LEMMA JoinsType ==
  ASSUME NEW T, NEW q \in Seq(Seq(T)), NEW f, Joins(f, q, Len(q))
  PROVE  \A i \in 1..Len(q) : f[i] \in Seq(T)
<1> DEFINE Bad == {i \in 1..Len(q) : f[i] \notin Seq(T)}
<1>1. ASSUME NEW i \in Bad, \A j \in Bad : i <= j
      PROVE  FALSE
  <2>1. i \in 1..Len(q) /\ f[i] \notin Seq(T) /\ q[i] \in Seq(T)
    BY <1>1
  <2>2. f[i] = IF i = 1 THEN q[i] ELSE f[i - 1] \o q[i]
    BY <2>1 DEF Joins
  <2>3. i # 1 => i - 1 \in 1..Len(q) /\ i - 1 \notin Bad
    BY <1>1, <2>1
  <2>4. i # 1 => f[i - 1] \in Seq(T)
    BY <2>3
  <2>5. QED
    BY <2>1, <2>2, <2>4
<1>2. Bad = {}
  <2>0. Bad \in SUBSET Nat
    OBVIOUS
  <2> HIDE DEF Bad
  <2>1. QED
    BY <1>1, <2>0, LeastNat
<1>3. QED
  BY <1>2

\* The joins of a queue that begins with x are x and the joins of the rest.
LEMMA JoinsTail ==
  ASSUME NEW T, NEW q \in Seq(Seq(T)), q # << >>, NEW f, Joins(f, q, Len(q)),
         NEW g, Joins(g, Tail(q), Len(Tail(q)))
  PROVE  \A i \in 1..Len(Tail(q)) : f[i + 1] = Head(q) \o g[i]
<1> DEFINE r == Tail(q)
           x == Head(q)
           l == Len(q)
           Bad == {i \in 1..Len(r) : f[i + 1] # x \o g[i]}
<1>0. /\ r \in Seq(Seq(T)) /\ Len(r) = l - 1 /\ l \in Nat /\ x \in Seq(T) /\ x = q[1]
      /\ \A i \in 1..Len(r) : r[i] = q[i + 1] /\ r[i] \in Seq(T)
  OBVIOUS
<1>a. Joins(f, q, l) /\ Joins(g, r, l - 1)
  BY <1>0
<1>b. Len(r) = l - 1 /\ l \in Nat
  BY <1>0
<1> HIDE DEF r, x, l
<1>1. ASSUME NEW i \in Bad, \A j \in Bad : i <= j
      PROVE  FALSE
  <2>1. i \in 1..(l - 1) /\ i \in Nat /\ i + 1 \in 1..l /\ f[i + 1] # x \o g[i]
    <3>1. i \in 1..Len(r) /\ f[i + 1] # x \o g[i]
      BY <1>1
    <3> HIDE DEF Bad
    <3>2. i \in 1..(l - 1)
      BY <1>b, <3>1
    <3>3. i \in Nat /\ i + 1 \in 1..l
      BY <1>b, <3>2
    <3>4. QED
      BY <3>1, <3>2, <3>3
  <2>2. i + 1 # 1 /\ (i + 1) - 1 = i
    BY <2>1
  <2>3. f[i + 1] = f[i] \o q[i + 1]
    <3>1. f[i + 1] = IF i + 1 = 1 THEN q[i + 1] ELSE f[(i + 1) - 1] \o q[i + 1]
      BY <1>a, <2>1 DEF Joins
    <3>2. QED
      BY <2>2, <3>1
  <2>4. g[i] = IF i = 1 THEN r[i] ELSE g[i - 1] \o r[i]
    BY <1>0, <1>a, <2>1 DEF Joins
  <2>5. CASE i = 1
    <3>1. 1 \in 1..l
      <4> HIDE DEF Bad
      <4>1. QED
        BY <1>b, <2>1
    <3>2. f[1] = q[1]
      BY <1>a, <3>1 DEF Joins
    <3>3. r[1] = q[2] /\ g[1] = r[1] /\ i + 1 = 2
      BY <1>0, <2>1, <2>4, <2>5
    <3>4. QED
      BY <1>0, <2>1, <2>3, <2>5, <3>2, <3>3
  <2>6. CASE i # 1
    <3> DEFINE k == i - 1
    <3>1. k \in 1..Len(r) /\ k \notin Bad /\ k + 1 = i
      <4>1. k \in 1..(l - 1) /\ k + 1 = i /\ ~(i <= k)
        <5> HIDE DEF Bad
        <5>1. QED
          BY <1>b, <2>1, <2>6
      <4>2. k \notin Bad
        <5> HIDE DEF Bad, k
        <5>1. QED
          BY <1>1, <4>1
      <4>3. QED
        BY <1>b, <4>1, <4>2
    <3>2. f[i] = x \o g[k]
      BY <3>1
    <3>3. g[k] \in Seq(T)
      BY <1>0, <1>a, <3>1, JoinsType
    <3>4. r[i] = q[i + 1] /\ r[i] \in Seq(T)
      BY <1>0, <2>1
    <3>5. f[i + 1] = (x \o g[k]) \o r[i] /\ g[i] = g[k] \o r[i]
      BY <2>3, <2>4, <2>6, <3>2, <3>4
    <3> HIDE DEF k, Bad
    <3>6. (x \o g[k]) \o r[i] = x \o (g[k] \o r[i])
      <4>1. x \in Seq(T) /\ r[i] \in Seq(T)
        BY <1>0, <3>4
      <4>2. PICK y \in Seq(T) : y = x
        BY <4>1
      <4>3. PICK h \in Seq(T) : h = g[k]
        BY <3>3
      <4>4. PICK z \in Seq(T) : z = r[i]
        BY <4>1
      <4>5. (y \o h) \o z = y \o (h \o z)
        OBVIOUS
      <4>6. QED
        BY <4>2, <4>3, <4>4, <4>5
    <3>7. QED
      BY <2>1, <3>5, <3>6
  <2>7. QED
    BY <2>5, <2>6
<1>2. Bad = {}
  <2>0. Bad \in SUBSET Nat
    <3>1. \A i \in 1..Len(r) : i \in Nat
      BY <1>b
    <3>2. QED
      BY <3>1
  <2> HIDE DEF Bad
  <2>1. QED
    BY <1>1, <2>0, LeastNat
<1>3. QED
  BY <1>2 DEF r, x

\* FlattenSeq of an empty queue, of one with one more at its end, and of one that
\* loses its head.
LEMMA FlattenNothing == FlattenSeq(<< >>) = << >>
  BY DEF FlattenSeq

\* What FlattenSeq makes of sequences is one of their elements.
LEMMA FlattenType ==
  ASSUME NEW T, NEW q \in Seq(Seq(T))
  PROVE  FlattenSeq(q) \in Seq(T)
<1>1. CASE q = << >>
  <2>1. << >> \in Seq(T)
    OBVIOUS
  <2>2. QED
    BY <1>1, <2>1, FlattenNothing, Zenon
<1>2. CASE q # << >>
  <2>1. Len(q) \in Nat /\ Len(q) \in 1..Len(q)
    BY <1>2
  <2>2. PICK f : Joins(f, q, Len(q))
    BY <2>1, JoinsExists
  <2>3. QED
    BY <1>2, <2>1, <2>2, FlattenIsJoin, JoinsType
<1>3. QED
  BY <1>1, <1>2

\* The last sequence comes last.
LEMMA FlattenAppend ==
  ASSUME NEW T, NEW q \in Seq(Seq(T)), NEW x \in Seq(T)
  PROVE  FlattenSeq(Append(q, x)) = FlattenSeq(q) \o x
<1> DEFINE r == Append(q, x)
           l == Len(q)
<1>1. /\ l \in Nat /\ r \in Seq(Seq(T)) /\ Len(r) = l + 1 /\ r # << >> /\ r[l + 1] = x
      /\ \A i \in 1..l : r[i] = q[i]
  <2>1. l \in Nat /\ r \in Seq(Seq(T)) /\ Len(r) = l + 1
    OBVIOUS
  <2>2. r[l + 1] = x /\ \A i \in 1..l : r[i] = q[i]
    OBVIOUS
  <2>3. r # << >>
    <3> HIDE DEF r, l
    <3>1. Len(r) # 0
      BY <2>1
    <3>2. QED
      BY <3>1
  <2>4. QED
    BY <2>1, <2>2, <2>3
<1> HIDE DEF r, l
<1>a. l \in Nat /\ l + 1 \in Nat /\ l + 1 \in 1..(l + 1)
  BY <1>1
<1>2. PICK g : Joins(g, r, l + 1)
  BY <1>a, JoinsExists
<1>3. FlattenSeq(r) = g[l + 1]
  BY <1>1, <1>2, FlattenIsJoin
<1>4. g[l + 1] = IF l + 1 = 1 THEN r[l + 1] ELSE g[(l + 1) - 1] \o r[l + 1]
  BY <1>a, <1>2 DEF Joins
<1>5. CASE q = << >>
  <2>1. l = 0
    BY <1>5 DEF l
  <2>2. FlattenSeq(r) = x
    BY <1>1, <1>3, <1>4, <2>1
  <2>3. QED
    BY <1>5, <2>2, FlattenNothing DEF r
<1>6. CASE q # << >>
  <2>1. l \in 1..l /\ l + 1 # 1 /\ (l + 1) - 1 = l
    BY <1>1, <1>6 DEF l
  <2>2. PICK f : Joins(f, q, l)
    BY <1>1, JoinsExists
  <2>3. FlattenSeq(q) = f[l]
    BY <1>6, <2>2, FlattenIsJoin DEF l
  <2>4. g[l] = f[l]
    <3>1. Agree(r, q, l)
      BY <1>1 DEF Agree
    <3>2. l <= l + 1 /\ l <= l
      BY <1>a
    <3> DEFINE n == l + 1
    <3>a. n \in Nat /\ l \in Nat /\ l <= n /\ l <= l /\ Joins(g, r, n)
      BY <1>a, <1>2, <3>2
    <3> HIDE DEF n
    <3>3. Agree(g, f, l)
      BY <2>2, <3>1, <3>a, JoinsOnce
    <3>4. QED
      BY <2>1, <3>3 DEF Agree
  <2>5. QED
    BY <1>1, <1>3, <1>4, <2>1, <2>3, <2>4 DEF r
<1>7. QED
  BY <1>5, <1>6

\* The first sequence comes first.
LEMMA FlattenHead ==
  ASSUME NEW T, NEW q \in Seq(Seq(T)), q # << >>
  PROVE  FlattenSeq(q) = Head(q) \o FlattenSeq(Tail(q))
<1> DEFINE r == Tail(q)
           x == Head(q)
           l == Len(q)
<1>1. /\ l \in Nat /\ l >= 1 /\ l \in 1..l /\ r \in Seq(Seq(T)) /\ Len(r) = l - 1 /\ l - 1 \in Nat
      /\ x \in Seq(T) /\ x = q[1]
  OBVIOUS
<1>a. r = << >> => l = 1
  <2> HIDE DEF r, l
  <2>1. r = << >> => Len(r) = 0
    OBVIOUS
  <2>2. QED
    BY <1>1, <2>1
<1> USE DEF l
<1>2. PICK f : Joins(f, q, l)
  BY <1>1, JoinsExists
<1>3. PICK g : Joins(g, r, l - 1)
  BY <1>1, JoinsExists
<1>4. FlattenSeq(q) = f[l]
  BY <1>2, FlattenIsJoin
<1>5. CASE r = << >>
  <2>1. l = 1
    BY <1>5, <1>a
  <2>2. f[1] = q[1]
    BY <1>1, <1>2, <2>1 DEF Joins
  <2>3. QED
    <3>1. FlattenSeq(r) = << >>
      BY <1>5, FlattenNothing
    <3>2. x \o << >> = x
      BY <1>1
    <3>3. FlattenSeq(q) = x
      BY <1>1, <1>4, <2>1, <2>2
    <3>4. QED
      BY <3>1, <3>2, <3>3
<1>6. CASE r # << >>
  <2>1. FlattenSeq(r) = g[l - 1]
    BY <1>1, <1>3, <1>6, FlattenIsJoin
  <2>2. l - 1 \in 1..Len(r) /\ (l - 1) + 1 = l
    BY <1>1, <1>6
  <2>3. f[(l - 1) + 1] = x \o g[l - 1]
    <3>1. Joins(g, Tail(q), Len(Tail(q)))
      BY <1>1, <1>3
    <3>2. \A i \in 1..Len(Tail(q)) : f[i + 1] = Head(q) \o g[i]
      BY <1>2, <3>1, JoinsTail
    <3>3. QED
      BY <2>2, <3>2
  <2>4. QED
    BY <1>4, <2>1, <2>2, <2>3
<1>7. QED
  BY <1>5, <1>6
-----------------------------------------------------------------------------
(* The line of places *)

\* The line of mixer m, and the places of an output.
LineOf(m, stereo) ==
  [i \in 1..UsedSpace(m) |->
     Flat(MixedOutput(m, stereo, CircularPointerAddOffset(m.readPtr, i - 1)))]
FlatPlaces(output) == [i \in 1..Len(output) |-> Flat(output[i])]

Outputs == Seq(Seq(SampleSets))

\* The samples of all sides of a place are a set of samples.
LEMMA FlatType ==
  ASSUME NEW place \in Seq(SampleSets)
  PROVE  Flat(place) \in SampleSets
<1>1. \A i \in 1..Len(place) : place[i] \subseteq Nat \X Nat
  BY DEF SampleSets
<1>2. QED
  BY <1>1 DEF Flat, SampleSets

\* The places of an output are as many as it has.
LEMMA FlatPlacesType ==
  ASSUME NEW output \in Outputs
  PROVE  /\ FlatPlaces(output) \in Seq(SampleSets)
         /\ Len(FlatPlaces(output)) = Len(output) /\ Len(output) \in Nat
         /\ \A i \in 1..Len(output) : FlatPlaces(output)[i] = Flat(output[i])
<1>1. Len(output) \in Nat /\ \A i \in 1..Len(output) : output[i] \in Seq(SampleSets)
  BY DEF Outputs
<1>2. \A i \in 1..Len(output) : Flat(output[i]) \in SampleSets
  BY <1>1, FlatType
<1>3. QED
  BY <1>1, <1>2 DEF FlatPlaces

\* The places of two outputs are those of one after those of the other.
LEMMA FlatPlacesJoin ==
  ASSUME NEW a \in Outputs, NEW b \in Outputs
  PROVE  FlatPlaces(a \o b) = FlatPlaces(a) \o FlatPlaces(b) /\ a \o b \in Outputs
<1> DEFINE x == FlatPlaces(a)
           y == FlatPlaces(b)
           c == a \o b
           z == FlatPlaces(c)
<1>1. /\ c \in Outputs /\ Len(c) = Len(a) + Len(b) /\ Len(a) \in Nat /\ Len(b) \in Nat
      /\ \A i \in 1..Len(a) : c[i] = a[i]
      /\ \A i \in (Len(a) + 1)..(Len(a) + Len(b)) : c[i] = b[i - Len(a)]
  BY DEF Outputs
<1>2. x \in Seq(SampleSets) /\ Len(x) = Len(a) /\ \A i \in 1..Len(a) : x[i] = Flat(a[i])
  BY FlatPlacesType
<1>3. y \in Seq(SampleSets) /\ Len(y) = Len(b) /\ \A i \in 1..Len(b) : y[i] = Flat(b[i])
  BY FlatPlacesType
<1>4. z \in Seq(SampleSets) /\ Len(z) = Len(c) /\ \A i \in 1..Len(c) : z[i] = Flat(c[i])
  BY <1>1, FlatPlacesType
<1> HIDE DEF x, y, z, c
<1>5. /\ x \o y \in Seq(SampleSets) /\ Len(x \o y) = Len(a) + Len(b)
      /\ \A i \in 1..(Len(a) + Len(b)) :
           (x \o y)[i] = IF i <= Len(a) THEN x[i] ELSE y[i - Len(a)]
  <2>1. x \in Seq(SampleSets) /\ y \in Seq(SampleSets) /\ Len(x) = Len(a) /\ Len(y) = Len(b)
    BY <1>2, <1>3
  <2>2. /\ x \o y \in Seq(SampleSets) /\ Len(x \o y) = Len(x) + Len(y)
        /\ \A i \in 1..(Len(x) + Len(y)) :
             (x \o y)[i] = IF i <= Len(x) THEN x[i] ELSE y[i - Len(x)]
    BY <2>1
  <2>3. QED
    BY <2>1, <2>2
<1>6. ASSUME NEW i \in 1..(Len(a) + Len(b)) PROVE z[i] = (x \o y)[i]
  <2>1. CASE i <= Len(a)
    <3>1. i \in 1..Len(a) /\ i \in 1..Len(c)
      BY <1>1, <2>1
    <3>2. QED
      BY <1>1, <1>2, <1>4, <1>5, <2>1, <3>1
  <2>2. CASE ~(i <= Len(a))
    <3>1. i - Len(a) \in 1..Len(b) /\ i \in 1..Len(c) /\ i \in (Len(a) + 1)..(Len(a) + Len(b))
      BY <1>1, <2>2
    <3>2. QED
      BY <1>1, <1>3, <1>4, <1>5, <2>2, <3>1
  <2>3. QED
    BY <2>1, <2>2
<1>7. z = x \o y
  BY <1>1, <1>4, <1>5, <1>6, SeqEqual
<1>8. QED
  BY <1>1, <1>7 DEF x, y, z, c

\* What is shown at place p: the channels in stereo, else the mix.
Shown(m, stereo, p) ==
  IF stereo /\ m.numInputChannels # 0 THEN UNION {m.channelBuffer[ch][p] : ch \in Channels}
  ELSE m.buffer[p]

\* What is shipped of a place is what is shown at it.
LEMMA ShownIsOutput ==
  ASSUME NEW m \in MixerType, Unopened(m), NEW stereo, NEW p \in Positions
  PROVE  Flat(MixedOutput(m, stereo, p)) = Shown(m, stereo, p)
<1> DEFINE side(r) == UNION {m.channelBuffer[ch][p] :
                               ch \in {c \in Channels : c <= m.numInputChannels /\ c % 2 = r}}
<1>1. MixedOutput(m, stereo, p) = IF stereo /\ m.numInputChannels # 0
                                  THEN <<side(0), side(1)>> ELSE <<m.buffer[p]>>
  BY DEF MixedOutput
<1>2. CASE stereo /\ m.numInputChannels # 0
  <2>1. side(0) \cup side(1) = UNION {m.channelBuffer[ch][p] : ch \in Channels}
    <3>1. ASSUME NEW s, NEW ch \in Channels, s \in m.channelBuffer[ch][p]
          PROVE  s \in side(0) \cup side(1)
      <4>1. ch <= m.numInputChannels
        BY <3>1, MixerBounds DEF Unopened, MixerType, Channels
      <4>2. ch % 2 = 0 \/ ch % 2 = 1
        BY MixerBounds DEF Channels
      <4>3. QED
        BY <3>1, <4>1, <4>2
    <3>2. QED
      BY <3>1
  <2> HIDE DEF side
  <2>2. Flat(<<side(0), side(1)>>) = side(0) \cup side(1)
    BY DEF Flat
  <2>3. QED
    BY <1>1, <1>2, <2>1, <2>2 DEF Shown
<1>3. CASE ~(stereo /\ m.numInputChannels # 0)
  <2>1. Flat(<<m.buffer[p]>>) = m.buffer[p]
    BY DEF Flat
  <2>2. QED
    BY <1>1, <1>3, <2>1 DEF Shown
<1>4. QED
  BY <1>2, <1>3

\* The line has what is shown at the places in use.
LEMMA LineShows ==
  ASSUME NEW m \in MixerType, Unopened(m), NEW stereo
  PROVE  /\ LineOf(m, stereo) \in Seq(SampleSets)
         /\ UsedSpace(m) \in 0..(Capacity - 1)
         /\ Len(LineOf(m, stereo)) = UsedSpace(m)
         /\ LineOf(m, stereo) = [i \in 1..UsedSpace(m) |->
                                   Shown(m, stereo, CircularPointerAddOffset(m.readPtr, i - 1))]
         /\ \A i \in 1..UsedSpace(m) :
              CircularPointerAddOffset(m.readPtr, i - 1) \in Positions
<1>1. UsedSpace(m) \in 0..(Capacity - 1) /\ UsedSpace(m) \in Nat /\ m.readPtr \in Positions
  BY UsedSpaceBound, MixerBounds DEF MixerType
<1>2. ASSUME NEW i \in 1..UsedSpace(m)
      PROVE  CircularPointerAddOffset(m.readPtr, i - 1) \in Positions
  BY <1>1, <1>2, MixerBounds DEF CircularPointerAddOffset, Positions
<1>3. ASSUME NEW i \in 1..UsedSpace(m)
      PROVE  /\ Flat(MixedOutput(m, stereo, CircularPointerAddOffset(m.readPtr, i - 1)))
                  = Shown(m, stereo, CircularPointerAddOffset(m.readPtr, i - 1))
             /\ Flat(MixedOutput(m, stereo, CircularPointerAddOffset(m.readPtr, i - 1)))
                  \in SampleSets
  BY <1>2, <1>3, ShownIsOutput, MixedOutputType, FlatType
<1>4. QED
  BY <1>1, <1>2, <1>3 DEF LineOf
-----------------------------------------------------------------------------
(* Shipments play the line *)

\* m2 is m after some of its line has been shipped.
Ships(m2, m, stereo) ==
  \E part \in Outputs :
    /\ FlattenSeq(m2.outputQueue) = FlattenSeq(m.outputQueue) \o part
    /\ LineOf(m, stereo) = FlatPlaces(part) \o LineOf(m2, stereo)

\* m2 has the buffers of m.
SameBuffers(m2, m) ==
  /\ m2.buffer = m.buffer /\ m2.channelBuffer = m.channelBuffer
  /\ m2.numInputChannels = m.numInputChannels

\* A part that is shipped is the beginning of the line.
LEMMA ShipPartShips ==
  ASSUME NEW m, MixerInv(m), Unopened(m), NEW stereo, NEW n \in 0..UsedSpace(m),
         m.readPtr + n <= Capacity
  PROVE  /\ Ships(ShipPart(m, stereo, n), m, stereo)
         /\ SameBuffers(ShipPart(m, stereo, n), m) /\ Unopened(ShipPart(m, stereo, n))
<1> DEFINE m2 == ShipPart(m, stereo, n)
           u == UsedSpace(m)
           r == m.readPtr
           r2 == CircularPointerAddOffset(r, n)
           part == [i \in 1..n |-> MixedOutput(m, stereo, r + i - 1)]
           queue == IF n = 0 THEN m.outputQueue ELSE Append(m.outputQueue, part)
<1>1. MixerInv(m2) /\ UsedSpace(m2) = u - n /\ m2.readPtr = r2
  BY ShipPartInv
<1>2. /\ m \in MixerType /\ m2 \in MixerType /\ u \in 0..(Capacity - 1) /\ r \in Positions
      /\ m.outputQueue \in Shipments /\ n \in Nat /\ u \in Nat
  BY <1>1, UsedSpaceBound, MixerBounds DEF MixerInv, MixerType
<1>3. m2 = [m EXCEPT !.outputQueue = queue, !.readPtr = r2, !.readTs = m.readTs + n]
  BY DEF ShipPart
<1>4. part \in Outputs /\ Len(part) = n /\ \A i \in 1..n : part[i] = MixedOutput(m, stereo, r + i - 1)
  <2>1. \A i \in 1..n : r + i - 1 \in Positions
    BY <1>2, MixerBounds DEF Positions
  <2>2. \A i \in 1..n : MixedOutput(m, stereo, r + i - 1) \in Seq(SampleSets)
    BY <1>2, <2>1, MixedOutputType
  <2>3. QED
    BY <1>2, <2>2 DEF Outputs
<1> HIDE DEF m2, r2, part
<1>5. SameBuffers(m2, m) /\ m2.outputQueue = queue
  BY <1>2, <1>3 DEF MixerType, SameBuffers
<1>6. Unopened(m2)
  BY <1>5 DEF Unopened, SameBuffers
<1>7. FlattenSeq(m2.outputQueue) = FlattenSeq(m.outputQueue) \o part
  <2>1. m.outputQueue \in Seq(Seq(Seq(SampleSets))) /\ part \in Seq(Seq(SampleSets))
    BY <1>2, <1>4 DEF Shipments, Outputs
  <2>2. CASE n = 0
    <3>1. FlattenSeq(m.outputQueue) \in Seq(Seq(SampleSets))
      BY <2>1, FlattenType
    <3>2. part = << >>
      BY <1>4, <2>1, <2>2
    <3>3. QED
      BY <1>5, <2>2, <3>1, <3>2
  <2>3. CASE n # 0
    <3>1. m2.outputQueue = Append(m.outputQueue, part)
      BY <1>5, <2>3
    <3>2. QED
      BY <2>1, <3>1, FlattenAppend
  <2>4. QED
    BY <2>2, <2>3
<1>8. LineOf(m, stereo) = FlatPlaces(part) \o LineOf(m2, stereo)
  <2> DEFINE a == FlatPlaces(part)
             b == LineOf(m2, stereo)
             l == LineOf(m, stereo)
             at(i) == CircularPointerAddOffset(r, i - 1)
  <2>1. a \in Seq(SampleSets) /\ Len(a) = n /\ \A i \in 1..n : a[i] = Flat(part[i])
    BY <1>4, FlatPlacesType
  <2>2. /\ b \in Seq(SampleSets) /\ Len(b) = u - n
        /\ \A i \in 1..(u - n) : b[i] = Shown(m2, stereo, CircularPointerAddOffset(r2, i - 1))
    BY <1>1, <1>2, <1>6, LineShows
  <2>3. /\ l \in Seq(SampleSets) /\ Len(l) = u
        /\ \A i \in 1..u : l[i] = Shown(m, stereo, at(i)) /\ at(i) \in Positions
    BY <1>2, LineShows
  <2> HIDE DEF a, b, l
  <2>4. /\ a \o b \in Seq(SampleSets) /\ Len(a \o b) = u
        /\ \A i \in 1..u : (a \o b)[i] = IF i <= n THEN a[i] ELSE b[i - n]
    <3>1. /\ a \o b \in Seq(SampleSets) /\ Len(a \o b) = Len(a) + Len(b)
          /\ \A i \in 1..(Len(a) + Len(b)) :
               (a \o b)[i] = IF i <= Len(a) THEN a[i] ELSE b[i - Len(a)]
      BY <2>1, <2>2
    <3>2. Len(a) = n /\ Len(b) = u - n /\ Len(a) + Len(b) = u
      BY <1>2, <2>1, <2>2
    <3>3. QED
      BY <3>1, <3>2
  <2>5. ASSUME NEW i \in 1..u PROVE l[i] = (a \o b)[i]
    <3>1. CASE i <= n
      <4>1. i \in 1..n
        BY <1>2, <3>1
      <4>2. at(i) = r + i - 1
        BY <1>2, <4>1, MixerBounds DEF Positions, CircularPointerAddOffset
      <4>3. a[i] = Flat(MixedOutput(m, stereo, at(i)))
        BY <1>4, <2>1, <4>1, <4>2
      <4>4. a[i] = Shown(m, stereo, at(i))
        BY <1>2, <2>3, <4>3, ShownIsOutput
      <4>5. QED
        BY <2>3, <2>4, <3>1, <4>4
    <3>2. CASE ~(i <= n)
      <4> DEFINE j == i - n
      <4>1. j \in 1..(u - n)
        BY <1>2, <3>2
      <4>2. CircularPointerAddOffset(r2, j - 1) = at(i)
        BY <1>2, <3>2, MixerBounds DEF Positions, CircularPointerAddOffset, r2
      <4>3. b[j] = Shown(m2, stereo, at(i))
        BY <2>2, <4>1, <4>2
      <4>4. Shown(m2, stereo, at(i)) = Shown(m, stereo, at(i))
        BY <1>5 DEF Shown, SameBuffers
      <4>5. QED
        BY <2>3, <2>4, <3>2, <4>3, <4>4
    <3>3. QED
      BY <3>1, <3>2
  <2>6. l = a \o b
    BY <2>3, <2>4, <2>5, SeqEqual
  <2>7. QED
    BY <2>6 DEF a, b, l
<1>9. QED
  BY <1>4, <1>5, <1>6, <1>7, <1>8 DEF Ships, m2

\* Two parts that are shipped are one.
LEMMA ShipsTwice ==
  ASSUME NEW m, NEW m1, NEW m2, NEW stereo, MixerInv(m), MixerInv(m1), MixerInv(m2),
         Unopened(m2), Ships(m1, m, stereo), Ships(m2, m1, stereo)
  PROVE  Ships(m2, m, stereo)
<1>1. PICK a \in Outputs : /\ FlattenSeq(m1.outputQueue) = FlattenSeq(m.outputQueue) \o a
                           /\ LineOf(m, stereo) = FlatPlaces(a) \o LineOf(m1, stereo)
  BY DEF Ships
<1>2. PICK b \in Outputs : /\ FlattenSeq(m2.outputQueue) = FlattenSeq(m1.outputQueue) \o b
                           /\ LineOf(m1, stereo) = FlatPlaces(b) \o LineOf(m2, stereo)
  BY DEF Ships
<1>3. PICK f \in Outputs : f = FlattenSeq(m.outputQueue)
  BY FlattenType DEF MixerInv, MixerType, Shipments, Outputs
<1>4. (f \o a) \o b = f \o (a \o b)
  BY SMTT(30) DEF Outputs
<1>5. PICK x \in Seq(SampleSets) : x = FlatPlaces(a)
  BY FlatPlacesType
<1>6. PICK y \in Seq(SampleSets) : y = FlatPlaces(b)
  BY FlatPlacesType
<1>7. PICK l \in Seq(SampleSets) : l = LineOf(m2, stereo)
  BY LineShows DEF MixerInv
<1>8. x \o (y \o l) = (x \o y) \o l
  OBVIOUS
<1>9. FlatPlaces(a \o b) = x \o y /\ a \o b \in Outputs
  BY <1>5, <1>6, FlatPlacesJoin
<1>10. LineOf(m, stereo) = FlatPlaces(a \o b) \o LineOf(m2, stereo)
  BY <1>1, <1>2, <1>5, <1>6, <1>7, <1>8, <1>9
<1>11. FlattenSeq(m2.outputQueue) = FlattenSeq(m.outputQueue) \o (a \o b)
  BY <1>1, <1>2, <1>3, <1>4
<1>12. QED
  BY <1>9, <1>10, <1>11 DEF Ships

\* CreateShipment ships one part or two.
LEMMA CreateShipmentShips ==
  ASSUME NEW m, MixerInv(m), Unopened(m), NEW stereo, NEW force \in BOOLEAN,
         force \/ HoldOff <= UsedSpace(m)
  PROVE  /\ Ships(CreateShipment(m, stereo, force), m, stereo)
         /\ SameBuffers(CreateShipment(m, stereo, force), m)
<1> DEFINE u == UsedSpace(m)
           stop == IF force THEN m.writePtr
                   ELSE CircularPointerSubtractOffset(m.writePtr, HoldOff)
<1>1. m \in MixerType /\ m.writePtr \in Positions /\ m.readPtr \in Positions
  BY DEF MixerInv, MixerType
<1>2. u \in 0..(Capacity - 1)
  BY <1>1, UsedSpaceBound
<1>3. u = IF m.writePtr >= m.readPtr THEN m.writePtr - m.readPtr
          ELSE Capacity + m.writePtr - m.readPtr
  BY DEF UsedSpace
<1>4. stop \in Positions
  BY <1>1, MixerBounds DEF Positions, CircularPointerSubtractOffset
<1>5. CASE stop < m.readPtr
  <2> DEFINE n == Capacity - m.readPtr
             m1 == ShipPart(m, stereo, n)
             m2 == ShipPart(m1, stereo, stop)
  <2>1. n \in 0..u /\ m.readPtr + n <= Capacity
    BY <1>1, <1>2, <1>3, <1>5, MixerBounds DEF Positions, CircularPointerSubtractOffset
  <2>2. /\ MixerInv(m1) /\ UsedSpace(m1) = u - n
        /\ m1.readPtr = CircularPointerAddOffset(m.readPtr, n)
    BY <2>1, ShipPartInv
  <2>3. m1.readPtr = 0
    BY <1>1, <2>2, MixerBounds DEF Positions, CircularPointerAddOffset
  <2>4. stop \in 0..(u - n)
    BY <1>1, <1>2, <1>3, <1>4, <1>5, <2>1, MixerBounds
    DEF Positions, CircularPointerSubtractOffset
  <2>5. 0 + stop <= Capacity
    BY <1>4, MixerBounds DEF Positions
  <2>6. CreateShipment(m, stereo, force) = m2
    BY <1>5 DEF CreateShipment
  <2>7. Ships(m1, m, stereo) /\ SameBuffers(m1, m) /\ Unopened(m1)
    BY <2>1, ShipPartShips
  <2> HIDE DEF m1, stop, u, n
  <2>8. Ships(m2, m1, stereo) /\ SameBuffers(m2, m1) /\ Unopened(m2) /\ MixerInv(m2)
    BY <2>2, <2>3, <2>4, <2>5, <2>7, ShipPartShips, ShipPartInv
  <2> HIDE DEF m2
  <2>9. Ships(m2, m, stereo)
    BY <2>2, <2>7, <2>8, ShipsTwice
  <2>10. QED
    BY <2>6, <2>7, <2>8, <2>9 DEF SameBuffers
<1>6. CASE ~(stop < m.readPtr)
  <2> DEFINE n == stop - m.readPtr
  <2>1. n \in 0..u /\ m.readPtr + n <= Capacity
    BY <1>1, <1>2, <1>3, <1>4, <1>6, MixerBounds DEF Positions, CircularPointerSubtractOffset
  <2>2. CreateShipment(m, stereo, force) = ShipPart(m, stereo, n)
    BY <1>6 DEF CreateShipment
  <2> HIDE DEF n, u
  <2>3. QED
    BY <2>1, <2>2, ShipPartShips DEF u
<1>7. QED
  BY <1>5, <1>6
-----------------------------------------------------------------------------
(* A packet is laid on the line *)

\* Every sample in the buffers is of one of the packets pk, and of its channel.
Own(m, pk) ==
  \A p \in Positions :
    /\ \A s \in m.buffer[p] : s[1] \in 1..Len(pk)
    /\ \A ch \in Channels : \A s \in m.channelBuffer[ch][p] :
         s[1] \in 1..Len(pk) /\ pk[s[1]].ch = ch

\* The packets on a line, and m2 is m with packet c laid on its line.
Laying(l) == {s[1] : s \in Mixed!Samples(l)}
Lays(m2, m, stereo, c, first) ==
  \E over \in SUBSET Laying(LineOf(m, stereo)) :
    LineOf(m2, stereo) = Mixed!Laid(LineOf(m, stereo), c, first, over)

Apart(w, r, u) == u = IF w >= r THEN w - r ELSE Capacity + w - r

\* Where the samples of a packet that starts d places back are on the line.
LEMMA SampleOnLine ==
  ASSUME NEW w \in Positions, NEW r \in Positions,
         NEW u, Apart(w, r, u), NEW d \in 0..u, NEW k \in 1..d, NEW i \in 1..u
  PROVE  CircularPointerAddOffset(CircularPointerSubtractOffset(w, d), k - 1)
           = CircularPointerAddOffset(r, i - 1)
         <=> i = u - d + k
  BY MixerBounds DEF Apart, Positions, CircularPointerAddOffset, CircularPointerSubtractOffset

\* The samples of a packet are of its channel.
LEMMA MixSamplesOwn ==
  ASSUME NEW m, NEW pk, MixerInv(m), Own(m, pk), NEW c \in PacketType,
         c.id \in 1..Len(pk), pk[c.id].ch = c.ch, NEW ts
  PROVE  /\ Own(MixSamples(m, c, ts), pk)
         /\ MixSamples(m, c, ts).outputQueue = m.outputQueue
         /\ MixSamples(m, c, ts).numInputChannels = m.numInputChannels
         /\ UsedSpace(MixSamples(m, c, ts)) = UsedSpace(m)
<1> DEFINE start == FirstPlace(m, c, ts)
           target == Places(start, c.n)
           at(p) == {<<c.id, k>> : k \in {k \in 1..c.n : CircularPointerAddOffset(start, k - 1) = p}}
           b == [p \in Positions |-> m.buffer[p] \cup at(p)]
           cb == [ch \in Channels |-> [p \in Positions |->
                    IF ch = c.ch /\ m.numInputChannels # 0 /\ p \in target
                    THEN at(p) ELSE m.channelBuffer[ch][p]]]
           m2 == MixSamples(m, c, ts)
<1>1. m \in MixerType
  BY DEF MixerInv
<1>2. m2 = [m EXCEPT !.buffer = b, !.channelBuffer = cb]
  BY DEF MixSamples
<1>3. ASSUME NEW p \in Positions, NEW s \in at(p) PROVE s[1] = c.id
  BY <1>3
<1> HIDE DEF at, target, start
<1>4. \A p \in Positions : b[p] = m.buffer[p] \cup at(p)
  OBVIOUS
<1>5. \A ch \in Channels, p \in Positions :
        cb[ch][p] = IF ch = c.ch /\ m.numInputChannels # 0 /\ p \in target
                    THEN at(p) ELSE m.channelBuffer[ch][p]
  OBVIOUS
<1> HIDE DEF b, cb, m2
<1>6. /\ m2.buffer = b /\ m2.channelBuffer = cb /\ m2.writePtr = m.writePtr
      /\ m2.readPtr = m.readPtr /\ m2.outputQueue = m.outputQueue
      /\ m2.numInputChannels = m.numInputChannels
  BY <1>1, <1>2 DEF MixerType
<1>7. ASSUME NEW p \in Positions, NEW s \in b[p] PROVE s[1] \in 1..Len(pk)
  BY <1>3, <1>4, <1>7 DEF Own
<1>8. ASSUME NEW p \in Positions, NEW ch \in Channels, NEW s \in cb[ch][p]
      PROVE  s[1] \in 1..Len(pk) /\ pk[s[1]].ch = ch
  <2>1. CASE ch = c.ch /\ s \in at(p)
    BY <1>3, <2>1
  <2>2. CASE s \in m.channelBuffer[ch][p]
    BY <2>2 DEF Own
  <2>3. QED
    BY <1>5, <1>8, <2>1, <2>2
<1>9. UsedSpace(m2) = UsedSpace(m)
  BY <1>6 DEF UsedSpace
<1>10. QED
  BY <1>6, <1>7, <1>8, <1>9 DEF Own, m2

\* The samples of a packet are laid on the line side by side.
LEMMA MixSamplesLays ==
  ASSUME NEW m, NEW pk, MixInv(m, pk), Own(m, pk), NEW stereo, OneMix(m, stereo),
         stereo => m.numInputChannels # 0,
         NEW c \in PacketType, c.n # 0, NEW ts \in Int,
         NEW d, d = m.writeTs - ts, d \in 0..UsedSpace(m), c.n <= d,
         MixInv(MixSamples(m, c, ts), pk)
  PROVE  Lays(MixSamples(m, c, ts), m, stereo, c, UsedSpace(m) - d + 1)
<1> DEFINE start == FirstPlace(m, c, ts)
           target == Places(start, c.n)
           at(p) == {<<c.id, k>> : k \in {k \in 1..c.n : CircularPointerAddOffset(start, k - 1) = p}}
           b == [p \in Positions |-> m.buffer[p] \cup at(p)]
           cb == [ch \in Channels |-> [p \in Positions |->
                    IF ch = c.ch /\ m.numInputChannels # 0 /\ p \in target
                    THEN at(p) ELSE m.channelBuffer[ch][p]]]
           m2 == MixSamples(m, c, ts)
           u == UsedSpace(m)
           first == u - d + 1
           end == first + c.n - 1
           l == LineOf(m, stereo)
           over == IF stereo THEN {x \in Laying(l) : pk[x].ch = c.ch} ELSE {}
           place(i) == CircularPointerAddOffset(m.readPtr, i - 1)
<1>1. MixerInv(m2) /\ MixerInv(m) /\ Unopened(m)
  BY DEF MixInv
<1>2. /\ m \in MixerType /\ m2 \in MixerType /\ m.writePtr \in Positions /\ m.readPtr \in Positions
      /\ m.numInputChannels \in Nat /\ u \in 0..(Capacity - 1) /\ u \in Nat
  BY <1>1, UsedSpaceBound, MixerBounds DEF MixerInv, MixerType
<1>3. c.id \in Nat /\ c.n \in Nat /\ c.ch \in Channels /\ c.n >= 1 /\ d \in Nat
  BY <1>2 DEF PacketType
<1>4. m2 = [m EXCEPT !.buffer = b, !.channelBuffer = cb]
  BY DEF MixSamples
<1>5. start = CircularPointerSubtractOffset(m.writePtr, d)
  BY DEF FirstPlace
<1>6. u = IF m.writePtr >= m.readPtr THEN m.writePtr - m.readPtr
          ELSE Capacity + m.writePtr - m.readPtr
  BY DEF UsedSpace
<1>7. ASSUME NEW i \in 1..u, NEW k \in 1..c.n
      PROVE  CircularPointerAddOffset(start, k - 1) = place(i) <=> i = first + k - 1
  <2>1. k \in 1..d /\ d \in 0..u
    BY <1>2, <1>3
  <2> HIDE DEF u, start
  <2>2. CircularPointerAddOffset(start, k - 1) = place(i) <=> i = u - d + k
    <3>1. PICK w \in Positions, r \in Positions : w = m.writePtr /\ r = m.readPtr
      BY <1>2
    <3>2. PICK v : v = u
      OBVIOUS
    <3>3. Apart(w, r, v) /\ d \in 0..v /\ k \in 1..d /\ i \in 1..v
      BY <1>6, <2>1, <3>1, <3>2 DEF Apart
    <3>4. CircularPointerAddOffset(CircularPointerSubtractOffset(w, d), k - 1)
            = CircularPointerAddOffset(r, i - 1) <=> i = v - d + k
      BY <3>3, SampleOnLine
    <3>5. QED
      BY <1>5, <3>1, <3>2, <3>4
  <2>3. QED
    BY <1>2, <1>3, <2>1, <2>2
<1>8. \A p \in Positions : b[p] = m.buffer[p] \cup at(p)
  OBVIOUS
<1>9. \A ch \in Channels, p \in Positions :
        cb[ch][p] = IF ch = c.ch /\ m.numInputChannels # 0 /\ p \in target
                    THEN at(p) ELSE m.channelBuffer[ch][p]
  OBVIOUS
<1> HIDE DEF b, cb, m2
<1>10. /\ m2.buffer = b /\ m2.channelBuffer = cb /\ m2.writePtr = m.writePtr
       /\ m2.readPtr = m.readPtr /\ m2.outputQueue = m.outputQueue
       /\ m2.numInputChannels = m.numInputChannels
  BY <1>2, <1>4 DEF MixerType
<1>11. UsedSpace(m2) = u
  BY <1>10 DEF UsedSpace
<1>13. ASSUME NEW i \in 1..u, i \in first..end
       PROVE  at(place(i)) = {<<c.id, i - first + 1>>} /\ place(i) \in target
  <2> DEFINE k == i - first + 1
  <2>0. first \in Int /\ i \in first..(first + c.n - 1)
    BY <1>2, <1>3, <1>13
  <2>1. k \in 1..c.n /\ i = first + k - 1
    <3> HIDE DEF first, u
    <3>1. QED
      BY <1>3, <2>0
  <2> HIDE DEF k, start, place, first
  <2>2. CircularPointerAddOffset(start, k - 1) = place(i)
    BY <1>7, <2>1
  <2>3. \A j \in 1..c.n : CircularPointerAddOffset(start, j - 1) = place(i) => j = k
    <3> SUFFICES ASSUME NEW j \in 1..c.n, CircularPointerAddOffset(start, j - 1) = place(i)
                 PROVE  j = k
      OBVIOUS
    <3>1. i = first + j - 1
      BY <1>7
    <3>2. first \in Int
      BY <1>2, <1>3 DEF first
    <3>3. QED
      BY <1>3, <2>1, <3>1, <3>2
  <2>4. at(place(i)) = {<<c.id, k>>}
    BY <2>1, <2>2, <2>3
  <2>5. k - 1 \in 0..(c.n - 1)
    BY <1>3, <2>1
  <2>6. place(i) \in target
    BY <2>2, <2>5 DEF Places
  <2>7. QED
    BY <2>4, <2>6 DEF k
<1>14. ASSUME NEW i \in 1..u, i \notin first..end
       PROVE  at(place(i)) = {} /\ place(i) \notin target
  <2> HIDE DEF start, place
  <2>1. ASSUME NEW k \in 1..c.n PROVE CircularPointerAddOffset(start, k - 1) # place(i)
    <3>1. i # first + k - 1
      BY <1>2, <1>3, <1>14
    <3>2. QED
      BY <1>7, <3>1
  <2>2. at(place(i)) = {}
    BY <2>1
  <2>3. ASSUME NEW j \in 0..(c.n - 1) PROVE CircularPointerAddOffset(start, j) # place(i)
    <3>1. j + 1 \in 1..c.n /\ (j + 1) - 1 = j
      BY <1>3
    <3>2. CircularPointerAddOffset(start, (j + 1) - 1) # place(i)
      BY <2>1, <3>1
    <3>3. QED
      BY <3>1, <3>2
  <2>4. QED
    BY <2>2, <2>3 DEF Places
<1>15. /\ Len(l) = u /\ l \in Seq(SampleSets)
       /\ \A i \in 1..u : l[i] = Shown(m, stereo, place(i)) /\ place(i) \in Positions
  BY <1>1, <1>2, LineShows
<1>16. LineOf(m2, stereo) = [i \in 1..u |-> Shown(m2, stereo, place(i))]
  <2>1. Unopened(m2)
    BY DEF m2, MixInv
  <2>2. QED
    BY <1>2, <1>10, <1>11, <2>1, LineShows
<1>17. ASSUME NEW i \in 1..u
       PROVE  Shown(m2, stereo, place(i))
                = IF i \in first..end
                  THEN {<<c.id, i - first + 1>>} \cup {s \in l[i] : s[1] \notin over}
                  ELSE l[i]
  <2> DEFINE p == place(i)
  <2>0. p \in Positions /\ l[i] = Shown(m, stereo, p)
    BY <1>15, <1>17
  <2>1. CASE ~stereo
    <3>1. Shown(m2, stereo, p) = m.buffer[p] \cup at(p) /\ l[i] = m.buffer[p] /\ over = {}
      BY <1>8, <1>10, <2>0, <2>1 DEF Shown
    <3> HIDE DEF place, at, over, first, end, l, p
    <3>2. CASE i \in first..end
      BY <1>13, <3>1, <3>2 DEF p
    <3>3. CASE i \notin first..end
      BY <1>14, <3>1, <3>3 DEF p
    <3>4. QED
      BY <3>2, <3>3
  <2>2. CASE stereo
    <3>1. m.numInputChannels # 0 /\ m2.numInputChannels # 0
      BY <1>10, <2>2
    <3>2. /\ Shown(m2, stereo, p) = UNION {cb[ch][p] : ch \in Channels}
          /\ l[i] = UNION {m.channelBuffer[ch][p] : ch \in Channels}
      BY <1>10, <2>0, <2>2, <3>1 DEF Shown
    <3>3. \A s \in l[i] : s[1] \in Laying(l)
      <4>1. i \in 1..Len(l)
        BY <1>15
      <4>2. QED
        BY <4>1 DEF Laying, Mixed!Samples
    <3>4. \A s \in l[i] : s[1] \in over <=> pk[s[1]].ch = c.ch
      <4> HIDE DEF l
      <4>1. QED
        BY <2>2, <3>3
    <3> HIDE DEF place, at, over, first, end, l, target
    <3>5. CASE i \notin first..end
      <4>1. \A ch \in Channels : cb[ch][p] = m.channelBuffer[ch][p]
        BY <1>9, <1>14, <2>0, <3>5
      <4>2. QED
        BY <3>2, <3>5, <4>1
    <3>6. CASE i \in first..end
      <4>0. at(p) = {<<c.id, i - first + 1>>} /\ p \in target
        BY <1>13, <3>6
      <4>1. cb[c.ch][p] = {<<c.id, i - first + 1>>}
        BY <1>3, <1>9, <2>0, <3>1, <4>0
      <4>2. \A ch \in Channels : ch # c.ch => cb[ch][p] = m.channelBuffer[ch][p]
        BY <1>9, <2>0
      <4>3. ASSUME NEW s \in l[i], s[1] \notin over
            PROVE  s \in UNION {cb[ch][p] : ch \in Channels}
        <5>1. PICK ch \in Channels : s \in m.channelBuffer[ch][p]
          BY <3>2, <4>3
        <5>2. pk[s[1]].ch = ch
          BY <2>0, <5>1 DEF Own
        <5>3. ch # c.ch
          BY <3>4, <4>3, <5>2
        <5>4. QED
          BY <4>2, <5>1, <5>3
      <4>4. ASSUME NEW ch \in Channels, NEW s \in cb[ch][p], ch # c.ch
            PROVE  s \in l[i] /\ s[1] \notin over
        <5>1. s \in m.channelBuffer[ch][p] /\ s \in l[i]
          BY <3>2, <4>2, <4>4
        <5>2. pk[s[1]].ch = ch
          BY <2>0, <5>1 DEF Own
        <5>3. QED
          BY <3>4, <4>4, <5>1, <5>2
      <4>5. UNION {cb[ch][p] : ch \in Channels}
              = {<<c.id, i - first + 1>>} \cup {s \in l[i] : s[1] \notin over}
        BY <1>3, <4>1, <4>3, <4>4
      <4>6. QED
        BY <3>2, <3>6, <4>5
    <3>7. QED
      BY <3>5, <3>6
  <2>3. QED
    BY <2>1, <2>2
<1>18. Mixed!Laid(l, c, first, over)
         = [i \in 1..u |-> IF i \in first..end
                           THEN {<<c.id, i - first + 1>>} \cup {s \in l[i] : s[1] \notin over}
                           ELSE l[i]]
  <2>1. end <= u /\ ~(end > u) /\ end \in Int
    BY <1>2, <1>3
  <2>2. Len(l) = u
    BY <1>15
  <2> HIDE DEF l, over, first, u
  <2>3. \A i \in 1..u : i <= u
    BY <1>2
  <2>4. QED
    BY <2>1, <2>2, <2>3 DEF Mixed!Laid
<1>19. Lays(m2, m, stereo, c, first)
  <2>1. over \in SUBSET Laying(l)
    OBVIOUS
  <2>2. LineOf(m2, stereo) = Mixed!Laid(l, c, first, over)
    <3> HIDE DEF l, over, first, end, place, u
    <3>1. QED
      BY <1>16, <1>17, <1>18
  <2> HIDE DEF over
  <2>3. QED
    BY <2>1, <2>2 DEF Lays
<1>20. QED
  BY <1>19 DEF m2
-----------------------------------------------------------------------------
(* A packet after silence *)

\* Silence changes the owner of no sample.
LEMMA WriteSilenceOwn ==
  ASSUME NEW m, NEW pk, MixerInv(m), Own(m, pk), NEW n
  PROVE  Own(WriteSilence(m, n), pk) /\ WriteSilence(m, n).outputQueue = m.outputQueue
<1> DEFINE m2 == WriteSilence(m, n)
           zeroed == Places(m.writePtr, n)
           b == [p \in Positions |-> IF p \in zeroed THEN {} ELSE m.buffer[p]]
           cb == [ch \in Channels |-> [p \in Positions |->
                    IF p \in zeroed /\ ch <= m.numInputChannels THEN {}
                    ELSE m.channelBuffer[ch][p]]]
           w2 == CircularPointerAddOffset(m.writePtr, n)
           l2 == IF UsedSpace(m) + n >= Capacity THEN m.lost + Capacity ELSE m.lost
<1>1. m \in MixerType
  BY DEF MixerInv
<1>2. m2 = [m EXCEPT !.buffer = b, !.channelBuffer = cb, !.writePtr = w2,
                     !.writeTs = m.writeTs + n, !.lost = l2]
  BY DEF WriteSilence
<1>3. \A p \in Positions : b[p] \subseteq m.buffer[p]
  OBVIOUS
<1>4. \A ch \in Channels, p \in Positions : cb[ch][p] \subseteq m.channelBuffer[ch][p]
  OBVIOUS
<1> HIDE DEF m2, b, cb, w2, l2
<1>5. m2.buffer = b /\ m2.channelBuffer = cb /\ m2.outputQueue = m.outputQueue
  BY <1>1, <1>2 DEF MixerType
<1>6. QED
  BY <1>3, <1>4, <1>5 DEF Own, m2

\* Silence lengthens the line, unless it fills the buffer exactly.
LEMMA SilenceLengthens ==
  ASSUME NEW m, NEW pk, MixInv(m, pk), NEW stereo, NEW n \in 1..(Capacity - 1),
         m.writeTs + n < TsModulus, UsedSpace(m) + n < Capacity
  PROVE  /\ UsedSpace(WriteSilence(m, n)) = UsedSpace(m) + n
         /\ LineOf(WriteSilence(m, n), stereo)
              = [i \in 1..(UsedSpace(m) + n) |->
                   IF i <= UsedSpace(m) THEN LineOf(m, stereo)[i] ELSE {}]
<1> DEFINE m2 == WriteSilence(m, n)
           u == UsedSpace(m)
           zeroed == Places(m.writePtr, n)
           b == [p \in Positions |-> IF p \in zeroed THEN {} ELSE m.buffer[p]]
           cb == [ch \in Channels |-> [p \in Positions |->
                    IF p \in zeroed /\ ch <= m.numInputChannels THEN {}
                    ELSE m.channelBuffer[ch][p]]]
           w2 == CircularPointerAddOffset(m.writePtr, n)
           l2 == IF UsedSpace(m) + n >= Capacity THEN m.lost + Capacity ELSE m.lost
           l == LineOf(m, stereo)
           place(i) == CircularPointerAddOffset(m.readPtr, i - 1)
<1>1. MixInv(m2, pk) /\ MixerInv(m2) /\ Unopened(m2) /\ MixerInv(m) /\ Unopened(m)
  BY WriteSilenceAligned DEF MixInv
<1>2. /\ m \in MixerType /\ m2 \in MixerType /\ m.writePtr \in Positions /\ m.readPtr \in Positions
      /\ m.numInputChannels \in Nat /\ u \in 0..(Capacity - 1) /\ u \in Nat
  BY <1>1, UsedSpaceBound, MixerBounds DEF MixerInv, MixerType
<1>3. m2 = [m EXCEPT !.buffer = b, !.channelBuffer = cb, !.writePtr = w2,
                     !.writeTs = m.writeTs + n, !.lost = l2]
  BY DEF WriteSilence
<1>4. \A p \in Positions : b[p] = IF p \in zeroed THEN {} ELSE m.buffer[p]
  OBVIOUS
<1>5. \A ch \in Channels, p \in Positions :
        cb[ch][p] = IF p \in zeroed THEN {} ELSE m.channelBuffer[ch][p]
  <2> SUFFICES ASSUME NEW ch \in Channels, NEW p \in Positions
               PROVE  cb[ch][p] = IF p \in zeroed THEN {} ELSE m.channelBuffer[ch][p]
    OBVIOUS
  <2>1. cb[ch][p] = IF p \in zeroed /\ ch <= m.numInputChannels THEN {}
                    ELSE m.channelBuffer[ch][p]
    OBVIOUS
  <2>2. ch <= m.numInputChannels \/ m.channelBuffer[ch][p] = {}
    BY <1>1, <1>2, MixerBounds DEF Unopened, Channels
  <2> HIDE DEF cb, zeroed
  <2>3. QED
    BY <2>1, <2>2
<1> HIDE DEF m2, b, cb, w2, l2, zeroed
<1>6. /\ m2.buffer = b /\ m2.channelBuffer = cb /\ m2.writePtr = w2
      /\ m2.readPtr = m.readPtr /\ m2.numInputChannels = m.numInputChannels
  BY <1>2, <1>3 DEF MixerType
<1>7. UsedSpace(m2) = u + n
  <2>1. (IF w2 >= m.readPtr THEN w2 - m.readPtr ELSE Capacity + w2 - m.readPtr)
          = IF u + n >= Capacity THEN u + n - Capacity ELSE u + n
    <3>1. n \in 0..(Capacity - 1)
      BY MixerBounds
    <3>2. QED
      BY <1>2, <3>1, WritePointerMoves DEF UsedSpace, w2
  <2>2. ~(u + n >= Capacity)
    BY <1>2, MixerBounds
  <2> HIDE DEF u
  <2>3. QED
    BY <1>6, <2>1, <2>2 DEF UsedSpace
<1>9. ASSUME NEW i \in 1..(u + n) PROVE place(i) \in zeroed <=> i > u
  <2>1. PICK w \in Positions, r \in Positions : w = m.writePtr /\ r = m.readPtr
    BY <1>2
  <2>2. PICK v \in 0..(Capacity - 1) : v = u
    BY <1>2
  <2>3. v = (IF w >= r THEN w - r ELSE Capacity + w - r) /\ v + n < Capacity /\ i \in 1..(v + n)
    BY <2>1, <2>2, <1>9 DEF UsedSpace
  <2>4. ASSUME NEW j \in 0..(n - 1)
        PROVE  CircularPointerAddOffset(w, j) = CircularPointerAddOffset(r, i - 1) <=> i = v + j + 1
    BY <2>3, MixerBounds DEF CircularPointerAddOffset, Positions
  <2>5. CASE i > u
    <3> DEFINE j == i - 1 - v
    <3>1. j \in 0..(n - 1) /\ i = v + j + 1
      BY <2>2, <2>3, <2>5
    <3> HIDE DEF j
    <3>2. CircularPointerAddOffset(w, j) = CircularPointerAddOffset(r, i - 1)
      BY <2>4, <3>1
    <3>3. QED
      BY <2>1, <2>5, <3>1, <3>2 DEF zeroed, Places
  <2>6. CASE ~(i > u)
    <3>1. \A j \in 0..(n - 1) : i # v + j + 1
      BY <2>2, <2>3, <2>6
    <3>2. \A j \in 0..(n - 1) : CircularPointerAddOffset(w, j) # CircularPointerAddOffset(r, i - 1)
      BY <2>4, <3>1
    <3>3. QED
      BY <2>1, <2>6, <3>2 DEF zeroed, Places
  <2>7. QED
    BY <2>5, <2>6
<1>10. /\ Len(l) = u /\ l \in Seq(SampleSets)
       /\ \A i \in 1..u : l[i] = Shown(m, stereo, place(i)) /\ place(i) \in Positions
  BY <1>1, <1>2, LineShows
<1>11. /\ LineOf(m2, stereo) = [i \in 1..(u + n) |-> Shown(m2, stereo, place(i))]
       /\ \A i \in 1..(u + n) : place(i) \in Positions
  BY <1>1, <1>2, <1>6, <1>7, LineShows
<1>12. ASSUME NEW i \in 1..(u + n)
       PROVE  Shown(m2, stereo, place(i)) = IF i <= u THEN l[i] ELSE {}
  <2>1. place(i) \in Positions
    BY <1>11, <1>12
  <2>2. CASE i <= u
    <3>1. i \in 1..u /\ ~(i > u)
      BY <1>2, <2>2
    <3>2. place(i) \notin zeroed
      BY <1>9, <3>1
    <3> HIDE DEF place, l
    <3>3. Shown(m2, stereo, place(i)) = Shown(m, stereo, place(i))
      <4>1. b[place(i)] = m.buffer[place(i)]
        BY <1>4, <2>1, <3>2
      <4>2. \A ch \in Channels : cb[ch][place(i)] = m.channelBuffer[ch][place(i)]
        BY <1>5, <2>1, <3>2
      <4>3. UNION {cb[ch][place(i)] : ch \in Channels}
              = UNION {m.channelBuffer[ch][place(i)] : ch \in Channels}
        BY <4>2
      <4>4. QED
        BY <1>6, <4>1, <4>3 DEF Shown
    <3>4. QED
      BY <1>10, <2>2, <3>1, <3>3
  <2>3. CASE ~(i <= u)
    <3>1. i > u
      BY <1>2, <2>3
    <3>2. place(i) \in zeroed
      BY <1>9, <3>1
    <3> HIDE DEF place, l
    <3>3. Shown(m2, stereo, place(i)) = {}
      BY <1>4, <1>5, <1>6, <2>1, <3>2 DEF Shown
    <3>4. QED
      BY <2>3, <3>3
  <2>4. QED
    BY <2>2, <2>3
<1>13. LineOf(m2, stereo) = [i \in 1..(u + n) |-> IF i <= u THEN l[i] ELSE {}]
  <2> HIDE DEF place, l, u
  <2>1. QED
    BY <1>11, <1>12
<1>14. QED
  BY <1>7, <1>13 DEF m2

\* What a packet that is stored makes of the line of m: nothing, one with the
\* packet, or none if it fills the buffer exactly.
First(m, ts) == UsedSpace(m) + ts - m.writeTs + 1
FillsUp(m, c, ts) == First(m, ts) + c.n - 1 = Capacity /\ UsedSpace(m) < Capacity
Stored(m2, m, stereo, c, ts) ==
  \/ LineOf(m2, stereo) = LineOf(m, stereo)
  \/ First(m, ts) \in 1..(Capacity - c.n) /\ Lays(m2, m, stereo, c, First(m, ts))
  \/ LineOf(m2, stereo) = << >> /\ FillsUp(m, c, ts) /\ First(m, ts) \in 1..Capacity

\* The packet fits into the window, as StoreRtpPacket relies on.
Within(m, c, ts) ==
  /\ ts + c.n - m.writeTs < Capacity => ts + c.n - m.writeTs <= FreeSpace(m)
  /\ m.writeTs - ts < Capacity => m.writeTs - ts <= UsedSpace(m)

\* A packet that is laid after silence is laid behind the line.
LEMMA LaysAfterSilence ==
  ASSUME NEW m, NEW z, NEW m2, NEW stereo, NEW c \in PacketType, NEW first \in Nat,
         NEW u \in Nat, NEW n \in Nat, Lays(m2, z, stereo, c, first),
         LineOf(m, stereo) \in Seq(SampleSets), Len(LineOf(m, stereo)) = u,
         LineOf(z, stereo) = [i \in 1..(u + n) |-> IF i <= u THEN LineOf(m, stereo)[i] ELSE {}],
         first + c.n - 1 = u + n, n # 0
  PROVE  Lays(m2, m, stereo, c, first)
<1> DEFINE l == LineOf(m, stereo)
           x == LineOf(z, stereo)
           end == first + c.n - 1
<1>1. PICK over \in SUBSET Laying(x) : LineOf(m2, stereo) = Mixed!Laid(x, c, first, over)
  BY DEF Lays
<1>2. Len(x) = u + n /\ \A i \in 1..(u + n) : x[i] = IF i <= u THEN l[i] ELSE {}
  OBVIOUS
<1>3. Len(l) = u
  OBVIOUS
<1> HIDE DEF l, x
<1>4. Laying(x) \subseteq Laying(l)
  <2> SUFFICES ASSUME NEW i \in 1..(u + n), NEW s \in x[i] PROVE s[1] \in Laying(l)
    BY <1>2, SMTT(30) DEF Laying, Mixed!Samples
  <2>1. i <= u /\ s \in l[i]
    BY <1>2
  <2>2. i \in 1..u
    BY <2>1
  <2>3. QED
    BY <1>3, <2>1, <2>2 DEF Laying, Mixed!Samples
<1>5. Mixed!Laid(x, c, first, over) = Mixed!Laid(l, c, first, over)
  <2>1. end = u + n /\ end > u /\ end \in Nat
    OBVIOUS
  <2> HIDE DEF end
  <2>2. Mixed!Laid(x, c, first, over)
          = [i \in 1..(u + n) |->
               IF i \in first..end THEN {<<c.id, i - first + 1>>} \cup {s \in x[i] : s[1] \notin over}
               ELSE x[i]]
    <3>1. (IF end > Len(x) THEN end ELSE Len(x)) = u + n
      BY <1>2, <2>1
    <3>2. \A i \in 1..(u + n) : i <= Len(x)
      BY <1>2
    <3>3. QED
      BY <3>1, <3>2 DEF Mixed!Laid, end
  <2>3. Mixed!Laid(l, c, first, over)
          = [i \in 1..(u + n) |->
               IF i \in first..end
               THEN {<<c.id, i - first + 1>>}
                      \cup {s \in IF i <= u THEN l[i] ELSE {} : s[1] \notin over}
               ELSE IF i <= u THEN l[i] ELSE {}]
    <3>1. (IF end > Len(l) THEN end ELSE Len(l)) = u + n
      BY <1>3, <2>1
    <3>2. QED
      BY <1>3, <3>1 DEF Mixed!Laid, end
  <2>4. QED
    BY <1>2, <2>2, <2>3
<1>6. over \in SUBSET Laying(l) /\ LineOf(m2, stereo) = Mixed!Laid(l, c, first, over)
  BY <1>1, <1>4, <1>5
<1>7. QED
  BY <1>6 DEF Lays, l

\* StoreRtpPacket lays the packet on the line at the place of its timestamp.
LEMMA StoreLays ==
  ASSUME NEW m, NEW pk, MixInv(m, pk), Own(m, pk), NEW stereo, OneMix(m, stereo),
         stereo => m.numInputChannels # 0, NEW c \in PacketType, c.n \in 1..(Capacity - 1),
         NEW ts \in Timestamps, Carries(pk, c, ts), pk[c.id].ch = c.ch, Opened(m, c),
         Within(m, c, ts)
  PROVE  /\ Own(StoreRtpPacket(m, c, ts), pk)
         /\ StoreRtpPacket(m, c, ts).outputQueue = m.outputQueue
         /\ Stored(StoreRtpPacket(m, c, ts), m, stereo, c, ts)
<1> DEFINE end == ts + c.n
           silence == end - m.writeTs
           zeroed == IF silence > 0 THEN WriteSilence(m, silence) ELSE m
           behind == zeroed.writeTs - ts
           u == UsedSpace(m)
           m2 == StoreRtpPacket(m, c, ts)
           first == First(m, ts)
<1>1. /\ m.writeTs \in Timestamps /\ c.n \in Nat /\ end \in Int /\ silence \in Int /\ ts \in Int
      /\ m.writeTs \in Int /\ m \in MixerType /\ MixerInv(m) /\ Unopened(m)
      /\ u \in 0..(Capacity - 1) /\ u \in Nat /\ c.id \in 1..Len(pk)
  BY UsedSpaceBound, MixerBounds, SMTT(30) DEF MixInv, MixerInv, PacketType, Timestamps, Carries
<1>a. /\ m.writeTs \in Int /\ ts \in Int /\ c.n \in Int /\ u \in Int
      /\ 1 <= c.n /\ c.n < Capacity /\ 0 <= u /\ u < Capacity
      /\ Capacity \in Int /\ TsModulus \in Int
  <2>1. /\ m.writeTs \in Int /\ ts \in Int
    BY <1>1
  <2>2. c.n \in Int /\ 1 <= c.n /\ c.n < Capacity
    BY MixerBounds
  <2>3. u \in Int /\ 0 <= u /\ u < Capacity
    BY <1>1, MixerBounds
  <2>4. QED
    BY <2>1, <2>2, <2>3, MixerBounds
<1>b. /\ silence < Capacity => silence <= Capacity - u
      /\ m.writeTs - ts < Capacity => m.writeTs - ts <= u
  BY <1>a DEF Within, FreeSpace
<1>c. first = u + ts - m.writeTs + 1
  BY DEF First
<1> HIDE DEF u, first
<1>2. CASE end >= TsModulus \/ silence >= Capacity
  BY <1>2 DEF StoreRtpPacket, Stored
<1>3. CASE ~(end >= TsModulus \/ silence >= Capacity) /\ ~(silence > 0)
  <2>1. m2 = IF behind < 0 \/ behind >= Capacity THEN m ELSE MixSamples(m, c, ts)
    BY <1>3 DEF StoreRtpPacket
  <2>2. behind = m.writeTs - ts
    BY <1>3
  <2>3. CASE behind < 0 \/ behind >= Capacity
    BY <2>1, <2>3 DEF Stored
  <2>4. CASE ~(behind < 0 \/ behind >= Capacity)
    <3> DEFINE d == m.writeTs - ts
    <3>1. d \in 0..(Capacity - 1) /\ d <= u /\ c.n <= d /\ ts + c.n <= m.writeTs
      BY <1>3, <1>a, <1>b, <2>2, <2>4
    <3>2. d \in 0..u
      BY <1>1, <3>1
    <3>3. MixInv(MixSamples(m, c, ts), pk)
      BY <3>1, MixSamplesAligned
    <3>4. m2 = MixSamples(m, c, ts)
      BY <2>1, <2>4
    <3>5. Own(m2, pk) /\ m2.outputQueue = m.outputQueue
      BY <1>1, <3>4, MixSamplesOwn
    <3>6. first = u - d + 1 /\ first \in 1..(Capacity - c.n)
      BY <1>a, <1>c, <3>1
    <3>7. Lays(m2, m, stereo, c, first)
      <4> HIDE DEF first, m2
      <4>1. PICK e : e = d
        OBVIOUS
      <4>a. e = m.writeTs - ts /\ e \in 0..UsedSpace(m) /\ c.n <= e /\ c.n # 0 /\ ts \in Int
        BY <1>a, <3>1, <3>2, <4>1 DEF u
      <4>2. Lays(MixSamples(m, c, ts), m, stereo, c, UsedSpace(m) - e + 1)
        BY <3>3, <4>a, MixSamplesLays
      <4>3. QED
        BY <3>4, <3>6, <4>1, <4>2 DEF u
    <3>8. QED
      BY <3>5, <3>6, <3>7 DEF Stored, first
  <2>5. QED
    BY <2>3, <2>4
<1>4. CASE ~(end >= TsModulus \/ silence >= Capacity) /\ silence > 0
  <2> DEFINE z == WriteSilence(m, silence)
  <2>1. silence \in 1..(Capacity - 1) /\ m.writeTs + silence < TsModulus
        /\ m.writeTs + silence = end
    BY <1>4, <1>a
  <2>2. silence <= Capacity - u /\ (m.writeTs - ts < Capacity => m.writeTs - ts <= u)
    BY <1>4, <1>a, <1>b
  <2>3. zeroed = z
    BY <1>4
  <2>4. m2 = IF behind < 0 \/ behind >= Capacity THEN zeroed ELSE MixSamples(zeroed, c, ts)
    BY <1>4 DEF StoreRtpPacket
  <2> HIDE DEF zeroed, m2
  <2>5. /\ MixInv(z, pk) /\ z.writeTs = m.writeTs + silence
        /\ z.numInputChannels = m.numInputChannels
        /\ Own(z, pk) /\ z.outputQueue = m.outputQueue
    <3> HIDE DEF silence
    <3>1. QED
      BY <1>1, <2>1, WriteSilenceAligned, WriteSilenceOwn
  <2>6. z.writeTs = end /\ behind = c.n /\ z.writeTs - ts = c.n /\ MixerInv(z) /\ z \in MixerType
    BY <1>1, <2>1, <2>3, <2>5 DEF MixInv, MixerInv
  <2>7. m2 = MixSamples(z, c, ts)
    <3>1. ~(behind < 0 \/ behind >= Capacity)
      BY <1>a, <2>6
    <3>2. QED
      BY <2>3, <2>4, <3>1
  <2> HIDE DEF z
  <2>8. /\ Own(m2, pk) /\ m2.outputQueue = m.outputQueue /\ UsedSpace(m2) = UsedSpace(z)
        /\ m2.numInputChannels = m.numInputChannels
    BY <1>1, <2>5, <2>6, <2>7, MixSamplesOwn
  <2>9. MixInv(m2, pk)
    <3>1. z.writeTs - ts \in 0..(Capacity - 1) /\ ts + c.n <= z.writeTs
      BY <1>1, <2>6, MixerBounds
    <3>2. Opened(z, c)
      BY <2>5 DEF Opened
    <3>3. QED
      BY <2>5, <2>7, <3>1, <3>2, MixSamplesAligned
  <2>10. CASE u + silence < Capacity
    <3>1. /\ UsedSpace(z) = u + silence
          /\ LineOf(z, stereo) = [i \in 1..(u + silence) |->
                                    IF i <= u THEN LineOf(m, stereo)[i] ELSE {}]
      <4> HIDE DEF silence
      <4>1. QED
        BY <2>1, <2>10, SilenceLengthens DEF z, u
    <3>2. c.n <= u + silence
      BY <1>a, <2>1, <2>2
    <3>3. first = (u + silence) - c.n + 1 /\ first \in 1..(Capacity - c.n) /\ first \in Nat
      BY <1>a, <1>c, <2>1, <2>10, <3>2
    <3>4. Lays(m2, z, stereo, c, first)
      <4>1. PICK e \in Nat : e = c.n
        BY <1>1
      <4>2. e \in 0..UsedSpace(z) /\ c.n <= e /\ e = z.writeTs - ts /\ c.n # 0
        BY <1>1, <2>6, <3>1, <3>2, <4>1, SMTT(30)
      <4>3. OneMix(z, stereo) /\ (stereo => z.numInputChannels # 0)
        BY <2>5 DEF OneMix
      <4> HIDE DEF first, silence, u
      <4>4. Lays(MixSamples(z, c, ts), z, stereo, c, UsedSpace(z) - e + 1)
        BY <1>1, <2>5, <2>7, <2>9, <4>2, <4>3, MixSamplesLays
      <4>5. QED
        BY <2>7, <3>1, <3>3, <4>1, <4>4
    <3>5. LineOf(m, stereo) \in Seq(SampleSets) /\ Len(LineOf(m, stereo)) = u
      BY <1>1, LineShows DEF u
    <3>6. Lays(m2, m, stereo, c, first)
      <4>1. PICK n \in Nat : n = silence /\ n # 0
        BY <2>1
      <4>2. first + c.n - 1 = u + n
        BY <1>1, <3>3, <4>1, SMTT(30)
      <4> HIDE DEF first, silence, u
      <4>a. u \in Nat /\ first \in Nat
        BY <1>1, <3>3
      <4>b. LineOf(z, stereo) = [i \in 1..(u + n) |-> IF i <= u THEN LineOf(m, stereo)[i] ELSE {}]
        BY <3>1, <4>1
      <4>3. QED
        BY <3>4, <3>5, <4>1, <4>2, <4>a, <4>b, LaysAfterSilence
    <3>7. QED
      BY <2>8, <3>3, <3>6 DEF Stored, m2, first
  <2>11. CASE ~(u + silence < Capacity)
    <3>1. u + silence = Capacity
      BY <1>a, <2>1, <2>2, <2>11
    <3>2. first + c.n - 1 = Capacity /\ first \in 1..Capacity
      BY <1>a, <1>c, <3>1
    <3>3. u < Capacity
      BY <1>a
    <3>4. UsedSpace(z) = 0
      <4>1. m.writePtr \in Positions /\ m.readPtr \in Positions
        BY <1>1 DEF MixerType
      <4>2. z.writePtr = CircularPointerAddOffset(m.writePtr, silence) /\ z.readPtr = m.readPtr
        <5> HIDE DEF silence
        <5>1. QED
          BY <1>1 DEF z, WriteSilence, MixerType
      <4>3. u = IF m.writePtr >= m.readPtr THEN m.writePtr - m.readPtr
                ELSE Capacity + m.writePtr - m.readPtr
        BY DEF UsedSpace, u
      <4> HIDE DEF silence, u
      <4>4. z.writePtr = m.readPtr
        BY <2>1, <3>1, <4>1, <4>2, <4>3, MixerBounds DEF Positions, CircularPointerAddOffset
      <4>5. QED
        BY <4>1, <4>2, <4>4, MixerBounds DEF UsedSpace, Positions
    <3>5. LineOf(m2, stereo) = << >>
      BY <2>8, <3>4 DEF LineOf
    <3>6. QED
      BY <2>8, <3>2, <3>3, <3>5 DEF Stored, FillsUp, m2, first, u
  <2>12. QED
    BY <2>10, <2>11
<1>5. QED
  BY <1>2, <1>3, <1>4
-----------------------------------------------------------------------------
(* What a packet makes of the line *)

\* The difference of timestamps that are close is that of unsigned numbers.
LEMMA SmallDifference ==
  ASSUME NEW a \in Int, NEW b \in Int, a - b \in 0..(Capacity - 1)
  PROVE  SignedDifference(a, b) = a - b
<1>1. a - b \in Int /\ 0 <= a - b /\ 2 * (a - b) < TsModulus /\ a - b < TsModulus
      /\ TsModulus \in Nat /\ TsModulus > 0
  BY MixerBounds
<1>2. (a - b) % TsModulus = a - b
  BY <1>1
<1>3. QED
  BY <1>1, <1>2 DEF SignedDifference

\* A packet that fits into the window ends within the free places and starts
\* within those in use.
LEMMA FitsWithin ==
  ASSUME NEW m \in MixerType, NEW c \in PacketType, NEW ts \in Timestamps, Fits(m, ts, c.n)
  PROVE  Within(m, c, ts)
<1>1. m.writeTs \in Int /\ c.n \in Int /\ ts \in Int /\ ts + c.n \in Int
  BY MixerBounds DEF MixerType, PacketType, Timestamps
<1>2. UsedSpace(m) \in Int /\ UsedSpace(m) >= 0 /\ UsedSpace(m) < Capacity /\ Capacity \in Int
  BY UsedSpaceBound, MixerBounds
<1>3. FreeSpace(m) \in Int /\ FreeSpace(m) >= 0
  BY <1>2 DEF FreeSpace
<1>4. ASSUME ts + c.n - m.writeTs < Capacity PROVE ts + c.n - m.writeTs <= FreeSpace(m)
  <2>1. CASE ts + c.n - m.writeTs < 0
    BY <1>1, <1>3, <2>1
  <2>2. CASE ts + c.n - m.writeTs >= 0
    <3>1. (ts + c.n) - m.writeTs \in 0..(Capacity - 1)
      BY <1>1, <1>2, <1>4, <2>2
    <3>2. SignedDifference(ts + c.n, m.writeTs) = (ts + c.n) - m.writeTs
      BY <1>1, <3>1, SmallDifference
    <3>3. QED
      BY <1>1, <3>2 DEF Fits
  <2>3. QED
    BY <1>1, <2>1, <2>2
<1>5. ASSUME m.writeTs - ts < Capacity PROVE m.writeTs - ts <= UsedSpace(m)
  <2>1. CASE m.writeTs - ts < 0
    BY <1>1, <1>2, <2>1
  <2>2. CASE m.writeTs - ts >= 0
    <3>1. m.writeTs - ts \in 0..(Capacity - 1)
      BY <1>1, <1>2, <1>5, <2>2
    <3>2. SignedDifference(m.writeTs, ts) = m.writeTs - ts
      BY <1>1, <3>1, SmallDifference
    <3>3. QED
      BY <1>1, <3>2 DEF Fits
  <2>3. QED
    BY <1>1, <2>1, <2>2
<1>6. QED
  BY <1>4, <1>5 DEF Within

\* What a packet makes of the line of m: some of it is played, the packet is
\* laid on it, it is forgotten, or it is played and the packet begins another.
MixesIn(m2, m, stereo, c) ==
  \E first \in 1..(Capacity - c.n), over \in SUBSET Laying(LineOf(m, stereo)), part \in Outputs :
    /\ FlattenSeq(m2.outputQueue) = FlattenSeq(m.outputQueue) \o part
    /\ Mixed!Laid(LineOf(m, stereo), c, first, over) = FlatPlaces(part) \o LineOf(m2, stereo)
Overflows(m2, m, stereo, c) ==
  /\ LineOf(m2, stereo) = << >> /\ FlattenSeq(m2.outputQueue) = FlattenSeq(m.outputQueue)
  /\ \E first \in 1..Capacity :
       first + c.n - 1 = Capacity /\ Len(LineOf(m, stereo)) < first + c.n - 1
Restarts(m2, m, stereo, c) ==
  \E part \in Outputs :
    /\ FlattenSeq(m2.outputQueue) = FlattenSeq(m.outputQueue) \o part
    /\ LineOf(m, stereo) = FlatPlaces(part)
    /\ LineOf(m2, stereo) = Mixed!Laid(<< >>, c, 1, {})
Plays(m2, m, stereo, c) ==
  \/ Ships(m2, m, stereo) \/ MixesIn(m2, m, stereo, c)
  \/ Overflows(m2, m, stereo, c) \/ Restarts(m2, m, stereo, c)

\* What leaves the line and the output alone ships nothing.
LEMMA ShipsNothing ==
  ASSUME NEW m, NEW m2, NEW stereo, MixerInv(m), MixerInv(m2), Unopened(m2),
         LineOf(m2, stereo) = LineOf(m, stereo), m2.outputQueue = m.outputQueue
  PROVE  Ships(m2, m, stereo)
<1>1. << >> \in Outputs /\ FlatPlaces(<< >>) = << >>
  BY DEF Outputs, FlatPlaces
<1>2. PICK f \in Outputs : f = FlattenSeq(m.outputQueue)
  BY FlattenType DEF MixerInv, MixerType, Shipments, Outputs
<1>3. PICK l \in Seq(SampleSets) : l = LineOf(m2, stereo)
  BY LineShows DEF MixerInv
<1>4. f \o << >> = f /\ << >> \o l = l
  BY DEF Outputs
<1>5. QED
  BY <1>1, <1>2, <1>3, <1>4 DEF Ships

\* A packet that has been stored in s, some of which is then shipped.
LEMMA StoredPlays ==
  ASSUME NEW m, NEW s, NEW m2, NEW stereo, MixerInv(m), MixerInv(s), MixerInv(m2),
         Unopened(m), Unopened(m2), NEW c \in PacketType, NEW ts, Stored(s, m, stereo, c, ts),
         s.outputQueue = m.outputQueue, Ships(m2, s, stereo)
  PROVE  Plays(m2, m, stereo, c)
<1>1. CASE LineOf(s, stereo) = LineOf(m, stereo)
  BY <1>1 DEF Ships, Plays
<1>2. CASE First(m, ts) \in 1..(Capacity - c.n) /\ Lays(s, m, stereo, c, First(m, ts))
  <2>1. MixesIn(m2, m, stereo, c)
    BY <1>2 DEF Lays, Ships, MixesIn
  <2>2. QED
    BY <2>1 DEF Plays
<1>3. CASE LineOf(s, stereo) = << >> /\ FillsUp(m, c, ts) /\ First(m, ts) \in 1..Capacity
  <2>1. PICK part \in Outputs :
          /\ FlattenSeq(m2.outputQueue) = FlattenSeq(m.outputQueue) \o part
          /\ << >> = FlatPlaces(part) \o LineOf(m2, stereo)
    BY <1>3 DEF Ships
  <2>2. PICK l \in Seq(SampleSets) : l = LineOf(m2, stereo)
    BY LineShows DEF MixerInv
  <2>3. PICK x \in Seq(SampleSets) : x = FlatPlaces(part) /\ Len(x) = Len(part)
    BY FlatPlacesType
  <2>4. << >> = x \o l
    BY <2>1, <2>2, <2>3
  <2>5. x = << >> /\ l = << >>
    <3>1. Len(x \o l) = Len(x) + Len(l) /\ Len(x) \in Nat /\ Len(l) \in Nat
      OBVIOUS
    <3>2. Len(x \o l) = 0
      BY <2>4
    <3>3. Len(x) = 0 /\ Len(l) = 0
      BY <3>1, <3>2
    <3>4. QED
      BY <3>3
  <2>6. part = << >>
    BY <2>3, <2>5 DEF Outputs
  <2>7. PICK f \in Outputs : f = FlattenSeq(m.outputQueue)
    BY FlattenType DEF MixerInv, MixerType, Shipments, Outputs
  <2>8. f \o << >> = f
    BY DEF Outputs
  <2>9. FlattenSeq(m2.outputQueue) = FlattenSeq(m.outputQueue)
    BY <2>1, <2>6, <2>7, <2>8
  <2>10. Len(LineOf(m, stereo)) = UsedSpace(m)
    BY LineShows DEF MixerInv
  <2>11. Overflows(m2, m, stereo, c)
    BY <1>3, <2>2, <2>5, <2>9, <2>10 DEF Overflows, FillsUp
  <2>12. QED
    BY <2>11 DEF Plays
<1>4. QED
  BY <1>1, <1>2, <1>3 DEF Stored

\* Setting the corrections of the timestamps leaves the line alone.
LEMMA DeltaLeaves ==
  ASSUME NEW m \in MixerType, NEW stereo, NEW d
  PROVE  LET m2 == [m EXCEPT !.delta = d] IN
           /\ LineOf(m2, stereo) = LineOf(m, stereo) /\ m2.outputQueue = m.outputQueue
           /\ SameBuffers(m2, m)
<1> DEFINE m2 == [m EXCEPT !.delta = d]
<1>1. /\ SameBuffers(m2, m) /\ m2.writePtr = m.writePtr /\ m2.readPtr = m.readPtr
      /\ m2.outputQueue = m.outputQueue
  BY DEF MixerType, SameBuffers
<1> HIDE DEF m2
<1>2. LineOf(m2, stereo) = LineOf(m, stereo)
  BY <1>1 DEF LineOf, UsedSpace, MixedOutput, SameBuffers
<1>3. QED
  BY <1>1, <1>2 DEF m2

\* The line of a mixer that uses no place.
LEMMA NoLine ==
  ASSUME NEW m, NEW stereo, UsedSpace(m) = 0
  PROVE  LineOf(m, stereo) = << >>
  BY DEF LineOf

\* A packet out of range plays the line and begins another, or does nothing.
LEMMA OutOfRangePlays ==
  ASSUME NEW m, NEW pk, MixInv(m, pk), Own(m, pk), NEW stereo, OneMix(m, stereo),
         stereo => m.numInputChannels # 0, NEW c \in PacketType, c.n \in 1..(Capacity - 1),
         c.ch = 1 => Carries(pk, c, c.ts), c.id \in 1..Len(pk), pk[c.id].ch = c.ch, Opened(m, c)
  PROVE  /\ Own(ManageOutOfRangeTimestamp(m, stereo, c), pk)
         /\ Plays(ManageOutOfRangeTimestamp(m, stereo, c), m, stereo, c)
<1> DEFINE m2 == ManageOutOfRangeTimestamp(m, stereo, c)
<1>1. MixerInv(m) /\ m \in MixerType /\ Unopened(m) /\ c.ts \in Timestamps
  BY DEF MixInv, MixerInv, PacketType
<1>2. MixInv(m2, pk) /\ MixerInv(m2) /\ Unopened(m2)
  BY OutOfRangeAligned DEF MixInv
<1>3. CASE c.ch = 1
  <2> DEFINE shipped == CreateShipment(m, stereo, TRUE)
             reset == Reset(shipped, c.ts)
             stored == StoreRtpPacket(reset, c, c.ts)
             d == [stored.delta EXCEPT ![2] = 0]
  <2>1. /\ MixInv(shipped, pk) /\ Ships(shipped, m, stereo) /\ SameBuffers(shipped, m)
        /\ UsedSpace(shipped) = 0
    BY <1>1, CreateShipmentAligned, CreateShipmentShips, CreateShipmentInv
  <2>2. MixerInv(shipped) /\ shipped \in MixerType /\ Unopened(shipped)
    BY <2>1 DEF MixInv, MixerInv
  <2>3. m2 = [stored EXCEPT !.delta = d]
    BY <1>3 DEF ManageOutOfRangeTimestamp
  <2> HIDE DEF shipped, m2
  <2>4. MixerInv(reset)
    BY <1>1, <2>2, ResetInv
  <2>5. /\ reset.writePtr = 0 /\ reset.readPtr = 0 /\ reset.writeTs = c.ts
        /\ reset.outputQueue = shipped.outputQueue /\ SameBuffers(reset, shipped)
    BY <2>2 DEF Reset, MixerType, SameBuffers
  <2> HIDE DEF reset
  <2>6. UsedSpace(reset) = 0
    BY <2>5 DEF UsedSpace
  <2>7. /\ Unopened(reset) /\ Opened(reset, c) /\ OneMix(reset, stereo) /\ Own(reset, pk)
        /\ stereo => reset.numInputChannels # 0
    BY <1>1, <2>1, <2>5 DEF SameBuffers, Unopened, Opened, OneMix, Own
  <2>8. MixInv(reset, pk)
    BY <2>4, <2>6, <2>7, EmptyAligned
  <2>9. c.n \in Int /\ c.ts \in Int /\ 1 <= c.n /\ c.n < Capacity /\ Capacity \in Int
    BY <1>1, MixerBounds DEF PacketType, Timestamps
  <2>10. Within(reset, c, c.ts)
    BY <2>5, <2>6, <2>9 DEF Within, FreeSpace
  <2>11. /\ Own(stored, pk) /\ stored.outputQueue = reset.outputQueue
         /\ Stored(stored, reset, stereo, c, c.ts)
    BY <1>1, <1>3, <2>7, <2>8, <2>10, StoreLays
  <2>12. MixInv(stored, pk)
    BY <1>1, <1>3, <2>7, <2>8, StoreAligned
  <2>13. stored \in MixerType
    BY <2>12 DEF MixInv, MixerInv
  <2> HIDE DEF stored, d
  <2>14. LineOf(m2, stereo) = LineOf(stored, stereo) /\ m2.outputQueue = stored.outputQueue
         /\ SameBuffers(m2, stored)
    BY <2>3, <2>13, DeltaLeaves
  <2>15. Own(m2, pk)
    BY <2>11, <2>14 DEF Own, SameBuffers
  <2>16. LineOf(shipped, stereo) = << >> /\ LineOf(reset, stereo) = << >>
    BY <2>1, <2>6, NoLine
  <2>17. m2.outputQueue = shipped.outputQueue
    BY <2>5, <2>11, <2>14
  <2>18. CASE LineOf(stored, stereo) = << >>
    <3>1. Ships(m2, shipped, stereo)
      BY <1>2, <2>2, <2>14, <2>16, <2>17, <2>18, ShipsNothing
    <3>2. Ships(m2, m, stereo)
      BY <1>1, <1>2, <2>1, <2>2, <3>1, ShipsTwice
    <3>3. QED
      BY <2>15, <3>2 DEF Plays, m2
  <2>19. CASE Lays(stored, reset, stereo, c, 1)
    <3>1. Laying(<< >>) = {}
      BY DEF Laying, Mixed!Samples
    <3>2. LineOf(m2, stereo) = Mixed!Laid(<< >>, c, 1, {})
      BY <2>14, <2>16, <2>19, <3>1 DEF Lays
    <3>3. PICK part \in Outputs :
            /\ FlattenSeq(shipped.outputQueue) = FlattenSeq(m.outputQueue) \o part
            /\ LineOf(m, stereo) = FlatPlaces(part) \o << >>
      BY <2>1, <2>16 DEF Ships
    <3>4. PICK x \in Seq(SampleSets) : x = FlatPlaces(part)
      BY FlatPlacesType
    <3>5. x \o << >> = x
      OBVIOUS
    <3>6. Restarts(m2, m, stereo, c)
      BY <2>17, <3>2, <3>3, <3>4, <3>5 DEF Restarts
    <3>7. QED
      BY <2>15, <3>6 DEF Plays, m2
  <2>20. First(reset, c.ts) = 1
    BY <2>5, <2>6, <2>9 DEF First
  <2>21. ~FillsUp(reset, c, c.ts)
    BY <2>9, <2>20 DEF FillsUp
  <2>22. QED
    BY <2>11, <2>16, <2>18, <2>19, <2>20, <2>21 DEF Stored
<1>4. CASE c.ch # 1
  <2> DEFINE d == [m.delta EXCEPT ![c.ch] = c.ts - m.writeTs]
  <2>1. m2 \in {m, [m EXCEPT !.delta = d]}
    BY <1>4 DEF ManageOutOfRangeTimestamp
  <2> HIDE DEF d, m2
  <2>2. LineOf(m2, stereo) = LineOf(m, stereo) /\ m2.outputQueue = m.outputQueue
        /\ SameBuffers(m2, m)
    <3>1. CASE m2 = m
      BY <3>1 DEF SameBuffers
    <3>2. CASE m2 = [m EXCEPT !.delta = d]
      BY <1>1, <3>2, DeltaLeaves
    <3>3. QED
      BY <2>1, <3>1, <3>2
  <2>3. Ships(m2, m, stereo)
    BY <1>1, <1>2, <2>2, ShipsNothing
  <2>4. QED
    BY <2>2, <2>3 DEF Plays, Own, SameBuffers, m2
<1>5. QED
  BY <1>3, <1>4

\* What a packet makes of the line once its timestamp is corrected.
LEMMA PlacePacketPlays ==
  ASSUME NEW m, NEW pk, MixInv(m, pk), Own(m, pk), NEW stereo, OneMix(m, stereo),
         stereo => m.numInputChannels # 0, NEW c \in PacketType, c.n \in 1..(Capacity - 1),
         NEW ts \in Timestamps, Carries(pk, c, ts), pk[c.id].ch = c.ch, c.ch = 1 => ts = c.ts,
         Opened(m, c)
  PROVE  /\ Own(PlacePacket(m, stereo, c, ts), pk)
         /\ Plays(PlacePacket(m, stereo, c, ts), m, stereo, c)
<1> DEFINE m2 == PlacePacket(m, stereo, c, ts)
           first == [m EXCEPT !.writeTs = ts, !.readTs = ts, !.oneS1Packet = TRUE]
           stored == StoreRtpPacket(m, c, ts)
<1>0. MixerInv(m) /\ m \in MixerType /\ Unopened(m) /\ c.id \in 1..Len(pk)
  BY DEF MixInv, MixerInv, Carries
<1>1. MixerInv(m2) /\ Unopened(m2)
  BY PlacePacketAligned DEF MixInv
<1>2. CASE m.writeTs = 0
  <2>1. m2 \in {m, StoreRtpPacket(first, c, ts)}
    BY <1>2 DEF PlacePacket
  <2>2. MixerInv(first)
    BY <1>0, <1>2, OpenWindowInv
  <2>3. /\ first.writePtr = m.writePtr /\ first.readPtr = m.readPtr
        /\ SameBuffers(first, m) /\ first.outputQueue = m.outputQueue /\ first.writeTs = ts
    BY <1>0 DEF MixerType, SameBuffers
  <2> HIDE DEF first, m2
  <2>4. UsedSpace(first) = 0 /\ UsedSpace(m) = 0
    <3>1. 0 - m.readTs = UsedSpace(m) + m.lost
      BY <1>0, <1>2 DEF MixerInv
    <3>2. UsedSpace(m) \in Nat /\ m.lost \in Nat /\ m.readTs \in Nat
      BY <1>0, UsedSpaceBound, MixerBounds DEF MixerType
    <3>3. UsedSpace(m) = 0
      BY <3>1, <3>2
    <3>4. QED
      BY <2>3, <3>3 DEF UsedSpace
  <2>5. /\ Unopened(first) /\ Opened(first, c) /\ OneMix(first, stereo) /\ Own(first, pk)
        /\ stereo => first.numInputChannels # 0
    BY <1>0, <2>3 DEF SameBuffers, Unopened, Opened, OneMix, Own
  <2>6. MixInv(first, pk)
    BY <2>2, <2>4, <2>5, EmptyAligned
  <2>7. LineOf(first, stereo) = << >> /\ LineOf(m, stereo) = << >>
    BY <2>4, NoLine
  <2>8. Ships(first, m, stereo) /\ Ships(m, m, stereo)
    BY <1>0, <2>2, <2>3, <2>5, <2>7, ShipsNothing
  <2>9. CASE m2 = m
    BY <2>8, <2>9 DEF Plays, m2
  <2>10. CASE m2 = StoreRtpPacket(first, c, ts)
    <3>1. c.n \in Int /\ ts \in Int /\ 1 <= c.n /\ c.n < Capacity /\ Capacity \in Int
      BY MixerBounds DEF PacketType, Timestamps
    <3>2. Within(first, c, ts)
      BY <2>3, <2>4, <3>1 DEF Within, FreeSpace
    <3>3. Own(m2, pk) /\ m2.outputQueue = first.outputQueue /\ Stored(m2, first, stereo, c, ts)
      BY <2>5, <2>6, <2>10, <3>2, StoreLays
    <3>4. Ships(m2, m2, stereo)
      BY <1>1, ShipsNothing
    <3>5. Plays(m2, first, stereo, c)
      BY <1>1, <2>2, <2>5, <3>3, <3>4, StoredPlays
    <3>6. Plays(m2, m, stereo, c)
      BY <2>3, <2>7, <3>5 DEF Plays, Ships, MixesIn, Overflows, Restarts
    <3>7. QED
      BY <3>3, <3>6 DEF m2
  <2>11. QED
    BY <2>1, <2>9, <2>10
<1>3. CASE m.writeTs # 0 /\ ts >= m.readTs /\ Fits(m, ts, c.n)
  <2>1. m2 = IF UsedSpace(stored) > Trigger THEN CreateShipment(stored, stereo, FALSE) ELSE stored
    BY <1>3 DEF PlacePacket
  <2>2. MixInv(stored, pk) /\ MixerInv(stored) /\ Unopened(stored)
    BY StoreAligned DEF MixInv
  <2>3. Within(m, c, ts)
    BY <1>0, <1>3, FitsWithin
  <2>4. Own(stored, pk) /\ stored.outputQueue = m.outputQueue /\ Stored(stored, m, stereo, c, ts)
    BY <2>3, StoreLays
  <2> HIDE DEF stored, m2
  <2>5. Ships(m2, stored, stereo) /\ SameBuffers(m2, stored)
    <3>1. CASE UsedSpace(stored) > Trigger
      <4>1. UsedSpace(stored) \in Int
        BY <2>2, UsedSpaceBound, MixerBounds DEF MixerInv
      <4>2. HoldOff <= UsedSpace(stored)
        BY <3>1, <4>1, MixerBounds
      <4>3. QED
        BY <2>1, <2>2, <3>1, <4>2, CreateShipmentShips
    <3>2. CASE ~(UsedSpace(stored) > Trigger)
      <4>1. m2 = stored
        BY <2>1, <3>2
      <4>2. QED
        BY <2>2, <4>1, ShipsNothing DEF SameBuffers
    <3>3. QED
      BY <3>1, <3>2
  <2>6. Plays(m2, m, stereo, c)
    BY <1>0, <1>1, <2>2, <2>4, <2>5, StoredPlays
  <2>7. QED
    BY <2>4, <2>5, <2>6 DEF Own, SameBuffers, m2
<1>4. CASE m.writeTs # 0 /\ ~(ts >= m.readTs /\ Fits(m, ts, c.n))
  <2>1. m2 = ManageOutOfRangeTimestamp(m, stereo, c)
    BY <1>4 DEF PlacePacket
  <2>2. c.ch = 1 => Carries(pk, c, c.ts)
    OBVIOUS
  <2> HIDE DEF m2
  <2>3. Own(m2, pk) /\ Plays(m2, m, stereo, c)
    BY <1>0, <2>1, <2>2, OutOfRangePlays
  <2>4. QED
    BY <2>3 DEF m2
<1>5. QED
  BY <1>2, <1>3, <1>4
-----------------------------------------------------------------------------
(* AudioChunkIn and the line *)

\* A stereo mixer without channels has nothing on its line.
Quiet(m, stereo) == stereo /\ m.numInputChannels = 0 => UsedSpace(m) = 0

\* Opening channels leaves the line as it is.
LEMMA PreparedLine ==
  ASSUME NEW m, NEW m2, NEW stereo, MixerInv(m), MixerInv(m2), Unopened(m), Unopened(m2),
         Quiet(m, stereo), Prepared(m2, m), OneMix(m2, stereo),
         m2.numInputChannels >= m.numInputChannels
  PROVE  LineOf(m2, stereo) = LineOf(m, stereo)
<1>1. m \in MixerType /\ m2 \in MixerType /\ m.numInputChannels \in Nat /\ m2.numInputChannels \in Nat
  BY DEF MixerInv, MixerType
<1>2. UsedSpace(m2) = UsedSpace(m)
  BY DEF Prepared, UsedSpace
<1>3. CASE UsedSpace(m) = 0
  BY <1>2, <1>3, NoLine
<1>4. CASE ~(stereo /\ m.numInputChannels = 0)
  <2>1. stereo /\ m.numInputChannels # 0 <=> stereo /\ m2.numInputChannels # 0
    <3>1. m.numInputChannels # 0 => m2.numInputChannels # 0
      BY <1>1
    <3>2. QED
      BY <1>4, <3>1
  <2>2. \A p : Shown(m2, stereo, p) = Shown(m, stereo, p)
    BY <2>1 DEF Shown, Prepared
  <2>3. m2.readPtr = m.readPtr
    BY DEF Prepared
  <2>4. /\ LineOf(m, stereo) = [i \in 1..UsedSpace(m) |->
                                  Shown(m, stereo, CircularPointerAddOffset(m.readPtr, i - 1))]
        /\ LineOf(m2, stereo) = [i \in 1..UsedSpace(m2) |->
                                   Shown(m2, stereo, CircularPointerAddOffset(m2.readPtr, i - 1))]
    BY <1>1, LineShows
  <2>5. QED
    BY <1>2, <2>2, <2>3, <2>4
<1>5. QED
  BY <1>3, <1>4 DEF Quiet

\* The number and the samples of a packet are all that is laid on the line.
LEMMA PlaysAlike ==
  ASSUME NEW m, NEW r, NEW m2, NEW stereo, NEW c, NEW d, c.id = d.id, c.n = d.n,
         LineOf(r, stereo) = LineOf(m, stereo), r.outputQueue = m.outputQueue,
         Plays(m2, r, stereo, c)
  PROVE  Plays(m2, m, stereo, d)
<1>1. \A l, first, over : Mixed!Laid(l, c, first, over) = Mixed!Laid(l, d, first, over)
  BY DEF Mixed!Laid
<1>2. Ships(m2, r, stereo) => Ships(m2, m, stereo)
  BY DEF Ships
<1>3. ASSUME MixesIn(m2, r, stereo, c) PROVE MixesIn(m2, m, stereo, d)
  <2>1. PICK first \in 1..(Capacity - d.n), over \in SUBSET Laying(LineOf(m, stereo)),
              part \in Outputs :
          /\ FlattenSeq(m2.outputQueue) = FlattenSeq(m.outputQueue) \o part
          /\ Mixed!Laid(LineOf(m, stereo), c, first, over)
               = FlatPlaces(part) \o LineOf(m2, stereo)
    BY <1>3 DEF MixesIn
  <2>2. Mixed!Laid(LineOf(m, stereo), c, first, over) = Mixed!Laid(LineOf(m, stereo), d, first, over)
    BY <1>1
  <2>3. QED
    BY <2>1, <2>2 DEF MixesIn
<1>4. Overflows(m2, r, stereo, c) => Overflows(m2, m, stereo, d)
  BY DEF Overflows
<1>5. Restarts(m2, r, stereo, c) => Restarts(m2, m, stereo, d)
  BY <1>1 DEF Restarts
<1>6. QED
  BY <1>2, <1>3, <1>4, <1>5 DEF Plays

\* What AudioChunkIn makes of the line.
LEMMA AudioChunkInPlays ==
  ASSUME NEW m, NEW pk, MixInv(m, pk), Own(m, pk), NEW stereo, OneMix(m, stereo),
         Quiet(m, stereo), NEW c \in PacketType, c.n < Capacity \/ c.n > MaxSamples,
         c.id \in 1..Len(pk), pk[c.id] = CorrectRogueTimestamp(m, c),
         NEW m2 \in AudioChunkIn(m, stereo, c)
  PROVE  /\ Own(m2, pk) /\ Quiet(m2, stereo)
         /\ Ships(m2, m, stereo) \/ (c.n \in 1..(Capacity - 1) /\ Plays(m2, m, stereo, c))
<1> DEFINE failed == [m EXCEPT !.error = TRUE]
           open == CreateChannels(m, stereo, c.ch)
           packet == CorrectRogueTimestamp(open, c)
           ready == CorrectiveDelta(RememberTimestamp(open, c), packet)
<1>0. MixerInv(m) /\ m \in MixerType /\ Unopened(m) /\ c.n \in Nat
  BY DEF MixInv, MixerInv, PacketType
<1>1. CASE m2 = m
  <2>1. Ships(m, m, stereo)
    BY <1>0, ShipsNothing
  <2>2. QED
    BY <1>1, <2>1
<1>2. CASE m2 = failed
  <2>1. /\ SameBuffers(m2, m) /\ m2.writePtr = m.writePtr /\ m2.readPtr = m.readPtr
        /\ m2.outputQueue = m.outputQueue
    BY <1>0, <1>2 DEF MixerType, SameBuffers
  <2>2. MixerInv(m2)
    BY <1>0, <1>2 DEF MixerInv, MixerType, UsedSpace
  <2>3. Unopened(m2) /\ Own(m2, pk)
    BY <1>0, <2>1 DEF Unopened, Own, SameBuffers
  <2>4. LineOf(m2, stereo) = LineOf(m, stereo) /\ UsedSpace(m2) = UsedSpace(m)
    BY <2>1 DEF LineOf, UsedSpace, MixedOutput, SameBuffers
  <2>5. Quiet(m2, stereo)
    BY <2>1, <2>4 DEF Quiet, SameBuffers
  <2>6. QED
    BY <1>0, <2>1, <2>2, <2>3, <2>4, <2>5, ShipsNothing
<1>3. CASE /\ c.n \in 1..(Capacity - 1)
           /\ \E ts \in CorrectedTimestamps(ready, packet) :
                m2 = PlacePacket(ready, stereo, packet, ts)
  <2> HIDE DEF open, packet, ready
  <2>1. /\ packet \in PacketType /\ packet.ch = c.ch /\ packet.id = c.id /\ packet.n = c.n
        /\ pk[c.id].ch = c.ch
        /\ MixInv(ready, pk) /\ MixerInv(ready) /\ Prepared(ready, m)
        /\ OneMix(ready, stereo) /\ Opened(ready, packet)
        /\ ready.numInputChannels >= m.numInputChannels
        /\ stereo => ready.numInputChannels # 0
        /\ \A ts \in CorrectedTimestamps(ready, packet) :
             ts \in Timestamps /\ (packet.ch = 1 => ts = packet.ts) /\ Carries(pk, packet, ts)
    BY ReadyForPacket DEF open, packet, ready
  <2>2. PICK ts \in CorrectedTimestamps(ready, packet) :
          m2 = PlacePacket(ready, stereo, packet, ts)
    BY <1>3
  <2>3. ts \in Timestamps /\ (packet.ch = 1 => ts = packet.ts) /\ Carries(pk, packet, ts)
    BY <2>1, <2>2
  <2>4. Own(ready, pk) /\ Unopened(ready) /\ ready.outputQueue = m.outputQueue
    BY <2>1 DEF Own, Prepared, MixInv
  <2>5. Own(m2, pk) /\ Plays(m2, ready, stereo, packet)
    BY <1>3, <2>1, <2>2, <2>3, <2>4, PlacePacketPlays
  <2>6. LineOf(ready, stereo) = LineOf(m, stereo)
    BY <1>0, <2>1, <2>4, PreparedLine
  <2>7. Plays(m2, m, stereo, c)
    BY <2>1, <2>4, <2>5, <2>6, PlaysAlike
  <2>8. Leaves(m2, ready)
    BY <2>1, <2>2, <2>3, PlacePacketSounds
  <2>9. Quiet(m2, stereo)
    BY <2>1, <2>8 DEF Quiet, Leaves
  <2>10. QED
    BY <1>3, <2>5, <2>7, <2>9
<1>4. QED
  <2>1. CASE m.error \/ c.n = 0
    BY <1>1, <2>1 DEF AudioChunkIn
  <2>2. CASE ~(m.error \/ c.n = 0) /\ c.n > MaxSamples
    BY <1>2, <2>2 DEF AudioChunkIn
  <2>3. CASE ~(m.error \/ c.n = 0) /\ ~(c.n > MaxSamples)
    <3>1. c.n \in 1..(Capacity - 1)
      BY <1>0, <2>3, MixerBounds
    <3>2. \E ts \in CorrectedTimestamps(ready, packet) : m2 = PlacePacket(ready, stereo, packet, ts)
      BY <2>3 DEF AudioChunkIn
    <3>3. QED
      BY <1>3, <3>1, <3>2
  <2>4. QED
    BY <2>1, <2>2, <2>3
-----------------------------------------------------------------------------
(* The call implements its mixed audio *)

\* The samples at the places f are of the first n packets.
Known(f, n) == \A i \in 1..Len(f) : \A s \in f[i] : s[1] \in 1..n

\* Two pieces have known samples if their join has.
LEMMA KnownJoin ==
  ASSUME NEW a \in Seq(SampleSets), NEW b \in Seq(SampleSets), NEW n
  PROVE  Known(a \o b, n) <=> Known(a, n) /\ Known(b, n)
<1> DEFINE c == a \o b
<1>1. /\ Len(c) = Len(a) + Len(b) /\ Len(a) \in Nat /\ Len(b) \in Nat
      /\ \A i \in 1..Len(a) : c[i] = a[i] /\ i \in 1..Len(c)
      /\ \A i \in 1..Len(b) : c[Len(a) + i] = b[i] /\ Len(a) + i \in 1..Len(c)
  OBVIOUS
<1> HIDE DEF c
<1>2. ASSUME NEW i \in 1..Len(c) PROVE i \in 1..Len(a) \/ \E j \in 1..Len(b) : i = Len(a) + j
  <2>1. CASE i <= Len(a)
    BY <1>1, <2>1
  <2>2. CASE ~(i <= Len(a))
    <3>1. i - Len(a) \in 1..Len(b) /\ i = Len(a) + (i - Len(a))
      BY <1>1, <2>2
    <3>2. QED
      BY <3>1
  <2>3. QED
    BY <2>1, <2>2
<1>3. Known(c, n) => Known(a, n) /\ Known(b, n)
  <2> SUFFICES ASSUME Known(c, n) PROVE Known(a, n) /\ Known(b, n)
    OBVIOUS
  <2>1. Known(a, n)
    BY <1>1 DEF Known
  <2>2. ASSUME NEW i \in 1..Len(b), NEW s \in b[i] PROVE s[1] \in 1..n
    <3>1. Len(a) + i \in 1..Len(c) /\ s \in c[Len(a) + i]
      BY <1>1, <2>2
    <3>2. QED
      BY <3>1 DEF Known
  <2>3. QED
    BY <2>1, <2>2 DEF Known
<1>4. Known(a, n) /\ Known(b, n) => Known(c, n)
  <2> SUFFICES ASSUME Known(a, n), Known(b, n), NEW i \in 1..Len(c), NEW s \in c[i]
               PROVE  s[1] \in 1..n
    BY DEF Known
  <2>1. CASE i \in 1..Len(a)
    BY <1>1, <2>1 DEF Known
  <2>2. ASSUME NEW j \in 1..Len(b), i = Len(a) + j PROVE s[1] \in 1..n
    <3>1. s \in b[j]
      BY <1>1, <2>2
    <3>2. QED
      BY <3>1 DEF Known
  <2>3. QED
    BY <1>2, <2>1, <2>2
<1>5. QED
  BY <1>3, <1>4 DEF c

\* A packet adds no samples but its own.
LEMMA LaidSamples ==
  ASSUME NEW l \in Seq(SampleSets), NEW n \in Nat, Known(l, n), NEW c \in PacketType,
         c.id = n + 1, c.n >= 1, NEW first \in Nat \ {0}, NEW over
  PROVE  /\ Mixed!Laid(l, c, first, over) \in Seq(SampleSets)
         /\ Known(Mixed!Laid(l, c, first, over), n + 1)
         /\ first \in 1..Len(Mixed!Laid(l, c, first, over))
         /\ <<c.id, 1>> \in Mixed!Laid(l, c, first, over)[first]
<1> DEFINE end == first + c.n - 1
           k == IF end > Len(l) THEN end ELSE Len(l)
           at(i) == IF i \in first..end
                    THEN {<<c.id, i - first + 1>>}
                           \cup {s \in IF i <= Len(l) THEN l[i] ELSE {} : s[1] \notin over}
                    ELSE IF i <= Len(l) THEN l[i] ELSE {}
           f == [i \in 1..k |-> at(i)]
<1>1. Mixed!Laid(l, c, first, over) = f
  BY DEF Mixed!Laid
<1>2. c.n \in Nat /\ c.id \in Nat /\ Len(l) \in Nat /\ \A i \in 1..Len(l) : l[i] \in SampleSets
  BY DEF PacketType
<1>3. end \in Nat /\ k \in Nat /\ first <= end /\ end <= k /\ first \in 1..k
  BY <1>2
<1>4. ASSUME NEW i \in 1..k
      PROVE  at(i) \in SampleSets /\ \A s \in at(i) : s[1] \in 1..(n + 1)
  <2> DEFINE old == IF i <= Len(l) THEN l[i] ELSE {}
  <2>1. old \in SampleSets /\ \A s \in old : s[1] \in 1..(n + 1)
    <3>1. CASE i <= Len(l)
      <4>1. i \in 1..Len(l)
        BY <1>2, <1>3, <3>1
      <4>2. \A s \in l[i] : s[1] \in 1..n
        BY <4>1 DEF Known
      <4>3. QED
        BY <1>2, <3>1, <4>1, <4>2
    <3>2. CASE ~(i <= Len(l))
      BY <3>2 DEF SampleSets
    <3>3. QED
      BY <3>1, <3>2
  <2> HIDE DEF old
  <2>2. CASE i \in first..end
    <3>1. at(i) = {<<c.id, i - first + 1>>} \cup {s \in old : s[1] \notin over}
      BY <2>2 DEF old
    <3>2. <<c.id, i - first + 1>> \in Nat \X Nat
      BY <1>2, <1>3, <2>2
    <3>3. c.id \in 1..(n + 1)
      OBVIOUS
    <3>4. QED
      BY <2>1, <3>1, <3>2, <3>3 DEF SampleSets
  <2>3. CASE i \notin first..end
    BY <2>1, <2>3 DEF old
  <2>4. QED
    BY <2>2, <2>3
<1>5. <<c.id, 1>> \in at(first)
  <2>1. first \in first..end /\ first - first + 1 = 1
    BY <1>3
  <2>2. QED
    BY <2>1
<1> HIDE DEF at, k, end
<1>6. f \in Seq(SampleSets) /\ Len(f) = k /\ \A i \in 1..k : f[i] = at(i)
  BY <1>3, <1>4
<1>7. QED
  BY <1>1, <1>3, <1>4, <1>5, <1>6 DEF Known

\* The samples on the line are of packets that were read.
LEMMA LineKnown ==
  ASSUME NEW m, NEW pk, MixInv(m, pk), Own(m, pk), NEW stereo
  PROVE  Known(LineOf(m, stereo), Len(pk))
<1>1. m \in MixerType /\ Unopened(m)
  BY DEF MixInv, MixerInv
<1> DEFINE l == LineOf(m, stereo)
<1>2. ASSUME NEW i \in 1..Len(l), NEW s \in l[i] PROVE s[1] \in 1..Len(pk)
  <2> DEFINE p == CircularPointerAddOffset(m.readPtr, i - 1)
  <2>1. l[i] = Shown(m, stereo, p) /\ p \in Positions
    BY <1>1, LineShows
  <2> HIDE DEF p, l
  <2>2. QED
    BY <1>2, <2>1 DEF Shown, Own
<1>3. QED
  BY <1>2 DEF Known

\* The output of the mixer goes to the storage file as it is.
LEMMA WriteOutputMoves ==
  ASSUME NEW m, MixerInv(m), storage \in Outputs, WriteOutput(m)
  PROVE  /\ storage' \in Outputs
         /\ storage' \o FlattenSeq(mixer'.outputQueue) = storage \o FlattenSeq(m.outputQueue)
         /\ SameBuffers(mixer', m) /\ \A stereo : LineOf(mixer', stereo) = LineOf(m, stereo)
<1> DEFINE m2 == AudioChunkOut(m)
           q == m.outputQueue
<1>1. m \in MixerType /\ q \in Seq(Outputs)
  BY DEF MixerInv, MixerType, Shipments, Outputs
<1>2. m2 = IF q = << >> THEN m ELSE [m EXCEPT !.outputQueue = Tail(q)]
  BY DEF AudioChunkOut
<1>3. mixer' = m2 /\ storage' = IF q = << >> THEN storage ELSE storage \o Head(q)
  BY DEF WriteOutput
<1> HIDE DEF m2
<1>4. /\ SameBuffers(m2, m) /\ m2.writePtr = m.writePtr /\ m2.readPtr = m.readPtr
      /\ m2.outputQueue = IF q = << >> THEN q ELSE Tail(q)
  BY <1>1, <1>2 DEF MixerType, SameBuffers
<1>5. \A stereo : LineOf(m2, stereo) = LineOf(m, stereo)
  BY <1>4 DEF LineOf, UsedSpace, MixedOutput, SameBuffers
<1>6. /\ storage' \in Outputs
      /\ storage' \o FlattenSeq(m2.outputQueue) = storage \o FlattenSeq(q)
  <2>1. CASE q = << >>
    BY <1>3, <1>4, <2>1
  <2>2. CASE q # << >>
    <3>1. PICK x \in Outputs : x = Head(q)
      BY <1>1, <2>2
    <3>2. Tail(q) \in Seq(Outputs) /\ Tail(q) \in Seq(Seq(Seq(SampleSets)))
      BY <1>1, <2>2 DEF Outputs
    <3>3. PICK r \in Outputs : r = FlattenSeq(Tail(q))
      BY <3>2, FlattenType DEF Outputs
    <3>4. FlattenSeq(q) = x \o r
      BY <1>1, <2>2, <3>1, <3>3, FlattenHead DEF Outputs
    <3>5. storage \o x \in Outputs /\ (storage \o x) \o r = storage \o (x \o r)
      BY SMTT(30) DEF Outputs
    <3>6. QED
      BY <1>3, <1>4, <2>2, <3>1, <3>3, <3>4, <3>5
  <2>3. QED
    BY <2>1, <2>2
<1>7. QED
  BY <1>3, <1>4, <1>5, <1>6

\* The call as its mixed audio needs it: what is played is of packets that were
\* read, and the chunks that were read had been captured.
PlayInv ==
  /\ SampleInv /\ CaptureInv
  /\ Own(mixer, packets) /\ Quiet(mixer, scenario.stereo)
  /\ storage \in Outputs
  /\ Known(Played, chunksRead)

\* A packet that has not been mixed is on no place.
LEMMA NextPacketFresh ==
  ASSUME PlayInv, NEW c, c.id = chunksRead + 1
  PROVE  Mixed!Fresh(c) /\ Known(Line, chunksRead)
<1>1. chunksRead \in Nat /\ Len(packets) = chunksRead /\ MixInv(mixer, packets) /\ Own(mixer, packets)
  BY DEF PlayInv, SampleInv, Inv
<1>2. Line = LineOf(mixer, scenario.stereo)
  BY DEF Line, LineOf
<1>3. Known(Line, chunksRead) /\ Known(Played, chunksRead)
  BY <1>1, <1>2, LineKnown DEF PlayInv
<1>4. ASSUME NEW s \in Mixed!Samples(Line) \cup Mixed!Samples(Played) PROVE s[1] # c.id
  <2>1. s[1] \in 1..chunksRead
    BY <1>3 DEF Known, Mixed!Samples
  <2>2. QED
    BY <1>1, <2>1
<1>5. QED
  BY <1>3, <1>4 DEF Mixed!Fresh

\* What the mixer ships is played after what was.
LEMMA PlayedGrows ==
  ASSUME PlayInv, scenario' = scenario, NEW m, MixerInv(m), Unopened(m), WriteOutput(m),
         NEW part \in Outputs,
         FlattenSeq(m.outputQueue) = FlattenSeq(mixer.outputQueue) \o part
  PROVE  /\ Played' = Played \o FlatPlaces(part)
         /\ Line = LineOf(mixer, scenario.stereo) /\ Line' = LineOf(m, scenario.stereo)
         /\ Played \in Seq(SampleSets) /\ FlatPlaces(part) \in Seq(SampleSets)
         /\ Line \in Seq(SampleSets) /\ Line' \in Seq(SampleSets) /\ storage' \in Outputs
<1>1. MixerInv(mixer) /\ Unopened(mixer) /\ storage \in Outputs
  BY DEF PlayInv, SampleInv, Inv, MixInv
<1>2. /\ storage' \in Outputs
      /\ storage' \o FlattenSeq(mixer'.outputQueue) = storage \o FlattenSeq(m.outputQueue)
      /\ LineOf(mixer', scenario.stereo) = LineOf(m, scenario.stereo)
  BY <1>1, WriteOutputMoves
<1>3. Line = LineOf(mixer, scenario.stereo) /\ Line' = LineOf(m, scenario.stereo)
  BY <1>2 DEF Line, LineOf
<1>4. Line \in Seq(SampleSets) /\ Line' \in Seq(SampleSets)
  BY <1>1, <1>3, LineShows DEF MixerInv
<1>5. PICK f \in Outputs : f = FlattenSeq(mixer.outputQueue)
  BY <1>1, FlattenType DEF MixerInv, MixerType, Shipments, Outputs
<1>6. storage \o f \in Outputs /\ storage \o (f \o part) = (storage \o f) \o part
  <2>1. PICK out \in Outputs : out = storage
    BY <1>1
  <2>2. out \o f \in Outputs /\ out \o (f \o part) = (out \o f) \o part
    BY SMTT(30) DEF Outputs
  <2>3. QED
    BY <2>1, <2>2
<1>7. Played = FlatPlaces(storage \o f) /\ Played' = FlatPlaces((storage \o f) \o part)
  BY <1>2, <1>5, <1>6 DEF Played, FlatPlaces
<1>8. FlatPlaces((storage \o f) \o part) = FlatPlaces(storage \o f) \o FlatPlaces(part)
  BY <1>6, FlatPlacesJoin
<1>9. Played \in Seq(SampleSets) /\ FlatPlaces(part) \in Seq(SampleSets)
  BY <1>6, <1>7, FlatPlacesType
<1>10. QED
  BY <1>2, <1>3, <1>4, <1>7, <1>8, <1>9

\* Joining what is played and what waits.
LEMMA JoinedParts ==
  ASSUME NEW T, NEW a \in Seq(T), NEW b \in Seq(T), NEW c \in Seq(T)
  PROVE  (a \o b) \o c = a \o (b \o c) /\ Len(a \o b) >= Len(a)
<1>1. Len(a \o b) = Len(a) + Len(b) /\ Len(a) \in Nat /\ Len(b) \in Nat
  OBVIOUS
<1>2. Len(a \o b) >= Len(a)
  BY <1>1
<1>3. (a \o b) \o c = a \o (b \o c)
  OBVIOUS
<1>4. QED
  BY <1>2, <1>3

\* A step that only ships plays some of the line.
LEMMA ShipsIsPlay ==
  ASSUME PlayInv, scenario' = scenario, NEW m, MixerInv(m), Unopened(m), WriteOutput(m),
         Ships(m, mixer, scenario.stereo)
  PROVE  Mixed!Play /\ Known(Played', chunksRead)
<1>1. PICK part \in Outputs :
        /\ FlattenSeq(m.outputQueue) = FlattenSeq(mixer.outputQueue) \o part
        /\ LineOf(mixer, scenario.stereo) = FlatPlaces(part) \o LineOf(m, scenario.stereo)
  BY DEF Ships
<1>2. PICK a \in Seq(SampleSets), b \in Seq(SampleSets), l \in Seq(SampleSets) :
        a = Played /\ b = FlatPlaces(part) /\ l = Line' /\ Played' = a \o b /\ Line = b \o l
  BY <1>1, PlayedGrows
<1>3. (a \o b) \o l = a \o (b \o l) /\ Len(a \o b) >= Len(a)
  BY JoinedParts
<1>4. Mixed!Play
  BY <1>2, <1>3 DEF Mixed!Play
<1>5. Known(a, chunksRead) /\ Known(b \o l, chunksRead)
  <2>1. Known(a, chunksRead)
    BY <1>2 DEF PlayInv
  <2>2. MixInv(mixer, packets) /\ Own(mixer, packets) /\ Len(packets) = chunksRead
    BY DEF PlayInv, SampleInv
  <2>3. Line = LineOf(mixer, scenario.stereo)
    BY DEF Line, LineOf
  <2>4. Known(Line, chunksRead)
    BY <2>2, <2>3, LineKnown
  <2>5. QED
    BY <1>2, <2>1, <2>4
<1>6. Known(b, chunksRead)
  BY <1>5, KnownJoin
<1>7. Known(a \o b, chunksRead)
  BY <1>5, <1>6, KnownJoin
<1>8. QED
  BY <1>2, <1>4, <1>7

\* A packet of the call as its abstraction has it.
LEMMA LaidAlike ==
  ASSUME NEW c, NEW p, c.id = p.id, c.n = p.n, NEW l, NEW first, NEW over
  PROVE  Mixed!Laid(l, c, first, over) = Mixed!Laid(l, p, first, over)
  BY DEF Mixed!Laid

\* A step that lays a packet on the line.
LEMMA MixesInIsMix ==
  ASSUME PlayInv, scenario' = scenario, NEW m, MixerInv(m), Unopened(m), WriteOutput(m),
         NEW c \in PacketType, c.id = chunksRead + 1, c.n \in 1..(Capacity - 1),
         NEW p \in AllPackets, p.id = c.id, p.n = c.n,
         MixesIn(m, mixer, scenario.stereo, c)
  PROVE  Mixed!Mix /\ Known(Played', chunksRead + 1)
<1>1. PICK first \in 1..(Capacity - c.n), over \in SUBSET Laying(LineOf(mixer, scenario.stereo)),
           part \in Outputs :
        /\ FlattenSeq(m.outputQueue) = FlattenSeq(mixer.outputQueue) \o part
        /\ Mixed!Laid(LineOf(mixer, scenario.stereo), c, first, over)
             = FlatPlaces(part) \o LineOf(m, scenario.stereo)
  BY DEF MixesIn
<1> DEFINE laid == Mixed!Laid(Line, c, first, over)
<1>2. PICK a \in Seq(SampleSets), b \in Seq(SampleSets), l \in Seq(SampleSets) :
        a = Played /\ b = FlatPlaces(part) /\ l = Line' /\ Played' = a \o b /\ laid = b \o l
  BY <1>1, PlayedGrows
<1>3. Line = LineOf(mixer, scenario.stereo) /\ Line \in Seq(SampleSets)
  BY <1>1, PlayedGrows
<1>4. Mixed!Fresh(c) /\ Known(Line, chunksRead) /\ Mixed!Fresh(p)
  BY NextPacketFresh
<1>5. chunksRead \in Nat /\ Known(a, chunksRead) /\ Capacity \in Nat /\ c.n \in Nat
  BY <1>2, MixerBounds DEF PlayInv, SampleInv, Inv, PacketType
<1>6. first \in Nat \ {0} /\ c.n >= 1
  BY <1>5
<1>7. /\ laid \in Seq(SampleSets) /\ Known(laid, chunksRead + 1)
      /\ first \in 1..Len(laid) /\ <<c.id, 1>> \in laid[first]
  BY <1>3, <1>4, <1>5, <1>6, LaidSamples
<1> HIDE DEF laid
<1>8. Known(b, chunksRead + 1)
  BY <1>2, <1>7, KnownJoin
<1>9. Known(a, chunksRead + 1)
  BY <1>5 DEF Known
<1>10. Known(Played', chunksRead + 1)
  BY <1>2, <1>8, <1>9, KnownJoin
<1>11. (a \o b) \o l = a \o (b \o l) /\ Len(a \o b) >= Len(a)
  BY JoinedParts
<1>12. <<p.id, 1>> \in Mixed!Samples(Line') \cup Mixed!Samples(Played')
  <2>1. /\ Len(b) \in Nat /\ Len(l) \in Nat /\ Len(a) \in Nat /\ Len(b \o l) = Len(b) + Len(l)
        /\ Len(a \o b) = Len(a) + Len(b)
    OBVIOUS
  <2>2. CASE first <= Len(b)
    <3>1. (b \o l)[first] = b[first] /\ (a \o b)[Len(a) + first] = b[first]
      BY <1>6, <2>1, <2>2
    <3>2. Len(a) + first \in 1..Len(a \o b)
      BY <1>6, <2>1, <2>2
    <3>3. <<c.id, 1>> \in Mixed!Samples(Played')
      BY <1>2, <1>7, <3>1, <3>2 DEF Mixed!Samples
    <3>4. QED
      BY <3>3
  <2>3. CASE ~(first <= Len(b))
    <3>1. first - Len(b) \in 1..Len(l)
      BY <1>2, <1>6, <1>7, <2>1, <2>3
    <3>2. (b \o l)[first] = l[first - Len(b)]
      BY <1>6, <2>1, <2>3, <3>1
    <3>3. <<c.id, 1>> \in Mixed!Samples(Line')
      BY <1>2, <1>7, <3>1, <3>2 DEF Mixed!Samples
    <3>4. QED
      BY <3>3
  <2>4. QED
    BY <2>2, <2>3
<1>13. Played' \o Line' = Played \o Mixed!Laid(Line, p, first, over)
  <2>1. laid = Mixed!Laid(Line, p, first, over)
    BY LaidAlike DEF laid
  <2>2. QED
    BY <1>2, <1>11, <2>1
<1>14. first \in 1..(Capacity - p.n) /\ over \in SUBSET {s[1] : s \in Mixed!Samples(Line)}
  BY <1>3 DEF Laying
<1>15. Len(Played') >= Len(Played)
  BY <1>2, <1>11
<1>16. Mixed!Mix
  BY <1>4, <1>12, <1>13, <1>14, <1>15 DEF Mixed!Mix
<1>17. QED
  BY <1>10, <1>16

\* A step that makes the mixer forget its line.
LEMMA OverflowsIsOverflow ==
  ASSUME PlayInv, scenario' = scenario, NEW m, MixerInv(m), Unopened(m), WriteOutput(m),
         NEW c \in PacketType, c.id = chunksRead + 1,
         NEW p \in AllPackets, p.id = c.id, p.n = c.n,
         Overflows(m, mixer, scenario.stereo, c)
  PROVE  Mixed!Overflow /\ Known(Played', chunksRead)
<1>1. MixerInv(mixer) /\ Unopened(mixer)
  BY DEF PlayInv, SampleInv, Inv, MixInv
<1>2. PICK f \in Outputs : f = FlattenSeq(mixer.outputQueue)
  BY <1>1, FlattenType DEF MixerInv, MixerType, Shipments, Outputs
<1>3. << >> \in Outputs /\ f \o << >> = f /\ FlatPlaces(<< >>) = << >>
  BY DEF Outputs, FlatPlaces
<1>4. PICK a \in Seq(SampleSets) : a = Played /\ Played' = a \o << >>
  BY <1>2, <1>3, PlayedGrows DEF Overflows
<1>5. Line' = << >> /\ Line = LineOf(mixer, scenario.stereo)
  BY <1>2, <1>3, PlayedGrows DEF Overflows
<1>6. Played' = Played
  BY <1>4
<1>7. Mixed!Fresh(p)
  BY NextPacketFresh
<1>8. PICK first \in 1..Capacity : first + p.n - 1 = Capacity /\ Len(Line) < first + p.n - 1
  BY <1>5 DEF Overflows
<1>9. QED
  BY <1>5, <1>6, <1>7, <1>8 DEF Mixed!Overflow, PlayInv

\* A step that plays the line and begins another.
LEMMA RestartsIsRestart ==
  ASSUME PlayInv, scenario' = scenario, NEW m, MixerInv(m), Unopened(m), WriteOutput(m),
         NEW c \in PacketType, c.id = chunksRead + 1,
         NEW p \in AllPackets, p.id = c.id, p.n = c.n,
         Restarts(m, mixer, scenario.stereo, c)
  PROVE  Mixed!Restart /\ Known(Played', chunksRead)
<1>1. PICK part \in Outputs :
        /\ FlattenSeq(m.outputQueue) = FlattenSeq(mixer.outputQueue) \o part
        /\ LineOf(mixer, scenario.stereo) = FlatPlaces(part)
        /\ LineOf(m, scenario.stereo) = Mixed!Laid(<< >>, c, 1, {})
  BY DEF Restarts
<1>2. /\ Played' = Played \o Line /\ Line' = Mixed!Laid(<< >>, c, 1, {})
      /\ Played \in Seq(SampleSets) /\ Line \in Seq(SampleSets)
  BY <1>1, PlayedGrows
<1>3. Mixed!Fresh(p) /\ Known(Line, chunksRead) /\ Known(Played, chunksRead)
  BY NextPacketFresh DEF PlayInv
<1>4. Line' = Mixed!Laid(<< >>, p, 1, {})
  BY <1>2, LaidAlike
<1>5. Known(Played', chunksRead)
  BY <1>2, <1>3, KnownJoin
<1>6. QED
  BY <1>2, <1>3, <1>4, <1>5 DEF Mixed!Restart

\* What is played is what was: no place is added to it.
LEMMA SamePlaces ==
  ASSUME UNCHANGED <<scenario, mixer, storage>>
  PROVE  Line' = Line /\ Played' = Played
  BY DEF Line, Played

\* Samples of the first n packets are of the first n + 1.
LEMMA KnownMore ==
  ASSUME NEW f, NEW n \in Nat, Known(f, n)
  PROVE  Known(f, n + 1)
  BY DEF Known

\* Another packet does not change whose the others are.
LEMMA OwnJoins ==
  ASSUME NEW m, NEW pk, NEW pk2, Own(m, pk), Len(pk) \in Nat, Len(pk2) = Len(pk) + 1,
         \A i \in 1..Len(pk) : pk2[i] = pk[i]
  PROVE  Own(m, pk2)
<1>1. \A i \in 1..Len(pk) : i \in 1..Len(pk2)
  OBVIOUS
<1>2. QED
  BY <1>1 DEF Own

\* A chunk that is mixed makes a step of the mixed audio.
LEMMA MixChunkMixes ==
  ASSUME PlayInv, MixChunk
  PROVE  /\ Mixed!Next
         /\ Own(mixer', packets') /\ Quiet(mixer', scenario.stereo)
         /\ storage' \in Outputs /\ Known(Played', chunksRead + 1)
<1>1. SampleInv /\ CaptureInv /\ Own(mixer, packets) /\ Quiet(mixer, scenario.stereo)
      /\ storage \in Outputs
  BY DEF PlayInv
<1>2. PICK c \in PacketType, m \in MixerType :
        /\ c.id = chunksRead + 1
        /\ packets' \in Seq(AnyPacket) /\ Len(packets') = chunksRead + 1
        /\ packets'[c.id] = CorrectRogueTimestamp(mixer, c)
        /\ \A i \in 1..Len(packets) : packets'[i] = packets[i]
        /\ MixInv(mixer, packets') /\ MixInv(m, packets')
        /\ m \in AudioChunkIn(mixer, scenario.stereo, c)
        /\ c.n \in scenario.sizes /\ (c.n < Capacity \/ c.n > MaxSamples)
        /\ WriteOutput(m)
  BY <1>1, MixChunkTakes
<1>3. /\ chunksRead \in Nat /\ Len(packets) = chunksRead /\ scenario \in Scenarios
      /\ OneMix(mixer, scenario.stereo) /\ scenario' = scenario
  BY <1>1 DEF SampleInv, Inv, MixChunk
<1>4. Own(mixer, packets')
  BY <1>1, <1>2, <1>3, OwnJoins
<1>5. c.id \in 1..Len(packets')
  BY <1>2, <1>3
<1>6. /\ Own(m, packets') /\ Quiet(m, scenario.stereo)
      /\ \/ Ships(m, mixer, scenario.stereo)
         \/ c.n \in 1..(Capacity - 1) /\ Plays(m, mixer, scenario.stereo, c)
  BY <1>1, <1>2, <1>3, <1>4, <1>5, AudioChunkInPlays
<1>7. MixerInv(m) /\ Unopened(m)
  BY <1>2 DEF MixInv
<1>8. storage' \in Outputs /\ SameBuffers(mixer', m)
  BY <1>1, <1>2, <1>7, WriteOutputMoves
<1>9. UsedSpace(mixer') = UsedSpace(m)
  BY <1>2, <1>7, WriteOutputInv
<1>10. Own(mixer', packets') /\ Quiet(mixer', scenario.stereo)
  BY <1>6, <1>8, <1>9 DEF Own, Quiet, SameBuffers
<1>11. CASE Ships(m, mixer, scenario.stereo)
  <2>1. Mixed!Play /\ Known(Played', chunksRead)
    BY <1>2, <1>3, <1>7, <1>11, ShipsIsPlay
  <2>2. QED
    BY <1>3, <1>8, <1>10, <2>1, KnownMore DEF Mixed!Next
<1>12. CASE c.n \in 1..(Capacity - 1) /\ Plays(m, mixer, scenario.stereo, c)
  <2> DEFINE p == [id |-> c.id, n |-> c.n]
  <2>1. p.id = c.id /\ p.n = c.n
    OBVIOUS
  <2>2. p \in AllPackets
    <3>1. chunksRead < Len(file.disk)
      BY DEF MixChunk, NextChunk, ReadChunkMono
    <3>2. /\ Len(file.disk) <= captured /\ captured <= scenario.chunks /\ captured \in Nat
          /\ Len(file.disk) \in Nat /\ scenario.chunks \in Nat
      BY <1>1, <1>3, ScenarioTypes DEF CaptureInv, FileInv, FileType
    <3>3. c.id \in 1..scenario.chunks
      BY <1>2, <1>3, <3>1, <3>2
    <3>4. 0 < c.n /\ c.n < Capacity
      BY <1>12, MixerBounds
    <3>5. QED
      BY <1>2, <1>3, <3>3, <3>4 DEF AllPackets
  <2> HIDE DEF p
  <2>3. CASE Ships(m, mixer, scenario.stereo)
    BY <1>11, <2>3
  <2>4. CASE MixesIn(m, mixer, scenario.stereo, c)
    <3>1. Mixed!Mix /\ Known(Played', chunksRead + 1)
      BY <1>2, <1>3, <1>7, <1>12, <2>1, <2>2, <2>4, MixesInIsMix
    <3>2. QED
      BY <1>8, <1>10, <3>1 DEF Mixed!Next
  <2>5. CASE Overflows(m, mixer, scenario.stereo, c)
    <3>1. Mixed!Overflow /\ Known(Played', chunksRead)
      BY <1>2, <1>3, <1>7, <2>1, <2>2, <2>5, OverflowsIsOverflow
    <3>2. QED
      BY <1>3, <1>8, <1>10, <3>1, KnownMore DEF Mixed!Next
  <2>6. CASE Restarts(m, mixer, scenario.stereo, c)
    <3>1. Mixed!Restart /\ Known(Played', chunksRead)
      BY <1>2, <1>3, <1>7, <2>1, <2>2, <2>6, RestartsIsRestart
    <3>2. QED
      BY <1>3, <1>8, <1>10, <3>1, KnownMore DEF Mixed!Next
  <2>7. QED
    BY <1>12, <2>3, <2>4, <2>5, <2>6 DEF Plays
<1>13. QED
  BY <1>6, <1>11, <1>12

\* The end of the stream and the output that is left play the rest.
LEMMA OutputPlays ==
  ASSUME PlayInv, UNCHANGED <<scenario, packets, chunksRead>>, NEW m, MixerInv(m), Unopened(m),
         SameBuffers(m, mixer), UsedSpace(m) <= UsedSpace(mixer),
         Ships(m, mixer, scenario.stereo), WriteOutput(m)
  PROVE  /\ Mixed!Next
         /\ Own(mixer', packets') /\ Quiet(mixer', scenario.stereo)
         /\ storage' \in Outputs /\ Known(Played', chunksRead)
<1>1. Mixed!Play /\ Known(Played', chunksRead)
  BY ShipsIsPlay
<1>2. storage' \in Outputs /\ SameBuffers(mixer', m) /\ UsedSpace(mixer') = UsedSpace(m)
  BY WriteOutputMoves, WriteOutputInv DEF PlayInv
<1>3. Own(mixer', packets')
  BY <1>2 DEF PlayInv, Own, SameBuffers
<1>4. UsedSpace(m) \in Nat /\ UsedSpace(mixer) \in Nat
  BY UsedSpaceBound, MixerBounds DEF MixerInv, PlayInv, SampleInv, Inv
<1>5. UsedSpace(mixer) = 0 => UsedSpace(mixer') = 0
  BY <1>2, <1>4
<1>6. Quiet(mixer', scenario.stereo)
  BY <1>2, <1>5 DEF PlayInv, Quiet, SameBuffers
<1>7. QED
  BY <1>1, <1>2, <1>3, <1>6 DEF Mixed!Next

\* Every step of a call keeps the invariant, and is one of its mixed audio.
LEMMA PlayStep == PlayInv /\ [Next]_vars => PlayInv' /\ [Mixed!Next]_(Mixed!vars)
<1> SUFFICES ASSUME PlayInv, [Next]_vars PROVE PlayInv' /\ [Mixed!Next]_(Mixed!vars)
  OBVIOUS
<1>1. /\ SampleInv /\ CaptureInv /\ Own(mixer, packets) /\ Quiet(mixer, scenario.stereo)
      /\ storage \in Outputs /\ Known(Played, chunksRead)
      /\ MixInv(mixer, packets) /\ MixerInv(mixer) /\ Unopened(mixer)
      /\ chunksRead \in Nat /\ Len(packets) = chunksRead /\ packets \in Seq(AnyPacket)
  BY DEF PlayInv, SampleInv, Inv, MixInv
<1>2. SampleInv' /\ CaptureInv'
  BY <1>1, SampleStep, CaptureStep
<1>3. ASSUME scenario' = scenario, Own(mixer', packets'), Quiet(mixer', scenario.stereo),
             storage' \in Outputs, Known(Played', chunksRead')
      PROVE  PlayInv'
  <2>1. Own(mixer, packets)'
    BY <1>3 DEF Own
  <2>2. Quiet(mixer, scenario.stereo)'
    BY <1>3 DEF Quiet, UsedSpace
  <2>3. Known(Played, chunksRead)'
    BY <1>3 DEF Known
  <2>4. QED
    BY <1>2, <1>3, <2>1, <2>2, <2>3 DEF PlayInv
<1>4. CASE UNCHANGED <<scenario, mixer, storage, packets, chunksRead>>
  <2>1. UNCHANGED <<Line, Played>>
    BY <1>4, SamePlaces
  <2>2. QED
    BY <1>1, <1>3, <1>4, <2>1 DEF Mixed!vars
<1>5. CASE CaptureChunk \/ StopCapture \/ ReadFails \/ UNCHANGED vars
  BY <1>4, <1>5 DEF CaptureChunk, StopCapture, ReadFails, vars, transcodeVars
<1>6. CASE SkipOne \/ SkipUnknownCodec
  <2>1. /\ packets' = Append(packets, NoPacket) /\ chunksRead' = chunksRead + 1
        /\ UNCHANGED <<scenario, mixer, storage>>
    BY <1>6 DEF SkipOne, SkipUnknownCodec
  <2>2. UNCHANGED <<Line, Played>>
    BY <2>1, SamePlaces
  <2>3. NoPacket \in AnyPacket
    BY DEF NoPacket, AnyPacket
  <2>4. Len(packets') = Len(packets) + 1 /\ \A i \in 1..Len(packets) : packets'[i] = packets[i]
    BY <1>1, <2>1, <2>3
  <2>5. Own(mixer', packets')
    BY <1>1, <2>1, <2>4, OwnJoins
  <2>6. Known(Played', chunksRead')
    BY <1>1, <2>1, <2>2, KnownMore
  <2>7. QED
    BY <1>1, <1>3, <2>1, <2>2, <2>5, <2>6 DEF Mixed!vars
<1>7. CASE MixChunk
  <2>1. scenario' = scenario /\ chunksRead' = chunksRead + 1
    BY <1>7 DEF MixChunk
  <2>2. QED
    BY <1>3, <1>7, <2>1, MixChunkMixes
<1>8. CASE FlushMixer
  <2>1. UNCHANGED <<scenario, packets, chunksRead>>
    BY <1>8 DEF FlushMixer
  <2>2. CASE WriteOutput(EndOfStream(mixer, scenario.stereo))
    <3> DEFINE m == EndOfStream(mixer, scenario.stereo)
    <3>1. /\ MixerInv(m) /\ Unopened(m) /\ SameBuffers(m, mixer)
          /\ Ships(m, mixer, scenario.stereo) /\ UsedSpace(m) <= UsedSpace(mixer)
      <4>0. UsedSpace(mixer) \in Nat
        BY <1>1, UsedSpaceBound, MixerBounds DEF MixerInv
      <4>1. CASE mixer.error
        <5>1. m = mixer
          BY <4>1 DEF EndOfStream
        <5>2. Ships(mixer, mixer, scenario.stereo) /\ SameBuffers(mixer, mixer)
          BY <1>1, ShipsNothing DEF SameBuffers
        <5>3. QED
          BY <1>1, <4>0, <5>1, <5>2
      <4>2. CASE ~mixer.error
        <5>1. m = CreateShipment(mixer, scenario.stereo, TRUE)
          BY <4>2 DEF EndOfStream
        <5> HIDE DEF m
        <5>2. MixerInv(m) /\ UsedSpace(m) = 0
          BY <1>1, <5>1, CreateShipmentInv
        <5>3. Ships(m, mixer, scenario.stereo) /\ SameBuffers(m, mixer)
          BY <1>1, <5>1, CreateShipmentShips
        <5>4. Unopened(m)
          BY <1>1, <5>3 DEF Unopened, SameBuffers
        <5>5. QED
          BY <4>0, <5>2, <5>3, <5>4
      <4>3. QED
        BY <4>1, <4>2
    <3> HIDE DEF m
    <3>2. WriteOutput(m)
      BY <2>2 DEF m
    <3>3. QED
      BY <1>3, <2>1, <3>1, <3>2, OutputPlays
  <2>3. CASE UNCHANGED <<mixer, storage>>
    BY <1>4, <2>1, <2>3
  <2>4. QED
    BY <1>8, <2>2, <2>3 DEF FlushMixer
<1>9. CASE Drain
  <2>1. UNCHANGED <<scenario, packets, chunksRead>>
    BY <1>9 DEF Drain
  <2>2. CASE WriteOutput(mixer)
    <3>1. Ships(mixer, mixer, scenario.stereo) /\ SameBuffers(mixer, mixer)
      BY <1>1, ShipsNothing DEF SameBuffers
    <3>2. UsedSpace(mixer) <= UsedSpace(mixer)
      BY <1>1, UsedSpaceBound, MixerBounds DEF MixerInv
    <3>3. QED
      BY <1>1, <1>3, <2>1, <2>2, <3>1, <3>2, OutputPlays
  <2>3. CASE UNCHANGED <<mixer, storage>>
    BY <1>4, <2>1, <2>3
  <2>4. QED
    BY <1>9, <2>2, <2>3 DEF Drain
<1>10. QED
  BY <1>5, <1>6, <1>7, <1>8, <1>9 DEF Next

\* The RtpMixer and the batch thread implement MixedAudio: for every capacity,
\* trigger, hold-off and stream of packets, every packet that is taken is laid on
\* one line at the place of its first sample, and the storage file gets the line
\* in order and once, but for a line that a packet fills exactly.
THEOREM CallRefinesMixedAudio == Spec => RefinesMixedAudio
<1>1. Init => PlayInv /\ Mixed!Init
  <2> SUFFICES ASSUME Init PROVE PlayInv /\ Mixed!Init
    OBVIOUS
  <2>1. mixer = NewMixer /\ packets = << >> /\ chunksRead = 0 /\ storage = << >>
    BY DEF Init
  <2>2. SampleInv /\ CaptureInv
    BY SampleInit, CaptureInit
  <2>3. mixer.outputQueue = << >> /\ UsedSpace(mixer) = 0
    BY <2>1 DEF NewMixer, UsedSpace
  <2>4. storage \o FlattenSeq(mixer.outputQueue) = << >>
    BY <2>1, <2>3, FlattenNothing
  <2>5. Played = << >> /\ Line = << >>
    BY <2>3, <2>4 DEF Played, Line
  <2>6. Own(mixer, packets)
    BY <2>1 DEF Own, NewMixer
  <2>7. storage \in Outputs
    BY <2>1 DEF Outputs
  <2>8. Known(Played, chunksRead)
    BY <2>5 DEF Known
  <2>9. QED
    BY <2>2, <2>3, <2>5, <2>6, <2>7, <2>8 DEF PlayInv, Quiet, Mixed!Init
<1>2. PlayInv /\ [Next]_vars => PlayInv' /\ [Mixed!Next]_(Mixed!vars)
  BY PlayStep
<1>3. QED
  BY <1>1, <1>2, PTL DEF Spec, RefinesMixedAudio, Mixed!Spec
=============================================================================
