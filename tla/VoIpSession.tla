----------------------------- MODULE VoIpSession -----------------------------
(***************************************************************************)
(* The RTP of one VoIP session (VoIpSession::AddRtpPacket,                 *)
(* OrkSession::DetectChannel and DtmfHandling.cpp): which packets are      *)
(* recorded, on which of the two channels, and when the recording starts.  *)
(*                                                                         *)
(* A packet is [stream (its SSRC), src, dst, seq, ts, at, kind, loudness,  *)
(* n].  kind is "audio", "dynamic" (a payload type above 18) or the digit  *)
(* that a telephone event ends; ts counts packets of 160 samples, and n    *)
(* numbers the packets of the network.                                     *)
(***************************************************************************)
EXTENDS SessionMetadata

CONSTANTS
  AlienPackets,     \* 10: foreign packets without one of the side they replace
  CandidateTimeout, \* 2 seconds
  MinSeqDelta,      \* RtpDiscontinuityMinSeqDelta
  MinPackets        \* RtpMinAmountOfPacketsBeforeStart

ASSUME CountersAreNat == AlienPackets \in Nat \ {0} /\ MinPackets \in Nat \ {0}

Digits == {"1", "2"}

\* m_keepRtp is FALSE at first unless recordings look back.
NewSession(c, id, protocol, now) ==
  [trackingId |-> id, protocol |-> protocol, capturePort |-> "", out |-> << >>,
   started |-> FALSE, stopped |-> FALSE, beginDate |-> 0, lastUpdated |-> now,
   orkUid |-> None, metadataProcessed |-> FALSE,
   keepRtp |-> c.lookBack, onDemand |-> FALSE, startWhenS2 |-> FALSE,
   nonLookBackStarted |-> FALSE, numRtp |-> 0, numIgnored |-> 0,
   last |-> NoPacket, last1 |-> NoPacket, last2 |-> NoPacket,
   candidate |-> "none", candidateAt |-> 0, alien1 |-> 0, alien2 |-> 0,
   mapped |-> FALSE, addresses |-> {},
   onHold |-> FALSE, holdBegin |-> 0, holdDuration |-> 0,
   localParty |-> None, remoteParty |-> None, entryPoint |-> None,
   direction |-> "unkn", localSide |-> "unkn", localIp |-> "none",
   endPointIp |-> "none", isCallPickUp |-> FALSE,
   sipDialedNumber |-> None, sipRemoteParty |-> None,
   invite |-> << >>, invites |-> << >>, validated |-> {}, tags |-> << >>,
   rtcpLocal |-> FALSE, rtcpRemote |-> FALSE,
   localPartyReported |-> FALSE, remotePartyReported |-> FALSE,
   dtmf |-> << >>, eventTs |-> 0, cSeq |-> 0]

\* Start() and ReportMetadata(), which always come together.
Begin(c, s, now) == ReportMetadata(c, Start(s, now))
-----------------------------------------------------------------------------
(* DTMF (DtmfHandling.cpp)                                                 *)

Occurs(string, sub) ==
  sub # << >> /\ \E i \in 0..Len(string) - Len(sub) : SubSeq(string, i + 1, i + Len(sub)) = sub

\* ReportDtmfDigit: digits may start, pause and resume the recording.
ReportDtmfDigit(c, s, digit) ==
  LET string == Append(IF Len(s.dtmf) > 100 THEN << >> ELSE s.dtmf, digit)
      isStart == Occurs(string, c.onDemandDigits)
      isPause == Occurs(string, c.pauseDigits)
      toggles == c.onDemandDigits = c.pauseDigits /\ isStart
      start == isStart /\ ~(toggles /\ s.keepRtp)
      pause == isPause /\ ~(toggles /\ ~s.keepRtp)
      heard == [s EXCEPT !.dtmf = IF c.onDemandDigits # << >> /\ (isStart \/ isPause)
                                  THEN << >> ELSE string]
      acted == IF c.onDemandDigits = << >> THEN heard
               ELSE IF start /\ ~(s.onDemand /\ s.keepRtp)
               THEN [MarkAsOnDemand(heard, "both") EXCEPT !.keepRtp = TRUE]
               ELSE IF pause /\ s.keepRtp THEN [heard EXCEPT !.keepRtp = FALSE]
               ELSE heard
  IN TellAll(acted,
       (IF c.dtmfReportFullString THEN <<KeyValue("dtmfstring", acted.dtmf)>> ELSE << >>)
       \o <<KeyValue("dtmfdigit", digit)>>)

\* HandleRtpEvent: the end of an event is sent several times.
HandleRtpEvent(c, s, p) ==
  IF p.ts = s.eventTs THEN s
  ELSE ReportDtmfDigit(c, [s EXCEPT !.eventTs = p.ts], p.kind)

\* VoIpSession::ReportSipInfo: a digit, or the marks of on-demand recording.
ReportSipInfo(c, s, info) ==
  LET noted == [s EXCEPT !.cSeq = info.cSeq]
      keyed == IF info.digit \in Digits /\ c.sipInfoDtmf
               THEN ReportDtmfDigit(c, noted, info.digit) ELSE noted
      on == IF info.onDemand = "on" THEN MarkAsOnDemand(keyed, "both") ELSE keyed
  IN IF info.cSeq = s.cSeq THEN s
     ELSE IF info.onDemand = "off" THEN MarkAsOnDemandOff(on) ELSE on
-----------------------------------------------------------------------------
(* Channels                                                                *)

SameStream(p, q) == p.stream = q.stream /\ p.dst = q.dst

\* The session starts with the second side.
BeginWithS2(c, s, now) == [Begin(c, s, now) EXCEPT !.nonLookBackStarted = @ \/ ~c.lookBack]

\* OrkSession::DetectChannel
DetectChannel(c, s, p) ==
  LET first == s.last1 = NoPacket \/ (s.last2 = NoPacket /\ ~SameStream(p, s.last1))
      channel == IF s.last1 = NoPacket \/ SameStream(p, s.last1) THEN 1
                 ELSE IF s.last2 = NoPacket \/ SameStream(p, s.last2) THEN 2 ELSE 0
      begins == channel = 2
                /\ IF first THEN ~c.s2Activity /\ c.discardUnidirectional /\ s.startWhenS2
                   ELSE ~s.started /\ c.s2Activity /\ p.loudness = "loud"
      seen == CASE first /\ channel = 1 -> [s EXCEPT !.last1 = p]
                [] first /\ channel = 2 -> [s EXCEPT !.last2 = p]
                [] OTHER -> s
  IN [s |-> IF begins THEN BeginWithS2(c, seen, p.at) ELSE seen,
      channel |-> channel, first |-> first]

\* OrkSession::ShouldSwapChannels
ShouldSwapChannels(c, s) ==
  LET local(p) == p.src = s.localIp
      gateway(p) == p.src \in c.mediaGateways
  IN IF c.mediaGateways # {}
     THEN (gateway(s.last1) /\ c.s1IsLocal) \/ (gateway(s.last2) /\ ~c.s1IsLocal)
     ELSE (local(s.last2) /\ c.s1IsLocal) \/ (local(s.last1) /\ ~c.s1IsLocal)

\* A jump of both sequence numbers and timestamps, or of timestamps alone: the
\* packet belongs to another call.
Discontinuous(c, p, before) ==
  LET seqs == p.seq - before.seq
      times == p.ts - before.ts
      size(d) == IF d < 0 THEN -d ELSE d
  IN \/ c.discontinuityDetect /\ size(seqs) > MinSeqDelta /\ size(times) > MinSeqDelta
     \/ c.breakupOnPause /\ seqs >= 0 /\ seqs < times

\* A packet of neither side: the candidate to replace one.
Candidate(s, p) ==
  CASE s.candidate = "none" ->
         [s EXCEPT !.candidate = p.stream, !.candidateAt = p.at]
    [] s.candidate = p.stream ->
         [s EXCEPT !.candidateAt = p.at, !.alien1 = @ + 1, !.alien2 = @ + 1]
    [] OTHER ->
         IF p.at - s.candidateAt > CandidateTimeout
         THEN [s EXCEPT !.candidate = "none", !.alien1 = 0, !.alien2 = 0] ELSE s

\* A packet that was given a channel, 0 if it is dismissed; ok is FALSE if it is
\* of another call.
On(channel, s) == [s |-> s, channel |-> channel, ok |-> TRUE]

Replace(s, p) ==
  IF s.alien1 > AlienPackets
  THEN On(1, [s EXCEPT !.alien1 = 0, !.last1 = p, !.candidate = "none", !.mapped = FALSE])
  ELSE IF s.alien2 > AlienPackets
  THEN On(2, [s EXCEPT !.alien2 = 0, !.last2 = p, !.candidate = "none", !.mapped = FALSE])
  ELSE On(0, s)

\* Once both sides are known, side 1 is made the local (or the remote) one.
MapSides(c, r) ==
  LET s == r.s
      mapped == [r EXCEPT !.s.mapped = TRUE]
  IN IF r.channel = 0 \/ ~c.deterministic \/ s.mapped \/ NoPacket \in {s.last1, s.last2}
     THEN r
     ELSE IF s.protocol = "RawRtp" \/ ~ShouldSwapChannels(c, s) THEN mapped
     ELSE [mapped EXCEPT !.s.last1 = s.last2, !.s.last2 = s.last1, !.channel = 3 - @]
-----------------------------------------------------------------------------
(* VoIpSession::AddRtpPacket                                               *)

\* Without look-back a call with signalling starts with its first packet, raw
\* RTP when enough of it was seen.
StartOnSight(c, s, now) ==
  IF c.lookBack \/ s.nonLookBackStarted
     \/ (s.protocol = "RawRtp" /\ ~(c.trackRaw /\ s.numIgnored = MinPackets))
  THEN s
  ELSE IF c.discardUnidirectional THEN [s EXCEPT !.startWhenS2 = TRUE]
  ELSE [Begin(c, s, now) EXCEPT !.nonLookBackStarted = TRUE]

\* RTP that is not to be kept.
Ignore(c, s, p) ==
  LET seen == IF s.nonLookBackStarted THEN s ELSE DetectChannel(c, s, p).s
  IN [seen EXCEPT !.lastUpdated = p.at, !.numIgnored = @ + 1]

\* Without look-back, the first packet that is kept.
StartOnDemand(c, s, now) ==
  IF c.lookBack \/ s.numRtp > 0 \/ s.nonLookBackStarted THEN s
  ELSE IF c.discardUnidirectional THEN [s EXCEPT !.startWhenS2 = TRUE]
  ELSE Begin(c, s, now)

\* A Skinny session only takes the RTP of its endpoint, and during a hold
\* keep-alive packets are not RTP.
Dismissed(s, p) ==
  \/ s.protocol = "Skinny" /\ s.endPointIp \notin {p.src, p.dst}
  \/ s.onHold /\ s.last # NoPacket /\ p.kind # "audio"

\* RTP after an interruption ends a hold.
WakeUp(c, s, p) ==
  IF s.onHold /\ s.last # NoPacket /\ p.at - s.last.at > 1 THEN GoOffHold(c, s, p.at) ELSE s

\* Slip: hearing a side does not clear the count of foreign packets.
EstablishedNoReset(c, s, p, channel) ==
  LET before == IF channel = 1 THEN s.last1 ELSE s.last2
      heard == IF channel = 1 THEN [s EXCEPT !.last1 = p] ELSE [s EXCEPT !.last2 = p]
  IN CASE p.ts = before.ts -> On(0, s)
       [] p.ts # before.ts /\ Discontinuous(c, p, before) -> [On(0, s) EXCEPT !.ok = FALSE]
       [] OTHER -> On(channel, heard)

\* A packet of an established side; FALSE if it is of another call.
Established(c, s, p, channel) ==
  LET before == IF channel = 1 THEN s.last1 ELSE s.last2
      heard == IF channel = 1 THEN [s EXCEPT !.last1 = p, !.alien1 = 0]
               ELSE [s EXCEPT !.last2 = p, !.alien2 = 0]
  IN CASE p.ts = before.ts -> On(0, s)
       [] p.ts # before.ts /\ Discontinuous(c, p, before) -> [On(0, s) EXCEPT !.ok = FALSE]
       [] OTHER -> On(channel, heard)

\* The side that a packet was detected on, d, is made sure of.
Channel(c, d, p) ==
  CASE d.channel = 0 -> Replace(Candidate(d.s, p), p)
    [] d.channel # 0 /\ d.first -> On(d.channel, d.s)
    [] OTHER -> Established(c, d.s, p, d.channel)

\* Slip: a session that waits for its second side needs two packets as well.
EnoughPacketsForAll(c, s) == s.numRtp = IF s.protocol = "RawRtp" THEN MinPackets ELSE 2

\* The number of packets a session that looks back starts with.
EnoughPackets(c, s) ==
  s.numRtp = CASE s.protocol = "RawRtp" -> MinPackets
               [] s.protocol = "Skinny" -> 2
               [] OTHER -> IF c.discardUnidirectional THEN 1 ELSE 2

StartOnEnough(c, s, now) ==
  IF ~c.lookBack \/ ~EnoughPackets(c, s) THEN s
  ELSE IF c.discardUnidirectional THEN [s EXCEPT !.startWhenS2 = TRUE]
  ELSE Begin(c, s, now)

\* The addresses of a packet that counts may be new.
Relocate(c, s, p) ==
  LET r == [s EXCEPT !.numRtp = @ + 1, !.lastUpdated = p.at,
                     !.addresses = @ \cup {p.src, p.dst}]
  IN IF {p.src, p.dst} \subseteq s.addresses \/ s.protocol # "Sip"
        \/ ~s.started \/ ~c.sipAllowMetadataUpdateOnRtpChange
     THEN r ELSE UpdateMetadataSipOnRtpChange(c, r, p, p.dst \in s.addresses)

\* g_audioChunkCallBack
Record(s, p, channel) ==
  LET chunk == [n |-> p.n, stream |-> p.stream, channel |-> channel, loudness |-> p.loudness]
  IN IF ~s.started THEN s
     ELSE [s EXCEPT !.out = Append(@, [port |-> s.capturePort, chunk |-> chunk])]

\* A packet on a channel counts, may start the session, and is recorded.
Count(c, r, p) ==
  IF r.channel = 0 THEN r
  ELSE On(r.channel, Record(StartOnEnough(c, Relocate(c, r.s, p), p.at), p, r.channel))

Keep(c, s, p) ==
  IF Dismissed(s, p) THEN On(0, s)
  ELSE LET awake == [WakeUp(c, s, p) EXCEPT !.last = p]
       IN Count(c, MapSides(c, Channel(c, DetectChannel(c, awake, p), p)), p)

\* Once the session has the metadata, digits are heard whether or not the audio
\* is kept.
TakePacket(c, s, p) ==
  IF p.kind \in Digits /\ s.protocol = "Sip" /\ c.rtpReportDtmf
  THEN On(0, IF c.rtpDtmfOnlyLocal /\ p.src # s.localIp THEN s ELSE HandleRtpEvent(c, s, p))
  ELSE IF s.keepRtp THEN Keep(c, StartOnDemand(c, s, p.at), p) ELSE On(0, Ignore(c, s, p))

\* The session after packet p, and whether the packet belongs to it.
AddRtpPacket(c, s, p) == TakePacket(c, StartOnSight(c, ProcessMetadata(c, s, p), p.at), p)
=============================================================================
