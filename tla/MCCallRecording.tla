--------------------------- MODULE MCCallRecording ---------------------------
(* Configurations of the recorder, each with the network it is tried on.     *)
EXTENDS CallRecording

\* The phone of 11 is on the LAN, at "A"; "B" and "C" are elsewhere.
Inv == [from |-> <<"22">>, to |-> <<"11">>, requestUri |-> <<"11">>, contact |-> None,
        sender |-> "B", receiver |-> "A", fromDomain |-> "wan", toDomain |-> "lan",
        agentIsReference |-> FALSE, sipRemoteParty |-> None, sipDialedNumber |-> None,
        groupPickUp |-> FALSE, method |-> "INVITE", extractedFields |-> << >>]

AToB == [stream |-> "a", src |-> "A", dst |-> "B"]
BToA == [stream |-> "b", src |-> "B", dst |-> "A"]
CToA == [stream |-> "c", src |-> "C", dst |-> "A"]

\* SIP, as OrkAudio is configured when it is installed.
Default ==
  [mode |-> "plain", lookBack |-> TRUE, discardUnidirectional |-> FALSE,
   s2Activity |-> FALSE, trackRaw |-> FALSE, deterministic |-> FALSE, s1IsLocal |-> TRUE,
   mediaGateways |-> {}, lan |-> {"A"}, discontinuityDetect |-> TRUE,
   breakupOnPause |-> FALSE, holdEvents |-> FALSE, holdDuration |-> FALSE,
   holdReportStats |-> FALSE, partyMap |-> << >>, localPartyAddLocalIp |-> FALSE,
   localPartyForceLocalIp |-> FALSE, sangoma |-> FALSE, sipRequestUriAsLocalParty |-> TRUE,
   referenceAddresses |-> {}, sipDomains |-> {"lan"}, sipMetadataUseLastInvite |-> TRUE,
   sipRemotePartyFrom200OK |-> FALSE, onDemandField |-> "", onDemandValue |-> "",
   sipAllowMetadataUpdateOnRtpChange |-> FALSE, necVoipGatewayNames |-> {},
   dahdiIntercept |-> FALSE, extensions |-> << >>, rtpReportDtmf |-> FALSE,
   rtpDtmfOnlyLocal |-> FALSE, onDemandDigits |-> << >>, pauseDigits |-> << >>,
   dtmfReportFullString |-> FALSE, sipInfoDtmf |-> FALSE, isCallPickUp |-> FALSE,
   protocol |-> "Sip", invite |-> Inv, reinvites |-> {}, infos |-> {}, cnames |-> {},
   byes |-> {}, live |-> "no", rtmp |-> "up", misused |-> "fails", signalling |-> {},
   signals |-> 0, streams |-> {AToB, BToA},
   advances |-> {"next"}, kinds |-> {"audio"}, loudness |-> {"medium"},
   packets |-> 4, calls |-> 1, ticks |-> 2]

\* Foreign packets, and sides that are swapped when they are known.
Aliens == [Default EXCEPT !.deterministic = TRUE, !.streams = @ \cup {CToA},
             !.advances = {"next", "again"}, !.packets = 6, !.ticks = 1]

\* Both sides change, the one of the gateways first.
NewSides == [Aliens EXCEPT !.mediaGateways = {"B", "C"}, !.advances = {"next"},
               !.streams = @ \cup {[stream |-> "d", src |-> "A", dst |-> "C"]}]

\* A second call on the same ports splits the recording.
Split == [Default EXCEPT !.trackRaw = TRUE, !.advances = {"next", "again", "jump", "stall"},
            !.breakupOnPause = TRUE, !.mediaGateways = {"B"}, !.deterministic = TRUE,
            !.packets = 5, !.ticks = 1]

\* Recording on demand, by commands, INFO, tags of an INVITE, and digits.
OnDemand == [Default EXCEPT !.lookBack = FALSE, !.onDemandField = "record",
               !.onDemandValue = "yes", !.sipInfoDtmf = TRUE, !.rtpReportDtmf = TRUE,
               !.onDemandDigits = <<"1">>, !.pauseDigits = <<"2">>,
               !.reinvites = {[Inv EXCEPT !.extractedFields = [record |-> "yes"]]},
               !.infos = {[cSeq |-> 1, digit |-> "1", onDemand |-> "on"],
                          [cSeq |-> 2, digit |-> "", onDemand |-> "off"]},
               !.kinds = {"audio", "1", "2"}, !.ticks = 1, !.signals = 2,
               !.signalling = {"invite", "info", "start", "pause"}]
Toggle == [OnDemand EXCEPT !.pauseDigits = <<"1">>, !.rtpDtmfOnlyLocal = TRUE,
             !.dtmfReportFullString = TRUE, !.discardUnidirectional = TRUE,
             !.signalling = {"start", "pause"}]

\* One-sided calls are discarded; the second side may have to be loud.
TwoSided == [Default EXCEPT !.discardUnidirectional = TRUE, !.streams = @ \cup {CToA},
               !.signals = 2, !.signalling = {"start", "pause"}]
LoudSecond == [TwoSided EXCEPT !.s2Activity = TRUE, !.deterministic = TRUE, !.lookBack = FALSE,
                 !.loudness = {"quiet", "loud"}, !.streams = {AToB, BToA}]

\* Holds, and everything that is learnt of the parties meanwhile.
Holds == [Default EXCEPT !.holdEvents = TRUE, !.holdDuration = TRUE, !.holdReportStats = TRUE,
            !.localPartyAddLocalIp = TRUE, !.kinds = {"audio", "dynamic"}, !.streams = {AToB},
            !.ticks = 3, !.signals = 3, !.signalling = {"hold", "resume", "rtcp", "error", "refer"},
            !.cnames = {<<"a">>, <<"b">>}]
NewSide == [Default EXCEPT !.sipAllowMetadataUpdateOnRtpChange = TRUE,
              !.streams = @ \cup {CToA}, !.packets = 6, !.ticks = 1, !.signals = 2,
              !.signalling = {"invite", "notify"}, !.referenceAddresses = {"B"},
              !.necVoipGatewayNames = {<<"22">>},
              !.reinvites = {[Inv EXCEPT !.receiver = "C", !.to = <<"33">>],
                             [Inv EXCEPT !.to = <<"22">>, !.contact = <<"44">>,
                                         !.sipRemoteParty = <<"55">>]}]
Pickup == [Default EXCEPT !.isCallPickUp = TRUE, !.partyMap = (<<"11">> :> <<"eleven">>),
             !.invite = [Inv EXCEPT !.requestUri = <<"66">>, !.groupPickUp = TRUE,
                                    !.sipRemoteParty = <<"77">>],
             !.dahdiIntercept = TRUE, !.byes = {[from |-> <<"22">>, to |-> <<"11">>]}]
Outgoing == [Pickup EXCEPT !.invite = [Inv EXCEPT !.fromDomain = "lan", !.to = <<"s">>,
                                         !.requestUri = None, !.sender = "A", !.receiver = "B"]]
Dialed == [Pickup EXCEPT !.invite.sipDialedNumber = <<"99">>, !.invite.to = <<"s">>]

\* Segments and VAD, also on a port that the next call uses.
Segments == [Default EXCEPT !.mode = "segmentation", !.ticks = 5, !.packets = 5,
               !.streams = {AToB}, !.signals = 1, !.signalling = {"rtcp"},
               !.cnames = {<<"a">>}]
Trunk == [Segments EXCEPT !.sangoma = TRUE, !.protocol = "RawRtp", !.calls = 2, !.packets = 6,
                     !.signalling = {"start"}]
Voices == [Default EXCEPT !.mode = "vad", !.loudness = Loudness, !.packets = 5,
             !.streams = {AToB}, !.ticks = 1]
TrunkVoices == [Trunk EXCEPT !.mode = "vad", !.loudness = {"quiet", "loud"}, !.ticks = 2]

Skinny == [Default EXCEPT !.protocol = "Skinny", !.invite.to = None, !.streams = @ \cup {CToA},
             !.extensions = ("A" :> <<"11">>), !.packets = 5, !.signals = 1,
             !.signalling = {"pause", "start", "hold", "resume"}]
RawRtp == [Default EXCEPT !.protocol = "RawRtp", !.lookBack = FALSE, !.trackRaw = TRUE,
             !.lan = {"A", "B"}, !.mediaGateways = {"B"}, !.packets = 5, !.signals = 2,
             !.signalling = {"start", "pause"}]
RawLookBack == [RawRtp EXCEPT !.lookBack = TRUE, !.localPartyForceLocalIp = TRUE]

\* Live streams: of every call, or of those a client asks for, on servers that
\* may break off or not answer.  EtStop is sent at the end of each segment, and the
\* stream is opened again for the next.
Streamed == [Default EXCEPT !.live = "all", !.rtmp = "breaks", !.packets = 8, !.ticks = 1,
               !.mode = "segmentation"]
StreamedSegments == [Streamed EXCEPT !.rtmp = "up", !.misused = "passes", !.packets = 6,
                       !.ticks = 3, !.signalling = {"live"}, !.signals = 1]
OnAir == [Default EXCEPT !.live = "asked", !.packets = 5, !.ticks = 1, !.signals = 2,
            !.signalling = {"live"}, !.calls = 2]
OnAirAgain == [OnAir EXCEPT !.rtmp = "breaks", !.packets = 6, !.signals = 3, !.calls = 1]
SegmentsOnAir == [OnAir EXCEPT !.mode = "segmentation", !.ticks = 3, !.packets = 5, !.calls = 1]

\* When the voice falls silent the tape ends, and the filter sees chunks of no tape.
VoicesOnAir == [OnAir EXCEPT !.mode = "vad", !.loudness = {"quiet", "loud"}, !.packets = 6,
                  !.ticks = 0, !.streams = {AToB}, !.calls = 1, !.misused = "passes"]

MCScenarios ==
  {Aliens, NewSides, Split, OnDemand, Toggle, TwoSided, LoudSecond, Holds, NewSide, Pickup, Outgoing,
   Dialed, Segments, Trunk, Voices, TrunkVoices, Skinny, RawRtp, RawLookBack,
   Streamed, StreamedSegments, OnAir, [OnAir EXCEPT !.rtmp = "down"], OnAirAgain,
   SegmentsOnAir, [SegmentsOnAir EXCEPT !.misused = "passes"], VoicesOnAir}

\* One-sided calls discarded, for each protocol.
DiscardingScenarios ==
  {TwoSided, [TwoSided EXCEPT !.protocol = "Skinny"],
   [TwoSided EXCEPT !.protocol = "RawRtp", !.signals = 0]}
=============================================================================
