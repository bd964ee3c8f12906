-------------------------- MODULE MCVoIpSessions --------------------------
EXTENDS VoIpSessions, TLC

CONSTANTS c1, c2, k1, h1, h2, a1, a2

MCHostOf == (a1 :> h1) @@ (a2 :> h2)
MCEndpointOf == (k1 :> h1)

\* The shipped defaults, with two SIP calls.
Defaults ==
    [ rtpAllowMultipleMappings |-> TRUE, sipDynamicMediaAddress |-> TRUE,
      sipInviteCanPutOffHold |-> FALSE, sipAllowMediaAddressTransfer |-> FALSE,
      skinnyAllowMediaAddressTransfer |-> TRUE, skinnyDynamicMediaAddress |-> TRUE,
      skinnyAllowLateCallInfo |-> FALSE, skinnyCallInfoStopsPrevious |-> FALSE,
      skinnyIgnoreStopMediaTransmission |-> TRUE,
      mediaAddressUseSecondRtpAddress |-> FALSE,
      rtpTrackUsingIpAddresses |-> {}, calls |-> {c1, c2},
      staleEndPoints |-> {NoHost}, maxSessions |-> 2 ]

\* One media address per session; two calls that may put each other aside.
SingleMapping ==
    [Defaults EXCEPT !.rtpAllowMultipleMappings = FALSE,
                     !.sipInviteCanPutOffHold = TRUE]

\* The same with one call and a third session.
ThreeSessions ==
    [Defaults EXCEPT !.rtpAllowMultipleMappings = FALSE, !.calls = {c1},
                     !.maxSessions = 3]

\* A SIP call and a phone call, and a SIP session whose m_endPointIp happens
\* to hold the phone's address.
SipAndSkinny ==
    [Defaults EXCEPT !.skinnyCallInfoStopsPrevious = TRUE,
                     !.skinnyIgnoreStopMediaTransmission = FALSE,
                     !.calls = {c1, k1}, !.staleEndPoints = {h1}]

\* A phone whose media may start before its CallInfo.
LateCallInfo ==
    [Defaults EXCEPT !.skinnyAllowLateCallInfo = TRUE, !.calls = {k1}]

\* Both ends of a stream are mapped, and one host is preferred.
SecondAddress ==
    [Defaults EXCEPT !.mediaAddressUseSecondRtpAddress = TRUE,
                     !.sipDynamicMediaAddress = FALSE,
                     !.rtpTrackUsingIpAddresses = {h1}, !.calls = {c1}]

MCDeployments ==
    {Defaults, SingleMapping, ThreeSessions, SipAndSkinny, LateCallInfo, SecondAddress}

\* Only the defaults.
DefaultDeployment == {Defaults}
=============================================================================
