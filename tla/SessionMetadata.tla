--------------------------- MODULE SessionMetadata ---------------------------
(***************************************************************************)
(* What a VoIP session (class VoIpSession) knows of its call and tells the *)
(* capture port: the parties by RTP addresses, by INVITEs and by RTCP, the *)
(* direction, holds, tags and the marks of on-demand recording.            *)
(*                                                                         *)
(* A session is a record; "out" collects the call-backs it makes, in       *)
(* order: [port, event], or [port, chunk] in VoIpSession.  c is the        *)
(* configuration.  A party is a sequence: << >> is none, and a local       *)
(* address may be appended to it.  Names, MAC addresses and the payload    *)
(* map are left out.                                                       *)
(***************************************************************************)
EXTENDS CapturePortModes

None == << >>
NoPacket == [stream |-> "none", src |-> "none", dst |-> "none"]
Ip(address) == <<address>>

\* VoIpSessions::GetLocalPartyMap
GetLocalPartyMap(c, party) == IF party \in DOMAIN c.partyMap THEN c.partyMap[party] ELSE party

\* g_captureEventCallBack
Tell(s, e) == [s EXCEPT !.out = Append(@, [port |-> s.capturePort, event |-> e])]
TellAll(s, es) ==
  [s EXCEPT !.out = @ \o [i \in 1..Len(es) |-> [port |-> s.capturePort, event |-> es[i]]]]

\* The local party as it is reported.
AddLocalIp(c, s) ==
  IF c.localPartyAddLocalIp THEN [s EXCEPT !.localParty = Append(@, s.localIp)] ELSE s

\* The port of a session: its own, or with Sangoma one by the trunk.
CapturePortOf(c, s) == IF c.sangoma THEN "trunk" ELSE s.trackingId
-----------------------------------------------------------------------------
(* The parties of a session that starts.                                   *)

\* Whether the source of raw RTP is the local side.
SourceIsLocal(c, p) ==
  IF p.src \in c.mediaGateways THEN p.dst \notin c.mediaGateways \cup c.lan
  ELSE p.src \in c.lan

ProcessMetadataRawRtp(c, s, p) ==
  LET local == IF SourceIsLocal(c, p) THEN p.src ELSE p.dst
      remote == IF SourceIsLocal(c, p) THEN p.dst ELSE p.src
  IN [s EXCEPT !.capturePort = CapturePortOf(c, s),
               !.localParty = IF s.rtcpLocal THEN @ ELSE GetLocalPartyMap(c, Ip(local)),
               !.remoteParty = IF s.rtcpRemote THEN @ ELSE GetLocalPartyMap(c, Ip(remote)),
               !.localIp = local]

\* The call was made to the request URI, which is not whom it is "to".
ToRequestUri(c, inv) ==
  c.sipRequestUriAsLocalParty /\ inv.requestUri # inv.to /\ inv.requestUri # None

ProcessMetadataSipIncoming(c, s) ==
  LET inv == s.invite
      uri == ToRequestUri(c, inv)
  IN [s EXCEPT !.localParty = GetLocalPartyMap(c, IF uri THEN inv.requestUri ELSE inv.to),
               !.remoteParty = GetLocalPartyMap(c, inv.from),
               !.direction = "in",
               !.entryPoint = IF uri THEN inv.to ELSE @,
               !.localIp = inv.receiver,
               !.capturePort = s.trackingId]

ProcessMetadataSipOutgoing(c, s) ==
  LET inv == s.invite
      uri == ToRequestUri(c, inv)
  IN [s EXCEPT !.localParty = GetLocalPartyMap(c, IF uri THEN inv.requestUri ELSE inv.from),
               !.remoteParty = GetLocalPartyMap(c, IF uri THEN inv.from ELSE inv.to),
               !.direction = IF uri THEN "in" ELSE "out",
               !.entryPoint = IF uri THEN inv.to ELSE @,
               !.localIp = inv.sender,
               !.capturePort = s.trackingId]

\* Which side of the INVITE is ours.
Incoming(c, inv) ==
  IF c.referenceAddresses # {} THEN inv.sender \in c.referenceAddresses
  ELSE inv.fromDomain \notin c.sipDomains
       /\ (inv.toDomain \in c.sipDomains \/ inv.agentIsReference)

ProcessMetadataSip(c, s) ==
  LET inv == s.invite
      sided == IF Incoming(c, inv) THEN ProcessMetadataSipIncoming(c, s)
               ELSE ProcessMetadataSipOutgoing(c, s)
  IN IF s.sipDialedNumber # None
     THEN [ProcessMetadataSipOutgoing(c, s) EXCEPT
             !.remoteParty = inv.sipDialedNumber, !.localParty = inv.to, !.direction = "out"]
     ELSE [sided EXCEPT
             !.direction = IF inv.groupPickUp THEN "in" ELSE @,
             !.remoteParty = IF s.sipRemoteParty # None THEN s.sipRemoteParty ELSE @]

ProcessMetadataSkinny(c, s, p) ==
  [s EXCEPT !.capturePort = s.trackingId,
            !.localIp = IF s.endPointIp = p.dst THEN p.dst ELSE p.src]

\* The first RTP packet settles the metadata.
ProcessMetadata(c, s, p) ==
  LET r == [s EXCEPT !.metadataProcessed = TRUE]
  IN IF s.metadataProcessed THEN s
     ELSE CASE s.protocol = "RawRtp" -> ProcessMetadataRawRtp(c, r, p)
            [] s.protocol = "Sip" -> ProcessMetadataSip(c, r)
            [] OTHER -> ProcessMetadataSkinny(c, r, p)

\* The id of the call in the signalling; raw RTP has none.
CallIdOf(s) == IF s.protocol = "RawRtp" THEN None ELSE <<s.trackingId>>

\* Everything that is known, told to the port.
ReportMetadata(c, s) ==
  LET local == IF c.localPartyForceLocalIp THEN GetLocalPartyMap(c, Ip(s.localIp))
               ELSE IF s.localParty = None /\ s.protocol = "Skinny" /\ s.endPointIp \in DOMAIN c.extensions
               THEN GetLocalPartyMap(c, c.extensions[s.endPointIp])
               ELSE s.localParty
      r == AddLocalIp(c, [s EXCEPT
             !.localParty = IF local = None THEN GetLocalPartyMap(c, Ip(s.localIp)) ELSE local,
             !.direction = IF ~s.isCallPickUp THEN @ ELSE IF @ = "in" THEN "out" ELSE "in",
             !.localPartyReported = TRUE, !.remotePartyReported = TRUE])
      tags == SetToSeq(DOMAIN s.tags)
  IN TellAll(r,
       <<Event("EtLocalParty", r.localParty), Event("EtRemoteParty", r.remoteParty)>>
       \o (IF r.entryPoint = None THEN << >> ELSE <<Event("EtLocalEntryPoint", r.entryPoint)>>)
       \o <<Event("EtDirection", r.direction), Event("EtLocalIp", r.localIp),
            Event("EtOrkUid", r.orkUid), Event("EtCallId", CallIdOf(r))>>
       \o (IF r.onDemand THEN <<KeyValue("ondemand", "true")>> ELSE << >>)
       \o [i \in 1..Len(tags) |-> KeyValue(tags[i], s.tags[tags[i]])]
       \o <<Event("EtEndMetadata", "")>>)

\* VoIpSession::Start
Start(s, now) ==
  Tell([s EXCEPT !.beginDate = now, !.started = TRUE,
                 !.orkUid = IF s.started THEN @ ELSE <<now, s.trackingId>>],
       Event("EtStart", s.trackingId))
-----------------------------------------------------------------------------
(* What is learnt during the call.                                         *)

\* ReportSipInvite: one more INVITE of the call, in the order of its handler.
KeepInvite(c, s, inv) ==
  [s EXCEPT !.invite = IF c.sipMetadataUseLastInvite \/ s.invites = << >> THEN inv ELSE @,
            !.invites = <<inv>> \o @,
            !.validated = {i + 1 : i \in @}]

\* "from" is "to": whom the caller really is, is his contact.
ContactOfSelf(c, s, inv) ==
  LET r == [s EXCEPT !.remoteParty = GetLocalPartyMap(c, inv.contact), !.direction = "out"]
  IN IF inv.from # inv.to \/ inv.contact = None THEN s
     ELSE TellAll(r, <<Event("EtRemoteParty", r.remoteParty), Event("EtDirection", r.direction)>>)

NewSipRemoteParty(c, s, inv) ==
  IF /\ inv.sipRemoteParty \notin {None, s.sipRemoteParty}
     /\ inv.method = "INVITE" \/ c.sipRemotePartyFrom200OK
  THEN [s EXCEPT !.entryPoint = IF s.sipRemoteParty = None THEN @ ELSE s.sipRemoteParty,
                 !.sipRemoteParty = inv.sipRemoteParty]
  ELSE s

ExtractFields(s, inv) ==
  LET fields == SetToSeq(DOMAIN inv.extractedFields)
  IN IF s.started
     THEN TellAll(s, [i \in 1..Len(fields) |->
                        KeyValue(fields[i], inv.extractedFields[fields[i]])])
     ELSE [s EXCEPT !.tags =
             [f \in DOMAIN @ \cup DOMAIN inv.extractedFields |->
                IF f \in DOMAIN @ THEN @[f] ELSE inv.extractedFields[f]]]

KeepOnDemandField(c, s) ==
  IF c.onDemandField \in DOMAIN s.tags /\ s.tags[c.onDemandField] = c.onDemandValue
  THEN [s EXCEPT !.keepRtp = TRUE, !.onDemand = TRUE] ELSE s

ReportSipInvite(c, s, inv) ==
  LET kept == ContactOfSelf(c, KeepInvite(c, s, inv), inv)
  IN KeepOnDemandField(c, ExtractFields(NewSipRemoteParty(c, kept, inv), inv))

\* The oldest INVITE newer than those that have led to RTP whose receiver has
\* the new address.
InviteOf(s, p, sourceIsNew) ==
  LET valid == {i \in 1..Len(s.invites) : i \in s.validated}
      fresh == {i \in 1..Len(s.invites) : \A v \in valid : i < v}
      matching == {i \in fresh :
                     s.invites[i].receiver = IF sourceIsNew THEN p.src ELSE p.dst}
  IN IF matching = {} THEN 0 ELSE CHOOSE i \in matching : \A j \in matching : j <= i

\* VoIpSession::UpdateMetadataSipOnRtpChange
UpdateMetadataSipOnRtpChange(c, s, p, sourceIsNew) ==
  LET i == InviteOf(s, p, sourceIsNew)
      uri == c.sipRequestUriAsLocalParty /\ s.invite.requestUri # s.invite.to
      r == AddLocalIp(c, [s EXCEPT
             !.validated = @ \cup {i},
             !.localParty = GetLocalPartyMap(c, IF uri THEN s.invite.requestUri ELSE s.invites[i].to),
             !.remoteParty = GetLocalPartyMap(c, IF uri THEN s.invite.from ELSE s.invites[i].from),
             !.direction = IF uri THEN "in" ELSE @,
             !.entryPoint = IF uri THEN s.invite.to ELSE @,
             !.localIp = s.invites[i].receiver])
  IN IF i = 0 THEN s
     ELSE TellAll(r, <<Event("EtLocalParty", r.localParty),
                       Event("EtRemoteParty", r.remoteParty),
                       Event("EtLocalIp", r.localIp), Event("EtUpdate", "")>>)

\* VoIpSession::ReportRtcpSrcDescription: the first name is the local party,
\* the first other one the remote party.
ReportRtcpSrcDescription(c, s, cname) ==
  LET local == [s EXCEPT !.rtcpLocal = TRUE, !.localParty = GetLocalPartyMap(c, cname)]
      remote == [s EXCEPT !.rtcpRemote = TRUE, !.remoteParty = GetLocalPartyMap(c, cname)]
  IN IF ~s.rtcpLocal
     THEN IF ~s.localPartyReported THEN local
          ELSE LET r == AddLocalIp(c, local) IN Tell(r, Event("EtLocalParty", r.localParty))
     ELSE IF s.rtcpRemote \/ cname = s.localParty THEN s
     ELSE IF ~s.remotePartyReported THEN remote
     ELSE Tell(remote, Event("EtRemoteParty", remote.remoteParty))

GoOnHold(c, s, now) ==
  LET held == [s EXCEPT !.onHold = TRUE, !.holdBegin = now]
  IN IF ~s.started THEN s
     ELSE IF c.holdDuration \/ c.holdEvents THEN Tell(held, Event("EtHold", s.trackingId))
     ELSE held

GoOffHold(c, s, now) ==
  LET r == [s EXCEPT !.lastUpdated = now, !.onHold = FALSE,
                     !.holdDuration = @ + (now - s.holdBegin)]
  IN TellAll(r,
       (IF c.holdReportStats THEN <<KeyValue("holdtime", r.holdDuration)>> ELSE << >>)
       \o (IF c.holdDuration \/ c.holdEvents THEN <<Event("EtResume", s.trackingId)>> ELSE << >>))

MarkAsOnDemand(s, side) ==
  LET r == [s EXCEPT !.onDemand = TRUE]
  IN IF ~s.started THEN r
     ELSE TellAll(r, <<KeyValue("ondemand", "true"), Event("EtAudioKeepDirection", side),
                       Event("EtUpdate", "")>>)

MarkAsOnDemandOff(s) ==
  LET r == [s EXCEPT !.onDemand = FALSE]
  IN IF ~s.started THEN r
     ELSE TellAll(r, <<KeyValue("ondemand", "false"), Event("EtUpdate", "")>>)

\* REFER, and an error response: the call is tagged.
ReportSipRefer(s) == Tell(s, KeyValue("orig-orkuid", s.orkUid))
ReportSipErrorPacket(s) == Tell(s, KeyValue("failed", "true"))

\* VoIpSession::ReportSipNotify (NEC): the switch tells who is called.
ReportSipNotify(c, s, dsp) ==
  LET outer == IF s.invite.sender \in c.referenceAddresses THEN s.invite.from ELSE s.invite.to
      known == [s EXCEPT !.sipRemoteParty = dsp]
  IN IF outer \notin c.necVoipGatewayNames THEN s
     ELSE IF s.started THEN Tell(known, Event("EtRemoteParty", dsp))
     ELSE [known EXCEPT !.invite.sipRemoteParty = dsp]

\* VoIpSession::ReportSipBye (dahdi): the party that was not known so far.
ReportSipBye(c, s, bye) ==
  LET local == [s EXCEPT !.localParty =
                  GetLocalPartyMap(c, IF s.remoteParty # bye.to THEN bye.to ELSE bye.from)]
      remote == [s EXCEPT !.remoteParty =
                   GetLocalPartyMap(c, IF s.localParty # GetLocalPartyMap(c, bye.to)
                                       THEN bye.to ELSE bye.from)]
  IN IF ~c.dahdiIntercept THEN s
     ELSE IF s.localParty = <<"s">> THEN Tell(local, Event("EtLocalParty", local.localParty))
     ELSE IF s.remoteParty = <<"s">> THEN Tell(remote, Event("EtRemoteParty", remote.remoteParty))
     ELSE s

\* VoIpSession::Stop
Stop(c, s) ==
  LET local(p) == p # NoPacket /\ p.src \notin c.referenceAddresses
      side == CASE local(s.last1) /\ local(s.last2) -> "both"
                [] local(s.last1) /\ ~local(s.last2) -> "side1"
                [] ~local(s.last1) /\ local(s.last2) -> "side2"
                [] OTHER -> s.localSide
      r == [s EXCEPT !.localSide = side, !.stopped = TRUE]
  IN IF ~s.started \/ s.stopped THEN s
     ELSE TellAll(r, <<Event("EtLocalSide", side), Event("EtStop", s.lastUpdated)>>)
=============================================================================
