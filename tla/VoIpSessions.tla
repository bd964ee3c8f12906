--------------------------- MODULE VoIpSessions ---------------------------
(***************************************************************************)
(* The session registry of the VoIP capture plug-in (VoIpSession.cpp).     *)
(*                                                                         *)
(* Every call the plug-in follows is a VoIpSession.  Two indexes lead to   *)
(* it: m_byIpAndPort, which finds the session that an RTP packet belongs   *)
(* to by a media address, and m_byCallId, which finds the session that a   *)
(* signalling message belongs to.  Hoover walks both and stops what has    *)
(* been silent for too long; a session that is in neither index is never   *)
(* seen again, and never sends the stop event that closes its tape.        *)
(* SIP, Skinny and RTP packets and the control API all run under one lock  *)
(* (s_mutex in VoIp.cpp), so a handler is one step.                        *)
(*                                                                         *)
(* Parties, names, payloads and times are left out.  A timestamp shows     *)
(* only as "expired": the inactivity timeout that applies to the session   *)
(* has passed.  A choice the code makes by comparing timestamps, ports or  *)
(* party ids is a choice among the sessions it compares.                   *)
(***************************************************************************)
EXTENDS Naturals, Sequences, FiniteSets

CONSTANTS
    SipCall,        \* the SIP Call-IDs on the network
    SkinnyCall,     \* the Skinny call ids, as GenerateSkinnyCallId makes them
    NoCall,         \* the empty m_callId
    Host,           \* IP addresses
    NoHost,         \* an m_endPointIp that no host has
    Address,        \* media addresses: an IP address and a UDP port
    NoAddress,      \* m_ipAndPort = 0, a media port of 0
    HostOf,         \* the IP address of a media address
    EndpointOf,     \* the phone a Skinny call id was made for
    RtpMinAmountOfPacketsBeforeStart,   \* packets before a raw RTP session starts
    MaxPackets,     \* bound: packets are counted up to here
    MaxSessions,    \* bound: sessions created in one behaviour, at most
    Deployments     \* the configurations and traffic that are considered

Call == SipCall \cup SkinnyCall
Protocol == {"RawRtp", "Sip", "Skinny"}

ASSUME HostOfAssumption == HostOf \in [Address -> Host]
ASSUME EndpointOfAssumption == EndpointOf \in [SkinnyCall -> Host]
ASSUME SentinelAssumption ==
    NoCall \notin Call /\ NoHost \notin Host /\ NoAddress \notin Address
ASSUME BoundAssumption ==
    /\ MaxSessions \in Nat
    /\ MaxPackets \in Nat
    /\ RtpMinAmountOfPacketsBeforeStart \in 3 .. MaxPackets

\* The parameters of VoIpConfig that the handlers consult; calls, the calls
\* that the monitored network carries; and staleEndPoints, what the memory of
\* an uninitialised m_endPointIp may hold; maxSessions, the bound on the
\* sessions created in that deployment.
Deployment ==
    [ rtpAllowMultipleMappings : BOOLEAN,
      sipDynamicMediaAddress : BOOLEAN,
      sipInviteCanPutOffHold : BOOLEAN,
      sipAllowMediaAddressTransfer : BOOLEAN,
      skinnyAllowMediaAddressTransfer : BOOLEAN,
      skinnyDynamicMediaAddress : BOOLEAN,
      skinnyAllowLateCallInfo : BOOLEAN,
      skinnyCallInfoStopsPrevious : BOOLEAN,
      skinnyIgnoreStopMediaTransmission : BOOLEAN,
      mediaAddressUseSecondRtpAddress : BOOLEAN,
      rtpTrackUsingIpAddresses : SUBSET Host,
      calls : SUBSET Call,
      staleEndPoints : SUBSET (Host \cup {NoHost}) \ {{}},
      maxSessions : 1 .. MaxSessions ]

ASSUME DeploymentsAssumption == Deployments \subseteq Deployment

VARIABLES
    deployment,     \* read from the configuration once, never changed
    reg             \* the registry: both indexes and every session ever made

vars == <<deployment, reg>>

\* 0 stands for "no session": the key is not in the map.
SessionId == 0 .. MaxSessions

Session ==
    [ protocol : Protocol,
      callId : Call \cup {NoCall},
      endPoint : Host \cup {NoHost},
      started : BOOLEAN,
      stopped : BOOLEAN,
      onHold : BOOLEAN,
      packets : 0 .. MaxPackets,
      ipAndPort : Address \cup {NoAddress},
      mediaAddresses : SUBSET Address,
      expired : BOOLEAN,
      dismissed : BOOLEAN ]     \* history: VoIpSessions::Stop was called on it

NewSession(protocol, callId, endPoint) ==
    [ protocol |-> protocol, callId |-> callId, endPoint |-> endPoint,
      started |-> FALSE, stopped |-> FALSE, onHold |-> FALSE, packets |-> 0,
      ipAndPort |-> NoAddress, mediaAddresses |-> {}, expired |-> FALSE,
      dismissed |-> FALSE ]

-----------------------------------------------------------------------------
(* The registry's own operations.                                          *)

CanCreate == Len(reg.sessions) < deployment.maxSessions
NewId == Len(reg.sessions) + 1

Create(r, x) ==
    LET n == Len(r.sessions)
    IN  [r EXCEPT !.sessions =
            [s \in 1 .. n + 1 |-> IF s \in 1 .. n THEN r.sessions[s] ELSE x]]

\* std::map::insert: an existing entry stays.
Insert(index, key, s) ==
    IF index[key] = 0 THEN [index EXCEPT ![key] = s] ELSE index

\* VoIpSession::Stop: the stop event goes out once, and only after a start.
Stopped(x) ==
    [x EXCEPT !.stopped = @ \/ x.started,
              !.mediaAddresses = {},
              !.dismissed = TRUE]

\* RemoveFromMediaAddressMap: only the session that is on the map goes.
RemoveFromMediaAddressMap(r, s, a) ==
    IF a # NoAddress /\ r.byIpAndPort[a] = s
    THEN [r EXCEPT !.byIpAndPort[a] = 0]
    ELSE r

\* Slip: Stop clears the current address only.
unmappedCurrent(r, S) ==
    {a \in Address : r.byIpAndPort[a] \in S
                     /\ a = r.sessions[r.byIpAndPort[a]].ipAndPort}

\* The media addresses that stopping the sessions in S unmaps.
Unmapped(r, S) ==
    {a \in Address : r.byIpAndPort[a] \in S
                     /\ a \in r.sessions[r.byIpAndPort[a]].mediaAddresses}

\* m_byCallId.erase(m_callId), when there is a call id.
Unindexed(r, S) == {r.sessions[s].callId : s \in S} \ {NoCall}

\* VoIpSessions::Stop on each of the sessions in S.
StopSessions(r, S) ==
    LET unmapped == Unmapped(r, S)
        unindexed == Unindexed(r, S)
    IN  [ byIpAndPort |-> [a \in Address |->
                              IF a \in unmapped THEN 0 ELSE r.byIpAndPort[a]],
          byCallId |-> [c \in Call \cup {NoCall} |->
                              IF c \in unindexed THEN 0 ELSE r.byCallId[c]],
          sessions |-> [s \in DOMAIN r.sessions |->
                              IF s \in S THEN Stopped(r.sessions[s])
                                         ELSE r.sessions[s]] ]

StopSession(r, s) == StopSessions(r, {s})

\* Whether a session may take a media address that another session has.
MayReplace(r, s, old) ==
    \/ r.sessions[old].protocol = "RawRtp"
    \/ r.sessions[old].packets = 0
    \/ r.sessions[s].protocol = "Skinny" /\ deployment.skinnyAllowMediaAddressTransfer
    \/ r.sessions[s].protocol = "Sip" /\ deployment.sipAllowMediaAddressTransfer

\* Slips: the previous holder is left running without an address; the
\* previous holder is stopped, signalled or not.
leaveRunning(r, old, a) ==
    IF old = 0 THEN r ELSE RemoveFromMediaAddressMap(r, old, a)
stopAnyHolder(r, old, a) ==
    IF old = 0 THEN r ELSE StopSession(r, old)

\* The previous holder of a media address makes room: a raw RTP session is
\* stopped, a signalled one only loses the address.
MakeRoom(r, old, a) ==
    IF old = 0 THEN r
    ELSE IF r.sessions[old].protocol = "RawRtp" THEN StopSession(r, old)
    ELSE RemoveFromMediaAddressMap(r, old, a)

\* Without multiple mappings a session has one address at a time.
DropOldMapping(r, s) ==
    IF deployment.rtpAllowMultipleMappings THEN r
    ELSE [RemoveFromMediaAddressMap(r, s, r.sessions[s].ipAndPort)
            EXCEPT !.sessions[s].mediaAddresses = {}]

MapTo(r, s, a) ==
    [r EXCEPT !.byIpAndPort = Insert(@, a, s),
              !.sessions[s] = [@ EXCEPT
                !.mediaAddresses = r.sessions[s].mediaAddresses \cup {a},
                !.ipAndPort = a]]

SetMediaAddress(r, s, a) ==
    IF a = NoAddress THEN r
    ELSE LET old == r.byIpAndPort[a]
         IN  IF old = 0 \/ (old # s /\ MayReplace(r, s, old))
             THEN MapTo(DropOldMapping(MakeRoom(r, old, a), s), s, a)
             ELSE r

\* GoOnHold does nothing before the session has started.
GoOnHold(r, s) ==
    IF r.sessions[s].started
    THEN [r EXCEPT !.sessions[s] = [@ EXCEPT !.onHold = TRUE, !.expired = FALSE]]
    ELSE r

GoOffHold(r, s) ==
    [r EXCEPT !.sessions[s] = [@ EXCEPT !.onHold = FALSE, !.expired = FALSE]]

-----------------------------------------------------------------------------
(* SIP.                                                                    *)

\* An INVITE for a session that is found: hold, off hold, or an update.
\* The update moves the media only where "moves" says so.
Reinvite(r, s, a, sendonly, moves) ==
    IF sendonly THEN GoOnHold(r, s)
    ELSE IF r.sessions[s].onHold /\ deployment.sipInviteCanPutOffHold
         THEN SetMediaAddress(GoOffHold(r, s), s, a)
    ELSE IF moves THEN SetMediaAddress(r, s, a)
    ELSE r

\* The session on the media address absorbs the INVITE, whatever its call id,
\* unless it is raw RTP, a SIP session that may share the address, or (with
\* single mappings) a session of another call.
Absorbs(x, c) ==
    /\ x.protocol # "RawRtp"
    /\ IF deployment.rtpAllowMultipleMappings THEN x.protocol # "Sip"
                                              ELSE x.callId = c

\* With single mappings, a session of another call is made to look like raw
\* RTP so that SetMediaAddress replaces it.
ForceRawRtp(r, s) ==
    IF s # 0 /\ ~deployment.rtpAllowMultipleMappings
    THEN [r EXCEPT !.sessions[s].protocol = "RawRtp"]
    ELSE r

NewSipSession(r, c, a, endPoint) ==
    LET id == Len(r.sessions) + 1
        mapped == SetMediaAddress(Create(r, NewSession("Sip", c, endPoint)), id, a)
    IN  [mapped EXCEPT !.byCallId = Insert(@, c, id)]

\* m_endPointIp is not initialised by the constructor and a SIP session never
\* sets it: it holds whatever the allocation holds.
ReportSipInvite(c, a, sendonly) ==
    LET onMedia == IF a = NoAddress THEN 0 ELSE reg.byIpAndPort[a]
        r == ForceRawRtp(reg, onMedia)
        known == reg.byCallId[c]
    IN  /\ c \in deployment.calls
        /\ \/ /\ onMedia # 0 /\ Absorbs(reg.sessions[onMedia], c)
              /\ reg' = Reinvite(reg, onMedia, a, sendonly, FALSE)
           \/ /\ ~(onMedia # 0 /\ Absorbs(reg.sessions[onMedia], c))
              /\ known # 0
              /\ reg' = Reinvite(r, known, a, sendonly,
                                 deployment.sipDynamicMediaAddress
                                 /\ reg.sessions[known].ipAndPort # a)
           \/ /\ ~(onMedia # 0 /\ Absorbs(reg.sessions[onMedia], c))
              /\ known = 0 /\ CanCreate
              /\ \E endPoint \in deployment.staleEndPoints :
                     reg' = NewSipSession(r, c, a, endPoint)
        /\ UNCHANGED deployment

ReportSipSessionProgress(c, a) ==
    LET s == reg.byCallId[c]
    IN  /\ c \in deployment.calls /\ s # 0
        /\ reg' = SetMediaAddress(reg, s, a)
        /\ UNCHANGED deployment

\* A 200 OK with SDP.  Before the first packet the media address may move
\* even when it is not dynamic, depending on the LAN ranges.
ReportSip200Ok(c, a) ==
    LET s == reg.byCallId[c]
    IN  /\ c \in deployment.calls /\ s # 0
        /\ deployment.sipDynamicMediaAddress \/ reg.sessions[s].packets = 0
        /\ reg' = SetMediaAddress(reg, s, a)
        /\ UNCHANGED deployment

\* Any failure but 407, which asks for authentication.
ReportSipErrorPacket(c) ==
    /\ c \in deployment.calls /\ reg.byCallId[c] # 0
    /\ reg' = StopSession(reg, reg.byCallId[c])
    /\ UNCHANGED deployment

ReportSipBye(c) ==
    /\ c \in deployment.calls
    /\ reg' = IF reg.byCallId[c] = 0 THEN reg
              ELSE StopSession(reg, reg.byCallId[c])
    /\ UNCHANGED deployment

-----------------------------------------------------------------------------
(* Skinny.                                                                 *)

\* The sessions that the scans of m_byCallId and of m_byIpAndPort by
\* m_endPointIp choose from.  The newest wins; times are left out.
ByCallIdOn(r, host) ==
    {s \in {r.byCallId[c] : c \in Call \cup {NoCall}} \ {0} :
        r.sessions[s].endPoint = host}
ByIpAndPortOn(r, host) ==
    {s \in {r.byIpAndPort[a] : a \in Address} \ {0} :
        r.sessions[s].endPoint = host}

\* A session without a call id on the phone's address is the late call's.
LateCandidates(host) ==
    IF deployment.skinnyAllowLateCallInfo
    THEN {s \in ByIpAndPortOn(reg, host) : reg.sessions[s].callId = NoCall}
    ELSE {}

AdoptLateCallInfo(r, s, k) ==
    [r EXCEPT !.sessions[s].callId = k, !.byCallId = Insert(@, k, s)]

\* The first session found on the endpoint decides whether a late CallInfo is
\* adopted; when it has a call id already, a new session is made.
ReportSkinnyCallInfo(k) ==
    LET host == EndpointOf[k]
    IN  /\ k \in deployment.calls
        /\ reg.byCallId[k] = 0
        /\ \/ \E s \in LateCandidates(host) : reg' = AdoptLateCallInfo(reg, s, k)
           \/ /\ CanCreate
              /\ \/ ~deployment.skinnyAllowLateCallInfo
                 \/ ByIpAndPortOn(reg, host) = {}
                 \/ ByIpAndPortOn(reg, host) \ LateCandidates(host) # {}
              /\ \E previous \in {{}} \cup
                    (IF deployment.skinnyCallInfoStopsPrevious
                     THEN {{s} : s \in ByIpAndPortOn(reg, host)} ELSE {}) :
                    LET r == StopSessions(reg, previous)
                    IN  reg' = [Create(r, NewSession("Skinny", k, host))
                                  EXCEPT !.byCallId = Insert(@, k, NewId)]
        /\ UNCHANGED deployment

\* OpenReceiveChannelAck and StartMediaTransmission: the newest call of the
\* phone gets the address; without one, a session without a call id is made
\* when a late CallInfo is allowed.  It is lost when the address is refused.
OpenMedia(host, a) ==
    \/ \E s \in ByCallIdOn(reg, host) :
          /\ \/ reg.sessions[s].ipAndPort = NoAddress
             \/ deployment.skinnyDynamicMediaAddress
          /\ reg' = SetMediaAddress(reg, s, a)
    \/ /\ ByCallIdOn(reg, host) = {}
       /\ deployment.skinnyAllowLateCallInfo
       /\ CanCreate
       /\ reg' = SetMediaAddress(Create(reg, NewSession("Skinny", NoCall, host)),
                                 NewId, a)

ReportSkinnyOpenReceiveChannelAck(a) ==
    /\ SkinnyCall \cap deployment.calls # {}
    /\ OpenMedia(HostOf[a], a)
    /\ UNCHANGED deployment

ReportSkinnyStartMediaTransmission(host, a) ==
    /\ SkinnyCall \cap deployment.calls # {}
    /\ OpenMedia(host, a)
    /\ UNCHANGED deployment

\* The session is found by the conference id or by the phone's pass-through
\* party id; a session on hold is left alone.
ReportSkinnyStopMediaTransmission(k) ==
    /\ k \in deployment.calls
    /\ ~deployment.skinnyIgnoreStopMediaTransmission
    /\ \E s \in ({reg.byCallId[k]} \cup ByCallIdOn(reg, EndpointOf[k])) \ {0} :
          /\ ~reg.sessions[s].onHold
          /\ reg' = StopSession(reg, s)
    /\ UNCHANGED deployment

ReportSkinnySoftKeySetTransfConnected(k) ==
    /\ k \in deployment.calls /\ reg.byCallId[k] # 0
    /\ reg' = StopSession(reg, reg.byCallId[k])
    /\ UNCHANGED deployment

\* The Hold soft key, and a CallState message that says "on hold".
ReportSkinnySoftKeyHold(k) ==
    /\ k \in deployment.calls /\ reg.byCallId[k] # 0
    /\ reg' = GoOnHold(reg, reg.byCallId[k])
    /\ UNCHANGED deployment

ReportSkinnySoftKeyResume(k) ==
    /\ k \in deployment.calls /\ reg.byCallId[k] # 0
    /\ reg' = GoOffHold(reg, reg.byCallId[k])
    /\ UNCHANGED deployment

-----------------------------------------------------------------------------
(* RTP.                                                                    *)

\* What AddRtpPacket makes of a packet: it counts, it is dismissed (a
\* duplicate, an unestablished stream, a keep-alive during hold, ...), or it
\* shows a discontinuity and does not belong to the session.
Outcomes(x) ==
    {"counted", "dismissed"} \cup (IF x.packets > 0 THEN {"foreign"} ELSE {})

\* The packet that makes the session start.
StartPacket(x) ==
    IF x.protocol = "RawRtp" THEN RtpMinAmountOfPacketsBeforeStart ELSE 2

Starts(x) == x.packets < MaxPackets /\ x.packets + 1 = StartPacket(x)

\* RTP after a pause takes a session off hold.
AddRtpPacket(x, outcome, offHold) ==
    LET awake == [x EXCEPT !.onHold = @ /\ ~offHold, !.expired = @ /\ ~offHold]
    IN  IF outcome # "counted" THEN awake
        ELSE [awake EXCEPT
                !.packets = IF @ < MaxPackets THEN @ + 1 ELSE @,
                !.started = @ \/ Starts(x),
                !.expired = FALSE]

OffHoldChoices(x) == IF x.onHold /\ x.packets > 0 THEN BOOLEAN ELSE {FALSE}

\* The registries that offering the packet to session s leads to; a session
\* that the packet is foreign to is stopped.
Offer(r, s, outcome) ==
    IF s = 0 THEN {r}
    ELSE {LET added == [r EXCEPT !.sessions[s] = AddRtpPacket(@, outcome, offHold)]
          IN  IF outcome = "foreign" THEN StopSession(added, s) ELSE added
          : offHold \in OffHoldChoices(r.sessions[s])}

OutcomesOf(r, s) == IF s = 0 THEN {"none"} ELSE Outcomes(r.sessions[s])

\* A session at both ends is offered the same packet twice: a packet that
\* counted is then a duplicate of the last one, and one that did not is not
\* foreign either.
SecondOutcomes(r, s1, o1, s2) ==
    IF s1 = 0 \/ s1 # s2 THEN OutcomesOf(r, s2)
    ELSE IF o1 = "counted" THEN {"dismissed"}
    ELSE {"counted", "dismissed"}

Accepted(outcome) == outcome \in {"counted", "dismissed"}

IsTracking(a) == HostOf[a] \in deployment.rtpTrackUsingIpAddresses

\* Both ends are sessions: with multiple mappings two SIP sessions stay, and
\* the one with the newer INVITE takes over the other's end of the stream,
\* unless the other has just had its first packet.
SharesStream(r, s1, s2) ==
    /\ deployment.rtpAllowMultipleMappings
    /\ r.sessions[s1].protocol = "Sip" /\ r.sessions[s2].protocol = "Sip"

TakeOver(r, loser, a) ==
    IF r.sessions[loser].packets = 1 THEN r ELSE [r EXCEPT !.byIpAndPort[a] = 0]

\* The session that is merged into the other one and stopped.  Two signalled
\* sessions with as many packets are told apart by their direction.
Mergees(r, s1, s2, src, dst) ==
    LET n1 == r.sessions[s1].packets
        n2 == r.sessions[s2].packets
    IN  IF IsTracking(src) THEN {s2}
        ELSE IF IsTracking(dst) THEN {s1}
        ELSE IF r.sessions[s1].protocol = "RawRtp" THEN {s1}
        ELSE IF r.sessions[s2].protocol = "RawRtp" THEN {s2}
        ELSE IF n1 < n2 /\ n1 < 5 THEN {s1}
        ELSE IF n2 < n1 /\ n2 < 5 THEN {s2}
        ELSE {s1, s2}

\* Slip: both ends are given up.
loseBothEnds(r, s1, s2, src, dst) ==
    IF SharesStream(r, s1, s2)
    THEN {TakeOver(TakeOver(r, s2, dst), s1, src)}
    ELSE {StopSession(r, s) : s \in Mergees(r, s1, s2, src, dst)}

Merge(r, s1, s2, src, dst) ==
    IF SharesStream(r, s1, s2)
    THEN {TakeOver(r, s2, dst), TakeOver(r, s1, src)}
    ELSE {StopSession(r, s) : s \in Mergees(r, s1, s2, src, dst)}

\* One end accepted the packet: the other end may be mapped as well, and the
\* first packet of a SIP session may move it to a tracking address.
Retrack(r, s, other, src, dst) ==
    LET second == IF deployment.mediaAddressUseSecondRtpAddress
                  THEN SetMediaAddress(r, s, other) ELSE r
        x == second.sessions[s]
        tracking == IF IsTracking(dst) THEN dst
                    ELSE IF IsTracking(src) THEN src ELSE NoAddress
    IN  IF x.packets = 1 /\ x.protocol = "Sip"
        THEN SetMediaAddress(second, s, tracking)
        ELSE second

\* No session accepted the packet: a raw RTP session is made for it.
NewRawRtp(r, src, dst) ==
    LET a == IF IsTracking(src) THEN src ELSE dst
        id == Len(r.sessions) + 1
        mapped == SetMediaAddress(Create(r, NewSession("RawRtp", NoCall, HostOf[a])),
                                  id, a)
    IN  [mapped EXCEPT !.sessions[id] = AddRtpPacket(@, "counted", FALSE)]

\* "session" in the code is the last session found, also when the packet was
\* foreign to it.
ReportRtpPacket(src, dst) ==
    LET s1 == reg.byIpAndPort[src]
    IN  \E o1 \in OutcomesOf(reg, s1) : \E r1 \in Offer(reg, s1, o1) :
        LET s2 == r1.byIpAndPort[dst]
            session == IF s2 # 0 THEN s2 ELSE s1
            other == IF s1 # 0 THEN dst ELSE src
        IN  \E o2 \in SecondOutcomes(r1, s1, o1, s2) : \E r2 \in Offer(r1, s2, o2) :
            /\ \/ /\ Accepted(o1) /\ Accepted(o2)
                  /\ reg' \in IF s1 = s2 THEN {r2} ELSE Merge(r2, s1, s2, src, dst)
               \/ /\ Accepted(o1) # Accepted(o2)
                  /\ reg' = Retrack(r2, session, other, src, dst)
               \/ /\ ~Accepted(o1) /\ ~Accepted(o2) /\ CanCreate
                  /\ reg' = NewRawRtp(r2, src, dst)
            /\ UNCHANGED deployment

-----------------------------------------------------------------------------
(* The control API, the clock and the periodic clean-up.                   *)

\* CopyMetadataToNewSession: the identity, the addresses and the parties of
\* the old session, and none of its progress.
Successor(x) ==
    [NewSession(x.protocol, x.callId, x.endPoint)
        EXCEPT !.ipAndPort = x.ipAndPort, !.mediaAddresses = x.mediaAddresses]

\* The session is stopped and a copy takes its place in the indexes, under
\* m_ipAndPort and m_callId.  A raw RTP session's call id is the empty one.
StopCapture(s) ==
    LET x == Successor(reg.sessions[s])
        r == StopSession(Create(reg, x), s)
    IN  /\ CanCreate
        /\ \E a \in Address : reg.byIpAndPort[a] = s
        /\ reg' = [r EXCEPT !.byIpAndPort = Insert(@, x.ipAndPort, NewId),
                            !.byCallId = Insert(@, x.callId, NewId)]
        /\ UNCHANGED deployment

\* Slip: Hoover walks m_byIpAndPort only.
mappedOnly(r) == {r.byIpAndPort[a] : a \in Address} \ {0}

\* The sessions that the two loops of Hoover come by.
Tracked(r) ==
    ({r.byIpAndPort[a] : a \in Address} \cup
     {r.byCallId[c] : c \in Call \cup {NoCall}}) \ {0}

\* Time passes without a packet for session s.
FallSilent(s) ==
    /\ s \in DOMAIN reg.sessions
    /\ ~reg.sessions[s].dismissed
    /\ reg' = [reg EXCEPT !.sessions[s].expired = TRUE]
    /\ UNCHANGED deployment

Hoover ==
    /\ reg' = StopSessions(reg, {s \in Tracked(reg) : reg.sessions[s].expired})
    /\ UNCHANGED deployment

\* Hoover with a time at which every timeout has passed.
StopAll ==
    /\ reg' = StopSessions(reg, Tracked(reg))
    /\ UNCHANGED deployment

-----------------------------------------------------------------------------
EmptyRegistry ==
    [ byIpAndPort |-> [a \in Address |-> 0],
      byCallId |-> [c \in Call \cup {NoCall} |-> 0],
      sessions |-> <<>> ]

Init == deployment \in Deployments /\ reg = EmptyRegistry

SipNext ==
    \E c \in SipCall :
        \/ \E a \in Address \cup {NoAddress}, sendonly \in BOOLEAN :
              ReportSipInvite(c, a, sendonly)
        \/ \E a \in Address : ReportSipSessionProgress(c, a)
        \/ \E a \in Address : ReportSip200Ok(c, a)
        \/ ReportSipErrorPacket(c)
        \/ ReportSipBye(c)

SkinnyNext ==
    \/ \E k \in SkinnyCall :
        \/ ReportSkinnyCallInfo(k)
        \/ ReportSkinnyStopMediaTransmission(k)
        \/ ReportSkinnySoftKeySetTransfConnected(k)
        \/ ReportSkinnySoftKeyHold(k)
        \/ ReportSkinnySoftKeyResume(k)
    \/ \E a \in Address : ReportSkinnyOpenReceiveChannelAck(a)
    \/ \E host \in Host, a \in Address : ReportSkinnyStartMediaTransmission(host, a)

Next ==
    \/ SipNext
    \/ SkinnyNext
    \/ \E src, dst \in Address : src # dst /\ ReportRtpPacket(src, dst)
    \/ \E s \in 1 .. Len(reg.sessions) : StopCapture(s) \/ FallSilent(s)
    \/ Hoover
    \/ StopAll

Spec == Init /\ [][Next]_vars

\* Hoover runs every five seconds, from the packet threads and from the UDP
\* listener's idle loop.
FairSpec == Spec /\ WF_vars(Hoover)

-----------------------------------------------------------------------------
(* Properties.                                                             *)

Known(s) == s \in DOMAIN reg.sessions
Recording(s) ==
    Known(s) /\ reg.sessions[s].started /\ ~reg.sessions[s].stopped

\* The registry is well formed: both indexes lead to sessions that exist.
TypeOK ==
    /\ deployment \in Deployments
    /\ reg.sessions \in Seq(Session)
    /\ Len(reg.sessions) <= MaxSessions
    /\ reg.byIpAndPort \in [Address -> 0 .. Len(reg.sessions)]
    /\ reg.byCallId \in [Call \cup {NoCall} -> 0 .. Len(reg.sessions)]

\* Every media address that leads to a session is on that session's own list
\* m_mediaAddresses, the list from which Stop clears the map: an address
\* missing there would lead RTP to a stopped session for good.
MappingsAreOwned ==
    \A a \in Address :
        LET s == reg.byIpAndPort[a]
        IN  s # 0 => a \in reg.sessions[s].mediaAddresses

\* Where a session may come back into an index after its end: the last session
\* found is mapped to the second RTP address, or on its first packet to a
\* tracking address, even when the packet was foreign to it, and the successor
\* of a session without a call id is indexed under the empty call id, where
\* Stop leaves it for the Skinny scans to find.
MayRevive ==
    \/ deployment.mediaAddressUseSecondRtpAddress
    \/ deployment.rtpTrackUsingIpAddresses # {}
    \/ reg.byCallId[NoCall] # 0

\* No media address leads to a session that was stopped: its audio would be
\* sent to a capture port that has closed its tape, and the call is lost.
NoDeadSessionMapped ==
    MayRevive \/ \A a \in Address :
        LET s == reg.byIpAndPort[a]
        IN  s # 0 => ~reg.sessions[s].dismissed

\* A session that has a call id and was not stopped is the one its call id
\* leads to, so a BYE ends the right recording, and erasing m_callId from
\* the index in Stop never takes away another session's entry.
CallIdsAreIndexed ==
    MayRevive \/ \A s \in DOMAIN reg.sessions :
        LET x == reg.sessions[s]
        IN  x.callId # NoCall /\ ~x.dismissed => reg.byCallId[x.callId] = s

\* The two indexes and the sessions' own m_mediaAddresses and m_callId are kept
\* by different handlers and must agree, and be well formed, after each of them.
RegistryIsTrue == TypeOK /\ MappingsAreOwned /\ NoDeadSessionMapped /\ CallIdsAreIndexed

\* A session that has sent its start event and not its stop event is in one
\* of the two indexes, or else Hoover can never end it.  (Not so where late
\* CallInfos are allowed: SetMediaAddress takes the only address of a session
\* that has no call id yet.)
RecordingIsTracked ==
    MayRevive \/ deployment.skinnyAllowLateCallInfo
    \/ \A s \in DOMAIN reg.sessions : Recording(s) => s \in Tracked(reg)

-----------------------------------------------------------------------------
(* The inductive invariant of the proofs, over a registry r, so that it can *)
(* be followed through the operators a handler is made of.                  *)

WellFormed(r) ==
    /\ r \in [ byIpAndPort : [Address -> Nat],
               byCallId : [Call \cup {NoCall} -> Nat],
               sessions : Seq(Session) ]
    /\ \A a \in Address : r.byIpAndPort[a] \in 0 .. Len(r.sessions)
    /\ \A c \in Call \cup {NoCall} : r.byCallId[c] \in 0 .. Len(r.sessions)

\* m_mediaAddresses names every address that leads to a session, and m_ipAndPort
\* is the last of them, or the only one.
AddressesOwned(r) ==
    /\ \A a \in Address :
          r.byIpAndPort[a] # 0 => a \in r.sessions[r.byIpAndPort[a]].mediaAddresses
    /\ \A s \in 1 .. Len(r.sessions) :
          LET x == r.sessions[s]
          IN  /\ x.mediaAddresses # {} => x.ipAndPort \in x.mediaAddresses
              /\ ~deployment.rtpAllowMultipleMappings
                    => x.mediaAddresses \subseteq {x.ipAndPort}

\* Both indexes lead to sessions that run, m_byCallId to those with that call
\* id; a session that ran has sent its stop event.
IndexesLive(r) ==
    /\ r.byCallId[NoCall] = 0
    /\ \A a \in Address :
          r.byIpAndPort[a] # 0 => ~r.sessions[r.byIpAndPort[a]].dismissed
    /\ \A c \in Call :
          r.byCallId[c] # 0 => /\ ~r.sessions[r.byCallId[c]].dismissed
                               /\ r.sessions[r.byCallId[c]].callId = c
    /\ \A s \in 1 .. Len(r.sessions) :
          r.sessions[s].dismissed => ~r.sessions[s].started \/ r.sessions[s].stopped

\* A session that runs is in the index of its kind: m_byCallId if it has a call
\* id; m_byIpAndPort if it has none, is raw RTP and nothing waits for late
\* CallInfos.
Reachable(r, s) ==
    LET x == r.sessions[s]
    IN  IF x.callId # NoCall THEN r.byCallId[x.callId] = s
        ELSE deployment.skinnyAllowLateCallInfo
             \/ (x.protocol = "RawRtp" /\ \E a \in Address : r.byIpAndPort[a] = s)

\* s is the session being made, 0 if there is none.
OthersReachable(r, s) ==
    \A t \in 1 .. Len(r.sessions) \ {s} : ~r.sessions[t].dismissed => Reachable(r, t)

\* With multiple mappings a signalled session is never made to look like raw
\* RTP, and only a late CallInfo gives a raw RTP session a call id.
RawUncalled(r) ==
    deployment.rtpAllowMultipleMappings /\ ~deployment.skinnyAllowLateCallInfo
      => \A s \in 1 .. Len(r.sessions) :
            r.sessions[s].protocol = "RawRtp" => r.sessions[s].callId = NoCall

Sound(r) == WellFormed(r) /\ AddressesOwned(r)
Live(r, s) == IndexesLive(r) /\ OthersReachable(r, s)

IInv ==
    /\ deployment \in Deployments
    /\ Len(reg.sessions) <= MaxSessions
    /\ Sound(reg)
    /\ RawUncalled(reg)
    /\ MayRevive \/ Live(reg, 0)

-----------------------------------------------------------------------------
\* After a packet has been handled, a session that is still open follows one
\* of its two ends: discontinuities, merges and take-overs never leave a
\* stream whose next packet is unknown.
HasAHome(r, a) ==
    r.byIpAndPort[a] # 0 /\ ~r.sessions[r.byIpAndPort[a]].dismissed
EveryPacketFindsAHome ==
    [][\A src, dst \in Address :
          src # dst /\ ~MayRevive /\ ~HasAHome(reg', src) /\ ~HasAHome(reg', dst)
             => ~ReportRtpPacket(src, dst)]_vars

\* Signalling that moves media about - INVITE, session progress, 200 OK,
\* OpenReceiveChannelAck, StartMediaTransmission - never ends another
\* signalled call: "Do not stop signalled sessions, better let them timeout".
MovesMedia ==
    \/ \E c \in SipCall, a \in Address \cup {NoAddress}, b \in BOOLEAN :
          ReportSipInvite(c, a, b)
    \/ \E c \in SipCall, a \in Address :
          ReportSipSessionProgress(c, a) \/ ReportSip200Ok(c, a)
    \/ \E a \in Address : ReportSkinnyOpenReceiveChannelAck(a)
    \/ \E h \in Host, a \in Address : ReportSkinnyStartMediaTransmission(h, a)
EndsASignalledCall ==
    \E s \in DOMAIN reg.sessions :
        /\ reg.sessions[s].callId # NoCall
        /\ ~reg.sessions[s].dismissed /\ reg'.sessions[s].dismissed
SignalledCallsSurviveTransfers ==
    [][(EndsASignalledCall
        /\ deployment.rtpAllowMultipleMappings
        /\ ~deployment.skinnyAllowLateCallInfo)
          => ~MovesMedia]_vars

\* A recording whose session stays silent is ended by Hoover.
SilentAndRecording(s) ==
    /\ Recording(s) /\ reg.sessions[s].expired
    /\ ~MayRevive /\ ~deployment.skinnyAllowLateCallInfo
SilentRecordingsEnd ==
    \A s \in 1 .. MaxSessions : []<>~SilentAndRecording(s)

\* "preserve its metadata into a new session which will gather the subsequent
\* RTP packets": after StopCapture every media address that led to the
\* stopped session leads to its successor.
SuccessorGathersTheRtp ==
    [][\A s \in DOMAIN reg.sessions :
          (\E a \in Address : reg.byIpAndPort[a] = s
                                /\ reg'.byIpAndPort[a] # Len(reg'.sessions))
             => ~StopCapture(s)]_vars

=============================================================================
