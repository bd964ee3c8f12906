-------------------------------- MODULE VoIp --------------------------------
(***************************************************************************)
(* The way of a packet through the VoIP plug-in (VoIp.cpp): what is not    *)
(* wanted is dropped, IP fragments are reassembled, tunnels are opened,    *)
(* and every datagram is offered to the detectors of its transport, which  *)
(* report to the sessions.  Of these the IAX2 sessions are composed here;  *)
(* what goes to the SIP, Skinny and RTP sessions is only noted (they are   *)
(* VoIpSessions).  After a packet the sessions are looked over if the last *)
(* time was long enough ago.  A packet is handled in one step: what it     *)
(* changes lies under s_mutex or the mutex of the fragments.               *)
(***************************************************************************)
EXTENDS Integers, IpFragmentation, SipTcp, Iax2Sessions

CONSTANTS
  TcpHeaderLength, \* 20 bytes: an IP packet with no more payload is dropped
  Scenarios        \* networks that are considered

\* datagrams: with the fields name, id (identification), fragments (lengths),
\* tunnel ("none", "GRE", "VXLAN": then it is the inner packet that is
\* fragmented), wanted (by IsPacketWanted) and kind (what it is); conns:
\* connections of SipTcp; calls: IAX2 calls, with the endpoints of the inviting
\* and the invited party.  arrivals, ticks and sessions are bounds.
AlwaysDetected == {"RTP", "INVITE", "200", "BYE", "REFER", "INFO", "4xx"}
IfEnabled == {"NOTIFY", "183", "302", "SUBSCRIBE", "RTCP"}
Kinds == AlwaysDetected \cup IfEnabled \cup {"other"}
Tunnels == {"none", "GRE", "VXLAN"}

ASSUME ScenarioTypes ==
  \A s \in Scenarios :
    /\ s.ipFragmentsReassemble \in BOOLEAN /\ s.enabled \subseteq IfEnabled
    /\ s.sipOverTcpSupport \in BOOLEAN /\ s.iax2Support \in BOOLEAN /\ s.pcapReplay \in BOOLEAN
    /\ s.arrivals \in Nat /\ s.ticks \in Nat /\ s.sessions \in 0..MaxIax2Sessions
    /\ \A d \in s.datagrams :
         d.id \in PacketIds /\ d.tunnel \in Tunnels /\ d.kind \in Kinds
         /\ d.wanted \in BOOLEAN /\ d.fragments \in Seq(Nat \ {0})
    /\ \A c \in s.calls : c.invitor \in Endpoints /\ c.invitee \in Endpoints
    /\ \A conn \in s.conns : conn.isn \in Nat /\ conn.messages \in Seq(Nat \ {0})

\* A name stands for one datagram.
ASSUME NamesDiffer ==
  \A s \in Scenarios : \A d, e \in s.datagrams : d.name = e.name => d = e

VARIABLES
  scenario,
  now,             \* the clock
  plugin,          \* its state: the fragment map, TCP streams, IAX2 sessions
  \* history
  arrived,         \* fragments that arrived
  segments,        \* number of TCP segments that arrived
  assembled,       \* what was put together, each a sequence of fragments
  reported,        \* names of datagrams that a detector reported
  messages,        \* SIP messages reported, as <<connection, number>>
  inOrder          \* how far every connection has arrived in order

history == <<arrived, segments, assembled, reported, messages, inOrder>>
vars == <<scenario, now, plugin, history>>

Init ==
  /\ scenario \in Scenarios
  /\ now = TimeoutSec
  /\ plugin = [map |-> EmptyMap, streams |-> {}, iax2 |-> NoSessions]
  /\ arrived = {} /\ assembled = << >> /\ reported = {}
  /\ segments = 0 /\ messages = {}
  /\ inOrder = [conn \in scenario.conns |-> 0]
-----------------------------------------------------------------------------
(* Datagrams                                                               *)

\* DetectUsefulUdpPacket: the kinds some detector takes.
Detected(kind) == kind \in AlwaysDetected \cup scenario.enabled

Fragmented(d) == Len(d.fragments) > 1

\* The i-th fragment of datagram d as it arrives.
Fragment(d, i) ==
  [id |-> d.id, off |-> FoldSeq(+, 0, SubSeq(d.fragments, 1, i - 1)),
   len |-> d.fragments[i], last |-> i = Len(d.fragments),
   datagram |-> d.name, n |-> Cardinality(arrived) + 1, at |-> now]

\* ProcessTransportLayer of a packet that is not whole: an INVITE is taken from
\* its first fragment, unless fragments are to be reassembled.
ReportsPart(d, i) ==
  i = 1 /\ d.kind = "INVITE" /\ ~scenario.ipFragmentsReassemble

Named(name) == CHOOSE d \in scenario.datagrams : d.name = name

\* The names that are reported for a packet with the i-th fragment of d: for a
\* whole datagram what the detectors take, for what was put together what its
\* first fragment says it is.
Reports(d, i, packet) ==
  IF ~Fragmented(d)
  THEN IF Detected(d.kind) THEN {d.name} ELSE {}
  ELSE IF d.tunnel = "none" /\ scenario.ipFragmentsReassemble
  THEN IF packet # << >> /\ Detected(Named(packet[1].datagram).kind)
       THEN {packet[1].datagram} ELSE {}
  ELSE IF ReportsPart(d, i) THEN {d.name} ELSE {}

\* The tests of HandlePacket before a packet is looked at: a fragment without
\* more payload than a TCP header has is dropped.  (A tunnelled one is longer.)
Handled(d, i) ==
  d.wanted /\ (d.tunnel # "none" \/ d.fragments[i] > TcpHeaderLength)

\* HandlePacket of the i-th fragment of d.
HandleDatagram(d, i) ==
  LET f == Fragment(d, i)
      reassembles == Fragmented(d) /\ d.tunnel = "none" /\ scenario.ipFragmentsReassemble
      handled == IF reassembles THEN HandleIpFragment(plugin.map, f, now)
                 ELSE [map |-> plugin.map, packet |-> << >>]
  IN /\ Cardinality(arrived) < scenario.arrivals
     /\ arrived' = arrived \cup {f}
     /\ IF Handled(d, i)
        THEN /\ plugin' = [plugin EXCEPT !.map = handled.map]
             /\ assembled' = IF handled.packet = << >> THEN assembled
                             ELSE Append(assembled, handled.packet)
             /\ reported' = reported \cup Reports(d, i, handled.packet)
        ELSE UNCHANGED <<plugin, assembled, reported>>
     /\ UNCHANGED <<scenario, now, segments, messages, inOrder>>

\* A TCP segment of SIP; from..(from + len - 1) of what the connection carries.
HandleSegment(conn, from, len) ==
  LET result == TrySipTcp(plugin.streams, [conn |-> conn, from |-> from, len |-> len], now)
  IN /\ scenario.sipOverTcpSupport
     /\ segments < scenario.arrivals
     /\ segments' = segments + 1
     /\ plugin' = [plugin EXCEPT !.streams = result.streams]
     /\ messages' = messages \cup {<<conn, i>> : i \in result.reported}
     /\ inOrder' = [inOrder EXCEPT ![conn] =
          IF @ = -1 \/ from > @ THEN -1
          ELSE IF from + len > @ /\ from < @ THEN -1
          ELSE IF from + len > @ THEN from + len ELSE @]
     /\ UNCHANGED <<scenario, now, arrived, assembled, reported>>
-----------------------------------------------------------------------------
(* IAX2                                                                    *)

\* What the IAX2 detectors make of a frame of call c, from either end.
Iax2Frames(r, c) ==
  {ReportIax2New(r, c.invitor), ReportIax2Authreq(r, c.invitor, c.invitee),
   ReportIax2Accept(r, c.invitor, c.invitee)}

Ends2(c) == {<<c.invitor, c.invitee>>, <<c.invitee, c.invitor>>}

HandleSignalling(c) ==
  /\ scenario.iax2Support
  /\ \E r \in Iax2Frames(plugin.iax2, c) :
       Len(r.sessions) <= scenario.sessions /\ plugin' = [plugin EXCEPT !.iax2 = r]
  /\ UNCHANGED <<scenario, now, history>>

HandleHangup(c) ==
  /\ scenario.iax2Support
  /\ \E e \in Ends2(c) :
       plugin' = [plugin EXCEPT !.iax2 = ReportIax2Hangup(@, e[1], e[2])]
  /\ UNCHANGED <<scenario, now, history>>

\* A full voice frame or a mini frame.  (A trunk frame is several mini frames.)
HandleVoice(c) ==
  /\ scenario.iax2Support
  /\ \E e \in Ends2(c), full \in BOOLEAN, duplicate \in BOOLEAN :
       plugin' = [plugin EXCEPT !.iax2 =
                    ReportIax2Packet(@, e[1], e[2][1], full, duplicate)]
  /\ UNCHANGED <<scenario, now, history>>
-----------------------------------------------------------------------------
(* The clock and the clean-up                                              *)

Tick ==
  /\ now < TimeoutSec + scenario.ticks
  /\ now' = now + 1
  /\ UNCHANGED <<scenario, plugin, history>>

\* Session s gets no audio for too long.
FallSilent(s) ==
  /\ s <= Len(plugin.iax2.sessions) /\ ~plugin.iax2.sessions[s].dismissed
  /\ plugin' = [plugin EXCEPT !.iax2.sessions[s].expired = TRUE]
  /\ UNCHANGED <<scenario, now, history>>

\* At the end of HandlePacket, and from the idle UDP listener.
Hoover ==
  /\ plugin' = [plugin EXCEPT !.iax2 = HooverIax2(@)]
  /\ UNCHANGED <<scenario, now, history>>

\* SingleDeviceCaptureThreadHandler at the end of a file.
EndOfReplay ==
  /\ scenario.pcapReplay
  /\ plugin' = [plugin EXCEPT !.iax2 = StopAllIax2(@)]
  /\ UNCHANGED <<scenario, now, history>>

Next ==
  \/ \E d \in scenario.datagrams : \E i \in 1..Len(d.fragments) : HandleDatagram(d, i)
  \/ \E conn \in scenario.conns : \E from, len \in 0..Ends(conn, Len(conn.messages)) :
       from + len <= Ends(conn, Len(conn.messages)) /\ HandleSegment(conn, from, len)
  \/ \E c \in scenario.calls : HandleSignalling(c) \/ HandleHangup(c) \/ HandleVoice(c)
  \/ \E s \in 1..MaxIax2Sessions : FallSilent(s)
  \/ Tick \/ Hoover \/ EndOfReplay

Spec == Init /\ [][Next]_vars

\* Packets keep coming in, and one every five seconds looks over the sessions.
FairSpec == Spec /\ WF_vars(Hoover)
-----------------------------------------------------------------------------
(* Properties of the reassembly                                            *)

Arrivals(p) == {p[i].n : i \in 1..Len(p)}

\* No arrival is a part of two packets.
NothingTwice ==
  \A i, j \in 1..Len(assembled) :
    i # j => Arrivals(assembled[i]) \cap Arrivals(assembled[j]) = {}

\* The parts of a packet came, one after the other, within two time-outs.
NothingStale ==
  \A i \in 1..Len(assembled) : \A f \in ToSet(assembled[i]) :
    \/ \A g \in ToSet(assembled[i]) : g.n >= f.n
    \/ \E g \in ToSet(assembled[i]) : g.n < f.n /\ f.at - g.at < 2 * TimeoutSec

\* There is no hole and no overlap between them, and the last one is the last.
NoHole ==
  \A i \in 1..Len(assembled) : LET p == assembled[i] IN
    /\ p[1].off = 0 /\ p[Len(p)].last
    /\ \A k \in 1..(Len(p) - 1) : p[k + 1].off = p[k].off + p[k].len

\* HandleIpFragment puts a packet together from fragments that fit, each used
\* once, and none of a time so long ago that its identification is in use
\* again.  (They may be of two datagrams: the map does not tell senders apart.)
AssembledProperly == NothingTwice /\ NothingStale /\ NoHole

ArrivalsOf(d) == {f \in arrived : f.datagram = d.name}

\* A wanted datagram whose fragments all came, in any order and perhaps several
\* times, but within the time-out, is put together and reported.  It must share
\* its identification with no other, and no fragment, which in practice is the
\* last one, may be as short as a TCP header: HandlePacket loses that one.
Reassembled ==
  \A d \in scenario.datagrams :
    ( /\ scenario.ipFragmentsReassemble /\ Fragmented(d) /\ d.tunnel = "none"
      /\ d.wanted /\ Detected(d.kind)
      /\ \A i \in 1..Len(d.fragments) : d.fragments[i] > TcpHeaderLength
      /\ \A other \in scenario.datagrams : other.id = d.id => other = d
      /\ \A f, g \in ArrivalsOf(d) : f.at - g.at < TimeoutSec
      /\ {f.off : f \in ArrivalsOf(d)} = {Fragment(d, i).off : i \in 1..Len(d.fragments)} )
    => d.name \in reported

\* What TrySipTcp reports of a connection.  Of one whose segments came in order,
\* retransmissions among them or not, every message that came in full has been
\* reported, if the sequence numbers do not start again from 0 and the
\* connection is not older than the time-out.
InOrderMessagesReported ==
  \A conn \in scenario.conns :
    conn.isn + Ends(conn, Len(conn.messages)) < SeqModulus
      /\ now < TimeoutSec + StreamTimeout
    => \A i \in Numbers(conn) :
         Ends(conn, i) <= inOrder[conn] => <<conn, i>> \in messages
-----------------------------------------------------------------------------
(* Properties of the IAX2 sessions                                         *)

Sessions == 1..Len(plugin.iax2.sessions)
Recording(s) == plugin.iax2.sessions[s].started /\ ~plugin.iax2.sessions[s].stopped

\* A session was given a second invited endpoint: the first stays in the index
\* for good, and what finds the dead session by it takes the entries of a later
\* call with it.  The properties are about networks where that has not happened.
NoneRenamed == \A s \in Sessions : ~plugin.iax2.sessions[s].renamed

\* A call that is recorded is found by its inviting endpoint, so that a hang-up
\* or the clean-up ends the recording.
RecordingIsReachable ==
  \A s \in Sessions :
    Recording(s) => plugin.iax2.bySrc[plugin.iax2.sessions[s].src] = s

\* A session that was stopped is found by nothing.
NoDeadIax2Mapped ==
  \A e \in Endpoints : \A s \in Sessions :
    s \in {plugin.iax2.bySrc[e], plugin.iax2.byDest[e]}
    => ~plugin.iax2.sessions[s].dismissed

\* The two indexes of Iax2Sessions lead to what is recorded and to nothing that
\* is not, whatever endpoints the calls share.
Iax2IndexesTrue == NoneRenamed => RecordingIsReachable /\ NoDeadIax2Mapped

Parties(s) == {plugin.iax2.sessions[s].src, plugin.iax2.sessions[s].dest}

\* The recording of a call that is up ends when one of its parties hangs up, when
\* it is silent too long or when the replay ends: no repeated NEW, no packet and
\* no other call ends it.
UpRecordingSurvives ==
  [][\A s \in Sessions :
       Recording(s) /\ plugin.iax2.sessions[s].state = "up" /\ NoneRenamed
         /\ plugin'.iax2.sessions[s].stopped
       => \/ plugin.iax2.sessions[s].expired \/ scenario.pcapReplay
          \/ \E c \in scenario.calls :
               HandleHangup(c) /\ Parties(s) \cap {c.invitor, c.invitee} # {}]_vars

SilentRecording(s) ==
  s \in Sessions /\ Recording(s) /\ plugin.iax2.sessions[s].expired

\* Hoover ends every recording that is silent too long, although another call
\* may have taken away what it was found by.
SilentIax2RecordingsEnd ==
  \A s \in 1..MaxIax2Sessions :
    SilentRecording(s) ~> (~SilentRecording(s) \/ ~NoneRenamed)
=============================================================================
