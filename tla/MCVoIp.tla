------------------------------- MODULE MCVoIp -------------------------------
(* Small networks for VoIp.  Lengths are in units of eight bytes.          *)
EXTENDS VoIp

CONSTANTS a1, a2, b1, b2, hostA, hostB

MCEndpoints == {<<hostA, a1>>, <<hostA, a2>>, <<hostB, b1>>, <<hostB, b2>>}
MCHosts == {hostA, hostB}

Quiet ==
  [ipFragmentsReassemble |-> TRUE, enabled |-> {"NOTIFY"}, sipOverTcpSupport |-> TRUE,
   iax2Support |-> TRUE, pcapReplay |-> FALSE, arrivals |-> 0, ticks |-> 0, sessions |-> 2,
   datagrams |-> {}, conns |-> {}, calls |-> {}]

Datagram(name, id, kind, fragments) ==
  [name |-> name, id |-> id, kind |-> kind, fragments |-> fragments,
   tunnel |-> "none", wanted |-> TRUE]

Invite == Datagram("invite", 1, "INVITE", <<3, 6, 3>>)
Notify == Datagram("notify", 1, "NOTIFY", <<6, 6>>)
Ok == Datagram("ok", 2, "200", <<4, 4>>)
Cut == Datagram("cut", 2, "INVITE", <<4, 2>>)

Call(from, to) == [invitor |-> <<hostA, from>>, invitee |-> <<hostB, to>>]

MCScenarios ==
  { [Quiet EXCEPT !.datagrams = {Invite, Notify}, !.arrivals = 4, !.ticks = 1],
    [Quiet EXCEPT !.datagrams = {Ok}, !.arrivals = 5, !.ticks = 4],
    [Quiet EXCEPT !.datagrams = {Invite, Ok}, !.arrivals = 4, !.ticks = 1],
    [Quiet EXCEPT !.datagrams = {Cut, [Invite EXCEPT !.tunnel = "GRE"]}, !.arrivals = 3],
    [Quiet EXCEPT !.datagrams = {Invite, [Ok EXCEPT !.wanted = FALSE]},
                  !.arrivals = 3, !.ipFragmentsReassemble = FALSE],
    [Quiet EXCEPT !.datagrams = {Datagram("rtp", 1, "RTP", <<3>>),
                                 Datagram("rtcp", 2, "RTCP", <<3>>)}, !.arrivals = 2],
    [Quiet EXCEPT !.conns = {[isn |-> 0, messages |-> <<2, 3>>]}, !.arrivals = 5,
                  !.ticks = 2],
    [Quiet EXCEPT !.conns = {[isn |-> 13, messages |-> <<2, 3>>]}, !.arrivals = 3],
    [Quiet EXCEPT !.calls = {Call(a1, b1), Call(a2, b1)}],
    [Quiet EXCEPT !.calls = {Call(a1, b1), Call(a2, b2)}, !.pcapReplay = TRUE],
    [Quiet EXCEPT !.calls = {Call(a1, b1), Call(a1, b2)}] }
=============================================================================
