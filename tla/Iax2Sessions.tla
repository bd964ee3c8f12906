---------------------------- MODULE Iax2Sessions ----------------------------
(***************************************************************************)
(* The IAX2 sessions of the VoIP plug-in (Iax2Session.cpp).  A call is set *)
(* up by NEW, perhaps AUTHREQ, and ACCEPT, and ended by HANGUP or REJECT.  *)
(* Each party knows it by an endpoint: its IP address and a call number of *)
(* its own.  m_bySrcIpAndCallNo finds the session by the endpoint of the   *)
(* inviting party, m_byDestIpAndCallNo by that of the invited one.         *)
(***************************************************************************)
EXTENDS Naturals, Sequences, FiniteSets

CONSTANTS
  Endpoints,       \* an IP address and a call number
  NoEndpoint,      \* an empty m_destIpAndCallNo
  Hosts,
  NoHost,
  MaxIax2Sessions  \* bound on the sessions created

ASSUME Iax2Assumption ==
  NoEndpoint \notin Endpoints /\ NoHost \notin Hosts /\ MaxIax2Sessions \in Nat

NewIax2Session(src) ==
  [src |-> src, dest |-> NoEndpoint, state |-> "waiting",
   side1 |-> NoHost,       \* where the packets of side 1 go to
   side2 |-> FALSE,        \* side 2 was heard
   started |-> FALSE, stopped |-> FALSE,
   expired |-> FALSE,      \* m_lastUpdated is too long ago
   dismissed |-> FALSE,    \* history: Iax2Sessions::Stop was called on it
   renamed |-> FALSE]      \* history: it was given a second invited endpoint

\* 0 stands for no session.
NoSessions ==
  [bySrc |-> [e \in Endpoints |-> 0], byDest |-> [e \in Endpoints |-> 0],
   sessions |-> << >>]

InsertNew(index, e, s) == IF index[e] = 0 THEN [index EXCEPT ![e] = s] ELSE index

\* Iax2Session::Stop
Stopped(x) == [x EXCEPT !.stopped = x.started \/ x.stopped, !.dismissed = TRUE]

\* Sessions are stopped one by one, and both indexes lose their endpoints.
StopEach(r, S) ==
  LET goneSrc == {r.sessions[s].src : s \in S}
      goneDest == {r.sessions[s].dest : s \in S}
  IN [bySrc |-> [e \in Endpoints |-> IF e \in goneSrc THEN 0 ELSE r.bySrc[e]],
      byDest |-> [e \in Endpoints |-> IF e \in goneDest THEN 0 ELSE r.byDest[e]],
      sessions |-> [s \in 1..Len(r.sessions) |->
                      IF s \in S THEN Stopped(r.sessions[s]) ELSE r.sessions[s]]]

\* Slip: the entry of the invited party stays.
StopSrcOnly(r, s) == [StopEach(r, {s}) EXCEPT !.byDest = r.byDest]

\* Iax2Sessions::Stop
Stop(r, s) == StopEach(r, {s})

StopIfFound(r, s) == IF s = 0 THEN r ELSE Stop(r, s)

\* Slip: a call that is up is begun anew by a repeated NEW.
IgnoresNoNew(r, s) == FALSE

\* A NEW for a session that is up changes nothing.
IgnoresNew(r, s) == s # 0 /\ r.sessions[s].state = "up"

\* NEW makes a session, in place of one that is not up.
ReportIax2New(r, invitor) ==
  LET old == r.bySrc[invitor]
      room == StopIfFound(r, old)
  IN IF IgnoresNew(r, old) THEN r
     ELSE [room EXCEPT !.sessions = Append(@, NewIax2Session(invitor)),
                       !.bySrc = InsertNew(@, invitor, Len(room.sessions) + 1)]

\* The invited endpoint becomes known.
Invited(x, invitee, state) ==
  [x EXCEPT !.renamed = x.renamed \/ x.dest \notin {NoEndpoint, invitee},
            !.dest = invitee, !.state = state]
SetDest(r, s, invitee, state) ==
  [r EXCEPT !.sessions[s] = Invited(@, invitee, state), !.byDest = InsertNew(@, invitee, s)]

ReportIax2Authreq(r, invitor, invitee) ==
  IF r.bySrc[invitor] = 0 THEN r ELSE SetDest(r, r.bySrc[invitor], invitee, "waiting")

\* ACCEPT links the session that has the invited endpoint already, whichever it
\* is, or else the one that has the inviting endpoint.
ReportIax2Accept(r, invitor, invitee) ==
  IF r.bySrc[invitor] = 0 THEN r
  ELSE IF r.byDest[invitee] # 0
  THEN [r EXCEPT !.sessions[r.byDest[invitee]].state = "linked"]
  ELSE SetDest(r, r.bySrc[invitor], invitee, "linked")

\* HANGUP, the hang-up control frame and REJECT: either end may be either party,
\* and each is looked up in what the lookups before it left.
ReportIax2Hangup(r, sender, receiver) ==
  LET r1 == StopIfFound(r, r.bySrc[receiver])
      r2 == StopIfFound(r1, r1.bySrc[sender])
      r3 == StopIfFound(r2, r2.byDest[receiver])
  IN StopIfFound(r3, r3.byDest[sender])

\* AddIax2Packet of a session that is linked or up: the first packet must be a
\* full frame, and starts the recording; one with the timestamp of the last of
\* its side is a duplicate.
AddIax2Packet(x, to, full, duplicate) ==
  LET heard == x.side1 # NoHost
      again == to = x.side1 \/ x.side2
  IN IF (~heard /\ ~full) \/ (heard /\ duplicate /\ again) THEN x
     ELSE [x EXCEPT !.state = IF heard THEN @ ELSE "up",
                    !.side1 = IF heard THEN @ ELSE to,
                    !.side2 = @ \/ (heard /\ to # x.side1),
                    !.started = TRUE, !.expired = FALSE]

\* A voice frame goes to the session its source is an end of; it ends one that
\* is waiting.
ReportIax2Packet(r, source, to, full, duplicate) ==
  LET s == IF r.bySrc[source] # 0 THEN r.bySrc[source] ELSE r.byDest[source] IN
    IF s = 0 THEN r
    ELSE IF r.sessions[s].state = "waiting" THEN Stop(r, s)
    ELSE [r EXCEPT !.sessions[s] = AddIax2Packet(@, to, full, duplicate)]

Found(index) == {index[e] : e \in Endpoints} \ {0}

\* Slip: the second index is taken to hold every session.
HooverDestOnly(r) == StopEach(r, {s \in Found(r.byDest) : r.sessions[s].expired})

\* Hoover: what is silent too long, by the one index and then by the other.
HooverIax2(r) ==
  LET r1 == StopEach(r, {s \in Found(r.bySrc) : r.sessions[s].expired})
  IN StopEach(r1, {s \in Found(r1.byDest) : r1.sessions[s].expired})

StopAllIax2(r) ==
  LET r1 == StopEach(r, Found(r.bySrc)) IN StopEach(r1, Found(r1.byDest))
=============================================================================
