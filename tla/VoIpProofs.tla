----------------------------- MODULE VoIpProofs -----------------------------
(***************************************************************************)
(* Proofs about the way of a packet through the VoIP plug-in: the sessions *)
(* of IAX2, the reassembly of fragments and SIP over TCP, for any network, *)
(* any number of calls, packets and connections, and all time-outs.        *)
(***************************************************************************)
EXTENDS VoIp, FiniteSetTheorems, SequenceTheorems, WellFoundedInduction, TLAPS

(* The registry of IAX2                                                    *)

Addresses == {e[1] : e \in Endpoints} \cup {NoHost}
SessionType ==
  [src : Endpoints, dest : Endpoints \cup {NoEndpoint}, state : {"waiting", "linked", "up"},
   side1 : Addresses, side2 : BOOLEAN, started : BOOLEAN, stopped : BOOLEAN,
   expired : BOOLEAN, dismissed : BOOLEAN, renamed : BOOLEAN]
RegistryType ==
  [bySrc : [Endpoints -> Nat], byDest : [Endpoints -> Nat], sessions : Seq(SessionType)]

All(r) == 1..Len(r.sessions)

\* An index leads to a session; the inviting endpoint of one never changes.
Iax2Type(r) ==
  /\ r \in RegistryType
  /\ \A e \in Endpoints : r.bySrc[e] # 0 =>
       r.bySrc[e] \in All(r) /\ r.sessions[r.bySrc[e]].src = e
  /\ \A e \in Endpoints : r.byDest[e] # 0 => r.byDest[e] \in All(r)

Unrenamed(r) == \A s \in All(r) : ~r.sessions[s].renamed

\* What the indexes lead to was not stopped and has that endpoint; what was not
\* stopped is led to by its inviting endpoint; and what was stopped records nothing.
Iax2True(r) ==
  Unrenamed(r) =>
    /\ \A e \in Endpoints : r.bySrc[e] # 0 => ~r.sessions[r.bySrc[e]].dismissed
    /\ \A e \in Endpoints : r.byDest[e] # 0 =>
         r.sessions[r.byDest[e]].dest = e /\ ~r.sessions[r.byDest[e]].dismissed
    /\ \A s \in All(r) : ~r.sessions[s].dismissed => r.bySrc[r.sessions[s].src] = s
    /\ \A s \in All(r) :
         r.sessions[s].dismissed /\ r.sessions[s].started => r.sessions[s].stopped

\* q is as true as r, and among the sessions there were only those of S are stopped.
StopsOnly(r, q, S) ==
  /\ Iax2Type(q) /\ Iax2True(q)
  /\ \A s \in All(r) : q.sessions[s].stopped => r.sessions[s].stopped \/ s \in S

\* q is r after sessions of S, and no others, were stopped.
StoppedIn(r, q, S) ==
  /\ Iax2Type(q) /\ Iax2True(q) /\ Len(q.sessions) = Len(r.sessions)
  /\ \A e \in Endpoints : q.bySrc[e] \in {0, r.bySrc[e]} /\ q.byDest[e] \in {0, r.byDest[e]}
  /\ \A s \in All(r) :
       /\ q.sessions[s].src = r.sessions[s].src /\ q.sessions[s].dest = r.sessions[s].dest
       /\ q.sessions[s].expired = r.sessions[s].expired
       /\ q.sessions[s].renamed = r.sessions[s].renamed
       /\ q.sessions[s].stopped => r.sessions[s].stopped \/ s \in S

LEMMA NoSessionsTrue == Iax2Type(NoSessions) /\ Iax2True(NoSessions)
  BY DEF Iax2Type, Iax2True, NoSessions, RegistryType, All

\* Sessions are stopped.
LEMMA StopEachKeeps ==
  ASSUME NEW r, Iax2Type(r), Iax2True(r), NEW S \in SUBSET All(r),
         Unrenamed(r) => \A s \in S : ~r.sessions[s].dismissed
  PROVE  /\ StoppedIn(r, StopEach(r, S), S)
         /\ \A e \in Endpoints : r.bySrc[e] \in S => StopEach(r, S).bySrc[e] = 0
<1> DEFINE q == StopEach(r, S)
           n == Len(r.sessions)
           goneSrc == {r.sessions[s].src : s \in S}
           goneDest == {r.sessions[s].dest : s \in S}
           bySrc == [e \in Endpoints |-> IF e \in goneSrc THEN 0 ELSE r.bySrc[e]]
           byDest == [e \in Endpoints |-> IF e \in goneDest THEN 0 ELSE r.byDest[e]]
           x == [s \in 1..n |-> IF s \in S THEN Stopped(r.sessions[s]) ELSE r.sessions[s]]
<1>1. /\ r.sessions \in Seq(SessionType) /\ n \in Nat
      /\ \A s \in 1..n : r.sessions[s] \in SessionType
      /\ r.bySrc \in [Endpoints -> Nat] /\ r.byDest \in [Endpoints -> Nat]
      /\ \A e \in Endpoints : r.bySrc[e] \in 0..n /\ r.byDest[e] \in 0..n
      /\ 0 \notin S
  BY DEF Iax2Type, RegistryType, All
<1>2. q = [bySrc |-> bySrc, byDest |-> byDest, sessions |-> x]
  BY DEF StopEach
<1>3. \A s \in 1..n : LET y == Stopped(r.sessions[s]) IN
        /\ y \in SessionType
        /\ y.src = r.sessions[s].src /\ y.dest = r.sessions[s].dest
        /\ y.renamed = r.sessions[s].renamed /\ y.started = r.sessions[s].started
        /\ y.expired = r.sessions[s].expired
        /\ y.dismissed /\ (y.started => y.stopped)
  BY <1>1, ZenonT(60) DEF Stopped, SessionType
<1>4. /\ x \in Seq(SessionType) /\ Len(x) = n
      /\ \A s \in S : x[s] = Stopped(r.sessions[s])
      /\ \A s \in 1..n : s \notin S => x[s] = r.sessions[s]
  <2>1. \A s \in 1..n : (IF s \in S THEN Stopped(r.sessions[s]) ELSE r.sessions[s]) \in SessionType
    BY <1>1, <1>3
  <2>2. QED
    BY <1>1, <2>1 DEF All
<1>5. /\ bySrc \in [Endpoints -> Nat] /\ byDest \in [Endpoints -> Nat]
      /\ \A e \in Endpoints :
           /\ e \in goneSrc => bySrc[e] = 0
           /\ e \notin goneSrc => bySrc[e] = r.bySrc[e]
           /\ e \in goneDest => byDest[e] = 0
           /\ e \notin goneDest => byDest[e] = r.byDest[e]
  BY <1>1
<1>6. /\ \A s \in S : r.sessions[s].src \in goneSrc /\ r.sessions[s].dest \in goneDest
      /\ \A e \in Endpoints : e \in goneSrc => \E s \in S : r.sessions[s].src = e
      /\ \A e \in Endpoints : e \in goneDest => \E s \in S : r.sessions[s].dest = e
  OBVIOUS
<1>7. /\ q.bySrc = bySrc /\ q.byDest = byDest /\ q.sessions = x
      /\ q \in RegistryType
  BY <1>2, <1>4, <1>5 DEF RegistryType
<1> HIDE DEF q, n, goneSrc, goneDest, bySrc, byDest, x
<1>8. All(r) = 1..n /\ All(q) = 1..n /\ S \subseteq 1..n
  BY <1>4, <1>7 DEF All, n
<1>9. \A s \in 1..n : /\ x[s].src = r.sessions[s].src /\ x[s].dest = r.sessions[s].dest
                      /\ x[s].renamed = r.sessions[s].renamed
                      /\ x[s].started = r.sessions[s].started
                      /\ x[s].expired = r.sessions[s].expired
                      /\ x[s].dismissed <=> (s \in S \/ r.sessions[s].dismissed)
                      /\ s \in S /\ x[s].started => x[s].stopped
  BY <1>3, <1>4, <1>8
<1>10. \A e \in Endpoints : r.bySrc[e] # 0 =>
         r.bySrc[e] \in 1..n /\ r.sessions[r.bySrc[e]].src = e
  BY <1>8 DEF Iax2Type
<1>11. Iax2Type(q)
  <2>1. \A e \in Endpoints : bySrc[e] # 0 => bySrc[e] = r.bySrc[e]
    BY <1>5
  <2>2. \A e \in Endpoints : byDest[e] # 0 => byDest[e] \in 1..n
    BY <1>1, <1>5
  <2>3. \A e \in Endpoints : bySrc[e] # 0 => bySrc[e] \in 1..n /\ x[bySrc[e]].src = e
    BY <1>9, <1>10, <2>1
  <2>4. QED
    BY <1>7, <1>8, <2>2, <2>3 DEF Iax2Type
<1>12. \A e \in Endpoints : r.bySrc[e] \in S => bySrc[e] = 0
  <2> SUFFICES ASSUME NEW e \in Endpoints, r.bySrc[e] \in S
               PROVE  bySrc[e] = 0
    OBVIOUS
  <2>1. r.bySrc[e] # 0
    BY <1>1
  <2>2. e \in goneSrc
    BY <1>6, <1>10, <2>1
  <2>3. QED
    BY <1>5, <2>2
<1>13. Iax2True(q)
  <2> SUFFICES ASSUME Unrenamed(q)
               PROVE  /\ \A e \in Endpoints : bySrc[e] # 0 => ~x[bySrc[e]].dismissed
                      /\ \A e \in Endpoints : byDest[e] # 0 =>
                           x[byDest[e]].dest = e /\ ~x[byDest[e]].dismissed
                      /\ \A s \in 1..n : ~x[s].dismissed => bySrc[x[s].src] = s
                      /\ \A s \in 1..n : x[s].dismissed /\ x[s].started => x[s].stopped
    BY <1>7, <1>8 DEF Iax2True
  <2>1. Unrenamed(r)
    BY <1>7, <1>8, <1>9 DEF Unrenamed
  <2>2. /\ \A e \in Endpoints : r.bySrc[e] # 0 => ~r.sessions[r.bySrc[e]].dismissed
        /\ \A e \in Endpoints : r.byDest[e] # 0 =>
             r.sessions[r.byDest[e]].dest = e /\ ~r.sessions[r.byDest[e]].dismissed
        /\ \A s \in 1..n : ~r.sessions[s].dismissed => r.bySrc[r.sessions[s].src] = s
        /\ \A s \in 1..n :
             r.sessions[s].dismissed /\ r.sessions[s].started => r.sessions[s].stopped
    BY <2>1, <1>8 DEF Iax2True
  <2>3. \A e \in Endpoints : bySrc[e] # 0 => ~x[bySrc[e]].dismissed
    <3> SUFFICES ASSUME NEW e \in Endpoints, bySrc[e] # 0
                 PROVE  ~x[bySrc[e]].dismissed
      OBVIOUS
    <3>1. bySrc[e] = r.bySrc[e] /\ r.bySrc[e] \in 1..n /\ r.bySrc[e] \notin S
      BY <1>1, <1>5, <1>12
    <3>2. QED
      BY <1>9, <2>2, <3>1
  <2>4. \A e \in Endpoints : byDest[e] # 0 => x[byDest[e]].dest = e /\ ~x[byDest[e]].dismissed
    <3> SUFFICES ASSUME NEW e \in Endpoints, byDest[e] # 0
                 PROVE  x[byDest[e]].dest = e /\ ~x[byDest[e]].dismissed
      OBVIOUS
    <3>1. byDest[e] = r.byDest[e] /\ r.byDest[e] \in 1..n /\ e \notin goneDest
      BY <1>1, <1>5
    <3>2. r.sessions[r.byDest[e]].dest = e /\ ~r.sessions[r.byDest[e]].dismissed
      BY <2>2, <3>1
    <3>3. r.byDest[e] \notin S
      BY <1>6, <3>1, <3>2
    <3>4. QED
      BY <1>9, <3>1, <3>2, <3>3
  <2>5. ASSUME NEW s \in 1..n, ~x[s].dismissed
        PROVE  bySrc[x[s].src] = s
    <3>1. s \notin S /\ ~r.sessions[s].dismissed /\ r.bySrc[r.sessions[s].src] = s
      BY <1>9, <2>2, <2>5
    <3>2. r.sessions[s].src \in Endpoints
      BY <1>1 DEF SessionType
    <3>3. \A t \in S : r.sessions[t].src # r.sessions[s].src
      BY <1>8, <2>1, <2>2, <3>1
    <3>4. QED
      BY <1>5, <1>6, <1>9, <3>1, <3>2, <3>3
  <2>6. \A s \in 1..n : x[s].dismissed /\ x[s].started => x[s].stopped
    BY <1>4, <1>9, <2>2
  <2>7. QED
    BY <2>3, <2>4, <2>5, <2>6
<1>14. StoppedIn(r, q, S)
  BY <1>1, <1>4, <1>5, <1>7, <1>8, <1>9, <1>11, <1>13 DEF StoppedIn, n
<1>15. QED
  BY <1>7, <1>12, <1>14 DEF q

LEMMA StoppedTwice ==
  ASSUME NEW r, NEW q, NEW p, NEW S, NEW T, Iax2Type(r),
         StoppedIn(r, q, S), StoppedIn(q, p, T)
  PROVE  StoppedIn(r, p, S \cup T)
<1>1. All(q) = All(r)
  BY DEF StoppedIn, All
<1>2. \A e \in Endpoints : p.bySrc[e] \in {0, r.bySrc[e]} /\ p.byDest[e] \in {0, r.byDest[e]}
  BY DEF StoppedIn
<1>3. QED
  BY <1>1, <1>2 DEF StoppedIn

\* Stopping a session means that, and stopping none nothing.
LEMMA StopIfFoundKeeps ==
  ASSUME NEW r, Iax2Type(r), Iax2True(r), NEW s, s = 0 \/ s \in All(r),
         s # 0 /\ Unrenamed(r) => ~r.sessions[s].dismissed
  PROVE  /\ StoppedIn(r, StopIfFound(r, s), {s})
         /\ \A e \in Endpoints : r.bySrc[e] = s => StopIfFound(r, s).bySrc[e] = 0
<1>1. CASE s = 0
  <2>1. StopIfFound(r, s) = r
    BY <1>1 DEF StopIfFound
  <2>2. QED
    BY <1>1, <2>1 DEF StoppedIn
<1>2. CASE s # 0
  <2>1. StopIfFound(r, s) = StopEach(r, {s}) /\ {s} \in SUBSET All(r)
    BY <1>2 DEF StopIfFound, Stop
  <2>2. QED
    BY <1>2, <2>1, StopEachKeeps
<1>3. QED
  BY <1>1, <1>2

\* The session an index leads to.
LEMMA FoundSession ==
  ASSUME NEW r, Iax2Type(r), Iax2True(r), NEW e \in Endpoints
  PROVE  /\ r.bySrc[e] = 0 \/ r.bySrc[e] \in All(r)
         /\ r.byDest[e] = 0 \/ r.byDest[e] \in All(r)
         /\ r.bySrc[e] # 0 => r.sessions[r.bySrc[e]].src = e
         /\ Unrenamed(r) => /\ r.bySrc[e] # 0 => ~r.sessions[r.bySrc[e]].dismissed
                            /\ r.byDest[e] # 0 => ~r.sessions[r.byDest[e]].dismissed
                            /\ r.byDest[e] # 0 => r.sessions[r.byDest[e]].dest = e
  BY DEF Iax2Type, Iax2True

\* A session changes otherwise than by being stopped or given an endpoint.
LEMMA ChangeKeeps ==
  ASSUME NEW r, Iax2Type(r), Iax2True(r), NEW s \in All(r), NEW y \in SessionType,
         y.src = r.sessions[s].src, y.dest = r.sessions[s].dest,
         y.dismissed = r.sessions[s].dismissed, y.renamed = r.sessions[s].renamed,
         y.stopped = r.sessions[s].stopped,
         y.started = r.sessions[s].started \/ (Unrenamed(r) => ~y.dismissed)
  PROVE  StopsOnly(r, [r EXCEPT !.sessions[s] = y], {})
<1> DEFINE q == [r EXCEPT !.sessions[s] = y]
           x == [r.sessions EXCEPT ![s] = y]
<1>1. /\ r.sessions \in Seq(SessionType) /\ Len(r.sessions) \in Nat
      /\ r \in RegistryType /\ s \in 1..Len(r.sessions)
  BY DEF Iax2Type, RegistryType, All
<1>2. /\ x \in Seq(SessionType) /\ Len(x) = Len(r.sessions) /\ x[s] = y
      /\ \A t \in 1..Len(r.sessions) : t # s => x[t] = r.sessions[t]
  BY <1>1, ExceptSeq
<1>3. q = [bySrc |-> r.bySrc, byDest |-> r.byDest, sessions |-> x]
  <2>1. q = [r EXCEPT !.sessions = x]
    OBVIOUS
  <2> HIDE DEF x
  <2>2. QED
    BY <1>1, <2>1 DEF RegistryType
<1>4. q.bySrc = r.bySrc /\ q.byDest = r.byDest /\ q.sessions = x /\ q \in RegistryType
  BY <1>1, <1>2, <1>3 DEF RegistryType
<1> HIDE DEF q, x
<1>5. /\ All(q) = All(r) /\ All(r) = 1..Len(r.sessions)
      /\ \A t \in All(r) : x[t].src = r.sessions[t].src /\ x[t].dest = r.sessions[t].dest
                          /\ x[t].dismissed = r.sessions[t].dismissed
                          /\ x[t].renamed = r.sessions[t].renamed
                          /\ x[t].stopped = r.sessions[t].stopped
  BY <1>1, <1>2, <1>4 DEF All
<1>6. Iax2Type(q)
  BY <1>4, <1>5 DEF Iax2Type
<1>7. Unrenamed(q) => Unrenamed(r)
  BY <1>4, <1>5 DEF Unrenamed
<1>8. Iax2True(q)
  BY <1>2, <1>4, <1>5, <1>7, SMTT(30) DEF Iax2True, Iax2Type
<1>9. QED
  BY <1>4, <1>5, <1>6, <1>8 DEF StopsOnly, q

\* NEW ends no call that is up.
LEMMA NewKeeps ==
  ASSUME NEW r, Iax2Type(r), Iax2True(r), NEW e \in Endpoints
  PROVE  StopsOnly(r, ReportIax2New(r, e), {s \in All(r) : r.sessions[s].state # "up"})
<1> DEFINE old == r.bySrc[e]
           room == StopIfFound(r, old)
           n == Len(room.sessions)
           bySrc == [room.bySrc EXCEPT ![e] = n + 1]
           x == Append(room.sessions, NewIax2Session(e))
           q == ReportIax2New(r, e)
<1>1. CASE IgnoresNew(r, old)
  BY <1>1 DEF ReportIax2New, StopsOnly
<1>2. CASE ~IgnoresNew(r, old)
  <2>1. old = 0 \/ (old \in All(r) /\ r.sessions[old].state # "up")
    BY <1>2, FoundSession DEF IgnoresNew
  <2>2. StoppedIn(r, room, {old}) /\ room.bySrc[e] = 0
    <3>1. (old = 0 \/ old \in All(r)) /\ (old # 0 /\ Unrenamed(r) => ~r.sessions[old].dismissed)
      BY FoundSession
    <3>2. QED
      BY <3>1, StopIfFoundKeeps
  <2>3. /\ Iax2Type(room) /\ Iax2True(room) /\ n \in Nat /\ n = Len(r.sessions)
        /\ room.bySrc \in [Endpoints -> Nat] /\ room.byDest \in [Endpoints -> Nat]
        /\ room.sessions \in Seq(SessionType) /\ room \in RegistryType
    BY <2>2, SMTT(30) DEF StoppedIn, Iax2Type, RegistryType
  <2>4. /\ NewIax2Session(e) \in SessionType
        /\ NewIax2Session(e).src = e /\ ~NewIax2Session(e).dismissed
        /\ ~NewIax2Session(e).renamed
    BY DEF NewIax2Session, SessionType, Addresses
  <2>5. q = [bySrc |-> bySrc, byDest |-> room.byDest, sessions |-> x]
    BY <1>2, <2>2, <2>3 DEF ReportIax2New, InsertNew, RegistryType
  <2>6. /\ x \in Seq(SessionType) /\ Len(x) = n + 1 /\ x[n + 1] = NewIax2Session(e)
        /\ \A s \in 1..n : x[s] = room.sessions[s]
    BY <2>3, <2>4
  <2>7. /\ bySrc \in [Endpoints -> Nat] /\ bySrc[e] = n + 1
        /\ \A d \in Endpoints : d # e => bySrc[d] = room.bySrc[d]
    BY <2>3
  <2>8. q.bySrc = bySrc /\ q.byDest = room.byDest /\ q.sessions = x /\ q \in RegistryType
    BY <2>3, <2>5, <2>6, <2>7 DEF RegistryType
  <2> HIDE DEF q, x, bySrc, room, n
  <2>9. All(q) = 1..(n + 1) /\ All(room) = 1..n /\ All(r) = 1..n
    BY <2>3, <2>6, <2>8 DEF All, n
  <2>10. Iax2Type(q)
    <3>1. \A d \in Endpoints : bySrc[d] # 0 => bySrc[d] \in 1..(n + 1) /\ x[bySrc[d]].src = d
      <4> SUFFICES ASSUME NEW d \in Endpoints, bySrc[d] # 0
                   PROVE  bySrc[d] \in 1..(n + 1) /\ x[bySrc[d]].src = d
        OBVIOUS
      <4>1. CASE d = e
        BY <2>3, <2>4, <2>6, <2>7, <4>1
      <4>2. CASE d # e
        BY <2>3, <2>6, <2>7, <2>9, <4>2 DEF Iax2Type
      <4>3. QED
        BY <4>1, <4>2
    <3>2. \A d \in Endpoints : room.byDest[d] # 0 => room.byDest[d] \in 1..(n + 1)
      BY <2>3, <2>9 DEF Iax2Type
    <3>3. QED
      BY <2>8, <2>9, <3>1, <3>2 DEF Iax2Type
  <2>11. Iax2True(q)
    <3> SUFFICES ASSUME Unrenamed(q)
                 PROVE  /\ \A d \in Endpoints : bySrc[d] # 0 => ~x[bySrc[d]].dismissed
                        /\ \A d \in Endpoints : room.byDest[d] # 0 =>
                             x[room.byDest[d]].dest = d /\ ~x[room.byDest[d]].dismissed
                        /\ \A s \in 1..(n + 1) : ~x[s].dismissed => bySrc[x[s].src] = s
                        /\ \A s \in 1..(n + 1) :
                             x[s].dismissed /\ x[s].started => x[s].stopped
      BY <2>8, <2>9 DEF Iax2True
    <3>1. Unrenamed(room)
      BY <2>3, <2>6, <2>8, <2>9 DEF Unrenamed
    <3>2. /\ \A d \in Endpoints : room.bySrc[d] # 0 => ~room.sessions[room.bySrc[d]].dismissed
          /\ \A d \in Endpoints : room.byDest[d] # 0 =>
               room.sessions[room.byDest[d]].dest = d /\ ~room.sessions[room.byDest[d]].dismissed
          /\ \A s \in 1..n : ~room.sessions[s].dismissed => room.bySrc[room.sessions[s].src] = s
          /\ \A s \in 1..n :
               room.sessions[s].dismissed /\ room.sessions[s].started => room.sessions[s].stopped
      BY <2>3, <2>9, <3>1 DEF Iax2True
    <3>3. \A d \in Endpoints : bySrc[d] # 0 => ~x[bySrc[d]].dismissed
      BY <2>3, <2>4, <2>6, <2>7, <2>9, <3>2 DEF Iax2Type
    <3>4. \A d \in Endpoints : room.byDest[d] # 0 =>
            x[room.byDest[d]].dest = d /\ ~x[room.byDest[d]].dismissed
      BY <2>3, <2>6, <2>9, <3>2 DEF Iax2Type
    <3>5. ASSUME NEW s \in 1..(n + 1), ~x[s].dismissed
          PROVE  bySrc[x[s].src] = s
      <4>1. CASE s = n + 1
        BY <2>4, <2>6, <2>7, <4>1
      <4>2. CASE s # n + 1
        <5>1. s \in 1..n /\ room.bySrc[room.sessions[s].src] = s /\ x[s] = room.sessions[s]
          BY <2>3, <2>6, <3>2, <3>5, <4>2
        <5>2. room.sessions[s].src \in Endpoints /\ room.sessions[s].src # e
          <6>1. room.sessions[s] \in SessionType
            BY <2>3, <5>1 DEF n
          <6>2. s # 0
            BY <5>1
          <6>3. QED
            BY <2>2, <5>1, <6>1, <6>2 DEF SessionType
        <5>3. QED
          BY <2>7, <5>1, <5>2
      <4>3. QED
        BY <4>1, <4>2
    <3>6. \A s \in 1..(n + 1) : x[s].dismissed /\ x[s].started => x[s].stopped
      BY <2>3, <2>4, <2>6, <3>2
    <3>7. QED
      BY <3>3, <3>4, <3>5, <3>6
  <2>12. \A s \in 1..n : x[s].stopped => r.sessions[s].stopped \/ s = old
    BY <2>2, <2>6, <2>9 DEF StoppedIn
  <2>13. QED
    BY <2>1, <2>8, <2>9, <2>10, <2>11, <2>12 DEF StopsOnly, q
<1>3. QED
  BY <1>1, <1>2

\* AUTHREQ and ACCEPT: the session an inviting endpoint leads to is given the
\* invited one.
LEMMA SetDestKeeps ==
  ASSUME NEW r, Iax2Type(r), Iax2True(r), NEW e \in Endpoints, r.bySrc[e] # 0,
         NEW d \in Endpoints, NEW state \in {"waiting", "linked"}
  PROVE  StopsOnly(r, SetDest(r, r.bySrc[e], d, state), {})
<1> DEFINE s == r.bySrc[e]
           n == Len(r.sessions)
           y == Invited(r.sessions[s], d, state)
           x == [r.sessions EXCEPT ![s] = y]
           byDest == InsertNew(r.byDest, d, s)
           q == SetDest(r, s, d, state)
<1>1. /\ r.sessions \in Seq(SessionType) /\ n \in Nat /\ r \in RegistryType
      /\ s \in 1..n /\ r.sessions[s] \in SessionType /\ r.sessions[s].src = e
      /\ r.bySrc \in [Endpoints -> Nat] /\ r.byDest \in [Endpoints -> Nat]
      /\ All(r) = 1..n
  BY FoundSession DEF Iax2Type, RegistryType, All
<1>2. /\ y \in SessionType /\ y.src = r.sessions[s].src /\ y.dest = d
      /\ y.dismissed = r.sessions[s].dismissed /\ y.started = r.sessions[s].started
      /\ y.stopped = r.sessions[s].stopped
      /\ ~y.renamed => ~r.sessions[s].renamed /\ r.sessions[s].dest \in {NoEndpoint, d}
  BY <1>1 DEF Invited, SessionType
<1>3. /\ x \in Seq(SessionType) /\ Len(x) = n /\ x[s] = y
      /\ \A t \in 1..n : t # s => x[t] = r.sessions[t]
  BY <1>1, <1>2, ExceptSeq
<1>4. /\ byDest \in [Endpoints -> Nat]
      /\ byDest[d] = IF r.byDest[d] = 0 THEN s ELSE r.byDest[d]
      /\ \A c \in Endpoints : c # d => byDest[c] = r.byDest[c]
  BY <1>1 DEF InsertNew
<1>5. q = [bySrc |-> r.bySrc, byDest |-> byDest, sessions |-> x]
  <2>1. q = [r EXCEPT !.sessions = x, !.byDest = byDest]
    BY DEF SetDest
  <2> HIDE DEF x, byDest
  <2>2. QED
    BY <1>1, <2>1 DEF RegistryType
<1>6. q.bySrc = r.bySrc /\ q.byDest = byDest /\ q.sessions = x /\ q \in RegistryType
  BY <1>1, <1>3, <1>4, <1>5 DEF RegistryType
<1> HIDE DEF q, x, y, byDest, n, s
<1>7. /\ All(q) = 1..n
      /\ \A t \in 1..n : x[t].src = r.sessions[t].src /\ x[t].stopped = r.sessions[t].stopped
                         /\ x[t].dismissed = r.sessions[t].dismissed
                         /\ x[t].started = r.sessions[t].started
                         /\ (~x[t].renamed => ~r.sessions[t].renamed)
  BY <1>2, <1>3, <1>6 DEF All
<1>8. Iax2Type(q)
  <2>1. \A c \in Endpoints : byDest[c] # 0 => byDest[c] \in 1..n
    BY <1>1, <1>4 DEF Iax2Type
  <2>2. \A c \in Endpoints : r.bySrc[c] # 0 => r.bySrc[c] \in 1..n /\ x[r.bySrc[c]].src = c
    BY <1>1, <1>7 DEF Iax2Type
  <2>3. QED
    BY <1>6, <1>7, <2>1, <2>2 DEF Iax2Type
<1>9. Iax2True(q)
  <2> SUFFICES ASSUME Unrenamed(q)
               PROVE  /\ \A c \in Endpoints : r.bySrc[c] # 0 => ~x[r.bySrc[c]].dismissed
                      /\ \A c \in Endpoints : byDest[c] # 0 =>
                           x[byDest[c]].dest = c /\ ~x[byDest[c]].dismissed
                      /\ \A t \in 1..n : ~x[t].dismissed => r.bySrc[x[t].src] = t
                      /\ \A t \in 1..n : x[t].dismissed /\ x[t].started => x[t].stopped
    BY <1>6, <1>7 DEF Iax2True
  <2>1. Unrenamed(r) /\ r.sessions[s].dest \in {NoEndpoint, d}
    BY <1>1, <1>2, <1>3, <1>6, <1>7 DEF Unrenamed
  <2>2. /\ \A c \in Endpoints : r.bySrc[c] # 0 => ~r.sessions[r.bySrc[c]].dismissed
        /\ \A c \in Endpoints : r.byDest[c] # 0 =>
             r.sessions[r.byDest[c]].dest = c /\ ~r.sessions[r.byDest[c]].dismissed
        /\ \A t \in 1..n : ~r.sessions[t].dismissed => r.bySrc[r.sessions[t].src] = t
        /\ \A t \in 1..n :
             r.sessions[t].dismissed /\ r.sessions[t].started => r.sessions[t].stopped
    BY <1>1, <2>1 DEF Iax2True
  <2>3. \A c \in Endpoints : r.bySrc[c] # 0 => ~x[r.bySrc[c]].dismissed
    BY <1>1, <1>7, <2>2 DEF Iax2Type
  <2>4. ASSUME NEW c \in Endpoints, byDest[c] # 0
        PROVE  x[byDest[c]].dest = c /\ ~x[byDest[c]].dismissed
    <3>1. CASE byDest[c] = s
      <4>1. r.byDest[c] \in {0, s}
        BY <1>4, <3>1
      <4>2. c = d
        <5>1. CASE r.byDest[c] = s
          BY Iax2Assumption, <1>1, <2>1, <2>2, <5>1
        <5>2. CASE r.byDest[c] = 0
          BY <1>4, <2>4, <5>2
        <5>3. QED
          BY <4>1, <5>1, <5>2
      <4>3. ~r.sessions[s].dismissed
        BY <1>1, <2>2 DEF s
      <4>4. QED
        BY <1>2, <1>3, <3>1, <4>2, <4>3
    <3>2. CASE byDest[c] # s
      <4>1. byDest[c] = r.byDest[c] /\ r.byDest[c] \in 1..n
        BY <1>1, <1>4, <2>4, <3>2 DEF Iax2Type
      <4>2. QED
        BY <1>3, <2>2, <3>2, <4>1
    <3>3. QED
      BY <3>1, <3>2
  <2>5. \A t \in 1..n : ~x[t].dismissed => r.bySrc[x[t].src] = t
    BY <1>7, <2>2
  <2>6. \A t \in 1..n : x[t].dismissed /\ x[t].started => x[t].stopped
    BY <1>7, <2>2
  <2>7. QED
    BY <2>3, <2>4, <2>5, <2>6
<1>10. QED
  BY <1>1, <1>6, <1>7, <1>8, <1>9 DEF StopsOnly, q, s

LEMMA AuthreqKeeps ==
  ASSUME NEW r, Iax2Type(r), Iax2True(r), NEW e \in Endpoints, NEW d \in Endpoints
  PROVE  StopsOnly(r, ReportIax2Authreq(r, e, d), {})
<1>1. CASE r.bySrc[e] = 0
  BY <1>1 DEF ReportIax2Authreq, StopsOnly
<1>2. CASE r.bySrc[e] # 0
  BY <1>2, SetDestKeeps DEF ReportIax2Authreq
<1>3. QED
  BY <1>1, <1>2

LEMMA AcceptKeeps ==
  ASSUME NEW r, Iax2Type(r), Iax2True(r), NEW e \in Endpoints, NEW d \in Endpoints
  PROVE  StopsOnly(r, ReportIax2Accept(r, e, d), {})
<1>1. CASE r.bySrc[e] = 0
  BY <1>1 DEF ReportIax2Accept, StopsOnly
<1>2. CASE r.bySrc[e] # 0 /\ r.byDest[d] = 0
  BY <1>2, SetDestKeeps DEF ReportIax2Accept
<1>3. CASE r.bySrc[e] # 0 /\ r.byDest[d] # 0
  <2> DEFINE s == r.byDest[d]
             y == [r.sessions[s] EXCEPT !.state = "linked"]
  <2>1. s \in All(r) /\ r.sessions[s] \in SessionType
    BY <1>3, FoundSession DEF All, Iax2Type, RegistryType
  <2>2. /\ y \in SessionType /\ y.src = r.sessions[s].src /\ y.dest = r.sessions[s].dest
        /\ y.dismissed = r.sessions[s].dismissed /\ y.renamed = r.sessions[s].renamed
        /\ y.stopped = r.sessions[s].stopped /\ y.started = r.sessions[s].started
    BY <2>1 DEF SessionType
  <2>3. ReportIax2Accept(r, e, d) = [r EXCEPT !.sessions[s] = y]
    BY <1>3 DEF ReportIax2Accept
  <2> HIDE DEF y, s
  <2>4. QED
    BY <2>1, <2>2, <2>3, ChangeKeeps
<1>4. QED
  BY <1>1, <1>2, <1>3

\* HANGUP ends calls of its two ends.
LEMMA HangupKeeps ==
  ASSUME NEW r, Iax2Type(r), Iax2True(r), NEW d \in Endpoints, NEW e \in Endpoints
  PROVE  StopsOnly(r, ReportIax2Hangup(r, d, e),
                   {s \in All(r) : Unrenamed(r) =>
                      {r.sessions[s].src, r.sessions[s].dest} \cap {d, e} # {}})
<1> DEFINE r1 == StopIfFound(r, r.bySrc[e])
           r2 == StopIfFound(r1, r1.bySrc[d])
           r3 == StopIfFound(r2, r2.byDest[e])
           q == StopIfFound(r3, r3.byDest[d])
           S == {r.bySrc[e], r1.bySrc[d], r2.byDest[e], r3.byDest[d]}
<1>1. StoppedIn(r, r1, {r.bySrc[e]})
  <2>1. /\ r.bySrc[e] = 0 \/ r.bySrc[e] \in All(r)
        /\ r.bySrc[e] # 0 /\ Unrenamed(r) => ~r.sessions[r.bySrc[e]].dismissed
    BY FoundSession
  <2>2. QED
    BY <2>1, StopIfFoundKeeps
<1> HIDE DEF r1
<1>2. StoppedIn(r1, r2, {r1.bySrc[d]})
  <2>1. Iax2Type(r1) /\ Iax2True(r1)
    BY <1>1 DEF StoppedIn
  <2>2. /\ r1.bySrc[d] = 0 \/ r1.bySrc[d] \in All(r1)
        /\ r1.bySrc[d] # 0 /\ Unrenamed(r1) => ~r1.sessions[r1.bySrc[d]].dismissed
    BY <2>1, FoundSession
  <2>3. QED
    BY <2>1, <2>2, StopIfFoundKeeps
<1> HIDE DEF r2
<1>3. StoppedIn(r2, r3, {r2.byDest[e]})
  <2>1. Iax2Type(r2) /\ Iax2True(r2)
    BY <1>2 DEF StoppedIn
  <2>2. /\ r2.byDest[e] = 0 \/ r2.byDest[e] \in All(r2)
        /\ r2.byDest[e] # 0 /\ Unrenamed(r2) => ~r2.sessions[r2.byDest[e]].dismissed
    BY <2>1, FoundSession
  <2>3. QED
    BY <2>1, <2>2, StopIfFoundKeeps
<1> HIDE DEF r3
<1>4. StoppedIn(r3, q, {r3.byDest[d]})
  <2>1. Iax2Type(r3) /\ Iax2True(r3)
    BY <1>3 DEF StoppedIn
  <2>2. /\ r3.byDest[d] = 0 \/ r3.byDest[d] \in All(r3)
        /\ r3.byDest[d] # 0 /\ Unrenamed(r3) => ~r3.sessions[r3.byDest[d]].dismissed
    BY <2>1, FoundSession
  <2>3. QED
    BY <2>1, <2>2, StopIfFoundKeeps
<1>5. ReportIax2Hangup(r, d, e) = q
  BY DEF ReportIax2Hangup, r1, r2, r3
<1> HIDE DEF q
<1>6. StoppedIn(r, r2, {r.bySrc[e]} \cup {r1.bySrc[d]})
  BY <1>1, <1>2, StoppedTwice
<1>7. StoppedIn(r, r3, {r.bySrc[e]} \cup {r1.bySrc[d]} \cup {r2.byDest[e]})
  BY <1>3, <1>6, StoppedTwice
<1>8. StoppedIn(r, q, {r.bySrc[e]} \cup {r1.bySrc[d]} \cup {r2.byDest[e]} \cup {r3.byDest[d]})
  BY <1>4, <1>7, StoppedTwice
<1>9. ASSUME NEW s \in All(r), s \in S, Unrenamed(r)
      PROVE  r.sessions[s].src \in {d, e} \/ r.sessions[s].dest \in {d, e}
  <2>1. s # 0
    BY DEF All
  <2>2. s \in {r.bySrc[e], r.bySrc[d], r.byDest[e], r.byDest[d]}
    BY <1>1, <1>6, <1>7, <1>9, <2>1 DEF StoppedIn
  <2>3. /\ s \in {r.bySrc[e], r.bySrc[d]} => r.sessions[s].src \in {d, e}
        /\ s \in {r.byDest[e], r.byDest[d]} => r.sessions[s].dest \in {d, e}
    BY <1>9, <2>1, FoundSession
  <2>4. QED
    BY <2>2, <2>3
<1>10. \A s \in All(r) : q.sessions[s].stopped => r.sessions[s].stopped \/ s \in S
  BY <1>8 DEF StoppedIn
<1>11. QED
  BY <1>5, <1>8, <1>9, <1>10, ZenonT(60) DEF StopsOnly, StoppedIn
\* A voice frame ends no call but one that is waiting.
LEMMA PacketKeeps ==
  ASSUME NEW r, Iax2Type(r), Iax2True(r), NEW e \in Endpoints, NEW to \in Addresses,
         NEW full \in BOOLEAN, NEW duplicate \in BOOLEAN
  PROVE  StopsOnly(r, ReportIax2Packet(r, e, to, full, duplicate),
                   {s \in All(r) : r.sessions[s].state # "up"})
<1> DEFINE s == IF r.bySrc[e] # 0 THEN r.bySrc[e] ELSE r.byDest[e]
           q == ReportIax2Packet(r, e, to, full, duplicate)
<1>1. (s = 0 \/ s \in All(r)) /\ (s # 0 /\ Unrenamed(r) => ~r.sessions[s].dismissed)
  BY FoundSession
<1> HIDE DEF s
<1>2. CASE s = 0
  <2>1. q = r
    BY <1>2 DEF ReportIax2Packet, s
  <2>2. QED
    BY <2>1 DEF StopsOnly
<1>3. CASE s # 0 /\ r.sessions[s].state = "waiting"
  <2>1. q = StopIfFound(r, s)
    BY <1>3 DEF ReportIax2Packet, StopIfFound, s
  <2>2. StoppedIn(r, q, {s})
    BY <1>1, <2>1, StopIfFoundKeeps
  <2>3. s \in {t \in All(r) : r.sessions[t].state # "up"}
    BY <1>1, <1>3
  <2>4. QED
    BY <2>2, <2>3 DEF StoppedIn, StopsOnly
<1>4. CASE s # 0 /\ r.sessions[s].state # "waiting"
  <2> DEFINE y == AddIax2Packet(r.sessions[s], to, full, duplicate)
  <2>1. s \in All(r) /\ r.sessions[s] \in SessionType
    BY <1>1, <1>4 DEF All, Iax2Type, RegistryType
  <2>2. /\ y \in SessionType /\ y.src = r.sessions[s].src /\ y.dest = r.sessions[s].dest
        /\ y.dismissed = r.sessions[s].dismissed /\ y.renamed = r.sessions[s].renamed
        /\ y.stopped = r.sessions[s].stopped
    BY <2>1, ZenonT(60) DEF AddIax2Packet, SessionType
  <2>3. q = [r EXCEPT !.sessions[s] = y]
    BY <1>4 DEF ReportIax2Packet, s
  <2> HIDE DEF y, q
  <2>4. StopsOnly(r, [r EXCEPT !.sessions[s] = y], {})
    BY <1>1, <1>4, <2>1, <2>2, ChangeKeeps
  <2>5. QED
    BY <2>3, <2>4 DEF StopsOnly, q
<1>5. QED
  BY <1>2, <1>3, <1>4

\* The clean-up ends calls that are silent too long.
LEMMA HooverKeeps ==
  ASSUME NEW r, Iax2Type(r), Iax2True(r)
  PROVE  StopsOnly(r, HooverIax2(r), {s \in All(r) : r.sessions[s].expired})
<1> DEFINE S == {s \in Found(r.bySrc) : r.sessions[s].expired}
           q == StopEach(r, S)
           T == {s \in Found(q.byDest) : q.sessions[s].expired}
<1>1. S \in SUBSET All(r) /\ (Unrenamed(r) => \A s \in S : ~r.sessions[s].dismissed)
  BY FoundSession DEF Found
<1> HIDE DEF S
<1>2. StoppedIn(r, q, S)
  BY <1>1, StopEachKeeps
<1>3. HooverIax2(r) = StopEach(q, T)
  BY DEF HooverIax2, S
<1> HIDE DEF q
<1>4. Iax2Type(q) /\ Iax2True(q)
  BY <1>2 DEF StoppedIn
<1>5. T \in SUBSET All(q) /\ (Unrenamed(q) => \A s \in T : ~q.sessions[s].dismissed)
  BY <1>4, FoundSession DEF Found
<1>6. \A s \in T : q.sessions[s].expired
  OBVIOUS
<1> HIDE DEF T
<1>7. StoppedIn(q, StopEach(q, T), T)
  BY <1>4, <1>5, StopEachKeeps
<1>8. StoppedIn(r, HooverIax2(r), S \cup T)
  BY <1>2, <1>3, <1>7, StoppedTwice
<1>9. \A s \in All(r) : s \in S \cup T => r.sessions[s].expired
  BY <1>2, <1>6 DEF S, StoppedIn
<1>10. QED
  BY <1>8, <1>9 DEF StoppedIn, StopsOnly

LEMMA StopAllKeeps ==
  ASSUME NEW r, Iax2Type(r), Iax2True(r)
  PROVE  StopsOnly(r, StopAllIax2(r), All(r))
<1> DEFINE q == StopEach(r, Found(r.bySrc))
<1>1. /\ Found(r.bySrc) \in SUBSET All(r)
      /\ Unrenamed(r) => \A s \in Found(r.bySrc) : ~r.sessions[s].dismissed
  BY FoundSession DEF Found
<1>2. StoppedIn(r, q, Found(r.bySrc))
  BY <1>1, StopEachKeeps
<1>3. StopAllIax2(r) = StopEach(q, Found(q.byDest))
  BY DEF StopAllIax2
<1> HIDE DEF q
<1>4. Iax2Type(q) /\ Iax2True(q)
  BY <1>2 DEF StoppedIn
<1>5. /\ Found(q.byDest) \in SUBSET All(q)
      /\ Unrenamed(q) => \A s \in Found(q.byDest) : ~q.sessions[s].dismissed
  BY <1>4, FoundSession DEF Found
<1>6. StoppedIn(q, StopAllIax2(r), Found(q.byDest))
  BY <1>3, <1>4, <1>5, StopEachKeeps
<1>7. QED
  BY <1>2, <1>6, StoppedTwice DEF StoppedIn, StopsOnly
-----------------------------------------------------------------------------
(* The sessions under the packets                                          *)

PluginRecord ==
  plugin = [map |-> plugin.map, streams |-> plugin.streams, iax2 |-> plugin.iax2]

Iax2Inv ==
  /\ scenario \in Scenarios /\ PluginRecord
  /\ Iax2Type(plugin.iax2) /\ Iax2True(plugin.iax2)

\* The calls that a step may end.
MayEnd(s) ==
  \/ plugin.iax2.sessions[s].state # "up"
  \/ plugin.iax2.sessions[s].expired \/ scenario.pcapReplay
  \/ \E c \in scenario.calls :
       HandleHangup(c) /\ (NoneRenamed => Parties(s) \cap {c.invitor, c.invitee} # {})

\* A step that makes r of the registry, and ends only calls that it may end.
LEMMA RegistryStep ==
  ASSUME Iax2Inv, NEW r, NEW S, StopsOnly(plugin.iax2, r, S),
         plugin' = [plugin EXCEPT !.iax2 = r], scenario' = scenario,
         \A s \in Sessions : s \in S => MayEnd(s)
  PROVE  /\ Iax2Inv'
         /\ \A s \in Sessions :
              plugin'.iax2.sessions[s].stopped => plugin.iax2.sessions[s].stopped \/ MayEnd(s)
<1>1. plugin' = [map |-> plugin.map, streams |-> plugin.streams, iax2 |-> r]
  BY DEF Iax2Inv, PluginRecord
<1>2. plugin'.iax2 = r /\ PluginRecord'
  BY <1>1 DEF PluginRecord
<1>3. QED
  BY <1>2 DEF Iax2Inv, StopsOnly, Sessions, All

LEMMA CallEndpoints ==
  ASSUME Iax2Inv, NEW c \in scenario.calls
  PROVE  c.invitor \in Endpoints /\ c.invitee \in Endpoints
  BY ScenarioTypes DEF Iax2Inv

LEMMA Iax2Step ==
  ASSUME Iax2Inv, [Next]_vars
  PROVE  /\ Iax2Inv'
         /\ \A s \in Sessions :
              plugin'.iax2.sessions[s].stopped => plugin.iax2.sessions[s].stopped \/ MayEnd(s)
<1> USE DEF history
<1> DEFINE r == plugin.iax2
<1>1. Iax2Type(r) /\ Iax2True(r) /\ All(r) = Sessions
  BY DEF Iax2Inv, Sessions, All
<1>2. CASE plugin'.iax2 = plugin.iax2 /\ scenario' = scenario /\ PluginRecord'
  BY <1>2 DEF Iax2Inv
<1>3. CASE UNCHANGED vars \/ Tick
  BY <1>2, <1>3 DEF vars, Tick, Iax2Inv, PluginRecord
<1>4. ASSUME NEW d \in scenario.datagrams, NEW i \in 1..Len(d.fragments), HandleDatagram(d, i)
      PROVE  plugin'.iax2 = plugin.iax2 /\ scenario' = scenario /\ PluginRecord'
  <2> DEFINE f == Fragment(d, i)
             reassembles == Fragmented(d) /\ d.tunnel = "none" /\ scenario.ipFragmentsReassemble
             handled == IF reassembles THEN HandleIpFragment(plugin.map, f, now)
                        ELSE [map |-> plugin.map, packet |-> << >>]
  <2>1. scenario' = scenario /\ (plugin' = plugin \/ plugin' = [plugin EXCEPT !.map = handled.map])
    BY <1>4 DEF HandleDatagram
  <2> HIDE DEF handled
  <2>2. QED
    BY <2>1 DEF Iax2Inv, PluginRecord
<1>5. ASSUME NEW conn \in scenario.conns, NEW from, NEW len, HandleSegment(conn, from, len)
      PROVE  plugin'.iax2 = plugin.iax2 /\ scenario' = scenario /\ PluginRecord'
  <2> DEFINE result == TrySipTcp(plugin.streams, [conn |-> conn, from |-> from, len |-> len], now)
  <2>1. scenario' = scenario /\ plugin' = [plugin EXCEPT !.streams = result.streams]
    BY <1>5 DEF HandleSegment
  <2> HIDE DEF result
  <2>2. QED
    BY <2>1 DEF Iax2Inv, PluginRecord
<1>6. ASSUME NEW c \in scenario.calls, HandleSignalling(c)
      PROVE  \E p, S : /\ StopsOnly(r, p, S) /\ plugin' = [plugin EXCEPT !.iax2 = p]
                       /\ scenario' = scenario /\ \A s \in Sessions : s \in S => MayEnd(s)
  <2>1. PICK p \in Iax2Frames(r, c) : plugin' = [plugin EXCEPT !.iax2 = p] /\ scenario' = scenario
    BY <1>6 DEF HandleSignalling
  <2> DEFINE S == {s \in All(r) : r.sessions[s].state # "up"}
  <2>2. \A s \in Sessions : s \in S => MayEnd(s)
    BY DEF MayEnd
  <2>3. StopsOnly(r, p, S)
    <3>1. StopsOnly(r, p, {}) \/ StopsOnly(r, p, S)
      BY <1>1, <2>1, CallEndpoints, NewKeeps, AuthreqKeeps, AcceptKeeps DEF Iax2Frames
    <3>2. QED
      BY <3>1 DEF StopsOnly
  <2>4. QED
    BY <2>1, <2>2, <2>3
<1>7. ASSUME NEW c \in scenario.calls, HandleHangup(c)
      PROVE  \E p, S : /\ StopsOnly(r, p, S) /\ plugin' = [plugin EXCEPT !.iax2 = p]
                       /\ scenario' = scenario /\ \A s \in Sessions : s \in S => MayEnd(s)
  <2>1. PICK e \in Ends2(c) : /\ plugin' = [plugin EXCEPT !.iax2 = ReportIax2Hangup(r, e[1], e[2])]
                             /\ scenario' = scenario
    BY <1>7 DEF HandleHangup
  <2> DEFINE p == ReportIax2Hangup(r, e[1], e[2])
             S == {s \in All(r) : Unrenamed(r) =>
                     {r.sessions[s].src, r.sessions[s].dest} \cap {e[1], e[2]} # {}}
  <2>2. e[1] \in Endpoints /\ e[2] \in Endpoints /\ {e[1], e[2]} = {c.invitor, c.invitee}
    BY CallEndpoints DEF Ends2
  <2>3. StopsOnly(r, p, S)
    BY <1>1, <2>2, HangupKeeps
  <2>4. Unrenamed(r) <=> NoneRenamed
    BY <1>1 DEF Unrenamed, NoneRenamed
  <2>5. \A s \in Sessions : s \in S => MayEnd(s)
    BY <1>7, <2>2, <2>4 DEF MayEnd, Parties
  <2>6. QED
    BY <2>1, <2>3, <2>5
<1>8. ASSUME NEW c \in scenario.calls, HandleVoice(c)
      PROVE  \E p, S : /\ StopsOnly(r, p, S) /\ plugin' = [plugin EXCEPT !.iax2 = p]
                       /\ scenario' = scenario /\ \A s \in Sessions : s \in S => MayEnd(s)
  <2>1. PICK e \in Ends2(c), full \in BOOLEAN, duplicate \in BOOLEAN :
          /\ plugin' = [plugin EXCEPT !.iax2 = ReportIax2Packet(r, e[1], e[2][1], full, duplicate)]
          /\ scenario' = scenario
    BY <1>8 DEF HandleVoice
  <2> DEFINE p == ReportIax2Packet(r, e[1], e[2][1], full, duplicate)
             S == {s \in All(r) : r.sessions[s].state # "up"}
  <2>2. e[1] \in Endpoints /\ e[2][1] \in Addresses
    BY CallEndpoints DEF Ends2, Addresses
  <2>3. StopsOnly(r, p, S)
    BY <1>1, <2>2, PacketKeeps
  <2>4. \A s \in Sessions : s \in S => MayEnd(s)
    BY DEF MayEnd
  <2>5. QED
    BY <2>1, <2>3, <2>4
<1>9. ASSUME NEW s \in 1..MaxIax2Sessions, FallSilent(s)
      PROVE  \E p, S : /\ StopsOnly(r, p, S) /\ plugin' = [plugin EXCEPT !.iax2 = p]
                       /\ scenario' = scenario /\ \A t \in Sessions : t \in S => MayEnd(t)
  <2> DEFINE y == [r.sessions[s] EXCEPT !.expired = TRUE]
             p == [r EXCEPT !.sessions[s] = y]
  <2>1. s \in All(r) /\ r.sessions[s] \in SessionType /\ ~r.sessions[s].dismissed
    BY <1>1, <1>9 DEF FallSilent, All, Iax2Type, RegistryType
  <2>2. /\ y \in SessionType /\ y.src = r.sessions[s].src /\ y.dest = r.sessions[s].dest
        /\ y.dismissed = r.sessions[s].dismissed /\ y.renamed = r.sessions[s].renamed
        /\ y.stopped = r.sessions[s].stopped /\ y.started = r.sessions[s].started
    BY <2>1 DEF SessionType
  <2>3. plugin' = [plugin EXCEPT !.iax2 = p] /\ scenario' = scenario
    BY <1>9 DEF FallSilent
  <2> HIDE DEF y
  <2>4. StopsOnly(r, p, {})
    BY <1>1, <2>1, <2>2, ChangeKeeps
  <2>5. QED
    BY <2>3, <2>4
<1>10. ASSUME Hoover
       PROVE  \E p, S : /\ StopsOnly(r, p, S) /\ plugin' = [plugin EXCEPT !.iax2 = p]
                        /\ scenario' = scenario /\ \A s \in Sessions : s \in S => MayEnd(s)
  <2>1. StopsOnly(r, HooverIax2(r), {s \in All(r) : r.sessions[s].expired})
    BY <1>1, HooverKeeps
  <2>2. \A s \in Sessions : s \in {t \in All(r) : r.sessions[t].expired} => MayEnd(s)
    BY DEF MayEnd
  <2>3. QED
    BY <1>10, <2>1, <2>2 DEF Hoover
<1>11. ASSUME EndOfReplay
       PROVE  \E p, S : /\ StopsOnly(r, p, S) /\ plugin' = [plugin EXCEPT !.iax2 = p]
                        /\ scenario' = scenario /\ \A s \in Sessions : s \in S => MayEnd(s)
  <2>1. StopsOnly(r, StopAllIax2(r), All(r))
    BY <1>1, StopAllKeeps
  <2>2. \A s \in Sessions : s \in All(r) => MayEnd(s)
    BY <1>11 DEF MayEnd, EndOfReplay
  <2>3. QED
    BY <1>11, <2>1, <2>2 DEF EndOfReplay
<1>12. ASSUME NEW p, NEW S, StopsOnly(r, p, S), plugin' = [plugin EXCEPT !.iax2 = p],
              scenario' = scenario, \A s \in Sessions : s \in S => MayEnd(s)
       PROVE  /\ Iax2Inv'
              /\ \A s \in Sessions :
                   plugin'.iax2.sessions[s].stopped => r.sessions[s].stopped \/ MayEnd(s)
  BY <1>12, RegistryStep
<1>13. QED
  BY <1>2, <1>3, <1>4, <1>5, <1>6, <1>7, <1>8, <1>9, <1>10, <1>11, <1>12 DEF Next

\* The indexes of the IAX2 sessions lead to what is recorded, so that a hang-up
\* or the clean-up ends it, and to nothing that was stopped.
THEOREM Iax2Reachability == Spec => []Iax2IndexesTrue
<1>1. Init => Iax2Inv
  BY NoSessionsTrue DEF Init, Iax2Inv, PluginRecord
<1>2. Iax2Inv /\ [Next]_vars => Iax2Inv'
  BY Iax2Step
<1>3. Iax2Inv => Iax2IndexesTrue
  <2> SUFFICES ASSUME Iax2Inv, NoneRenamed
               PROVE  RecordingIsReachable /\ NoDeadIax2Mapped
    BY DEF Iax2IndexesTrue
  <2> DEFINE r == plugin.iax2
  <2>1. Iax2Type(r) /\ Iax2True(r) /\ All(r) = Sessions /\ Unrenamed(r)
    BY DEF Iax2Inv, Sessions, All, NoneRenamed, Unrenamed
  <2>2. RecordingIsReachable
    BY <2>1 DEF RecordingIsReachable, Recording, Iax2True
  <2>3. NoDeadIax2Mapped
    <3>1. ASSUME NEW e \in Endpoints, NEW s \in Sessions, s \in {r.bySrc[e], r.byDest[e]}
          PROVE  ~r.sessions[s].dismissed
      <4>1. s # 0
        BY DEF Sessions
      <4>2. QED
        BY <2>1, <3>1, <4>1, FoundSession
    <3>2. QED
      BY <3>1 DEF NoDeadIax2Mapped
  <2>4. QED
    BY <2>2, <2>3
<1>4. QED
  BY <1>1, <1>2, <1>3, PTL DEF Spec

\* Only a hang-up of a party, silence or the end of a replay ends the recording
\* of a call that is up.
THEOREM Iax2UpRecordingSurvives == Spec => UpRecordingSurvives
<1>1. Init => Iax2Inv
  BY NoSessionsTrue DEF Init, Iax2Inv, PluginRecord
<1>2. Iax2Inv /\ [Next]_vars => Iax2Inv'
  BY Iax2Step
<1>3. ASSUME Iax2Inv, [Next]_vars
      PROVE  [\A s \in Sessions :
               Recording(s) /\ plugin.iax2.sessions[s].state = "up" /\ NoneRenamed
                 /\ plugin'.iax2.sessions[s].stopped
               => \/ plugin.iax2.sessions[s].expired \/ scenario.pcapReplay
                  \/ \E c \in scenario.calls :
                       HandleHangup(c) /\ Parties(s) \cap {c.invitor, c.invitee} # {}]_vars
  BY <1>3, Iax2Step DEF MayEnd, Recording
<1>4. QED
  BY <1>1, <1>2, <1>3, PTL DEF Spec, UpRecordingSurvives
-----------------------------------------------------------------------------
(* Sums.  A fold adds up the numbers f[i] in whatever order; total[S] is   *)
(* the sum of those with i in S, in any order.                             *)

LEMMA LeastNat ==
  ASSUME NEW S \in SUBSET Nat, S # {}
  PROVE  \E least \in S : \A j \in S : least <= j
<1>1. PICK least \in S : \A j \in S : ~ (<<j, least>> \in OpToRel(<, Nat))
  BY NatLessThanWellFounded, WFMin
<1>2. ASSUME NEW j \in S
      PROVE  least <= j
  <2>1. <<j, least>> \in Nat \X Nat /\ <<j, least>>[1] = j /\ <<j, least>>[2] = least
    OBVIOUS
  <2>2. ~ (j < least)
    BY <1>1, <2>1, Zenon DEF OpToRel
  <2>3. QED
    BY <2>2
<1>3. QED
  BY <1>2

IsTotal(total, f, S) ==
  /\ total \in [SUBSET S -> Nat] /\ total[{}] = 0
  /\ \A T \in SUBSET S : \A x \in T : total[T] = total[T \ {x}] + f[x]

LEMMA TotalExists ==
  ASSUME NEW n \in Nat, NEW f \in [1..n -> Nat]
  PROVE  \E total : IsTotal(total, f, 1..n)
<1> DEFINE Bad == {m \in 0..n : ~ \E total : IsTotal(total, f, 1..m)}
<1>1. ASSUME NEW m \in Bad, \A k \in Bad : m <= k
      PROVE  FALSE
  <2>1. CASE m = 0
    <3> DEFINE total == [T \in SUBSET (1..0) |-> 0]
    <3>1. IsTotal(total, f, 1..0)
      BY DEF IsTotal
    <3>2. QED
      BY <2>1, <3>1
  <2>2. CASE m # 0
    <3>1. m \in 1..n /\ m - 1 \in 0..n /\ m - 1 \notin Bad
      BY <1>1, <2>2
    <3>2. PICK before : IsTotal(before, f, 1..(m - 1))
      BY <3>1
    <3> DEFINE total == [T \in SUBSET (1..m) |->
                           IF m \in T THEN before[T \ {m}] + f[m] ELSE before[T]]
    <3>3. \A T \in SUBSET (1..m) : T \ {m} \in SUBSET (1..(m - 1)) /\ (m \notin T => T \ {m} = T)
      BY <3>1
    <3>4. f[m] \in Nat /\ \A U \in SUBSET (1..(m - 1)) : before[U] \in Nat
      BY <3>1, <3>2 DEF IsTotal
    <3>5. \A T \in SUBSET (1..m) : before[T \ {m}] \in Nat /\ before[T \ {m}] + f[m] \in Nat
      BY <3>3, <3>4
    <3>6. /\ total \in [SUBSET (1..m) -> Nat]
          /\ \A T \in SUBSET (1..m) : /\ m \in T => total[T] = before[T \ {m}] + f[m]
                                      /\ m \notin T => total[T] = before[T \ {m}]
      <4>1. \A T \in SUBSET (1..m) : m \notin T => before[T] = before[T \ {m}]
        BY <3>3
      <4>2. \A T \in SUBSET (1..m) :
              (IF m \in T THEN before[T \ {m}] + f[m] ELSE before[T]) \in Nat
        BY <3>5, <4>1
      <4>3. QED
        BY <4>1, <4>2
    <3> HIDE DEF total
    <3>7. total[{}] = 0
      <4>1. {} \ {m} = {} /\ m \notin {} /\ {} \in SUBSET (1..m)
        OBVIOUS
      <4>2. QED
        BY <3>2, <3>6, <4>1 DEF IsTotal
    <3>8. ASSUME NEW T \in SUBSET (1..m), NEW x \in T
          PROVE  total[T] = total[T \ {x}] + f[x]
      <4>1. T \ {x} \in SUBSET (1..m)
        OBVIOUS
      <4>2. CASE x = m
        <5>1. (T \ {x}) \ {m} = T \ {m} /\ m \in T /\ m \notin T \ {x}
          BY <4>2
        <5>2. total[T] = before[T \ {m}] + f[m]
          BY <3>6, <5>1
        <5>3. total[T \ {x}] = before[T \ {m}]
          BY <3>6, <4>1, <5>1
        <5>4. QED
          BY <4>2, <5>2, <5>3
      <4>3. CASE x # m
        <5> DEFINE U == T \ {m}
                   V == (T \ {x}) \ {m}
        <5>1. /\ V = U \ {x} /\ x \in U /\ x \in 1..m /\ U \in SUBSET (1..(m - 1))
              /\ (m \in T <=> m \in T \ {x})
          BY <3>3, <4>3
        <5> HIDE DEF U, V
        <5>2. before[U] = before[V] + f[x]
          BY <3>2, <5>1 DEF IsTotal
        <5>3. f[x] \in Nat /\ before[V] \in Nat
          <6>1. V \in SUBSET (1..(m - 1)) /\ x \in 1..n
            BY <3>1, <5>1
          <6>2. QED
            BY <3>4, <6>1
        <5> USE DEF U, V
        <5>4. /\ m \in T => total[T] = before[U] + f[m]
              /\ m \notin T => total[T] = before[U]
          BY <3>6
        <5>5. /\ m \in T => total[T \ {x}] = before[V] + f[m]
              /\ m \notin T => total[T \ {x}] = before[V]
          BY <3>6, <4>1, <5>1
        <5> HIDE DEF U, V
        <5>6. QED
          BY <3>4, <5>2, <5>3, <5>4, <5>5
      <4>4. QED
        BY <4>2, <4>3
    <3>9. IsTotal(total, f, 1..m)
      BY <3>6, <3>7, <3>8 DEF IsTotal
    <3>10. QED
      BY <3>9
  <2>3. QED
    BY <2>1, <2>2
<1>2. Bad \in SUBSET Nat
  OBVIOUS
<1>3. Bad = {}
  BY <1>1, <1>2, LeastNat
<1>4. QED
  BY <1>3

Adds(g, f, S) ==
  /\ g[{}] = 0
  /\ \A T \in SUBSET S : T # {} =>
       \E x \in T : g[T \ {x}] \in Nat => g[T] = g[T \ {x}] + f[x]

\* What takes some number after the other from a set is the total.
LEMMA TotalUnique ==
  ASSUME NEW n \in Nat, NEW f \in [1..n -> Nat], NEW total, IsTotal(total, f, 1..n),
         NEW g, Adds(g, f, 1..n)
  PROVE  \A T \in SUBSET (1..n) : g[T] = total[T]
<1> DEFINE Bad == {T \in SUBSET (1..n) : g[T] # total[T]}
           Sizes == {Cardinality(T) : T \in Bad}
<1>1. \A T \in SUBSET (1..n) : IsFiniteSet(T) /\ Cardinality(T) \in Nat
  <2>1. IsFiniteSet(1..n)
    BY FS_Interval
  <2>2. QED
    BY <2>1, FS_Subset, FS_CardinalityType
<1>2. Sizes \in SUBSET Nat
  BY <1>1
<1>3. ASSUME Sizes # {}
      PROVE  FALSE
  <2>1. PICK T \in Bad : \A U \in Bad : Cardinality(T) <= Cardinality(U)
    <3>1. PICK least \in Sizes : \A k \in Sizes : least <= k
      BY <1>2, <1>3, LeastNat
    <3>2. QED
      BY <3>1
  <2>2. T # {}
    BY DEF IsTotal, Adds
  <2>3. PICK x \in T : g[T \ {x}] \in Nat => g[T] = g[T \ {x}] + f[x]
    BY <2>2 DEF Adds
  <2>4. T \ {x} \in SUBSET (1..n) /\ Cardinality(T \ {x}) = Cardinality(T) - 1
    BY <1>1, FS_RemoveElement
  <2>5. g[T \ {x}] = total[T \ {x}]
    BY <1>1, <2>1, <2>4
  <2>6. g[T] = total[T]
    BY <2>3, <2>4, <2>5 DEF IsTotal
  <2>7. QED
    BY <2>6
<1>4. QED
  BY <1>3

\* The two folds of the modules: the lengths of fragments, and a sequence of numbers.
LEMMA SizeIsTotal ==
  ASSUME NEW n \in Nat, NEW s, DOMAIN s = 1..n, NEW f \in [1..n -> Nat],
         \A i \in 1..n : f[i] = s[i].len, NEW total, IsTotal(total, f, 1..n)
  PROVE  Size(s) = total[1..n]
<1> DEFINE Eq(g) == g = [T \in SUBSET (1..n) |->
                          IF T = {} THEN 0
                          ELSE g[T \ {CHOOSE x \in T : TRUE}] + s[CHOOSE x \in T : TRUE].len]
           iter == CHOOSE g : Eq(g)
<1>1. Size(s) = iter[1..n]
  BY DEF Size, FoldSeq, FoldFunction, FoldFunctionOnSet, MapThenFoldSet
<1>2. Eq(total)
  <2>1. \A T \in SUBSET (1..n) :
          total[T] = IF T = {} THEN 0
                     ELSE total[T \ {CHOOSE x \in T : TRUE}] + s[CHOOSE x \in T : TRUE].len
    BY DEF IsTotal
  <2>2. QED
    BY <2>1 DEF IsTotal
<1>3. Eq(iter)
  BY <1>2, ZenonT(60)
<1> HIDE DEF iter
<1>4. Adds(iter, f, 1..n)
  <2>1. iter[{}] = 0
    BY <1>3
  <2>2. ASSUME NEW T \in SUBSET (1..n), T # {}
        PROVE  \E x \in T : iter[T \ {x}] \in Nat => iter[T] = iter[T \ {x}] + f[x]
    <3> DEFINE x == CHOOSE x \in T : TRUE
    <3>1. x \in T
      BY <2>2
    <3>2. iter[T] = iter[T \ {x}] + s[x].len
      BY <1>3, <2>2
    <3>3. QED
      BY <3>1, <3>2
  <2>3. QED
    BY <2>1, <2>2 DEF Adds
<1>5. iter[1..n] = total[1..n]
  <2> HIDE DEF Eq
  <2>1. \A T \in SUBSET (1..n) : iter[T] = total[T]
    BY <1>4, TotalUnique
  <2>2. QED
    BY <2>1
<1>6. QED
  BY <1>1, <1>5

LEMMA FoldIsTotal ==
  ASSUME NEW n \in Nat, NEW s \in [1..n -> Nat], NEW total, IsTotal(total, s, 1..n)
  PROVE  FoldSeq(+, 0, s) = total[1..n]
<1> DEFINE Eq(g) == g = [T \in SUBSET (1..n) |->
                          IF T = {} THEN 0
                          ELSE s[CHOOSE x \in T : TRUE] + g[T \ {CHOOSE x \in T : TRUE}]]
           iter == CHOOSE g : Eq(g)
<1>1. FoldSeq(+, 0, s) = iter[1..n]
  BY DEF FoldSeq, FoldFunction, FoldFunctionOnSet, MapThenFoldSet
<1>2. Eq(total)
  <2>1. ASSUME NEW T \in SUBSET (1..n)
        PROVE  total[T] = IF T = {} THEN 0
                          ELSE s[CHOOSE x \in T : TRUE] + total[T \ {CHOOSE x \in T : TRUE}]
    <3> DEFINE x == CHOOSE x \in T : TRUE
    <3>1. T # {} => x \in T /\ x \in 1..n /\ T \ {x} \in SUBSET (1..n)
      OBVIOUS
    <3> HIDE DEF x
    <3>2. T # {} => total[T] = s[x] + total[T \ {x}]
      <4>1. T # {} => total[T] = total[T \ {x}] + s[x]
        BY <3>1 DEF IsTotal
      <4>2. T # {} => total[T \ {x}] \in Nat /\ s[x] \in Nat
        BY <3>1 DEF IsTotal
      <4>3. QED
        BY <4>1, <4>2
    <3>3. QED
      BY <3>2 DEF x, IsTotal
  <2>2. QED
    BY <2>1 DEF IsTotal
<1>3. Eq(iter)
  BY <1>2
<1> HIDE DEF iter
<1>4. Adds(iter, s, 1..n)
  <2>1. iter[{}] = 0
    BY <1>3
  <2>2. ASSUME NEW T \in SUBSET (1..n), T # {}
        PROVE  \E x \in T : iter[T \ {x}] \in Nat => iter[T] = iter[T \ {x}] + s[x]
    <3> DEFINE x == CHOOSE x \in T : TRUE
    <3>1. x \in T /\ s[x] \in Nat
      BY <2>2
    <3>2. iter[T] = s[x] + iter[T \ {x}]
      BY <1>3, <2>2
    <3> HIDE DEF x
    <3>3. iter[T \ {x}] \in Nat => iter[T] = iter[T \ {x}] + s[x]
      BY <3>1, <3>2
    <3>4. QED
      BY <3>1, <3>3
  <2>3. QED
    BY <2>1, <2>2 DEF Adds
<1>5. iter[1..n] = total[1..n]
  <2> HIDE DEF Eq
  <2>1. \A T \in SUBSET (1..n) : iter[T] = total[T]
    BY <1>4, TotalUnique
  <2>2. QED
    BY <2>1
<1>6. QED
  BY <1>1, <1>5

\* A total of a function is one of its restrictions.
LEMMA TotalOfPart ==
  ASSUME NEW n \in Nat, NEW f \in [1..n -> Nat], NEW total, IsTotal(total, f, 1..n),
         NEW k \in 0..n, NEW g \in [1..k -> Nat], \A i \in 1..k : g[i] = f[i]
  PROVE  IsTotal([T \in SUBSET (1..k) |-> total[T]], g, 1..k)
<1> DEFINE part == [T \in SUBSET (1..k) |-> total[T]]
<1>1. SUBSET (1..k) \subseteq SUBSET (1..n)
  OBVIOUS
<1>2. part \in [SUBSET (1..k) -> Nat] /\ part[{}] = 0
  BY <1>1 DEF IsTotal
<1>3. ASSUME NEW T \in SUBSET (1..k), NEW x \in T
      PROVE  part[T] = part[T \ {x}] + g[x]
  <2>1. T \in SUBSET (1..n) /\ T \ {x} \in SUBSET (1..k) /\ x \in 1..k
    BY <1>1
  <2>2. total[T] = total[T \ {x}] + f[x]
    BY <2>1 DEF IsTotal
  <2>3. QED
    BY <2>1, <2>2
<1>4. QED
  BY <1>2, <1>3 DEF IsTotal

\* The sizes of the beginnings of a sequence of fragments.
LEMMA SizeOfPrefixes ==
  ASSUME NEW F, \A f \in F : f.len \in Nat, NEW s \in Seq(F)
  PROVE  /\ Size(SubSeq(s, 1, 0)) = 0
         /\ \A k \in 0..Len(s) : Size(SubSeq(s, 1, k)) \in Nat
         /\ \A k \in 1..Len(s) :
              Size(SubSeq(s, 1, k)) = Size(SubSeq(s, 1, k - 1)) + s[k].len
<1> DEFINE n == Len(s)
           f == [i \in 1..n |-> s[i].len]
<1>1. n \in Nat /\ DOMAIN s = 1..n /\ \A i \in 1..n : s[i] \in F
  OBVIOUS
<1>2. f \in [1..n -> Nat] /\ \A i \in 1..n : f[i] = s[i].len
  BY <1>1
<1> HIDE DEF f, n
<1>3. PICK total : IsTotal(total, f, 1..n)
  BY <1>1, <1>2, TotalExists
<1>4. ASSUME NEW k \in 0..n
      PROVE  Size(SubSeq(s, 1, k)) = total[1..k]
  <2> DEFINE g == [i \in 1..k |-> s[i].len]
             t == SubSeq(s, 1, k)
             part == [T \in SUBSET (1..k) |-> total[T]]
  <2>1. k \in Nat /\ DOMAIN t = 1..k /\ \A i \in 1..k : t[i] = s[i] /\ i \in 1..n
    BY <1>1 DEF n
  <2>2. g \in [1..k -> Nat] /\ \A i \in 1..k : g[i] = f[i] /\ g[i] = t[i].len
    BY <1>1, <1>2, <2>1
  <2> HIDE DEF g, t
  <2>3. IsTotal(part, g, 1..k)
    BY <1>1, <1>2, <1>3, <2>2, TotalOfPart, ZenonT(60)
  <2>4. part[1..k] = total[1..k]
    OBVIOUS
  <2> HIDE DEF part
  <2>5. Size(t) = part[1..k]
    BY <2>1, <2>2, <2>3, SizeIsTotal, SMTT(30)
  <2>6. QED
    BY <2>4, <2>5 DEF t
<1>5. \A k \in 0..n : 1..k \in SUBSET (1..n) /\ total[1..k] \in Nat
  BY <1>1, <1>3 DEF IsTotal
<1>6. total[1..0] = 0
  BY <1>3 DEF IsTotal
<1>7. ASSUME NEW k \in 1..n
      PROVE  total[1..k] = total[1..(k - 1)] + f[k]
  <2>1. (1..k) \ {k} = 1..(k - 1) /\ k \in 1..k /\ 1..k \in SUBSET (1..n)
    BY <1>1
  <2>2. total[1..k] = total[(1..k) \ {k}] + f[k]
    BY <1>3, <2>1 DEF IsTotal
  <2>3. QED
    BY <2>1, <2>2
<1>8. \A k \in 1..n : k \in 0..n /\ k - 1 \in 0..n
  BY <1>1
<1>9. Size(SubSeq(s, 1, 0)) = 0
  BY <1>1, <1>4, <1>6
<1>10. \A k \in 0..n : Size(SubSeq(s, 1, k)) \in Nat
  BY <1>4, <1>5
<1>11. \A k \in 1..n : Size(SubSeq(s, 1, k)) = Size(SubSeq(s, 1, k - 1)) + s[k].len
  BY <1>2, <1>4, <1>7, <1>8
<1>12. QED
  BY <1>9, <1>10, <1>11 DEF n

\* The sums of the beginnings of a sequence of numbers.
SumTo(s, k) == FoldSeq(+, 0, SubSeq(s, 1, k))

LEMMA SumOfPrefixes ==
  ASSUME NEW s \in Seq(Nat)
  PROVE  /\ SumTo(s, 0) = 0
         /\ \A k \in 0..Len(s) : SumTo(s, k) \in Nat
         /\ \A k \in 1..Len(s) :
              SumTo(s, k) = SumTo(s, k - 1) + s[k]
<1> DEFINE n == Len(s)
<1>1. n \in Nat /\ s \in [1..n -> Nat]
  OBVIOUS
<1> HIDE DEF n
<1>2. PICK total : IsTotal(total, s, 1..n)
  BY <1>1, TotalExists
<1>3. ASSUME NEW k \in 0..n
      PROVE  SumTo(s, k) = total[1..k]
  <2> DEFINE t == SubSeq(s, 1, k)
             part == [T \in SUBSET (1..k) |-> total[T]]
  <2>1. k \in Nat /\ t \in [1..k -> Nat] /\ \A i \in 1..k : t[i] = s[i]
    <3>1. t \in Seq(Nat) /\ Len(t) = k /\ \A i \in 1..k : t[i] = s[i]
      BY <1>1 DEF n
    <3> HIDE DEF t
    <3>2. QED
      BY <1>1, <3>1
  <2> HIDE DEF t
  <2>2. IsTotal(part, t, 1..k)
    BY <1>1, <1>2, <2>1, TotalOfPart
  <2>3. part[1..k] = total[1..k]
    OBVIOUS
  <2> HIDE DEF part
  <2>4. FoldSeq(+, 0, t) = part[1..k]
    BY <2>1, <2>2, FoldIsTotal
  <2>5. QED
    BY <2>3, <2>4 DEF t, SumTo
<1>4. \A k \in 0..n : 1..k \in SUBSET (1..n) /\ total[1..k] \in Nat
  BY <1>1, <1>2 DEF IsTotal
<1>5. total[1..0] = 0
  BY <1>2 DEF IsTotal
<1>6. ASSUME NEW k \in 1..n
      PROVE  total[1..k] = total[1..(k - 1)] + s[k]
  <2>1. (1..k) \ {k} = 1..(k - 1) /\ k \in 1..k /\ 1..k \in SUBSET (1..n)
    BY <1>1
  <2>2. total[1..k] = total[(1..k) \ {k}] + s[k]
    BY <1>2, <2>1 DEF IsTotal
  <2>3. QED
    BY <2>1, <2>2
<1>7. \A k \in 1..n : k \in 0..n /\ k - 1 \in 0..n
  BY <1>1
<1>8. SumTo(s, 0) = 0
  BY <1>1, <1>3, <1>5
<1>9. \A k \in 0..n : SumTo(s, k) \in Nat
  BY <1>3, <1>4
<1>10. \A k \in 1..n : SumTo(s, k) = SumTo(s, k - 1) + s[k]
  BY <1>3, <1>6, <1>7
<1>11. QED
  BY <1>8, <1>9, <1>10 DEF n

-----------------------------------------------------------------------------
(* Reassembly                                                              *)

FragmentType(n, t) ==
  [id : PacketIds, off : Nat, len : Nat \ {0}, last : BOOLEAN,
   datagram : {d.name : d \in scenario.datagrams}, n : 1..n, at : 0..t]

\* The parts of NothingStale and NoHole that speak of one packet.
Fresh(p) ==
  \A f \in ToSet(p) :
    \/ \A g \in ToSet(p) : g.n >= f.n
    \/ \E g \in ToSet(p) : g.n < f.n /\ f.at - g.at < 2 * TimeoutSec

Whole(p) ==
  /\ p[1].off = 0 /\ p[Len(p)].last
  /\ \A k \in 1..(Len(p) - 1) : p[k + 1].off = p[k].off + p[k].len

\* What is kept of a datagram, with fragments of F.
EntryType(F) ==
  [ordered : Seq(F), finalSize : Nat, currentSize : Nat,
   drop : BOOLEAN, complete : BOOLEAN, lastUpdate : Nat]

Incomplete(e, id, F) ==
  /\ e \in EntryType(F) /\ ~e.drop /\ ~e.complete
  /\ e.ordered # << >>
  /\ \A f \in ToSet(e.ordered) : f.id = id
  /\ e.currentSize = Size(e.ordered)
  /\ e.finalSize # 0 => \E f \in ToSet(e.ordered) : f.last /\ e.finalSize = f.off + f.len
  /\ Fresh(e.ordered)
  /\ \E f \in ToSet(e.ordered) : f.at = e.lastUpdate

ArrivedInv ==
  /\ IsFiniteSet(arrived) /\ now \in Nat
  /\ arrived \subseteq FragmentType(Cardinality(arrived), now)
  /\ \A f, g \in arrived : f.n = g.n => f = g

\* A map with fragments of F, at time t.
MapOk(map, F, t) ==
  /\ map = [byId |-> map.byId, lastCheck |-> map.lastCheck]
  /\ map.byId = [id \in PacketIds |-> map.byId[id]]
  /\ map.lastCheck \in 0..t
  /\ \A id \in PacketIds : LET e == map.byId[id] IN
       \/ e = NoFragments
       \/ Incomplete(e, id, F) /\ map.lastCheck < e.lastUpdate + TimeoutSec

MapInv == MapOk(plugin.map, arrived, now)

\* What was put together before the map is as it is.
AssembledOk(packets, map, F) ==
  /\ packets \in Seq(Seq(F))
  /\ \A i, j \in 1..Len(packets) : i # j => Arrivals(packets[i]) \cap Arrivals(packets[j]) = {}
  /\ \A i \in 1..Len(packets) : Fresh(packets[i]) /\ Whole(packets[i])
  /\ \A id \in PacketIds : \A i \in 1..Len(packets) :
       Arrivals(map.byId[id].ordered) \cap Arrivals(packets[i]) = {}

AssembledInv == AssembledOk(assembled, plugin.map, arrived)

ReassemblyInv == scenario \in Scenarios /\ PluginRecord /\ ArrivedInv /\ MapInv /\ AssembledInv

\* An element is put at its place in a sequence.
LEMMA Inserted ==
  ASSUME NEW F, NEW s \in Seq(F), NEW k \in 1..(Len(s) + 1), NEW f \in F
  PROVE  LET t == InsertAt(s, k, f) IN
           /\ t \in Seq(F) /\ Len(t) = Len(s) + 1 /\ t[k] = f
           /\ \A i \in 1..Len(s) : i < k => t[i] = s[i]
           /\ \A i \in 1..Len(s) : i >= k => t[i + 1] = s[i]
           /\ ToSet(t) = ToSet(s) \cup {f}
<1> DEFINE n == Len(s)
           before == SubSeq(s, 1, k - 1)
           after == SubSeq(s, k, n)
           t == InsertAt(s, k, f)
<1>1. /\ before \in Seq(F) /\ Len(before) = k - 1 /\ \A i \in 1..(k - 1) : before[i] = s[i]
      /\ after \in Seq(F) /\ Len(after) = n + 1 - k
      /\ \A i \in 1..(n + 1 - k) : after[i] = s[i + k - 1]
  OBVIOUS
<1>2. t = (before \o <<f>>) \o after
  BY DEF InsertAt
<1> HIDE DEF before, after, t
<1>3. /\ t \in Seq(F) /\ Len(t) = n + 1 /\ t[k] = f
      /\ \A i \in 1..(k - 1) : t[i] = s[i]
      /\ \A i \in 1..(n + 1 - k) : t[k + i] = s[i + k - 1]
  <2> DEFINE u == before \o <<f>>
  <2>1. /\ u \in Seq(F) /\ Len(u) = k /\ u[k] = f
        /\ \A i \in 1..(k - 1) : u[i] = before[i]
    <3> DEFINE one == <<f>>
    <3>1. one \in Seq(F) /\ Len(one) = 1 /\ one[1] = f
      OBVIOUS
    <3> HIDE DEF one
    <3>2. u \in Seq(F) /\ Len(u) = (k - 1) + 1 /\ k \in Nat /\ k > k - 1
      BY <1>1, <3>1 DEF one
    <3>3. u[k] = one[k - (k - 1)]
      BY <1>1, <3>1, <3>2 DEF one
    <3>4. \A i \in 1..(k - 1) : u[i] = before[i]
      BY <1>1, <3>1, <3>2 DEF one
    <3>5. k - (k - 1) = 1 /\ (k - 1) + 1 = k
      OBVIOUS
    <3>6. QED
      BY <3>1, <3>2, <3>3, <3>4, <3>5
  <2> HIDE DEF u
  <2>2. t = u \o after
    BY <1>2 DEF u
  <2>3. t \in Seq(F) /\ Len(t) = k + (n + 1 - k)
    BY <1>1, <2>1, <2>2
  <2>4. /\ \A i \in 1..k : t[i] = u[i]
        /\ \A i \in 1..(n + 1 - k) : t[k + i] = after[i]
    BY <1>1, <2>1, <2>2
  <2>5. k + (n + 1 - k) = n + 1 /\ k \in 1..k /\ \A i \in 1..(k - 1) : i \in 1..k
    OBVIOUS
  <2>6. QED
    BY <1>1, <2>1, <2>3, <2>4, <2>5
<1>4. \A i \in 1..n : i < k => t[i] = s[i]
  BY <1>3
<1>5. ASSUME NEW i \in 1..n, i >= k
      PROVE  t[i + 1] = s[i]
  <2>1. i + 1 - k \in 1..(n + 1 - k) /\ k + (i + 1 - k) = i + 1 /\ (i + 1 - k) + k - 1 = i
    BY <1>5
  <2>2. QED
    BY <1>3, <2>1
<1>6. ToSet(t) = ToSet(s) \cup {f}
  <2>1. ASSUME NEW i \in 1..(n + 1)
        PROVE  t[i] \in ToSet(s) \cup {f}
    <3>1. CASE i < k
      BY <1>4, <3>1 DEF ToSet
    <3>2. CASE i = k
      BY <1>3, <3>2
    <3>3. CASE i > k
      <4>1. i - 1 \in 1..n /\ i - 1 >= k /\ (i - 1) + 1 = i
        BY <3>3
      <4>2. t[i] = s[i - 1]
        BY <1>5, <4>1
      <4>3. QED
        BY <4>1, <4>2 DEF ToSet
    <3>4. QED
      BY <3>1, <3>2, <3>3
  <2>2. ASSUME NEW i \in 1..n
        PROVE  s[i] \in ToSet(t)
    <3>1. DOMAIN t = 1..(n + 1) /\ i \in DOMAIN t /\ i + 1 \in DOMAIN t
      BY <1>3
    <3>2. t[i] \in ToSet(t) /\ t[i + 1] \in ToSet(t)
      BY <3>1 DEF ToSet
    <3>3. t[i] = s[i] \/ t[i + 1] = s[i]
      BY <1>4, <1>5
    <3>4. QED
      BY <3>2, <3>3
  <2>3. f \in ToSet(t)
    BY <1>3 DEF ToSet
  <2>4. QED
    BY <1>3, <2>1, <2>2, <2>3, SMTT(30) DEF ToSet
<1>7. QED
  BY <1>3, <1>4, <1>5, <1>6 DEF t

LEMMA SizeOfInserted ==
  ASSUME NEW F, \A g \in F : g.len \in Nat,
         NEW s \in Seq(F), NEW k \in 1..(Len(s) + 1), NEW f \in F
  PROVE  /\ Size(InsertAt(s, k, f)) = Size(s) + f.len
         /\ Size(s) \in Nat
<1> DEFINE n == Len(s)
           t == InsertAt(s, k, f)
           S(i) == Size(SubSeq(s, 1, i))
           T(i) == Size(SubSeq(t, 1, i))
           Bad == {j \in 0..(n + 1) : ~ (/\ j < k => T(j) = S(j)
                                         /\ j >= k => T(j) = S(j - 1) + f.len)}
<1>1. /\ t \in Seq(F) /\ Len(t) = n + 1 /\ t[k] = f /\ n \in Nat
      /\ \A i \in 1..n : i < k => t[i] = s[i]
      /\ \A i \in 1..n : i >= k => t[i + 1] = s[i]
  BY Inserted
<1> HIDE DEF t
<1>2. /\ S(0) = 0 /\ \A i \in 0..n : S(i) \in Nat
      /\ \A i \in 1..n : S(i) = S(i - 1) + s[i].len
  BY SizeOfPrefixes
<1>3. /\ T(0) = 0 /\ \A i \in 0..(n + 1) : T(i) \in Nat
      /\ \A i \in 1..(n + 1) : T(i) = T(i - 1) + t[i].len
  BY <1>1, SizeOfPrefixes
<1>4. \A i \in 1..n : s[i].len \in Nat
  OBVIOUS
<1>5. f.len \in Nat
  OBVIOUS
<1> HIDE DEF S, T
<1>6. ASSUME NEW j \in Bad, \A i \in Bad : j <= i
      PROVE  FALSE
  <2>1. CASE j = 0
    BY <1>2, <1>3, <2>1
  <2>2. CASE j # 0
    <3>1. j \in 1..(n + 1) /\ j - 1 \in 0..(n + 1) /\ j - 1 \notin Bad
      BY <1>1, <1>6, <2>2
    <3>2. T(j) = T(j - 1) + t[j].len
      BY <1>3, <3>1
    <3>3. CASE j < k
      <4>1. j \in 1..n /\ j - 1 < k
        BY <1>1, <3>1, <3>3
      <4>2. T(j - 1) = S(j - 1) /\ t[j] = s[j] /\ S(j) = S(j - 1) + s[j].len
        BY <1>1, <1>2, <3>1, <3>3, <4>1
      <4>3. QED
        BY <3>2, <3>3, <4>2
    <3>4. CASE j = k
      BY <1>1, <3>1, <3>2, <3>4
    <3>5. CASE j > k
      <4>1. j - 1 \in 1..n /\ (j - 1) + 1 = j /\ j - 1 >= k
        BY <1>1, <3>1, <3>5
      <4>2. T(j - 1) = S((j - 1) - 1) + f.len /\ t[j] = s[j - 1]
        BY <1>1, <3>1, <4>1
      <4>3. S(j - 1) = S((j - 1) - 1) + s[j - 1].len /\ S((j - 1) - 1) \in Nat
        BY <1>2, <4>1
      <4>4. T(j) = S(j - 1) + f.len
        BY <1>4, <1>5, <3>2, <4>1, <4>2, <4>3
      <4>5. QED
        BY <3>5, <4>4
    <3>6. QED
      BY <3>1, <3>3, <3>4, <3>5
  <2>3. QED
    BY <2>1, <2>2
<1>7. Bad \in SUBSET Nat
  BY <1>1
<1>8. Bad = {}
  BY <1>6, <1>7, LeastNat
<1>9. T(n + 1) = S(n) + f.len
  BY <1>1, <1>8
<1>10. T(n + 1) = Size(t) /\ S(n) = Size(s)
  <2>1. SubSeq(t, 1, n + 1) = t /\ SubSeq(s, 1, n) = s
    BY <1>1
  <2>2. QED
    BY <2>1 DEF S, T
<1>11. QED
  BY <1>1, <1>2, <1>9, <1>10 DEF t

Fragments(F) ==
  \A f \in F : f.off \in Nat /\ f.len \in Nat \ {0} /\ f.last \in BOOLEAN
               /\ f.n \in Nat /\ f.at \in Nat

\* What the parts of a packet that is put together have in common.
Complete2(p, id, F) ==
  p \in Seq(F) /\ p # << >> /\ (\A f \in ToSet(p) : f.id = id) /\ Fresh(p) /\ Whole(p)

\* The sequence that is tested for completeness has no hole, and ends with a fragment
\* that is a last one.
LEMMA SequentialIsWhole ==
  ASSUME NEW F, Fragments(F), NEW p \in Seq(F), p # << >>, Sequential(p),
         NEW f \in ToSet(p), f.last, Size(p) = f.off + f.len
  PROVE  Whole(p)
<1> DEFINE n == Len(p)
           S(i) == Size(SubSeq(p, 1, i))
<1>1. n \in Nat \ {0} /\ DOMAIN p = 1..n /\ \A i \in 1..n : p[i] \in F /\ p[i].len \in Nat \ {0}
  BY DEF Fragments
<1>2. /\ S(0) = 0 /\ \A i \in 0..n : S(i) \in Nat
      /\ \A i \in 1..n : S(i) = S(i - 1) + p[i].len
  BY SizeOfPrefixes DEF Fragments
<1>3. \A i \in 1..n : p[i].off = S(i - 1)
  BY DEF Sequential
<1>4. S(n) = Size(p)
  <2>1. SubSeq(p, 1, n) = p
    BY <1>1
  <2>2. QED
    BY <2>1
<1> HIDE DEF S, n
<1>5. PICK k \in 1..n : f = p[k]
  BY <1>1 DEF ToSet
<1>6. S(n) = S(k)
  BY <1>2, <1>3, <1>4, <1>5
<1>7. k = n
  <2> SUFFICES ASSUME k # n PROVE FALSE
    OBVIOUS
  <2>0. k < n
    BY <1>1
  <2> DEFINE Bad == {i \in (k + 1)..n : S(i) <= S(k)}
  <2>1. ASSUME NEW i \in Bad, \A j \in Bad : i <= j
        PROVE  FALSE
    <3>1. S(i) = S(i - 1) + p[i].len /\ p[i].len \in Nat \ {0} /\ S(i - 1) \in Nat /\ S(k) \in Nat
      BY <1>1, <1>2
    <3>2. CASE i = k + 1
      BY <3>1, <3>2
    <3>3. CASE i # k + 1
      <4>1. i - 1 \in (k + 1)..n /\ i - 1 \notin Bad
        <5>1. i - 1 \in (k + 1)..n /\ i - 1 < i
          BY <1>1, <3>3
        <5> HIDE DEF Bad
        <5>2. i - 1 \notin Bad
          <6>1. Bad \subseteq Nat
            BY <1>1 DEF Bad
          <6>2. QED
            BY <2>1, <5>1, <6>1
        <5>3. QED
          BY <5>1, <5>2
      <4>2. S(i - 1) > S(k)
        BY <3>1, <4>1
      <4>3. QED
        BY <3>1, <4>2
    <3>4. QED
      BY <3>2, <3>3
  <2>2. n \in Bad /\ Bad \in SUBSET Nat
    BY <1>1, <1>2, <1>6, <2>0
  <2>3. QED
    BY <2>1, <2>2, LeastNat
<1>8. p[n].last
  BY <1>5, <1>7
<1>9. \A i \in 1..(n - 1) : p[i + 1].off = p[i].off + p[i].len
  <2> SUFFICES ASSUME NEW i \in 1..(n - 1)
               PROVE  p[i + 1].off = p[i].off + p[i].len
    OBVIOUS
  <2>1. i \in 1..n /\ i + 1 \in 1..n /\ (i + 1) - 1 = i
    BY <1>1
  <2>2. QED
    BY <1>2, <1>3, <2>1
<1>10. p[1].off = 0
  BY <1>1, <1>2, <1>3
<1>11. QED
  BY <1>8, <1>9, <1>10 DEF Whole, n

\* A fragment that came last is fresh among those of which one came recently.
LEMMA AddedIsFresh ==
  ASSUME NEW F, Fragments(F), NEW p \in Seq(F), Fresh(p), NEW f \in F,
         \A g \in ToSet(p) : g.n < f.n,
         p = << >> \/ \E g \in ToSet(p) : f.at - g.at < 2 * TimeoutSec,
         NEW q, ToSet(q) = ToSet(p) \cup {f}
  PROVE  Fresh(q)
<1>1. ToSet(p) \subseteq F /\ (p = << >> => ToSet(p) = {})
  BY DEF ToSet
<1>2. \A g \in F : g.n \in Nat
  BY DEF Fragments
<1>3. ASSUME NEW h \in ToSet(q)
      PROVE  \/ \A g \in ToSet(q) : g.n >= h.n
             \/ \E g \in ToSet(q) : g.n < h.n /\ h.at - g.at < 2 * TimeoutSec
  <2>1. CASE h = f
    BY <1>1, <1>2, <2>1
  <2>2. CASE h # f
    <3>1. h \in ToSet(p) /\ h.n < f.n /\ h.n \in Nat /\ f.n \in Nat
      BY <1>1, <1>2, <2>2
    <3>2. QED
      BY <1>1, <1>2, <3>1 DEF Fresh
  <2>3. QED
    BY <2>1, <2>2
<1>4. QED
  BY <1>3 DEF Fresh

\* A record of the map with three fields changed.
LEMMA EntryWith ==
  ASSUME NEW F, NEW e \in EntryType(F), NEW p, NEW z, NEW c
  PROVE  [e EXCEPT !.ordered = p, !.finalSize = z, !.currentSize = c] =
           [ordered |-> p, finalSize |-> z, currentSize |-> c,
            drop |-> e.drop, complete |-> e.complete, lastUpdate |-> e.lastUpdate]
<1> DEFINE e1 == [e EXCEPT !.ordered = p]
           e2 == [e1 EXCEPT !.finalSize = z]
<1>1. e1 = [ordered |-> p, finalSize |-> e.finalSize, currentSize |-> e.currentSize,
            drop |-> e.drop, complete |-> e.complete, lastUpdate |-> e.lastUpdate]
  BY DEF EntryType
<1> HIDE DEF e1
<1>2. e2 = [ordered |-> p, finalSize |-> z, currentSize |-> e.currentSize,
            drop |-> e.drop, complete |-> e.complete, lastUpdate |-> e.lastUpdate]
  BY <1>1
<1> HIDE DEF e2
<1>3. [e2 EXCEPT !.currentSize = c] =
        [ordered |-> p, finalSize |-> z, currentSize |-> c,
         drop |-> e.drop, complete |-> e.complete, lastUpdate |-> e.lastUpdate]
  BY <1>2
<1>4. QED
  BY <1>3 DEF e1, e2

\* a is e after f: f is a retransmission, is kept, is too much or completes the packet.
Adding(a, e, f, id, F, t) ==
  \/ a = e /\ Incomplete(e, id, F)
  \/ /\ Incomplete(a, id, F) /\ a.lastUpdate = t
     /\ ToSet(a.ordered) = ToSet(e.ordered) \cup {f}
  \/ a.drop /\ ~a.complete
  \/ /\ a.complete /\ Complete2(a.ordered, id, F)
     /\ ToSet(a.ordered) = ToSet(e.ordered) \cup {f}

LEMMA AddedFragment ==
  ASSUME NEW F, Fragments(F), NEW t \in Nat, NEW id, NEW f \in F, f.id = id, f.at = t,
         NEW e, e = NewFragments
                \/ (Incomplete(e, id, F) /\ t < e.lastUpdate + 2 * TimeoutSec),
         \A g \in ToSet(e.ordered) : g.n < f.n
  PROVE  Adding(addFragment(e, f, t), e, f, id, F, t)
<1> DEFINE before == Cardinality({i \in 1..Len(e.ordered) : e.ordered[i].off < f.off})
           p == InsertAt(e.ordered, before + 1, f)
           final == IF f.last THEN f.off + f.len ELSE e.finalSize
           size == e.currentSize + f.len
           added == [e EXCEPT !.ordered = p, !.finalSize = final, !.currentSize = size]
           a == addFragment(e, f, t)
<1>1. /\ e \in EntryType(F) /\ ~e.drop /\ ~e.complete
      /\ e.ordered \in Seq(F) /\ e.finalSize \in Nat /\ e.currentSize \in Nat
      /\ e.lastUpdate \in Nat
      /\ e.currentSize = Size(e.ordered)
      /\ e.finalSize # 0 => \E g \in ToSet(e.ordered) : g.last /\ e.finalSize = g.off + g.len
      /\ Fresh(e.ordered) /\ \A g \in ToSet(e.ordered) : g.id = id
      /\ e.ordered = << >> \/ \E g \in ToSet(e.ordered) : f.at - g.at < 2 * TimeoutSec
      /\ e.ordered = << >> => e = NewFragments
  <2>1. CASE e = NewFragments
    <3>1. Size(<< >>) = 0
      <4>1. << >> \in Seq(F) /\ SubSeq(<< >>, 1, 0) = << >>
        OBVIOUS
      <4>2. QED
        BY <4>1, SizeOfPrefixes DEF Fragments
    <3>2. ToSet(<< >>) = {}
      BY DEF ToSet
    <3>3. QED
      BY <2>1, <3>1, <3>2 DEF NewFragments, Fresh, EntryType
  <2>2. CASE Incomplete(e, id, F) /\ t < e.lastUpdate + 2 * TimeoutSec
    <3>1. PICK g \in ToSet(e.ordered) : g.at = e.lastUpdate
      BY <2>2 DEF Incomplete
    <3>2. f.at - g.at < 2 * TimeoutSec
      BY <2>2, <3>1, TimeoutAssumption DEF Incomplete, EntryType, Fragments
    <3>3. QED
      BY <2>2, <3>1, <3>2 DEF Incomplete, EntryType
  <2>3. QED
    BY <2>1, <2>2
<1>2. before + 1 \in 1..(Len(e.ordered) + 1)
  <2>1. IsFiniteSet(1..Len(e.ordered)) /\ Cardinality(1..Len(e.ordered)) = Len(e.ordered)
    <3>1. Len(e.ordered) \in Nat
      BY <1>1
    <3>2. \A n \in Nat : IsFiniteSet(1..n) /\ Cardinality(1..n) = n
      BY FS_Interval
    <3>3. QED
      BY <3>1, <3>2
  <2>2. before \in Nat /\ before <= Len(e.ordered)
    <3> DEFINE I == {i \in 1..Len(e.ordered) : e.ordered[i].off < f.off}
    <3>1. I \in SUBSET (1..Len(e.ordered))
      OBVIOUS
    <3> HIDE DEF I
    <3>2. IsFiniteSet(I) /\ Cardinality(I) <= Len(e.ordered)
      BY <2>1, <3>1, FS_Subset
    <3>3. Cardinality(I) \in Nat
      BY <3>2, FS_CardinalityType
    <3>4. QED
      BY <3>2, <3>3 DEF I
  <2>3. QED
    BY <1>1, <2>2
<1> HIDE DEF before
<1>3. /\ p \in Seq(F) /\ Len(p) = Len(e.ordered) + 1 /\ p # << >>
      /\ ToSet(p) = ToSet(e.ordered) \cup {f}
      /\ Size(p) = size
  <2>1. \A g \in F : g.len \in Nat
    BY DEF Fragments
  <2>2. p \in Seq(F) /\ Len(p) = Len(e.ordered) + 1 /\ ToSet(p) = ToSet(e.ordered) \cup {f}
    BY <1>1, <1>2, Inserted
  <2>3. Size(p) = Size(e.ordered) + f.len
    BY <1>1, <1>2, <2>1, SizeOfInserted
  <2> HIDE DEF p
  <2>4. p # << >>
    BY <1>1, <2>2
  <2>5. QED
    BY <1>1, <2>2, <2>3, <2>4
<1> HIDE DEF p
<1>4. final \in Nat /\ size \in Nat \ {0}
  BY <1>1 DEF Fragments
<1>5. final # 0 => \E g \in ToSet(p) : g.last /\ final = g.off + g.len
  BY <1>1, <1>3
<1> HIDE DEF final, size
<1>6. /\ added = [ordered |-> p, finalSize |-> final, currentSize |-> size,
                  drop |-> e.drop, complete |-> e.complete, lastUpdate |-> e.lastUpdate]
      /\ ~e.drop /\ ~e.complete
  <2>1. e \in EntryType(F) /\ ~e.drop /\ ~e.complete
    BY <1>1
  <2>2. added = [ordered |-> p, finalSize |-> final, currentSize |-> size,
                 drop |-> e.drop, complete |-> e.complete, lastUpdate |-> e.lastUpdate]
    BY <2>1, EntryWith, Zenon
  <2>3. QED
    BY <2>1, <2>2
<1>7. Fresh(p) /\ \A g \in ToSet(p) : g.id = id
  <2>1. Fresh(p)
    BY <1>1, <1>3, AddedIsFresh
  <2>2. QED
    BY <1>1, <1>3, <2>1
<1>8. \/ a = e /\ \E i \in 1..Len(e.ordered) : e.ordered[i].off = f.off
      \/ a = [added EXCEPT !.drop = TRUE]
      \/ a = [added EXCEPT !.complete = TRUE, !.lastUpdate = t] /\ size = final /\ Sequential(p)
      \/ a = [added EXCEPT !.lastUpdate = t]
  <2>1. added.finalSize = final /\ added.currentSize = size /\ added.ordered = p
    BY <1>6
  <2>2. a = IF \E i \in 1..Len(e.ordered) : e.ordered[i].off = f.off THEN e
            ELSE IF final # 0 /\ size > final
            THEN [added EXCEPT !.drop = TRUE]
            ELSE IF size = final
            THEN IF Sequential(p)
                 THEN [added EXCEPT !.complete = TRUE, !.lastUpdate = t]
                 ELSE [added EXCEPT !.drop = TRUE]
            ELSE [added EXCEPT !.lastUpdate = t]
    BY <2>1 DEF addFragment, p, before, final, size
  <2>3. QED
    BY <2>2
<1> HIDE DEF a, added
<1>9. CASE a = e /\ \E i \in 1..Len(e.ordered) : e.ordered[i].off = f.off
  BY <1>9 DEF a, NewFragments, Adding
<1>10. CASE a = [added EXCEPT !.drop = TRUE]
  BY <1>6, <1>10 DEF a, Adding
<1>11. CASE a = [added EXCEPT !.complete = TRUE, !.lastUpdate = t] /\ size = final /\ Sequential(p)
  <2>1. a.complete /\ a.ordered = p
    BY <1>6, <1>11
  <2>2. Whole(p)
    BY <1>3, <1>4, <1>5, <1>11, SequentialIsWhole
  <2>3. QED
    BY <1>3, <1>7, <2>1, <2>2 DEF Complete2, a, Adding
<1>12. CASE a = [added EXCEPT !.lastUpdate = t]
  <2>1. a = [ordered |-> p, finalSize |-> final, currentSize |-> size,
             drop |-> e.drop, complete |-> e.complete, lastUpdate |-> t]
    BY <1>6, <1>12
  <2>2. \E g \in ToSet(p) : g.at = t
    BY <1>3
  <2>3. a \in EntryType(F)
    <3>1. e.drop \in BOOLEAN /\ e.complete \in BOOLEAN
      BY <1>1 DEF EntryType
    <3>2. QED
      BY <1>3, <1>4, <2>1, <3>1 DEF EntryType
  <2>4. /\ a.ordered = p /\ a.finalSize = final /\ a.currentSize = size /\ a.lastUpdate = t
        /\ ~a.drop /\ ~a.complete
    BY <1>6, <2>1
  <2>5. Incomplete(a, id, F)
    BY <1>3, <1>4, <1>5, <1>7, <2>2, <2>3, <2>4 DEF Incomplete
  <2>6. QED
    BY <1>3, <2>4, <2>5 DEF a, Adding
<1>13. QED
  BY <1>8, <1>9, <1>10, <1>11, <1>12

LEMMA MoreFragments ==
  ASSUME NEW F, NEW G, F \subseteq G, NEW id, NEW e, Incomplete(e, id, F)
  PROVE  Incomplete(e, id, G)
<1>1. Seq(F) \subseteq Seq(G)
  OBVIOUS
<1>2. QED
  BY <1>1 DEF Incomplete, EntryType

\* What is found in the map when a fragment comes in.
Swept(map, id, t) ==
  IF Sweep(map, t).byId[id] = NoFragments THEN NewFragments ELSE Sweep(map, t).byId[id]

LEMMA SweptMap ==
  ASSUME NEW F, NEW t \in Nat, NEW map, MapOk(map, F, t)
  PROVE  /\ MapOk(Sweep(map, t), F, t)
         /\ \A id \in PacketIds :
              /\ Sweep(map, t).byId[id] \in {NoFragments, map.byId[id]}
              /\ Sweep(map, t).byId[id] # NoFragments =>
                   t < Sweep(map, t).byId[id].lastUpdate + 2 * TimeoutSec
<1>1. CASE t - map.lastCheck < TimeoutSec
  <2>1. Sweep(map, t) = map
    BY <1>1 DEF Sweep
  <2>2. \A id \in PacketIds : map.byId[id] # NoFragments =>
          t < map.byId[id].lastUpdate + 2 * TimeoutSec
    BY <1>1, TimeoutAssumption DEF MapOk, Incomplete, EntryType
  <2>3. QED
    BY <2>1, <2>2
<1>2. CASE ~ (t - map.lastCheck < TimeoutSec)
  <2> DEFINE byId == [id \in PacketIds |->
                        IF t - map.byId[id].lastUpdate >= TimeoutSec
                        THEN NoFragments ELSE map.byId[id]]
  <2>1. Sweep(map, t) = [byId |-> byId, lastCheck |-> t]
    BY <1>2 DEF Sweep
  <2>2. \A id \in PacketIds :
          /\ byId[id] \in {NoFragments, map.byId[id]}
          /\ byId[id] # NoFragments =>
               t - byId[id].lastUpdate < TimeoutSec /\ byId[id].lastUpdate \in Nat
    <3> SUFFICES ASSUME NEW id \in PacketIds
                 PROVE  /\ byId[id] \in {NoFragments, map.byId[id]}
                        /\ byId[id] # NoFragments =>
                             t - byId[id].lastUpdate < TimeoutSec /\ byId[id].lastUpdate \in Nat
      OBVIOUS
    <3>1. map.byId[id] # NoFragments => map.byId[id].lastUpdate \in Nat
      BY DEF MapOk, Incomplete, EntryType
    <3>2. \/ byId[id] = NoFragments
          \/ byId[id] = map.byId[id] /\ ~ (t - map.byId[id].lastUpdate >= TimeoutSec)
      OBVIOUS
    <3> HIDE DEF byId
    <3>3. QED
      BY <3>1, <3>2, TimeoutAssumption
  <2>3. byId = [id \in PacketIds |-> byId[id]]
    OBVIOUS
  <2> HIDE DEF byId
  <2>4. Sweep(map, t).byId = byId /\ Sweep(map, t).lastCheck = t
    BY <2>1
  <2>5. MapOk(Sweep(map, t), F, t)
    BY <2>1, <2>2, <2>3, <2>4, TimeoutAssumption DEF MapOk
  <2>6. QED
    BY <2>2, <2>4, <2>5, TimeoutAssumption
<1>3. QED
  BY <1>1, <1>2

\* A fragment comes in: h is what is done with it.
Handles(map, h, f, F, t) ==
  /\ MapOk(h.map, F \cup {f}, t)
  /\ \A id \in PacketIds :
       ToSet(h.map.byId[id].ordered) \subseteq ToSet(map.byId[id].ordered) \cup {f}
  /\ h.packet # << >> =>
       /\ Complete2(h.packet, f.id, F \cup {f})
       /\ ToSet(h.packet) \subseteq ToSet(map.byId[f.id].ordered) \cup {f}
       /\ h.map.byId[f.id] = NoFragments

LEMMA FragmentHandled ==
  ASSUME NEW F, NEW f, Fragments(F \cup {f}), NEW t \in Nat, f.id \in PacketIds, f.at = t,
         \A g \in F : g.n < f.n, NEW map, MapOk(map, F, t)
  PROVE  Handles(map, HandleIpFragment(map, f, t), f, F, t)
<1> DEFINE G == F \cup {f}
           swept == Sweep(map, t)
           found == Swept(map, f.id, t)
           e == addFragment(found, f, t)
           h == HandleIpFragment(map, f, t)
           next == [swept.byId EXCEPT ![f.id] = Kept(e)]
<1>1. /\ h.map = [swept EXCEPT !.byId = next]
      /\ h.packet = IF e.complete THEN e.ordered ELSE << >>
  BY DEF HandleIpFragment, Swept
<1>2. /\ MapOk(swept, F, t)
      /\ \A id \in PacketIds :
           /\ swept.byId[id] \in {NoFragments, map.byId[id]}
           /\ swept.byId[id] # NoFragments => t < swept.byId[id].lastUpdate + 2 * TimeoutSec
  BY SweptMap
<1>3. ToSet(NewFragments.ordered) = {} /\ ToSet(NoFragments.ordered) = {}
  <2>1. NewFragments.ordered = << >> /\ NoFragments.ordered = << >>
    BY DEF NewFragments, NoFragments
  <2>2. QED
    BY <2>1 DEF ToSet
<1>4. /\ found = NewFragments
         \/ (Incomplete(found, f.id, G) /\ t < found.lastUpdate + 2 * TimeoutSec)
      /\ ToSet(found.ordered) \subseteq ToSet(map.byId[f.id].ordered)
      /\ \A g \in ToSet(found.ordered) : g.n < f.n
  <2>1. CASE swept.byId[f.id] = NoFragments
    BY <1>3, <2>1 DEF Swept
  <2>2. CASE swept.byId[f.id] # NoFragments
    <3>1. /\ found = swept.byId[f.id] /\ found = map.byId[f.id]
          /\ Incomplete(found, f.id, F) /\ t < found.lastUpdate + 2 * TimeoutSec
      BY <1>2, <2>2 DEF Swept, MapOk
    <3>2. Incomplete(found, f.id, G)
      BY <3>1, MoreFragments
    <3>3. ToSet(found.ordered) \subseteq F
      BY <3>1 DEF Incomplete, EntryType, ToSet
    <3>4. QED
      BY <3>1, <3>2, <3>3
  <2>3. QED
    BY <2>1, <2>2
<1> HIDE DEF found
<1>5. \/ e = found /\ Incomplete(e, f.id, G)
      \/ /\ Incomplete(e, f.id, G) /\ e.lastUpdate = t
         /\ ToSet(e.ordered) = ToSet(found.ordered) \cup {f}
      \/ e.drop /\ ~e.complete
      \/ /\ e.complete /\ Complete2(e.ordered, f.id, G)
         /\ ToSet(e.ordered) = ToSet(found.ordered) \cup {f}
  <2>1. f \in G /\ Fragments(G)
    OBVIOUS
  <2> HIDE DEF G
  <2>2. Adding(e, found, f, f.id, G, t)
    BY <1>4, <2>1, AddedFragment
  <2>3. QED
    BY <2>2 DEF Adding
<1> HIDE DEF e
<1>6. \/ Kept(e) = NoFragments
      \/ Kept(e) = e /\ Incomplete(e, f.id, G)
  BY <1>5 DEF Kept
<1>7. Incomplete(e, f.id, G) => swept.lastCheck < e.lastUpdate + TimeoutSec
  <2>1. CASE e = found /\ Incomplete(e, f.id, G)
    <3>1. found # NewFragments
      BY <2>1 DEF Incomplete, NewFragments
    <3>2. found = swept.byId[f.id] /\ found # NoFragments
      BY <3>1 DEF found, Swept
    <3>3. QED
      BY <1>2, <2>1, <3>2 DEF MapOk
  <2>2. CASE e.lastUpdate = t
    BY <1>2, <2>2, TimeoutAssumption DEF MapOk
  <2>3. CASE e.drop \/ e.complete
    BY <2>3 DEF Incomplete
  <2>4. QED
    BY <1>5, <2>1, <2>2, <2>3
<1>8. /\ swept = [byId |-> swept.byId, lastCheck |-> swept.lastCheck]
      /\ swept.byId = [id \in PacketIds |-> swept.byId[id]]
  BY <1>2 DEF MapOk
<1> HIDE DEF swept
<1>9. /\ next = [id \in PacketIds |-> next[id]]
      /\ next[f.id] = Kept(e)
      /\ \A id \in PacketIds : id # f.id => next[id] = swept.byId[id]
  BY <1>8
<1> HIDE DEF next
<1>10. h.map = [byId |-> next, lastCheck |-> swept.lastCheck]
  BY <1>1, <1>8
<1>11. h.map.byId = next /\ h.map.lastCheck = swept.lastCheck
  BY <1>10
<1>12. ASSUME NEW id \in PacketIds
       PROVE  \/ next[id] = NoFragments
              \/ Incomplete(next[id], id, G) /\ swept.lastCheck < next[id].lastUpdate + TimeoutSec
  <2>1. CASE id = f.id
    BY <1>6, <1>7, <1>9, <2>1
  <2>2. CASE id # f.id
    <3>1. swept.byId[id] = NoFragments
          \/ (Incomplete(swept.byId[id], id, F)
              /\ swept.lastCheck < swept.byId[id].lastUpdate + TimeoutSec)
      BY <1>2 DEF MapOk
    <3>2. Incomplete(swept.byId[id], id, F) => Incomplete(swept.byId[id], id, G)
      BY MoreFragments
    <3>3. QED
      BY <1>9, <2>2, <3>1, <3>2
  <2>3. QED
    BY <2>1, <2>2
<1>13. MapOk(h.map, G, t)
  BY <1>2, <1>9, <1>10, <1>11, <1>12 DEF MapOk
<1>14. \A id \in PacketIds : ToSet(h.map.byId[id].ordered) \subseteq ToSet(map.byId[id].ordered) \cup {f}
  <2> SUFFICES ASSUME NEW id \in PacketIds
               PROVE  ToSet(next[id].ordered) \subseteq ToSet(map.byId[id].ordered) \cup {f}
    BY <1>11
  <2>1. CASE id = f.id
    <3>1. CASE Kept(e) = NoFragments
      BY <1>3, <1>9, <2>1, <3>1
    <3>2. CASE Kept(e) = e /\ Incomplete(e, f.id, G)
      <4>1. ToSet(e.ordered) \subseteq ToSet(found.ordered) \cup {f}
        BY <1>5, <3>2 DEF Incomplete
      <4>2. QED
        BY <1>4, <1>9, <2>1, <3>2, <4>1
    <3>3. QED
      BY <1>6, <3>1, <3>2
  <2>2. CASE id # f.id
    BY <1>2, <1>3, <1>9, <2>2
  <2>3. QED
    BY <2>1, <2>2
<1>15. ASSUME h.packet # << >>
       PROVE  /\ Complete2(h.packet, f.id, G)
              /\ ToSet(h.packet) \subseteq ToSet(map.byId[f.id].ordered) \cup {f}
              /\ h.map.byId[f.id] = NoFragments
  <2>1. e.complete /\ h.packet = e.ordered
    BY <1>1, <1>15
  <2>2. Complete2(e.ordered, f.id, G) /\ ToSet(e.ordered) = ToSet(found.ordered) \cup {f}
    BY <1>5, <2>1 DEF Incomplete
  <2>3. Kept(e) = NoFragments
    BY <2>1 DEF Kept
  <2>4. QED
    BY <1>4, <1>9, <1>11, <2>1, <2>2, <2>3
<1>16. QED
  BY <1>13, <1>14, <1>15 DEF Handles

LEMMA FragmentNotHandled ==
  ASSUME NEW F, NEW f, NEW t \in Nat, NEW map, MapOk(map, F, t)
  PROVE  Handles(map, [map |-> map, packet |-> << >>], f, F, t)
<1>1. \A id \in PacketIds : \A e : Incomplete(e, id, F) => Incomplete(e, id, F \cup {f})
  BY MoreFragments
<1>2. MapOk(map, F \cup {f}, t)
  BY <1>1 DEF MapOk
<1>3. QED
  BY <1>2 DEF Handles

\* f is the i-th fragment of d, and a new one.
Arrives(f, d, i) ==
  /\ f.id = d.id /\ f.id \in PacketIds /\ f.at = now
  /\ f.off = SumTo(d.fragments, i - 1) /\ f.len = d.fragments[i]
  /\ f.last = (i = Len(d.fragments)) /\ f.datagram = d.name
  /\ f.n = Cardinality(arrived) + 1 /\ \A g \in arrived : g.n < f.n
  /\ IsFiniteSet(arrived \cup {f})
  /\ Cardinality(arrived \cup {f}) = Cardinality(arrived) + 1
  /\ arrived \cup {f} \subseteq FragmentType(Cardinality(arrived) + 1, now)
  /\ Fragments(arrived \cup {f})
  /\ \A g, h \in arrived \cup {f} : g.n = h.n => g = h

LEMMA ArrivingFragment ==
  ASSUME scenario \in Scenarios, ArrivedInv,
         NEW d \in scenario.datagrams, NEW i \in 1..Len(d.fragments)
  PROVE  Arrives(Fragment(d, i), d, i)
<1> DEFINE f == Fragment(d, i)
           n == Cardinality(arrived)
<1>1. /\ d.id \in PacketIds /\ d.fragments \in Seq(Nat \ {0}) /\ d.fragments \in Seq(Nat)
      /\ d.fragments[i] \in Nat \ {0} /\ Len(d.fragments) \in Nat
  BY ScenarioTypes
<1>2. n \in Nat /\ now \in Nat
  BY FS_CardinalityType DEF ArrivedInv
<1>3. SumTo(d.fragments, i - 1) \in Nat
  BY <1>1, SumOfPrefixes
<1>4. /\ f.id = d.id /\ f.at = now /\ f.off = SumTo(d.fragments, i - 1)
      /\ f.len = d.fragments[i] /\ f.last = (i = Len(d.fragments)) /\ f.datagram = d.name
      /\ f.n = n + 1
  BY DEF Fragment, SumTo
<1>5. f \in FragmentType(n + 1, now)
  <2>1. f = [id |-> f.id, off |-> f.off, len |-> f.len, last |-> f.last,
             datagram |-> f.datagram, n |-> f.n, at |-> f.at]
    BY DEF Fragment
  <2> HIDE DEF f, n
  <2>2. /\ f.id \in PacketIds /\ f.off \in Nat /\ f.len \in Nat \ {0}
        /\ f.datagram \in {e.name : e \in scenario.datagrams} /\ f.last \in BOOLEAN
        /\ f.n \in 1..(n + 1) /\ f.at \in 0..now
    BY <1>1, <1>2, <1>3, <1>4
  <2>3. QED
    BY <2>1, <2>2 DEF FragmentType
<1> HIDE DEF f, n
<1>6. \A g \in arrived : g \in FragmentType(n + 1, now) /\ g.n \in 1..n
  <2>1. \A g \in FragmentType(n, now) : g \in FragmentType(n + 1, now) /\ g.n \in 1..n
    BY <1>2 DEF FragmentType
  <2>2. QED
    BY <2>1 DEF ArrivedInv, n
<1>7. \A g \in arrived : g.n < f.n
  BY <1>2, <1>4, <1>6
<1>8. IsFiniteSet(arrived \cup {f}) /\ Cardinality(arrived \cup {f}) = n + 1
  <2>1. f \notin arrived
    BY <1>2, <1>4, <1>7
  <2>2. QED
    BY <2>1, FS_AddElement DEF ArrivedInv, n
<1>9. arrived \cup {f} \subseteq FragmentType(n + 1, now)
  BY <1>5, <1>6
<1>10. Fragments(arrived \cup {f})
  <2>1. \A g \in FragmentType(n + 1, now) :
          g.off \in Nat /\ g.len \in Nat \ {0} /\ g.last \in BOOLEAN /\ g.n \in Nat /\ g.at \in Nat
    BY <1>2 DEF FragmentType
  <2>2. QED
    BY <1>9, <2>1 DEF Fragments
<1>11. \A g, h \in arrived \cup {f} : g.n = h.n => g = h
  BY <1>2, <1>4, <1>6 DEF ArrivedInv
<1>12. QED
  BY <1>1, <1>4, <1>7, <1>8, <1>9, <1>10, <1>11 DEF f, n, Arrives

\* The arrivals of a sequence of fragments are those of its elements.
LEMMA ArrivalsOfElements ==
  ASSUME NEW F, NEW p \in Seq(F)
  PROVE  Arrivals(p) = {f.n : f \in ToSet(p)}
  BY DEF Arrivals, ToSet

LEMMA EntryOrdered ==
  ASSUME NEW map, NEW F, NEW t, MapOk(map, F, t), NEW id \in PacketIds
  PROVE  map.byId[id].ordered \in Seq(F)
<1>1. NoFragments.ordered = << >>
  BY DEF NoFragments, NewFragments
<1>2. map.byId[id] = NoFragments \/ Incomplete(map.byId[id], id, F)
  BY DEF MapOk
<1>3. \A e : Incomplete(e, id, F) => e.ordered \in Seq(F)
  BY DEF Incomplete, EntryType
<1>4. << >> \in Seq(F)
  OBVIOUS
<1>5. QED
  BY <1>1, <1>2, <1>3, <1>4

\* What is done with a fragment is done properly.
LEMMA AssembledStep ==
  ASSUME ReassemblyInv, NEW f, f.id \in PacketIds,
         \A g \in arrived : g.n < f.n /\ g.n \in Nat, f.n \in Nat,
         NEW h, Handles(plugin.map, h, f, arrived, now),
         \A g1, g2 \in arrived \cup {f} : g1.n = g2.n => g1 = g2,
         NEW packets,
         packets = IF h.packet = << >> THEN assembled ELSE Append(assembled, h.packet)
  PROVE  AssembledOk(packets, h.map, arrived \cup {f})
<1> DEFINE G == arrived \cup {f}
           m == Len(assembled)
           old(id) == plugin.map.byId[id].ordered
           new(id) == h.map.byId[id].ordered
<1>1. /\ assembled \in Seq(Seq(arrived)) /\ assembled \in Seq(Seq(G)) /\ m \in Nat
      /\ \A i \in 1..m : assembled[i] \in Seq(arrived)
      /\ \A i, j \in 1..m : i # j => Arrivals(assembled[i]) \cap Arrivals(assembled[j]) = {}
      /\ \A i \in 1..m : Fresh(assembled[i]) /\ Whole(assembled[i])
      /\ \A id \in PacketIds : \A i \in 1..m : Arrivals(old(id)) \cap Arrivals(assembled[i]) = {}
  <2>1. assembled \in Seq(Seq(arrived))
    BY DEF ReassemblyInv, AssembledInv, AssembledOk
  <2>2. Seq(arrived) \subseteq Seq(G)
    OBVIOUS
  <2>3. assembled \in Seq(Seq(G))
    BY <2>1, <2>2
  <2>4. m \in Nat /\ \A i \in 1..m : assembled[i] \in Seq(arrived)
    BY <2>1
  <2>5. QED
    BY <2>1, <2>3, <2>4 DEF ReassemblyInv, AssembledInv, AssembledOk
<1>2. \A id \in PacketIds : old(id) \in Seq(arrived) /\ new(id) \in Seq(G)
  BY EntryOrdered DEF ReassemblyInv, MapInv, Handles
<1>3. \A i \in 1..m : f.n \notin Arrivals(assembled[i])
  <2> SUFFICES ASSUME NEW i \in 1..m, f.n \in Arrivals(assembled[i]) PROVE FALSE
    OBVIOUS
  <2>1. PICK k \in 1..Len(assembled[i]) : f.n = assembled[i][k].n
    BY DEF Arrivals
  <2>2. assembled[i][k] \in arrived
    BY <1>1
  <2>3. QED
    BY <2>1, <2>2
<1>4. ASSUME NEW p \in Seq(G), NEW id \in PacketIds, ToSet(p) \subseteq ToSet(old(id)) \cup {f}
      PROVE  \A i \in 1..m : Arrivals(p) \cap Arrivals(assembled[i]) = {}
  <2>1. Arrivals(p) \subseteq Arrivals(old(id)) \cup {f.n}
    BY <1>2, <1>4, ArrivalsOfElements
  <2>2. ASSUME NEW i \in 1..m
        PROVE  Arrivals(p) \cap Arrivals(assembled[i]) = {}
    <3>1. Arrivals(old(id)) \cap Arrivals(assembled[i]) = {} /\ f.n \notin Arrivals(assembled[i])
      BY <1>1, <1>3
    <3>2. QED
      BY <2>1, <3>1
  <2>3. QED
    BY <2>2
<1>5. \A id \in PacketIds : \A i \in 1..m : Arrivals(new(id)) \cap Arrivals(assembled[i]) = {}
  BY <1>2, <1>4 DEF Handles
<1>6. CASE h.packet = << >>
  BY <1>1, <1>5, <1>6 DEF AssembledOk
<1>7. CASE h.packet # << >>
  <2> DEFINE p == h.packet
  <2>1. /\ p \in Seq(G) /\ Fresh(p) /\ Whole(p) /\ \A g \in ToSet(p) : g.id = f.id
        /\ ToSet(p) \subseteq ToSet(old(f.id)) \cup {f} /\ h.map.byId[f.id] = NoFragments
    BY <1>7 DEF Handles, Complete2
  <2>2. \A i \in 1..m : Arrivals(p) \cap Arrivals(assembled[i]) = {}
    BY <1>4, <2>1
  <2>3. /\ packets \in Seq(Seq(G)) /\ Len(packets) = m + 1 /\ packets[m + 1] = p
        /\ \A i \in 1..m : packets[i] = assembled[i]
    BY <1>1, <1>7, <2>1
  <2> HIDE DEF p, m
  <2>4. ASSUME NEW id \in PacketIds
        PROVE  Arrivals(new(id)) \cap Arrivals(p) = {}
    <3>1. CASE id = f.id
      <4>1. new(id) = << >>
        BY <2>1, <3>1 DEF NoFragments, NewFragments
      <4>2. Arrivals(<< >>) = {}
        BY DEF Arrivals
      <4>3. QED
        BY <4>1, <4>2
    <3>2. CASE id # f.id
      <4> SUFFICES ASSUME NEW g1 \in ToSet(new(id)), NEW g2 \in ToSet(p), g1.n = g2.n
                   PROVE  FALSE
        BY <1>2, <2>1, ArrivalsOfElements, SMTT(30)
      <4>1. g1 \in G /\ g2 \in G
        BY <1>2, <2>1 DEF ToSet
      <4>2. g1 = g2
        BY <3>2, <4>1
      <4>3. g1.id = id
        <5>1. h.map.byId[id] # NoFragments
          BY DEF NoFragments, NewFragments, ToSet
        <5>2. QED
          BY <5>1 DEF Handles, MapOk, Incomplete
      <4>4. QED
        BY <2>1, <3>2, <4>2, <4>3
    <3>3. QED
      BY <3>1, <3>2
  <2>5. \A i \in 1..(m + 1) : i = m + 1 \/ i \in 1..m
    BY <1>1 DEF m
  <2>6. \A i, j \in 1..(m + 1) :
          i # j => Arrivals(packets[i]) \cap Arrivals(packets[j]) = {}
    BY <1>1, <2>2, <2>3, <2>5 DEF m
  <2>7. \A i \in 1..(m + 1) : Fresh(packets[i]) /\ Whole(packets[i])
    BY <1>1, <2>1, <2>3, <2>5 DEF m, p
  <2>8. \A id \in PacketIds : \A i \in 1..(m + 1) :
          Arrivals(new(id)) \cap Arrivals(packets[i]) = {}
    BY <1>5, <2>3, <2>4, <2>5 DEF m
  <2>9. QED
    BY <2>3, <2>6, <2>7, <2>8 DEF AssembledOk
<1>8. QED
  BY <1>6, <1>7

LEMMA ReassemblyStep ==
  ASSUME ReassemblyInv, [Next]_vars
  PROVE  ReassemblyInv'
<1> USE DEF history
<1>1. CASE /\ scenario' = scenario /\ arrived' = arrived /\ assembled' = assembled
           /\ now' = now /\ PluginRecord' /\ plugin'.map = plugin.map
  BY <1>1 DEF ReassemblyInv, ArrivedInv, FragmentType, MapInv, AssembledInv, AssembledOk
<1>2. CASE UNCHANGED vars
  BY <1>1, <1>2 DEF vars, ReassemblyInv, PluginRecord
<1>3. ASSUME NEW d \in scenario.datagrams, NEW i \in 1..Len(d.fragments), HandleDatagram(d, i)
      PROVE  ReassemblyInv'
  <2> DEFINE f == Fragment(d, i)
             n == Cardinality(arrived)
             reassembles == Fragmented(d) /\ d.tunnel = "none" /\ scenario.ipFragmentsReassemble
             idle == [map |-> plugin.map, packet |-> << >>]
             handled == IF reassembles THEN HandleIpFragment(plugin.map, f, now) ELSE idle
             h == IF Handled(d, i) THEN handled ELSE idle
  <2>1. /\ scenario \in Scenarios /\ ArrivedInv /\ now \in Nat /\ n \in Nat
        /\ MapOk(plugin.map, arrived, now) /\ PluginRecord
    BY FS_CardinalityType DEF ReassemblyInv, ArrivedInv, MapInv
  <2>2. /\ f.id \in PacketIds /\ f.at = now /\ f.n = n + 1
        /\ \A g \in arrived : g.n < f.n
        /\ IsFiniteSet(arrived \cup {f}) /\ Cardinality(arrived \cup {f}) = n + 1
        /\ arrived \cup {f} \subseteq FragmentType(n + 1, now)
        /\ Fragments(arrived \cup {f})
        /\ \A g, k \in arrived \cup {f} : g.n = k.n => g = k
    <3>1. Arrives(f, d, i)
      BY <2>1, ArrivingFragment
    <3>2. QED
      BY <3>1 DEF Arrives
  <2>3. /\ scenario' = scenario /\ now' = now /\ arrived' = arrived \cup {f}
        /\ plugin' = [plugin EXCEPT !.map = h.map]
        /\ assembled' = IF h.packet = << >> THEN assembled ELSE Append(assembled, h.packet)
    <3>1. idle.map = plugin.map /\ idle.packet = << >>
      OBVIOUS
    <3>2. CASE Handled(d, i)
      BY <1>3, <3>2 DEF HandleDatagram
    <3>3. CASE ~Handled(d, i)
      <4>1. plugin' = plugin /\ h = idle
        BY <1>3, <3>3 DEF HandleDatagram
      <4>2. plugin = [plugin EXCEPT !.map = plugin.map]
        BY <2>1 DEF PluginRecord
      <4>3. QED
        BY <1>3, <3>1, <3>3, <4>1, <4>2 DEF HandleDatagram
    <3>4. QED
      BY <3>2, <3>3
  <2>4. Handles(plugin.map, h, f, arrived, now)
    <3>1. Handles(plugin.map, idle, f, arrived, now)
      BY <2>1, FragmentNotHandled
    <3>2. Handles(plugin.map, HandleIpFragment(plugin.map, f, now), f, arrived, now)
      <4> HIDE DEF f
      <4>1. QED
        BY <2>1, <2>2, FragmentHandled
    <3>3. QED
      BY <3>1, <3>2
  <2> HIDE DEF f, h, n
  <2>5. plugin'.map = h.map /\ PluginRecord'
    <3>1. plugin' = [map |-> h.map, streams |-> plugin.streams, iax2 |-> plugin.iax2]
      BY <2>1, <2>3 DEF PluginRecord
    <3>2. QED
      BY <3>1 DEF PluginRecord
  <2>6. ArrivedInv'
    <3>1. \A k, u : FragmentType(k, u)' = FragmentType(k, u)
      BY <2>3 DEF FragmentType
    <3>2. IsFiniteSet(arrived') /\ Cardinality(arrived') = n + 1 /\ now' = now
          /\ arrived' \subseteq FragmentType(n + 1, now)
          /\ \A g, k \in arrived' : g.n = k.n => g = k
      BY <2>2, <2>3
    <3>3. QED
      BY <2>1, <3>1, <3>2 DEF ArrivedInv
  <2>7. MapInv'
    BY <2>3, <2>4, <2>5 DEF MapInv, Handles
  <2>8. AssembledInv'
    <3>1. \A g \in arrived : g.n \in Nat /\ g.n < f.n
      BY <2>2 DEF Fragments
    <3>2. f.n \in Nat
      BY <2>1, <2>2
    <3>3. AssembledOk(assembled', h.map, arrived \cup {f})
      BY <2>2, <2>3, <2>4, <3>1, <3>2, AssembledStep
    <3>4. QED
      BY <2>3, <2>5, <3>3 DEF AssembledInv
  <2>9. QED
    BY <2>1, <2>3, <2>5, <2>6, <2>7, <2>8 DEF ReassemblyInv
<1>4. CASE Tick
  <2>1. /\ scenario' = scenario /\ arrived' = arrived /\ assembled' = assembled
        /\ now' = now + 1 /\ plugin' = plugin
    BY <1>4 DEF Tick
  <2>2. ArrivedInv'
    <3>1. now \in Nat
      BY DEF ReassemblyInv, ArrivedInv
    <3>2. \A k \in Nat : FragmentType(k, now) \subseteq FragmentType(k, now')
      BY <2>1, <3>1 DEF FragmentType
    <3>3. Cardinality(arrived) \in Nat
      BY FS_CardinalityType DEF ReassemblyInv, ArrivedInv
    <3>4. FragmentType(Cardinality(arrived), now)' = FragmentType(Cardinality(arrived), now')
      BY <2>1 DEF FragmentType
    <3>5. QED
      BY <2>1, <3>1, <3>2, <3>3, <3>4 DEF ReassemblyInv, ArrivedInv
  <2>3. MapInv'
    BY <2>1 DEF ReassemblyInv, ArrivedInv, MapInv, MapOk
  <2>4. QED
    BY <2>1, <2>2, <2>3 DEF ReassemblyInv, PluginRecord, AssembledInv, AssembledOk
<1>5. ASSUME NEW conn \in scenario.conns, NEW from, NEW len, HandleSegment(conn, from, len)
      PROVE  ReassemblyInv'
  <2> DEFINE result == TrySipTcp(plugin.streams, [conn |-> conn, from |-> from, len |-> len], now)
  <2>1. /\ scenario' = scenario /\ plugin' = [plugin EXCEPT !.streams = result.streams]
        /\ arrived' = arrived /\ assembled' = assembled /\ now' = now
    BY <1>5 DEF HandleSegment
  <2> HIDE DEF result
  <2>2. PluginRecord' /\ plugin'.map = plugin.map
    BY <2>1 DEF ReassemblyInv, PluginRecord
  <2>3. QED
    BY <1>1, <2>1, <2>2
<1>6. ASSUME NEW r, plugin' = [plugin EXCEPT !.iax2 = r], UNCHANGED <<scenario, now, history>>
      PROVE  ReassemblyInv'
  <2>1. PluginRecord' /\ plugin'.map = plugin.map
    BY <1>6 DEF ReassemblyInv, PluginRecord
  <2>2. QED
    BY <1>1, <1>6, <2>1
<1>7. ASSUME NEW c \in scenario.calls, HandleSignalling(c) \/ HandleHangup(c) \/ HandleVoice(c)
      PROVE  ReassemblyInv'
  BY <1>6, <1>7 DEF HandleSignalling, HandleHangup, HandleVoice
<1>8. ASSUME NEW s \in 1..MaxIax2Sessions, FallSilent(s)
      PROVE  ReassemblyInv'
  <2>1. plugin' = [plugin EXCEPT !.iax2 = [@ EXCEPT !.sessions[s].expired = TRUE]]
    BY <1>8 DEF FallSilent
  <2>2. QED
    BY <1>6, <1>8, <2>1 DEF FallSilent
<1>9. CASE Hoover \/ EndOfReplay
  BY <1>6, <1>9 DEF Hoover, EndOfReplay
<1>10. QED
  BY <1>2, <1>3, <1>4, <1>5, <1>7, <1>8, <1>9 DEF Next

LEMMA ReassemblyInit ==
  ASSUME Init
  PROVE  ReassemblyInv
<1>1. PluginRecord /\ plugin.map = EmptyMap /\ now \in Nat
  BY TimeoutAssumption DEF Init, PluginRecord
<1>2. ArrivedInv
  BY <1>1, FS_EmptySet DEF Init, ArrivedInv
<1>3. MapInv
  <2>1. EmptyMap.byId = [id \in PacketIds |-> NoFragments] /\ EmptyMap.lastCheck = 0
    BY DEF EmptyMap
  <2>2. EmptyMap = [byId |-> EmptyMap.byId, lastCheck |-> EmptyMap.lastCheck]
    BY DEF EmptyMap
  <2>3. \A id \in PacketIds : EmptyMap.byId[id] = NoFragments
    BY <2>1
  <2>4. MapOk(EmptyMap, arrived, now)
    BY <1>1, <2>1, <2>2, <2>3 DEF MapOk
  <2>5. QED
    BY <1>1, <2>4 DEF MapInv
<1>4. AssembledInv
  BY DEF Init, AssembledInv, AssembledOk
<1>5. QED
  BY <1>1, <1>2, <1>3, <1>4 DEF Init, ReassemblyInv

\* What HandleIpFragment puts together has no hole, no fragment twice and none
\* that is too old.
THEOREM ReassemblyProper == Spec => []AssembledProperly
<1>1. Init => ReassemblyInv
  BY ReassemblyInit
<1>2. ReassemblyInv /\ [Next]_vars => ReassemblyInv'
  BY ReassemblyStep
<1>3. ReassemblyInv => AssembledProperly
  BY DEF ReassemblyInv, AssembledInv, AssembledOk, AssembledProperly, NothingTwice, NothingStale, NoHole, Fresh, Whole
<1>4. QED
  BY <1>1, <1>2, <1>3, PTL DEF Spec

-----------------------------------------------------------------------------
(* Datagrams that are reassembled and reported                             *)

\* Where fragment i of d begins; with one more than there are, where d ends.
Offset(d, i) == SumTo(d.fragments, i - 1)

IsFragment(f, d, i) ==
  /\ f.id = d.id /\ f.datagram = d.name
  /\ f.off = Offset(d, i) /\ f.len = d.fragments[i] /\ f.last = (i = Len(d.fragments))

\* The static part of the antecedent of Reassembled.
Reassemblable(d) ==
  /\ scenario.ipFragmentsReassemble /\ Fragmented(d) /\ d.tunnel = "none"
  /\ d.wanted /\ Detected(d.kind)
  /\ \A i \in 1..Len(d.fragments) : d.fragments[i] > TcpHeaderLength
  /\ \A other \in scenario.datagrams : other.id = d.id => other = d

Offsets(F) == {f.off : f \in F}
AllOffsets(d) == {Offset(d, i) : i \in 1..Len(d.fragments)}

SortedByOffset(p) == \A i, j \in 1..Len(p) : i < j => p[i].off < p[j].off

\* e has what came of d, which is not all; the end is known if it came.
Waits(e, d, F) ==
  /\ Offsets(F) = Offsets(ToSet(e.ordered)) /\ Offsets(F) # AllOffsets(d)
  /\ SortedByOffset(e.ordered)
  /\ (\E f \in ToSet(e.ordered) : f.last) => e.finalSize # 0

\* Some fragment of d is too old for the others.
TooLate(d) ==
  \/ \E f, g \in ArrivalsOf(d) : f.at - g.at >= TimeoutSec
  \/ /\ \E g \in ArrivalsOf(d) : now - g.at >= TimeoutSec
     /\ Offsets(ArrivalsOf(d)) # AllOffsets(d)

PartsInv == \A f \in arrived : \E d \in scenario.datagrams :
              \E i \in 1..Len(d.fragments) : IsFragment(f, d, i)

ReportedInv ==
  \A d \in scenario.datagrams : Reassemblable(d) =>
    d.name \in reported \/ Waits(plugin.map.byId[d.id], d, ArrivalsOf(d)) \/ TooLate(d)

DatagramInv == ReassemblyInv /\ PartsInv /\ ReportedInv

\* The fragments of a datagram follow one another.
LEMMA OffsetsRise ==
  ASSUME NEW d, d.fragments \in Seq(Nat \ {0})
  PROVE  LET m == Len(d.fragments) IN
           /\ Offset(d, 1) = 0
           /\ \A i \in 1..(m + 1) : Offset(d, i) \in Nat
           /\ \A i \in 1..m : Offset(d, i + 1) = Offset(d, i) + d.fragments[i]
           /\ \A i, j \in 1..(m + 1) : i < j => Offset(d, i) < Offset(d, j)
<1> DEFINE m == Len(d.fragments)
           O(i) == Offset(d, i)
<1>1. m \in Nat /\ d.fragments \in Seq(Nat) /\ \A i \in 1..m : d.fragments[i] \in Nat \ {0}
  OBVIOUS
<1>2. /\ SumTo(d.fragments, 0) = 0
      /\ \A k \in 0..m : SumTo(d.fragments, k) \in Nat
      /\ \A k \in 1..m : SumTo(d.fragments, k) = SumTo(d.fragments, k - 1) + d.fragments[k]
  BY <1>1, SumOfPrefixes
<1> HIDE DEF m
<1>3. O(1) = 0
  BY <1>2 DEF Offset
<1>4. \A i \in 1..(m + 1) : O(i) \in Nat
  <2> SUFFICES ASSUME NEW i \in 1..(m + 1) PROVE O(i) \in Nat
    OBVIOUS
  <2>1. i - 1 \in 0..m
    BY <1>1
  <2>2. QED
    BY <1>2, <2>1 DEF Offset
<1>5. \A i \in 1..m : O(i + 1) = O(i) + d.fragments[i]
  <2> SUFFICES ASSUME NEW i \in 1..m PROVE O(i + 1) = O(i) + d.fragments[i]
    OBVIOUS
  <2>1. (i + 1) - 1 = i
    BY <1>1
  <2>2. QED
    BY <1>2, <2>1 DEF Offset
<1> HIDE DEF O
<1>6. ASSUME NEW i \in 1..(m + 1), NEW j \in 1..(m + 1), i < j
      PROVE  O(i) < O(j)
  <2> DEFINE Bad == {k \in (i + 1)..(m + 1) : ~ (O(i) < O(k))}
  <2>1. ASSUME NEW k \in Bad, \A l \in Bad : k <= l
        PROVE  FALSE
    <3>1. /\ k - 1 \in 1..m /\ (k - 1) + 1 = k /\ k \in 1..(m + 1) /\ k - 1 \in 1..(m + 1)
          /\ k - 1 \in i..(m + 1) /\ k - 1 < k
      BY <1>1
    <3>2. O(k) = O(k - 1) + d.fragments[k - 1] /\ d.fragments[k - 1] \in Nat \ {0}
      BY <1>1, <1>5, <3>1
    <3>3. O(i) \in Nat /\ O(k - 1) \in Nat
      BY <1>4, <3>1
    <3>4. k - 1 = i \/ k - 1 \in (i + 1)..(m + 1)
      BY <3>1
    <3>5. O(i) <= O(k - 1)
      <4>1. CASE k - 1 = i
        BY <3>3, <4>1
      <4>2. CASE k - 1 \in (i + 1)..(m + 1)
        <5>1. k - 1 \notin Bad
          BY <2>1, <3>1
        <5>2. QED
          BY <3>3, <4>2, <5>1
      <4>3. QED
        BY <3>4, <4>1, <4>2
    <3>6. QED
      BY <3>2, <3>3, <3>5, SMTT(30)
  <2>2. Bad \in SUBSET Nat
    BY <1>1
  <2>3. Bad = {}
    BY <2>1, <2>2, LeastNat
  <2>4. j \in (i + 1)..(m + 1)
    BY <1>1, <1>6
  <2>5. QED
    BY <2>3, <2>4
<1>7. QED
  BY <1>3, <1>4, <1>5, <1>6 DEF m, O

\* A fragment is put behind those with a smaller offset.
LEMMA InsertedInOrder ==
  ASSUME NEW F, \A g \in F : g.off \in Nat, NEW s \in Seq(F), SortedByOffset(s), NEW f \in F,
         f.off \notin Offsets(ToSet(s))
  PROVE  LET k == Cardinality({i \in 1..Len(s) : s[i].off < f.off}) + 1 IN
           /\ k \in 1..(Len(s) + 1)
           /\ SortedByOffset(InsertAt(s, k, f))
<1> DEFINE n == Len(s)
           I == {i \in 1..n : s[i].off < f.off}
           J == {i \in 1..n : ~ (s[i].off < f.off)}
           k == Cardinality(I) + 1
           t == InsertAt(s, k, f)
<1>1. n \in Nat /\ DOMAIN s = 1..n /\ \A i \in 1..n : s[i] \in F /\ s[i].off \in Nat
  OBVIOUS
<1>2. \A i \in 1..n : s[i].off # f.off
  BY <1>1 DEF Offsets, ToSet
<1>3. \A i, j \in 1..n : i < j => s[i].off < s[j].off
  BY DEF SortedByOffset
<1>4. \E l \in 0..n : I = 1..l
  <2>1. CASE J = {}
    BY <1>1, <2>1
  <2>2. CASE J # {}
    <3>1. J \in SUBSET Nat
      BY <1>1
    <3>2. PICK j \in J : \A i \in J : j <= i
      BY <2>2, <3>1, LeastNat
    <3>3. ASSUME NEW i \in 1..n
          PROVE  s[i].off < f.off <=> i < j
      <4>1. CASE i < j
        BY <1>1, <3>2, <4>1
      <4>2. CASE i = j
        BY <3>2, <4>2
      <4>3. CASE i > j
        BY <1>1, <1>3, <3>2, <4>3
      <4>4. QED
        BY <1>1, <3>2, <4>1, <4>2, <4>3
    <3>4. I = 1..(j - 1) /\ j - 1 \in 0..n
      BY <1>1, <3>2, <3>3
    <3>5. QED
      BY <3>4
  <2>3. QED
    BY <2>1, <2>2
<1>5. PICK l \in 0..n : I = 1..l
  BY <1>4
<1>6. k = l + 1 /\ k \in 1..(n + 1) /\ l \in Nat
  <2>1. ASSUME NEW i \in Nat PROVE Cardinality(1..i) = i
    <3>1. 1 \in Int /\ i \in Int
      OBVIOUS
    <3>2. Cardinality(1..i) = IF 1 > i THEN 0 ELSE i - 1 + 1
      BY <3>1, FS_Interval, Zenon
    <3>3. QED
      BY <3>2
  <2> HIDE DEF I
  <2>2. l \in Nat /\ k = Cardinality(1..l) + 1
    BY <1>1, <1>5
  <2> HIDE DEF k
  <2>3. QED
    BY <1>1, <2>1, <2>2
<1>7. \A i \in 1..n : /\ i < k => s[i].off < f.off
                      /\ i >= k => f.off < s[i].off
  <2> SUFFICES ASSUME NEW i \in 1..n
               PROVE  /\ i < k => s[i].off < f.off
                      /\ i >= k => f.off < s[i].off
    OBVIOUS
  <2>1. s[i].off < f.off <=> i \in I
    OBVIOUS
  <2> HIDE DEF I, k
  <2>2. i \in I <=> i < k
    BY <1>1, <1>5, <1>6
  <2>3. s[i].off \in Nat /\ f.off \in Nat /\ s[i].off # f.off
    BY <1>1, <1>2
  <2> HIDE DEF n
  <2>4. QED
    BY <1>1, <1>6, <2>1, <2>2, <2>3
<1> HIDE DEF k
<1>9. /\ t \in Seq(F) /\ Len(t) = n + 1 /\ t[k] = f
      /\ \A i \in 1..n : i < k => t[i] = s[i]
      /\ \A i \in 1..n : i >= k => t[i + 1] = s[i]
  <2>1. k \in 1..(Len(s) + 1)
    BY <1>6
  <2>2. QED
    BY <2>1, Inserted
<1> HIDE DEF n
<1> HIDE DEF t
<1>10. \A i \in 1..(n + 1) : i > k => i - 1 \in 1..n /\ i - 1 >= k /\ t[i] = s[i - 1]
  <2> SUFFICES ASSUME NEW i \in 1..(n + 1), i > k
               PROVE  i - 1 \in 1..n /\ i - 1 >= k /\ t[i] = s[i - 1]
    OBVIOUS
  <2>1. i - 1 \in 1..n /\ i - 1 >= k /\ (i - 1) + 1 = i
    BY <1>1, <1>6
  <2>2. QED
    BY <1>9, <2>1
<1>11. ASSUME NEW i \in 1..(n + 1), NEW j \in 1..(n + 1), i < j
       PROVE  t[i].off < t[j].off
  <2>1. CASE j < k
    <3>1. i \in 1..n /\ j \in 1..n
      BY <1>1, <1>6, <1>11, <2>1
    <3>2. i < k /\ t[i] = s[i] /\ t[j] = s[j]
      BY <1>1, <1>6, <1>9, <1>11, <2>1, <3>1
    <3>3. QED
      BY <1>3, <1>11, <3>1, <3>2
  <2>2. CASE j = k
    <3>1. i \in 1..n /\ i < k
      BY <1>1, <1>6, <1>11, <2>2
    <3>2. QED
      BY <1>7, <1>9, <2>2, <3>1
  <2>3. CASE j > k /\ i < k
    <3>1. i \in 1..n /\ i < j - 1
      BY <1>1, <1>6, <2>3
    <3>2. QED
      BY <1>3, <1>9, <1>10, <2>3, <3>1
  <2>4. CASE j > k /\ i = k
    BY <1>7, <1>9, <1>10, <2>4
  <2>5. CASE j > k /\ i > k
    <3>1. i - 1 < j - 1
      BY <1>11
    <3>2. QED
      BY <1>3, <1>10, <2>5, <3>1
  <2>6. QED
    BY <1>1, <1>6, <2>1, <2>2, <2>3, <2>4, <2>5
<1>12. QED
  BY <1>6, <1>9, <1>11 DEF SortedByOffset, t, k, n

\* What p adds up to: all of d, or less than that although the end is there.
AddsUp(p, d) ==
  LET end == Offset(d, Len(d.fragments) + 1)
      ends == \E g \in ToSet(p) : g.last
  IN /\ end \in Nat \ {0}
     /\ \A g \in ToSet(p) : g.last => g.off + g.len = end
     /\ Offsets(ToSet(p)) = AllOffsets(d) => ends /\ Size(p) = end /\ Sequential(p)
     /\ Offsets(ToSet(p)) # AllOffsets(d) /\ ends => Size(p) < end

\* Fragments of d in their order add up to d only if they are all there.
LEMMA PartsAddUp ==
  ASSUME NEW d, d.fragments \in Seq(Nat \ {0}), NEW F, Fragments(F),
         NEW p \in Seq(F), p # << >>, SortedByOffset(p),
         \A g \in ToSet(p) : \E i \in 1..Len(d.fragments) : IsFragment(g, d, i)
  PROVE  AddsUp(p, d)
<1> DEFINE m == Len(d.fragments)
           n == Len(p)
           at(k) == CHOOSE i \in 1..m : IsFragment(p[k], d, i)
           ix == [k \in 0..n |-> IF k = 0 THEN 0 ELSE at(k)]
           O(i) == Offset(d, i)
           S(k) == Size(SubSeq(p, 1, k))
           fr == d.fragments
<1>1. /\ m \in Nat /\ n \in Nat \ {0} /\ \A k \in 1..n : p[k] \in ToSet(p) /\ p[k] \in F
      /\ \A i \in 1..m : fr[i] \in Nat \ {0}
      /\ \A g \in ToSet(p) : \E k \in 1..n : g = p[k]
  BY DEF ToSet
<1>2. /\ O(1) = 0
      /\ \A i \in 1..(m + 1) : O(i) \in Nat
      /\ \A i \in 1..m : O(i + 1) = O(i) + fr[i]
      /\ \A i, j \in 1..(m + 1) : i < j => O(i) < O(j)
  BY OffsetsRise
<1>3. \A k \in 1..n : /\ ix[k] \in 1..m /\ IsFragment(p[k], d, ix[k])
  <2> SUFFICES ASSUME NEW k \in 1..n PROVE at(k) \in 1..m /\ IsFragment(p[k], d, at(k))
    BY SMTT(30)
  <2>1. \E i \in 1..m : IsFragment(p[k], d, i)
    BY <1>1
  <2> HIDE DEF m, n, ix, O, S, fr
  <2>2. QED
    BY <2>1, Zenon
<1>4. ix[0] = 0
  OBVIOUS
<1>5. /\ S(0) = 0 /\ \A k \in 0..n : S(k) \in Nat
      /\ \A k \in 1..n : S(k) = S(k - 1) + p[k].len
  <2>1. \A f \in F : f.len \in Nat
    BY DEF Fragments
  <2>2. QED
    BY <2>1, SizeOfPrefixes
<1>6. S(n) = Size(p)
  <2>1. SubSeq(p, 1, n) = p
    OBVIOUS
  <2>2. QED
    BY <2>1
<1> HIDE DEF ix, O, S, m, n, fr
<1>7. \A k \in 1..n : /\ p[k].off = O(ix[k]) /\ p[k].len = fr[ix[k]] /\ (p[k].last <=> ix[k] = m)
                      /\ p[k].off + p[k].len = O(ix[k] + 1)
  <2> SUFFICES ASSUME NEW k \in 1..n
               PROVE  /\ p[k].off = O(ix[k]) /\ p[k].len = fr[ix[k]] /\ (p[k].last <=> ix[k] = m)
                      /\ p[k].off + p[k].len = O(ix[k] + 1)
    OBVIOUS
  <2>1. p[k].off = O(ix[k]) /\ p[k].len = fr[ix[k]] /\ (p[k].last <=> ix[k] = m)
    BY <1>3 DEF IsFragment, O, m, fr
  <2>2. QED
    BY <1>2, <1>3, <2>1
<1>8. \A j, k \in 1..n : j < k => ix[j] < ix[k]
  <2> SUFFICES ASSUME NEW j \in 1..n, NEW k \in 1..n, j < k PROVE ix[j] < ix[k]
    OBVIOUS
  <2>1. p[j].off < p[k].off
    BY DEF SortedByOffset, n
  <2>2. O(ix[j]) < O(ix[k])
    BY <1>7, <2>1
  <2>3. ix[j] \in 1..(m + 1) /\ ix[k] \in 1..(m + 1) /\ O(ix[j]) \in Nat /\ O(ix[k]) \in Nat
    BY <1>1, <1>2, <1>3, SMTT(30)
  <2>4. ix[k] < ix[j] => O(ix[k]) < O(ix[j])
    BY <1>2, <2>3, Zenon
  <2>5. ~ (ix[k] < ix[j]) /\ ix[j] # ix[k]
    BY <2>2, <2>3, <2>4
  <2>6. QED
    BY <1>1, <2>3, <2>5
<1> DEFINE Hole(i) == \A j \in 1..n : ix[j] # i
           Full(k) == (\A j \in 1..k : ix[j] = j) /\ S(k) = O(k + 1)
           Less(k) == S(k) < O(ix[k] + 1) /\ \E i \in 1..(ix[k] - 1) : Hole(i)
           Bad == {k \in 0..n : ~ (Full(k) \/ (k # 0 /\ Less(k)))}
<1>9. ASSUME NEW k \in Bad, \A j \in Bad : k <= j
      PROVE  FALSE
  <2>1. k # 0
    BY <1>2, <1>5
  <2>2. k \in 1..n /\ k - 1 \in 0..n /\ k - 1 \notin Bad /\ (k - 1) + 1 = k
    BY <1>1, <1>9, <2>1
  <2>3. /\ S(k) = S(k - 1) + fr[ix[k]] /\ fr[ix[k]] \in Nat \ {0} /\ S(k - 1) \in Nat
        /\ O(ix[k] + 1) = O(ix[k]) + fr[ix[k]] /\ O(ix[k]) \in Nat /\ ix[k] \in 1..m
    <3>1. ix[k] \in 1..m /\ ix[k] \in 1..(m + 1) /\ p[k].len = fr[ix[k]]
      BY <1>1, <1>3, <1>7, <2>2
    <3>2. S(k) = S(k - 1) + p[k].len /\ S(k - 1) \in Nat
      BY <1>5, <2>2
    <3>3. fr[ix[k]] \in Nat \ {0} /\ O(ix[k] + 1) = O(ix[k]) + fr[ix[k]] /\ O(ix[k]) \in Nat
      BY <1>1, <1>2, <3>1
    <3>4. QED
      BY <3>1, <3>2, <3>3
  <2>4. CASE Full(k - 1)
    <3>1. S(k - 1) = O(k)
      BY <2>2, <2>4
    <3>2. ix[k] >= k
      <4>1. CASE k = 1
        BY <2>3, <4>1
      <4>2. CASE k # 1
        <5>1. k - 1 \in 1..(k - 1) /\ k - 1 \in 1..n /\ k - 1 < k
          BY <2>2, <4>2
        <5>2. ix[k - 1] = k - 1 /\ ix[k - 1] < ix[k]
          BY <1>8, <2>2, <2>4, <5>1
        <5>3. QED
          BY <2>2, <2>3, <5>2
      <4>3. QED
        BY <4>1, <4>2
    <3>3. CASE ix[k] = k
      <4>1. \A j \in 1..k : j = k \/ j \in 1..(k - 1)
        BY <2>2
      <4>2. \A j \in 1..k : ix[j] = j
        BY <2>4, <3>3, <4>1
      <4>3. S(k) = O(k + 1)
        BY <2>3, <3>1, <3>3
      <4>4. QED
        BY <1>9, <4>2, <4>3
    <3>4. CASE ix[k] > k
      <4>1. k \in 1..(m + 1) /\ ix[k] \in 1..(m + 1) /\ k < ix[k]
        BY <1>1, <2>2, <2>3, <3>4
      <4>2. O(k) < O(ix[k]) /\ O(k) \in Nat
        BY <1>2, <4>1
      <4>3. S(k) < O(ix[k] + 1)
        BY <2>3, <3>1, <4>2
      <4>4. Hole(k)
        <5> SUFFICES ASSUME NEW j \in 1..n PROVE ix[j] # k
          OBVIOUS
        <5>1. CASE j < k
          <6>1. j \in 1..(k - 1)
            BY <2>2, <5>1
          <6>2. QED
            BY <2>4, <5>1, <6>1
        <5>2. CASE j = k
          BY <3>4, <5>2
        <5>3. CASE j > k
          <6>1. ix[k] < ix[j] /\ ix[j] \in 1..m
            BY <1>3, <1>8, <2>2, <5>3
          <6>2. QED
            BY <1>1, <2>2, <2>3, <3>4, <6>1
        <5>4. QED
          BY <1>1, <2>2, <5>1, <5>2, <5>3
      <4>5. k \in 1..(ix[k] - 1)
        BY <1>1, <2>2, <2>3, <3>4
      <4> HIDE DEF Hole
      <4>6. QED
        BY <1>9, <2>1, <4>3, <4>4, <4>5
    <3>5. QED
      BY <1>1, <2>2, <2>3, <3>2, <3>3, <3>4
  <2>5. CASE k - 1 # 0 /\ Less(k - 1)
    <3> HIDE DEF Hole
    <3>1. k - 1 \in 1..n /\ k - 1 < k
      BY <2>2, <2>5
    <3>2. ix[k - 1] < ix[k] /\ ix[k - 1] \in 1..m
      BY <1>3, <1>8, <2>2, <3>1
    <3>3. ix[k - 1] + 1 \in 1..(m + 1) /\ ix[k] \in 1..(m + 1) /\ ix[k - 1] + 1 <= ix[k]
      <4> DEFINE a == ix[k - 1]
                 b == ix[k]
      <4>1. m \in Nat /\ a \in 1..m /\ b \in 1..m /\ a < b
        BY <1>1, <2>3, <3>2
      <4> HIDE DEF a, b
      <4>2. a + 1 \in 1..(m + 1) /\ b \in 1..(m + 1) /\ a + 1 <= b
        BY <4>1
      <4>3. QED
        BY <4>2 DEF a, b
    <3>4. O(ix[k - 1] + 1) <= O(ix[k]) /\ O(ix[k - 1] + 1) \in Nat
      <4>1. ix[k - 1] + 1 = ix[k] \/ ix[k - 1] + 1 < ix[k]
        BY <1>1, <2>3, <3>2, SMTT(30)
      <4>2. QED
        BY <1>2, <2>3, <3>3, <4>1
    <3>5. S(k) < O(ix[k] + 1)
      BY <2>3, <2>5, <3>4
    <3>6. PICK i \in 1..(ix[k - 1] - 1) : Hole(i)
      BY <2>5
    <3>7. i \in 1..(ix[k] - 1)
      BY <1>1, <2>3, <3>2, SMTT(30)
    <3>8. QED
      BY <1>9, <2>1, <3>5, <3>6, <3>7
  <2>6. QED
    BY <2>2, <2>4, <2>5
<1>10. Bad = {}
  <2>1. Bad \in SUBSET Nat
    BY <1>1
  <2>2. QED
    BY <1>9, <2>1, LeastNat
<1>11. \A k \in 0..n : Full(k) \/ (k # 0 /\ Less(k))
  BY <1>10
<1> HIDE DEF Bad
<1>12. Offsets(ToSet(p)) = AllOffsets(d) <=> \A i \in 1..m : ~Hole(i)
  <2>1. Offsets(ToSet(p)) = {O(ix[k]) : k \in 1..n}
    <3>1. ToSet(p) = {p[k] : k \in 1..n}
      BY <1>1 DEF ToSet
    <3>2. Offsets(ToSet(p)) = {p[k].off : k \in 1..n}
      BY <3>1 DEF Offsets
    <3>3. \A k \in 1..n : p[k].off = O(ix[k])
      BY <1>7
    <3>4. QED
      BY <3>2, <3>3
  <2>2. AllOffsets(d) = {O(i) : i \in 1..m}
    BY DEF AllOffsets, O, m
  <2>3. {O(ix[k]) : k \in 1..n} \subseteq {O(i) : i \in 1..m}
    BY <1>3
  <2>4. \A i, j \in 1..m : O(i) = O(j) => i = j
    <3> SUFFICES ASSUME NEW i \in 1..m, NEW j \in 1..m, i # j PROVE O(i) # O(j)
      OBVIOUS
    <3>1. i \in 1..(m + 1) /\ j \in 1..(m + 1) /\ (i < j \/ j < i)
      BY <1>1
    <3>2. O(i) \in Nat /\ O(j) \in Nat /\ (O(i) < O(j) \/ O(j) < O(i))
      BY <1>2, <3>1
    <3>3. QED
      BY <3>2
  <2>5. ASSUME NEW i \in 1..m
        PROVE  O(i) \in {O(ix[k]) : k \in 1..n} <=> ~Hole(i)
    BY <1>3, <2>4
  <2>6. QED
    BY <2>1, <2>2, <2>3, <2>5
<1>13. m \in Nat \ {0} /\ O(m + 1) \in Nat \ {0}
  <2>1. m # 0 /\ 1 \in 1..(m + 1) /\ m + 1 \in 1..(m + 1)
    <3>1. ix[n] \in 1..m
      BY <1>1, <1>3
    <3>2. QED
      BY <1>1, <3>1
  <2>2. O(1) < O(m + 1) /\ O(m + 1) \in Nat
    BY <1>1, <1>2, <2>1
  <2>3. QED
    BY <1>1, <1>2, <2>1, <2>2
<1>14. \A g \in ToSet(p) : g.last => g.off + g.len = O(m + 1)
  BY <1>1, <1>7
<1>15. ASSUME \A i \in 1..m : ~Hole(i)
       PROVE  (\E g \in ToSet(p) : g.last) /\ Size(p) = O(m + 1) /\ Sequential(p)
  <2>1. \A k \in 0..n : Full(k)
    <3> SUFFICES ASSUME NEW k \in 0..n, k # 0, Less(k) PROVE FALSE
      BY <1>11
    <3>1. PICK i \in 1..(ix[k] - 1) : Hole(i)
      OBVIOUS
    <3>2. ix[k] \in 1..m
      BY <1>1, <1>3
    <3>3. i \in 1..m
      BY <1>1, <3>2
    <3>4. QED
      BY <1>15, <3>1, <3>3
  <2>2. \A j \in 1..n : ix[j] = j /\ j \in 1..m
    <3>1. Full(n)
      BY <1>1, <2>1
    <3>2. QED
      BY <1>3, <3>1
  <2>3. m \in 1..m /\ n \in 1..n
    BY <1>1, <1>13
  <2>4. PICK j \in 1..n : ix[j] = m
    BY <1>15, <2>3
  <2>5. n = m /\ j = m
    BY <1>1, <1>13, <2>2, <2>3, <2>4
  <2>6. \E g \in ToSet(p) : g.last
    BY <1>1, <1>7, <2>4
  <2>7. Size(p) = O(m + 1)
    BY <1>1, <1>6, <2>1, <2>5
  <2>8. \A k \in 1..n : p[k].off = S(k - 1)
    <3> SUFFICES ASSUME NEW k \in 1..n PROVE p[k].off = S(k - 1)
      OBVIOUS
    <3>1. k - 1 \in 0..n /\ (k - 1) + 1 = k
      BY <1>1
    <3>2. S(k - 1) = O(k)
      BY <2>1, <3>1
    <3>3. QED
      BY <1>7, <2>2, <3>2
  <2>9. Sequential(p)
    BY <2>8 DEF Sequential, S, n
  <2>10. QED
    BY <2>6, <2>7, <2>9
<1>16. ASSUME NEW i \in 1..m, Hole(i), NEW g \in ToSet(p), g.last
       PROVE  Size(p) < O(m + 1)
  <2>1. PICK j \in 1..n : g = p[j]
    BY <1>1
  <2>2. ix[j] = m
    BY <1>7, <1>16, <2>1
  <2>3. ~Full(n)
    <3> SUFFICES ASSUME Full(n) PROVE FALSE
      OBVIOUS
    <3>1. j = m
      BY <2>2
    <3>2. i \in 1..n
      BY <1>1, <3>1
    <3>3. QED
      BY <1>16, <3>2
  <2>4. n \in 0..n /\ n \in 1..n
    BY <1>1
  <2>5. S(n) < O(ix[n] + 1) /\ ix[n] \in 1..m
    BY <1>3, <1>11, <2>3, <2>4
  <2>6. ix[n] + 1 \in 1..(m + 1) /\ m + 1 \in 1..(m + 1) /\ (ix[n] = m \/ ix[n] + 1 < m + 1)
    BY <1>1, <2>5, SMTT(30)
  <2>7. O(ix[n] + 1) <= O(m + 1) /\ O(ix[n] + 1) \in Nat /\ O(m + 1) \in Nat /\ S(n) \in Nat
    BY <1>2, <1>5, <2>4, <2>6, SMTT(30)
  <2>8. QED
    BY <1>6, <2>5, <2>7
<1>17. QED
  <2>1. O(m + 1) = Offset(d, Len(d.fragments) + 1)
    BY DEF O, m
  <2> HIDE DEF Hole
  <2>2. QED
    BY <1>12, <1>13, <1>14, <1>15, <1>16, <2>1 DEF AddsUp

\* What was found in the map, and fits any fragments.
FoundOk(e, id, F) == e = NewFragments \/ Incomplete(e, id, F)

LEMMA FoundEntry ==
  ASSUME NEW F, NEW id, NEW e, FoundOk(e, id, F), Fragments(F)
  PROVE  /\ e \in EntryType(F) /\ ~e.drop /\ ~e.complete /\ e.currentSize = Size(e.ordered)
         /\ e.ordered \in Seq(F) /\ e.finalSize \in Nat /\ e.currentSize \in Nat
         /\ e.finalSize # 0 => \E g \in ToSet(e.ordered) : g.last /\ e.finalSize = g.off + g.len
<1>1. CASE e = NewFragments
  <2>1. Size(<< >>) = 0
    <3>1. << >> \in Seq(F) /\ SubSeq(<< >>, 1, 0) = << >>
      OBVIOUS
    <3>2. QED
      BY <3>1, SizeOfPrefixes DEF Fragments
  <2>2. QED
    BY <1>1, <2>1 DEF NewFragments, EntryType
<1>2. CASE Incomplete(e, id, F)
  BY <1>2 DEF Incomplete, EntryType
<1>3. QED
  BY <1>1, <1>2 DEF FoundOk

\* The fragments A of d came, e is what was found, and a what f makes of it.
PartAdded(a, e, f, d, A) ==
  \/ a.complete /\ a.ordered # << >> /\ a.ordered[1] \in ToSet(e.ordered) \cup {f}
  \/ ~a.complete /\ ~a.drop /\ Waits(a, d, A \cup {f})

LEMMA AddPart ==
  ASSUME NEW d, d.fragments \in Seq(Nat \ {0}), NEW F, Fragments(F), NEW f \in F, NEW t,
         NEW id, NEW e, FoundOk(e, id, F), NEW A, Waits(e, d, A),
         \A g \in ToSet(e.ordered) : \E i \in 1..Len(d.fragments) : IsFragment(g, d, i),
         \E i \in 1..Len(d.fragments) : IsFragment(f, d, i)
  PROVE  PartAdded(addFragment(e, f, t), e, f, d, A)
<1> DEFINE before == Cardinality({i \in 1..Len(e.ordered) : e.ordered[i].off < f.off})
           p == InsertAt(e.ordered, before + 1, f)
           final == IF f.last THEN f.off + f.len ELSE e.finalSize
           size == e.currentSize + f.len
           added == [e EXCEPT !.ordered = p, !.finalSize = final, !.currentSize = size]
           a == addFragment(e, f, t)
           end == Offset(d, Len(d.fragments) + 1)
<1>1. /\ e \in EntryType(F) /\ ~e.drop /\ ~e.complete /\ e.currentSize = Size(e.ordered)
      /\ e.ordered \in Seq(F) /\ e.finalSize \in Nat /\ e.currentSize \in Nat
      /\ e.finalSize # 0 => \E g \in ToSet(e.ordered) : g.last /\ e.finalSize = g.off + g.len
  BY FoundEntry
<1>2. Offsets(A \cup {f}) = Offsets(A) \cup {f.off} /\ Offsets(A) = Offsets(ToSet(e.ordered))
  BY DEF Offsets, Waits
<1>3. CASE \E i \in 1..Len(e.ordered) : e.ordered[i].off = f.off
  <2>1. a = e
    BY <1>3 DEF addFragment
  <2>2. f.off \in Offsets(ToSet(e.ordered))
    BY <1>1, <1>3 DEF Offsets, ToSet
  <2>3. Offsets(A \cup {f}) = Offsets(A)
    BY <1>2, <2>2
  <2>4. QED
    BY <1>1, <2>1, <2>3 DEF PartAdded, Waits
<1>4. CASE ~ \E i \in 1..Len(e.ordered) : e.ordered[i].off = f.off
  <2>1. f.off \notin Offsets(ToSet(e.ordered))
    <3>1. ToSet(e.ordered) = {e.ordered[i] : i \in 1..Len(e.ordered)}
      BY <1>1 DEF ToSet
    <3>2. \A g \in ToSet(e.ordered) : g.off # f.off
      BY <1>4, <3>1
    <3>3. QED
      BY <3>2 DEF Offsets
  <2>2. before + 1 \in 1..(Len(e.ordered) + 1) /\ SortedByOffset(p)
    <3>1. \A g \in F : g.off \in Nat
      BY DEF Fragments
    <3>2. SortedByOffset(e.ordered)
      BY DEF Waits
    <3>3. QED
      BY <1>1, <2>1, <3>1, <3>2, InsertedInOrder
  <2>3. a = IF final # 0 /\ size > final THEN [added EXCEPT !.drop = TRUE]
            ELSE IF size = final
            THEN IF Sequential(p)
                 THEN [added EXCEPT !.complete = TRUE, !.lastUpdate = t]
                 ELSE [added EXCEPT !.drop = TRUE]
            ELSE [added EXCEPT !.lastUpdate = t]
    <3>1. added.finalSize = final /\ added.currentSize = size /\ added.ordered = p
      BY <1>1, EntryWith, Zenon
    <3>2. QED
      BY <1>4, <3>1 DEF addFragment
  <2>4. added = [ordered |-> p, finalSize |-> final, currentSize |-> size,
                 drop |-> e.drop, complete |-> e.complete, lastUpdate |-> e.lastUpdate]
    <3>1. e \in EntryType(F)
      BY <1>1
    <3>2. QED
      BY <3>1, EntryWith, Zenon
  <2> HIDE DEF before
  <2>5. p \in Seq(F) /\ Len(p) = Len(e.ordered) + 1 /\ ToSet(p) = ToSet(e.ordered) \cup {f}
    <3>1. e.ordered \in Seq(F) /\ before + 1 \in 1..(Len(e.ordered) + 1) /\ f \in F
      BY <1>1, <2>2
    <3>2. QED
      BY <3>1, Inserted
  <2>6. Size(p) = size
    <3>1. \A g \in F : g.len \in Nat
      BY DEF Fragments
    <3>2. QED
      BY <1>1, <2>2, <3>1, SizeOfInserted
  <2>7. size \in Nat \ {0} /\ f.off \in Nat /\ f.len \in Nat /\ f.last \in BOOLEAN
    BY <1>1 DEF Fragments
  <2> HIDE DEF p, added, a
  <2>8. p # << >>
    BY <1>1, <2>5
  <2>9. AddsUp(p, d)
    <3>1. \A g \in ToSet(p) : \E i \in 1..Len(d.fragments) : IsFragment(g, d, i)
      BY <2>5
    <3>2. QED
      BY <2>2, <2>5, <2>8, <3>1, PartsAddUp
  <2>10. /\ end \in Nat \ {0}
         /\ \A g \in ToSet(p) : g.last => g.off + g.len = end
         /\ Offsets(ToSet(p)) = AllOffsets(d) =>
              (\E g \in ToSet(p) : g.last) /\ Size(p) = end /\ Sequential(p)
         /\ Offsets(ToSet(p)) # AllOffsets(d) /\ (\E g \in ToSet(p) : g.last) => Size(p) < end
    BY <2>9 DEF AddsUp
  <2> HIDE DEF end
  <2>11. Offsets(ToSet(p)) = Offsets(A \cup {f})
    BY <1>2, <2>5 DEF Offsets
  <2>12. /\ (\E g \in ToSet(p) : g.last) => final = end
         /\ ~(\E g \in ToSet(p) : g.last) => final = 0
    <3>1. CASE f.last
      BY <2>5, <2>10, <3>1
    <3>2. CASE ~f.last
      <4>1. final = e.finalSize
        BY <3>2
      <4>2. (\E g \in ToSet(e.ordered) : g.last) => e.finalSize # 0
        BY DEF Waits
      <4>3. ~(\E g \in ToSet(e.ordered) : g.last) => e.finalSize = 0
        BY <1>1
      <4>4. e.finalSize # 0 => e.finalSize = end
        BY <1>1, <2>5, <2>10
      <4>5. (\E g \in ToSet(p) : g.last) <=> \E g \in ToSet(e.ordered) : g.last
        BY <2>5, <3>2
      <4> HIDE DEF final
      <4>6. QED
        BY <4>1, <4>2, <4>3, <4>4, <4>5
    <3>3. QED
      BY <3>1, <3>2
  <2> HIDE DEF final, size
  <2>13. CASE Offsets(ToSet(p)) = AllOffsets(d)
    <3>1. final = end /\ size = end /\ Sequential(p)
      BY <2>6, <2>10, <2>12, <2>13
    <3>2. a = [added EXCEPT !.complete = TRUE, !.lastUpdate = t]
      BY <2>3, <2>7, <3>1
    <3>3. a.complete /\ a.ordered = p
      BY <2>4, <3>2
    <3>4. p[1] \in ToSet(p)
      BY <2>5, <2>8 DEF ToSet
    <3>5. QED
      BY <2>5, <2>8, <3>3, <3>4 DEF PartAdded, a
  <2>14. CASE Offsets(ToSet(p)) # AllOffsets(d)
    <3>1. size # final /\ ~(final # 0 /\ size > final)
      BY <2>6, <2>7, <2>10, <2>12, <2>14
    <3>2. a = [added EXCEPT !.lastUpdate = t]
      BY <2>3, <3>1
    <3>3. a.drop = e.drop /\ a.complete = e.complete /\ a.ordered = p /\ a.finalSize = final
      BY <2>4, <3>2
    <3>4. (\E g \in ToSet(p) : g.last) => final # 0
      BY <2>10, <2>12
    <3>5. Waits(a, d, A \cup {f})
      BY <2>2, <2>11, <2>14, <3>3, <3>4 DEF Waits
    <3>6. QED
      BY <1>1, <3>3, <3>5 DEF PartAdded, a
  <2>15. QED
    BY <2>13, <2>14
<1>5. QED
  BY <1>3, <1>4

\* What is swept away has a fragment that is too old.
LEMMA SweptAway ==
  ASSUME NEW F, NEW t, NEW map, MapOk(map, F, t), NEW id \in PacketIds,
         Sweep(map, t).byId[id] # map.byId[id]
  PROVE  /\ Sweep(map, t).byId[id] = NoFragments
         /\ \E g \in ToSet(map.byId[id].ordered) : t - g.at >= TimeoutSec
<1>1. ~ (t - map.lastCheck < TimeoutSec)
  BY DEF Sweep
<1>2. Sweep(map, t).byId[id] = IF t - map.byId[id].lastUpdate >= TimeoutSec
                               THEN NoFragments ELSE map.byId[id]
  BY <1>1 DEF Sweep
<1>3. t - map.byId[id].lastUpdate >= TimeoutSec /\ map.byId[id] # NoFragments
  BY <1>2
<1>4. Incomplete(map.byId[id], id, F)
  BY <1>3 DEF MapOk
<1>5. PICK g \in ToSet(map.byId[id].ordered) : g.at = map.byId[id].lastUpdate
  BY <1>4 DEF Incomplete
<1>6. QED
  BY <1>2, <1>3, <1>5

\* What is kept under the identification of d is of d.
LEMMA EntryParts ==
  ASSUME DatagramInv, NEW d \in scenario.datagrams, Reassemblable(d),
         NEW g \in ToSet(plugin.map.byId[d.id].ordered)
  PROVE  g \in ArrivalsOf(d) /\ \E i \in 1..Len(d.fragments) : IsFragment(g, d, i)
<1> DEFINE e == plugin.map.byId[d.id]
<1>1. d.id \in PacketIds /\ MapOk(plugin.map, arrived, now)
  BY ScenarioTypes DEF DatagramInv, ReassemblyInv, MapInv
<1>2. e # NoFragments
  <2>1. NoFragments.ordered = << >>
    BY DEF NoFragments, NewFragments
  <2>2. ToSet(<< >>) = {}
    BY DEF ToSet
  <2>3. QED
    BY <2>1, <2>2
<1>3. Incomplete(e, d.id, arrived)
  BY <1>1, <1>2 DEF MapOk
<1>4. g.id = d.id /\ e.ordered \in Seq(arrived)
  BY <1>3 DEF Incomplete, EntryType
<1>5. g \in arrived
  BY <1>4 DEF ToSet
<1>6. PICK other \in scenario.datagrams : \E i \in 1..Len(other.fragments) : IsFragment(g, other, i)
  BY <1>5 DEF DatagramInv, PartsInv
<1>7. other.id = d.id
  BY <1>4, <1>6 DEF IsFragment
<1>8. other = d
  BY <1>7 DEF Reassemblable
<1>9. g.datagram = d.name
  BY <1>6, <1>8 DEF IsFragment
<1>10. QED
  BY <1>5, <1>6, <1>8, <1>9 DEF ArrivalsOf

\* What a packet with a fragment of d does, h being what is done with the fragment.
Delivers(d, i, h) ==
  /\ scenario' = scenario /\ now' = now /\ arrived' = arrived \cup {Fragment(d, i)}
  /\ plugin'.map = h.map /\ reported \subseteq reported'
  /\ \/ h.map = plugin.map /\ ~Reassemblable(d)
     \/ h = HandleIpFragment(plugin.map, Fragment(d, i), now)
  /\ Reassemblable(d) => reported' = reported \cup Reports(d, i, h.packet)

LEMMA Delivered ==
  ASSUME PluginRecord, scenario \in Scenarios,
         NEW d \in scenario.datagrams, NEW i \in 1..Len(d.fragments), HandleDatagram(d, i)
  PROVE  \E h : Delivers(d, i, h)
<1> DEFINE f == Fragment(d, i)
           reassembles == Fragmented(d) /\ d.tunnel = "none" /\ scenario.ipFragmentsReassemble
           idle == [map |-> plugin.map, packet |-> << >>]
           handled == IF reassembles THEN HandleIpFragment(plugin.map, f, now) ELSE idle
           h == IF Handled(d, i) THEN handled ELSE idle
<1>1. idle.map = plugin.map /\ idle.packet = << >>
  OBVIOUS
<1>2. Reassemblable(d) => Handled(d, i) /\ reassembles
  BY DEF Reassemblable, Handled
<1>3. scenario' = scenario /\ now' = now /\ arrived' = arrived \cup {f}
  BY DEF HandleDatagram
<1>4. CASE Handled(d, i)
  <2>1. plugin' = [plugin EXCEPT !.map = handled.map]
        /\ reported' = reported \cup Reports(d, i, handled.packet)
    BY <1>4 DEF HandleDatagram
  <2> HIDE DEF handled
  <2>2. plugin'.map = handled.map
    BY <2>1 DEF PluginRecord
  <2>3. \/ handled.map = plugin.map /\ ~Reassemblable(d)
        \/ handled = HandleIpFragment(plugin.map, f, now)
    BY <1>1, <1>2 DEF handled
  <2>4. QED
    BY <1>3, <2>1, <2>2, <2>3 DEF Delivers
<1>5. CASE ~Handled(d, i)
  <2>1. plugin' = plugin /\ reported' = reported
    BY <1>5 DEF HandleDatagram
  <2>2. QED
    BY <1>1, <1>2, <1>3, <1>5, <2>1 DEF Delivers
<1>6. QED
  BY <1>4, <1>5

\* d is reported, its fragments are waited for, or they came too late.
Settled(d) ==
  d.name \in reported \/ Waits(plugin.map.byId[d.id], d, ArrivalsOf(d)) \/ TooLate(d)

\* A fragment of d is added to what is kept of d.
LEMMA OwnFragment ==
  ASSUME DatagramInv, NEW d \in scenario.datagrams, Reassemblable(d),
         NEW i \in 1..Len(d.fragments), NEW h, Delivers(d, i, h)
  PROVE  Settled(d)'
<1> DEFINE f == Fragment(d, i)
           A == ArrivalsOf(d)
           kept == plugin.map.byId[d.id]
           swept == Sweep(plugin.map, now)
           found == Swept(plugin.map, d.id, now)
           a == addFragment(found, f, now)
           G == arrived \cup {f}
<1>1. /\ scenario \in Scenarios /\ ArrivedInv /\ now \in Nat /\ MapOk(plugin.map, arrived, now)
      /\ d.id \in PacketIds /\ d.fragments \in Seq(Nat \ {0})
      /\ \A g \in arrived : g.at \in Nat
  <2>1. scenario \in Scenarios /\ ArrivedInv /\ now \in Nat /\ MapOk(plugin.map, arrived, now)
    BY DEF DatagramInv, ReassemblyInv, ArrivedInv, MapInv
  <2>2. \A g \in FragmentType(Cardinality(arrived), now) : g.at \in Nat
    BY <2>1 DEF FragmentType
  <2>3. QED
    BY <2>1, <2>2, ScenarioTypes DEF ArrivedInv
<1>2. /\ f.id = d.id /\ f.at = now /\ f.datagram = d.name /\ IsFragment(f, d, i)
      /\ Fragments(G)
  <2>1. Arrives(f, d, i)
    BY <1>1, ArrivingFragment
  <2>2. QED
    BY <2>1 DEF Arrives, IsFragment, Offset
<1>3. /\ scenario' = scenario /\ now' = now /\ arrived' = arrived \cup {f} /\ plugin'.map = h.map
      /\ reported' = reported \cup Reports(d, i, h.packet)
      /\ h = HandleIpFragment(plugin.map, f, now)
  BY DEF Delivers
<1>4. /\ h.map = [swept EXCEPT !.byId[d.id] = Kept(a)]
      /\ h.packet = IF a.complete THEN a.ordered ELSE << >>
  BY <1>2, <1>3 DEF HandleIpFragment, Swept
<1> HIDE DEF f, swept
<1>5. A \cup {f} = ArrivalsOf(d)'
  BY <1>2, <1>3 DEF ArrivalsOf
<1>6. f \in ArrivalsOf(d)' /\ A \subseteq ArrivalsOf(d)'
  BY <1>5
<1>7. CASE d.name \in reported
  BY <1>3, <1>7 DEF Settled
<1>8. CASE TooLate(d)
  <2>1. CASE \E g1, g2 \in A : g1.at - g2.at >= TimeoutSec
    BY <1>6, <2>1 DEF Settled, TooLate
  <2>2. CASE \E g \in A : now - g.at >= TimeoutSec
    BY <1>2, <1>6, <2>2 DEF Settled, TooLate
  <2>3. QED
    BY <1>8, <2>1, <2>2 DEF TooLate
<1>9. CASE Waits(kept, d, A)
  <2>1. CASE swept.byId[d.id] # kept
    <3>1. PICK g \in ToSet(kept.ordered) : now - g.at >= TimeoutSec
      BY <1>1, <2>1, SweptAway DEF swept
    <3>2. g \in A
      BY EntryParts
    <3>3. QED
      BY <1>2, <1>6, <3>1, <3>2 DEF Settled, TooLate
  <2>2. CASE swept.byId[d.id] = kept
    <3>1. \/ kept = NoFragments /\ found = NewFragments
          \/ kept # NoFragments /\ found = kept /\ Incomplete(kept, d.id, G)
      <4>1. \/ kept = NoFragments
            \/ Incomplete(kept, d.id, arrived)
        BY <1>1 DEF MapOk
      <4>2. Incomplete(kept, d.id, arrived) => Incomplete(kept, d.id, G)
        BY MoreFragments
      <4>3. QED
        BY <2>2, <4>1, <4>2 DEF Swept, swept
    <3>2. FoundOk(found, d.id, G)
      BY <3>1 DEF FoundOk
    <3>3. found.ordered = kept.ordered /\ found.finalSize = kept.finalSize
      BY <3>1 DEF NoFragments, NewFragments
    <3>4. Waits(found, d, A)
      BY <1>9, <3>3 DEF Waits
    <3>5. \A g \in ToSet(found.ordered) : \E j \in 1..Len(d.fragments) : IsFragment(g, d, j)
      BY <3>3, EntryParts
    <3> HIDE DEF found, A, kept
    <3>6. PartAdded(a, found, f, d, A)
      <4>1. f \in G
        OBVIOUS
      <4>2. Fragments(G) /\ \E j \in 1..Len(d.fragments) : IsFragment(f, d, j)
        BY <1>2
      <4> HIDE DEF G
      <4>3. QED
        BY <1>1, <3>2, <3>4, <3>5, <4>1, <4>2, AddPart
    <3> HIDE DEF a
    <3>7. CASE a.complete /\ a.ordered # << >> /\ a.ordered[1] \in ToSet(found.ordered) \cup {f}
      <4>1. h.packet = a.ordered /\ h.packet # << >>
        BY <1>4, <3>7
      <4>2. h.packet[1].datagram = d.name
        BY <1>2, <3>5, <3>7, <4>1 DEF IsFragment
      <4>3. Named(d.name) = d
        BY <1>1, NamesDiffer DEF Named
      <4>4. d.name \in Reports(d, i, h.packet)
        BY <4>1, <4>2, <4>3 DEF Reports, Reassemblable
      <4>5. QED
        BY <1>3, <4>4 DEF Settled
    <3>8. CASE ~a.complete /\ ~a.drop /\ Waits(a, d, A \cup {f})
      <4>1. Kept(a) = a
        BY <3>8 DEF Kept
      <4>2. h.map.byId[d.id] = a
        <5>1. MapOk(swept, arrived, now)
          BY <1>1, SweptMap DEF swept
        <5>2. /\ swept = [byId |-> swept.byId, lastCheck |-> swept.lastCheck]
              /\ swept.byId = [id \in PacketIds |-> swept.byId[id]]
          BY <5>1 DEF MapOk
        <5>3. h.map.byId = [swept.byId EXCEPT ![d.id] = a]
          BY <1>4, <4>1, <5>2
        <5>4. QED
          BY <1>1, <5>2, <5>3
      <4>3. QED
        BY <1>3, <1>5, <3>8, <4>2 DEF Settled
    <3>9. QED
      BY <3>6, <3>7, <3>8 DEF PartAdded
  <2>3. QED
    BY <2>1, <2>2
<1>10. QED
  BY <1>7, <1>8, <1>9 DEF DatagramInv, ReportedInv, kept, A

\* A fragment of another datagram may sweep away what is kept of d.
LEMMA OtherFragment ==
  ASSUME DatagramInv, NEW d \in scenario.datagrams, Reassemblable(d),
         NEW e \in scenario.datagrams, e # d,
         NEW i \in 1..Len(e.fragments), NEW h, Delivers(e, i, h)
  PROVE  Settled(d)'
<1> DEFINE f == Fragment(e, i)
           kept == plugin.map.byId[d.id]
           swept == Sweep(plugin.map, now)
<1>1. scenario \in Scenarios /\ d.id \in PacketIds /\ MapOk(plugin.map, arrived, now) /\ now \in Nat
  BY ScenarioTypes DEF DatagramInv, ReassemblyInv, MapInv, ArrivedInv
<1>2. f.id = e.id /\ f.datagram = e.name
  BY DEF Fragment
<1>3. e.id # d.id /\ e.name # d.name
  BY <1>1, NamesDiffer DEF Reassemblable
<1>4. /\ scenario' = scenario /\ now' = now /\ arrived' = arrived \cup {f} /\ plugin'.map = h.map
      /\ reported \subseteq reported'
      /\ h.map = plugin.map \/ h = HandleIpFragment(plugin.map, f, now)
  BY DEF Delivers
<1> HIDE DEF f
<1>5. ArrivalsOf(d)' = ArrivalsOf(d)
  BY <1>2, <1>3, <1>4 DEF ArrivalsOf
<1>6. plugin'.map.byId[d.id] \in {kept, swept.byId[d.id]}
  <2>1. CASE h.map = plugin.map
    BY <1>4, <2>1
  <2>2. CASE h = HandleIpFragment(plugin.map, f, now)
    <3>1. PICK x : h.map = [swept EXCEPT !.byId[f.id] = x]
      BY <2>2 DEF HandleIpFragment
    <3> HIDE DEF swept
    <3>2. MapOk(swept, arrived, now)
      BY <1>1, SweptMap DEF swept
    <3>3. /\ swept = [byId |-> swept.byId, lastCheck |-> swept.lastCheck]
          /\ swept.byId = [id \in PacketIds |-> swept.byId[id]]
      BY <3>2 DEF MapOk
    <3>4. h.map.byId = [swept.byId EXCEPT ![f.id] = x]
      BY <3>1, <3>3
    <3>5. h.map.byId[d.id] = swept.byId[d.id]
      BY <1>1, <1>2, <1>3, <3>3, <3>4
    <3>6. QED
      BY <1>4, <3>5
  <2>3. QED
    BY <1>4, <2>1, <2>2
<1> HIDE DEF swept
<1>7. CASE d.name \in reported
  BY <1>4, <1>7 DEF Settled
<1>8. CASE TooLate(d)
  BY <1>4, <1>5, <1>8 DEF Settled, TooLate
<1>9. CASE Waits(kept, d, ArrivalsOf(d))
  <2>1. CASE plugin'.map.byId[d.id] = kept
    BY <1>5, <1>9, <2>1 DEF Settled
  <2>2. CASE plugin'.map.byId[d.id] # kept
    <3>1. PICK g \in ToSet(kept.ordered) : now - g.at >= TimeoutSec
      BY <1>1, <1>6, <2>2, SweptAway DEF swept
    <3>2. g \in ArrivalsOf(d)
      BY EntryParts
    <3>3. Offsets(ArrivalsOf(d)) # AllOffsets(d)
      BY <1>9 DEF Waits
    <3>4. QED
      BY <1>4, <1>5, <3>1, <3>2, <3>3 DEF Settled, TooLate
  <2>3. QED
    BY <2>1, <2>2
<1>10. QED
  BY <1>7, <1>8, <1>9 DEF DatagramInv, ReportedInv, kept

LEMMA DatagramStep ==
  ASSUME DatagramInv, [Next]_vars
  PROVE  DatagramInv'
<1> USE DEF history
<1>1. ReassemblyInv'
  BY ReassemblyStep DEF DatagramInv
<1>2. scenario \in Scenarios /\ ArrivedInv /\ PluginRecord /\ now \in Nat
  BY DEF DatagramInv, ReassemblyInv, ArrivedInv
<1>3. ASSUME scenario' = scenario, arrived' = arrived, reported' = reported, now' = now,
             plugin'.map = plugin.map
      PROVE  DatagramInv'
  <2>1. \A d \in scenario.datagrams : Reassemblable(d)' <=> Reassemblable(d)
    BY <1>3 DEF Reassemblable, Detected
  <2>2. \A d \in scenario.datagrams : ArrivalsOf(d)' = ArrivalsOf(d) /\ (TooLate(d)' <=> TooLate(d))
    BY <1>3 DEF ArrivalsOf, TooLate
  <2>3. ReportedInv'
    BY <1>3, <2>1, <2>2 DEF DatagramInv, ReportedInv
  <2>4. PartsInv'
    BY <1>3 DEF DatagramInv, PartsInv
  <2>5. QED
    BY <1>1, <2>3, <2>4 DEF DatagramInv
<1>4. CASE UNCHANGED vars
  BY <1>3, <1>4 DEF vars
<1>5. ASSUME NEW e \in scenario.datagrams, NEW i \in 1..Len(e.fragments), HandleDatagram(e, i)
      PROVE  DatagramInv'
  <2>1. PICK h : Delivers(e, i, h)
    BY <1>2, <1>5, Delivered
  <2>2. scenario' = scenario /\ arrived' = arrived \cup {Fragment(e, i)}
    BY <2>1 DEF Delivers
  <2>3. PartsInv'
    <3>1. Arrives(Fragment(e, i), e, i)
      BY <1>2, ArrivingFragment
    <3>2. IsFragment(Fragment(e, i), e, i)
      BY <3>1 DEF Arrives, IsFragment, Offset
    <3>3. QED
      BY <2>2, <3>2 DEF DatagramInv, PartsInv
  <2>4. \A d \in scenario.datagrams : Reassemblable(d)' <=> Reassemblable(d)
    BY <2>2 DEF Reassemblable, Detected
  <2>5. ASSUME NEW d \in scenario.datagrams, Reassemblable(d)
        PROVE  Settled(d)'
    <3>1. CASE e = d
      BY <2>1, <2>5, <3>1, OwnFragment
    <3>2. CASE e # d
      BY <2>1, <2>5, <3>2, OtherFragment
    <3>3. QED
      BY <3>1, <3>2
  <2>6. ReportedInv'
    BY <2>2, <2>4, <2>5 DEF ReportedInv, Settled
  <2>7. QED
    BY <1>1, <2>3, <2>6 DEF DatagramInv
<1>6. CASE Tick
  <2>1. /\ scenario' = scenario /\ arrived' = arrived /\ reported' = reported
        /\ now' = now + 1 /\ plugin' = plugin
    BY <1>6 DEF Tick
  <2>2. \A g \in arrived : g.at \in Nat
    <3>1. \A g \in FragmentType(Cardinality(arrived), now) : g.at \in Nat
      BY <1>2 DEF FragmentType
    <3>2. QED
      BY <1>2, <3>1 DEF ArrivedInv
  <2>3. \A d \in scenario.datagrams :
          /\ Reassemblable(d)' <=> Reassemblable(d)
          /\ ArrivalsOf(d)' = ArrivalsOf(d) /\ ArrivalsOf(d) \subseteq arrived
    BY <2>1 DEF Reassemblable, Detected, ArrivalsOf
  <2>4. ASSUME NEW d \in scenario.datagrams, TooLate(d)
        PROVE  TooLate(d)'
    <3>1. \A g \in ArrivalsOf(d) : now - g.at >= TimeoutSec => now' - g.at >= TimeoutSec
      BY <1>2, <2>1, <2>2, <2>3, TimeoutAssumption
    <3>2. QED
      BY <2>1, <2>3, <2>4, <3>1 DEF TooLate
  <2>5. ReportedInv'
    BY <2>1, <2>3, <2>4 DEF DatagramInv, ReportedInv
  <2>6. PartsInv'
    BY <2>1 DEF DatagramInv, PartsInv
  <2>7. QED
    BY <1>1, <2>5, <2>6 DEF DatagramInv
<1>7. ASSUME NEW conn \in scenario.conns, NEW from, NEW len, HandleSegment(conn, from, len)
      PROVE  DatagramInv'
  <2>1. PICK streams : /\ scenario' = scenario /\ plugin' = [plugin EXCEPT !.streams = streams]
                       /\ arrived' = arrived /\ reported' = reported /\ now' = now
    BY <1>7 DEF HandleSegment
  <2>2. plugin'.map = plugin.map
    BY <1>2, <2>1 DEF PluginRecord
  <2>3. QED
    BY <1>3, <2>1, <2>2
<1>8. ASSUME NEW r, plugin' = [plugin EXCEPT !.iax2 = r], UNCHANGED <<scenario, now, history>>
      PROVE  DatagramInv'
  <2>1. plugin'.map = plugin.map
    BY <1>2, <1>8 DEF PluginRecord
  <2>2. QED
    BY <1>3, <1>8, <2>1
<1>9. ASSUME NEW c \in scenario.calls, HandleSignalling(c) \/ HandleHangup(c) \/ HandleVoice(c)
      PROVE  DatagramInv'
  BY <1>8, <1>9 DEF HandleSignalling, HandleHangup, HandleVoice
<1>10. ASSUME NEW s \in 1..MaxIax2Sessions, FallSilent(s)
       PROVE  DatagramInv'
  <2>1. plugin' = [plugin EXCEPT !.iax2 = [@ EXCEPT !.sessions[s].expired = TRUE]]
    BY <1>10 DEF FallSilent
  <2>2. QED
    BY <1>8, <1>10, <2>1 DEF FallSilent
<1>11. CASE Hoover \/ EndOfReplay
  BY <1>8, <1>11 DEF Hoover, EndOfReplay
<1>12. QED
  BY <1>4, <1>5, <1>6, <1>7, <1>9, <1>10, <1>11 DEF Next

\* A datagram whose fragments all came, in any order but within the time-out, is put
\* together by HandleIpFragment and reported.
THEOREM DatagramsReassembled == Spec => []Reassembled
<1>1. Init => DatagramInv
  <2> SUFFICES ASSUME Init PROVE DatagramInv
    OBVIOUS
  <2>1. ReassemblyInv
    BY ReassemblyInit
  <2>2. PartsInv
    BY DEF Init, PartsInv
  <2>3. ReportedInv
    <3> SUFFICES ASSUME NEW d \in scenario.datagrams, Reassemblable(d)
                 PROVE  Waits(plugin.map.byId[d.id], d, ArrivalsOf(d))
      BY DEF ReportedInv
    <3>1. d.id \in PacketIds /\ d.fragments \in Seq(Nat \ {0}) /\ Len(d.fragments) > 1
      BY ScenarioTypes DEF Init, Reassemblable, Fragmented
    <3>2. plugin.map.byId[d.id] = NoFragments
      BY <3>1 DEF Init, EmptyMap
    <3>3. NoFragments.ordered = << >> /\ NoFragments.finalSize = 0
      BY DEF NoFragments, NewFragments
    <3>4. ArrivalsOf(d) = {} /\ Offsets({}) = {} /\ ToSet(<< >>) = {}
      BY DEF Init, ArrivalsOf, Offsets, ToSet
    <3>5. AllOffsets(d) # {}
      <4>1. 1 \in 1..Len(d.fragments)
        BY <3>1
      <4>2. QED
        BY <4>1 DEF AllOffsets
    <3>6. SortedByOffset(<< >>)
      BY DEF SortedByOffset
    <3>7. QED
      BY <3>2, <3>3, <3>4, <3>5, <3>6 DEF Waits
  <2>4. QED
    BY <2>1, <2>2, <2>3 DEF DatagramInv
<1>2. DatagramInv /\ [Next]_vars => DatagramInv'
  BY DatagramStep
<1>3. DatagramInv => Reassembled
  <2> SUFFICES ASSUME DatagramInv, NEW d \in scenario.datagrams, Reassemblable(d),
                      \A f, g \in ArrivalsOf(d) : f.at - g.at < TimeoutSec,
                      {f.off : f \in ArrivalsOf(d)} =
                        {Fragment(d, i).off : i \in 1..Len(d.fragments)}
               PROVE  d.name \in reported
    BY DEF Reassembled, Reassemblable
  <2>1. Offsets(ArrivalsOf(d)) = AllOffsets(d)
    <3>1. \A i \in 1..Len(d.fragments) : Fragment(d, i).off = Offset(d, i)
      BY DEF Fragment, Offset, SumTo
    <3>2. QED
      BY <3>1 DEF Offsets, AllOffsets
  <2>2. \A f \in arrived : f.at \in Nat
    <3>1. ArrivedInv /\ now \in Nat
      BY DEF DatagramInv, ReassemblyInv, ArrivedInv
    <3>2. \A g \in FragmentType(Cardinality(arrived), now) : g.at \in Nat
      BY <3>1 DEF FragmentType
    <3>3. QED
      BY <3>1, <3>2 DEF ArrivedInv
  <2>3. ~ \E f, g \in ArrivalsOf(d) : f.at - g.at >= TimeoutSec
    <3> SUFFICES ASSUME NEW f \in ArrivalsOf(d), NEW g \in ArrivalsOf(d)
                 PROVE  ~ (f.at - g.at >= TimeoutSec)
      OBVIOUS
    <3>1. f.at \in Nat /\ g.at \in Nat /\ f.at - g.at < TimeoutSec
      BY <2>2 DEF ArrivalsOf
    <3>2. QED
      BY <3>1, TimeoutAssumption
  <2>4. ~TooLate(d)
    BY <2>1, <2>3 DEF TooLate
  <2>5. QED
    BY <2>1, <2>4 DEF DatagramInv, ReportedInv, Waits
<1>4. QED
  BY <1>1, <1>2, <1>3, PTL DEF Spec

-----------------------------------------------------------------------------
(* SIP over TCP                                                            *)

StreamType(C) ==
  [conn : C, first : Nat, consumed : Nat, end : Nat,
   lastSeqNo : Nat, expectingSeqNo : Nat, entryTime : Nat]

\* Where conn ends, and where its messages begin.
Total(conn) == Begins(conn, Len(conn.messages) + 1)
Boundary(conn, k) == \E i \in 1..(Len(conn.messages) + 1) : k = Begins(conn, i)

\* The stream ends within a message, which begins where its parsed part ends.
Unfinished(s, conn, k) ==
  /\ s.lastSeqNo = conn.isn + s.first /\ s.expectingSeqNo = conn.isn + s.end
  /\ s.first < s.end /\ s.end <= k /\ s.entryTime >= TimeoutSec
  /\ \E i \in Numbers(conn) : s.consumed = Begins(conn, i) /\ s.consumed < s.end /\ s.end < Ends(conn, i)

\* conn came in order as far as k: what ends there is reported, and what is not
\* finished there has a stream.
CaughtUp(conn, streams, sent, k) ==
  /\ k \in 0..Total(conn)
  /\ \A i \in Numbers(conn) : Ends(conn, i) <= k => <<conn, i>> \in sent
  /\ \A s \in streams : s.conn = conn => Unfinished(s, conn, k)
  /\ Boundary(conn, k) \/ \E s \in streams : s.conn = conn /\ s.end = k

\* The antecedent of InOrderMessagesReported.
Plain(conn) == conn.isn + Total(conn) < SeqModulus /\ now < TimeoutSec + StreamTimeout

TcpInv ==
  /\ scenario \in Scenarios /\ PluginRecord /\ now \in Nat /\ now >= TimeoutSec
  /\ plugin.streams \subseteq StreamType(scenario.conns)
  /\ inOrder = [conn \in scenario.conns |-> inOrder[conn]]
  /\ \A conn \in scenario.conns : Plain(conn) /\ inOrder[conn] # -1 =>
       CaughtUp(conn, plugin.streams, messages, inOrder[conn])

\* The messages of a connection follow one another.
Spaced(conn) ==
  /\ Total(conn) \in Nat
  /\ \A i \in Numbers(conn) :
       /\ Begins(conn, i) \in Nat /\ Ends(conn, i) \in Nat /\ Begins(conn, i) < Ends(conn, i)
       /\ Ends(conn, i) <= Total(conn)
       /\ Boundary(conn, Begins(conn, i)) /\ Boundary(conn, Ends(conn, i))
  /\ \A k : Boundary(conn, k) =>
       /\ k \in 0..Total(conn)
       /\ \A i \in Numbers(conn) : Ends(conn, i) <= k \/ k <= Begins(conn, i)
       /\ k = Total(conn) \/ \E i \in Numbers(conn) : k = Begins(conn, i)
  /\ Boundary(conn, 0)

LEMMA MessagesFollow ==
  ASSUME NEW conn, conn.messages \in Seq(Nat \ {0})
  PROVE  Spaced(conn)
<1> DEFINE M == Len(conn.messages)
           B(i) == Begins(conn, i)
           d == [fragments |-> conn.messages]
<1>1. M \in Nat /\ d.fragments = conn.messages
  OBVIOUS
<1>2. \A i : Offset(d, i) = B(i)
  BY <1>1 DEF Offset, SumTo, Begins
<1>3. /\ Offset(d, 1) = 0
      /\ \A i \in 1..(M + 1) : Offset(d, i) \in Nat
      /\ \A i, j \in 1..(M + 1) : i < j => Offset(d, i) < Offset(d, j)
  <2> HIDE DEF d
  <2>1. d.fragments \in Seq(Nat \ {0})
    BY <1>1
  <2>2. QED
    BY <1>1, <2>1, OffsetsRise
<1> HIDE DEF d
<1>4. /\ B(1) = 0
      /\ \A i \in 1..(M + 1) : B(i) \in Nat
      /\ \A i, j \in 1..(M + 1) : i < j => B(i) < B(j)
  BY <1>2, <1>3
<1>5. \A i : Ends(conn, i) = B(i + 1)
  BY DEF Ends
<1>6. Numbers(conn) = 1..M /\ Total(conn) = B(M + 1)
  BY DEF Numbers, Total
<1>7. \A k : Boundary(conn, k) <=> \E i \in 1..(M + 1) : k = B(i)
  BY DEF Boundary
<1> HIDE DEF M, B
<1>8. \A i, j \in 1..(M + 1) : i <= j => B(i) <= B(j)
  <2> SUFFICES ASSUME NEW i \in 1..(M + 1), NEW j \in 1..(M + 1), i <= j PROVE B(i) <= B(j)
    OBVIOUS
  <2>1. i = j \/ i < j
    BY <1>1
  <2>2. B(i) \in Nat /\ B(j) \in Nat
    BY <1>4
  <2>3. QED
    BY <1>4, <2>1, <2>2
<1>9. Total(conn) \in Nat /\ Boundary(conn, 0)
  BY <1>1, <1>4, <1>6, <1>7
<1>10. ASSUME NEW i \in 1..M
       PROVE  /\ Begins(conn, i) \in Nat /\ Ends(conn, i) \in Nat
              /\ Begins(conn, i) < Ends(conn, i) /\ Ends(conn, i) <= Total(conn)
              /\ Boundary(conn, Begins(conn, i)) /\ Boundary(conn, Ends(conn, i))
  <2>1. /\ i \in 1..(M + 1) /\ i + 1 \in 1..(M + 1) /\ M + 1 \in 1..(M + 1)
        /\ i < i + 1 /\ i + 1 <= M + 1
    BY <1>1
  <2>2. Begins(conn, i) = B(i)
    BY DEF B
  <2>3. B(i) \in Nat /\ B(i + 1) \in Nat /\ B(i) < B(i + 1) /\ B(i + 1) <= B(M + 1)
    BY <1>4, <1>8, <2>1
  <2>4. QED
    BY <1>5, <1>6, <1>7, <2>1, <2>2, <2>3
<1>11. ASSUME NEW k, Boundary(conn, k)
       PROVE  /\ k \in 0..Total(conn)
              /\ \A i \in Numbers(conn) : Ends(conn, i) <= k \/ k <= Begins(conn, i)
              /\ k = Total(conn) \/ \E i \in Numbers(conn) : k = Begins(conn, i)
  <2>1. PICK j \in 1..(M + 1) : k = B(j)
    BY <1>7, <1>11
  <2>2. \A i : Begins(conn, i) = B(i)
    BY DEF B
  <2>3. M + 1 \in 1..(M + 1) /\ j <= M + 1 /\ (j = M + 1 \/ j \in 1..M)
    BY <1>1
  <2>4. k \in 0..Total(conn)
    <3>1. B(j) \in Nat /\ B(j) <= B(M + 1) /\ B(M + 1) \in Nat
      BY <1>4, <1>8, <2>3
    <3>2. QED
      BY <1>6, <2>1, <3>1
  <2>5. \A i \in 1..M : B(i + 1) <= B(j) \/ B(j) <= B(i)
    <3> SUFFICES ASSUME NEW i \in 1..M PROVE B(i + 1) <= B(j) \/ B(j) <= B(i)
      OBVIOUS
    <3>1. i \in 1..(M + 1) /\ i + 1 \in 1..(M + 1) /\ (i + 1 <= j \/ j <= i)
      BY <1>1
    <3>2. QED
      BY <1>8, <3>1
  <2>6. QED
    BY <1>5, <1>6, <2>1, <2>2, <2>3, <2>4, <2>5
<1>12. QED
  BY <1>6, <1>9, <1>10, <1>11 DEF Spaced

\* A set of numbers up to N has a greatest.
LEMMA GreatestNat ==
  ASSUME NEW N \in Nat, NEW S \in SUBSET (0..N), S # {}
  PROVE  Max(S) \in S /\ \A x \in S : x <= Max(S)
<1> DEFINE T == {y \in 0..N : N - y \in S}
<1>1. T \in SUBSET Nat /\ T # {}
  <2>1. PICK x \in S : TRUE
    OBVIOUS
  <2>2. N - x \in 0..N /\ N - (N - x) = x
    OBVIOUS
  <2>3. N - x \in T
    BY <2>1, <2>2
  <2>4. \A y \in T : y \in Nat
    OBVIOUS
  <2> HIDE DEF T
  <2>5. QED
    BY <2>3, <2>4
<1>2. PICK y \in T : \A z \in T : y <= z
  BY <1>1, LeastNat
<1>3. N - y \in S /\ \A x \in S : x <= N - y
  <2> SUFFICES ASSUME NEW x \in S PROVE x <= N - y
    BY <1>2
  <2>1. N - x \in 0..N /\ N - (N - x) = x /\ x \in Nat
    OBVIOUS
  <2>2. N - x \in T
    BY <2>1
  <2>3. y <= N - x /\ y \in 0..N
    BY <1>2, <2>2
  <2>4. QED
    BY <2>1, <2>3
<1>4. \E g \in S : \A x \in S : g >= x
  <2>1. \A x \in S : N - y >= x
    BY <1>2, <1>3
  <2>2. QED
    BY <1>3, <2>1
<1>5. Max(S) \in S /\ \A x \in S : Max(S) >= x
  BY <1>4 DEF Max
<1>6. QED
  BY <1>5

\* What ParseSipStream consumes.
Parsed(conn, from, to) ==
  LET c == ParseSipStream(conn, from, to) IN
    /\ c \in Nat /\ from <= c
    /\ Boundary(conn, from) /\ from <= to /\ to <= Total(conn) =>
         /\ c <= to /\ Boundary(conn, c)
         /\ c # to => \E i \in Numbers(conn) :
                        c = Begins(conn, i) /\ c < to /\ to < Ends(conn, i)

LEMMA ParsedStream ==
  ASSUME NEW conn, Spaced(conn), NEW from \in Nat, NEW to \in Nat
  PROVE  Parsed(conn, from, to)
<1> DEFINE I == Complete(conn, from, to)
           S == {from} \cup {Ends(conn, i) : i \in I}
           c == ParseSipStream(conn, from, to)
<1>1. \A i \in I : i \in Numbers(conn) /\ from <= Begins(conn, i) /\ Ends(conn, i) <= to
  BY DEF Complete
<1>2. \A i \in Numbers(conn) :
        /\ Begins(conn, i) \in Nat /\ Ends(conn, i) \in Nat /\ Begins(conn, i) < Ends(conn, i)
        /\ Ends(conn, i) <= Total(conn)
        /\ Boundary(conn, Begins(conn, i)) /\ Boundary(conn, Ends(conn, i))
  BY DEF Spaced
<1>3. c = Max(S)
  BY DEF ParseSipStream
<1>4. S \in SUBSET (0..(from + to)) /\ S # {} /\ from + to \in Nat
  <2>1. ASSUME NEW i \in I PROVE Ends(conn, i) \in 0..(from + to)
    BY <1>1, <1>2
  <2>2. QED
    BY <2>1
<1>5. c \in S /\ \A x \in S : x <= c
  <2> HIDE DEF S
  <2>1. QED
    BY <1>3, <1>4, GreatestNat
<1>6. c \in Nat /\ from <= c
  BY <1>4, <1>5
<1>7. ASSUME Boundary(conn, from), from <= to, to <= Total(conn)
      PROVE  /\ c <= to /\ Boundary(conn, c)
             /\ c # to => \E i \in Numbers(conn) :
                            c = Begins(conn, i) /\ c < to /\ to < Ends(conn, i)
  <2> HIDE DEF c
  <2>1. c = from \/ \E i \in I : c = Ends(conn, i)
    BY <1>5
  <2>2. c <= to /\ Boundary(conn, c)
    BY <1>1, <1>2, <1>7, <2>1
  <2>3. ASSUME c # to
        PROVE  \E i \in Numbers(conn) : c = Begins(conn, i) /\ c < to /\ to < Ends(conn, i)
    <3>1. c < to /\ c # Total(conn)
      BY <1>6, <1>7, <2>2, <2>3 DEF Spaced
    <3>2. PICK i \in Numbers(conn) : c = Begins(conn, i)
      BY <2>2, <3>1 DEF Spaced
    <3>3. to < Ends(conn, i)
      <4> SUFFICES ASSUME ~ (to < Ends(conn, i)) PROVE FALSE
        OBVIOUS
      <4>1. Ends(conn, i) \in Nat /\ Begins(conn, i) \in Nat /\ Begins(conn, i) < Ends(conn, i)
        BY <1>2
      <4>2. i \in I
        BY <1>6, <3>2, <4>1 DEF Complete
      <4>3. Ends(conn, i) <= c
        BY <1>5, <4>2
      <4>4. QED
        BY <1>6, <3>2, <4>1, <4>3
    <3>4. QED
      BY <3>1, <3>2, <3>3
  <2>4. QED
    BY <2>2, <2>3
<1>8. QED
  BY <1>6, <1>7 DEF Parsed

\* A segment as HandleSegment makes it of a part of a connection.
Segment(conn, from, len) == [conn |-> conn, from |-> from, len |-> len]

LEMMA StreamFields ==
  ASSUME NEW C, NEW s \in StreamType(C)
  PROVE  /\ s.conn \in C /\ s.first \in Nat /\ s.consumed \in Nat /\ s.end \in Nat
         /\ s.lastSeqNo \in Nat /\ s.expectingSeqNo \in Nat /\ s.entryTime \in Nat
  BY DEF StreamType

\* c is the stream s with one more segment.
Continued(c, s, len, C) ==
  /\ c \in StreamType(C)
  /\ c.conn = s.conn /\ c.first = s.first /\ c.end = s.end + len
  /\ c.consumed = ParseSipStream(s.conn, s.consumed, s.end + len)
  /\ c.lastSeqNo = s.lastSeqNo /\ c.expectingSeqNo = s.expectingSeqNo + len
  /\ c.entryTime = s.entryTime

LEMMA ContinuedStream ==
  ASSUME NEW C, NEW s \in StreamType(C), NEW conn, s.conn = conn, Spaced(conn),
         NEW from \in Nat, NEW len \in Nat
  PROVE  Continued(Continue(s, Segment(conn, from, len)), s, len, C)
<1> DEFINE seg == Segment(conn, from, len)
           p == ParseSipStream(s.conn, s.consumed, s.end + len)
           c == Continue(s, seg)
<1>1. seg.conn = s.conn /\ seg.len = len
  BY DEF Segment
<1>2. /\ s.conn \in C /\ s.first \in Nat /\ s.consumed \in Nat /\ s.end \in Nat
      /\ s.lastSeqNo \in Nat /\ s.expectingSeqNo \in Nat /\ s.entryTime \in Nat
  BY StreamFields
<1>3. p \in Nat
  <2>1. s.end + len \in Nat
    BY <1>2
  <2>2. QED
    BY <1>2, <2>1, ParsedStream DEF Parsed
<1> HIDE DEF p, seg
<1>4. c = [s EXCEPT !.end = @ + len, !.consumed = p, !.expectingSeqNo = @ + len]
  BY <1>1 DEF Continue, p
<1>5. c = [conn |-> s.conn, first |-> s.first, consumed |-> p, end |-> s.end + len,
           lastSeqNo |-> s.lastSeqNo, expectingSeqNo |-> s.expectingSeqNo + len,
           entryTime |-> s.entryTime]
  BY <1>4 DEF StreamType
<1> HIDE DEF c
<1>6. c \in StreamType(C)
  BY <1>2, <1>3, <1>5 DEF StreamType
<1>7. QED
  BY <1>5, <1>6 DEF Continued, c, p, seg

\* The streams after a segment, case by case.
Duplicate(streams, conn, seq) == \E s \in streams : s.conn = conn /\ s.lastSeqNo >= seq
Awaiting(streams, conn, seq) == {s \in streams : s.conn = conn /\ s.expectingSeqNo = seq}

SegmentResult(r, streams, conn, from, len, t) ==
  LET seg == Segment(conn, from, len)
      seq == Seq32(seg)
      awaiting == Awaiting(streams, conn, seq)
      parsed == ParseSipStream(conn, from, from + len)
  IN /\ seq = (conn.isn + from) % SeqModulus
     /\ Duplicate(streams, conn, seq) => r.streams = streams /\ r.reported = {}
     /\ ~Duplicate(streams, conn, seq) /\ StartsLikeSip(seg) =>
          /\ len # 0 /\ \E i \in Numbers(conn) : Begins(conn, i) = from
          /\ r.streams = IF parsed = from + len THEN streams
                         ELSE streams \cup {NewStream(seg, parsed, t)}
          /\ r.reported = Complete(conn, from, from + len)
     /\ ~Duplicate(streams, conn, seq) /\ ~StartsLikeSip(seg) =>
          /\ len = 0 \/ ~ \E i \in Numbers(conn) : Begins(conn, i) = from
          /\ r.streams = {s \in (streams \ awaiting) \cup {Continue(s, seg) : s \in awaiting} :
                            StaysOn(s, t)}
          /\ r.reported = UNION {Complete(conn, s.consumed, s.end + len) : s \in awaiting}

LEMMA SegmentCases ==
  ASSUME NEW streams, NEW conn, NEW from \in Nat, NEW len \in Nat, NEW t
  PROVE  SegmentResult(TrySipTcp(streams, Segment(conn, from, len), t), streams, conn, from, len, t)
<1> DEFINE seg == Segment(conn, from, len)
<1>1. seg.conn = conn /\ seg.from = from /\ seg.len = len
  BY DEF Segment
<1> HIDE DEF seg
<1>2. /\ Seq32(seg) = (conn.isn + from) % SeqModulus
      /\ StartsLikeSip(seg) <=> (len > 0 /\ \E i \in Numbers(conn) : Begins(conn, i) = from)
  BY <1>1 DEF Seq32, StartsLikeSip
<1>3. StartsLikeSip(seg) => len # 0
  BY <1>2
<1>4. ~StartsLikeSip(seg) => len = 0 \/ ~ \E i \in Numbers(conn) : Begins(conn, i) = from
  BY <1>2
<1>5. QED
  BY <1>1, <1>2, <1>3, <1>4 DEF SegmentResult, TrySipTcp, Duplicate, Awaiting, seg

LEMMA StreamsTyped ==
  ASSUME NEW C, NEW streams \in SUBSET StreamType(C), NEW conn \in C, \A c \in C : Spaced(c),
         conn.isn \in Nat, NEW from \in Nat, NEW len \in Nat, NEW t \in Nat
  PROVE  TrySipTcp(streams, Segment(conn, from, len), t).streams \subseteq StreamType(C)
<1> DEFINE seg == Segment(conn, from, len)
           r == TrySipTcp(streams, seg, t)
           seq == Seq32(seg)
           awaiting == Awaiting(streams, conn, seq)
           parsed == ParseSipStream(conn, from, from + len)
           new == NewStream(seg, parsed, t)
<1>1. /\ seq = (conn.isn + from) % SeqModulus
      /\ \/ r.streams = streams
         \/ r.streams = streams \cup {new}
         \/ r.streams \subseteq (streams \ awaiting) \cup {Continue(s, seg) : s \in awaiting}
  <2>1. SegmentResult(r, streams, conn, from, len, t)
    BY SegmentCases
  <2> HIDE DEF r
  <2>2. QED
    BY <2>1 DEF SegmentResult
<1>2. new \in StreamType(C)
  <2>1. parsed \in Nat /\ from + len \in Nat
    <3>1. from + len \in Nat
      OBVIOUS
    <3>2. QED
      BY <3>1, ParsedStream DEF Parsed
  <2>2. seq \in Nat
    BY <1>1, SipTcpAssumption
  <2> HIDE DEF parsed, seq
  <2>3. new = [conn |-> conn, first |-> from, consumed |-> parsed, end |-> from + len,
               lastSeqNo |-> seq, expectingSeqNo |-> (seq + len) % SeqModulus, entryTime |-> t]
    BY DEF NewStream, Segment, seq
  <2>4. (seq + len) % SeqModulus \in Nat
    BY <2>2, SipTcpAssumption
  <2>5. QED
    BY <2>1, <2>2, <2>3, <2>4 DEF StreamType
<1>3. ASSUME NEW s \in awaiting
      PROVE  Continue(s, seg) \in StreamType(C)
  <2>1. s \in StreamType(C) /\ s.conn = conn
    BY DEF Awaiting
  <2>2. QED
    BY <2>1, ContinuedStream DEF Continued
<1> HIDE DEF new, awaiting
<1>4. QED
  BY <1>1, <1>2, <1>3 DEF awaiting

\* How far a connection came in order, after a segment.
Reaches(k, from, len) ==
  IF k = -1 \/ from > k THEN -1
  ELSE IF from + len > k /\ from < k THEN -1
  ELSE IF from + len > k THEN from + len ELSE k

\* A stream that is not finished stays on for as long as the antecedent holds.
LEMMA UnfinishedStays ==
  ASSUME NEW C, NEW s \in StreamType(C), NEW conn, NEW k, Unfinished(s, conn, k),
         NEW t \in Nat, t < TimeoutSec + StreamTimeout
  PROVE  StaysOn(s, t)
<1>1. s.consumed \in Nat /\ s.end \in Nat /\ s.entryTime \in Nat
  BY StreamFields
<1>2. s.consumed < s.end /\ s.entryTime >= TimeoutSec
  BY DEF Unfinished
<1>3. QED
  BY <1>1, <1>2, SipTcpAssumption, TimeoutAssumption DEF StaysOn

\* What came in order of the other connections is still as it was.
LEMMA OtherConnection ==
  ASSUME NEW C, NEW streams \in SUBSET StreamType(C), NEW conn \in C, NEW c \in C, c # conn,
         \A x \in C : Spaced(x), NEW from \in Nat, NEW len \in Nat,
         NEW t \in Nat, t < TimeoutSec + StreamTimeout,
         NEW sent, NEW k, CaughtUp(c, streams, sent, k), NEW more, sent \subseteq more
  PROVE  CaughtUp(c, TrySipTcp(streams, Segment(conn, from, len), t).streams, more, k)
<1> DEFINE seg == Segment(conn, from, len)
           r == TrySipTcp(streams, seg, t)
           seq == Seq32(seg)
           awaiting == Awaiting(streams, conn, seq)
           parsed == ParseSipStream(conn, from, from + len)
           new == NewStream(seg, parsed, t)
           Of(q) == {s \in q : s.conn = c}
<1>1. SegmentResult(r, streams, conn, from, len, t)
  BY SegmentCases
<1> HIDE DEF r
<1>2. \/ r.streams = streams
      \/ r.streams = streams \cup {new}
      \/ r.streams = {s \in (streams \ awaiting) \cup {Continue(s, seg) : s \in awaiting} :
                        StaysOn(s, t)}
  BY <1>1 DEF SegmentResult
<1>3. new.conn = conn
  BY DEF NewStream, Segment
<1>4. \A s \in awaiting : s.conn = conn /\ Continue(s, seg).conn = conn
  <2> SUFFICES ASSUME NEW s \in awaiting
               PROVE  s.conn = conn /\ Continue(s, seg).conn = conn
    OBVIOUS
  <2>1. s \in StreamType(C) /\ s.conn = conn
    BY DEF Awaiting
  <2>2. QED
    BY <2>1, ContinuedStream DEF Continued
<1>5. \A s \in Of(streams) : Unfinished(s, c, k) /\ StaysOn(s, t)
  <2> SUFFICES ASSUME NEW s \in Of(streams)
               PROVE  Unfinished(s, c, k) /\ StaysOn(s, t)
    OBVIOUS
  <2>1. Unfinished(s, c, k) /\ s \in StreamType(C)
    BY DEF CaughtUp
  <2>2. QED
    BY <2>1, UnfinishedStays
<1> HIDE DEF new, awaiting
<1>6. Of(r.streams) = Of(streams)
  <2>1. CASE r.streams = streams
    BY <2>1
  <2>2. CASE r.streams = streams \cup {new}
    BY <1>3, <2>2
  <2>3. CASE r.streams = {s \in (streams \ awaiting) \cup {Continue(s, seg) : s \in awaiting} :
                            StaysOn(s, t)}
    BY <1>4, <1>5, <2>3
  <2>4. QED
    BY <1>2, <2>1, <2>2, <2>3
<1>7. (\A s \in r.streams : s.conn = c => s \in streams) /\ \A s \in streams : s.conn = c => s \in r.streams
  BY <1>6
<1>8. QED
  BY <1>7 DEF CaughtUp, r

\* A segment of the connection itself: the stream that waits for it goes on.
LEMMA OwnConnection ==
  ASSUME NEW C, NEW streams \in SUBSET StreamType(C), NEW conn \in C, Spaced(conn),
         conn.isn \in Nat, conn.isn + Total(conn) < SeqModulus,
         NEW from \in Nat, NEW len \in Nat, from + len <= Total(conn),
         NEW t \in Nat, t >= TimeoutSec, t < TimeoutSec + StreamTimeout,
         NEW sent, NEW k, CaughtUp(conn, streams, sent, k), Reaches(k, from, len) # -1
  PROVE  LET r == TrySipTcp(streams, Segment(conn, from, len), t) IN
           CaughtUp(conn, r.streams, sent \cup {<<conn, i>> : i \in r.reported}, Reaches(k, from, len))
<1> DEFINE seg == Segment(conn, from, len)
           r == TrySipTcp(streams, seg, t)
           seq == Seq32(seg)
           awaiting == Awaiting(streams, conn, seq)
           parsed == ParseSipStream(conn, from, from + len)
           new == NewStream(seg, parsed, t)
           to == from + len
           k1 == Reaches(k, from, len)
           more == sent \cup {<<conn, i>> : i \in r.reported}
<1>1. SegmentResult(r, streams, conn, from, len, t)
  BY SegmentCases
<1> HIDE DEF r
<1>2. /\ seq = (conn.isn + from) % SeqModulus
      /\ Duplicate(streams, conn, seq) => r.streams = streams /\ r.reported = {}
      /\ ~Duplicate(streams, conn, seq) /\ StartsLikeSip(seg) =>
           /\ len # 0 /\ \E i \in Numbers(conn) : Begins(conn, i) = from
           /\ r.streams = IF parsed = to THEN streams ELSE streams \cup {new}
           /\ r.reported = Complete(conn, from, to)
      /\ ~Duplicate(streams, conn, seq) /\ ~StartsLikeSip(seg) =>
           /\ len = 0 \/ ~ \E i \in Numbers(conn) : Begins(conn, i) = from
           /\ r.streams = {s \in (streams \ awaiting) \cup {Continue(s, seg) : s \in awaiting} :
                             StaysOn(s, t)}
           /\ r.reported = UNION {Complete(conn, s.consumed, s.end + len) : s \in awaiting}
  BY <1>1 DEF SegmentResult
<1>3. Total(conn) \in Nat /\ to \in Nat /\ to <= Total(conn)
  BY DEF Spaced
<1>4. seq = conn.isn + from
  <2>1. conn.isn + from \in Nat /\ conn.isn + from < SeqModulus
    BY <1>3, SipTcpAssumption
  <2>2. QED
    BY <1>2, <2>1, SipTcpAssumption
<1>5. /\ k \in 0..Total(conn)
      /\ \A i \in Numbers(conn) : Ends(conn, i) <= k => <<conn, i>> \in sent
      /\ \A s \in streams : s.conn = conn => Unfinished(s, conn, k)
      /\ Boundary(conn, k) \/ \E s \in streams : s.conn = conn /\ s.end = k
  BY DEF CaughtUp
<1>6. /\ k1 \in 0..Total(conn) /\ k <= k1 /\ to <= k1 /\ from <= k
      /\ k1 = k \/ (from = k /\ k1 = to /\ len # 0)
  BY <1>3, <1>5 DEF Reaches
<1>7. \A i \in Numbers(conn) : Begins(conn, i) \in Nat /\ Ends(conn, i) \in Nat
  BY DEF Spaced
<1> HIDE DEF seq, awaiting, parsed, new, k1, to
<1>8. ASSUME NEW s \in streams, s.conn = conn
      PROVE  /\ s \in StreamType(C) /\ s.first \in Nat /\ s.consumed \in Nat /\ s.end \in Nat
             /\ Unfinished(s, conn, k) /\ Unfinished(s, conn, k1) /\ StaysOn(s, t)
  <2>1. /\ s \in StreamType(C) /\ s.first \in Nat /\ s.consumed \in Nat /\ s.end \in Nat
        /\ Unfinished(s, conn, k)
    BY <1>5, <1>8, StreamFields
  <2>2. Unfinished(s, conn, k1)
    BY <1>5, <1>6, <2>1 DEF Unfinished
  <2>3. StaysOn(s, t)
    BY <2>1, UnfinishedStays
  <2>4. QED
    BY <2>1, <2>2, <2>3
<1>9. sent \subseteq more
  OBVIOUS
<1>10. CASE Duplicate(streams, conn, seq)
  <2>1. PICK s \in streams : s.conn = conn /\ s.lastSeqNo >= seq
    BY <1>10 DEF Duplicate
  <2>2. from < k
    <3>1. s.lastSeqNo = conn.isn + s.first /\ s.first < s.end /\ s.end <= k
      BY <1>8, <2>1 DEF Unfinished
    <3>2. s.first \in Nat /\ s.end \in Nat /\ k \in Nat
      BY <1>5, <1>8, <2>1
    <3>3. QED
      BY <1>4, <2>1, <3>1, <3>2
  <2>3. k1 = k
    BY <1>5, <1>6, <2>2
  <2>4. r.streams = streams
    BY <1>2, <1>10
  <2>5. QED
    BY <1>5, <1>9, <2>3, <2>4 DEF CaughtUp, k1, r
<1>11. CASE ~Duplicate(streams, conn, seq) /\ StartsLikeSip(seg)
  <2>1. /\ len # 0 /\ \E i \in Numbers(conn) : Begins(conn, i) = from
        /\ r.streams = IF parsed = to THEN streams ELSE streams \cup {new}
        /\ r.reported = Complete(conn, from, to)
    BY <1>2, <1>11
  <2>2. Boundary(conn, from) /\ from <= to /\ from < to
    BY <2>1 DEF Spaced, to
  <2>3. /\ parsed \in Nat /\ from <= parsed /\ parsed <= to /\ Boundary(conn, parsed)
        /\ parsed # to => \E i \in Numbers(conn) :
                            parsed = Begins(conn, i) /\ parsed < to /\ to < Ends(conn, i)
    <3>1. Parsed(conn, from, to)
      BY <1>3, ParsedStream
    <3>2. QED
      BY <1>3, <2>2, <3>1 DEF Parsed, parsed, to
  <2>4. new = [conn |-> conn, first |-> from, consumed |-> parsed, end |-> to,
               lastSeqNo |-> seq, expectingSeqNo |-> (seq + len) % SeqModulus, entryTime |-> t]
    BY DEF NewStream, Segment, new, seq, to
  <2>5. parsed # to => Unfinished(new, conn, k1)
    <3>1. /\ new.conn = conn /\ new.first = from /\ new.consumed = parsed /\ new.end = to
          /\ new.lastSeqNo = seq /\ new.expectingSeqNo = (seq + len) % SeqModulus
          /\ new.entryTime = t
      BY <2>4
    <3>2. (seq + len) % SeqModulus = conn.isn + to
      <4>1. seq + len = conn.isn + to
        BY <1>4 DEF to
      <4>2. conn.isn + to \in Nat /\ conn.isn + to < SeqModulus
        BY <1>3, SipTcpAssumption
      <4>3. QED
        BY <4>1, <4>2, SipTcpAssumption
    <3>3. QED
      BY <1>4, <1>6, <2>2, <2>3, <3>1, <3>2 DEF Unfinished
  <2>6. new.conn = conn /\ new.end = to
    BY <2>4
  <2> HIDE DEF more
  <2>7. \A i \in Numbers(conn) : Ends(conn, i) <= k1 => <<conn, i>> \in more
    <3> SUFFICES ASSUME NEW i \in Numbers(conn), Ends(conn, i) <= k1 PROVE <<conn, i>> \in more
      OBVIOUS
    <3>1. CASE Ends(conn, i) <= k
      BY <1>5, <1>9, <3>1
    <3>2. CASE ~ (Ends(conn, i) <= k)
      <4>1. from = k /\ k1 = to
        BY <1>6, <3>2
      <4>2. k <= Begins(conn, i)
        BY <2>2, <3>2, <4>1 DEF Spaced
      <4>3. i \in r.reported
        BY <2>1, <4>1, <4>2 DEF Complete
      <4>4. QED
        BY <4>3 DEF more
    <3>3. QED
      BY <3>1, <3>2
  <2>8. \A s \in r.streams : s.conn = conn => Unfinished(s, conn, k1)
    BY <1>8, <2>1, <2>5
  <2>9. Boundary(conn, k1) \/ \E s \in r.streams : s.conn = conn /\ s.end = k1
    <3>1. streams \subseteq r.streams
      BY <2>1
    <3>2. CASE k1 = k
      BY <1>5, <3>1, <3>2
    <3>3. CASE k1 = to
      BY <2>1, <2>3, <2>6, <3>3
    <3>4. QED
      BY <1>6, <3>2, <3>3
  <2>10. QED
    BY <1>6, <2>7, <2>8, <2>9 DEF CaughtUp, k1, r, more
<1>12. CASE ~Duplicate(streams, conn, seq) /\ ~StartsLikeSip(seg)
  <2>1. /\ len = 0 \/ ~ \E i \in Numbers(conn) : Begins(conn, i) = from
        /\ r.streams = {s \in (streams \ awaiting) \cup {Continue(s, seg) : s \in awaiting} :
                          StaysOn(s, t)}
        /\ r.reported = UNION {Complete(conn, s.consumed, s.end + len) : s \in awaiting}
    BY <1>2, <1>12
  <2>2. \A s \in streams : s \in awaiting <=> s.conn = conn /\ s.expectingSeqNo = seq
    BY DEF awaiting, Awaiting
  <2>3. awaiting \subseteq streams
    BY DEF awaiting, Awaiting
  <2>4. ASSUME NEW s \in streams, s.conn = conn
        PROVE  s \in awaiting <=> s.end = from
    <3>1. s.expectingSeqNo = conn.isn + s.end /\ s.end \in Nat
      BY <1>8, <2>4 DEF Unfinished
    <3>2. QED
      BY <1>4, <2>2, <2>4, <3>1
  <2>5. ASSUME NEW s \in awaiting
        PROVE  LET c == Continue(s, seg) IN
                 /\ c.conn = conn /\ c.end = to
                 /\ c.consumed = to => Boundary(conn, to)
                 /\ c.consumed # to => Unfinished(c, conn, k1) /\ StaysOn(c, t)
    <3> DEFINE c == Continue(s, seg)
    <3>1. s \in streams /\ s.conn = conn /\ s.end = from /\ s.consumed \in Nat
      BY <1>8, <2>2, <2>3, <2>4
    <3>2. /\ Unfinished(s, conn, k) /\ s \in StreamType(C)
      BY <1>8, <3>1
    <3>3. /\ c \in StreamType(C)
          /\ c.conn = s.conn /\ c.first = s.first /\ c.end = s.end + len
          /\ c.consumed = ParseSipStream(s.conn, s.consumed, s.end + len)
          /\ c.lastSeqNo = s.lastSeqNo /\ c.expectingSeqNo = s.expectingSeqNo + len
          /\ c.entryTime = s.entryTime
      <4>1. Continued(c, s, len, C)
        BY <3>1, <3>2, ContinuedStream
      <4>2. QED
        BY <4>1 DEF Continued
    <3> HIDE DEF c
    <3>4. PICK i \in Numbers(conn) : s.consumed = Begins(conn, i) /\ s.consumed < s.end
      BY <3>2 DEF Unfinished
    <3>5. Boundary(conn, s.consumed) /\ s.consumed <= to
      BY <3>1, <3>4 DEF Spaced, to
    <3>6. c.consumed = ParseSipStream(conn, s.consumed, to) /\ c.end = to
      BY <3>1, <3>3 DEF to
    <3>7. Parsed(conn, s.consumed, to)
      BY <1>3, <3>1, ParsedStream
    <3>8. /\ c.consumed <= to /\ Boundary(conn, c.consumed)
          /\ c.consumed # to => \E j \in Numbers(conn) :
               c.consumed = Begins(conn, j) /\ c.consumed < to /\ to < Ends(conn, j)
      BY <1>3, <3>5, <3>6, <3>7 DEF Parsed
    <3>9. ASSUME c.consumed # to
          PROVE  Unfinished(c, conn, k1)
      <4>1. /\ s.lastSeqNo = conn.isn + s.first /\ s.expectingSeqNo = conn.isn + from
            /\ s.first < from /\ s.entryTime >= TimeoutSec /\ s.first \in Nat
        BY <1>8, <3>1, <3>2 DEF Unfinished
      <4>2. c.first < c.end /\ c.expectingSeqNo = conn.isn + c.end
        BY <3>1, <3>3, <4>1
      <4>3. c.lastSeqNo = conn.isn + c.first /\ c.entryTime >= TimeoutSec /\ c.end <= k1
        BY <1>6, <3>3, <3>6, <4>1
      <4>4. QED
        BY <3>6, <3>8, <3>9, <4>2, <4>3 DEF Unfinished
    <3>10. c.consumed # to => StaysOn(c, t)
      BY <3>3, <3>9, UnfinishedStays
    <3>11. QED
      BY <3>1, <3>3, <3>6, <3>8, <3>9, <3>10 DEF c
  <2>6. \A s \in r.streams : s.conn = conn => Unfinished(s, conn, k1)
    <3> SUFFICES ASSUME NEW s \in r.streams, s.conn = conn PROVE Unfinished(s, conn, k1)
      OBVIOUS
    <3>1. CASE s \in streams
      BY <1>8, <3>1
    <3>2. CASE s \notin streams
      <4>1. PICK a \in awaiting : s = Continue(a, seg)
        BY <2>1, <3>2
      <4>2. s.consumed # s.end
        BY <2>1 DEF StaysOn
      <4>3. QED
        BY <2>5, <4>1, <4>2
    <3>3. QED
      BY <3>1, <3>2
  <2>7. ASSUME NEW s \in awaiting
        PROVE  Boundary(conn, to) \/ \E u \in r.streams : u.conn = conn /\ u.end = to
    <3> DEFINE c == Continue(s, seg)
    <3>1. /\ c.conn = conn /\ c.end = to
          /\ c.consumed = to => Boundary(conn, to)
          /\ c.consumed # to => StaysOn(c, t)
      BY <2>5
    <3>2. c \in {Continue(u, seg) : u \in awaiting}
      OBVIOUS
    <3> HIDE DEF c
    <3>3. c.consumed # to => c \in r.streams
      BY <2>1, <3>1, <3>2
    <3>4. QED
      BY <3>1, <3>3
  <2>8. Boundary(conn, k1) \/ \E s \in r.streams : s.conn = conn /\ s.end = k1
    <3>1. CASE \E s \in streams : s.conn = conn /\ s.end = k
      <4>1. PICK s \in streams : s.conn = conn /\ s.end = k
        BY <3>1
      <4>2. CASE s \in awaiting
        <5>1. from = k
          BY <2>4, <4>1, <4>2
        <5>2. k1 = to
          BY <1>3, <1>5, <1>6, <5>1 DEF to
        <5>3. QED
          BY <2>7, <4>2, <5>2
      <4>3. CASE s \notin awaiting
        <5>1. from # k
          BY <2>4, <4>1, <4>3
        <5>2. k1 = k
          BY <1>6, <5>1
        <5>3. s \in r.streams
          BY <1>8, <2>1, <4>1, <4>3
        <5>4. QED
          BY <4>1, <5>2, <5>3
      <4>4. QED
        BY <4>2, <4>3
    <3>2. CASE Boundary(conn, k) /\ k1 = k
      BY <3>2
    <3>3. CASE Boundary(conn, k) /\ k1 # k
      <4>1. from = k /\ k1 = to /\ len # 0 /\ k # Total(conn)
        BY <1>3, <1>5, <1>6, <3>3 DEF to
      <4>2. \E i \in Numbers(conn) : k = Begins(conn, i)
        BY <3>3, <4>1 DEF Spaced
      <4>3. QED
        BY <2>1, <4>1, <4>2
    <3>4. QED
      BY <1>5, <3>1, <3>2, <3>3
  <2> HIDE DEF more
  <2>9. \A i \in Numbers(conn) : Ends(conn, i) <= k1 => <<conn, i>> \in more
    <3> SUFFICES ASSUME NEW i \in Numbers(conn), Ends(conn, i) <= k1, ~ (Ends(conn, i) <= k)
                 PROVE  <<conn, i>> \in more
      BY <1>5, <1>9
    <3>1. from = k /\ k1 = to /\ len # 0
      BY <1>6
    <3>2. k # Total(conn)
      BY <1>3, <1>5, <1>6, <3>1 DEF to
    <3>3. ~Boundary(conn, k)
      BY <2>1, <3>1, <3>2 DEF Spaced
    <3>4. PICK s \in streams : s.conn = conn /\ s.end = k
      BY <1>5, <3>3
    <3>5. s \in awaiting
      BY <2>4, <3>1, <3>4
    <3>6. PICK j \in Numbers(conn) : s.consumed = Begins(conn, j) /\ s.consumed < s.end
      BY <1>8, <3>4 DEF Unfinished
    <3>7. Boundary(conn, s.consumed)
      BY <3>6 DEF Spaced
    <3>8. Ends(conn, i) <= s.consumed \/ s.consumed <= Begins(conn, i)
      BY <3>7 DEF Spaced
    <3>9. s.consumed <= Begins(conn, i)
      BY <1>5, <1>7, <1>8, <3>4, <3>6, <3>8
    <3>10. i \in Complete(conn, s.consumed, s.end + len)
      BY <3>1, <3>4, <3>9 DEF Complete, to
    <3>11. i \in r.reported
      BY <2>1, <3>5, <3>10
    <3>12. QED
      BY <3>11 DEF more
  <2>10. QED
    BY <1>6, <2>6, <2>8, <2>9 DEF CaughtUp, k1, r, more
<1>13. QED
  BY <1>10, <1>11, <1>12

LEMMA TcpStep ==
  ASSUME TcpInv, [Next]_vars
  PROVE  TcpInv'
<1> USE DEF history
<1>1. /\ scenario \in Scenarios /\ PluginRecord /\ now \in Nat /\ now >= TimeoutSec
      /\ plugin.streams \subseteq StreamType(scenario.conns)
      /\ inOrder = [conn \in scenario.conns |-> inOrder[conn]]
      /\ \A conn \in scenario.conns : Plain(conn) /\ inOrder[conn] # -1 =>
           CaughtUp(conn, plugin.streams, messages, inOrder[conn])
  BY DEF TcpInv
<1>2. ASSUME scenario' = scenario, now' = now \/ now' = now + 1, plugin'.streams = plugin.streams,
             messages' = messages, inOrder' = inOrder, PluginRecord'
      PROVE  TcpInv'
  <2>1. now' \in Nat /\ now' >= TimeoutSec
    BY <1>1, <1>2, TimeoutAssumption
  <2>2. \A conn \in scenario.conns : Plain(conn)' => Plain(conn)
    BY <1>1, <1>2, TimeoutAssumption, SipTcpAssumption DEF Plain
  <2>3. QED
    BY <1>1, <1>2, <2>1, <2>2 DEF TcpInv
<1>3. CASE UNCHANGED vars
  BY <1>1, <1>2, <1>3 DEF vars, PluginRecord
<1>4. ASSUME NEW d \in scenario.datagrams, NEW i \in 1..Len(d.fragments), HandleDatagram(d, i)
      PROVE  TcpInv'
  <2>1. /\ scenario' = scenario /\ now' = now /\ messages' = messages /\ inOrder' = inOrder
        /\ plugin' = plugin \/ \E map : plugin' = [plugin EXCEPT !.map = map]
    BY <1>4 DEF HandleDatagram
  <2>2. plugin'.streams = plugin.streams /\ PluginRecord'
    <3>1. CASE plugin' = plugin
      BY <1>1, <3>1 DEF PluginRecord
    <3>2. CASE \E map : plugin' = [plugin EXCEPT !.map = map]
      BY <1>1, <3>2 DEF PluginRecord
    <3>3. QED
      BY <2>1, <3>1, <3>2
  <2>3. QED
    BY <1>2, <2>1, <2>2
<1>5. CASE Tick
  BY <1>1, <1>2, <1>5 DEF Tick, PluginRecord
<1>6. ASSUME NEW conn \in scenario.conns, NEW from \in 0..Ends(conn, Len(conn.messages)),
             NEW len \in 0..Ends(conn, Len(conn.messages)),
             from + len <= Ends(conn, Len(conn.messages)), HandleSegment(conn, from, len)
      PROVE  TcpInv'
  <2> DEFINE C == scenario.conns
             r == TrySipTcp(plugin.streams, Segment(conn, from, len), now)
             more == messages \cup {<<conn, i>> : i \in r.reported}
  <2>1. \A c \in C : Spaced(c) /\ c.isn \in Nat
    BY <1>1, ScenarioTypes, MessagesFollow
  <2>2. Ends(conn, Len(conn.messages)) = Total(conn)
    BY DEF Ends, Total
  <2>3. from \in Nat /\ len \in Nat /\ from + len <= Total(conn)
    BY <1>6, <2>2
  <2>4. /\ scenario' = scenario /\ now' = now
        /\ plugin' = [plugin EXCEPT !.streams = r.streams]
        /\ messages' = more
        /\ inOrder' = [inOrder EXCEPT ![conn] = Reaches(inOrder[conn], from, len)]
    BY <1>6 DEF HandleSegment, Segment, Reaches
  <2>5. r.streams \subseteq StreamType(C)
    BY <1>1, <2>1, <2>3, StreamsTyped
  <2>6. messages \subseteq more
    OBVIOUS
  <2>7. ASSUME NEW c \in C, c # conn, Plain(c), inOrder[c] # -1
        PROVE  CaughtUp(c, r.streams, more, inOrder[c])
    <3> HIDE DEF more
    <3>1. CaughtUp(c, plugin.streams, messages, inOrder[c]) /\ now < TimeoutSec + StreamTimeout
      BY <1>1, <2>7 DEF Plain
    <3>2. QED
      BY <1>1, <2>1, <2>3, <2>6, <2>7, <3>1, OtherConnection
  <2>8. ASSUME Plain(conn), Reaches(inOrder[conn], from, len) # -1
        PROVE  CaughtUp(conn, r.streams, more, Reaches(inOrder[conn], from, len))
    <3>1. inOrder[conn] # -1
      BY <2>8 DEF Reaches
    <3>2. /\ CaughtUp(conn, plugin.streams, messages, inOrder[conn])
          /\ now < TimeoutSec + StreamTimeout /\ conn.isn + Total(conn) < SeqModulus
      BY <1>1, <2>8, <3>1 DEF Plain
    <3>3. QED
      BY <1>1, <2>1, <2>3, <2>8, <3>2, OwnConnection
  <2> HIDE DEF r, more
  <2>9. PluginRecord' /\ plugin'.streams = r.streams
    BY <1>1, <2>4 DEF PluginRecord
  <2>10. /\ inOrder' = [c \in C |-> inOrder'[c]]
         /\ inOrder'[conn] = Reaches(inOrder[conn], from, len)
         /\ \A c \in C : c # conn => inOrder'[c] = inOrder[c]
    BY <1>1, <2>4
  <2>11. \A c \in C : Plain(c)' => Plain(c)
    BY <2>4 DEF Plain
  <2>12. ASSUME NEW c \in C, Plain(c), inOrder'[c] # -1
         PROVE  CaughtUp(c, r.streams, more, inOrder'[c])
    <3>1. CASE c = conn
      BY <2>8, <2>10, <2>12, <3>1
    <3>2. CASE c # conn
      BY <2>7, <2>10, <2>12, <3>2
    <3>3. QED
      BY <3>1, <3>2
  <2>13. \A c \in C : Plain(c)' /\ inOrder'[c] # -1 =>
           CaughtUp(c, plugin'.streams, messages', inOrder'[c])
    BY <2>4, <2>9, <2>11, <2>12
  <2>14. QED
    BY <1>1, <2>4, <2>5, <2>9, <2>10, <2>13 DEF TcpInv
<1>7. ASSUME NEW r, plugin' = [plugin EXCEPT !.iax2 = r], UNCHANGED <<scenario, now, history>>
      PROVE  TcpInv'
  <2>1. PluginRecord' /\ plugin'.streams = plugin.streams
    BY <1>1, <1>7 DEF PluginRecord
  <2>2. QED
    BY <1>2, <1>7, <2>1
<1>8. ASSUME NEW c \in scenario.calls, HandleSignalling(c) \/ HandleHangup(c) \/ HandleVoice(c)
      PROVE  TcpInv'
  BY <1>7, <1>8 DEF HandleSignalling, HandleHangup, HandleVoice
<1>9. ASSUME NEW s \in 1..MaxIax2Sessions, FallSilent(s)
      PROVE  TcpInv'
  <2>1. plugin' = [plugin EXCEPT !.iax2 = [@ EXCEPT !.sessions[s].expired = TRUE]]
    BY <1>9 DEF FallSilent
  <2>2. QED
    BY <1>7, <1>9, <2>1 DEF FallSilent
<1>10. CASE Hoover \/ EndOfReplay
  BY <1>7, <1>10 DEF Hoover, EndOfReplay
<1>11. QED
  BY <1>3, <1>4, <1>5, <1>6, <1>8, <1>9, <1>10 DEF Next

\* Of a connection whose segments come in order, TrySipTcp reports every message that
\* came in full.
THEOREM SipTcpMessagesReported == Spec => []InOrderMessagesReported
<1>1. Init => TcpInv
  <2> SUFFICES ASSUME Init PROVE TcpInv
    OBVIOUS
  <2>1. /\ PluginRecord /\ plugin.streams = {} /\ now = TimeoutSec /\ messages = {}
        /\ scenario \in Scenarios /\ inOrder = [conn \in scenario.conns |-> 0]
    BY DEF Init, PluginRecord
  <2>2. ASSUME NEW conn \in scenario.conns
        PROVE  CaughtUp(conn, {}, {}, 0)
    <3>1. Spaced(conn)
      BY <2>1, ScenarioTypes, MessagesFollow
    <3>2. \A i \in Numbers(conn) : ~ (Ends(conn, i) <= 0)
      BY <3>1 DEF Spaced
    <3>3. 0 \in 0..Total(conn) /\ Boundary(conn, 0)
      BY <3>1 DEF Spaced
    <3>4. QED
      BY <3>2, <3>3 DEF CaughtUp
  <2>3. QED
    BY <2>1, <2>2, TimeoutAssumption DEF TcpInv
<1>2. TcpInv /\ [Next]_vars => TcpInv'
  BY TcpStep
<1>3. TcpInv => InOrderMessagesReported
  <2> SUFFICES ASSUME TcpInv, NEW conn \in scenario.conns,
                      conn.isn + Ends(conn, Len(conn.messages)) < SeqModulus,
                      now < TimeoutSec + StreamTimeout,
                      NEW i \in Numbers(conn), Ends(conn, i) <= inOrder[conn]
               PROVE  <<conn, i>> \in messages
    BY DEF InOrderMessagesReported
  <2>1. Spaced(conn)
    BY ScenarioTypes, MessagesFollow DEF TcpInv
  <2>2. Plain(conn)
    BY DEF Plain, Total, Ends
  <2>3. inOrder[conn] # -1
    BY <2>1 DEF Spaced
  <2>4. QED
    BY <2>2, <2>3 DEF TcpInv, CaughtUp
<1>4. QED
  BY <1>1, <1>2, <1>3, PTL DEF Spec

=============================================================================
