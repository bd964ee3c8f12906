------------------------ MODULE VoIpSessionsProofs ------------------------
(***************************************************************************)
(* Proofs about VoIpSessions for all calls, hosts and media addresses,     *)
(* every configuration, and every number of sessions.                      *)
(***************************************************************************)
EXTENDS VoIpSessions, TLAPS

\* The fields of a registry and of the sessions in it.
LEMMA Fields ==
  ASSUME NEW r, WellFormed(r)
  PROVE  /\ r.byIpAndPort \in [Address -> Nat]
         /\ r.byCallId \in [Call \cup {NoCall} -> Nat]
         /\ r.sessions \in Seq(Session) /\ Len(r.sessions) \in Nat
         /\ DOMAIN r.sessions = 1 .. Len(r.sessions)
         /\ \A s \in 1 .. Len(r.sessions) : r.sessions[s] \in Session
         /\ r = [byIpAndPort |-> r.byIpAndPort, byCallId |-> r.byCallId,
                 sessions |-> r.sessions]
<1>1. /\ r.byIpAndPort \in [Address -> Nat]
      /\ r.byCallId \in [Call \cup {NoCall} -> Nat]
      /\ r.sessions \in Seq(Session)
  BY DEF WellFormed
<1>2. Len(r.sessions) \in Nat /\ DOMAIN r.sessions = 1 .. Len(r.sessions)
  BY <1>1
<1>3. \A s \in 1 .. Len(r.sessions) : r.sessions[s] \in Session
  BY <1>1
<1>4. r = [byIpAndPort |-> r.byIpAndPort, byCallId |-> r.byCallId,
           sessions |-> r.sessions]
  BY DEF WellFormed
<1>5. QED
  BY <1>1, <1>2, <1>3, <1>4

\* The type of a registry.
LEMMA RegistryType ==
  ASSUME NEW i \in [Address -> Nat], NEW c \in [Call \cup {NoCall} -> Nat],
         NEW q \in Seq(Session)
  PROVE  [byIpAndPort |-> i, byCallId |-> c, sessions |-> q]
           \in [ byIpAndPort : [Address -> Nat],
                 byCallId : [Call \cup {NoCall} -> Nat],
                 sessions : Seq(Session) ]
OBVIOUS

\* A registry is its two indexes and its sessions.
LEMMA Registry ==
  ASSUME NEW i \in [Address -> Nat], NEW c \in [Call \cup {NoCall} -> Nat],
         NEW q \in Seq(Session),
         \A a \in Address : i[a] \in 0 .. Len(q),
         \A k \in Call \cup {NoCall} : c[k] \in 0 .. Len(q)
  PROVE  LET r == [byIpAndPort |-> i, byCallId |-> c, sessions |-> q]
         IN  WellFormed(r) /\ r.byIpAndPort = i /\ r.byCallId = c /\ r.sessions = q
<1> DEFINE r == [byIpAndPort |-> i, byCallId |-> c, sessions |-> q]
<1>1. r.byIpAndPort = i /\ r.byCallId = c /\ r.sessions = q
  OBVIOUS
<1>2. r \in [ byIpAndPort : [Address -> Nat],
              byCallId : [Call \cup {NoCall} -> Nat],
              sessions : Seq(Session) ]
  OBVIOUS
<1>3. QED
  BY <1>1, <1>2 DEF WellFormed

\* An EXCEPT on one index of the registry, member by member.
LEMMA NewIndex ==
  ASSUME NEW r, WellFormed(r), NEW i
  PROVE  /\ [r EXCEPT !.byIpAndPort = i]
              = [byIpAndPort |-> i, byCallId |-> r.byCallId, sessions |-> r.sessions]
         /\ [r EXCEPT !.byCallId = i]
              = [byIpAndPort |-> r.byIpAndPort, byCallId |-> i, sessions |-> r.sessions]
BY Fields

\* Putting one session in the place of another changes nothing else.
LEMMA SetSession ==
  ASSUME NEW r, WellFormed(r), NEW s \in 1 .. Len(r.sessions), NEW y \in Session,
         NEW r2, r2 = [r EXCEPT !.sessions = [r.sessions EXCEPT ![s] = y]]
  PROVE  /\ WellFormed(r2)
         /\ r2.byIpAndPort = r.byIpAndPort /\ r2.byCallId = r.byCallId
         /\ Len(r2.sessions) = Len(r.sessions)
         /\ r2.sessions[s] = y
         /\ \A t \in 1 .. Len(r.sessions) \ {s} : r2.sessions[t] = r.sessions[t]
<1>1. r.sessions \in Seq(Session)
  BY Fields
<1>2. /\ [r.sessions EXCEPT ![s] = y] \in Seq(Session)
      /\ Len([r.sessions EXCEPT ![s] = y]) = Len(r.sessions)
      /\ [r.sessions EXCEPT ![s] = y][s] = y
      /\ \A t \in 1 .. Len(r.sessions) \ {s} : [r.sessions EXCEPT ![s] = y][t] = r.sessions[t]
  BY <1>1
<1>3. r2 = [byIpAndPort |-> r.byIpAndPort, byCallId |-> r.byCallId,
           sessions |-> [r.sessions EXCEPT ![s] = y]]
  BY SMTT(30), Fields
<1>4. /\ r2.byIpAndPort = r.byIpAndPort /\ r2.byCallId = r.byCallId
      /\ r2.sessions = [r.sessions EXCEPT ![s] = y]
  BY <1>3
<1>5. r2 \in [ byIpAndPort : [Address -> Nat],
               byCallId : [Call \cup {NoCall} -> Nat],
               sessions : Seq(Session) ]
  BY <1>2, <1>3, Fields
<1>6. WellFormed(r2)
  BY <1>2, <1>4, <1>5 DEF WellFormed
<1>7. QED
  BY <1>2, <1>4, <1>6

-----------------------------------------------------------------------------
(* What the operators do to the invariant.                                  *)

\* How a session may change without any index noticing.
Quiet(x, y) ==
    /\ y.callId = x.callId /\ y.dismissed = x.dismissed
    /\ y.mediaAddresses = x.mediaAddresses /\ y.ipAndPort = x.ipAndPort
    /\ \/ y.protocol = x.protocol
       \/ y.protocol = "RawRtp" /\ ~deployment.rtpAllowMultipleMappings

\* A session that has been stopped does not start again.
StaysEnded(x, y) ==
    x.dismissed /\ (x.started => x.stopped) => (y.started => y.stopped)

\* What every operator leaves alone: sessions are neither forgotten nor renamed,
\* and a call id leads where it led or nowhere.
Frame(r, r2) ==
    /\ Len(r2.sessions) = Len(r.sessions)
    /\ \A s \in 1 .. Len(r.sessions) :
          /\ r2.sessions[s].callId = r.sessions[s].callId
          /\ r.sessions[s].dismissed => r2.sessions[s].dismissed
          /\ \/ r2.sessions[s].protocol = r.sessions[s].protocol
             \/ r2.sessions[s].protocol = "RawRtp" /\ ~deployment.rtpAllowMultipleMappings
    /\ \A c \in Call : r2.byCallId[c] \in {0, r.byCallId[c]}
    /\ r2.byCallId[NoCall] = r.byCallId[NoCall]

\* With multiple mappings, the sessions that end are raw RTP ones.
Spares(r, r2) ==
    deployment.rtpAllowMultipleMappings
      => \A s \in 1 .. Len(r.sessions) :
            r2.sessions[s].dismissed
              => r.sessions[s].dismissed \/ r.sessions[s].protocol = "RawRtp"

\* GoOnHold, GoOffHold, AddRtpPacket, ForceRawRtp and the passing of time change
\* a session quietly.
LEMMA QuietStep ==
  ASSUME NEW r, Sound(r), NEW s \in 1 .. Len(r.sessions), NEW y \in Session,
         Quiet(r.sessions[s], y),
         NEW r2, r2 = [r EXCEPT !.sessions = [r.sessions EXCEPT ![s] = y]]
  PROVE  /\ Sound(r2) /\ Frame(r, r2) /\ r2.byIpAndPort = r.byIpAndPort
         /\ r2.byCallId = r.byCallId
         /\ r2.sessions[s] = y
         /\ \A t \in 1 .. Len(r.sessions) \ {s} : r2.sessions[t] = r.sessions[t]
         /\ \A n \in Nat :
              Live(r, n) /\ StaysEnded(r.sessions[s], y) => Live(r2, n)
<1>1. /\ WellFormed(r2) /\ WellFormed(r)
      /\ r2.byIpAndPort = r.byIpAndPort /\ r2.byCallId = r.byCallId
      /\ Len(r2.sessions) = Len(r.sessions)
      /\ r2.sessions[s] = y
      /\ \A t \in 1 .. Len(r.sessions) \ {s} : r2.sessions[t] = r.sessions[t]
  BY SetSession DEF Sound
<1>2. \A t \in 1 .. Len(r.sessions) : Quiet(r.sessions[t], r2.sessions[t])
  BY <1>1 DEF Quiet
<1>3. /\ \A a \in Address : r.byIpAndPort[a] \in 0 .. Len(r.sessions)
      /\ \A c \in Call \cup {NoCall} : r.byCallId[c] \in 0 .. Len(r.sessions)
      /\ Len(r.sessions) \in Nat
  BY <1>1, Fields DEF WellFormed
<1>4. AddressesOwned(r2)
  BY <1>1, <1>2, <1>3 DEF Sound, AddressesOwned, Quiet
<1>5. Frame(r, r2)
  BY <1>1, <1>2 DEF Frame, Quiet
<1>6. ASSUME IndexesLive(r), StaysEnded(r.sessions[s], y) PROVE IndexesLive(r2)
  <2>1. \A t \in 1 .. Len(r.sessions) : StaysEnded(r.sessions[t], r2.sessions[t])
    BY <1>1, <1>6 DEF StaysEnded
  <2>2. QED
    BY SMTT(30), <1>1, <1>2, <1>3, <1>6, <2>1 DEF IndexesLive, Quiet, StaysEnded
<1>7. ASSUME NEW n \in Nat, OthersReachable(r, n) PROVE OthersReachable(r2, n)
  BY <1>1, <1>2, <1>3, <1>7 DEF OthersReachable, Reachable, Quiet
<1>8. QED
  BY <1>1, <1>4, <1>5, <1>6, <1>7 DEF Sound, Live

\* A new session, on no index yet.
LEMMA CreateStep ==
  ASSUME NEW r, Sound(r), NEW x \in Session,
         x.mediaAddresses # {} => x.ipAndPort \in x.mediaAddresses,
         ~deployment.rtpAllowMultipleMappings => x.mediaAddresses \subseteq {x.ipAndPort},
         ~x.dismissed
  PROVE  LET r2 == Create(r, x)
             id == Len(r.sessions) + 1
         IN  /\ Sound(r2) /\ Len(r2.sessions) = id /\ id \in 1 .. Len(r2.sessions)
             /\ r2.byIpAndPort = r.byIpAndPort /\ r2.byCallId = r.byCallId
             /\ r2.sessions[id] = x
             /\ \A s \in 1 .. Len(r.sessions) : r2.sessions[s] = r.sessions[s]
             /\ Live(r, 0) => Live(r2, id)
             /\ /\ RawUncalled(r)
                /\ \/ x.protocol # "RawRtp" \/ x.callId = NoCall
                   \/ ~deployment.rtpAllowMultipleMappings
                   \/ deployment.skinnyAllowLateCallInfo
                => RawUncalled(r2)
<1> DEFINE r2 == Create(r, x)
           n == Len(r.sessions)
           q == [s \in 1 .. n + 1 |-> IF s \in 1 .. n THEN r.sessions[s] ELSE x]
<1>1. WellFormed(r) /\ n \in Nat /\ r.sessions \in Seq(Session)
  BY Fields DEF Sound
<1>2. /\ q \in Seq(Session) /\ Len(q) = n + 1 /\ q[n + 1] = x
      /\ \A s \in 1 .. n : q[s] = r.sessions[s]
  BY <1>1
<1>3. r2 = [byIpAndPort |-> r.byIpAndPort, byCallId |-> r.byCallId, sessions |-> q]
  BY SMTT(30), <1>1, Fields DEF Create
<1>4. /\ r2.byIpAndPort = r.byIpAndPort /\ r2.byCallId = r.byCallId /\ r2.sessions = q
      /\ \A a \in Address : r.byIpAndPort[a] \in 0 .. n
      /\ \A c \in Call \cup {NoCall} : r.byCallId[c] \in 0 .. n
  BY <1>1, <1>3 DEF WellFormed
<1> HIDE DEF q, r2
<1>5. WellFormed(r2)
  <2>1. r2 \in [ byIpAndPort : [Address -> Nat],
                 byCallId : [Call \cup {NoCall} -> Nat],
                 sessions : Seq(Session) ]
    BY <1>1, <1>2, <1>3, Fields
  <2>2. QED
    BY <1>1, <1>2, <1>4, <2>1 DEF WellFormed
<1>6. AddressesOwned(r2)
  <2>1. ASSUME NEW a \in Address, r2.byIpAndPort[a] # 0
        PROVE  a \in r2.sessions[r2.byIpAndPort[a]].mediaAddresses
    <3>1. r.byIpAndPort[a] \in 1 .. n /\ r.byIpAndPort[a] # 0
      BY <1>1, <1>4, <2>1
    <3>2. QED
      BY <1>2, <1>4, <3>1 DEF Sound, AddressesOwned
  <2>2. ASSUME NEW s \in 1 .. Len(r2.sessions)
        PROVE  /\ r2.sessions[s].mediaAddresses # {}
                    => r2.sessions[s].ipAndPort \in r2.sessions[s].mediaAddresses
               /\ ~deployment.rtpAllowMultipleMappings
                    => r2.sessions[s].mediaAddresses \subseteq {r2.sessions[s].ipAndPort}
    <3>1. CASE s \in 1 .. n
      BY <1>2, <1>4, <3>1 DEF Sound, AddressesOwned
    <3>2. CASE s = n + 1
      BY <1>2, <1>4, <3>2
    <3>3. QED
      BY <1>1, <1>2, <1>4, <2>2, <3>1, <3>2
  <2>3. QED
    BY <2>1, <2>2 DEF AddressesOwned
<1>7. ASSUME IndexesLive(r) PROVE IndexesLive(r2)
  <2>1. ASSUME NEW t \in 0 .. n, t # 0
        PROVE  r2.sessions[t] = r.sessions[t]
    BY <1>1, <1>2, <1>4, <2>1
  <2>2. ASSUME NEW a \in Address, r.byIpAndPort[a] # 0
        PROVE  ~r2.sessions[r.byIpAndPort[a]].dismissed
    BY <1>4, <1>7, <2>1, <2>2 DEF IndexesLive
  <2>3. ASSUME NEW c \in Call, r.byCallId[c] # 0
        PROVE  /\ ~r2.sessions[r.byCallId[c]].dismissed
               /\ r2.sessions[r.byCallId[c]].callId = c
    BY <1>4, <1>7, <2>1, <2>3 DEF IndexesLive
  <2>4. ASSUME NEW s \in 1 .. Len(r2.sessions), r2.sessions[s].dismissed
        PROVE  ~r2.sessions[s].started \/ r2.sessions[s].stopped
    <3>1. CASE s \in 1 .. n
      BY <1>2, <1>4, <1>7, <2>4, <3>1 DEF IndexesLive
    <3>2. CASE s = n + 1
      BY <1>2, <1>4, <2>4, <3>2
    <3>3. QED
      BY <1>1, <1>2, <1>4, <2>4, <3>1, <3>2
  <2>5. QED
    BY <1>4, <1>7, <2>2, <2>3, <2>4 DEF IndexesLive
<1>8. ASSUME OthersReachable(r, 0) PROVE OthersReachable(r2, n + 1)
  BY <1>1, <1>2, <1>4, <1>8 DEF OthersReachable, Reachable
<1>9. /\ RawUncalled(r)
      /\ \/ x.protocol # "RawRtp" \/ x.callId = NoCall
         \/ ~deployment.rtpAllowMultipleMappings
         \/ deployment.skinnyAllowLateCallInfo
      => RawUncalled(r2)
  BY <1>1, <1>2, <1>4 DEF RawUncalled
<1>10. QED
  BY <1>1, <1>2, <1>4, <1>5, <1>6, <1>7, <1>8, <1>9 DEF Sound, Live, r2

\* VoIpSession::Stop keeps the types of a session's members.
LEMMA StoppedType ==
  ASSUME NEW x \in Session
  PROVE  /\ Stopped(x) \in Session /\ Stopped(x).dismissed
         /\ Stopped(x).mediaAddresses = {} /\ Stopped(x).callId = x.callId
         /\ Stopped(x).protocol = x.protocol
         /\ Stopped(x).started => Stopped(x).stopped
  BY DEF Stopped, Session

\* VoIpSessions::Stop on sessions: both indexes lose them, m_byCallId by their
\* call ids, which are no other running session's.
LEMMA StopStep ==
  ASSUME NEW r, Sound(r), NEW S \in SUBSET (1 .. Len(r.sessions))
  PROVE  LET r2 == StopSessions(r, S)
         IN  /\ Sound(r2) /\ Frame(r, r2)
             /\ \A s \in S : r2.sessions[s].dismissed
             /\ \A s \in 1 .. Len(r.sessions) \ S : r2.sessions[s] = r.sessions[s]
             /\ \A a \in Address :
                  /\ r.byIpAndPort[a] \in S => r2.byIpAndPort[a] = 0
                  /\ r.byIpAndPort[a] \notin S => r2.byIpAndPort[a] = r.byIpAndPort[a]
             /\ \A s \in S : r.sessions[s].callId # NoCall
                               => r2.byCallId[r.sessions[s].callId] = 0
             /\ \A n \in Nat : Live(r, n) /\ (\A s \in S : ~r.sessions[s].dismissed /\ s # n)
                                 => Live(r2, n)
<1> DEFINE r2 == StopSessions(r, S)
           n == Len(r.sessions)
           byIp == [a \in Address |-> IF a \in Unmapped(r, S) THEN 0 ELSE r.byIpAndPort[a]]
           byId == [c \in Call \cup {NoCall} |->
                       IF c \in Unindexed(r, S) THEN 0 ELSE r.byCallId[c]]
           q == [s \in DOMAIN r.sessions |->
                    IF s \in S THEN Stopped(r.sessions[s]) ELSE r.sessions[s]]
<1>1. /\ WellFormed(r) /\ n \in Nat /\ r.sessions \in Seq(Session)
      /\ \A s \in 1 .. n : r.sessions[s] \in Session
      /\ r.byIpAndPort \in [Address -> Nat] /\ r.byCallId \in [Call \cup {NoCall} -> Nat]
      /\ \A a \in Address : r.byIpAndPort[a] \in 0 .. n
      /\ \A c \in Call \cup {NoCall} : r.byCallId[c] \in 0 .. n
      /\ 0 \notin S
  BY Fields DEF Sound, WellFormed
<1>2. r2 = [byIpAndPort |-> byIp, byCallId |-> byId, sessions |-> q]
  BY DEF StopSessions
<1>3. /\ q \in Seq(Session) /\ Len(q) = n
      /\ \A s \in S : q[s] = Stopped(r.sessions[s])
      /\ \A s \in 1 .. n \ S : q[s] = r.sessions[s]
  <2>1. \A s \in 1 .. n : (IF s \in S THEN Stopped(r.sessions[s]) ELSE r.sessions[s]) \in Session
    BY <1>1, StoppedType
  <2>2. DOMAIN r.sessions = 1 .. n
    BY <1>1
  <2>3. QED
    BY <1>1, <2>1, <2>2
<1>4. \A a \in Address : a \in Unmapped(r, S) <=> r.byIpAndPort[a] \in S
  BY <1>1 DEF Unmapped, Sound, AddressesOwned
<1>5. /\ byIp \in [Address -> Nat]
      /\ \A a \in Address : byIp[a] = IF r.byIpAndPort[a] \in S THEN 0 ELSE r.byIpAndPort[a]
  BY <1>1, <1>4
<1>6. /\ byId \in [Call \cup {NoCall} -> Nat]
      /\ \A c \in Call \cup {NoCall} : byId[c] = IF c \in Unindexed(r, S) THEN 0 ELSE r.byCallId[c]
  BY <1>1
<1>7. /\ NoCall \notin Unindexed(r, S)
      /\ \A c \in Call : c \in Unindexed(r, S) <=> \E s \in S : r.sessions[s].callId = c
      /\ \A s \in S : r.sessions[s].callId # NoCall => r.sessions[s].callId \in Unindexed(r, S)
  BY SentinelAssumption DEF Unindexed
<1>8. /\ r2.byIpAndPort = byIp /\ r2.byCallId = byId /\ r2.sessions = q
  BY <1>2
<1> HIDE DEF r2, byIp, byId, q
<1>9. WellFormed(r2)
  <2>1. r2 \in [ byIpAndPort : [Address -> Nat],
                 byCallId : [Call \cup {NoCall} -> Nat],
                 sessions : Seq(Session) ]
    BY <1>2, <1>3, <1>5, <1>6
  <2>2. \A a \in Address : byIp[a] \in 0 .. n
    BY <1>1, <1>5
  <2>3. \A c \in Call \cup {NoCall} : byId[c] \in 0 .. n
    BY <1>1, <1>6
  <2>4. QED
    BY <1>3, <1>8, <2>1, <2>2, <2>3 DEF WellFormed
<1>10. \A s \in S : /\ q[s].dismissed /\ q[s].mediaAddresses = {}
                    /\ q[s].callId = r.sessions[s].callId
                    /\ q[s].protocol = r.sessions[s].protocol
                    /\ q[s].started => q[s].stopped
  BY <1>1, <1>3, StoppedType
<1>11. AddressesOwned(r2)
  <2>1. ASSUME NEW a \in Address, byIp[a] # 0 PROVE a \in q[byIp[a]].mediaAddresses
    <3>1. byIp[a] = r.byIpAndPort[a] /\ byIp[a] \in 1 .. n \ S
      BY <1>1, <1>5, <2>1
    <3>2. a \in r.sessions[r.byIpAndPort[a]].mediaAddresses
      BY <2>1, <3>1 DEF Sound, AddressesOwned
    <3>3. QED
      BY <1>3, <3>1, <3>2
  <2>2. ASSUME NEW s \in 1 .. n
        PROVE  /\ q[s].mediaAddresses # {} => q[s].ipAndPort \in q[s].mediaAddresses
               /\ ~deployment.rtpAllowMultipleMappings
                     => q[s].mediaAddresses \subseteq {q[s].ipAndPort}
    <3>1. CASE s \in S
      BY <1>10, <3>1
    <3>2. CASE s \notin S
      BY <1>3, <3>2 DEF Sound, AddressesOwned
    <3>3. QED
      BY <3>1, <3>2
  <2>3. QED
    BY <1>3, <1>8, <2>1, <2>2 DEF AddressesOwned
<1>12. Frame(r, r2)
  BY <1>1, <1>3, <1>6, <1>7, <1>8, <1>10, SentinelAssumption DEF Frame
<1>13. ASSUME NEW m \in Nat, Live(r, m), \A s \in S : ~r.sessions[s].dismissed /\ s # m
       PROVE  Live(r2, m)
  <2>1. \A s \in S : r.sessions[s].callId # NoCall => r.byCallId[r.sessions[s].callId] = s
    BY <1>13 DEF Live, OthersReachable, Reachable
  <2>2. \A s \in 1 .. n : r.sessions[s].callId \in Call \cup {NoCall}
    BY <1>1 DEF Session
  <2>3. \A c \in Call : r.byCallId[c] # 0 /\ c \notin Unindexed(r, S) => r.byCallId[c] \notin S
    BY <1>7, <1>13 DEF Live, IndexesLive
  <2>4. IndexesLive(r2)
    BY <1>1, <1>3, <1>5, <1>6, <1>7, <1>8, <1>10, <1>13, <2>3 DEF Live, IndexesLive
  <2>5. ASSUME NEW t \in 1 .. n \ {m}, ~q[t].dismissed
        PROVE  Reachable(r2, t)
    <3>1. t \notin S /\ q[t] = r.sessions[t] /\ Reachable(r, t)
      BY <1>3, <1>10, <1>13, <2>5 DEF Live, OthersReachable
    <3>2. CASE q[t].callId # NoCall
      <4>1. q[t].callId \in Call /\ r.byCallId[q[t].callId] = t
        BY <2>2, <3>1, <3>2 DEF Reachable
      <4>2. q[t].callId \notin Unindexed(r, S)
        BY <1>7, <2>1, <3>1, <3>2, <4>1
      <4>3. QED
        BY <1>6, <1>8, <3>2, <4>1, <4>2 DEF Reachable
    <3>3. CASE q[t].callId = NoCall
      BY <1>5, <1>8, <3>1, <3>3 DEF Reachable
    <3>4. QED
      BY <3>2, <3>3
  <2>6. QED
    BY <1>3, <1>8, <2>4, <2>5 DEF Live, OthersReachable
<1>14. \A s \in S : r.sessions[s].callId # NoCall => r2.byCallId[r.sessions[s].callId] = 0
  BY <1>1, <1>6, <1>7, <1>8 DEF Session
<1>15. /\ \A s \in S : r2.sessions[s].dismissed
       /\ \A s \in 1 .. n \ S : r2.sessions[s] = r.sessions[s]
       /\ \A a \in Address :
            /\ r.byIpAndPort[a] \in S => r2.byIpAndPort[a] = 0
            /\ r.byIpAndPort[a] \notin S => r2.byIpAndPort[a] = r.byIpAndPort[a]
  BY <1>3, <1>5, <1>8, <1>10
<1>16. Sound(r2)
  BY <1>9, <1>11 DEF Sound
<1>17. QED
  BY <1>12, <1>13, <1>14, <1>15, <1>16 DEF r2

\* A registry that is right for all its sessions, and for all but one.
LEMMA LiveForAll ==
  ASSUME NEW r, NEW s \in Nat
  PROVE  /\ Live(r, 0) => Live(r, s)
         /\ Live(r, s) /\ (s \in 1 .. Len(r.sessions) => Reachable(r, s)) => Live(r, 0)
BY DEF Live, OthersReachable

\* An address is taken out of m_byIpAndPort.
Unmap(r, a) == [r EXCEPT !.byIpAndPort = [r.byIpAndPort EXCEPT ![a] = 0]]

\* An address taken out leads nowhere; its session must have another place, or be
\* the one in hand.
LEMMA UnmapStep ==
  ASSUME NEW r, Sound(r), NEW a \in Address
  PROVE  LET r2 == Unmap(r, a)
         IN  /\ Sound(r2) /\ Frame(r, r2)
             /\ r2.sessions = r.sessions /\ r2.byCallId = r.byCallId
             /\ r2.byIpAndPort[a] = 0
             /\ \A b \in Address \ {a} : r2.byIpAndPort[b] = r.byIpAndPort[b]
             /\ \A n \in Nat :
                  Live(r, n) /\ (\/ r.byIpAndPort[a] \in {0, n}
                                 \/ r.sessions[r.byIpAndPort[a]].callId # NoCall
                                 \/ r.sessions[r.byIpAndPort[a]].protocol # "RawRtp")
                    => Live(r2, n)
<1>1. /\ WellFormed(r) /\ r.sessions \in Seq(Session)
      /\ r.byIpAndPort \in [Address -> Nat] /\ r.byCallId \in [Call \cup {NoCall} -> Nat]
      /\ Len(r.sessions) \in Nat
      /\ \A b \in Address : r.byIpAndPort[b] \in 0 .. Len(r.sessions)
      /\ \A c \in Call \cup {NoCall} : r.byCallId[c] \in 0 .. Len(r.sessions)
  BY Fields DEF Sound, WellFormed
<1> DEFINE i == [r.byIpAndPort EXCEPT ![a] = 0]
           r2 == Unmap(r, a)
<1>2. /\ i \in [Address -> Nat]
      /\ i[a] = 0 /\ \A b \in Address \ {a} : i[b] = r.byIpAndPort[b]
      /\ \A b \in Address : i[b] \in 0 .. Len(r.sessions)
  BY <1>1
<1>3. r2 = [byIpAndPort |-> i, byCallId |-> r.byCallId, sessions |-> r.sessions]
  BY <1>1, NewIndex DEF Unmap
<1> HIDE DEF i, r2
<1>4. /\ WellFormed(r2) /\ r2.sessions = r.sessions /\ r2.byCallId = r.byCallId
      /\ r2.byIpAndPort = i
  BY <1>1, <1>2, <1>3, Registry
<1>5. AddressesOwned(r2)
  BY <1>1, <1>2, <1>4 DEF Sound, AddressesOwned
<1>6. Frame(r, r2)
  BY <1>4 DEF Frame
<1>7. ASSUME NEW n \in Nat, Live(r, n),
             \/ r.byIpAndPort[a] \in {0, n}
             \/ r.sessions[r.byIpAndPort[a]].callId # NoCall
             \/ r.sessions[r.byIpAndPort[a]].protocol # "RawRtp"
      PROVE  Live(r2, n)
  <2>1. IndexesLive(r2)
    BY <1>1, <1>2, <1>4, <1>7 DEF Live, IndexesLive
  <2>2. ASSUME NEW t \in 1 .. Len(r.sessions) \ {n}, ~r.sessions[t].dismissed
        PROVE  Reachable(r2, t)
    <3>1. Reachable(r, t)
      BY <1>7, <2>2 DEF Live, OthersReachable
    <3>2. CASE r.sessions[t].callId # NoCall \/ deployment.skinnyAllowLateCallInfo
      BY <1>4, <3>1, <3>2 DEF Reachable
    <3>3. CASE r.sessions[t].callId = NoCall /\ ~deployment.skinnyAllowLateCallInfo
      <4>1. PICK b \in Address : r.byIpAndPort[b] = t
        BY <3>1, <3>3 DEF Reachable
      <4>2. r.sessions[t].protocol = "RawRtp"
        BY <3>1, <3>3 DEF Reachable
      <4>3. b # a
        BY <1>7, <3>3, <4>1, <4>2
      <4>4. r2.byIpAndPort[b] = t
        BY <1>2, <1>4, <4>1, <4>3
      <4>5. QED
        BY <1>4, <3>3, <4>2, <4>4 DEF Reachable
    <3>4. QED
      BY <3>2, <3>3
  <2>3. QED
    BY <1>4, <2>1, <2>2 DEF Live, OthersReachable
<1>8. QED
  BY <1>2, <1>4, <1>5, <1>6, <1>7 DEF Sound, r2, i

\* The previous holder of an address makes room for session s.
LEMMA MakeRoomStep ==
  ASSUME NEW r, Sound(r), NEW a \in Address, NEW s \in 1 .. Len(r.sessions),
         s # r.byIpAndPort[a],
         NEW r2, r2 = MakeRoom(r, r.byIpAndPort[a], a)
  PROVE  /\ Sound(r2) /\ Frame(r, r2)
         /\ r2.byIpAndPort[a] = 0
         /\ \A b \in Address : r2.byIpAndPort[b] \in {0, r.byIpAndPort[b]}
         /\ r2.sessions[s] = r.sessions[s]
         /\ \A n \in {0, s} : Live(r, n) => Live(r2, n)
         /\ Spares(r, r2)
<1> DEFINE old == r.byIpAndPort[a]
<1>1. /\ old \in 0 .. Len(r.sessions) /\ Len(r.sessions) \in Nat
      /\ \A b \in Address : r.byIpAndPort[b] \in Nat
      /\ \A n \in {0, s} : n \in Nat
  BY Fields DEF Sound, WellFormed
<1>2. CASE old = 0
  BY <1>2 DEF MakeRoom, Frame, Spares
<1>3. CASE old # 0 /\ r.sessions[old].protocol = "RawRtp"
  <2>1. r2 = StopSessions(r, {old}) /\ {old} \in SUBSET (1 .. Len(r.sessions))
    BY <1>1, <1>3 DEF MakeRoom, StopSession
  <2>2. \A n \in {0, s} : Live(r, n) => ~r.sessions[old].dismissed /\ old # n
    BY <1>1, <1>3 DEF Live, IndexesLive
  <2>3. \A n \in {0, s} : Live(r, n) => Live(r2, n)
    BY <1>1, <2>1, <2>2, StopStep
  <2>4. /\ \A b \in Address : /\ r.byIpAndPort[b] = old => r2.byIpAndPort[b] = 0
                              /\ r.byIpAndPort[b] # old => r2.byIpAndPort[b] = r.byIpAndPort[b]
        /\ \A t \in 1 .. Len(r.sessions) \ {old} : r2.sessions[t] = r.sessions[t]
        /\ Sound(r2) /\ Frame(r, r2)
    BY <2>1, StopStep
  <2>5. Spares(r, r2)
    BY <1>3, <2>4 DEF Spares
  <2>6. QED
    BY <2>3, <2>4, <2>5
<1>4. CASE old # 0 /\ r.sessions[old].protocol # "RawRtp"
  <2>1. r2 = Unmap(r, a)
    BY <1>4, SentinelAssumption DEF MakeRoom, RemoveFromMediaAddressMap, Unmap
  <2>2. /\ Sound(r2) /\ Frame(r, r2) /\ r2.sessions = r.sessions
        /\ r2.byIpAndPort[a] = 0
        /\ \A b \in Address \ {a} : r2.byIpAndPort[b] = r.byIpAndPort[b]
        /\ \A n \in {0, s} : Live(r, n) => Live(r2, n)
    BY <1>1, <1>4, <2>1, UnmapStep
  <2>3. QED
    BY <2>2 DEF Spares
<1>5. QED
  BY <1>2, <1>3, <1>4

\* Without multiple mappings a session gives up the address it has.
LEMMA DropStep ==
  ASSUME NEW r, Sound(r), NEW s \in 1 .. Len(r.sessions),
         NEW r2, r2 = DropOldMapping(r, s)
  PROVE  /\ Sound(r2) /\ Frame(r, r2) /\ r2.byCallId = r.byCallId
         /\ \A b \in Address : r2.byIpAndPort[b] \in {0, r.byIpAndPort[b]}
         /\ r2.sessions[s].dismissed = r.sessions[s].dismissed
         /\ ~deployment.rtpAllowMultipleMappings => r2.sessions[s].mediaAddresses = {}
         /\ Live(r, s) => Live(r2, s)
         /\ Spares(r, r2)
<1> DEFINE x == r.sessions[s]
           a == x.ipAndPort
           r1 == RemoveFromMediaAddressMap(r, s, a)
           y == [x EXCEPT !.mediaAddresses = {}]
<1>1. /\ s \in Nat /\ Len(r.sessions) \in Nat /\ x \in Session
      /\ \A b \in Address : r.byIpAndPort[b] \in Nat
      /\ x.mediaAddresses \in SUBSET Address /\ a \in Address \cup {NoAddress}
  <2>1. WellFormed(r) /\ r.sessions[s] \in Session
    BY Fields DEF Sound
  <2>2. QED
    BY <2>1, Fields DEF Session
<1>2. CASE deployment.rtpAllowMultipleMappings
  BY <1>2 DEF DropOldMapping, Frame, Spares
<1>3. CASE ~deployment.rtpAllowMultipleMappings
  <2>1. /\ Sound(r1) /\ Frame(r, r1) /\ r1.byCallId = r.byCallId /\ r1.sessions = r.sessions
        /\ \A b \in Address : r1.byIpAndPort[b] \in {0, r.byIpAndPort[b]}
        /\ a \in Address => r1.byIpAndPort[a] # s
        /\ Live(r, s) => Live(r1, s)
    <3>1. CASE a # NoAddress /\ r.byIpAndPort[a] = s
      <4>1. a \in Address /\ r1 = Unmap(r, a)
        BY <1>1, <3>1 DEF RemoveFromMediaAddressMap, Unmap
      <4>2. /\ Sound(r1) /\ Frame(r, r1) /\ r1.byCallId = r.byCallId /\ r1.sessions = r.sessions
            /\ r1.byIpAndPort[a] = 0
            /\ \A b \in Address \ {a} : r1.byIpAndPort[b] = r.byIpAndPort[b]
            /\ Live(r, s) => Live(r1, s)
        BY <1>1, <3>1, <4>1, UnmapStep
      <4>3. QED
        BY <1>1, <4>2
    <3>2. CASE ~(a # NoAddress /\ r.byIpAndPort[a] = s)
      BY <3>2, SentinelAssumption DEF RemoveFromMediaAddressMap, Frame
    <3>3. QED
      BY <3>1, <3>2
  <2>2. r2 = [r1 EXCEPT !.sessions = [r1.sessions EXCEPT ![s] = y]]
    <3>1. r1.sessions[s] = x
      BY <2>1
    <3>2. QED
      BY <1>3, <3>1 DEF DropOldMapping
  <2> HIDE DEF r1
  <2>3. y \in Session /\ y.mediaAddresses = {} /\ y.callId = x.callId
        /\ y.dismissed = x.dismissed /\ y.protocol = x.protocol
        /\ y.started = x.started /\ y.stopped = x.stopped
    BY <1>1 DEF Session
  <2> HIDE DEF y
  <2>4. /\ WellFormed(r2) /\ r2.byIpAndPort = r1.byIpAndPort /\ r2.byCallId = r.byCallId
        /\ Len(r2.sessions) = Len(r.sessions) /\ r2.sessions[s] = y
        /\ \A t \in 1 .. Len(r.sessions) \ {s} : r2.sessions[t] = r.sessions[t]
    BY <2>1, <2>2, <2>3, SetSession DEF Sound
  <2>5. \A b \in Address : r1.byIpAndPort[b] # s
    <3>1. ASSUME NEW b \in Address, r1.byIpAndPort[b] = s PROVE FALSE
      <4>1. b \in x.mediaAddresses
        BY <1>1, <2>1, <3>1 DEF Sound, AddressesOwned
      <4>2. b = a
        BY <1>3, <4>1 DEF Sound, AddressesOwned
      <4>3. QED
        BY <2>1, <3>1, <4>2
    <3>2. QED
      BY <3>1
  <2>6. /\ \A b \in Address : r1.byIpAndPort[b] \in 0 .. Len(r.sessions)
        /\ \A c \in Call : r.byCallId[c] \in 0 .. Len(r.sessions)
    BY <2>1 DEF Sound, WellFormed
  <2>7. AddressesOwned(r2)
    BY SMTT(30), <2>1, <2>3, <2>4, <2>5, <2>6 DEF Sound, AddressesOwned
  <2>8. Frame(r, r2)
    BY <2>1, <2>3, <2>4 DEF Frame
  <2>9. ASSUME Live(r, s) PROVE Live(r2, s)
    <3>1. Live(r1, s)
      BY <2>1, <2>9
    <3>2. \A t \in 1 .. Len(r.sessions) :
            /\ r2.sessions[t].dismissed = r.sessions[t].dismissed
            /\ r2.sessions[t].callId = r.sessions[t].callId
            /\ r2.sessions[t].started = r.sessions[t].started
            /\ r2.sessions[t].stopped = r.sessions[t].stopped
      BY <2>3, <2>4
    <3>3. IndexesLive(r2)
      <4>1. IndexesLive(r1) /\ \A b \in Address : r1.byIpAndPort[b] \in Nat
        BY <1>1, <2>6, <3>1 DEF Live
      <4>2. \A b \in Address :
              r2.byIpAndPort[b] # 0 => ~r2.sessions[r2.byIpAndPort[b]].dismissed
        BY <1>1, <2>1, <2>4, <2>6, <3>2, <4>1 DEF IndexesLive
      <4>3. \A c \in Call :
              r2.byCallId[c] # 0 => /\ ~r2.sessions[r2.byCallId[c]].dismissed
                                    /\ r2.sessions[r2.byCallId[c]].callId = c
        BY SMTT(30), <1>1, <2>1, <2>4, <2>6, <3>2, <4>1 DEF IndexesLive
      <4>4. QED
        BY <2>1, <2>4, <3>2, <4>1, <4>2, <4>3 DEF IndexesLive
    <3>4. OthersReachable(r2, s)
      BY <2>1, <2>4, <3>1 DEF Live, OthersReachable, Reachable
    <3>5. QED
      BY <3>3, <3>4 DEF Live
  <2>10. QED
    BY <1>3, <2>1, <2>3, <2>4, <2>7, <2>8, <2>9 DEF Sound, Spares
<1>4. QED
  BY <1>2, <1>3

\* A free address is mapped to session s, which has no other one where it may
\* not have two.
LEMMA MapToStep ==
  ASSUME NEW r, Sound(r), NEW s \in 1 .. Len(r.sessions), NEW a \in Address,
         r.byIpAndPort[a] = 0,
         ~deployment.rtpAllowMultipleMappings => r.sessions[s].mediaAddresses = {},
         NEW r2, r2 = MapTo(r, s, a)
  PROVE  /\ Sound(r2) /\ Frame(r, r2) /\ r2.byCallId = r.byCallId
         /\ r2.byIpAndPort[a] = s
         /\ \A b \in Address \ {a} : r2.byIpAndPort[b] = r.byIpAndPort[b]
         /\ r2.sessions[s].dismissed = r.sessions[s].dismissed
         /\ Live(r, s) /\ ~r.sessions[s].dismissed => Live(r2, s)
         /\ Spares(r, r2)
<1> DEFINE x == r.sessions[s]
           y == [x EXCEPT !.mediaAddresses = x.mediaAddresses \cup {a}, !.ipAndPort = a]
           i == [r.byIpAndPort EXCEPT ![a] = s]
           q == [r.sessions EXCEPT ![s] = y]
           n == Len(r.sessions)
<1>1. /\ s \in Nat /\ s # 0 /\ n \in Nat /\ x \in Session
      /\ r.byIpAndPort \in [Address -> Nat] /\ r.byCallId \in [Call \cup {NoCall} -> Nat]
      /\ r.sessions \in Seq(Session)
      /\ r = [byIpAndPort |-> r.byIpAndPort, byCallId |-> r.byCallId,
              sessions |-> r.sessions]
      /\ \A b \in Address : r.byIpAndPort[b] \in 0 .. n
      /\ \A c \in Call \cup {NoCall} : r.byCallId[c] \in 0 .. n
  BY Fields DEF Sound, WellFormed
<1>2. /\ y \in Session /\ y.mediaAddresses = x.mediaAddresses \cup {a} /\ y.ipAndPort = a
      /\ y.callId = x.callId /\ y.dismissed = x.dismissed /\ y.protocol = x.protocol
      /\ y.started = x.started /\ y.stopped = x.stopped
  BY <1>1 DEF Session
<1>3. r2 = [byIpAndPort |-> i, byCallId |-> r.byCallId, sessions |-> q]
  <2>1. Insert(r.byIpAndPort, a, s) = i
    BY DEF Insert
  <2>2. r2 = [[r EXCEPT !.byIpAndPort = i] EXCEPT !.sessions = q]
    BY <2>1 DEF MapTo
  <2>3. [r EXCEPT !.byIpAndPort = i]
          = [byIpAndPort |-> i, byCallId |-> r.byCallId, sessions |-> r.sessions]
    BY NewIndex DEF Sound
  <2> HIDE DEF i, q
  <2>4. QED
    BY <2>2, <2>3
<1> HIDE DEF y
<1>4. /\ i \in [Address -> Nat] /\ i[a] = s
      /\ \A b \in Address \ {a} : i[b] = r.byIpAndPort[b]
      /\ \A b \in Address : i[b] \in 0 .. n
  BY <1>1
<1>5. /\ q \in Seq(Session) /\ Len(q) = n /\ q[s] = y
      /\ \A t \in 1 .. n \ {s} : q[t] = r.sessions[t]
  BY <1>1, <1>2
<1> HIDE DEF i, q
<1>6. WellFormed(r2) /\ r2.byIpAndPort = i /\ r2.byCallId = r.byCallId /\ r2.sessions = q
  <2> DEFINE c == r.byCallId
  <2>1. c \in [Call \cup {NoCall} -> Nat] /\ \A k \in Call \cup {NoCall} : c[k] \in 0 .. Len(q)
    BY <1>1, <1>5
  <2>2. r2 = [byIpAndPort |-> i, byCallId |-> c, sessions |-> q]
    BY <1>3
  <2>3. \A b \in Address : i[b] \in 0 .. Len(q)
    BY <1>4, <1>5
  <2> HIDE DEF c
  <2>4. r2.byIpAndPort = i /\ r2.byCallId = c /\ r2.sessions = q
    BY <2>2
  <2>5. r2 \in [ byIpAndPort : [Address -> Nat],
                 byCallId : [Call \cup {NoCall} -> Nat],
                 sessions : Seq(Session) ]
    BY <1>4, <1>5, <2>1, <2>2
  <2>6. WellFormed(r2)
    BY <2>1, <2>3, <2>4, <2>5 DEF WellFormed
  <2>7. QED
    BY <2>4, <2>6 DEF c
<1>7. \A t \in 1 .. n : /\ q[t].callId = r.sessions[t].callId
                        /\ q[t].dismissed = r.sessions[t].dismissed
                        /\ q[t].protocol = r.sessions[t].protocol
                        /\ q[t].started = r.sessions[t].started
                        /\ q[t].stopped = r.sessions[t].stopped
                        /\ r.sessions[t].mediaAddresses \subseteq q[t].mediaAddresses
  BY <1>2, <1>5
<1>8. AddressesOwned(r2)
  <2>1. ASSUME NEW b \in Address, i[b] # 0 PROVE b \in q[i[b]].mediaAddresses
    <3>1. CASE b = a
      BY <1>2, <1>4, <1>5, <3>1
    <3>2. CASE b # a
      <4>1. i[b] = r.byIpAndPort[b] /\ r.byIpAndPort[b] \in 1 .. n
        BY <1>1, <1>4, <2>1, <3>2
      <4>2. b \in r.sessions[r.byIpAndPort[b]].mediaAddresses
        BY <2>1, <4>1 DEF Sound, AddressesOwned
      <4>3. QED
        BY <1>7, <4>1, <4>2
    <3>3. QED
      BY <3>1, <3>2
  <2>2. ASSUME NEW t \in 1 .. n
        PROVE  /\ q[t].mediaAddresses # {} => q[t].ipAndPort \in q[t].mediaAddresses
               /\ ~deployment.rtpAllowMultipleMappings
                     => q[t].mediaAddresses \subseteq {q[t].ipAndPort}
    <3>1. CASE t = s
      BY <1>2, <1>5, <3>1
    <3>2. CASE t # s
      BY <1>5, <3>2 DEF Sound, AddressesOwned
    <3>3. QED
      BY <3>1, <3>2
  <2>3. QED
    BY <1>5, <1>6, <2>1, <2>2 DEF AddressesOwned
<1>9. Frame(r, r2)
  BY <1>5, <1>6, <1>7 DEF Frame
<1>10. ASSUME Live(r, s), ~x.dismissed PROVE Live(r2, s)
  <2>1. \A b \in Address : i[b] # 0 => ~q[i[b]].dismissed
    <3>1. ASSUME NEW b \in Address, i[b] # 0 PROVE ~q[i[b]].dismissed
      <4>1. CASE b = a
        BY <1>4, <1>7, <1>10, <4>1
      <4>2. CASE b # a
        <5>1. i[b] = r.byIpAndPort[b] /\ r.byIpAndPort[b] \in 1 .. n
          BY <1>1, <1>4, <3>1, <4>2
        <5>2. ~r.sessions[r.byIpAndPort[b]].dismissed
          BY <1>10, <3>1, <5>1 DEF Live, IndexesLive
        <5>3. QED
          BY <1>7, <5>1, <5>2
      <4>3. QED
        BY <4>1, <4>2
    <3>2. QED
      BY <3>1
  <2>2. ASSUME NEW c \in Call, r.byCallId[c] # 0
        PROVE  ~q[r.byCallId[c]].dismissed /\ q[r.byCallId[c]].callId = c
    <3>1. r.byCallId[c] \in 1 .. n
      BY <1>1, <2>2
    <3>2. QED
      BY <1>7, <1>10, <2>2, <3>1 DEF Live, IndexesLive
  <2>3. IndexesLive(r2)
    BY <1>5, <1>6, <1>7, <1>10, <2>1, <2>2 DEF Live, IndexesLive
  <2>4. ASSUME NEW t \in 1 .. n \ {s}, ~q[t].dismissed PROVE Reachable(r2, t)
    <3>1. Reachable(r, t) /\ q[t] = r.sessions[t]
      BY <1>5, <1>10, <2>4 DEF Live, OthersReachable
    <3>2. \A b \in Address : r.byIpAndPort[b] = t => i[b] = t
      BY <1>1, <1>4
    <3>3. QED
      BY <1>6, <3>1, <3>2 DEF Reachable
  <2>5. QED
    BY <1>5, <1>6, <2>3, <2>4 DEF Live, OthersReachable
<1>11. QED
  BY <1>2, <1>4, <1>5, <1>6, <1>7, <1>8, <1>9, <1>10 DEF Sound, Spares

\* SetMediaAddress moves the media of a session that is being made, or of one
\* that runs.
LEMMA SetMediaAddressStep ==
  ASSUME NEW r, Sound(r), NEW s \in 1 .. Len(r.sessions),
         NEW a \in Address \cup {NoAddress},
         NEW r2, r2 = SetMediaAddress(r, s, a)
  PROVE  /\ Sound(r2) /\ Frame(r, r2)
         /\ r2.sessions[s].dismissed = r.sessions[s].dismissed
         /\ a \in Address /\ r.byIpAndPort[a] = 0 => r2.byIpAndPort[a] = s
         /\ Live(r, s) /\ ~r.sessions[s].dismissed => Live(r2, s)
         /\ Live(r, 0) /\ ~r.sessions[s].dismissed => Live(r2, 0)
         /\ Spares(r, r2)
<1> DEFINE old == r.byIpAndPort[a]
           r0 == MakeRoom(r, old, a)
           r1 == DropOldMapping(r0, s)
<1>1. CASE r2 = r /\ (a \in Address => old # 0)
  BY <1>1 DEF Frame, Spares
<1>2. CASE a \in Address /\ old # s /\ r2 = MapTo(r1, s, a)
  <2>1. s \in Nat /\ Len(r.sessions) \in Nat /\ s # 0
    BY Fields DEF Sound
  <2>2. /\ Sound(r0) /\ Frame(r, r0) /\ r0.byIpAndPort[a] = 0
        /\ r0.sessions[s] = r.sessions[s]
        /\ \A n \in {0, s} : Live(r, n) => Live(r0, n)
        /\ Spares(r, r0)
    BY <1>2, MakeRoomStep
  <2>3. s \in 1 .. Len(r0.sessions)
    BY <2>2 DEF Frame
  <2> HIDE DEF r0
  <2>4. /\ Sound(r1) /\ Frame(r0, r1) /\ r1.byCallId = r0.byCallId
        /\ \A b \in Address : r1.byIpAndPort[b] \in {0, r0.byIpAndPort[b]}
        /\ r1.sessions[s].dismissed = r0.sessions[s].dismissed
        /\ ~deployment.rtpAllowMultipleMappings => r1.sessions[s].mediaAddresses = {}
        /\ Live(r0, s) => Live(r1, s)
        /\ Spares(r0, r1)
    BY <2>2, <2>3, DropStep
  <2>5. s \in 1 .. Len(r1.sessions) /\ r1.byIpAndPort[a] = 0
    BY <1>2, <2>2, <2>3, <2>4 DEF Frame
  <2> HIDE DEF r1
  <2>6. /\ Sound(r2) /\ Frame(r1, r2) /\ r2.byCallId = r1.byCallId
        /\ r2.byIpAndPort[a] = s
        /\ r2.sessions[s].dismissed = r1.sessions[s].dismissed
        /\ Live(r1, s) /\ ~r1.sessions[s].dismissed => Live(r2, s)
        /\ Spares(r1, r2)
    BY <1>2, <2>4, <2>5, MapToStep
  <2>7. Frame(r, r2)
    BY <2>2, <2>4, <2>6 DEF Frame
  <2>8. Live(r, s) /\ ~r.sessions[s].dismissed => Live(r2, s)
    BY <2>2, <2>4, <2>6
  <2>9. ASSUME Live(r, 0), ~r.sessions[s].dismissed PROVE Live(r2, 0)
    <3>1. Live(r, s)
      BY <2>1, <2>9, LiveForAll
    <3>2. Reachable(r0, s)
      BY <2>1, <2>2, <2>3, <2>9 DEF Live, OthersReachable
    <3>3. Reachable(r2, s)
      BY <1>2, <2>3, <2>4, <2>5, <2>6, <3>2 DEF Reachable, Frame
    <3>4. QED
      BY <2>1, <2>8, <2>9, <3>1, <3>3, LiveForAll
  <2>10. Spares(r, r2)
    BY <2>2, <2>4, <2>6 DEF Frame, Spares
  <2>11. QED
    BY <2>2, <2>4, <2>6, <2>7, <2>8, <2>9, <2>10
<1>3. CASE a = NoAddress
  BY <1>1, <1>3, SentinelAssumption DEF SetMediaAddress
<1>4. CASE a # NoAddress
  <2>1. a \in Address /\ s # 0
    BY <1>4, Fields DEF Sound
  <2>2. CASE old = 0 \/ (old # s /\ MayReplace(r, s, old))
    <3>1. r2 = MapTo(r1, s, a)
      BY <1>4, <2>2 DEF SetMediaAddress
    <3>2. QED
      BY <1>2, <2>1, <2>2, <3>1
  <2>3. CASE ~(old = 0 \/ (old # s /\ MayReplace(r, s, old)))
    BY <1>1, <1>4, <2>3 DEF SetMediaAddress
  <2>4. QED
    BY <2>2, <2>3
<1>5. QED
  BY <1>3, <1>4

-----------------------------------------------------------------------------
(* What the handlers do to the invariant.                                   *)

\* The deployments in which a session may come back into an index.
Reviving ==
    \/ deployment.mediaAddressUseSecondRtpAddress
    \/ deployment.rtpTrackUsingIpAddresses # {}

\* Keeps is the invariant's step: once a session is under the empty call id
\* one stays there.
Keeps(r, r2) ==
    /\ Sound(r2)
    /\ r.byCallId[NoCall] # 0 => r2.byCallId[NoCall] # 0
    /\ ~Reviving /\ Live(r, 0) => Live(r2, 0) \/ r2.byCallId[NoCall] # 0
    /\ RawUncalled(r) => RawUncalled(r2)

\* A step within the frame leaves raw RTP sessions without call ids.
LEMMA FrameKeepsRaw ==
  ASSUME NEW r, NEW r2, Frame(r, r2)
  PROVE  RawUncalled(r) => RawUncalled(r2)
BY DEF Frame, RawUncalled

\* The constructor's session.
LEMMA NewSessionType ==
  ASSUME NEW p \in Protocol, NEW c \in Call \cup {NoCall}, NEW h \in Host \cup {NoHost}
  PROVE  LET x == NewSession(p, c, h)
         IN  /\ x \in Session /\ x.protocol = p /\ x.callId = c /\ ~x.dismissed
             /\ x.mediaAddresses = {}
BY BoundAssumption DEF NewSession, Session

\* Under Live, the sessions that either index leads to run.
LEMMA IndexedRuns ==
  ASSUME NEW r, Sound(r)
  PROVE  /\ \A a \in Address : r.byIpAndPort[a] # 0 =>
              /\ r.byIpAndPort[a] \in 1 .. Len(r.sessions)
              /\ Live(r, 0) => ~r.sessions[r.byIpAndPort[a]].dismissed
         /\ \A c \in Call \cup {NoCall} : r.byCallId[c] # 0 =>
              /\ r.byCallId[c] \in 1 .. Len(r.sessions)
              /\ Live(r, 0) => ~r.sessions[r.byCallId[c]].dismissed
<1>1. /\ \A a \in Address : r.byIpAndPort[a] \in 0 .. Len(r.sessions)
      /\ \A c \in Call \cup {NoCall} : r.byCallId[c] \in 0 .. Len(r.sessions)
      /\ Len(r.sessions) \in Nat
  BY Fields DEF Sound, WellFormed
<1>2. QED
  BY <1>1 DEF Live, IndexesLive

\* VoIpSessions::Stop on sessions that run.
LEMMA StopKeeps ==
  ASSUME NEW r, Sound(r), NEW S \in SUBSET (1 .. Len(r.sessions)),
         Live(r, 0) => \A s \in S : ~r.sessions[s].dismissed
  PROVE  Keeps(r, StopSessions(r, S)) /\ Frame(r, StopSessions(r, S))
<1>1. 0 \notin S
  BY Fields DEF Sound
<1>2. Live(r, 0) => Live(StopSessions(r, S), 0)
  BY <1>1, StopStep
<1>3. QED
  BY SMTT(30), <1>2, StopStep DEF Keeps, Frame, RawUncalled

\* SetMediaAddress on a session that runs.
LEMMA MoveKeeps ==
  ASSUME NEW r, Sound(r), NEW s \in 1 .. Len(r.sessions),
         NEW a \in Address \cup {NoAddress},
         Live(r, 0) => ~r.sessions[s].dismissed
  PROVE  LET r2 == SetMediaAddress(r, s, a)
         IN  Keeps(r, r2) /\ Frame(r, r2) /\ Spares(r, r2)
<1> DEFINE r2 == SetMediaAddress(r, s, a)
<1>1. /\ Sound(r2) /\ Frame(r, r2) /\ Spares(r, r2)
      /\ Live(r, 0) => Live(r2, 0)
  BY SetMediaAddressStep
<1>2. QED
  BY <1>1, FrameKeepsRaw DEF Keeps, Frame

\* A session is entered in m_byCallId, under its call id.
Enter(r, c, s) == [r EXCEPT !.byCallId = [r.byCallId EXCEPT ![c] = s]]

\* A running session entered under its own, free, call id is reachable.
LEMMA IndexStep ==
  ASSUME NEW r, Sound(r), NEW s \in 1 .. Len(r.sessions), NEW c \in Call,
         r.byCallId[c] = 0,
         NEW r2, r2 = Enter(r, c, s)
  PROVE  /\ Sound(r2)
         /\ r2.byIpAndPort = r.byIpAndPort /\ r2.sessions = r.sessions
         /\ r2.byCallId[NoCall] = r.byCallId[NoCall]
         /\ Live(r, s) /\ ~r.sessions[s].dismissed /\ r.sessions[s].callId = c
              => Live(r2, 0)
<1> DEFINE i == [r.byCallId EXCEPT ![c] = s]
           n == Len(r.sessions)
<1>1. /\ s # 0 /\ n \in Nat
      /\ r.byIpAndPort \in [Address -> Nat] /\ r.byCallId \in [Call \cup {NoCall} -> Nat]
      /\ r.sessions \in Seq(Session)
      /\ \A b \in Address : r.byIpAndPort[b] \in 0 .. n
      /\ \A k \in Call \cup {NoCall} : r.byCallId[k] \in 0 .. n
  BY Fields DEF Sound, WellFormed
<1>2. r2 = [byIpAndPort |-> r.byIpAndPort, byCallId |-> i, sessions |-> r.sessions]
  BY NewIndex DEF Sound, Enter
<1>3. /\ i \in [Call \cup {NoCall} -> Nat] /\ i[c] = s
      /\ \A k \in (Call \cup {NoCall}) \ {c} : i[k] = r.byCallId[k]
      /\ \A k \in Call \cup {NoCall} : i[k] \in 0 .. n
  BY <1>1
<1> HIDE DEF i
<1>4. r2.byIpAndPort = r.byIpAndPort /\ r2.byCallId = i /\ r2.sessions = r.sessions
  BY <1>2
<1>5. r2 \in [ byIpAndPort : [Address -> Nat],
               byCallId : [Call \cup {NoCall} -> Nat],
               sessions : Seq(Session) ]
  <2>1. [byIpAndPort |-> r.byIpAndPort, byCallId |-> i, sessions |-> r.sessions]
          \in [ byIpAndPort : [Address -> Nat],
                byCallId : [Call \cup {NoCall} -> Nat],
                sessions : Seq(Session) ]
    BY <1>1, <1>3, RegistryType, Zenon
  <2>2. QED
    BY <1>2, <2>1, Zenon
<1>6. WellFormed(r2)
  BY <1>1, <1>3, <1>4, <1>5 DEF WellFormed
<1>7. AddressesOwned(r2)
  BY <1>4 DEF Sound, AddressesOwned
<1>8. i[NoCall] = r.byCallId[NoCall]
  BY <1>3, SentinelAssumption
<1>9. ASSUME Live(r, s), ~r.sessions[s].dismissed, r.sessions[s].callId = c
      PROVE  Live(r2, 0)
  <2>1. IndexesLive(r2)
    BY <1>1, <1>3, <1>4, <1>8, <1>9 DEF Live, IndexesLive
  <2>2. ASSUME NEW t \in 1 .. n, ~r.sessions[t].dismissed PROVE Reachable(r2, t)
    <3>1. CASE t = s
      BY <1>3, <1>4, <1>9, <3>1, SentinelAssumption DEF Reachable
    <3>2. CASE t # s
      <4>1. Reachable(r, t)
        BY <1>9, <2>2, <3>2 DEF Live, OthersReachable
      <4>2. r.sessions[t].callId \in Call \cup {NoCall}
        BY <1>1, <2>2, Fields DEF Sound, Session
      <4>3. r.sessions[t].callId # NoCall => r.sessions[t].callId # c
        BY <1>1, <2>2, <4>1 DEF Reachable
      <4>4. QED
        BY <1>3, <1>4, <4>1, <4>2, <4>3 DEF Reachable
    <3>3. QED
      BY <3>1, <3>2
  <2>3. QED
    BY <1>4, <2>1, <2>2 DEF Live, OthersReachable
<1>10. QED
  BY <1>4, <1>6, <1>7, <1>8, <1>9 DEF Sound

\* GoOnHold, GoOffHold and ForceRawRtp are quiet.
LEMMA HoldStep ==
  ASSUME NEW r, Sound(r), NEW s \in 1 .. Len(r.sessions),
         NEW r2, r2 \in {GoOnHold(r, s), GoOffHold(r, s)}
  PROVE  /\ Keeps(r, r2) /\ Frame(r, r2)
         /\ \A t \in 1 .. Len(r.sessions) :
               r2.sessions[t].dismissed = r.sessions[t].dismissed
         /\ Live(r, 0) => Live(r2, 0)
<1> DEFINE x == r.sessions[s]
<1>1. x \in Session
  BY Fields DEF Sound
<1>2. ASSUME NEW h \in BOOLEAN, r2 = [r EXCEPT !.sessions[s] =
                                          [x EXCEPT !.onHold = h, !.expired = FALSE]]
      PROVE  /\ Keeps(r, r2) /\ Frame(r, r2)
             /\ \A t \in 1 .. Len(r.sessions) :
                   r2.sessions[t].dismissed = r.sessions[t].dismissed
             /\ Live(r, 0) => Live(r2, 0)
  <2> DEFINE y == [x EXCEPT !.onHold = h, !.expired = FALSE]
  <2>1. y \in Session /\ Quiet(x, y) /\ y.dismissed = x.dismissed /\ StaysEnded(x, y)
    BY <1>1 DEF Session, Quiet, StaysEnded
  <2>2. r2 = [r EXCEPT !.sessions = [r.sessions EXCEPT ![s] = y]]
    BY <1>2
  <2> HIDE DEF y
  <2>3. /\ Sound(r2) /\ Frame(r, r2) /\ r2.byCallId = r.byCallId /\ r2.sessions[s] = y
        /\ \A t \in 1 .. Len(r.sessions) \ {s} : r2.sessions[t] = r.sessions[t]
        /\ Live(r, 0) => Live(r2, 0)
    BY <2>1, <2>2, QuietStep
  <2>4. QED
    BY <2>1, <2>3, FrameKeepsRaw DEF Keeps
<1>3. CASE r2 = GoOffHold(r, s)
  BY <1>2, <1>3 DEF GoOffHold
<1>4. CASE r2 = GoOnHold(r, s) /\ x.started
  BY <1>2, <1>4 DEF GoOnHold
<1>5. CASE r2 = GoOnHold(r, s) /\ ~x.started
  BY <1>5 DEF GoOnHold, Keeps, Frame
<1>6. QED
  BY <1>3, <1>4, <1>5

\* Raw RTP taking over the session keeps it where it was.
LEMMA ForceStep ==
  ASSUME NEW r, Sound(r), NEW s \in 0 .. Len(r.sessions),
         NEW r2, r2 = ForceRawRtp(r, s)
  PROVE  /\ Sound(r2) /\ Frame(r, r2) /\ r2.byCallId = r.byCallId
         /\ \A t \in 1 .. Len(r.sessions) :
               r2.sessions[t].dismissed = r.sessions[t].dismissed
         /\ Live(r, 0) => Live(r2, 0)
<1>1. CASE s # 0 /\ ~deployment.rtpAllowMultipleMappings
  <2> DEFINE x == r.sessions[s]
             y == [x EXCEPT !.protocol = "RawRtp"]
  <2>1. x \in Session /\ s \in 1 .. Len(r.sessions)
    BY <1>1, Fields DEF Sound
  <2>2. y \in Session /\ Quiet(x, y) /\ y.dismissed = x.dismissed /\ StaysEnded(x, y)
    BY <1>1, <2>1 DEF Session, Quiet, StaysEnded, Protocol
  <2>3. r2 = [r EXCEPT !.sessions = [r.sessions EXCEPT ![s] = y]]
    BY <1>1 DEF ForceRawRtp
  <2> HIDE DEF y
  <2>4. /\ Sound(r2) /\ Frame(r, r2) /\ r2.byCallId = r.byCallId /\ r2.sessions[s] = y
        /\ \A t \in 1 .. Len(r.sessions) \ {s} : r2.sessions[t] = r.sessions[t]
        /\ Live(r, 0) => Live(r2, 0)
    BY <2>1, <2>2, <2>3, QuietStep
  <2>5. QED
    BY <2>2, <2>4
<1>2. CASE ~(s # 0 /\ ~deployment.rtpAllowMultipleMappings)
  BY <1>2 DEF ForceRawRtp, Frame
<1>3. QED
  BY <1>1, <1>2

\* An INVITE for a session that is found.
LEMMA ReinviteKeeps ==
  ASSUME NEW r, Sound(r), NEW s \in 1 .. Len(r.sessions),
         NEW a \in Address \cup {NoAddress}, NEW sendonly \in BOOLEAN, NEW moves \in BOOLEAN,
         Live(r, 0) => ~r.sessions[s].dismissed
  PROVE  LET r2 == Reinvite(r, s, a, sendonly, moves)
         IN  Keeps(r, r2) /\ Len(r2.sessions) = Len(r.sessions) /\ Spares(r, r2)
<1> DEFINE r2 == Reinvite(r, s, a, sendonly, moves)
<1>5. \/ r2 = r \/ r2 = GoOnHold(r, s) \/ r2 = SetMediaAddress(r, s, a)
      \/ r2 = SetMediaAddress(GoOffHold(r, s), s, a)
  BY DEF Reinvite
<1> SUFFICES Keeps(r, r2) /\ Len(r2.sessions) = Len(r.sessions) /\ Spares(r, r2)
  OBVIOUS
<1> HIDE DEF r2
<1>1. CASE r2 = r
  BY <1>1 DEF Keeps, Spares
<1>2. CASE r2 = GoOnHold(r, s)
  BY <1>2, HoldStep DEF Frame, Spares
<1>3. CASE r2 = SetMediaAddress(r, s, a)
  BY <1>3, MoveKeeps DEF Frame
<1>4. CASE r2 = SetMediaAddress(GoOffHold(r, s), s, a)
  <2> DEFINE r1 == GoOffHold(r, s)
  <2>1. /\ Sound(r1) /\ Frame(r, r1) /\ s \in 1 .. Len(r1.sessions)
        /\ \A t \in 1 .. Len(r.sessions) :
              r1.sessions[t].dismissed = r.sessions[t].dismissed
        /\ Live(r, 0) => Live(r1, 0)
    <3>1. /\ Keeps(r, r1) /\ Frame(r, r1)
          /\ \A t \in 1 .. Len(r.sessions) :
                r1.sessions[t].dismissed = r.sessions[t].dismissed
          /\ Live(r, 0) => Live(r1, 0)
      BY HoldStep
    <3>2. QED
      BY <3>1 DEF Keeps, Frame
  <2> HIDE DEF r1
  <2>2. r2 = SetMediaAddress(r1, s, a)
    BY <1>4 DEF r1
  <2>3. /\ Sound(r2) /\ Frame(r1, r2) /\ Spares(r1, r2)
        /\ Live(r1, 0) /\ ~r1.sessions[s].dismissed => Live(r2, 0)
    BY <2>1, <2>2, SetMediaAddressStep
  <2>4. QED
    <3>1. RawUncalled(r) => RawUncalled(r2)
      BY <2>1, <2>3, FrameKeepsRaw
    <3>2. Spares(r, r2) /\ Len(r2.sessions) = Len(r.sessions)
      BY <2>1, <2>3 DEF Frame, Spares
    <3>3. QED
      BY <2>1, <2>3, <3>1, <3>2 DEF Keeps, Frame
<1>6. QED
  BY <1>1, <1>2, <1>3, <1>4, <1>5

\* The session of an INVITE with a new call id.
LEMMA NewSipSessionKeeps ==
  ASSUME NEW r, Sound(r), NEW c \in Call, r.byCallId[c] = 0,
         NEW a \in Address \cup {NoAddress}, NEW h \in Host \cup {NoHost},
         NEW r2, r2 = NewSipSession(r, c, a, h)
  PROVE  Keeps(r, r2) /\ Len(r2.sessions) = Len(r.sessions) + 1 /\ Spares(r, r2)
<1> DEFINE id == Len(r.sessions) + 1
           x == NewSession("Sip", c, h)
           r0 == Create(r, x)
           r1 == SetMediaAddress(r0, id, a)
<1>1. /\ x \in Session /\ x.callId = c /\ ~x.dismissed /\ x.mediaAddresses = {}
      /\ x.protocol = "Sip"
  BY NewSessionType DEF Protocol
<1> HIDE DEF x
<1>2. /\ Sound(r0) /\ Len(r0.sessions) = id /\ id \in 1 .. Len(r0.sessions)
      /\ r0.byCallId = r.byCallId /\ r0.sessions[id] = x
      /\ \A s \in 1 .. Len(r.sessions) : r0.sessions[s] = r.sessions[s]
      /\ Live(r, 0) => Live(r0, id)
      /\ RawUncalled(r) => RawUncalled(r0)
  BY <1>1, CreateStep
<1>3. r2 = [r1 EXCEPT !.byCallId = Insert(r1.byCallId, c, id)]
  BY DEF NewSipSession, x
<1> HIDE DEF r0
<1>4. /\ Sound(r1) /\ Frame(r0, r1) /\ Spares(r0, r1)
      /\ r1.sessions[id].dismissed = r0.sessions[id].dismissed
      /\ Live(r0, id) /\ ~r0.sessions[id].dismissed => Live(r1, id)
  BY <1>2, SetMediaAddressStep
<1> HIDE DEF r1
<1>5. /\ r1.byCallId[c] = 0 /\ r1.sessions[id].callId = c /\ id \in 1 .. Len(r1.sessions)
      /\ r1.byCallId[NoCall] = r.byCallId[NoCall] /\ Len(r1.sessions) = id
  BY <1>1, <1>2, <1>4 DEF Frame
<1>6. r2 = Enter(r1, c, id)
  BY <1>3, <1>5 DEF Insert, Enter
<1> HIDE DEF id
<1>7. /\ Sound(r2) /\ r2.sessions = r1.sessions
      /\ r2.byCallId[NoCall] = r1.byCallId[NoCall]
      /\ Live(r1, id) /\ ~r1.sessions[id].dismissed /\ r1.sessions[id].callId = c
           => Live(r2, 0)
  BY <1>4, <1>5, <1>6, IndexStep
<1>8. RawUncalled(r) => RawUncalled(r2)
  BY <1>2, <1>4, <1>7, FrameKeepsRaw DEF RawUncalled
<1>9. Spares(r, r2)
  BY <1>2, <1>4, <1>7 DEF Spares, id
<1>10. QED
  BY <1>1, <1>2, <1>4, <1>5, <1>7, <1>8, <1>9 DEF Keeps, id

\* A session without a call id, found on the phone's address, is the call that
\* a late CallInfo is about.
LEMMA AdoptKeeps ==
  ASSUME NEW r, Sound(r), NEW s \in 1 .. Len(r.sessions), NEW k \in Call,
         r.byCallId[k] = 0, r.sessions[s].callId = NoCall,
         deployment.skinnyAllowLateCallInfo,
         Live(r, 0) => ~r.sessions[s].dismissed,
         NEW r2, r2 = AdoptLateCallInfo(r, s, k)
  PROVE  Keeps(r, r2) /\ Len(r2.sessions) = Len(r.sessions)
<1> DEFINE x == r.sessions[s]
           y == [x EXCEPT !.callId = k]
           r1 == [r EXCEPT !.sessions = [r.sessions EXCEPT ![s] = y]]
           n == Len(r.sessions)
<1>1. /\ x \in Session /\ WellFormed(r) /\ n \in Nat /\ s \in Nat /\ s # 0
      /\ \A b \in Address : r.byIpAndPort[b] \in 0 .. n
      /\ \A c \in Call \cup {NoCall} : r.byCallId[c] \in 0 .. n
  BY Fields DEF Sound, WellFormed
<1>2. /\ y \in Session /\ y.callId = k /\ y.dismissed = x.dismissed
      /\ y.started = x.started /\ y.stopped = x.stopped
      /\ y.mediaAddresses = x.mediaAddresses /\ y.ipAndPort = x.ipAndPort
  BY <1>1 DEF Session
<1>3. r2 = [r1 EXCEPT !.byCallId = Insert(r.byCallId, k, s)]
  BY DEF AdoptLateCallInfo
<1> HIDE DEF y
<1>4. /\ WellFormed(r1) /\ r1.byIpAndPort = r.byIpAndPort /\ r1.byCallId = r.byCallId
      /\ Len(r1.sessions) = n /\ r1.sessions[s] = y
      /\ \A t \in 1 .. n \ {s} : r1.sessions[t] = r.sessions[t]
  BY <1>1, <1>2, SetSession
<1>5. r2 = Enter(r1, k, s)
  <2> HIDE DEF r1
  <2>1. QED
    BY <1>3, <1>4 DEF Insert, Enter
<1> HIDE DEF r1
<1>6. AddressesOwned(r1)
  <2>1. \A t \in 1 .. n : /\ r1.sessions[t].mediaAddresses = r.sessions[t].mediaAddresses
                          /\ r1.sessions[t].ipAndPort = r.sessions[t].ipAndPort
    BY <1>2, <1>4
  <2>2. \A b \in Address : r.byIpAndPort[b] # 0 => r.byIpAndPort[b] \in 1 .. n
    BY <1>1
  <2>3. QED
    BY SMTT(30), <1>4, <2>1, <2>2 DEF Sound, AddressesOwned
<1>7. ASSUME Live(r, 0) PROVE Live(r1, s)
  <2>1. \A c \in Call : r.byCallId[c] # s
    BY <1>1, <1>7, SentinelAssumption DEF Live, IndexesLive
  <2>2. IndexesLive(r1)
    <3>1. \A t \in 1 .. n :
            /\ r1.sessions[t].dismissed = r.sessions[t].dismissed
            /\ r1.sessions[t].started = r.sessions[t].started
            /\ r1.sessions[t].stopped = r.sessions[t].stopped
            /\ t # s => r1.sessions[t].callId = r.sessions[t].callId
      BY <1>2, <1>4
    <3>2. IndexesLive(r)
      BY <1>7 DEF Live
    <3>3. ASSUME NEW b \in Address, r1.byIpAndPort[b] # 0
          PROVE  ~r1.sessions[r1.byIpAndPort[b]].dismissed
      BY <1>1, <1>4, <3>1, <3>2, <3>3 DEF IndexesLive
    <3>4. ASSUME NEW c \in Call, r1.byCallId[c] # 0
          PROVE  /\ ~r1.sessions[r1.byCallId[c]].dismissed
                 /\ r1.sessions[r1.byCallId[c]].callId = c
      BY <1>1, <1>4, <2>1, <3>1, <3>2, <3>4 DEF IndexesLive
    <3>5. QED
      BY <1>4, <3>1, <3>2, <3>3, <3>4 DEF IndexesLive
  <2>3. OthersReachable(r1, s)
    BY <1>4, <1>7, <1>1 DEF Live, OthersReachable, Reachable
  <2>4. QED
    BY <2>2, <2>3 DEF Live
<1>8. Sound(r1) /\ s \in 1 .. Len(r1.sessions) /\ r1.byCallId[k] = 0
  BY <1>4, <1>6 DEF Sound
<1>9. /\ Sound(r2) /\ r2.sessions = r1.sessions
      /\ r2.byCallId[NoCall] = r1.byCallId[NoCall]
      /\ Live(r1, s) /\ ~r1.sessions[s].dismissed /\ r1.sessions[s].callId = k
           => Live(r2, 0)
  BY <1>5, <1>8, IndexStep
<1>10. QED
  BY <1>2, <1>4, <1>7, <1>9 DEF Keeps, RawUncalled

\* A session that the new call's CallInfo makes.
LEMMA NewSkinnySessionKeeps ==
  ASSUME NEW r, Sound(r), NEW k \in Call, r.byCallId[k] = 0, NEW h \in Host,
         NEW r2, r2 = Enter(Create(r, NewSession("Skinny", k, h)), k, Len(r.sessions) + 1)
  PROVE  Keeps(r, r2) /\ Len(r2.sessions) = Len(r.sessions) + 1
<1> DEFINE id == Len(r.sessions) + 1
           x == NewSession("Skinny", k, h)
           r0 == Create(r, x)
<1>1. /\ x \in Session /\ x.callId = k /\ ~x.dismissed /\ x.mediaAddresses = {}
      /\ x.protocol = "Skinny"
  BY NewSessionType DEF Protocol
<1> HIDE DEF x
<1>2. /\ Sound(r0) /\ Len(r0.sessions) = id /\ id \in 1 .. Len(r0.sessions)
      /\ r0.byCallId = r.byCallId /\ r0.sessions[id] = x
      /\ Live(r, 0) => Live(r0, id)
      /\ RawUncalled(r) => RawUncalled(r0)
  BY <1>1, CreateStep
<1>3. r2 = Enter(r0, k, id)
  BY DEF x
<1> HIDE DEF r0, id
<1>4. /\ Sound(r2) /\ r2.sessions = r0.sessions
      /\ r2.byCallId[NoCall] = r0.byCallId[NoCall]
      /\ Live(r0, id) /\ ~r0.sessions[id].dismissed /\ r0.sessions[id].callId = k
           => Live(r2, 0)
  BY <1>2, <1>3, IndexStep
<1>5. RawUncalled(r) => RawUncalled(r2)
  BY <1>2, <1>4 DEF RawUncalled
<1>6. QED
  BY <1>1, <1>2, <1>4, <1>5 DEF Keeps, id

\* A session made for media whose CallInfo is still to come.
LEMMA NewLateSessionKeeps ==
  ASSUME NEW r, Sound(r), NEW h \in Host, NEW a \in Address \cup {NoAddress},
         deployment.skinnyAllowLateCallInfo,
         NEW r2, r2 = SetMediaAddress(Create(r, NewSession("Skinny", NoCall, h)),
                                      Len(r.sessions) + 1, a)
  PROVE  Keeps(r, r2) /\ Len(r2.sessions) = Len(r.sessions) + 1
<1> DEFINE id == Len(r.sessions) + 1
           x == NewSession("Skinny", NoCall, h)
           r0 == Create(r, x)
<1>1. /\ x \in Session /\ x.callId = NoCall /\ ~x.dismissed /\ x.mediaAddresses = {}
  BY NewSessionType DEF Protocol
<1> HIDE DEF x
<1>2. /\ Sound(r0) /\ Len(r0.sessions) = id /\ id \in 1 .. Len(r0.sessions)
      /\ r0.byCallId = r.byCallId /\ r0.sessions[id] = x /\ id \in Nat
      /\ Live(r, 0) => Live(r0, id)
  BY <1>1, CreateStep, Fields DEF Sound
<1>3. r2 = SetMediaAddress(r0, id, a)
  BY DEF x
<1> HIDE DEF r0, id
<1>4. /\ Sound(r2) /\ Frame(r0, r2)
      /\ Live(r0, id) /\ ~r0.sessions[id].dismissed => Live(r2, id)
  BY <1>2, <1>3, SetMediaAddressStep
<1>5. Reachable(r2, id)
  BY <1>1, <1>2, <1>4 DEF Frame, Reachable
<1>6. Live(r, 0) => Live(r2, 0)
  BY <1>1, <1>2, <1>4, <1>5, LiveForAll
<1>7. QED
  BY <1>2, <1>4, <1>6 DEF Keeps, Frame, RawUncalled, id

\* VoIpSession::AddRtpPacket changes a session quietly, and may start it.
LEMMA PacketAdded ==
  ASSUME NEW x \in Session, NEW o, NEW b \in BOOLEAN
  PROVE  LET y == AddRtpPacket(x, o, b)
         IN  /\ y \in Session /\ Quiet(x, y)
             /\ y.callId = x.callId /\ y.protocol = x.protocol /\ y.dismissed = x.dismissed
<1> DEFINE awake == [x EXCEPT !.onHold = x.onHold /\ ~b, !.expired = x.expired /\ ~b]
           p == IF x.packets < MaxPackets THEN x.packets + 1 ELSE x.packets
           st == x.started \/ Starts(x)
           y == AddRtpPacket(x, o, b)
<1>1. p \in 0 .. MaxPackets /\ st \in BOOLEAN
  BY BoundAssumption DEF Session, Starts
<1>2. /\ awake \in Session /\ awake.packets = x.packets /\ awake.started = x.started
      /\ awake.callId = x.callId /\ awake.protocol = x.protocol
      /\ awake.dismissed = x.dismissed /\ awake.mediaAddresses = x.mediaAddresses
      /\ awake.ipAndPort = x.ipAndPort
  <2>1. (x.onHold /\ ~b) \in BOOLEAN /\ (x.expired /\ ~b) \in BOOLEAN
    OBVIOUS
  <2> DEFINE h == x.onHold /\ ~b
             e == x.expired /\ ~b
  <2>2. h \in BOOLEAN /\ e \in BOOLEAN
    BY <2>1
  <2> HIDE DEF h, e
  <2>3. awake = [x EXCEPT !.onHold = h, !.expired = e]
    BY DEF h, e
  <2> HIDE DEF awake
  <2>4. QED
    BY <2>2, <2>3 DEF Session
<1>3. CASE o # "counted"
  <2>1. y = awake
    BY <1>3 DEF AddRtpPacket
  <2> HIDE DEF y, awake
  <2>2. QED
    BY <1>2, <2>1 DEF Quiet, y
<1>4. CASE o = "counted"
  <2>1. y = [awake EXCEPT !.packets = p, !.started = st, !.expired = FALSE]
    BY <1>2, <1>4 DEF AddRtpPacket
  <2> HIDE DEF y, awake, p, st
  <2>2. /\ y \in Session
        /\ y.callId = x.callId /\ y.protocol = x.protocol
        /\ y.dismissed = x.dismissed /\ y.mediaAddresses = x.mediaAddresses
        /\ y.ipAndPort = x.ipAndPort
    BY <1>1, <1>2, <2>1 DEF Session
  <2>3. QED
    BY <2>2 DEF Quiet, y
<1>5. QED
  BY <1>3, <1>4

\* A packet is offered to a session, which takes it, leaves it, or is stopped.
LEMMA OfferStep ==
  ASSUME NEW r, Sound(r), NEW s \in 0 .. Len(r.sessions), NEW o,
         s # 0 /\ Live(r, 0) => ~r.sessions[s].dismissed,
         NEW r2, r2 \in Offer(r, s, o)
  PROVE  /\ Sound(r2) /\ Frame(r, r2)
         /\ Live(r, 0) => Live(r2, 0)
         /\ o # "foreign" => /\ r2.byIpAndPort = r.byIpAndPort
                             /\ \A t \in 1 .. Len(r.sessions) :
                                   r2.sessions[t].protocol = r.sessions[t].protocol
         /\ o = "foreign" /\ s # 0 =>
               \A a \in Address : /\ r.byIpAndPort[a] = s => r2.byIpAndPort[a] = 0
                                  /\ r.byIpAndPort[a] # s => r2.byIpAndPort[a] = r.byIpAndPort[a]
<1>1. CASE s = 0
  BY <1>1 DEF Offer, Frame
<1>2. CASE s # 0
  <2> DEFINE x == r.sessions[s]
  <2>1. x \in Session /\ s \in 1 .. Len(r.sessions) /\ s \in Nat
    BY <1>2, Fields DEF Sound
  <2>2. PICK b \in OffHoldChoices(x) :
          r2 = LET added == [r EXCEPT !.sessions[s] = AddRtpPacket(x, o, b)]
               IN  IF o = "foreign" THEN StopSession(added, s) ELSE added
    BY <1>2 DEF Offer
  <2> DEFINE y == AddRtpPacket(x, o, b)
             r1 == [r EXCEPT !.sessions = [r.sessions EXCEPT ![s] = y]]
  <2>3. b \in BOOLEAN
    BY DEF OffHoldChoices
  <2>4. r2 = IF o = "foreign" THEN StopSession(r1, s) ELSE r1
    BY <2>2
  <2>5. /\ y \in Session /\ Quiet(x, y) /\ y.callId = x.callId
        /\ y.protocol = x.protocol /\ y.dismissed = x.dismissed
    BY <2>1, <2>3, PacketAdded
  <2> HIDE DEF y
  <2>6. /\ Sound(r1) /\ Frame(r, r1) /\ r1.byIpAndPort = r.byIpAndPort
        /\ r1.byCallId = r.byCallId
        /\ r1.sessions[s] = y
        /\ \A t \in 1 .. Len(r.sessions) \ {s} : r1.sessions[t] = r.sessions[t]
        /\ \A n \in Nat : Live(r, n) /\ StaysEnded(x, y) => Live(r1, n)
    BY <2>1, <2>5, QuietStep
  <2> HIDE DEF r1
  <2>7. Live(r, 0) => Live(r1, 0) /\ ~r1.sessions[s].dismissed
    BY <1>2, <2>5, <2>6 DEF StaysEnded
  <2>8. \A t \in 1 .. Len(r.sessions) : r1.sessions[t].protocol = r.sessions[t].protocol
    BY <2>5, <2>6
  <2>9. CASE o # "foreign"
    BY <2>4, <2>6, <2>7, <2>8, <2>9
  <2>10. CASE o = "foreign"
    <3>1. r2 = StopSessions(r1, {s}) /\ {s} \in SUBSET (1 .. Len(r1.sessions))
      BY <2>1, <2>4, <2>6, <2>10 DEF StopSession, Frame
    <3>2. /\ Sound(r2) /\ Frame(r1, r2)
          /\ \A a \in Address : /\ r1.byIpAndPort[a] \in {s} => r2.byIpAndPort[a] = 0
                                /\ r1.byIpAndPort[a] \notin {s}
                                     => r2.byIpAndPort[a] = r1.byIpAndPort[a]
          /\ \A n \in Nat : Live(r1, n) /\ (\A t \in {s} : ~r1.sessions[t].dismissed /\ t # n)
                              => Live(r2, n)
      BY <2>6, <3>1, StopStep
    <3>3. Live(r, 0) => Live(r2, 0)
      BY <1>2, <2>7, <3>2
    <3>4. Frame(r, r2)
      BY <2>6, <3>2 DEF Frame
    <3>5. QED
      BY <2>6, <2>10, <3>2, <3>3, <3>4
  <2>11. QED
    BY <2>9, <2>10
<1>3. QED
  BY <1>1, <1>2

\* Two sessions share a stream: one loses an end, or one is stopped.
LEMMA MergeKeeps ==
  ASSUME NEW r, Sound(r), NEW src \in Address, NEW dst \in Address,
         NEW s1, NEW s2, s1 = r.byIpAndPort[src], s2 = r.byIpAndPort[dst],
         s1 # 0, s2 # 0,
         NEW r2, r2 \in Merge(r, s1, s2, src, dst)
  PROVE  /\ Keeps(r, r2) /\ Len(r2.sessions) = Len(r.sessions)
         /\ Live(r, 0) => Live(r2, 0)
         /\ s1 # s2 => r2.byIpAndPort[src] = s1 \/ r2.byIpAndPort[dst] = s2
<1> DEFINE Done == /\ Keeps(r, r2) /\ Len(r2.sessions) = Len(r.sessions)
                   /\ Live(r, 0) => Live(r2, 0)
                   /\ s1 # s2 => r2.byIpAndPort[src] = s1 \/ r2.byIpAndPort[dst] = s2
<1>1. /\ s1 \in 1 .. Len(r.sessions) /\ s2 \in 1 .. Len(r.sessions) /\ s1 \in Nat /\ s2 \in Nat
      /\ Live(r, 0) => ~r.sessions[s1].dismissed /\ ~r.sessions[s2].dismissed
  BY IndexedRuns, Fields DEF Sound
<1>2. CASE r2 = r
  BY <1>2 DEF Keeps, RawUncalled
<1>3. ASSUME NEW a \in {src, dst}, r2 = Unmap(r, a),
             r.sessions[r.byIpAndPort[a]].protocol = "Sip"
      PROVE  Done
  <2>1. /\ Sound(r2) /\ Frame(r, r2)
        /\ Live(r, 0) => Live(r2, 0)
        /\ \A b \in Address \ {a} : r2.byIpAndPort[b] = r.byIpAndPort[b]
    BY <1>3, UnmapStep
  <2>2. QED
    BY <2>1 DEF Keeps, Frame, RawUncalled
<1>4. ASSUME NEW s \in {s1, s2}, r2 = StopSession(r, s)
      PROVE  Done
  <2>1. r2 = StopSessions(r, {s}) /\ {s} \in SUBSET (1 .. Len(r.sessions))
    BY <1>1, <1>4 DEF StopSession
  <2>2. Live(r, 0) => \A t \in {s} : ~r.sessions[t].dismissed
    BY <1>1, <1>4
  <2>3. Live(r, 0) => Live(r2, 0)
    BY <1>1, <1>4, <2>1, <2>2, StopStep
  <2>4. s1 # s2 => r2.byIpAndPort[src] = s1 \/ r2.byIpAndPort[dst] = s2
    <3>1. \A a \in Address : r.byIpAndPort[a] \notin {s} => r2.byIpAndPort[a] = r.byIpAndPort[a]
      BY <2>1, StopStep
    <3>2. QED
      BY <1>4, <3>1
  <2>5. QED
    BY <2>1, <2>2, <2>3, <2>4, StopKeeps DEF Frame
<1>5. CASE SharesStream(r, s1, s2)
  <2>1. r.sessions[s1].protocol = "Sip" /\ r.sessions[s2].protocol = "Sip"
    BY <1>5 DEF SharesStream
  <2>2. r2 = r \/ r2 = Unmap(r, dst) \/ r2 = Unmap(r, src)
    BY <1>5 DEF Merge, TakeOver, Unmap
  <2>3. QED
    BY <1>2, <1>3, <2>1, <2>2
<1>6. CASE ~SharesStream(r, s1, s2)
  <2>1. Mergees(r, s1, s2, src, dst) \subseteq {s1, s2}
    BY DEF Mergees
  <2>2. PICK s \in Mergees(r, s1, s2, src, dst) : r2 = StopSession(r, s)
    BY <1>6 DEF Merge
  <2>3. QED
    BY <1>4, <2>1, <2>2
<1>7. QED
  BY <1>5, <1>6

\* One end took the packet.  The addresses the session may be given here are
\* what Reviving is about.
LEMMA RetrackKeeps ==
  ASSUME NEW r, Sound(r), NEW s \in 1 .. Len(r.sessions), NEW other \in Address,
         NEW src \in Address, NEW dst \in Address,
         NEW r2, r2 = Retrack(r, s, other, src, dst)
  PROVE  /\ Keeps(r, r2) /\ Len(r2.sessions) = Len(r.sessions)
         /\ ~Reviving => r2 = r
<1> DEFINE second == IF deployment.mediaAddressUseSecondRtpAddress
                     THEN SetMediaAddress(r, s, other) ELSE r
           tracking == IF IsTracking(dst) THEN dst
                       ELSE IF IsTracking(src) THEN src ELSE NoAddress
<1>1. tracking \in Address \cup {NoAddress}
  OBVIOUS
<1>2. r2 = second \/ r2 = SetMediaAddress(second, s, tracking)
  BY DEF Retrack
<1>3. Sound(second) /\ Frame(r, second)
  BY SetMediaAddressStep DEF Frame
<1>4. ~Reviving => second = r /\ tracking = NoAddress
  BY DEF Reviving, IsTracking
<1> HIDE DEF second, tracking
<1>5. s \in 1 .. Len(second.sessions)
  BY <1>3 DEF Frame
<1>6. Sound(r2) /\ Frame(second, r2)
  <2>1. CASE r2 = second
    BY <1>3, <2>1 DEF Frame
  <2>2. CASE r2 = SetMediaAddress(second, s, tracking)
    BY <1>1, <1>3, <1>5, <2>2, SetMediaAddressStep
  <2>3. QED
    BY <1>2, <2>1, <2>2
<1>7. ~Reviving => r2 = r
  BY <1>2, <1>4 DEF SetMediaAddress
<1>8. QED
  BY <1>3, <1>6, <1>7 DEF Keeps, Frame, RawUncalled

\* Nobody took the packet: a raw RTP session is made and mapped.
LEMMA NewRawRtpKeeps ==
  ASSUME NEW r, Sound(r), NEW src \in Address, NEW dst \in Address,
         ~Reviving => r.byIpAndPort[dst] = 0,
         NEW r2, r2 = NewRawRtp(r, src, dst)
  PROVE  /\ Keeps(r, r2) /\ Len(r2.sessions) = Len(r.sessions) + 1
         /\ ~Reviving => r2.byIpAndPort[dst] = Len(r.sessions) + 1
         /\ ~Reviving /\ Live(r, 0) => Live(r2, 0)
<1> DEFINE a == IF IsTracking(src) THEN src ELSE dst
           id == Len(r.sessions) + 1
           x == NewSession("RawRtp", NoCall, HostOf[a])
           r0 == Create(r, x)
           r1 == SetMediaAddress(r0, id, a)
           y == AddRtpPacket(r1.sessions[id], "counted", FALSE)
<1>1. a \in Address /\ HostOf[a] \in Host /\ (~Reviving => a = dst)
  BY HostOfAssumption DEF Reviving, IsTracking
<1>2. /\ x \in Session /\ x.callId = NoCall /\ ~x.dismissed /\ x.mediaAddresses = {}
      /\ x.protocol = "RawRtp"
  BY <1>1, NewSessionType DEF Protocol
<1>3. r2 = [r1 EXCEPT !.sessions = [r1.sessions EXCEPT ![id] = y]]
  BY DEF NewRawRtp
<1> HIDE DEF x, a
<1>4. /\ Sound(r0) /\ Len(r0.sessions) = id /\ id \in 1 .. Len(r0.sessions)
      /\ r0.byCallId = r.byCallId /\ r0.byIpAndPort = r.byIpAndPort
      /\ r0.sessions[id] = x
      /\ Live(r, 0) => Live(r0, id)
      /\ RawUncalled(r) => RawUncalled(r0)
  BY <1>2, CreateStep
<1> HIDE DEF r0
<1>5. /\ Sound(r1) /\ Frame(r0, r1)
      /\ r1.sessions[id].dismissed = r0.sessions[id].dismissed
      /\ r0.byIpAndPort[a] = 0 => r1.byIpAndPort[a] = id
      /\ Live(r0, id) /\ ~r0.sessions[id].dismissed => Live(r1, id)
  BY <1>1, <1>4, SetMediaAddressStep
<1> HIDE DEF r1
<1>6. /\ r1.sessions[id].callId = NoCall /\ r1.sessions[id].protocol = "RawRtp"
      /\ ~r1.sessions[id].dismissed /\ id \in 1 .. Len(r1.sessions)
      /\ Len(r1.sessions) = id /\ id \in Nat
      /\ r1.sessions[id] \in Session
      /\ r1.byCallId[NoCall] = r.byCallId[NoCall]
  <2>1. /\ r1.sessions[id].callId = NoCall /\ r1.sessions[id].protocol = "RawRtp"
        /\ ~r1.sessions[id].dismissed /\ id \in 1 .. Len(r1.sessions)
        /\ Len(r1.sessions) = id /\ r1.byCallId[NoCall] = r.byCallId[NoCall]
    BY <1>2, <1>4, <1>5 DEF Frame
  <2>2. r1.sessions[id] \in Session
    BY <1>5, <2>1, Fields DEF Sound
  <2>3. id \in Nat
    BY Fields DEF Sound
  <2>4. QED
    BY <2>1, <2>2, <2>3
<1>7. /\ y \in Session /\ Quiet(r1.sessions[id], y)
      /\ y.callId = NoCall /\ y.protocol = "RawRtp" /\ y.dismissed = r1.sessions[id].dismissed
  BY <1>6, PacketAdded
<1> HIDE DEF y, id
<1>8. /\ Sound(r2) /\ Frame(r1, r2) /\ r2.byIpAndPort = r1.byIpAndPort
      /\ r2.byCallId = r1.byCallId /\ r2.sessions[id] = y
      /\ \A n \in Nat : Live(r1, n) /\ StaysEnded(r1.sessions[id], y) => Live(r2, n)
  BY <1>3, <1>5, <1>6, <1>7, QuietStep
<1>9. ASSUME ~Reviving, Live(r, 0) PROVE Live(r2, 0)
  <2>1. Live(r2, id)
    BY <1>2, <1>4, <1>5, <1>6, <1>8, <1>9 DEF StaysEnded
  <2>2. r2.byIpAndPort[a] = id
    BY <1>1, <1>4, <1>5, <1>8, <1>9
  <2>3. Reachable(r2, id)
    BY <1>1, <1>7, <1>8, <2>2 DEF Reachable
  <2>4. QED
    BY <1>6, <2>1, <2>3, LiveForAll
<1>10. ~Reviving => r2.byIpAndPort[dst] = id
  BY <1>1, <1>4, <1>5, <1>8
<1>11. RawUncalled(r) => RawUncalled(r2)
  BY <1>4, <1>5, <1>8, FrameKeepsRaw
<1>12. QED
  BY <1>6, <1>8, <1>9, <1>10, <1>11 DEF Keeps, Frame, id

\* A new session enters both indexes, where its places are free.
Replace(r, p, c, s) ==
    [r EXCEPT !.byIpAndPort = Insert(r.byIpAndPort, p, s),
              !.byCallId = Insert(r.byCallId, c, s)]

\* Entering the new session in both indexes keeps them true and makes it
\* reachable.
LEMMA ReplaceStep ==
  ASSUME NEW r, Sound(r), NEW s \in 1 .. Len(r.sessions),
         NEW p \in Address, NEW c \in Call \cup {NoCall},
         p \in r.sessions[s].mediaAddresses,
         NEW r2, r2 = Replace(r, p, c, s)
  PROVE  /\ Sound(r2) /\ r2.sessions = r.sessions
         /\ r.byCallId[NoCall] # 0 \/ c = NoCall => r2.byCallId[NoCall] # 0
         /\ /\ Live(r, s) /\ ~r.sessions[s].dismissed
            /\ c \in Call /\ r.sessions[s].callId = c /\ r.byCallId[c] = 0
            => Live(r2, 0)
<1> DEFINE i == Insert(r.byIpAndPort, p, s)
           k == Insert(r.byCallId, c, s)
           n == Len(r.sessions)
<1>1. /\ r.byIpAndPort \in [Address -> Nat] /\ r.byCallId \in [Call \cup {NoCall} -> Nat]
      /\ r.sessions \in Seq(Session) /\ n \in Nat /\ s \in Nat /\ s # 0
      /\ \A a \in Address : r.byIpAndPort[a] \in 0 .. n
      /\ \A d \in Call \cup {NoCall} : r.byCallId[d] \in 0 .. n
      /\ \A t \in 1 .. n : r.sessions[t].callId \in Call \cup {NoCall}
  <2>1. /\ r.byIpAndPort \in [Address -> Nat] /\ r.byCallId \in [Call \cup {NoCall} -> Nat]
        /\ r.sessions \in Seq(Session) /\ n \in Nat /\ s \in Nat /\ s # 0
        /\ \A a \in Address : r.byIpAndPort[a] \in 0 .. n
        /\ \A d \in Call \cup {NoCall} : r.byCallId[d] \in 0 .. n
        /\ \A t \in 1 .. n : r.sessions[t] \in Session
    BY Fields DEF Sound, WellFormed
  <2>2. \A t \in 1 .. n : r.sessions[t].callId \in Call \cup {NoCall}
    BY <2>1 DEF Session
  <2>3. QED
    BY <2>1, <2>2
<1>2. /\ i \in [Address -> Nat]
      /\ \A a \in Address : \/ i[a] = r.byIpAndPort[a]
                            \/ a = p /\ i[a] = s /\ r.byIpAndPort[a] = 0
  BY <1>1 DEF Insert
<1>3. /\ k \in [Call \cup {NoCall} -> Nat]
      /\ \A d \in Call \cup {NoCall} :
            \/ k[d] = r.byCallId[d]
            \/ d = c /\ k[d] = s /\ r.byCallId[d] = 0
      /\ k[c] # 0
      /\ r.byCallId[c] = 0 => k[c] = s
  BY <1>1 DEF Insert
<1>4. r2 = [byIpAndPort |-> i, byCallId |-> k, sessions |-> r.sessions]
  <2>1. r2 = [[r EXCEPT !.byIpAndPort = i] EXCEPT !.byCallId = k]
    BY DEF Replace
  <2> HIDE DEF i, k
  <2>2. [r EXCEPT !.byIpAndPort = i]
          = [byIpAndPort |-> i, byCallId |-> r.byCallId, sessions |-> r.sessions]
    BY NewIndex DEF Sound
  <2>3. QED
    BY <2>1, <2>2
<1> HIDE DEF i, k
<1>5. r2.byIpAndPort = i /\ r2.byCallId = k /\ r2.sessions = r.sessions
  BY <1>4
<1>6. WellFormed(r2)
  <2>1. [byIpAndPort |-> i, byCallId |-> k, sessions |-> r.sessions]
          \in [ byIpAndPort : [Address -> Nat],
                byCallId : [Call \cup {NoCall} -> Nat],
                sessions : Seq(Session) ]
    BY <1>1, <1>2, <1>3, RegistryType, Zenon
  <2>2. r2 \in [ byIpAndPort : [Address -> Nat],
                 byCallId : [Call \cup {NoCall} -> Nat],
                 sessions : Seq(Session) ]
    BY <1>4, <2>1, Zenon
  <2>3. \A a \in Address : i[a] \in 0 .. n
    BY <1>1, <1>2
  <2>4. \A d \in Call \cup {NoCall} : k[d] \in 0 .. n
    BY <1>1, <1>3
  <2>5. QED
    BY <1>5, <2>2, <2>3, <2>4 DEF WellFormed
<1>7. AddressesOwned(r2)
  <2>1. ASSUME NEW a \in Address, i[a] # 0 PROVE a \in r.sessions[i[a]].mediaAddresses
    BY <1>1, <1>2, <2>1 DEF Sound, AddressesOwned
  <2>2. QED
    BY <1>5, <2>1 DEF Sound, AddressesOwned
<1>8. r.byCallId[NoCall] # 0 \/ c = NoCall => k[NoCall] # 0
  BY <1>1, <1>3
<1>9. ASSUME Live(r, s), ~r.sessions[s].dismissed,
             c \in Call, r.sessions[s].callId = c, r.byCallId[c] = 0
      PROVE  Live(r2, 0)
  <2>1. IndexesLive(r) /\ OthersReachable(r, s) /\ k[c] = s /\ c # NoCall
    BY <1>3, <1>9, SentinelAssumption DEF Live
  <2>2. k[NoCall] = 0
    BY <1>3, <2>1 DEF IndexesLive
  <2>3. ASSUME NEW a \in Address, i[a] # 0 PROVE ~r.sessions[i[a]].dismissed
    BY <1>1, <1>2, <1>9, <2>1, <2>3 DEF IndexesLive
  <2>4. ASSUME NEW d \in Call, k[d] # 0
        PROVE  ~r.sessions[k[d]].dismissed /\ r.sessions[k[d]].callId = d
    BY <1>1, <1>3, <1>9, <2>1, <2>4 DEF IndexesLive
  <2>5. IndexesLive(r2)
    BY <1>5, <2>1, <2>2, <2>3, <2>4 DEF IndexesLive
  <2>6. ASSUME NEW t \in 1 .. n, ~r.sessions[t].dismissed PROVE Reachable(r2, t)
    <3>1. CASE t = s
      BY <1>5, <1>9, <2>1, <3>1 DEF Reachable
    <3>2. CASE t # s
      <4>1. Reachable(r, t) /\ t # 0
        BY <1>1, <2>1, <2>6, <3>2 DEF OthersReachable
      <4>2. r.sessions[t].callId \in Call \cup {NoCall}
        BY <1>1
      <4>3. \A d \in Call : r.byCallId[d] = t => k[d] = t
        BY <1>3, <4>1
      <4>4. \A a \in Address : r.byIpAndPort[a] = t => i[a] = t
        BY <1>2, <4>1
      <4>5. QED
        BY <1>5, <4>1, <4>2, <4>3, <4>4 DEF Reachable
    <3>3. QED
      BY <3>1, <3>2
  <2>7. QED
    BY <1>5, <2>5, <2>6 DEF Live, OthersReachable
<1>10. QED
  BY <1>5, <1>6, <1>7, <1>8, <1>9 DEF Sound

\* CopyMetadataToNewSession keeps the identity and the addresses.
LEMMA SuccessorType ==
  ASSUME NEW y \in Session
  PROVE  LET x == Successor(y)
         IN  /\ x \in Session /\ x.callId = y.callId /\ ~x.dismissed /\ x.protocol = y.protocol
             /\ x.ipAndPort = y.ipAndPort /\ x.mediaAddresses = y.mediaAddresses
<1> DEFINE z == NewSession(y.protocol, y.callId, y.endPoint)
           x == Successor(y)
<1>1. y.protocol \in Protocol /\ y.callId \in Call \cup {NoCall} /\ y.endPoint \in Host \cup {NoHost}
  BY DEF Session
<1>2. z \in Session /\ z.callId = y.callId /\ ~z.dismissed /\ z.protocol = y.protocol
  <2> DEFINE p == y.protocol
             c == y.callId
             h == y.endPoint
  <2>1. p \in Protocol /\ c \in Call \cup {NoCall} /\ h \in Host \cup {NoHost}
    BY <1>1
  <2>2. z = NewSession(p, c, h)
    OBVIOUS
  <2> HIDE DEF z, p, c, h
  <2>3. z \in Session /\ z.callId = c /\ ~z.dismissed /\ z.protocol = p
    BY <2>1, <2>2, NewSessionType
  <2>4. QED
    BY <2>3 DEF c, p
<1>3. x = [z EXCEPT !.ipAndPort = y.ipAndPort, !.mediaAddresses = y.mediaAddresses]
  BY DEF Successor
<1> HIDE DEF z, x
<1>4. y.ipAndPort \in Address \cup {NoAddress} /\ y.mediaAddresses \in SUBSET Address
  BY DEF Session
<1>5. QED
  BY <1>2, <1>3, <1>4 DEF Session, x

\* A successor takes a stopped session's place.  A raw RTP session's is found
\* under the empty call id from then on.
LEMMA StopCaptureKeeps ==
  ASSUME NEW r, Sound(r), NEW s \in 1 .. Len(r.sessions),
         NEW b \in Address, r.byIpAndPort[b] = s
  PROVE  LET x == Successor(r.sessions[s])
             r2 == Replace(StopSession(Create(r, x), s), x.ipAndPort, x.callId,
                           Len(r.sessions) + 1)
         IN  Keeps(r, r2) /\ Len(r2.sessions) = Len(r.sessions) + 1
<1> DEFINE old == r.sessions[s]
           x == Successor(old)
           id == Len(r.sessions) + 1
           r0 == Create(r, x)
           r1 == StopSession(r0, s)
           r2 == Replace(r1, x.ipAndPort, x.callId, id)
<1>1. /\ old \in Session /\ s \in Nat /\ s # 0 /\ id \in Nat /\ s # id
      /\ old.ipAndPort \in Address /\ old.ipAndPort \in old.mediaAddresses
      /\ ~deployment.rtpAllowMultipleMappings => old.mediaAddresses \subseteq {old.ipAndPort}
      /\ Live(r, 0) => ~old.dismissed
  <2>1. old \in Session /\ s \in Nat /\ s # 0 /\ id \in Nat /\ s # id
    BY Fields DEF Sound
  <2>2. b \in old.mediaAddresses
    BY <2>1 DEF Sound, AddressesOwned
  <2>3. /\ old.ipAndPort \in old.mediaAddresses
        /\ ~deployment.rtpAllowMultipleMappings => old.mediaAddresses \subseteq {old.ipAndPort}
    BY <2>2 DEF Sound, AddressesOwned
  <2>4. old.ipAndPort \in Address
    BY <2>1, <2>3 DEF Session
  <2>5. Live(r, 0) => ~old.dismissed
    BY <2>1, IndexedRuns
  <2>6. QED
    BY <2>1, <2>3, <2>4, <2>5
<1>2. /\ x \in Session /\ x.callId = old.callId /\ ~x.dismissed
      /\ x.ipAndPort = old.ipAndPort /\ x.mediaAddresses = old.mediaAddresses
      /\ x.callId \in Call \cup {NoCall} /\ x.protocol = old.protocol
  <2>1. old.callId \in Call \cup {NoCall}
    BY <1>1 DEF Session
  <2>2. QED
    BY <1>1, <2>1, SuccessorType
<1> HIDE DEF x
<1>3. /\ Sound(r0) /\ Len(r0.sessions) = id /\ id \in 1 .. Len(r0.sessions)
      /\ r0.byIpAndPort = r.byIpAndPort /\ r0.byCallId = r.byCallId
      /\ r0.sessions[id] = x /\ r0.sessions[s] = old
      /\ Live(r, 0) => Live(r0, id)
      /\ RawUncalled(r) => RawUncalled(r0)
  <2>1. RawUncalled(r) => \/ x.protocol # "RawRtp" \/ x.callId = NoCall
                          \/ ~deployment.rtpAllowMultipleMappings
                          \/ deployment.skinnyAllowLateCallInfo
    BY <1>2 DEF RawUncalled
  <2>2. QED
    BY <1>1, <1>2, <2>1, CreateStep
<1>4. r1 = StopSessions(r0, {s}) /\ {s} \in SUBSET (1 .. Len(r0.sessions))
  BY <1>3 DEF StopSession
<1> HIDE DEF r0, r1
<1>5. /\ Sound(r1) /\ Frame(r0, r1) /\ r1.sessions[id] = x
      /\ old.callId # NoCall => r1.byCallId[old.callId] = 0
      /\ Live(r0, id) /\ ~old.dismissed => Live(r1, id)
  <2>1. id \in 1 .. Len(r0.sessions) \ {s}
    BY <1>1, <1>3
  <2>2. QED
    BY SMTT(30), <1>1, <1>3, <1>4, <2>1, StopStep
<1>6. id \in 1 .. Len(r1.sessions) /\ r1.byCallId[NoCall] = r.byCallId[NoCall]
  BY <1>3, <1>5 DEF Frame
<1> HIDE DEF id, r2
<1>7. /\ Sound(r2) /\ r2.sessions = r1.sessions
      /\ r1.byCallId[NoCall] # 0 \/ x.callId = NoCall => r2.byCallId[NoCall] # 0
      /\ /\ Live(r1, id) /\ ~r1.sessions[id].dismissed
         /\ x.callId \in Call /\ r1.sessions[id].callId = x.callId /\ r1.byCallId[x.callId] = 0
         => Live(r2, 0)
  BY SMTT(30), <1>1, <1>2, <1>5, <1>6, ReplaceStep DEF r2
<1>8. Live(r, 0) => Live(r2, 0) \/ r2.byCallId[NoCall] # 0
  BY <1>1, <1>2, <1>3, <1>5, <1>7
<1>9. Len(r2.sessions) = id
  BY <1>3, <1>5, <1>7 DEF Frame
<1>10. RawUncalled(r) => RawUncalled(r2)
  BY <1>3, <1>5, <1>7, FrameKeepsRaw DEF RawUncalled
<1>11. QED
  BY <1>6, <1>7, <1>8, <1>9, <1>10 DEF Keeps, r2, r1, r0, x, id

\* Time passes for a session.
LEMMA SilentKeeps ==
  ASSUME NEW r, Sound(r), NEW s \in 1 .. Len(r.sessions),
         NEW r2, r2 = [r EXCEPT !.sessions[s].expired = TRUE]
  PROVE  Keeps(r, r2) /\ Len(r2.sessions) = Len(r.sessions)
<1> DEFINE x == r.sessions[s]
           y == [x EXCEPT !.expired = TRUE]
<1>1. x \in Session
  BY Fields DEF Sound
<1>2. y \in Session /\ Quiet(x, y) /\ StaysEnded(x, y)
  BY <1>1 DEF Session, Quiet, StaysEnded
<1>3. r2 = [r EXCEPT !.sessions = [r.sessions EXCEPT ![s] = y]]
  OBVIOUS
<1> HIDE DEF y
<1>4. Sound(r2) /\ Frame(r, r2) /\ (Live(r, 0) => Live(r2, 0))
  BY <1>2, <1>3, QuietStep
<1>5. QED
  BY <1>4 DEF Keeps, Frame, RawUncalled

\* What the invariant gives a handler, and what it asks of it.
Ready == deployment \in Deployment /\ Sound(reg) /\ Len(reg.sessions) <= MaxSessions
Kept == Keeps(reg, reg') /\ Len(reg'.sessions) <= MaxSessions

\* Below m_maxSessions there is room for one more session.
LEMMA RoomForOne ==
  ASSUME Ready, CanCreate
  PROVE  Len(reg.sessions) + 1 <= MaxSessions
<1>1. deployment.maxSessions \in 1 .. MaxSessions
  BY DEF Ready, Deployment
<1>2. QED
  BY <1>1, BoundAssumption, Fields DEF Ready, Sound, CanCreate

\* SIP: INVITE, session progress, 200 OK, errors and BYE.
LEMMA SipKeeps ==
  ASSUME Ready, NEW c \in SipCall
  PROVE  /\ \A a \in Address \cup {NoAddress}, b \in BOOLEAN :
               ReportSipInvite(c, a, b) => Kept /\ Spares(reg, reg')
         /\ \A a \in Address : ReportSipSessionProgress(c, a) \/ ReportSip200Ok(c, a)
                                 => Kept /\ Spares(reg, reg')
         /\ ReportSipErrorPacket(c) => Kept
         /\ ReportSipBye(c) => Kept
<1> DEFINE known == reg.byCallId[c]
<1>1. /\ Sound(reg) /\ c \in Call /\ Len(reg.sessions) \in Nat
      /\ known \in 0 .. Len(reg.sessions)
      /\ known # 0 => known \in 1 .. Len(reg.sessions)
      /\ known # 0 /\ Live(reg, 0) => ~reg.sessions[known].dismissed
      /\ \A a \in Address : reg.byIpAndPort[a] \in 0 .. Len(reg.sessions)
  BY IndexedRuns, Fields DEF Ready, Sound, WellFormed, Call
<1>2. ASSUME NEW a \in Address \cup {NoAddress}, NEW b \in BOOLEAN, ReportSipInvite(c, a, b)
      PROVE  Kept /\ Spares(reg, reg')
  <2> DEFINE onMedia == IF a = NoAddress THEN 0 ELSE reg.byIpAndPort[a]
             r == ForceRawRtp(reg, onMedia)
             moves == deployment.sipDynamicMediaAddress
                        /\ reg.sessions[known].ipAndPort # a
             stays == FALSE
  <2>1. onMedia \in 0 .. Len(reg.sessions)
    BY <1>1
  <2>2. onMedia # 0 => /\ onMedia \in 1 .. Len(reg.sessions)
                       /\ Live(reg, 0) => ~reg.sessions[onMedia].dismissed
    BY <1>1, IndexedRuns
  <2>3. /\ Sound(r) /\ Frame(reg, r) /\ r.byCallId = reg.byCallId
        /\ \A t \in 1 .. Len(reg.sessions) :
              r.sessions[t].dismissed = reg.sessions[t].dismissed
        /\ Live(reg, 0) => Live(r, 0)
    BY <1>1, <2>1, ForceStep
  <2>9. /\ Keeps(r, reg') => Keeps(reg, reg')
        /\ Spares(r, reg') => Spares(reg, reg')
    <3>1. RawUncalled(reg) => RawUncalled(r)
      BY <2>3, FrameKeepsRaw
    <3>2. Keeps(r, reg') => Keeps(reg, reg')
      BY <2>3, <3>1 DEF Keeps
    <3>3. Spares(r, reg') => Spares(reg, reg')
      BY <2>3 DEF Spares, Frame
    <3>4. QED
      BY <3>2, <3>3
  <2>4. \/ onMedia # 0 /\ reg' = Reinvite(reg, onMedia, a, b, stays)
        \/ known # 0 /\ reg' = Reinvite(r, known, a, b, moves)
        \/ known = 0 /\ CanCreate /\ \E h \in deployment.staleEndPoints :
                                        reg' = NewSipSession(r, c, a, h)
    BY <1>2 DEF ReportSipInvite
  <2>0. moves \in BOOLEAN /\ stays \in BOOLEAN
    BY DEF Ready, Deployment
  <2> HIDE DEF r, moves, stays, onMedia
  <2>5. CASE onMedia # 0 /\ reg' = Reinvite(reg, onMedia, a, b, stays)
    <3>1. /\ Sound(reg) /\ onMedia \in 1 .. Len(reg.sessions)
          /\ Live(reg, 0) => ~reg.sessions[onMedia].dismissed
          /\ stays \in BOOLEAN
      BY <1>1, <2>0, <2>2, <2>5
    <3>2. Keeps(reg, reg') /\ Len(reg'.sessions) = Len(reg.sessions) /\ Spares(reg, reg')
      BY <2>5, <3>1, ReinviteKeeps
    <3>3. QED
      BY <3>2 DEF Ready, Kept
  <2>6. CASE known # 0 /\ reg' = Reinvite(r, known, a, b, moves)
    <3>0. known \in 1 .. Len(r.sessions)
      BY <1>1, <2>3, <2>6 DEF Frame
    <3>1. r.byCallId[c] # 0 /\ c \in Call \cup {NoCall}
      BY <1>1, <2>3, <2>6
    <3>2. Live(r, 0) => ~r.sessions[known].dismissed
      BY <1>1, <2>3, <3>1, IndexedRuns
    <3>3. Keeps(r, reg') /\ Len(reg'.sessions) = Len(r.sessions) /\ Spares(r, reg')
      BY ZenonT(40), <2>0, <2>3, <2>6, <3>0, <3>2, ReinviteKeeps
    <3>4. QED
      BY <2>3, <2>9, <3>3 DEF Ready, Kept, Frame
  <2>7. CASE known = 0 /\ CanCreate /\ \E h \in deployment.staleEndPoints :
                                          reg' = NewSipSession(r, c, a, h)
    <3>1. PICK h \in deployment.staleEndPoints : reg' = NewSipSession(r, c, a, h)
      BY <2>7
    <3>2. h \in Host \cup {NoHost}
      BY DEF Ready, Deployment
    <3>3. r.byCallId[c] = 0
      BY <2>3, <2>7
    <3>4. Keeps(r, reg') /\ Len(reg'.sessions) = Len(r.sessions) + 1 /\ Spares(r, reg')
      BY <1>1, <2>3, <3>1, <3>2, <3>3, NewSipSessionKeeps
    <3>5. Len(reg'.sessions) <= MaxSessions
      BY <2>3, <2>7, <3>4, RoomForOne DEF Frame
    <3>6. QED
      BY <2>9, <3>4, <3>5 DEF Kept
  <2>8. QED
    BY <2>4, <2>5, <2>6, <2>7
<1>3. ASSUME NEW a \in Address, known # 0, reg' = SetMediaAddress(reg, known, a)
      PROVE  Kept /\ Spares(reg, reg')
  <2>1. Keeps(reg, reg') /\ Frame(reg, reg') /\ Spares(reg, reg')
    BY <1>1, <1>3, MoveKeeps
  <2>2. QED
    BY <2>1 DEF Ready, Kept, Frame
<1>4. ASSUME known # 0, reg' = StopSession(reg, known) PROVE Kept
  <2>1. reg' = StopSessions(reg, {known}) /\ {known} \in SUBSET (1 .. Len(reg.sessions))
    BY <1>1, <1>4 DEF StopSession
  <2>2. Live(reg, 0) => \A s \in {known} : ~reg.sessions[s].dismissed
    BY <1>1, <1>4
  <2>3. Keeps(reg, reg') /\ Frame(reg, reg')
    BY <1>1, <2>1, <2>2, StopKeeps
  <2>4. QED
    BY <2>3 DEF Ready, Kept, Frame
<1>5. ASSUME reg' = reg PROVE Kept
  BY <1>5 DEF Ready, Kept, Keeps
<1>6. \A a \in Address : ReportSipSessionProgress(c, a) \/ ReportSip200Ok(c, a)
                             => Kept /\ Spares(reg, reg')
  BY <1>3 DEF ReportSipSessionProgress, ReportSip200Ok
<1>7. ReportSipErrorPacket(c) \/ ReportSipBye(c) => Kept
  BY <1>4, <1>5 DEF ReportSipErrorPacket, ReportSipBye
<1>8. QED
  BY <1>2, <1>6, <1>7

\* The sessions that the Skinny scans choose from run.
LEMMA ScannedRuns ==
  ASSUME Ready, NEW host
  PROVE  /\ \A s \in ByCallIdOn(reg, host) \cup ByIpAndPortOn(reg, host) :
               /\ s \in 1 .. Len(reg.sessions)
               /\ Live(reg, 0) => ~reg.sessions[s].dismissed
<1>1. Sound(reg)
  BY DEF Ready
<1>2. QED
  BY <1>1, IndexedRuns DEF ByCallIdOn, ByIpAndPortOn

\* Stopping a session that runs, in any handler.
LEMMA StopOneKept ==
  ASSUME Ready, NEW s \in 1 .. Len(reg.sessions),
         Live(reg, 0) => ~reg.sessions[s].dismissed,
         reg' = StopSession(reg, s)
  PROVE  Kept
<1>1. Sound(reg) /\ reg' = StopSessions(reg, {s}) /\ {s} \in SUBSET (1 .. Len(reg.sessions))
  BY DEF Ready, StopSession
<1>2. Live(reg, 0) => \A t \in {s} : ~reg.sessions[t].dismissed
  OBVIOUS
<1>3. Keeps(reg, reg') /\ Frame(reg, reg')
  BY <1>1, <1>2, StopKeeps
<1>4. QED
  BY <1>3 DEF Ready, Kept, Frame

\* CallInfo: adopted late, or a new session.
LEMMA CallInfoKeeps ==
  ASSUME Ready, NEW k \in SkinnyCall, ReportSkinnyCallInfo(k)
  PROVE  Kept
<1> DEFINE host == EndpointOf[k]
<1>1. Sound(reg) /\ k \in Call /\ reg.byCallId[k] = 0 /\ host \in Host
  BY EndpointOfAssumption DEF Ready, Call, ReportSkinnyCallInfo
<1>2. ASSUME NEW s \in LateCandidates(host), reg' = AdoptLateCallInfo(reg, s, k)
      PROVE  Kept
  <2>1. s \in ByIpAndPortOn(reg, host) /\ reg.sessions[s].callId = NoCall
        /\ deployment.skinnyAllowLateCallInfo
    BY DEF LateCandidates
  <2>2. s \in 1 .. Len(reg.sessions) /\ (Live(reg, 0) => ~reg.sessions[s].dismissed)
    BY <2>1, ScannedRuns
  <2>3. Keeps(reg, reg') /\ Len(reg'.sessions) = Len(reg.sessions)
    BY <1>1, <1>2, <2>1, <2>2, AdoptKeeps
  <2>4. QED
    BY <2>3 DEF Ready, Kept
<1>3. ASSUME CanCreate, NEW previous,
             previous \in {{}} \cup (IF deployment.skinnyCallInfoStopsPrevious
                                     THEN {{s} : s \in ByIpAndPortOn(reg, host)} ELSE {}),
             reg' = LET r == StopSessions(reg, previous)
                    IN  [Create(r, NewSession("Skinny", k, host))
                           EXCEPT !.byCallId = Insert(@, k, NewId)]
      PROVE  Kept
  <2> DEFINE r == StopSessions(reg, previous)
             r0 == Create(r, NewSession("Skinny", k, host))
  <2>1. previous \subseteq ByIpAndPortOn(reg, host)
    BY <1>3
  <2>2. previous \in SUBSET (1 .. Len(reg.sessions))
    BY <2>1, ScannedRuns
  <2>3. Live(reg, 0) => \A s \in previous : ~reg.sessions[s].dismissed
    BY <2>1, ScannedRuns
  <2>4. Keeps(reg, r) /\ Frame(reg, r) /\ (Live(reg, 0) => Live(r, 0))
    <3>1. Keeps(reg, r) /\ Frame(reg, r)
      BY <1>1, <2>2, <2>3, StopKeeps
    <3>2. 0 \notin previous /\ 0 \in Nat
      BY <2>2, Fields DEF Ready, Sound
    <3>3. Live(reg, 0) => Live(r, 0)
      BY <1>1, <2>2, <2>3, <3>2, StopStep
    <3>4. QED
      BY <3>1, <3>3
  <2>5. reg' = [r0 EXCEPT !.byCallId = Insert(r0.byCallId, k, Len(reg.sessions) + 1)]
    BY <1>3 DEF NewId
  <2> HIDE DEF r
  <2>6. r.byCallId[k] = 0 /\ Sound(r) /\ Len(r.sessions) = Len(reg.sessions)
    BY <1>1, <2>4 DEF Keeps, Frame, RawUncalled
  <2>7. r0.byCallId = r.byCallId
    <3>1. r = [byIpAndPort |-> r.byIpAndPort, byCallId |-> r.byCallId, sessions |-> r.sessions]
      BY <2>6, Fields DEF Sound
    <3>2. QED
      BY <3>1 DEF Create
  <2>8. reg' = Enter(r0, k, Len(r.sessions) + 1)
    <3> HIDE DEF r0
    <3>1. QED
      BY <2>5, <2>6, <2>7 DEF Insert, Enter
  <2>9. Keeps(r, reg') /\ Len(reg'.sessions) = Len(r.sessions) + 1
    BY <1>1, <2>6, <2>8, NewSkinnySessionKeeps
  <2>10. Len(reg'.sessions) <= MaxSessions
    BY <1>3, <2>6, <2>9, RoomForOne
  <2>11. QED
    BY <2>4, <2>9, <2>10 DEF Kept, Keeps, Frame
<1>4. QED
  BY <1>2, <1>3 DEF ReportSkinnyCallInfo

\* OpenReceiveChannelAck and StartMediaTransmission.
LEMMA OpenMediaKeeps ==
  ASSUME Ready, NEW host \in Host, NEW a \in Address, OpenMedia(host, a)
  PROVE  Kept /\ (~deployment.skinnyAllowLateCallInfo => Spares(reg, reg'))
<1>1. Sound(reg)
  BY DEF Ready
<1>2. ASSUME NEW s \in ByCallIdOn(reg, host), reg' = SetMediaAddress(reg, s, a)
      PROVE  Kept /\ Spares(reg, reg')
  <2>1. s \in 1 .. Len(reg.sessions) /\ (Live(reg, 0) => ~reg.sessions[s].dismissed)
    BY ScannedRuns
  <2>2. Keeps(reg, reg') /\ Frame(reg, reg') /\ Spares(reg, reg')
    BY <1>1, <1>2, <2>1, MoveKeeps
  <2>3. QED
    BY <2>2 DEF Ready, Kept, Frame
<1>3. ASSUME deployment.skinnyAllowLateCallInfo, CanCreate,
             reg' = SetMediaAddress(Create(reg, NewSession("Skinny", NoCall, host)), NewId, a)
      PROVE  Kept
  <2>1. Keeps(reg, reg') /\ Len(reg'.sessions) = Len(reg.sessions) + 1
    BY <1>1, <1>3, NewLateSessionKeeps DEF NewId
  <2>2. QED
    BY <1>3, <2>1, RoomForOne DEF Kept
<1>4. QED
  BY <1>2, <1>3 DEF OpenMedia

\* Stop, transfer, hold and resume.
LEMMA SoftKeysKeep ==
  ASSUME Ready, NEW k \in SkinnyCall
  PROVE  /\ ReportSkinnyStopMediaTransmission(k) => Kept
         /\ ReportSkinnySoftKeySetTransfConnected(k) => Kept
         /\ ReportSkinnySoftKeyHold(k) => Kept
         /\ ReportSkinnySoftKeyResume(k) => Kept
<1> DEFINE known == reg.byCallId[k]
<1>1. /\ Sound(reg) /\ k \in Call
      /\ known # 0 => /\ known \in 1 .. Len(reg.sessions)
                      /\ Live(reg, 0) => ~reg.sessions[known].dismissed
  BY IndexedRuns DEF Ready, Call
<1>2. ASSUME ReportSkinnyStopMediaTransmission(k) PROVE Kept
  <2>1. PICK s \in ({known} \cup ByCallIdOn(reg, EndpointOf[k])) \ {0} :
            reg' = StopSession(reg, s)
    BY <1>2 DEF ReportSkinnyStopMediaTransmission
  <2>2. s \in 1 .. Len(reg.sessions) /\ (Live(reg, 0) => ~reg.sessions[s].dismissed)
    BY <1>1, ScannedRuns
  <2>3. QED
    BY <2>1, <2>2, StopOneKept
<1>3. ASSUME ReportSkinnySoftKeySetTransfConnected(k) PROVE Kept
  <2>1. known # 0 /\ reg' = StopSession(reg, known)
    BY <1>3 DEF ReportSkinnySoftKeySetTransfConnected
  <2>2. QED
    BY <1>1, <2>1, StopOneKept
<1>4. ASSUME ReportSkinnySoftKeyHold(k) \/ ReportSkinnySoftKeyResume(k) PROVE Kept
  <2>1. known # 0 /\ reg' \in {GoOnHold(reg, known), GoOffHold(reg, known)}
    BY <1>4 DEF ReportSkinnySoftKeyHold, ReportSkinnySoftKeyResume
  <2>2. Keeps(reg, reg') /\ Frame(reg, reg')
    BY <1>1, <2>1, HoldStep
  <2>3. QED
    BY <2>2 DEF Ready, Kept, Frame
<1>5. QED
  BY <1>2, <1>3, <1>4

\* An RTP packet is offered to the sessions at its two ends.
LEMMA RtpKeeps ==
  ASSUME Ready, NEW src \in Address, NEW dst \in Address, ReportRtpPacket(src, dst)
  PROVE  /\ Kept
         /\ ~Reviving /\ Live(reg, 0) /\ src # dst
               => HasAHome(reg', src) \/ HasAHome(reg', dst)
<1> DEFINE s1 == reg.byIpAndPort[src]
<1> DEFINE Ends(r1, o1, r2, o2) ==
             LET s2 == r1.byIpAndPort[dst]
                 session == IF s2 # 0 THEN s2 ELSE s1
                 other == IF s1 # 0 THEN dst ELSE src
             IN  \/ /\ Accepted(o1) /\ Accepted(o2)
                    /\ reg' \in IF s1 = s2 THEN {r2} ELSE Merge(r2, s1, s2, src, dst)
                 \/ /\ Accepted(o1) # Accepted(o2)
                    /\ reg' = Retrack(r2, session, other, src, dst)
                 \/ /\ ~Accepted(o1) /\ ~Accepted(o2) /\ CanCreate
                    /\ reg' = NewRawRtp(r2, src, dst)
<1>1. PICK o1 \in OutcomesOf(reg, s1) : \E r1 \in Offer(reg, s1, o1) :
        \E o2 \in SecondOutcomes(r1, s1, o1, r1.byIpAndPort[dst]) :
        \E r2 \in Offer(r1, r1.byIpAndPort[dst], o2) : Ends(r1, o1, r2, o2)
  BY DEF ReportRtpPacket
<1> HIDE DEF Ends
<1>2. PICK r1 \in Offer(reg, s1, o1) :
        \E o2 \in SecondOutcomes(r1, s1, o1, r1.byIpAndPort[dst]) :
        \E r2 \in Offer(r1, r1.byIpAndPort[dst], o2) : Ends(r1, o1, r2, o2)
  BY <1>1
<1> DEFINE s2 == r1.byIpAndPort[dst]
           session == IF s2 # 0 THEN s2 ELSE s1
           other == IF s1 # 0 THEN dst ELSE src
<1>3. PICK o2 \in SecondOutcomes(r1, s1, o1, s2) :
        \E r2 \in Offer(r1, s2, o2) : Ends(r1, o1, r2, o2)
  BY <1>2
<1>15. PICK r2 \in Offer(r1, s2, o2) : Ends(r1, o1, r2, o2)
  BY <1>3
<1>4. /\ Sound(reg) /\ s1 \in 0 .. Len(reg.sessions)
      /\ s1 # 0 /\ Live(reg, 0) => ~reg.sessions[s1].dismissed
  BY IndexedRuns DEF Ready, Sound, WellFormed
<1>5. /\ Sound(r1) /\ Frame(reg, r1)
      /\ Live(reg, 0) => Live(r1, 0)
      /\ o1 # "foreign" => r1.byIpAndPort = reg.byIpAndPort
  BY <1>4, OfferStep
<1>6. /\ s2 \in 0 .. Len(r1.sessions)
      /\ s2 # 0 /\ Live(r1, 0) => ~r1.sessions[s2].dismissed
  BY <1>5, IndexedRuns DEF Sound, WellFormed
<1>7. /\ Sound(r2) /\ Frame(r1, r2)
      /\ Live(r1, 0) => Live(r2, 0)
      /\ o2 # "foreign" => r2.byIpAndPort = r1.byIpAndPort
      /\ o2 = "foreign" /\ s2 # 0 =>
            /\ r2.byIpAndPort[dst] = 0
            /\ \A a \in Address : r1.byIpAndPort[a] # s2 => r2.byIpAndPort[a] = r1.byIpAndPort[a]
      /\ s2 = 0 => r2 = r1
  <2>1. s2 = 0 => r2 = r1
    BY DEF Offer
  <2>2. QED
    BY <1>5, <1>6, <2>1, OfferStep
<1>8. /\ s1 = 0 => ~Accepted(o1)
      /\ s2 = 0 => ~Accepted(o2)
      /\ s2 # 0 /\ ~Accepted(o2) => o2 = "foreign" /\ (s1 = 0 \/ s1 # s2)
  BY DEF OutcomesOf, SecondOutcomes, Outcomes, Accepted
<1>9. Len(r2.sessions) = Len(reg.sessions) /\ r2.byCallId[NoCall] = reg.byCallId[NoCall]
  BY <1>5, <1>7 DEF Frame
<1>10. ASSUME Keeps(r2, reg') PROVE Keeps(reg, reg')
  <2>1. RawUncalled(reg) => RawUncalled(r2)
    BY <1>5, <1>7, FrameKeepsRaw
  <2>2. QED
    BY <1>5, <1>7, <1>9, <1>10, <2>1 DEF Keeps
<1> DEFINE Homed == ~Reviving /\ Live(reg, 0) /\ src # dst
                      => HasAHome(reg', src) \/ HasAHome(reg', dst)
<1>16. ASSUME Sound(reg'), ~Reviving /\ Live(reg, 0) => Live(reg', 0),
              ~Reviving /\ src # dst
                 => reg'.byIpAndPort[src] # 0 \/ reg'.byIpAndPort[dst] # 0
       PROVE  Homed
  <2>1. \A a \in Address : reg'.byIpAndPort[a] # 0 /\ Live(reg', 0)
                              => ~reg'.sessions[reg'.byIpAndPort[a]].dismissed
    BY <1>16, IndexedRuns
  <2>2. QED
    BY <1>16, <2>1 DEF HasAHome
<1>17. ASSUME Keeps(r2, reg'), ~Reviving /\ Live(r2, 0) => Live(reg', 0),
              ~Reviving /\ src # dst
                 => reg'.byIpAndPort[src] # 0 \/ reg'.byIpAndPort[dst] # 0
       PROVE  Homed
  BY <1>5, <1>7, <1>16, <1>17 DEF Keeps, RawUncalled
<1> HIDE DEF Homed
<1>11. CASE /\ Accepted(o1) /\ Accepted(o2)
            /\ reg' \in IF s1 = s2 THEN {r2} ELSE Merge(r2, s1, s2, src, dst)
  <2>1. CASE s1 = s2
    <3>1. reg' = r2
      BY <1>11, <2>1
    <3>2. Keeps(r2, reg')
      BY <1>7, <3>1 DEF Keeps, RawUncalled
    <3>3. reg'.byIpAndPort[dst] # 0
      BY <1>7, <1>8, <1>11, <3>1 DEF Accepted
    <3>4. Homed
      BY <1>17, <3>1, <3>2, <3>3
    <3>5. QED
      BY <1>9, <1>10, <3>1, <3>2, <3>4 DEF Ready, Kept, Homed
  <2>2. CASE s1 # s2
    <3>1. /\ s1 # 0 /\ s2 # 0 /\ reg' \in Merge(r2, s1, s2, src, dst)
          /\ s1 = r2.byIpAndPort[src] /\ s2 = r2.byIpAndPort[dst]
      <4>1. o1 # "foreign" /\ o2 # "foreign"
        BY <1>11 DEF Accepted
      <4>2. QED
        BY <1>5, <1>7, <1>8, <1>11, <2>2, <4>1
    <3>2. /\ Keeps(r2, reg') /\ Len(reg'.sessions) = Len(r2.sessions)
          /\ Live(r2, 0) => Live(reg', 0)
          /\ reg'.byIpAndPort[src] # 0 \/ reg'.byIpAndPort[dst] # 0
      BY <1>7, <2>2, <3>1, MergeKeeps
    <3>3. Homed
      BY <1>17, <3>2
    <3>4. QED
      BY <1>9, <1>10, <3>2, <3>3 DEF Ready, Kept, Homed
  <2>3. QED
    BY <2>1, <2>2
<1>12. CASE /\ Accepted(o1) # Accepted(o2)
            /\ reg' = Retrack(r2, session, other, src, dst)
  <2>1. session # 0
    BY <1>8, <1>12 DEF Accepted
  <2>2. session \in 1 .. Len(r2.sessions)
    BY <1>4, <1>5, <1>6, <1>7, <2>1 DEF Frame
  <2>3. Keeps(r2, reg') /\ Len(reg'.sessions) = Len(r2.sessions) /\ (~Reviving => reg' = r2)
    <3>1. other \in Address
      OBVIOUS
    <3> HIDE DEF session, other
    <3>2. QED
      BY <1>7, <1>12, <2>2, <3>1, RetrackKeeps
  <2>4. src # dst => r2.byIpAndPort[src] # 0 \/ r2.byIpAndPort[dst] # 0
    <3>1. CASE Accepted(o1) /\ ~Accepted(o2)
      <4>1. s1 # 0 /\ r1.byIpAndPort[src] = s1
        BY <1>5, <1>8, <3>1 DEF Accepted
      <4>2. r2.byIpAndPort[src] = s1
        BY <1>7, <1>8, <3>1, <4>1
      <4>3. QED
        BY <4>1, <4>2
    <3>2. CASE Accepted(o2) /\ ~Accepted(o1)
      <4>1. s2 # 0 /\ o2 # "foreign"
        BY <1>8, <3>2 DEF Accepted
      <4>2. QED
        BY <1>7, <4>1
    <3>3. QED
      BY <1>12, <3>1, <3>2 DEF Accepted
  <2>5. Homed
    BY <1>17, <2>3, <2>4
  <2>6. QED
    BY <1>9, <1>10, <2>3, <2>5 DEF Ready, Kept, Homed
<1>13. CASE /\ ~Accepted(o1) /\ ~Accepted(o2) /\ CanCreate
            /\ reg' = NewRawRtp(r2, src, dst)
  <2>1. r2.byIpAndPort[dst] = 0
    <3>1. CASE s2 = 0
      BY <3>1 DEF Offer
    <3>2. CASE s2 # 0
      BY <1>7, <1>8, <1>13, <3>2
    <3>3. QED
      BY <3>1, <3>2
  <2>2. /\ Keeps(r2, reg') /\ Len(reg'.sessions) = Len(r2.sessions) + 1
        /\ ~Reviving => reg'.byIpAndPort[dst] = Len(r2.sessions) + 1
        /\ ~Reviving /\ Live(r2, 0) => Live(reg', 0)
    BY <1>7, <1>13, <2>1, NewRawRtpKeeps
  <2>3. Len(reg'.sessions) <= MaxSessions
    BY <1>9, <1>13, <2>2, RoomForOne
  <2>4. Len(r2.sessions) \in Nat
    BY <1>7, Fields DEF Sound
  <2>5. Homed
    BY <1>17, <2>2, <2>4
  <2>6. QED
    BY <1>10, <2>2, <2>3, <2>5 DEF Kept, Homed
<1>14. QED
  BY <1>11, <1>12, <1>13, <1>15 DEF Ends

\* The control API, the clock and Hoover.
LEMMA EndingsKeep ==
  ASSUME Ready
  PROVE  /\ \A s \in 1 .. Len(reg.sessions) : StopCapture(s) \/ FallSilent(s) => Kept
         /\ Hoover \/ StopAll => Kept
<1>1. Sound(reg)
  BY DEF Ready
<1>2. ASSUME NEW s \in 1 .. Len(reg.sessions), StopCapture(s) PROVE Kept
  <2> DEFINE x == Successor(reg.sessions[s])
             r == StopSession(Create(reg, x), s)
  <2>1. PICK b \in Address : reg.byIpAndPort[b] = s
    BY <1>2 DEF StopCapture
  <2>2. reg' = Replace(r, x.ipAndPort, x.callId, Len(reg.sessions) + 1)
    <3>1. reg' = [r EXCEPT !.byIpAndPort = Insert(r.byIpAndPort, x.ipAndPort, NewId),
                           !.byCallId = Insert(r.byCallId, x.callId, NewId)]
      BY <1>2 DEF StopCapture, StopSession, StopSessions
    <3>2. QED
      BY <3>1 DEF Replace, NewId
  <2>3. Keeps(reg, reg') /\ Len(reg'.sessions) = Len(reg.sessions) + 1
    BY <1>1, <2>1, <2>2, StopCaptureKeeps
  <2>4. CanCreate
    BY <1>2 DEF StopCapture
  <2>5. QED
    BY <2>3, <2>4, RoomForOne DEF Kept
<1>3. ASSUME NEW s \in 1 .. Len(reg.sessions), FallSilent(s) PROVE Kept
  <2>1. Keeps(reg, reg') /\ Len(reg'.sessions) = Len(reg.sessions)
    BY <1>1, <1>3, SilentKeeps DEF FallSilent
  <2>2. QED
    BY <2>1 DEF Ready, Kept
<1>4. ASSUME NEW S \in SUBSET Tracked(reg), reg' = StopSessions(reg, S) PROVE Kept
  <2>1. \A s \in Tracked(reg) : /\ s \in 1 .. Len(reg.sessions)
                                /\ Live(reg, 0) => ~reg.sessions[s].dismissed
    BY <1>1, IndexedRuns DEF Tracked
  <2>2. S \in SUBSET (1 .. Len(reg.sessions)) /\ (Live(reg, 0) => \A s \in S : ~reg.sessions[s].dismissed)
    BY <2>1
  <2>3. Keeps(reg, reg') /\ Frame(reg, reg')
    BY <1>1, <1>4, <2>2, StopKeeps
  <2>4. QED
    BY <2>3 DEF Ready, Kept, Frame
<1>5. ASSUME Hoover \/ StopAll PROVE Kept
  BY <1>4, <1>5 DEF Hoover, StopAll
<1>6. QED
  BY <1>2, <1>3, <1>5

-----------------------------------------------------------------------------
\* The invariant holds of the empty registry.
LEMMA InitIInv == ASSUME Init PROVE IInv
<1>1. /\ deployment \in Deployments /\ reg = EmptyRegistry /\ MaxSessions \in Nat
  BY BoundAssumption DEF Init
<1> DEFINE i == [a \in Address |-> 0]
           c == [k \in Call \cup {NoCall} |-> 0]
           q == <<>>
<1>2. /\ i \in [Address -> Nat] /\ c \in [Call \cup {NoCall} -> Nat] /\ q \in Seq(Session)
      /\ Len(q) = 0
      /\ \A a \in Address : i[a] = 0
      /\ \A k \in Call \cup {NoCall} : c[k] = 0
  OBVIOUS
<1>3. reg = [byIpAndPort |-> i, byCallId |-> c, sessions |-> q]
  BY <1>1 DEF EmptyRegistry
<1> HIDE DEF i, c, q
<1>4. WellFormed(reg) /\ reg.byIpAndPort = i /\ reg.byCallId = c /\ reg.sessions = q
  <2>1. reg.byIpAndPort = i /\ reg.byCallId = c /\ reg.sessions = q
    BY <1>3
  <2>2. reg \in [ byIpAndPort : [Address -> Nat],
                  byCallId : [Call \cup {NoCall} -> Nat],
                  sessions : Seq(Session) ]
    BY <1>2, <1>3, RegistryType
  <2>3. QED
    BY <1>2, <2>1, <2>2 DEF WellFormed
<1>5. /\ AddressesOwned(reg) /\ IndexesLive(reg) /\ OthersReachable(reg, 0)
      /\ RawUncalled(reg)
  BY <1>2, <1>4 DEF AddressesOwned, IndexesLive, OthersReachable, RawUncalled
<1>6. QED
  BY <1>1, <1>2, <1>4, <1>5 DEF IInv, Sound, Live

\* Every handler, and stuttering, preserves the inductive invariant.
LEMMA NextIInv == ASSUME IInv, [Next]_vars PROVE IInv'
<1>1. Ready
  BY DeploymentsAssumption DEF IInv, Ready
<1>2. ASSUME Next PROVE Kept /\ deployment' = deployment
  <2>1. CASE SipNext
    <3>1. deployment' = deployment
      BY <2>1 DEF SipNext, ReportSipInvite, ReportSipSessionProgress, ReportSip200Ok,
                  ReportSipErrorPacket, ReportSipBye
    <3>2. Kept
      BY <1>1, <2>1, SipKeeps DEF SipNext
    <3>3. QED
      BY <3>1, <3>2
  <2>2. CASE SkinnyNext
    <3>1. deployment' = deployment
      BY <2>2 DEF SkinnyNext, ReportSkinnyCallInfo, ReportSkinnyStopMediaTransmission,
                  ReportSkinnySoftKeySetTransfConnected, ReportSkinnySoftKeyHold,
                  ReportSkinnySoftKeyResume, ReportSkinnyOpenReceiveChannelAck,
                  ReportSkinnyStartMediaTransmission
    <3>2. CASE \E k \in SkinnyCall : ReportSkinnyCallInfo(k)
      BY <1>1, <3>1, <3>2, CallInfoKeeps
    <3>3. CASE \E k \in SkinnyCall : \/ ReportSkinnyStopMediaTransmission(k)
                                     \/ ReportSkinnySoftKeySetTransfConnected(k)
                                     \/ ReportSkinnySoftKeyHold(k)
                                     \/ ReportSkinnySoftKeyResume(k)
      BY <1>1, <3>1, <3>3, SoftKeysKeep
    <3>4. CASE \E host \in Host, a \in Address : OpenMedia(host, a)
      BY <1>1, <3>1, <3>4, OpenMediaKeeps
    <3>5. QED
      BY <2>2, <3>2, <3>3, <3>4, HostOfAssumption
         DEF SkinnyNext, ReportSkinnyOpenReceiveChannelAck, ReportSkinnyStartMediaTransmission
  <2>3. CASE \E src, dst \in Address : src # dst /\ ReportRtpPacket(src, dst)
    <3>1. deployment' = deployment
      BY <2>3 DEF ReportRtpPacket
    <3>2. QED
      BY <1>1, <2>3, <3>1, RtpKeeps
  <2>4. CASE \/ \E s \in 1 .. Len(reg.sessions) : StopCapture(s) \/ FallSilent(s)
             \/ Hoover \/ StopAll
    <3>1. deployment' = deployment
      BY <2>4 DEF StopCapture, FallSilent, Hoover, StopAll
    <3>2. QED
      BY <1>1, <2>4, <3>1, EndingsKeep
  <2>5. QED
    BY <1>2, <2>1, <2>2, <2>3, <2>4 DEF Next
<1>3. QED
  <2>1. Keeps(reg, reg') /\ Len(reg'.sessions) <= MaxSessions /\ deployment' = deployment
    <3>1. CASE Next
      BY <1>2, <3>1 DEF Kept
    <3>2. CASE UNCHANGED vars
      BY <1>1, <3>2 DEF vars, Ready, Keeps
    <3>3. QED
      BY <3>1, <3>2
  <2>2. Sound(reg)'
    BY <2>1 DEF Keeps, Sound, WellFormed, AddressesOwned
  <2>3. Live(reg', 0) => Live(reg, 0)'
    BY <2>1 DEF Live, IndexesLive, OthersReachable, Reachable
  <2>4. MayRevive' \/ Live(reg, 0)'
    BY <2>1, <2>3 DEF IInv, MayRevive, Reviving, Keeps
  <2>6. RawUncalled(reg)'
    BY <2>1 DEF IInv, Keeps, RawUncalled
  <2>5. QED
    BY <2>1, <2>2, <2>4, <2>6 DEF IInv

\* Every handler, from SipInvite to Hoover, keeps the inductive invariant.
THEOREM Invariance == Spec => []IInv
BY InitIInv, NextIInv, PTL DEF Spec

\* The two indexes and the sessions' own lists of addresses and call ids agree
\* after every handler: no media address leads to a session that was stopped,
\* and a call id that is known leads to its own running session.
THEOREM IndexesAgree == Spec => []RegistryIsTrue
<1>1. ASSUME IInv PROVE RegistryIsTrue
  <2>1. /\ WellFormed(reg) /\ AddressesOwned(reg) /\ Len(reg.sessions) \in Nat
        /\ reg.sessions \in Seq(Session)
        /\ \A a \in Address : reg.byIpAndPort[a] \in 0 .. Len(reg.sessions)
        /\ \A c \in Call \cup {NoCall} : reg.byCallId[c] \in 0 .. Len(reg.sessions)
        /\ reg.byIpAndPort \in [Address -> Nat] /\ reg.byCallId \in [Call \cup {NoCall} -> Nat]
        /\ DOMAIN reg.sessions = 1 .. Len(reg.sessions)
    BY <1>1, Fields DEF IInv, Sound, WellFormed
  <2>2. TypeOK
    <3>1. reg.byIpAndPort \in [Address -> 0 .. Len(reg.sessions)]
      BY <2>1
    <3>2. reg.byCallId \in [Call \cup {NoCall} -> 0 .. Len(reg.sessions)]
      BY <2>1
    <3>3. QED
      BY <1>1, <2>1, <3>1, <3>2 DEF IInv, TypeOK
  <2>3. MappingsAreOwned
    BY <2>1 DEF MappingsAreOwned, AddressesOwned
  <2>4. NoDeadSessionMapped
    BY <1>1 DEF IInv, NoDeadSessionMapped, Live, IndexesLive
  <2>5. CallIdsAreIndexed
    BY <1>1, <2>1 DEF IInv, CallIdsAreIndexed, Live, OthersReachable, Reachable
  <2>6. QED
    BY <2>2, <2>3, <2>4, <2>5 DEF RegistryIsTrue
<1>2. QED
  BY <1>1, Invariance, PTL

\* A session that has sent its start event and not its stop event is in one of
\* the two indexes that Hoover walks: no recording is left open for good.
THEOREM NoRecordingIsLost == Spec => []RecordingIsTracked
<1>1. ASSUME IInv PROVE RecordingIsTracked
  <2>1. SUFFICES ASSUME ~MayRevive, ~deployment.skinnyAllowLateCallInfo,
                        NEW s \in DOMAIN reg.sessions, Recording(s)
                 PROVE  s \in Tracked(reg)
    BY DEF RecordingIsTracked
  <2>2. Live(reg, 0) /\ Sound(reg)
    BY <1>1, <2>1 DEF IInv
  <2>3. s \in 1 .. Len(reg.sessions) /\ s # 0
    BY <2>1, <2>2, Fields DEF Sound
  <2>4. ~reg.sessions[s].dismissed
    BY <2>1, <2>2, <2>3 DEF Live, IndexesLive, Recording
  <2>5. Reachable(reg, s)
    BY <2>2, <2>3, <2>4 DEF Live, OthersReachable
  <2>6. reg.sessions[s].callId \in Call \cup {NoCall}
    BY <2>2, <2>3, Fields DEF Sound, Session
  <2>7. QED
    BY <2>1, <2>3, <2>5, <2>6 DEF Reachable, Tracked
<1>2. QED
  BY <1>1, Invariance, PTL

\* After a packet has been handled, a session that runs follows one of its two
\* ends: discontinuities, merges and take-overs never orphan a stream.
THEOREM NoStreamIsOrphaned == Spec => EveryPacketFindsAHome
<1> DEFINE Homes == \A src, dst \in Address :
             src # dst /\ ~MayRevive /\ ~HasAHome(reg', src) /\ ~HasAHome(reg', dst)
               => ~ReportRtpPacket(src, dst)
<1>1. ASSUME IInv, [Next]_vars PROVE [Homes]_vars
  <2>1. SUFFICES ASSUME NEW src \in Address, NEW dst \in Address, src # dst, ~MayRevive,
                        ReportRtpPacket(src, dst)
                 PROVE  HasAHome(reg', src) \/ HasAHome(reg', dst)
    OBVIOUS
  <2>2. Ready /\ Live(reg, 0) /\ ~Reviving
    BY <1>1, <2>1, DeploymentsAssumption DEF IInv, Ready, MayRevive, Reviving
  <2>3. QED
    BY <2>1, <2>2, RtpKeeps
<1>2. QED
  BY <1>1, Invariance, PTL DEF Spec, EveryPacketFindsAHome

\* Signalling that moves media about never ends another signalled call, where
\* media addresses may have several sessions and no CallInfo comes late: "Do
\* not stop signalled sessions, better let them timeout".
THEOREM TransfersSpareSignalledCalls == Spec => SignalledCallsSurviveTransfers
<1> DEFINE Spared == (EndsASignalledCall /\ deployment.rtpAllowMultipleMappings
                        /\ ~deployment.skinnyAllowLateCallInfo) => ~MovesMedia
<1>1. ASSUME IInv, [Next]_vars PROVE [Spared]_vars
  <2>1. SUFFICES ASSUME deployment.rtpAllowMultipleMappings,
                        ~deployment.skinnyAllowLateCallInfo, MovesMedia
                 PROVE  ~EndsASignalledCall
    OBVIOUS
  <2>2. Ready /\ RawUncalled(reg)
    BY <1>1, DeploymentsAssumption DEF IInv, Ready
  <2>3. Spares(reg, reg')
    <3>1. CASE \E c \in SipCall, a \in Address \cup {NoAddress}, b \in BOOLEAN :
                  ReportSipInvite(c, a, b)
      BY <2>2, <3>1, SipKeeps
    <3>2. CASE \E c \in SipCall, a \in Address :
                  ReportSipSessionProgress(c, a) \/ ReportSip200Ok(c, a)
      BY <2>2, <3>2, SipKeeps
    <3>3. CASE \E h \in Host, a \in Address : OpenMedia(h, a)
      BY <2>1, <2>2, <3>3, OpenMediaKeeps
    <3>4. QED
      BY <2>1, <3>1, <3>2, <3>3, HostOfAssumption
         DEF MovesMedia, ReportSkinnyOpenReceiveChannelAck, ReportSkinnyStartMediaTransmission
  <2>4. DOMAIN reg.sessions = 1 .. Len(reg.sessions)
    BY <2>2, Fields DEF Ready, Sound
  <2>5. QED
    BY <2>1, <2>2, <2>3, <2>4 DEF EndsASignalledCall, Spares, RawUncalled
<1>2. QED
  BY <1>1, Invariance, PTL DEF Spec, SignalledCallsSurviveTransfers

=============================================================================
