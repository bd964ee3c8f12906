------------------------ MODULE TapeReportingProofs ------------------------
(***************************************************************************)
(* Proofs about TapeReporting and the EventStreaming it is composed of,    *)
(* for every number of tapes, trackers and clients, every length of the    *)
(* queues, every limit and every set of scenarios.                         *)
(***************************************************************************)
EXTENDS TapeReporting, TLAPS, FiniteSetTheorems

-----------------------------------------------------------------------------
(* The clients that follow the messages                                    *)

\* Sequences of numbers: their length, and what becomes of them.
LEMMA NatSeq ==
  ASSUME NEW q \in Seq(Nat)
  PROVE  /\ Len(q) \in Nat /\ (q = << >> <=> Len(q) = 0)
         /\ \A i \in 1..Len(q) : q[i] \in Nat
         /\ q # << >> =>
              /\ Head(q) = q[1] /\ Tail(q) \in Seq(Nat) /\ Len(Tail(q)) = Len(q) - 1
              /\ \A i \in 1..Len(Tail(q)) : i + 1 \in 1..Len(q) /\ Tail(q)[i] = q[i + 1]
OBVIOUS

\* A number added at the end of a sequence.
LEMMA NatAppend ==
  ASSUME NEW q \in Seq(Nat), NEW n \in Nat
  PROVE  /\ Append(q, n) \in Seq(Nat) /\ Len(Append(q, n)) = Len(q) + 1
         /\ Append(q, n)[Len(q) + 1] = n
         /\ \A i \in 1..Len(q) : Append(q, n)[i] = q[i]
OBVIOUS

\* Two sequences one after the other.
LEMMA NatConcat ==
  ASSUME NEW p \in Seq(Nat), NEW q \in Seq(Nat)
  PROVE  /\ p \o q \in Seq(Nat) /\ Len(p \o q) = Len(p) + Len(q)
         /\ \A i \in 1..Len(p \o q) :
              \/ i \in 1..Len(p) /\ (p \o q)[i] = p[i]
              \/ i > Len(p) /\ i - Len(p) \in 1..Len(q) /\ (p \o q)[i] = q[i - Len(p)]
<1>1. p \o q \in Seq(Nat) /\ Len(p \o q) = Len(p) + Len(q) /\ Len(p) \in Nat /\ Len(q) \in Nat
  OBVIOUS
<1>2. ASSUME NEW i \in 1..Len(p \o q)
      PROVE  \/ i \in 1..Len(p) /\ (p \o q)[i] = p[i]
             \/ i > Len(p) /\ i - Len(p) \in 1..Len(q) /\ (p \o q)[i] = q[i - Len(p)]
  BY <1>1
<1>3. QED
  BY <1>1, <1>2

\* A rising sequence before another of greater numbers rises on.
LEMMA RisingConcat ==
  ASSUME NEW p \in Seq(Nat), NEW q \in Seq(Nat), Rising(p), Rising(q),
         \A i \in 1..Len(p), j \in 1..Len(q) : p[i] < q[j]
  PROVE  Rising(p \o q)
<1>1. /\ Len(p \o q) = Len(p) + Len(q) /\ Len(p) \in Nat /\ Len(q) \in Nat
      /\ \A i \in 1..Len(p \o q) :
           \/ i \in 1..Len(p) /\ (p \o q)[i] = p[i]
           \/ i > Len(p) /\ i - Len(p) \in 1..Len(q) /\ (p \o q)[i] = q[i - Len(p)]
  BY NatConcat
<1>2. ASSUME NEW i \in 1..Len(p \o q), NEW j \in 1..Len(p \o q), i < j
      PROVE  (p \o q)[i] < (p \o q)[j]
  <2>1. CASE i \in 1..Len(p) /\ j \in 1..Len(p)
    BY <1>1, <1>2, <2>1 DEF Rising
  <2>2. CASE i \in 1..Len(p) /\ j > Len(p)
    BY <1>1, <1>2, <2>2
  <2>3. CASE i > Len(p)
    <3>1. /\ i - Len(p) \in 1..Len(q) /\ j - Len(p) \in 1..Len(q) /\ i - Len(p) < j - Len(p)
          /\ (p \o q)[i] = q[i - Len(p)] /\ (p \o q)[j] = q[j - Len(p)]
      BY <1>1, <1>2, <2>3
    <3>2. QED
      BY <3>1 DEF Rising
  <2>4. QED
    BY <1>1, <1>2, <2>1, <2>2, <2>3
<1>3. QED
  BY <1>2 DEF Rising

\* The list of a session, after what its client was sent, rises.
LEMMA SeenRises ==
  ASSUME NEW r \in Seq(Nat), NEW h \in Seq(Nat), NEW q \in Seq(Nat), NEW n \in Nat,
         Len(h) = 0 \/ Len(h) = 1,
         Rising(r), \A i \in 1..Len(r) : r[i] <= n,
         h # << >> => h[1] <= n /\ \A i \in 1..Len(r) : r[i] < h[1],
         \A i \in 1..Len(q) : q[i] = n + i
  PROVE  Rising(r \o h) /\ Rising(r \o h \o q)
<1>1. Rising(h) /\ \A i \in 1..Len(h) : h[i] = h[1] /\ h # << >>
  BY DEF Rising
<1>2. Rising(r \o h)
  BY <1>1, RisingConcat, NatSeq
<1>3. r \o h \in Seq(Nat) /\ \A i \in 1..Len(r \o h) : (r \o h)[i] <= n
  BY SMTT(30), <1>1, NatConcat, NatSeq
<1>4. Rising(q)
  BY NatSeq DEF Rising
<1>5. ASSUME NEW s \in Seq(Nat), \A i \in 1..Len(s) : s[i] <= n
      PROVE  \A i \in 1..Len(s), j \in 1..Len(q) : s[i] < q[j]
  <2>1. Len(s) \in Nat /\ Len(q) \in Nat /\ \A i \in 1..Len(s) : s[i] \in Nat
    BY NatSeq
  <2>2. ASSUME NEW i \in 1..Len(s), NEW j \in 1..Len(q)
        PROVE  s[i] < q[j]
    <3>1. s[i] \in Nat /\ s[i] <= n /\ q[j] = n + j /\ j \in Nat /\ j > 0
      <4>1. s[i] <= n /\ q[j] = n + j
        BY <1>5, Zenon
      <4>2. s[i] \in Nat /\ j \in Nat /\ j > 0
        BY <2>1
      <4>3. QED
        BY <4>1, <4>2
    <3>2. QED
      BY SMTT(30), <3>1
  <2>3. QED
    BY <2>2
<1>6. QED
  BY <1>2, <1>3, <1>4, <1>5, RisingConcat

\* The members of StreamType for one client.
LEMMA ClientType ==
  ASSUME StreamType, NEW c \in Clients
  PROVE  /\ m_messages[c] \in Seq(Nat) /\ read[c] \in Seq(Nat) /\ inHand[c] \in Seq(Nat)
         /\ m_semaphore[c] \in Nat /\ joined[c] \in Nat /\ streamed \in Nat
         /\ clientPc[c] \in {"new", "added", "wait", "drain", "send", "leave", "closed"}
BY DEF StreamType

\* No client has connected.
LEMMA StreamStart == ASSUME StreamInit PROVE StreamInv
<1>1. StreamType
  BY FS_EmptySet DEF StreamInit, StreamType
<1>2. Served = {}
  BY DEF StreamInit, Served
<1>3. ASSUME NEW c \in Clients PROVE ThreadInv(c)
  BY DEF StreamInit, ThreadInv
<1>4. ASSUME NEW c \in Clients PROVE Rising(read[c] \o inHand[c] \o m_messages[c])
  <2>1. read[c] = << >> /\ inHand[c] = << >> /\ m_messages[c] = << >>
    BY DEF StreamInit
  <2>2. QED
    BY <2>1 DEF Rising
<1>5. QED
  BY <1>1, <1>2, <1>3, <1>4, FS_EmptySet, StreamingBounds DEF StreamInv, StreamInit

\* Sessions that get messages have a consistent list; the others did not move.
LEMMA Together ==
  ASSUME StreamInv, StreamType', (Cardinality(Served) <= MaxSessions)',
         \A c \in Clients : ThreadInv(c)', \A c \in m_sessions' : ListInv(c)',
         \A c \in Clients \ m_sessions' :
           UNCHANGED <<read[c], inHand[c], m_messages[c]>>
  PROVE  StreamInv'
<1>1. ASSUME NEW c \in Clients PROVE Rising(read[c] \o inHand[c] \o m_messages[c])'
  <2>1. CASE c \in m_sessions'
    <3>1. ListInv(c)' /\ ThreadInv(c)'
      BY <2>1
    <3>2. /\ m_messages'[c] \in Seq(Nat) /\ read'[c] \in Seq(Nat) /\ inHand'[c] \in Seq(Nat)
          /\ streamed' \in Nat
      BY DEF StreamType
    <3>3. Len(inHand'[c]) = 0 \/ Len(inHand'[c]) = 1
      BY <3>1, <3>2, NatSeq DEF ThreadInv
    <3>4. Taken(c)' \in Nat /\ \A i \in 1..Len(m_messages'[c]) : m_messages'[c][i] = Taken(c)' + i
      BY <3>1, <3>2, NatSeq DEF ListInv, Taken
    <3>5. QED
      BY <3>1, <3>2, <3>3, <3>4, SeenRises DEF ListInv
  <2>2. CASE c \notin m_sessions'
    BY <2>2 DEF StreamInv
  <2>3. QED
    BY <2>1, <2>2
<1>2. QED
  BY <1>1 DEF StreamInv

\* What does not touch a client keeps what holds of it.
LEMMA Others ==
  ASSUME StreamInv, NEW c \in Clients, streamed' = streamed,
         UNCHANGED <<m_messages[c], m_semaphore[c], clientPc[c], inHand[c], joined[c], read[c]>>,
         c \in m_sessions' <=> c \in m_sessions
  PROVE  ThreadInv(c)' /\ (c \in m_sessions' => ListInv(c)')
<1>1. ThreadInv(c)'
  BY DEF StreamInv, ThreadInv
<1>2. ASSUME c \in m_sessions' PROVE ListInv(c)'
  BY <1>2 DEF StreamInv, ListInv, Taken
<1>3. QED
  BY <1>1, <1>2

\* EventStreamingSession::AddMessage keeps the list's tail of the messages.
LEMMA PushStep ==
  ASSUME NEW q \in Seq(Nat), NEW n \in Nat, Len(q) <= n, MaxMessages \in Nat,
         \A i \in 1..Len(q) : q[i] = n - Len(q) + i
  PROVE  LET p == push(q, n + 1)
         IN  /\ p \in Seq(Nat) /\ Len(p) \in Nat /\ Len(p) <= n + 1 /\ p # << >>
             /\ \A i \in 1..Len(p) : p[i] = (n + 1) - Len(p) + i
             /\ n - Len(q) <= (n + 1) - Len(p)
             /\ Len(q) <= MaxMessages => Len(p) = Len(q) + 1
<1> DEFINE p == push(q, n + 1)
           l == Len(q)
<1>0. l \in Nat /\ n + 1 \in Nat
  OBVIOUS
<1>1. CASE l > MaxMessages
  <2> DEFINE u == Tail(q)
  <2>1. p = Append(u, n + 1) /\ q # << >>
    BY <1>0, <1>1, NatSeq DEF push
  <2>2. /\ u \in Seq(Nat) /\ Len(u) = l - 1
        /\ \A i \in 1..Len(u) : i + 1 \in 1..l /\ u[i] = q[i + 1]
    BY <1>0, <2>1, NatSeq
  <2> HIDE DEF u, p
  <2>3. /\ p \in Seq(Nat) /\ Len(p) = Len(u) + 1 /\ p[Len(u) + 1] = n + 1
        /\ \A i \in 1..Len(u) : p[i] = u[i]
    BY <1>0, <2>1, <2>2, NatAppend, Zenon
  <2> HIDE DEF l
  <2>4. Len(p) = l /\ p # << >>
    BY <1>0, <1>1, <2>2, <2>3, NatSeq
  <2>5. ASSUME NEW i \in 1..Len(p) PROVE p[i] = (n + 1) - Len(p) + i
    <3>1. CASE i \in 1..Len(u)
      <4>1. i + 1 \in 1..Len(q) /\ p[i] = q[i + 1] /\ i \in Nat
        BY <1>0, <2>2, <2>3, <3>1 DEF l
      <4>2. q[i + 1] = n - l + (i + 1)
        BY <4>1 DEF l
      <4>3. QED
        BY <1>0, <2>4, <4>1, <4>2
    <3>2. CASE i = Len(u) + 1
      BY <1>0, <2>2, <2>3, <2>4, <3>2
    <3>3. QED
      BY <1>0, <2>2, <2>4, <3>1, <3>2
  <2>6. QED
    BY <1>0, <1>1, <2>3, <2>4, <2>5 DEF p, l
<1>2. CASE l <= MaxMessages
  <2>1. p = Append(q, n + 1)
    BY <1>0, <1>2 DEF push
  <2> HIDE DEF p
  <2>2. /\ p \in Seq(Nat) /\ Len(p) = l + 1 /\ p[l + 1] = n + 1
        /\ \A i \in 1..l : p[i] = q[i]
    BY <1>0, <2>1, NatAppend, Zenon
  <2> HIDE DEF l
  <2>3. p # << >>
    BY <1>0, <2>2, NatSeq
  <2>4. ASSUME NEW i \in 1..Len(p) PROVE p[i] = (n + 1) - Len(p) + i
    <3>1. CASE i \in 1..l
      BY <1>0, <2>2, <3>1 DEF l
    <3>2. CASE i = l + 1
      BY <1>0, <2>2, <3>2
    <3>3. QED
      BY <1>0, <2>2, <3>1, <3>2
  <2>5. QED
    BY <1>0, <1>2, <2>2, <2>3, <2>4 DEF p, l
<1>3. QED
  BY <1>0, <1>1, <1>2

\* EventStreaming::AddMessage
LEMMA BroadcastStep == ASSUME StreamInv, Broadcast PROVE StreamInv'
<1>1. /\ streamed' = streamed + 1
      /\ m_sessions' = m_sessions /\ clientPc' = clientPc /\ inHand' = inHand
      /\ joined' = joined /\ read' = read
  BY DEF Broadcast
<1>2. ASSUME NEW c \in Clients
      PROVE  /\ c \notin m_sessions => /\ m_messages'[c] = m_messages[c]
                                       /\ m_semaphore'[c] = m_semaphore[c]
             /\ c \in m_sessions => /\ m_messages'[c] = push(m_messages[c], streamed + 1)
                                    /\ m_semaphore'[c] = m_semaphore[c] + 1
  BY ClientType DEF Broadcast, StreamInv
<1>3. ASSUME NEW c \in m_sessions
      PROVE  /\ m_messages'[c] \in Seq(Nat) /\ m_messages'[c] # << >>
             /\ Len(m_messages'[c]) \in Nat /\ Len(m_messages'[c]) <= streamed + 1
             /\ \A i \in 1..Len(m_messages'[c]) : m_messages'[c][i] = Taken(c)' + i
             /\ Taken(c) <= Taken(c)' /\ Taken(c)' \in Nat /\ Taken(c) \in Nat
             /\ Len(m_messages[c]) <= MaxMessages => Len(m_messages'[c]) = Len(m_messages[c]) + 1
  <2>1. c \in Clients /\ ListInv(c)
    BY DEF StreamInv, StreamType
  <2>2. m_messages[c] \in Seq(Nat) /\ streamed \in Nat /\ Len(m_messages[c]) \in Nat
    BY <2>1, ClientType, NatSeq DEF StreamInv
  <2>3. QED
    <3> DEFINE q == m_messages[c]
               p == push(q, streamed + 1)
    <3>1. Len(q) <= streamed /\ \A i \in 1..Len(q) : q[i] = streamed - Len(q) + i
      BY <2>1 DEF ListInv, Taken
    <3>2. m_messages'[c] = p /\ MaxMessages \in Nat
      BY <1>2, <2>1, StreamingBounds
    <3> HIDE DEF q
    <3>3. /\ p \in Seq(Nat) /\ Len(p) \in Nat /\ Len(p) <= streamed + 1 /\ p # << >>
          /\ \A i \in 1..Len(p) : p[i] = (streamed + 1) - Len(p) + i
          /\ streamed - Len(q) <= (streamed + 1) - Len(p)
          /\ Len(q) <= MaxMessages => Len(p) = Len(q) + 1
      BY <2>2, <3>1, <3>2, PushStep DEF q
    <3> HIDE DEF p
    <3>4. Taken(c) = streamed - Len(q) /\ Taken(c)' = (streamed + 1) - Len(p)
      BY <1>1, <3>2 DEF q, Taken
    <3>5. Taken(c) \in Nat /\ Taken(c)' \in Nat
      BY <2>2, <3>1, <3>3, <3>4 DEF q
    <3>6. QED
      BY <3>2, <3>3, <3>4, <3>5 DEF q
<1>4. StreamType'
  <2>1. m_messages' \in [Clients -> Seq(Nat)]
    <3>1. ASSUME NEW c \in Clients PROVE m_messages'[c] \in Seq(Nat)
      BY <1>2, <1>3, ClientType DEF StreamInv
    <3>2. QED
      BY <3>1 DEF Broadcast
  <2>2. m_semaphore' \in [Clients -> Nat]
    <3>1. ASSUME NEW c \in Clients PROVE m_semaphore'[c] \in Nat
      BY <1>2, ClientType DEF StreamInv
    <3>2. QED
      BY <3>1 DEF Broadcast
  <2>3. QED
    BY <1>1, <2>1, <2>2 DEF StreamInv, StreamType
<1>5. (Cardinality(Served) <= MaxSessions)'
  BY <1>1 DEF StreamInv, Served
<1>6. ASSUME NEW c \in Clients PROVE ThreadInv(c)'
  <2>1. ThreadInv(c) /\ m_semaphore[c] \in Nat
    BY ClientType DEF StreamInv
  <2>2. QED
    BY <1>1, <1>2, <2>1 DEF ThreadInv
<1>7. ASSUME NEW c \in m_sessions' PROVE ListInv(c)'
  <2>1. c \in m_sessions /\ c \in Clients /\ ListInv(c) /\ ThreadInv(c)
    BY <1>1 DEF StreamInv, StreamType
  <2>2. /\ read[c] \in Seq(Nat) /\ inHand[c] \in Seq(Nat) /\ m_messages[c] \in Seq(Nat)
        /\ streamed \in Nat /\ joined[c] \in Nat
        /\ Len(read[c]) \in Nat /\ Len(inHand[c]) \in Nat /\ Len(m_messages[c]) \in Nat
    BY <2>1, ClientType, NatSeq DEF StreamInv
  <2>3. /\ \A i \in 1..Len(read[c]) : read[c][i] <= Taken(c)'
        /\ inHand[c] # << >> => inHand[c][1] <= Taken(c)'
    BY SMTT(30), <1>3, <2>1, <2>2, NatSeq DEF ListInv
  <2>4. clientPc[c] # "leave" /\ (streamed + 1) - joined[c] <= MaxMessages + 1
          => Len(read[c]) + Len(inHand[c]) + Len(m_messages'[c]) = (streamed + 1) - joined[c]
    <3> DEFINE old == Len(m_messages[c])
               new == Len(m_messages'[c])
               sent == Len(read[c])
               hand == Len(inHand[c])
               since == joined[c]
    <3>1. /\ since <= streamed /\ old \in Nat /\ new \in Nat /\ sent \in Nat /\ hand \in Nat
          /\ streamed \in Nat /\ since \in Nat /\ MaxMessages \in Nat
          /\ old <= MaxMessages => new = old + 1
      BY <1>3, <2>1, <2>2, StreamingBounds DEF ListInv
    <3>2. clientPc[c] # "leave" /\ streamed - since <= MaxMessages + 1
            => sent + hand + old = streamed - since
      BY <2>1 DEF ListInv
    <3> HIDE DEF old, new, sent, hand, since
    <3>3. clientPc[c] # "leave" /\ (streamed + 1) - since <= MaxMessages + 1
            => sent + hand + new = (streamed + 1) - since
      BY <3>1, <3>2
    <3>4. QED
      BY <3>3 DEF new, sent, hand, since
  <2>5. joined[c] <= streamed + 1
    BY <2>1, <2>2 DEF ListInv
  <2>6. /\ Rising(read[c])
        /\ inHand[c] # << >> => \A i \in 1..Len(read[c]) : read[c][i] < inHand[c][1]
    BY <2>1 DEF ListInv
  <2>7. /\ Len(m_messages'[c]) <= streamed'
        /\ \A i \in 1..Len(m_messages'[c]) : m_messages'[c][i] = Taken(c)' + i
        /\ joined'[c] <= streamed'
    BY <1>1, <1>3, <2>1, <2>5
  <2>8. clientPc'[c] # "leave" /\ streamed' - joined'[c] <= MaxMessages + 1
          => Len(read'[c]) + Len(inHand'[c]) + Len(m_messages'[c]) = streamed' - joined'[c]
    <3>1. /\ joined'[c] = joined[c] /\ clientPc'[c] = clientPc[c]
          /\ read'[c] = read[c] /\ inHand'[c] = inHand[c]
      BY <1>1
    <3>2. streamed' - joined'[c] = (streamed + 1) - joined[c]
      BY <1>1, <3>1, Zenon
    <3>3. Len(read'[c]) + Len(inHand'[c]) = Len(read[c]) + Len(inHand[c])
      BY <3>1, Zenon
    <3>4. QED
      BY <2>4, <3>1, <3>2, <3>3, Zenon
  <2>9. QED
    BY <1>1, <2>3, <2>6, <2>7, <2>8, Zenon DEF ListInv
<1>8. QED
  BY <1>1, <1>2, <1>4, <1>5, <1>6, <1>7, Together

\* A thread whose place changes, with its session's list and what it reads left
\* alone.
LEMMA Moves ==
  ASSUME StreamInv, NEW c \in Clients, ListInv(c), streamed' = streamed,
         UNCHANGED <<m_messages[c], inHand[c], joined[c], read[c]>>,
         clientPc[c] # "leave" \/ clientPc'[c] = "leave"
  PROVE  ListInv(c)'
BY DEF ListInv, Taken

\* A request was answered: the session gets what comes from now on.
LEMMA AddSessionStep == ASSUME StreamInv, NEW c \in Clients, AddSession(c) PROVE StreamInv'
<1>1. /\ clientPc[c] = "new" /\ clientPc' = [clientPc EXCEPT ![c] = "added"]
      /\ m_sessions' = m_sessions \cup {c} /\ joined' = [joined EXCEPT ![c] = streamed]
      /\ UNCHANGED <<m_messages, m_semaphore, inHand, streamed, read>>
  BY DEF AddSession, Goes
<1>2. StreamType /\ ThreadInv(c) /\ streamed \in Nat
  BY DEF StreamInv, StreamType
<1>3. StreamType'
  BY <1>1, <1>2, FS_AddElement DEF StreamType
<1>4. Served' = Served
  BY <1>1, <1>2 DEF Served, StreamType
<1>5. ThreadInv(c)'
  BY <1>1, <1>2 DEF ThreadInv, StreamType
<1>6. ListInv(c)'
  <2>1. read[c] = << >> /\ inHand[c] = << >> /\ m_messages[c] = << >>
    BY <1>1, <1>2 DEF ThreadInv
  <2>2. joined'[c] = streamed /\ Len(<< >>) = 0
    BY <1>1, <1>2 DEF StreamType
  <2>3. QED
    BY <1>1, <1>2, <2>1, <2>2 DEF ListInv, Taken, Rising
<1>7. ASSUME NEW d \in Clients \ {c} PROVE ThreadInv(d)' /\ (d \in m_sessions' => ListInv(d)')
  BY <1>1, <1>2, Others DEF StreamType
<1>8. QED
  BY <1>1, <1>3, <1>4, <1>5, <1>6, <1>7, Together DEF StreamInv, StreamType

\* Each thread that is served was counted when it was in m_sessions, and then
\* there were no more sessions than allowed.
LEMMA CountSessionsStep ==
  ASSUME StreamInv, NEW c \in Clients, CountSessions(c) PROVE StreamInv'
<1>1. /\ clientPc[c] = "added"
      /\ clientPc' = [clientPc EXCEPT ![c] = IF Cardinality(m_sessions) > MaxSessions
                                             THEN "leave" ELSE "wait"]
      /\ UNCHANGED <<m_sessions, m_messages, m_semaphore, inHand, streamed, joined, read>>
  BY DEF CountSessions, Goes
<1>2. StreamType /\ ThreadInv(c) /\ \A d \in Clients : ThreadInv(d)
  BY DEF StreamInv
<1>3. StreamType'
  BY <1>1, <1>2 DEF StreamType
<1>4. (Cardinality(Served) <= MaxSessions)'
  <2>1. CASE Cardinality(m_sessions) > MaxSessions
    <3>1. Served' = Served
      BY <1>1, <1>2, <2>1 DEF Served, StreamType
    <3>2. QED
      BY <3>1 DEF StreamInv
  <2>2. CASE ~(Cardinality(m_sessions) > MaxSessions)
    <3>1. Served' \in SUBSET m_sessions
      BY <1>1, <1>2, <2>2 DEF Served, StreamType, ThreadInv
    <3>2. /\ Cardinality(Served') <= Cardinality(m_sessions)
          /\ Cardinality(Served') \in Nat /\ Cardinality(m_sessions) \in Nat
      BY <1>2, <3>1, FS_Subset, FS_CardinalityType DEF StreamType
    <3>3. QED
      BY <2>2, <3>2, StreamingBounds
  <2>3. QED
    BY <2>1, <2>2
<1>5. ThreadInv(c)'
  BY <1>1, <1>2, ClientType DEF ThreadInv, StreamType
<1>6. c \in m_sessions /\ ListInv(c)'
  BY <1>1, <1>2, Moves DEF StreamInv, ThreadInv
<1>7. ASSUME NEW d \in Clients \ {c} PROVE ThreadInv(d)' /\ (d \in m_sessions' => ListInv(d)')
  BY <1>1, <1>2, Others DEF StreamType
<1>8. QED
  BY <1>1, <1>3, <1>4, <1>5, <1>6, <1>7, Together DEF StreamInv, StreamType

\* A token was taken: the thread looks at its list.
LEMMA WaitStep == ASSUME StreamInv, NEW c \in Clients, WaitForMessages(c) PROVE StreamInv'
<1>1. /\ clientPc[c] = "wait" /\ clientPc' = [clientPc EXCEPT ![c] = "drain"]
      /\ m_semaphore[c] > 0 /\ m_semaphore' = [m_semaphore EXCEPT ![c] = @ - 1]
      /\ UNCHANGED <<m_sessions, m_messages, inHand, streamed, joined, read>>
  BY DEF WaitForMessages, Goes
<1>2. StreamType /\ ThreadInv(c) /\ m_semaphore[c] \in Nat
  BY DEF StreamInv, StreamType
<1>3. StreamType'
  BY <1>1, <1>2 DEF StreamType
<1>4. Served' = Served
  BY <1>1, <1>2 DEF Served, StreamType
<1>5. ThreadInv(c)'
  BY <1>1, <1>2 DEF ThreadInv, StreamType
<1>6. c \in m_sessions /\ ListInv(c)'
  BY <1>1, <1>2, Moves DEF StreamInv, ThreadInv, StreamType
<1>7. ASSUME NEW d \in Clients \ {c} PROVE ThreadInv(d)' /\ (d \in m_sessions' => ListInv(d)')
  BY <1>1, <1>2, Others DEF StreamType
<1>8. QED
  BY <1>1, <1>3, <1>4, <1>5, <1>6, <1>7, Together DEF StreamInv, StreamType

\* The session is gone, and its list stays as it is.
LEMMA RemoveSessionStep ==
  ASSUME StreamInv, NEW c \in Clients, RemoveSession(c) PROVE StreamInv'
<1>1. /\ clientPc[c] = "leave" /\ clientPc' = [clientPc EXCEPT ![c] = "closed"]
      /\ m_sessions' = m_sessions \ {c}
      /\ UNCHANGED <<m_messages, m_semaphore, inHand, streamed, joined, read>>
  BY DEF RemoveSession, Goes
<1>2. StreamType /\ ThreadInv(c)
  BY DEF StreamInv
<1>3. StreamType'
  BY <1>1, <1>2, FS_RemoveElement DEF StreamType
<1>4. Served' = Served
  BY <1>1, <1>2 DEF Served, StreamType
<1>5. ThreadInv(c)' /\ c \notin m_sessions'
  BY <1>1, <1>2 DEF ThreadInv, StreamType
<1>6. ASSUME NEW d \in Clients \ {c} PROVE ThreadInv(d)' /\ (d \in m_sessions' => ListInv(d)')
  BY <1>1, <1>2, Others DEF StreamType
<1>7. QED
  BY <1>1, <1>3, <1>4, <1>5, <1>6, Together DEF StreamInv, StreamType

\* The first message of the list goes into the thread's hand.
LEMMA GetStep == ASSUME StreamInv, NEW c \in Clients, GetTapeMessage(c) PROVE StreamInv'
<1> DEFINE q == m_messages[c]
<1>1. /\ StreamType /\ ThreadInv(c) /\ streamed \in Nat /\ q \in Seq(Nat) /\ joined[c] \in Nat
      /\ read[c] \in Seq(Nat) /\ Len(read[c]) \in Nat /\ Len(q) \in Nat
  BY ClientType, NatSeq DEF StreamInv
<1>2. ASSUME NEW d \in Clients \ {c},
             UNCHANGED <<m_sessions, m_semaphore, streamed, joined, read>>,
             UNCHANGED <<m_messages[d], clientPc[d], inHand[d]>>
      PROVE ThreadInv(d)' /\ (d \in m_sessions' => ListInv(d)')
  BY <1>2, Others
<1>3. CASE q = << >>
  <2>1. /\ clientPc[c] = "drain" /\ clientPc' = [clientPc EXCEPT ![c] = "wait"]
        /\ UNCHANGED <<m_sessions, m_messages, m_semaphore, inHand, streamed, joined, read>>
    BY <1>3 DEF GetTapeMessage, Goes
  <2>2. StreamType'
    BY <1>1, <2>1 DEF StreamType
  <2>3. Served' = Served
    BY <1>1, <2>1 DEF Served, StreamType
  <2>4. ThreadInv(c)'
    BY <1>1, <1>3, <2>1 DEF ThreadInv, StreamType
  <2>5. c \in m_sessions /\ ListInv(c)'
    BY <1>1, <2>1, Moves DEF StreamInv, ThreadInv, StreamType
  <2>6. ASSUME NEW d \in Clients \ {c} PROVE ThreadInv(d)' /\ (d \in m_sessions' => ListInv(d)')
    BY <1>1, <1>2, <2>1 DEF StreamType
  <2>7. QED
    BY <2>1, <2>2, <2>3, <2>4, <2>5, <2>6, Together DEF StreamInv, StreamType
<1>4. CASE q # << >>
  <2>1. /\ clientPc[c] = "drain" /\ clientPc' = [clientPc EXCEPT ![c] = "send"]
        /\ inHand' = [inHand EXCEPT ![c] = <<Head(q)>>]
        /\ m_messages' = [m_messages EXCEPT ![c] = Tail(q)]
        /\ UNCHANGED <<m_sessions, m_semaphore, streamed, joined, read>>
    BY <1>4 DEF GetTapeMessage, Goes
  <2>2. /\ Head(q) = q[1] /\ q[1] \in Nat /\ 1 \in 1..Len(q) /\ Len(q) > 0
        /\ Tail(q) \in Seq(Nat) /\ Len(Tail(q)) = Len(q) - 1
        /\ \A i \in 1..Len(Tail(q)) : i + 1 \in 1..Len(q) /\ Tail(q)[i] = q[i + 1]
    BY <1>1, <1>4, NatSeq
  <2>3. /\ inHand'[c] = <<q[1]>> /\ m_messages'[c] = Tail(q)
        /\ clientPc'[c] = "send" /\ c \in m_sessions /\ inHand[c] = << >>
    BY <1>1, <2>1, <2>2 DEF StreamType, ThreadInv
  <2>4. StreamType'
    BY <1>1, <2>1, <2>2 DEF StreamType
  <2>5. Served' = Served
    BY <1>1, <2>1 DEF Served, StreamType
  <2>6. ThreadInv(c)'
    BY <1>1, <2>1, <2>3 DEF ThreadInv
  <2>7. ListInv(c)'
    <3>1. ListInv(c)
      BY <2>3 DEF StreamInv
    <3>2. /\ Taken(c) \in Nat /\ Taken(c)' = Taken(c) + 1 /\ q[1] = Taken(c) + 1
          /\ Len(Tail(q)) <= streamed /\ joined[c] <= streamed
      <4> DEFINE l == Len(q)
                 k == Len(Tail(q))
                 j == joined[c]
      <4>1. /\ l \in Nat /\ l > 0 /\ l <= streamed /\ j \in Nat /\ j <= streamed /\ k = l - 1
            /\ q[1] = streamed - l + 1
        BY <1>1, <2>2, <3>1 DEF ListInv, Taken
      <4>2. Taken(c) = streamed - l /\ Taken(c)' = streamed - k
        BY <2>1, <2>3 DEF Taken
      <4> HIDE DEF l, k, j
      <4>3. /\ streamed - l \in Nat /\ streamed - k = streamed - l + 1
            /\ k <= streamed
        BY <1>1, <4>1
      <4>4. QED
        BY <4>1, <4>2, <4>3 DEF k, j
    <3>3. ASSUME NEW i \in 1..Len(Tail(q)) PROVE Tail(q)[i] = Taken(c) + 1 + i
      <4>1. Tail(q)[i] = Taken(c) + (i + 1) /\ i \in Nat
        BY <2>2, <3>1 DEF ListInv
      <4>2. QED
        BY <3>2, <4>1
    <3>4. ASSUME NEW i \in 1..Len(read[c])
          PROVE  read[c][i] <= Taken(c) + 1 /\ read[c][i] < q[1]
      <4>1. read[c][i] <= Taken(c) /\ read[c][i] \in Nat
        BY <1>1, <3>1, NatSeq DEF ListInv
      <4>2. QED
        BY <3>2, <4>1
    <3>5. ASSUME streamed - joined[c] <= MaxMessages + 1
          PROVE  Len(read[c]) + Len(<<q[1]>>) + Len(Tail(q)) = streamed - joined[c]
      <4>1. Len(read[c]) + Len(inHand[c]) + Len(q) = streamed - joined[c]
        BY <2>1, <3>1, <3>5 DEF ListInv
      <4>2. Len(inHand[c]) = 0 /\ Len(<<q[1]>>) = 1
        BY <2>3
      <4> DEFINE a == Len(read[c])
                 l == Len(q)
                 k == Len(Tail(q))
      <4>3. a \in Nat /\ l \in Nat /\ l > 0 /\ k = l - 1 /\ a + 0 + l = streamed - joined[c]
        BY <1>1, <2>2, <4>1, <4>2
      <4> HIDE DEF a, l, k
      <4>4. a + 1 + k = streamed - joined[c]
        BY <4>3
      <4>5. QED
        BY <4>2, <4>4 DEF a, k
    <3>6. /\ streamed' = streamed /\ joined'[c] = joined[c] /\ read'[c] = read[c]
          /\ <<q[1]>>[1] = q[1] /\ Rising(read[c])
      BY <2>1, <3>1 DEF ListInv
    <3>7. /\ Len(m_messages'[c]) <= streamed'
          /\ \A i \in 1..Len(m_messages'[c]) : m_messages'[c][i] = Taken(c)' + i
      BY <2>3, <3>2, <3>3, <3>6
    <3>8. /\ \A i \in 1..Len(read'[c]) : read'[c][i] <= Taken(c)' /\ read'[c][i] < inHand'[c][1]
          /\ inHand'[c][1] <= Taken(c)'
      BY <2>3, <3>2, <3>4, <3>6
    <3>9. streamed' - joined'[c] <= MaxMessages + 1
            => Len(read'[c]) + Len(inHand'[c]) + Len(m_messages'[c]) = streamed' - joined'[c]
      BY <2>3, <3>5, <3>6
    <3>10. Rising(read[c])' /\ joined'[c] <= streamed'
      BY <3>2, <3>6 DEF Rising
    <3>11. QED
      BY <3>7, <3>8, <3>9, <3>10 DEF ListInv
  <2>8. ASSUME NEW d \in Clients \ {c} PROVE ThreadInv(d)' /\ (d \in m_sessions' => ListInv(d)')
    BY <1>1, <1>2, <2>1 DEF StreamType
  <2>9. QED
    BY <2>1, <2>3, <2>4, <2>5, <2>6, <2>7, <2>8, Together DEF StreamInv, StreamType
<1>5. QED
  BY <1>3, <1>4

\* The message in hand was sent, or is lost with the connection.
LEMMA SendStep == ASSUME StreamInv, NEW c \in Clients, Send(c) PROVE StreamInv'
<1>1. /\ StreamType /\ ThreadInv(c) /\ streamed \in Nat /\ joined[c] \in Nat
      /\ m_messages[c] \in Seq(Nat) /\ Len(m_messages[c]) \in Nat
      /\ read[c] \in Seq(Nat) /\ Len(read[c]) \in Nat /\ inHand[c] \in Seq(Nat)
  BY ClientType, NatSeq DEF StreamInv
<1>2. /\ clientPc[c] = "send" /\ inHand' = [inHand EXCEPT ![c] = << >>]
      /\ UNCHANGED <<m_sessions, m_messages, m_semaphore, streamed, joined>>
      /\ \/ /\ clientPc' = [clientPc EXCEPT ![c] = "drain"]
            /\ read' = [read EXCEPT ![c] = @ \o inHand[c]]
         \/ clientPc' = [clientPc EXCEPT ![c] = "leave"] /\ read' = read
  BY DEF Send, Goes
<1>3. c \in m_sessions /\ ListInv(c) /\ Len(inHand[c]) = 1 /\ inHand[c] # << >>
  <2>1. c \in m_sessions /\ Len(inHand[c]) = 1
    BY <1>1, <1>2 DEF ThreadInv
  <2>2. inHand[c] # << >>
    <3>1. Len(<< >>) = 0
      OBVIOUS
    <3>2. QED
      BY <2>1, <3>1
  <2>3. QED
    BY <2>1, <2>2 DEF StreamInv
<1>4. /\ Taken(c)' = Taken(c) /\ Taken(c) \in Nat /\ inHand'[c] = << >>
      /\ m_messages'[c] = m_messages[c]
  BY <1>1, <1>2, <1>3 DEF Taken, ListInv, StreamType
<1>5. (Cardinality(Served) <= MaxSessions)'
  <2>1. Served' \in SUBSET Served /\ IsFiniteSet(Served)
    <3>1. Served' \subseteq Served
      BY <1>1, <1>2 DEF Served, StreamType
    <3>2. Served \in SUBSET m_sessions
      BY DEF Served, StreamInv, ThreadInv
    <3>3. QED
      BY <1>1, <3>1, <3>2, FS_Subset DEF StreamType
  <2>2. /\ Cardinality(Served') <= Cardinality(Served) /\ Cardinality(Served) <= MaxSessions
        /\ Cardinality(Served') \in Nat /\ Cardinality(Served) \in Nat
    BY <2>1, FS_Subset, FS_CardinalityType DEF StreamInv
  <2>3. QED
    BY <2>2, StreamingBounds
<1>6. ASSUME NEW d \in Clients \ {c} PROVE ThreadInv(d)' /\ (d \in m_sessions' => ListInv(d)')
  BY <1>1, <1>2, Others DEF StreamType
<1>7. CASE clientPc' = [clientPc EXCEPT ![c] = "drain"] /\ read' = [read EXCEPT ![c] = @ \o inHand[c]]
  <2> DEFINE r == read[c] \o inHand[c]
  <2>1. /\ r \in Seq(Nat) /\ Len(r) = Len(read[c]) + 1 /\ clientPc'[c] = "drain"
        /\ \A i \in 1..Len(r) :
             \/ i \in 1..Len(read[c]) /\ r[i] = read[c][i]
             \/ i > Len(read[c]) /\ r[i] = inHand[c][1]
    <3> DEFINE p == read[c]
               h == inHand[c]
    <3>1. /\ r \in Seq(Nat) /\ Len(r) = Len(p) + Len(h)
          /\ \A i \in 1..Len(r) :
               \/ i \in 1..Len(p) /\ r[i] = p[i]
               \/ i > Len(p) /\ i - Len(p) \in 1..Len(h) /\ r[i] = h[i - Len(p)]
      BY <1>1, NatConcat
    <3>2. Len(h) = 1 /\ Len(p) \in Nat /\ clientPc'[c] = "drain"
      BY <1>1, <1>3, <1>7 DEF StreamType
    <3> HIDE DEF p, h, r
    <3>3. Len(r) = Len(p) + 1
      BY <3>1, <3>2
    <3>4. ASSUME NEW i \in 1..Len(r), i - Len(p) \in 1..Len(h)
          PROVE  i - Len(p) = 1
      BY <3>2, <3>3, <3>4
    <3>5. ASSUME NEW i \in 1..Len(r)
          PROVE  \/ i \in 1..Len(p) /\ r[i] = p[i]
                 \/ i > Len(p) /\ r[i] = h[1]
      BY <3>1, <3>4
    <3>6. QED
      BY <3>1, <3>2, <3>3, <3>5 DEF p, h
  <2>2. read'[c] = r
    BY <1>1, <1>7 DEF StreamType
  <2>3. Rising(r)
    <3>1. /\ Len(inHand[c]) = 0 \/ Len(inHand[c]) = 1
          /\ Rising(read[c]) /\ \A i \in 1..Len(read[c]) : read[c][i] <= Taken(c)
          /\ inHand[c] # << >> => /\ inHand[c][1] <= Taken(c)
                                  /\ \A i \in 1..Len(read[c]) : read[c][i] < inHand[c][1]
          /\ \A i \in 1..Len(m_messages[c]) : m_messages[c][i] = Taken(c) + i
      BY <1>3 DEF ListInv
    <3>2. QED
      BY <1>1, <1>4, <3>1, SeenRises
  <2> HIDE DEF r
  <2>4. StreamType'
    BY <1>1, <1>2, <1>7, <2>1 DEF StreamType, r
  <2>5. ThreadInv(c)'
    BY <1>1, <1>2, <1>4, <2>1 DEF ThreadInv
  <2>6. ListInv(c)'
    <3>1. \A i \in 1..Len(r) : r[i] <= Taken(c)
      BY <1>3, <2>1 DEF ListInv
    <3>2. ASSUME streamed - joined[c] <= MaxMessages + 1
          PROVE  Len(r) + Len(<< >>) + Len(m_messages[c]) = streamed - joined[c]
      <4>1. Len(read[c]) + Len(inHand[c]) + Len(m_messages[c]) = streamed - joined[c]
        BY <1>2, <1>3, <3>2 DEF ListInv
      <4> DEFINE a == Len(read[c])
                 l == Len(m_messages[c])
      <4>2. a \in Nat /\ l \in Nat /\ Len(r) = a + 1 /\ a + 1 + l = streamed - joined[c]
        BY <1>1, <1>3, <2>1, <4>1
      <4> HIDE DEF a, l
      <4>3. Len(r) + 0 + l = streamed - joined[c]
        BY <4>2
      <4>4. Len(<< >>) = 0
        OBVIOUS
      <4>5. QED
        BY <4>3, <4>4 DEF l
    <3>3. streamed' = streamed /\ joined'[c] = joined[c]
      BY <1>2
    <3>4. /\ Len(m_messages[c]) <= streamed /\ joined[c] <= streamed
          /\ \A i \in 1..Len(m_messages[c]) : m_messages[c][i] = Taken(c) + i
      BY <1>3 DEF ListInv
    <3>5. QED
      BY <1>4, <2>2, <2>3, <3>1, <3>2, <3>3, <3>4 DEF ListInv
  <2>7. QED
    BY <1>2, <1>3, <1>5, <1>6, <2>4, <2>5, <2>6, Together DEF StreamInv, StreamType
<1>8. CASE clientPc' = [clientPc EXCEPT ![c] = "leave"] /\ read' = read
  <2>1. StreamType'
    BY <1>1, <1>2, <1>8 DEF StreamType
  <2>2. ThreadInv(c)'
    BY <1>1, <1>2, <1>4, <1>8 DEF ThreadInv, StreamType
  <2>3. clientPc'[c] = "leave" /\ streamed' = streamed /\ joined' = joined
    BY <1>1, <1>2, <1>8 DEF StreamType
  <2>4. ListInv(c)'
    BY <1>3, <1>4, <1>8, <2>3 DEF ListInv
  <2>5. QED
    BY <1>2, <1>3, <1>5, <1>6, <2>1, <2>2, <2>4, Together DEF StreamInv, StreamType
<1>9. QED
  BY <1>2, <1>7, <1>8

\* A step of a client's connection.
LEMMA ServiceStep ==
  ASSUME StreamInv, NEW c \in Clients, StreamingSvc(c) PROVE StreamInv'
BY AddSessionStep, CountSessionsStep, WaitStep, GetStep, SendStep, RemoveSessionStep
   DEF StreamingSvc

\* Nothing happens to the clients.
LEMMA StreamRests == ASSUME StreamInv, UNCHANGED streamVars PROVE StreamInv'
<1> USE DEF streamVars
<1>1. StreamType' /\ Served' = Served
  BY DEF StreamInv, StreamType, Served
<1>2. ASSUME NEW c \in Clients PROVE ThreadInv(c)' /\ (c \in m_sessions' => ListInv(c)')
  BY Others
<1>3. m_sessions' \subseteq Clients
  BY <1>1 DEF StreamType
<1>4. QED
  BY <1>1, <1>2, <1>3, Together DEF StreamInv

\* The invariant says of the clients what they may expect.
LEMMA InvFollows == ASSUME StreamInv PROVE ClientsFollow
<1>1. ASSUME NEW c \in Clients
      PROVE  LET seen == read[c] \o inHand[c] \o m_messages[c]
                 q == m_messages[c]
             IN /\ \A i \in 1..Len(seen) - 1 : seen[i] < seen[i + 1]
                /\ c \in m_sessions =>
                     /\ q # << >> => q[Len(q)] = streamed /\ q[1] + Len(q) = streamed + 1
                     /\ clientPc[c] # "leave" /\ streamed - joined[c] <= MaxMessages + 1
                          => Len(seen) = streamed - joined[c]
                /\ clientPc[c] = "wait" /\ m_semaphore[c] = 0 => q = << >>
  <2> DEFINE q == m_messages[c]
             s == read[c] \o inHand[c]
             seen == s \o q
  <2>1. /\ q \in Seq(Nat) /\ Len(q) \in Nat /\ streamed \in Nat
        /\ read[c] \in Seq(Nat) /\ inHand[c] \in Seq(Nat)
    BY ClientType, NatSeq DEF StreamInv
  <2>2. /\ s \in Seq(Nat) /\ Len(s) = Len(read[c]) + Len(inHand[c])
        /\ seen \in Seq(Nat) /\ Len(seen) = Len(s) + Len(q) /\ Len(seen) \in Nat
    BY <2>1, NatConcat, NatSeq
  <2>3. Rising(seen) /\ ThreadInv(c) /\ (c \in m_sessions => ListInv(c))
    BY DEF StreamInv
  <2> HIDE DEF seen
  <2>4. \A i \in 1..Len(seen) - 1 : seen[i] < seen[i + 1]
    <3>1. ASSUME NEW i \in 1..Len(seen) - 1 PROVE seen[i] < seen[i + 1]
      <4>1. i \in 1..Len(seen) /\ i + 1 \in 1..Len(seen) /\ i < i + 1
        <5> DEFINE n == Len(seen)
        <5>1. n \in Nat
          BY <2>2
        <5> HIDE DEF n
        <5>2. i \in 1..n /\ i + 1 \in 1..n /\ i < i + 1
          <6>1. i \in 1..n - 1
            BY DEF n
          <6>2. QED
            BY <5>1, <6>1
        <5>3. QED
          BY <5>2 DEF n
      <4>2. QED
        BY <2>3, <4>1 DEF Rising
    <3>2. QED
      BY <3>1
  <2>5. ASSUME c \in m_sessions, q # << >>
        PROVE  q[Len(q)] = streamed /\ q[1] + Len(q) = streamed + 1
    <3>1. Len(q) > 0
      BY <2>1, <2>5, NatSeq
    <3>2. \A i \in 1..Len(q) : q[i] = streamed - Len(q) + i
      BY <2>3, <2>5 DEF ListInv, Taken
    <3>3. Len(q) \in 1..Len(q) /\ 1 \in 1..Len(q)
      BY <2>1, <3>1
    <3>4. q[Len(q)] = streamed - Len(q) + Len(q) /\ q[1] = streamed - Len(q) + 1
      BY <3>2, <3>3
    <3>5. QED
      BY <2>1, <3>4
  <2>6. ASSUME c \in m_sessions, clientPc[c] # "leave", streamed - joined[c] <= MaxMessages + 1
        PROVE  Len(seen) = streamed - joined[c]
    BY <2>2, <2>3, <2>6 DEF ListInv
  <2>7. QED
    BY <2>3, <2>4, <2>5, <2>6 DEF ThreadInv, seen
<1>2. QED
  BY <1>1 DEF ClientsFollow, StreamInv, Served
-----------------------------------------------------------------------------
(* The reports                                                             *)

USE DEF callVars, portVars, audioVars, tapeVars, threadVars, sendVars, queueVars, skipVars

\* The capture thread has no tape's number.
LEMMA Threads ==
  /\ CAPTURE \in Reporters /\ CAPTURE \notin Tapes /\ NULL \notin Tapes
  /\ Tapes \subseteq Reporters /\ Tapes \subseteq Nat
  /\ \A r \in Reporters : r = CAPTURE \/ r \in Tapes
BY ReportingBounds DEF CAPTURE, NULL, Tapes, Reporters

\* Append, Head and Tail stay within the set a sequence is over.
LEMMA SeqTypes ==
  ASSUME NEW S, NEW q \in Seq(S)
  PROVE  /\ Len(q) \in Nat
         /\ \A e \in S : Append(q, e) \in Seq(S)
         /\ q # << >> => Head(q) \in S /\ Tail(q) \in Seq(S)
OBVIOUS

\* Settings are of their types.
LEMMA ScenarioType ==
  ASSUME TypeOK
  PROVE  /\ scenario.trackers \in 0..MaxTrackers /\ scenario.tapes \in 0..MaxTapes
         /\ scenario.clients \subseteq Clients
         /\ scenario.trackers \in Nat /\ scenario.tapes \in Nat
         /\ \A k \in 1..scenario.trackers : k \in Trackers
<1>1. scenario \in Settings
  BY ReportingScenarios DEF TypeOK
<1>2. /\ scenario.trackers \in 0..MaxTrackers /\ scenario.tapes \in 0..MaxTapes
      /\ scenario.clients \subseteq Clients
  BY <1>1 DEF Settings
<1>3. QED
  BY <1>2, ReportingBounds DEF Trackers

\* Types in the initial state.
LEMMA InitTypes == ASSUME Init PROVE TypeOK
<1>1. CallType
  <2>1. /\ session = "none" /\ numTapes = 0 /\ numUpdates = 0 /\ m_audioTapeRef = 0
        /\ m_needSendStop = FALSE /\ capEvent = "none"
    BY DEF Init, NULL
  <2>2. 0 \in 0..MaxTapes /\ 0 \in Nat
    BY ReportingBounds
  <2>3. QED
    BY <2>1, <2>2, Zenon DEF CallType
<1>2. TapeType
  BY DEF Init, TapeType
<1>3. ThreadType
  BY DEF Init, ThreadType
<1>4. TrackerType
  BY DEF Init, TrackerType
<1>5. QED
  BY <1>1, <1>2, <1>3, <1>4 DEF Init, TypeOK

\* The tape of a thread that takes or has a message.
LEMMA TapeInHand ==
  ASSUME IInv, alive, NEW r \in Reporters, pc[r] \in {"stop", "get", "add"}
  PROVE  /\ tapeOf(r) \in Tapes
         /\ r = CAPTURE => /\ m_audioTapeRef \in Tapes /\ m_audioTapeRef = numTapes
                           /\ session \in {"reported", "stopped"} /\ capEvent # "none"
<1>1. CASE r = CAPTURE
  <2>1. session \notin {"none", "started"} /\ m_audioTapeRef # NULL /\ capEvent # "none"
    BY <1>1 DEF IInv, CallInv
  <2>2. m_audioTapeRef \in Tapes /\ session \in {"reported", "stopped"}
    BY <2>1, ReportingBounds DEF IInv, TypeOK, CallType, Tapes, NULL
  <2>3. QED
    BY <1>1, <2>1, <2>2 DEF IInv, CallInv, tapeOf
<1>2. CASE r # CAPTURE
  BY <1>2, Threads DEF tapeOf
<1>3. QED
  BY <1>1, <1>2

\* A call is going on.
LEMMA TapeOfCall ==
  ASSUME IInv, alive, session # "none"
  PROVE  m_audioTapeRef \in Tapes /\ m_audioTapeRef = numTapes
BY ReportingBounds DEF IInv, TypeOK, CallType, CallInv, Tapes, NULL

\* Types of the call and the port.
LEMMA CallTypeStep == ASSUME IInv, alive, Next PROVE CallType' /\ scenario' = scenario
<1> USE DEF TypeOK, CallType
<1>0. CallType /\ numTapes \in Nat /\ scenario.tapes \in 0..MaxTapes
  BY ScenarioType, ReportingBounds DEF IInv
<1>1. CASE Capture
  <2>1. CASE EtStart
    BY <1>0, <2>1, ReportingBounds DEF EtStart
  <2>2. CASE EtEndMetadata
    BY <1>0, <2>2 DEF EtEndMetadata, report
  <2>3. CASE EtUpdate
    BY <1>0, <2>3 DEF EtUpdate, report
  <2>4. CASE EtHoldResume("hold", TRUE) \/ EtHoldResume("resume", FALSE)
    BY <1>0, <2>4 DEF EtHoldResume, report
  <2>5. CASE EtStop
    BY <1>0, <2>5 DEF EtStop, stop
  <2>6. CASE QueueStop
    BY <1>0, <2>6 DEF QueueStop
  <2>7. CASE Hoover
    BY <1>0, <2>7, ReportingBounds DEF Hoover, stop, NULL
  <2>8. QED
    BY <1>1, <2>1, <2>2, <2>3, <2>4, <2>5, <2>6, <2>7 DEF Capture
<1>2. CASE Tape
  BY <1>0, <1>2 DEF Tape, WriteAudio, StopTape
<1>3. CASE Message
  <2>1. CASE \E r \in Reporters : GetMessage(r)
    BY <1>0, <2>1 DEF GetMessage
  <2>2. ASSUME NEW r \in Reporters, AddMessage(r) PROVE CallType' /\ scenario' = scenario
    <3>1. UNCHANGED <<scenario, numTapes, numUpdates>>
      BY <2>2 DEF AddMessage
    <3>2. \/ UNCHANGED <<capEvent, portVars, session>>
          \/ Reported(r)
      BY <2>2 DEF AddMessage
    <3>3. CASE Reported(r)
      <4>1. CASE r # CAPTURE
        BY <1>0, <3>1, <3>3, <4>1 DEF Reported
      <4>2. CASE r = CAPTURE
        <5>1. m_needSendStop' \in BOOLEAN
          BY <1>0, <3>3, <4>2 DEF Reported
        <5>2. \/ capEvent' = "extra" /\ UNCHANGED <<m_audioTapeRef, session>>
              \/ capEvent' = "none" /\ m_audioTapeRef' = 0 /\ session' = "none"
              \/ capEvent' = "none" /\ UNCHANGED <<m_audioTapeRef, session>>
          BY <3>3, <4>2 DEF Reported, report, NULL
        <5>3. QED
          BY <1>0, <3>1, <5>1, <5>2, ReportingBounds
      <4>3. QED
        BY <4>1, <4>2
    <3>4. QED
      BY <1>0, <3>1, <3>2, <3>3
  <2>3. QED
    BY <1>3, <2>1, <2>2 DEF Message
<1>4. CASE Track
  BY <1>0, <1>4 DEF Track, InitOk, PopMessage, SkipMessage, ExecuteOk, ExecuteFail, SkipTapes
<1>5. CASE Follow
  BY <1>0, <1>5 DEF Follow
<1>6. QED
  BY <1>1, <1>2, <1>3, <1>4, <1>5 DEF Next

\* Types of the tapes' members.
LEMMA TapeTypeStep == ASSUME IInv, alive, Next PROVE TapeType'
<1> USE DEF TapeType
<1>0. TapeType /\ m_audioTapeRef \in Nat
  BY ReportingBounds DEF IInv, TypeOK, CallType
<1>1. ASSUME NEW t, NEW e \in Stages, toSend(t, e)
      PROVE  m_toSendEventQueue' \in [Tapes -> Seq(Stages)]
  BY <1>0, <1>1, SeqTypes DEF toSend, sends
<1>2. CASE Capture
  <2>1. CASE EtStart
    BY <1>0, <1>1, <2>1 DEF EtStart, Stages
  <2>2. CASE EtEndMetadata
    BY <1>0, <2>2 DEF EtEndMetadata
  <2>3. CASE EtUpdate
    BY <1>0, <1>1, <2>3 DEF EtUpdate, Stages
  <2>4. CASE EtHoldResume("hold", TRUE) \/ EtHoldResume("resume", FALSE)
    BY <1>0, <1>1, <2>4 DEF EtHoldResume, Stages
  <2>5. CASE EtStop
    BY <1>0, <2>5 DEF EtStop, stop
  <2>6. CASE QueueStop
    BY <1>0, <1>1, <2>6 DEF QueueStop, Stages
  <2>7. CASE Hoover
    BY <1>0, <2>7 DEF Hoover, stop
  <2>8. QED
    BY <1>2, <2>1, <2>2, <2>3, <2>4, <2>5, <2>6, <2>7 DEF Capture
<1>3. CASE Tape
  BY <1>0, <1>3, ZenonT(60) DEF Tape, WriteAudio, StopTape, rejected
<1>4. CASE Message
  <2>1. ASSUME NEW r \in Reporters, GetMessage(r) PROVE TapeType'
    <3>1. UNCHANGED <<m_state, hasAudio, m_shouldStop, m_lastHoldTs, m_passedPartyFilterTest>>
      BY <2>1 DEF GetMessage
    <3>2. popEvent(tapeOf(r)) \/ UNCHANGED m_toSendEventQueue
      BY <2>1 DEF GetMessage
    <3>3. CASE popEvent(tapeOf(r))
      BY <1>0, <3>1, <3>3, SeqTypes DEF popEvent
    <3>4. QED
      BY <1>0, <3>1, <3>2, <3>3
  <2>2. ASSUME NEW r \in Reporters, AddMessage(r) PROVE TapeType'
    BY <1>0, <2>2 DEF AddMessage
  <2>3. QED
    BY <1>4, <2>1, <2>2 DEF Message
<1>5. CASE Track
  BY <1>0, <1>5 DEF Track, InitOk, PopMessage, SkipMessage, ExecuteOk, ExecuteFail, SkipTapes
<1>6. CASE Follow
  BY <1>0, <1>6 DEF Follow
<1>7. QED
  BY <1>2, <1>3, <1>4, <1>5, <1>6 DEF Next

\* Types of the threads that report.
LEMMA ThreadTypeStep == ASSUME IInv, alive, Next PROVE ThreadType'
<1> USE DEF ThreadType
<1>0. ThreadType /\ CAPTURE \in Reporters
  BY Threads DEF IInv, TypeOK
<1>1. CASE Capture
  <2>1. CASE EtStart
    BY <1>0, <2>1 DEF EtStart
  <2>2. CASE EtEndMetadata \/ EtUpdate
    BY <1>0, <2>2 DEF EtEndMetadata, EtUpdate, report
  <2>3. CASE EtHoldResume("hold", TRUE) \/ EtHoldResume("resume", FALSE)
    BY <1>0, <2>3 DEF EtHoldResume, report
  <2>4. CASE EtStop \/ QueueStop
    BY <1>0, <2>4 DEF EtStop, QueueStop, stop
  <2>5. CASE Hoover
    BY <1>0, <2>5 DEF Hoover, stop
  <2>6. QED
    BY <1>1, <2>1, <2>2, <2>3, <2>4, <2>5 DEF Capture
<1>2. CASE Tape
  BY <1>0, <1>2, Threads DEF Tape, WriteAudio, StopTape
<1>3. CASE Message
  <2>1. ASSUME NEW r \in Reporters, GetMessage(r) PROVE ThreadType'
    <3>1. CASE rejected(tapeOf(r))
      BY <1>0, <2>1, <3>1 DEF GetMessage
    <3>2. CASE ~rejected(tapeOf(r))
      <4>1. tapeOf(r) \in Tapes /\ TapeType
        BY <2>1, TapeInHand DEF GetMessage, IInv, TypeOK
      <4>2. stageOf(tapeOf(r)) \in Stages
        <5>1. m_toSendEventQueue[tapeOf(r)] \in Seq(Stages)
          BY <4>1 DEF TapeType
        <5>2. QED
          BY <5>1, SeqTypes DEF stageOf, Stages
      <4>3. [tape |-> tapeOf(r), stage |-> stageOf(tapeOf(r))] \in Messages
        BY <4>1, <4>2 DEF Messages
      <4>4. /\ msgRef' = [msgRef EXCEPT ![r] = [tape |-> tapeOf(r), stage |-> stageOf(tapeOf(r))]]
            /\ dest' = [dest EXCEPT ![r] = 1] /\ pc' = [pc EXCEPT ![r] = "add"]
        BY <2>1, <3>2 DEF GetMessage
      <4>5. QED
        BY <1>0, <4>3, <4>4
    <3>3. QED
      BY <3>1, <3>2
  <2>2. ASSUME NEW r \in Reporters, AddMessage(r) PROVE ThreadType'
    <3>1. CASE dest[r] < scenario.trackers
      <4>1. dest[r] + 1 \in Trackers
        BY <1>0, <3>1, ScenarioType, ReportingBounds DEF IInv, Trackers
      <4>2. dest' = [dest EXCEPT ![r] = dest[r] + 1] /\ UNCHANGED <<pc, msgRef>>
        BY <1>0, <2>2, <3>1, ScenarioType, ReportingBounds DEF AddMessage, IInv, Trackers
      <4>3. QED
        BY <1>0, <4>1, <4>2
    <3>2. CASE ~(dest[r] < scenario.trackers)
      <4>1. Reported(r) /\ msgRef' = [msgRef EXCEPT ![r] = NoMessage] /\ dest' = dest
        BY <2>2, <3>2 DEF AddMessage
      <4>2. \E p \in {"done", "get", "idle"} : pc' = [pc EXCEPT ![r] = p]
        BY <4>1 DEF Reported, report
      <4>3. QED
        BY <1>0, <4>1, <4>2
    <3>3. QED
      BY <3>1, <3>2
  <2>3. QED
    BY <1>3, <2>1, <2>2 DEF Message
<1>4. CASE Track
  BY <1>0, <1>4 DEF Track, InitOk, PopMessage, SkipMessage, ExecuteOk, ExecuteFail, SkipTapes
<1>5. CASE Follow
  BY <1>0, <1>5 DEF Follow
<1>6. QED
  BY <1>1, <1>2, <1>3, <1>4, <1>5 DEF Next

\* Types of the trackers' queues and threads.
LEMMA TrackerTypeStep == ASSUME IInv, alive, Next PROVE TrackerType'
<1> USE DEF TrackerType
<1>0. TrackerType
  BY DEF IInv, TypeOK
<1>1. CASE Capture
  <2>1. UNCHANGED <<sendVars, queueVars, skipVars, lost>>
    BY <1>1 DEF Capture, EtStart, EtEndMetadata, EtUpdate, EtHoldResume, EtStop, QueueStop,
                Hoover, stop
  <2>2. expired' \in SUBSET Tapes
    <3>1. CASE Hoover
      <4>1. expired' = expired \cup {m_audioTapeRef} /\ m_audioTapeRef # NULL
        BY <3>1 DEF Hoover, isExpired
      <4>2. m_audioTapeRef \in Tapes
        BY <4>1, ReportingBounds DEF IInv, TypeOK, CallType, NULL, Tapes
      <4>3. QED
        BY <1>0, <4>1, <4>2
    <3>2. CASE ~Hoover
      BY <1>0, <1>1, <3>2 DEF Capture, EtStart, EtEndMetadata, EtUpdate, EtHoldResume, EtStop,
                              QueueStop, stop
    <3>3. QED
      BY <3>1, <3>2
  <2>3. QED
    BY <1>0, <2>1, <2>2
<1>2. CASE Tape
  BY <1>0, <1>2 DEF Tape, WriteAudio, StopTape
<1>3. CASE Message
  <2>1. ASSUME NEW r \in Reporters, GetMessage(r) PROVE TrackerType'
    BY <1>0, <2>1 DEF GetMessage
  <2>2. ASSUME NEW r \in Reporters, AddMessage(r) PROVE TrackerType'
    <3>1. msgRef[r] \in Messages
      <4>1. pc[r] = "add" /\ msgRef[r] \in Messages \cup {NoMessage}
        BY <2>2 DEF AddMessage, IInv, TypeOK, ThreadType
      <4>2. msgRef[r].tape \in Tapes
        BY <4>1 DEF IInv, FlightInv
      <4>3. QED
        BY <4>1, <4>2, Threads DEF NoMessage
    <3>2. UNCHANGED <<sendVars, skipVars, expired>>
      BY <2>2 DEF AddMessage
    <3>3. CASE UNCHANGED <<queueVars, lost>>
      BY <1>0, <3>2, <3>3
    <3>4. CASE /\ m_messageQueue' = [m_messageQueue EXCEPT ![dest[r]] = Append(@, msgRef[r])]
               /\ enqueued' = [enqueued EXCEPT ![dest[r]] = Append(@, msgRef[r])]
               /\ UNCHANGED lost
      BY <1>0, <3>1, <3>2, <3>4, SeqTypes
    <3>5. CASE /\ lost' = [lost EXCEPT ![dest[r]] = @ \cup {msgRef[r]}]
               /\ UNCHANGED queueVars
      BY <1>0, <3>1, <3>2, <3>5
    <3>6. QED
      BY <2>2, <3>3, <3>4, <3>5 DEF AddMessage
  <2>3. QED
    BY <1>3, <2>1, <2>2 DEF Message
<1>4. CASE Track
  <2>1. PICK k \in Trackers : \/ InitOk(k) \/ PopMessage(k) \/ SkipMessage(k) \/ ExecuteOk(k)
                             \/ ExecuteFail(k) \/ SkipTapes(k)
    BY <1>4 DEF Track
  <2>2. CASE InitOk(k)
    BY <1>0, <2>2 DEF InitOk
  <2>3. CASE PopMessage(k)
    <3>1. /\ m_messageQueue[k] # << >> /\ m_messageQueue[k] \in Seq(Messages)
          /\ Head(m_messageQueue[k]) \in Messages /\ Tail(m_messageQueue[k]) \in Seq(Messages)
      BY <1>0, <2>3, SeqTypes DEF PopMessage
    <3>2. QED
      BY <1>0, <2>3, <3>1, ZenonT(60) DEF PopMessage
  <2>4. CASE SkipMessage(k)
    <3>1. current[k] \in Messages
      <4>1. repPc[k] = "send" /\ Place(k) > 0 /\ current[k] = enqueued[k][Place(k)]
        BY <2>4 DEF SkipMessage, IInv, DeliveryInv
      <4>2. /\ enqueued[k] \in Seq(Messages) /\ Len(enqueued[k]) \in Nat
            /\ Len(m_messageQueue[k]) \in Nat
        BY <1>0, SeqTypes
      <4>3. Place(k) \in 1..Len(enqueued[k])
        <5> DEFINE n == Len(enqueued[k])
                   l == Len(m_messageQueue[k])
        <5>1. n \in Nat /\ l \in Nat /\ n - l > 0
          BY <4>1, <4>2 DEF Place
        <5> HIDE DEF n, l
        <5>2. n - l \in 1..n
          BY <5>1
        <5>3. QED
          BY <5>2 DEF n, l, Place
      <4>4. QED
        BY <4>1, <4>2, <4>3
    <3>2. QED
      BY <1>0, <2>4, <3>1 DEF SkipMessage, takeSkip, doneWith
  <2>5. ASSUME receive(k) \/ UNCHANGED received PROVE received' \in [Trackers -> Seq(Nat)]
    <3>1. Len(enqueued[k]) - Len(m_messageQueue[k]) \in Nat
      <4>1. /\ Len(enqueued[k]) \in Nat /\ Len(m_messageQueue[k]) \in Nat
            /\ Len(m_messageQueue[k]) <= Len(enqueued[k])
        BY <1>0, SeqTypes DEF IInv, DeliveryInv
      <4>2. QED
        BY <4>1
    <3>2. QED
      <4> DEFINE p == Len(enqueued[k]) - Len(m_messageQueue[k])
      <4>1. /\ received[k] \in Seq(Nat) /\ Append(received[k], p) \in Seq(Nat)
            /\ received \in [Trackers -> Seq(Nat)]
        BY <1>0, <3>1, SeqTypes
      <4>2. CASE receive(k)
        <5>1. received' = [received EXCEPT ![k] = Append(received[k], p)]
          BY <4>2 DEF receive
        <5> HIDE DEF p
        <5>2. QED
          BY <4>1, <5>1
      <4>3. QED
        BY <2>5, <4>1, <4>2
  <2>6. CASE ExecuteOk(k)
    <3>1. deleted' \in SUBSET Tapes
      <4>1. CASE deleted' = deleted
        BY <1>0, <4>1
      <4>2. CASE current[k].stage = "ready" /\ deleted' = deleted \cup {current[k].tape}
        BY <1>0, <4>2 DEF Messages, NoMessage
      <4>3. QED
        BY <2>6, <4>1, <4>2 DEF ExecuteOk
    <3>2. QED
      BY <1>0, <2>5, <2>6, <3>1 DEF ExecuteOk, doneWith
  <2>7. CASE ExecuteFail(k)
    <3>1. repPc' \in [Trackers -> {"init", "pop", "send"}]
          /\ current' \in [Trackers -> Messages \cup {NoMessage}]
      BY <1>0, <2>7 DEF ExecuteFail, doneWith
    <3>2. numLost' \in [Trackers -> Nat]
      <4>1. numLost' = [numLost EXCEPT ![k] = @ + 1] \/ numLost' = numLost
        BY <2>7 DEF ExecuteFail
      <4>2. numLost \in [Trackers -> Nat]
        BY <1>0
      <4>3. QED
        BY <4>1, <4>2
    <3>3. QED
      BY <1>0, <2>5, <2>7, <3>1, <3>2 DEF ExecuteFail
  <2>8. CASE SkipTapes(k)
    BY <1>0, <2>8 DEF SkipTapes
  <2>9. QED
    BY <2>1, <2>2, <2>3, <2>4, <2>6, <2>7, <2>8
<1>5. CASE Follow
  BY <1>0, <1>5 DEF Follow
<1>6. QED
  BY <1>1, <1>2, <1>3, <1>4, <1>5 DEF Next

\* Every step keeps the types.
LEMMA TypeStep == ASSUME IInv, alive, Next PROVE TypeOK' /\ scenario' = scenario
BY CallTypeStep, TapeTypeStep, ThreadTypeStep, TrackerTypeStep DEF IInv, TypeOK
-----------------------------------------------------------------------------
(* What a step that neither takes nor queues a message leaves alone.        *)

MessagesRest ==
  /\ UNCHANGED <<scenario, enqueued, msgRef, dest>>
  /\ \A r \in Reporters : pc'[r] = "add" <=> pc[r] = "add"
  /\ \A k \in Trackers : lost[k] \subseteq lost'[k]
  /\ pc[CAPTURE] = "add" => UNCHANGED <<m_audioTapeRef, capEvent>>

\* The messages that are out, and what is said of them.
LEMMA RestStep ==
  ASSUME IInv, MessagesRest
  PROVE  /\ \A m : Out(m)' <=> Out(m)
         /\ \A k \in Trackers : \A t : Started(k, t) => Started(k, t)'
         /\ OnceEach' /\ StartFirst' /\ FlightInv'
<1> USE DEF MessagesRest
<1>1. ASSUME NEW m PROVE /\ \A r \in Reporters : InFlight(r, m)' <=> InFlight(r, m)
                         /\ \A k \in Trackers : Given(k, m)' <=> Given(k, m)
  BY DEF InFlight, Given
<1>2. ASSUME NEW m PROVE Out(m)' <=> Out(m)
  BY <1>1 DEF Out
<1>3. ASSUME NEW k \in Trackers, NEW t, Started(k, t) PROVE Started(k, t)'
  BY <1>1, <1>3 DEF Started
<1>4. OnceEach'
  BY DEF IInv, OnceEach, At
<1>5. StartFirst'
  BY DEF IInv, StartFirst, At
<1>6. FlightInv'
  <2>1. ASSUME NEW r \in Reporters, pc'[r] = "add"
        PROVE  /\ msgRef'[r].tape = tapeOf(r)' /\ tapeOf(r)' \in Tapes
               /\ dest'[r] = 1 \/ dest'[r] <= scenario'.trackers
    BY <2>1 DEF IInv, FlightInv, tapeOf
  <2>2. pc'[CAPTURE] = "add" /\ capEvent' = "endmetadata"
         => msgRef'[CAPTURE] = Msg(m_audioTapeRef', "start")
    BY Threads DEF IInv, FlightInv
  <2>3. ASSUME NEW r \in Reporters, NEW t \in Tapes, NEW stage \in {"start", "stop", "ready"},
               InFlight(r, Msg(t, stage))'
        PROVE  /\ \A s \in Reporters : InFlight(s, Msg(t, stage))' => r = s
               /\ \A k \in Trackers : dest'[r] <= k => ~Given(k, Msg(t, stage))'
    BY <1>1, <2>3 DEF IInv, FlightInv
  <2>4. QED
    BY <2>1, <2>2, <2>3 DEF FlightInv, Msg
<1>7. QED
  BY <1>2, <1>3, <1>4, <1>5, <1>6

\* What the trackers' threads know of their queues.
LEMMA DeliveryRests ==
  ASSUME IInv, UNCHANGED <<enqueued, m_messageQueue, repPc, current, received, deleted>>
  PROVE  DeliveryInv' /\ InOrderDelivery' /\ DeletedInv'
<1>1. DeliveryInv'
  BY DEF IInv, DeliveryInv, Place
<1>2. InOrderDelivery'
  BY DEF IInv, InOrderDelivery
<1>3. DeletedInv'
  BY DEF IInv, DeletedInv, Given
<1>4. QED
  BY <1>1, <1>2, <1>3

\* Start messages of earlier tapes stay where they were.
LEMMA HandledRests ==
  ASSUME IInv, alive, MessagesRest, TypeOK', numTapes' = numTapes,
         \/ m_audioTapeRef' = m_audioTapeRef
         \/ session # "started" /\ capEvent # "endmetadata",
         session = "started" /\ pc[CAPTURE] = "idle"
           => \/ session' = "started"
              \/ pc'[CAPTURE] = "get" /\ capEvent' = "endmetadata",
         capEvent = "endmetadata" => capEvent' = "endmetadata" /\ pc'[CAPTURE] = pc[CAPTURE]
  PROVE  HandledInv'
<1>1. ASSUME NEW k \in 1..scenario'.trackers, NEW t \in 1..numTapes'
      PROVE  \/ Started(k, t)'
             \/ /\ t = m_audioTapeRef'
                /\ \/ session' = "started"
                   \/ capEvent' = "endmetadata" /\ pc'[CAPTURE] = "get"
                   \/ capEvent' = "endmetadata" /\ pc'[CAPTURE] = "add" /\ dest'[CAPTURE] <= k
  <2>1. k \in 1..scenario.trackers /\ k \in Trackers /\ t \in 1..numTapes
    BY ScenarioType DEF MessagesRest, IInv
  <2>2. CASE Started(k, t)
    BY <2>1, <2>2, RestStep
  <2>3. CASE t = m_audioTapeRef /\ session = "started"
    BY <2>3 DEF IInv, CallInv
  <2>4. CASE t = m_audioTapeRef /\ capEvent = "endmetadata" /\ pc[CAPTURE] = "get"
    BY <2>4
  <2>5. CASE /\ t = m_audioTapeRef /\ capEvent = "endmetadata" /\ pc[CAPTURE] = "add"
             /\ dest[CAPTURE] <= k
    BY <2>5 DEF MessagesRest
  <2>6. QED
    BY <2>1, <2>2, <2>3, <2>4, <2>5 DEF IInv, HandledInv
<1>2. QED
  BY <1>1 DEF HandledInv

\* The invariants of a living process.
Living == CallInv /\ QueueInv /\ StartInv /\ StopInv /\ HandledInv

\* A tape of the call that has not been told to stop is not in the chain yet,
\* and what is owed is in its queue.
LEMMA OnTheWay ==
  ASSUME IInv, alive, NEW t \in Tapes, ~m_shouldStop[t]
  PROVE  /\ pc[t] = "idle" /\ m_toSendEventQueue[t] = Owed(t)
         /\ ~Out(Msg(t, "ready")) /\ ~Out(Msg(t, "stop"))
         /\ m_state[t] # "Stopped"
BY DEF IInv, TapeInv, QueueInv, StopInv

\* VoIpSession::Start
LEMMA EtStartStep == ASSUME IInv, alive, TypeOK', EtStart PROVE MessagesRest /\ Living' /\ TapeInv'
<1>0. PICK n \in Nat : n = numTapes + 1
  BY ReportingBounds DEF IInv, TypeOK, CallType
<1>1. /\ pc[CAPTURE] = "idle" /\ capEvent = "none" /\ session # "started"
      /\ session' = "started" /\ numTapes' = n /\ m_audioTapeRef' = n
      /\ m_shouldStop' = IF m_audioTapeRef = NULL THEN m_shouldStop
                         ELSE [m_shouldStop EXCEPT ![m_audioTapeRef] = TRUE]
      /\ m_toSendEventQueue' = [m_toSendEventQueue EXCEPT ![n] = Append(@, "start")]
      /\ UNCHANGED <<scenario, m_needSendStop, m_state, hasAudio, expired, pc, capEvent, msgRef, dest,
                     enqueued, lost>>
  BY <1>0 DEF EtStart, idle, toSend, sends, IInv, CallInv
<1>2. MessagesRest
  BY <1>1 DEF MessagesRest
<1>3. /\ n \in Tapes /\ numTapes \in Nat /\ n \in Nat /\ n # NULL
      /\ m_audioTapeRef \in {NULL, numTapes} /\ m_audioTapeRef # n
      /\ \A t \in Tapes : t > n => t > numTapes
      /\ \A t \in Tapes : t <= numTapes => t <= n /\ t # n
  BY <1>0, <1>1, ScenarioType, ReportingBounds DEF EtStart, IInv, CallInv, TypeOK, CallType, Tapes, NULL
<1>4. /\ \A t \in Tapes : m_shouldStop'[t] => t <= numTapes
      /\ \A t \in Tapes : m_shouldStop[t] => m_shouldStop'[t]
      /\ \A t \in Tapes \ {n} : m_toSendEventQueue'[t] = m_toSendEventQueue[t]
      /\ \A t \in Tapes \ {n} : Owed(t) = << >> /\ Owed(t)' = << >>
  <2>1. ASSUME NEW t \in Tapes, m_shouldStop'[t] PROVE t <= numTapes
    BY <1>1, <1>3, <2>1, ReportingBounds DEF IInv, TapeInv, TypeOK, TapeType, NULL
  <2>2. ASSUME NEW t \in Tapes, m_shouldStop[t] PROVE m_shouldStop'[t]
    BY <1>1, <2>2 DEF IInv, TypeOK, TapeType
  <2>3. \A t \in Tapes \ {n} : m_toSendEventQueue'[t] = m_toSendEventQueue[t]
    BY <1>1 DEF IInv, TypeOK, TapeType
  <2>4. \A t \in Tapes \ {n} : Owed(t) = << >> /\ Owed(t)' = << >>
    BY <1>1, <1>3 DEF Owed
  <2>5. QED
    BY <2>1, <2>2, <2>3, <2>4
<1>5. ~m_shouldStop'[n] /\ ~m_shouldStop[n]
  BY <1>3, <1>4
<1>6. /\ pc[n] = "idle" /\ m_toSendEventQueue[n] = << >>
      /\ ~Out(Msg(n, "ready")) /\ ~Out(Msg(n, "stop")) /\ ~Out(Msg(n, "start"))
  <2>1. Owed(n) = << >> /\ n > numTapes
    BY <1>0, <1>3 DEF Owed
  <2>2. QED
    BY <1>3, <1>5, <2>1, OnTheWay DEF IInv, StartInv
<1>7. m_toSendEventQueue'[n] = <<"start">> /\ Owed(n)' = <<"start">>
  <2>1. m_toSendEventQueue'[n] = Append(<< >>, "start")
    BY <1>1, <1>3, <1>6 DEF IInv, TypeOK, TapeType
  <2>2. Append(<< >>, "start") = <<"start">>
    OBVIOUS
  <2>3. Owed(n)' = <<"start">>
    BY <1>1 DEF Owed
  <2>4. QED
    BY <2>1, <2>2, <2>3
<1>8. CallInv'
  BY <1>1, <1>3, <1>5 DEF IInv, CallInv
<1>9. TapeInv'
  BY <1>1, <1>3, <1>4 DEF IInv, TapeInv
<1>10. \A m : Out(m)' <=> Out(m)
  BY <1>2, RestStep
<1>11. QueueInv'
  <2>1. ASSUME NEW t \in Tapes
        PROVE  /\ m_toSendEventQueue'[t] = Owed(t)'
               /\ pc[t] \in {"add", "done"} \/ ~Out(Msg(t, "ready"))
    <3>1. CASE t = n
      BY <1>6, <1>7, <3>1
    <3>2. CASE t # n
      BY <1>4, <3>2 DEF IInv, QueueInv
    <3>3. QED
      BY <3>1, <3>2
  <2>2. QED
    BY <1>1, <1>10, <2>1 DEF QueueInv, Msg
<1>12. StartInv'
  BY <1>1, <1>3, <1>4, <1>6, <1>10 DEF IInv, StartInv, Msg
<1>13. StopInv'
  <2>1. ASSUME NEW t \in Tapes,
               ~m_shouldStop'[t] \/ m_toSendEventQueue'[t] = <<"stop">>
        PROVE  ~Out(Msg(t, "stop"))
    <3>1. CASE t = n
      BY <1>6, <3>1
    <3>2. CASE t # n
      BY <1>4, <2>1, <3>2 DEF IInv, StopInv
    <3>3. QED
      BY <3>1, <3>2
  <2>2. pc'[CAPTURE] # "stop"
    BY <1>1
  <2>3. QED
    BY <1>10, <2>1, <2>2 DEF StopInv, Msg
<1>14. HandledInv'
  <2>1. ASSUME NEW k \in 1..scenario'.trackers, NEW t \in 1..numTapes', t # n
        PROVE  Started(k, t)'
    <3>1. k \in 1..scenario.trackers /\ k \in Trackers /\ t \in 1..numTapes
      BY <1>0, <1>1, <1>3, <2>1, ScenarioType DEF IInv
    <3>2. Started(k, t)
      BY <1>1, <3>1 DEF IInv, HandledInv
    <3>3. QED
      BY <1>2, <3>1, <3>2, RestStep
  <2>2. QED
    BY <1>1, <2>1 DEF HandledInv
<1>15. QED
  BY <1>2, <1>8, <1>9, <1>11, <1>12, <1>13, <1>14 DEF Living

\* The capture thread goes on with the same tape, and queues at most one event.
LEMMA CaptureKeeps ==
  ASSUME IInv, alive, MessagesRest,
         UNCHANGED <<numTapes, m_audioTapeRef, m_state, hasAudio>>,
         \A t \in Tapes : pc'[t] = pc[t],
         \A t \in Tapes : m_shouldStop[t] => m_shouldStop'[t],
         \A t \in Tapes : m_shouldStop'[t] => m_shouldStop[t] \/ t = m_audioTapeRef,
         \A t \in Tapes \ {m_audioTapeRef} : m_toSendEventQueue'[t] = m_toSendEventQueue[t],
         m_audioTapeRef \in Tapes =>
           /\ m_toSendEventQueue[m_audioTapeRef] = Owed(m_audioTapeRef)
                => m_toSendEventQueue'[m_audioTapeRef] = Owed(m_audioTapeRef)'
           /\ m_toSendEventQueue[m_audioTapeRef] = << >> /\ Owed(m_audioTapeRef) # << >>
                => m_toSendEventQueue'[m_audioTapeRef] = << >> /\ Owed(m_audioTapeRef)' # << >>
  PROVE  QueueInv' /\ TapeInv'
<1>1. \A m : Out(m)' <=> Out(m)
  BY RestStep
<1>2. ASSUME NEW t \in Tapes, t # m_audioTapeRef
      PROVE  Owed(t) = << >> /\ Owed(t)' = << >> /\ m_toSendEventQueue'[t] = m_toSendEventQueue[t]
  BY <1>2 DEF Owed
<1>3. ASSUME NEW t \in Tapes
      PROVE  /\ m_toSendEventQueue[t] = Owed(t) => m_toSendEventQueue'[t] = Owed(t)'
             /\ m_toSendEventQueue[t] = << >> /\ Owed(t) # << >>
                  => m_toSendEventQueue'[t] = << >> /\ Owed(t)' # << >>
  BY <1>2
<1>4. QueueInv'
  <2>1. ASSUME NEW t \in Tapes
        PROVE  \/ /\ m_toSendEventQueue'[t] = Owed(t)'
                  /\ pc'[t] \in {"add", "done"} \/ ~Out(Msg(t, "ready"))'
               \/ /\ m_toSendEventQueue'[t] = << >> /\ pc'[t] \in {"add", "done"}
                  /\ Owed(t)' # << >> /\ ~Out(Msg(t, "ready"))'
    BY <1>1, <1>3 DEF IInv, QueueInv, Msg
  <2>2. QED
    BY <2>1 DEF QueueInv
<1>5. TapeInv'
  <2>1. m_audioTapeRef \in Tapes => m_audioTapeRef <= numTapes
    BY Threads DEF IInv, CallInv
  <2>2. QED
    BY <2>1 DEF IInv, TapeInv
<1>6. QED
  BY <1>4, <1>5

\* VoIpSession::ReportMetadata: the start event gets its reporter.
LEMMA EndMetadataStep ==
  ASSUME IInv, alive, TypeOK', EtEndMetadata PROVE MessagesRest /\ Living' /\ TapeInv'
<1>1. /\ pc[CAPTURE] = "idle" /\ capEvent = "none" /\ session = "started"
      /\ session' = "reported" /\ capEvent' = "endmetadata"
      /\ pc' = [pc EXCEPT ![CAPTURE] = "get"]
      /\ UNCHANGED <<scenario, numTapes, m_audioTapeRef, m_needSendStop, m_state, hasAudio, expired,
                     m_toSendEventQueue, m_shouldStop, msgRef, dest, enqueued, lost>>
  BY DEF EtEndMetadata, idle, report, IInv, CallInv
<1>2. m_audioTapeRef \in Tapes /\ m_audioTapeRef = numTapes /\ ~m_shouldStop[m_audioTapeRef]
  BY <1>1, TapeOfCall DEF IInv, CallInv
<1>3. pc'[CAPTURE] = "get" /\ \A r \in Reporters \ {CAPTURE} : pc'[r] = pc[r]
  BY <1>1, Threads DEF IInv, TypeOK, ThreadType
<1>4. MessagesRest
  BY <1>1, <1>3 DEF MessagesRest
<1>5. Owed(m_audioTapeRef) = <<"start">> /\ Owed(m_audioTapeRef)' = <<"start">>
  BY <1>1, <1>3 DEF Owed, EventOf
<1>6. QueueInv' /\ TapeInv'
  BY <1>1, <1>3, <1>4, <1>5, Threads, CaptureKeeps
<1>7. CallInv'
  BY <1>1, <1>2, <1>3 DEF IInv, CallInv, NULL
<1>8. \A m : Out(m)' <=> Out(m)
  BY <1>4, RestStep
<1>9. StartInv' /\ StopInv'
  BY <1>1, <1>3, <1>8 DEF IInv, StartInv, StopInv, Msg
<1>10. HandledInv'
  BY <1>1, <1>3, <1>4, HandledRests
<1>11. QED
  BY <1>4, <1>6, <1>7, <1>9, <1>10 DEF Living

\* An update, a hold or a resume that is reported.
LEMMA ReportStep ==
  ASSUME IInv, alive, TypeOK', NEW e \in {"update", "hold", "resume"},
         pc[CAPTURE] = "idle", session = "reported",
         toSend(m_audioTapeRef, e), report(e),
         UNCHANGED <<scenario, session, numTapes, portVars, audioVars, m_shouldStop, msgRef, dest,
                     enqueued, lost>>
  PROVE  MessagesRest /\ Living' /\ TapeInv'
<1>1. /\ capEvent = "none" /\ capEvent' = e /\ pc' = [pc EXCEPT ![CAPTURE] = "get"]
      /\ m_toSendEventQueue' = [m_toSendEventQueue EXCEPT ![m_audioTapeRef] = Append(@, e)]
  BY DEF toSend, sends, report, IInv, CallInv
<1>2. m_audioTapeRef \in Tapes /\ m_audioTapeRef = numTapes /\ ~m_shouldStop[m_audioTapeRef]
  BY <1>1, TapeOfCall DEF IInv, CallInv
<1>3. pc'[CAPTURE] = "get" /\ \A r \in Reporters \ {CAPTURE} : pc'[r] = pc[r]
  BY <1>1, Threads DEF IInv, TypeOK, ThreadType
<1>4. MessagesRest
  BY <1>1, <1>3 DEF MessagesRest
<1>5. m_toSendEventQueue[m_audioTapeRef] = << >> /\ Owed(m_audioTapeRef) = << >>
  BY <1>2, OnTheWay DEF Owed
<1>6. /\ m_toSendEventQueue'[m_audioTapeRef] = <<e>>
      /\ \A t \in Tapes \ {m_audioTapeRef} : m_toSendEventQueue'[t] = m_toSendEventQueue[t]
  <2>1. m_toSendEventQueue'[m_audioTapeRef] = Append(<< >>, e)
    BY <1>1, <1>2, <1>5 DEF IInv, TypeOK, TapeType
  <2>2. Append(<< >>, e) = <<e>>
    OBVIOUS
  <2>3. QED
    BY <1>1, <1>2, <2>1, <2>2 DEF IInv, TypeOK, TapeType
<1>7. Owed(m_audioTapeRef)' = <<e>>
  BY <1>1, <1>3 DEF Owed, EventOf
<1>8. QueueInv' /\ TapeInv'
  BY <1>1, <1>3, <1>4, <1>5, <1>6, <1>7, Threads, CaptureKeeps
<1>9. CallInv'
  BY <1>1, <1>2, <1>3 DEF IInv, CallInv, NULL
<1>10. \A m : Out(m)' <=> Out(m)
  BY <1>4, RestStep
<1>11. e # "start" /\ e # "stop" /\ <<e>> # <<"start">> /\ <<e>> # <<"stop">>
  OBVIOUS
<1>12. StartInv' /\ StopInv'
  BY <1>1, <1>2, <1>3, <1>6, <1>10, <1>11 DEF IInv, StartInv, StopInv, Msg
<1>13. HandledInv'
  BY <1>1, <1>3, <1>4, HandledRests
<1>14. QED
  BY <1>4, <1>8, <1>9, <1>12, <1>13 DEF Living
\* Nothing happens to the call, its tapes and the threads that report.
LEMMA CallRests ==
  ASSUME IInv, alive, TypeOK',
         UNCHANGED <<scenario, session, numTapes, portVars, audioVars, m_toSendEventQueue, m_shouldStop,
                     pc, capEvent, msgRef, dest, enqueued>>,
         \A k \in Trackers : lost[k] \subseteq lost'[k]
  PROVE  MessagesRest /\ Living' /\ TapeInv'
<1>1. MessagesRest
  BY DEF MessagesRest
<1>2. \A m : Out(m)' <=> Out(m)
  BY <1>1, RestStep
<1>3. CallInv'
  BY DEF IInv, CallInv
<1>4. \A t \in Tapes : Owed(t)' = Owed(t)
  BY DEF Owed
<1>5. QueueInv'
  BY <1>2, <1>4 DEF IInv, QueueInv, Msg
<1>6. StartInv' /\ StopInv'
  BY <1>2 DEF IInv, StartInv, StopInv, Msg
<1>7. HandledInv'
  <2>1. UNCHANGED <<numTapes, m_audioTapeRef, session, capEvent>> /\ pc'[CAPTURE] = pc[CAPTURE]
    BY Threads
  <2>2. QED
    BY <2>1, <1>1, HandledRests
<1>8. TapeInv'
  BY DEF IInv, TapeInv
<1>9. QED
  BY <1>1, <1>3, <1>5, <1>6, <1>7, <1>8 DEF Living

\* EtStop, from the plugin or from Finalize: the tape is told to stop.
LEMMA StopStep ==
  ASSUME IInv, alive, TypeOK', NEW e \in {"stop", "finalize"}, pc[CAPTURE] = "idle", stop(e),
         session = "reported",
         \/ e = "stop" /\ session' = "stopped" /\ expired' = expired
         \/ /\ e = "finalize" /\ session' = session /\ isExpired
            /\ expired' = expired \cup {m_audioTapeRef}
  PROVE  MessagesRest /\ Living' /\ TapeInv'
<1>1. /\ capEvent = "none" /\ capEvent' = e /\ pc' = [pc EXCEPT ![CAPTURE] = "stop"]
      /\ m_shouldStop' = [m_shouldStop EXCEPT ![m_audioTapeRef] = TRUE]
      /\ UNCHANGED <<scenario, numTapes, m_audioTapeRef, m_needSendStop, m_state, hasAudio,
                     m_toSendEventQueue, msgRef, dest, enqueued, lost>>
  BY DEF stop, IInv, CallInv
<1>2. m_audioTapeRef \in Tapes /\ m_audioTapeRef = numTapes /\ ~m_shouldStop[m_audioTapeRef]
  BY <1>1, TapeOfCall DEF IInv, CallInv
<1>3. pc'[CAPTURE] = "stop" /\ \A r \in Reporters \ {CAPTURE} : pc'[r] = pc[r]
  BY <1>1, Threads DEF IInv, TypeOK, ThreadType
<1>4. MessagesRest
  BY <1>1, <1>3 DEF MessagesRest
<1>5. m_toSendEventQueue[m_audioTapeRef] = << >> /\ Owed(m_audioTapeRef) = << >>
  BY <1>1, <1>2, OnTheWay DEF Owed
<1>6. /\ m_shouldStop'[m_audioTapeRef]
      /\ \A t \in Tapes \ {m_audioTapeRef} : m_shouldStop'[t] = m_shouldStop[t]
      /\ \A t \in Tapes : m_shouldStop[t] => m_shouldStop'[t]
  BY <1>1, <1>2 DEF IInv, TypeOK, TapeType
<1>7. Owed(m_audioTapeRef)' = << >>
  BY <1>1, <1>3 DEF Owed
<1>8. QueueInv' /\ TapeInv'
  BY <1>1, <1>3, <1>4, <1>5, <1>6, <1>7, Threads, CaptureKeeps
<1>9. CallInv'
  <2>1. m_needSendStop' = m_needSendStop /\ m_audioTapeRef' = m_audioTapeRef
    BY <1>1
  <2>2. e = "finalize" => m_audioTapeRef \in expired' /\ ~hasAudio[m_audioTapeRef]
    <3>1. m_state[m_audioTapeRef] # "Stopped"
      BY <1>2, OnTheWay
    <3>2. isExpired => m_state[m_audioTapeRef] = "Created"
      BY <1>2, <3>1 DEF isExpired, IInv, TypeOK, TapeType
    <3>3. e = "finalize" => isExpired /\ expired' = expired \cup {m_audioTapeRef}
      OBVIOUS
    <3>4. QED
      BY <1>2, <3>2, <3>3 DEF IInv, TapeInv
  <2>3. m_audioTapeRef # NULL
    BY <1>2, Threads
  <2>4. QED
    BY <1>1, <1>2, <1>3, <1>6, <2>2, <2>3 DEF IInv, CallInv
<1>10. \A m : Out(m)' <=> Out(m)
  BY <1>4, RestStep
<1>11. StartInv'
  BY <1>1, <1>10 DEF IInv, StartInv, Msg
<1>12. StopInv'
  <2>1. ~Out(Msg(m_audioTapeRef, "stop"))
    BY <1>2, OnTheWay
  <2>2. ASSUME NEW t \in Tapes, t # m_audioTapeRef,
               ~m_shouldStop'[t] \/ m_toSendEventQueue'[t] = <<"stop">>
        PROVE  ~Out(Msg(t, "stop"))
    BY <1>1, <1>6, <2>2 DEF IInv, StopInv
  <2>3. QED
    BY <1>1, <1>10, <2>1, <2>2 DEF StopInv, Msg
<1>13. HandledInv'
  BY <1>1, <1>3, <1>4, HandledRests
<1>14. QED
  BY <1>4, <1>8, <1>9, <1>11, <1>12, <1>13 DEF Living

\* The stop event is in the queue of the tape.
LEMMA QueueStopStep ==
  ASSUME IInv, alive, TypeOK', QueueStop PROVE MessagesRest /\ Living' /\ TapeInv'
<1>1. /\ pc[CAPTURE] = "stop" /\ capEvent \in {"stop", "finalize"}
      /\ pc' = [pc EXCEPT ![CAPTURE] = "get"]
      /\ m_toSendEventQueue' = [m_toSendEventQueue EXCEPT ![m_audioTapeRef] = Append(@, "stop")]
      /\ UNCHANGED <<scenario, session, numTapes, portVars, audioVars, m_shouldStop, capEvent, msgRef,
                     dest, enqueued, lost>>
  BY DEF QueueStop, toSend, sends, IInv, CallInv
<1>2. m_audioTapeRef \in Tapes /\ m_audioTapeRef = numTapes /\ session \in {"reported", "stopped"}
  BY <1>1, Threads, TapeInHand
<1>3. pc'[CAPTURE] = "get" /\ \A r \in Reporters \ {CAPTURE} : pc'[r] = pc[r]
  BY <1>1, Threads DEF IInv, TypeOK, ThreadType
<1>4. MessagesRest
  BY <1>1, <1>3 DEF MessagesRest
<1>5. Owed(m_audioTapeRef) = << >>
  BY <1>1, <1>2 DEF Owed
<1>6. /\ m_toSendEventQueue[m_audioTapeRef] = << >>
      /\ ~Out(Msg(m_audioTapeRef, "stop")) /\ m_shouldStop[m_audioTapeRef]
  BY <1>1, <1>2, <1>5 DEF IInv, QueueInv, StopInv, CallInv
<1>7. /\ m_toSendEventQueue'[m_audioTapeRef] = <<"stop">>
      /\ \A t \in Tapes \ {m_audioTapeRef} : m_toSendEventQueue'[t] = m_toSendEventQueue[t]
  <2>1. m_toSendEventQueue'[m_audioTapeRef] = Append(<< >>, "stop")
    BY <1>1, <1>2, <1>6 DEF IInv, TypeOK, TapeType
  <2>2. Append(<< >>, "stop") = <<"stop">>
    OBVIOUS
  <2>3. QED
    BY <1>1, <1>2, <2>1, <2>2 DEF IInv, TypeOK, TapeType
<1>8. Owed(m_audioTapeRef)' = <<"stop">>
  BY <1>1, <1>2, <1>3 DEF Owed, EventOf
<1>9. QueueInv' /\ TapeInv'
  BY <1>1, <1>3, <1>4, <1>5, <1>6, <1>7, <1>8, Threads, CaptureKeeps
<1>10. CallInv'
  BY <1>1, <1>2, <1>3 DEF IInv, CallInv
<1>11. \A m : Out(m)' <=> Out(m)
  BY <1>4, RestStep
<1>12. StartInv' /\ StopInv'
  BY <1>1, <1>2, <1>3, <1>6, <1>7, <1>11 DEF IInv, StartInv, StopInv, Msg
<1>13. HandledInv'
  BY <1>1, <1>2, <1>3, <1>4, HandledRests
<1>14. QED
  BY <1>4, <1>9, <1>10, <1>12, <1>13 DEF Living

\* The port is erased, and owes no stop message.
LEMMA EraseStep ==
  ASSUME IInv, alive, TypeOK', pc[CAPTURE] = "idle", session \notin {"none", "started"},
         m_audioTapeRef' = NULL, session' = "none",
         UNCHANGED <<scenario, numTapes, m_state, hasAudio, m_toSendEventQueue, m_shouldStop,
                     pc, capEvent, msgRef, dest, enqueued, lost>>
  PROVE  MessagesRest /\ Living' /\ TapeInv'
<1>1. capEvent = "none"
  BY DEF IInv, CallInv
<1>2. MessagesRest
  BY DEF MessagesRest
<1>3. \A m : Out(m)' <=> Out(m)
  BY <1>2, RestStep
<1>4. \A t \in Tapes : Owed(t) = << >> /\ Owed(t)' = << >>
  BY Threads DEF Owed
<1>5. QueueInv'
  BY <1>3, <1>4 DEF IInv, QueueInv, Msg
<1>6. StartInv' /\ StopInv'
  BY <1>3 DEF IInv, StartInv, StopInv, Msg
<1>7. CallInv'
  BY <1>1 DEF CallInv
<1>8. HandledInv'
  BY <1>1, <1>2, HandledRests
<1>9. TapeInv'
  BY DEF IInv, TapeInv
<1>10. QED
  BY <1>2, <1>5, <1>6, <1>7, <1>8, <1>9 DEF Living

\* Every step of the capture thread that takes and queues no message.
LEMMA CaptureStep ==
  ASSUME IInv, alive, TypeOK', Capture PROVE MessagesRest /\ Living' /\ TapeInv'
<1>1. CASE EtStart
  BY <1>1, EtStartStep
<1>2. CASE EtEndMetadata
  BY <1>2, EndMetadataStep
<1>3. CASE EtUpdate
  BY <1>3, ReportStep DEF EtUpdate, idle
<1>4. ASSUME NEW e \in {"hold", "resume"}, NEW onHold \in BOOLEAN, EtHoldResume(e, onHold)
      PROVE  MessagesRest /\ Living' /\ TapeInv'
  BY <1>4, ReportStep, CallRests DEF EtHoldResume, idle
<1>5. CASE EtStop
  BY <1>5, StopStep DEF EtStop, idle
<1>6. CASE QueueStop
  BY <1>6, QueueStopStep
<1>7. CASE Hoover
  <2>1. /\ pc[CAPTURE] = "idle" /\ capEvent = "none"
        /\ session \notin {"none", "started"} /\ isExpired
    BY <1>7 DEF Hoover, idle, isExpired, IInv, CallInv
  <2>2. session \in {"reported", "stopped"}
    BY <2>1 DEF IInv, TypeOK, CallType
  <2>3. CASE m_needSendStop /\ stop("finalize") /\ UNCHANGED session
    <3>1. session = "reported"
      BY <2>1, <2>2, <2>3 DEF IInv, CallInv
    <3>2. expired' = expired \cup {m_audioTapeRef}
      BY <1>7 DEF Hoover
    <3>3. QED
      BY <2>1, <2>3, <3>1, <3>2, StopStep
  <2>4. CASE /\ ~m_needSendStop /\ m_audioTapeRef' = NULL /\ session' = "none"
             /\ UNCHANGED <<scenario, numTapes, m_state, hasAudio, tapeVars, threadVars, queueVars,
                            lost>>
    BY <2>1, <2>4, EraseStep
  <2>5. QED
    BY <1>7, <2>3, <2>4 DEF Hoover
<1>8. QED
  BY <1>1, <1>2, <1>3, <1>4, <1>5, <1>6, <1>7 DEF Capture

\* The immediate thread writes a chunk.
LEMMA WriteAudioStep ==
  ASSUME IInv, alive, TypeOK', NEW u \in Tapes, WriteAudio(u)
  PROVE  MessagesRest /\ Living' /\ TapeInv'
<1>1. /\ m_state[u] # "Stopped" /\ u \notin expired
      /\ m_state' = [m_state EXCEPT ![u] = "Active"]
      /\ hasAudio' = [hasAudio EXCEPT ![u] = ~rejected(u)]
      /\ UNCHANGED <<scenario, session, numTapes, portVars, expired, m_toSendEventQueue,
                     m_shouldStop, pc, capEvent, msgRef, dest, enqueued, lost>>
  BY DEF WriteAudio
<1>2. /\ m_state'[u] = "Active"
      /\ \A t \in Tapes \ {u} : m_state'[t] = m_state[t] /\ hasAudio'[t] = hasAudio[t]
  BY <1>1 DEF IInv, TypeOK, TapeType
<1>3. MessagesRest
  BY <1>1 DEF MessagesRest
<1>4. \A m : Out(m)' <=> Out(m)
  BY <1>3, RestStep
<1>5. CallInv'
  <2>1. capEvent \in {"finalize", "extra"} => m_audioTapeRef \in Tapes /\ m_audioTapeRef # u
    BY <1>1, TapeOfCall DEF IInv, CallInv
  <2>2. QED
    BY <1>1, <1>2, <2>1 DEF IInv, CallInv
<1>6. \A t \in Tapes : Owed(t)' = Owed(t)
  BY <1>1 DEF Owed
<1>7. QueueInv'
  BY <1>1, <1>4, <1>6 DEF IInv, QueueInv, Msg
<1>8. StartInv' /\ StopInv'
  BY <1>1, <1>4 DEF IInv, StartInv, StopInv, Msg
<1>9. HandledInv'
  <2>1. UNCHANGED <<numTapes, m_audioTapeRef, session, capEvent>> /\ pc'[CAPTURE] = pc[CAPTURE]
    BY <1>1
  <2>2. QED
    BY <2>1, <1>3, HandledRests
<1>10. TapeInv'
  <2>1. ASSUME NEW t \in Tapes
        PROVE  /\ hasAudio'[t] => m_state'[t] # "Created"
               /\ m_state'[t] = "Stopped" => m_shouldStop[t]
               /\ pc[t] # "idle" => m_state'[t] = "Stopped" /\ hasAudio'[t]
    BY <1>1, <1>2 DEF IInv, TapeInv
  <2>2. QED
    BY <1>1, <2>1 DEF IInv, TapeInv
<1>11. QED
  BY <1>3, <1>5, <1>7, <1>8, <1>9, <1>10 DEF Living

\* The immediate thread stops a tape, and may hand it to the chain.
LEMMA StopTapeStep ==
  ASSUME IInv, alive, TypeOK', NEW u \in Tapes, StopTape(u)
  PROVE  MessagesRest /\ Living' /\ TapeInv'
<1>1. /\ m_shouldStop[u] /\ m_state[u] # "Stopped"
      /\ m_state' = [m_state EXCEPT ![u] = "Stopped"]
      /\ UNCHANGED <<scenario, session, numTapes, portVars, hasAudio, expired, m_toSendEventQueue,
                     m_shouldStop, capEvent, msgRef, dest, enqueued, lost>>
      /\ \/ hasAudio[u] /\ pc' = [pc EXCEPT ![u] = "get"]
         \/ pc' = pc
  BY DEF StopTape
<1>2. /\ m_state'[u] = "Stopped"
      /\ \A t \in Tapes \ {u} : m_state'[t] = m_state[t]
  BY <1>1 DEF IInv, TypeOK, TapeType
<1>3. /\ pc[u] = "idle"
      /\ \/ pc'[u] = "idle"
         \/ pc'[u] = "get" /\ hasAudio[u]
      /\ \A r \in Reporters \ {u} : pc'[r] = pc[r]
      /\ pc'[CAPTURE] = pc[CAPTURE]
  <2>1. pc[u] = "idle"
    BY <1>1 DEF IInv, TapeInv
  <2>2. pc \in [Reporters -> {"idle", "stop", "get", "add", "done", "crashed"}]
    BY DEF IInv, TypeOK, ThreadType
  <2>3. u \in Reporters /\ u # CAPTURE /\ CAPTURE \in Reporters
    BY Threads
  <2>4. CASE pc' = pc
    BY <2>1, <2>4
  <2>5. CASE hasAudio[u] /\ pc' = [pc EXCEPT ![u] = "get"]
    <3>1. pc'[u] = "get" /\ \A r \in Reporters \ {u} : pc'[r] = pc[r]
      BY <2>2, <2>3, <2>5
    <3>2. QED
      BY <2>1, <2>3, <2>5, <3>1
  <2>6. QED
    BY <1>1, <2>4, <2>5
<1>4. MessagesRest
  BY <1>1, <1>3, Threads DEF MessagesRest, IInv, TapeInv
<1>5. \A m : Out(m)' <=> Out(m)
  BY <1>4, RestStep
<1>6. CallInv'
  BY <1>1, <1>3 DEF IInv, CallInv
<1>7. \A t \in Tapes : Owed(t)' = Owed(t)
  BY <1>1, <1>3 DEF Owed
<1>8. \A t \in Tapes : pc'[t] \in {"add", "done"} <=> pc[t] \in {"add", "done"}
  <2>1. pc[u] = "idle"
    BY <1>1 DEF IInv, TapeInv
  <2>2. QED
    BY <1>3, <2>1, Threads
<1>9. QueueInv'
  BY <1>1, <1>5, <1>7, <1>8 DEF IInv, QueueInv, Msg
<1>10. StartInv' /\ StopInv'
  BY <1>1, <1>3, <1>5 DEF IInv, StartInv, StopInv, Msg
<1>11. HandledInv'
  <2>1. UNCHANGED <<numTapes, m_audioTapeRef, session, capEvent>> /\ pc'[CAPTURE] = pc[CAPTURE]
    BY <1>1, <1>3
  <2>2. QED
    BY <2>1, <1>4, HandledRests
<1>12. TapeInv'
  <2>1. ASSUME NEW t \in Tapes
        PROVE  /\ hasAudio'[t] => m_state'[t] # "Created"
               /\ m_state'[t] = "Stopped" => m_shouldStop[t]
               /\ pc'[t] # "stop"
               /\ pc'[t] # "idle" => m_state'[t] = "Stopped" /\ hasAudio'[t]
    BY <1>1, <1>2, <1>3, Threads DEF IInv, TapeInv
  <2>2. QED
    BY <1>1, <2>1 DEF IInv, TapeInv
<1>13. QED
  BY <1>4, <1>6, <1>9, <1>10, <1>11, <1>12 DEF Living
-----------------------------------------------------------------------------
(* AudioTape::GetMessage                                                   *)

\* What a thread takes from the queue of a tape, and that nobody took it before.
LEMMA Fresh ==
  ASSUME IInv, alive, NEW r \in Reporters, pc[r] = "get", NEW t \in Tapes, t = tapeOf(r)
  PROVE  /\ \/ m_toSendEventQueue[t] = << >>
            \/ m_toSendEventQueue[t] = <<stageOf(t)>> /\ Owed(t) = <<stageOf(t)>>
         /\ stageOf(t) \in {"start", "stop", "ready"} => ~Out(Msg(t, stageOf(t)))
         /\ r = CAPTURE /\ capEvent = "endmetadata" => stageOf(t) = "start"
         /\ stageOf(t) = "ready" => r = t \/ pc[t] \in {"add", "done"}
         /\ m_toSendEventQueue[t] # << >> => stageOf(t) # "ready"
         /\ stageOf(t) = "stop" => m_shouldStop[t] /\ ~(t = m_audioTapeRef /\ pc[CAPTURE] = "stop")
         /\ t <= numTapes
<1> DEFINE q == m_toSendEventQueue[t]
           e == stageOf(t)
<1>1. /\ r = CAPTURE \/ r = t
      /\ r = CAPTURE => /\ t = m_audioTapeRef /\ t = numTapes /\ pc[CAPTURE] = "get"
                        /\ session \in {"reported", "stopped"} /\ capEvent # "none"
  BY Threads, TapeInHand DEF tapeOf
<1>2. r = t => m_shouldStop[t] /\ t <= numTapes /\ pc[t] = "get" /\ hasAudio[t]
  BY DEF IInv, TapeInv
<1>3. t <= numTapes
  <2>1. numTapes <= numTapes /\ t \in Nat
    BY Threads, ReportingBounds DEF IInv, TypeOK, CallType
  <2>2. QED
    BY <1>1, <1>2, <2>1
<1>4. CASE q = << >>
  <2>1. e \in {"ready", "none"}
    BY <1>4 DEF stageOf
  <2>2. ASSUME e = "ready" PROVE ~Out(Msg(t, "ready")) /\ (r = t \/ pc[t] \in {"add", "done"})
    <3>1. hasAudio[t]
      BY <1>4, <2>2 DEF stageOf
    <3>2. ASSUME r = CAPTURE PROVE Owed(t) # << >>
      <4>1. capEvent # "extra"
        BY <1>1, <3>1, <3>2 DEF IInv, CallInv
      <4>2. Owed(t) = <<EventOf(capEvent)>>
        BY <1>1, <3>2, <4>1 DEF Owed
      <4>3. QED
        BY <4>2
    <3>3. CASE q = Owed(t) /\ (pc[t] \in {"add", "done"} \/ ~Out(Msg(t, "ready")))
      BY <1>1, <1>2, <1>4, <3>2, <3>3
    <3>4. CASE pc[t] \in {"add", "done"} /\ ~Out(Msg(t, "ready"))
      BY <3>4
    <3>5. QED
      BY <3>3, <3>4 DEF IInv, QueueInv
  <2>3. ASSUME r = CAPTURE, capEvent = "endmetadata" PROVE FALSE
    <3>1. session = "reported" /\ ~m_shouldStop[t]
      BY <1>1, <2>3 DEF IInv, CallInv
    <3>2. q = Owed(t)
      BY <3>1, OnTheWay
    <3>3. Owed(t) = <<"start">>
      BY <1>1, <2>3, <3>1 DEF Owed, EventOf
    <3>4. <<"start">> # << >>
      OBVIOUS
    <3>5. QED
      BY <1>4, <3>2, <3>3, <3>4
  <2>4. QED
    BY <1>3, <1>4, <2>1, <2>2, <2>3
<1>5. CASE q # << >>
  <2>1. q = Owed(t) /\ e = Head(q)
    BY <1>5 DEF IInv, QueueInv, stageOf
  <2>2. PICK o \in {"start", "stop", "update", "hold", "resume", "none"} : Owed(t) = <<o>>
    <3>1. capEvent \in {"none", "endmetadata", "update", "hold", "resume", "stop", "finalize",
                        "extra"}
      BY DEF IInv, TypeOK, CallType
    <3>2. capEvent # "extra"
             => EventOf(capEvent) \in {"start", "stop", "update", "hold", "resume", "none"}
      BY <3>1 DEF EventOf
    <3>3. QED
      BY <1>5, <2>1, <3>2 DEF Owed
  <2>3. q = <<o>> /\ e = o
    BY <2>1, <2>2
  <2>4. ASSUME o = "stop"
        PROVE  m_shouldStop[t] /\ ~(t = m_audioTapeRef /\ pc[CAPTURE] = "stop")
    <3>1. /\ t = m_audioTapeRef /\ pc[CAPTURE] = "get" /\ EventOf(capEvent) = "stop"
      BY <2>2, <2>4 DEF Owed
    <3>2. capEvent \in {"stop", "finalize"}
      BY <3>1 DEF EventOf
    <3>3. QED
      BY <3>1, <3>2 DEF IInv, CallInv
  <2>5. o = "start" \/ o = "stop" => ~Out(Msg(t, o))
    BY <2>3 DEF IInv, StartInv, StopInv
  <2>6. ASSUME r = CAPTURE, capEvent = "endmetadata" PROVE o = "start"
    <3>1. session = "reported"
      BY <1>1, <2>6 DEF IInv, CallInv
    <3>2. QED
      BY <1>1, <2>2, <2>6, <3>1 DEF Owed, EventOf
  <2>7. QED
    BY <1>3, <2>2, <2>3, <2>4, <2>5, <2>6
<1>6. QED
  BY <1>4, <1>5

\* No tape's thread is alive in a process that crashed, but nothing is untrue of
\* the messages.
LEMMA CrashStep ==
  ASSUME IInv, NEW r \in Reporters, pc[r] = "get", pc' = [pc EXCEPT ![r] = "crashed"],
         UNCHANGED <<scenario, numTapes, m_audioTapeRef, capEvent, m_state, hasAudio, m_shouldStop, msgRef, dest,
                     enqueued, lost>>
  PROVE  ~alive' /\ MessagesRest /\ TapeInv' /\ ReadyInv'
<1>1. pc'[r] = "crashed" /\ \A s \in Reporters \ {r} : pc'[s] = pc[s]
  BY DEF IInv, TypeOK, ThreadType
<1>2. ~alive'
  BY <1>1 DEF alive
<1>3. MessagesRest
  BY <1>1 DEF MessagesRest
<1>4. TapeInv'
  BY <1>1, Threads DEF IInv, TapeInv
<1>5. ReadyInv'
  <2>1. \A m : Out(m)' <=> Out(m)
    BY <1>3, RestStep
  <2>2. QED
    BY <1>1, <2>1, Threads DEF IInv, ReadyInv, Msg
<1>6. QED
  BY <1>2, <1>3, <1>4, <1>5

\* A thread takes a message of its tape.
LEMMA TakeStep ==
  ASSUME IInv, alive, NEW r \in Reporters, GetMessage(r), ~rejected(tapeOf(r))
  PROVE  Living' /\ TapeInv' /\ FlightInv' /\ ReadyInv'
<1>1. PICK t \in Tapes : t = tapeOf(r)
  BY TapeInHand DEF GetMessage
<1>2. PICK m : m = Msg(t, stageOf(t))
  OBVIOUS
<1>3. /\ pc[r] = "get" /\ msgRef' = [msgRef EXCEPT ![r] = m]
      /\ m_toSendEventQueue' = [m_toSendEventQueue EXCEPT ![t] = IF @ = << >> THEN @ ELSE Tail(@)]
      /\ dest' = [dest EXCEPT ![r] = 1] /\ pc' = [pc EXCEPT ![r] = "add"]
      /\ UNCHANGED <<scenario, session, numTapes, portVars, audioVars, m_shouldStop, capEvent,
                     enqueued, lost>>
  BY <1>1, <1>2 DEF GetMessage, popEvent, Msg
<1>4. /\ msgRef'[r] = m /\ dest'[r] = 1 /\ pc'[r] = "add"
      /\ \A s \in Reporters \ {r} : pc'[s] = pc[s] /\ msgRef'[s] = msgRef[s] /\ dest'[s] = dest[s]
  BY <1>3 DEF IInv, TypeOK, ThreadType
<1>5. /\ m_toSendEventQueue'[t] = << >>
      /\ \A u \in Tapes \ {t} : m_toSendEventQueue'[u] = m_toSendEventQueue[u]
  <2>1. m_toSendEventQueue \in [Tapes -> Seq(Stages)]
    BY DEF IInv, TypeOK, TapeType
  <2>2. m_toSendEventQueue[t] = << >> \/ m_toSendEventQueue[t] = <<stageOf(t)>>
    BY <1>1, <1>3, Fresh
  <2>3. Tail(<<stageOf(t)>>) = << >>
    OBVIOUS
  <2>4. QED
    BY <1>3, <2>1, <2>2, <2>3
<1>6. /\ r = CAPTURE \/ r = t
      /\ r = CAPTURE => /\ t = m_audioTapeRef /\ session \in {"reported", "stopped"}
                        /\ capEvent # "none"
      /\ r = t => r # CAPTURE
  BY <1>1, <1>3, Threads, TapeInHand DEF tapeOf
<1>7. /\ m.tape = t /\ m.stage = stageOf(t)
      /\ \A u, stage : Msg(u, stage) = m => u = t /\ stage = stageOf(t)
      /\ \A u, stage : Msg(u, stage) # m => u # t \/ stage # stageOf(t)
  BY <1>2 DEF Msg
<1>8. /\ \A s \in Reporters : \A x : InFlight(s, x)' <=> IF s = r THEN x = m ELSE InFlight(s, x)
      /\ \A k \in Trackers : \A x : Given(k, x)' <=> Given(k, x)
      /\ \A x : ~InFlight(r, x)
  BY <1>3, <1>4 DEF InFlight, Given
<1>9. ASSUME NEW x PROVE Out(x)' <=> Out(x) \/ x = m
  BY <1>8 DEF Out
<1>10. /\ stageOf(t) \in {"start", "stop", "ready"} => ~Out(m)
       /\ r = CAPTURE /\ capEvent = "endmetadata" => m = Msg(m_audioTapeRef, "start")
  BY <1>1, <1>2, <1>3, <1>6, Fresh
<1>11. FlightInv'
  <2>1. ASSUME NEW s \in Reporters, pc'[s] = "add"
        PROVE  /\ msgRef'[s].tape = tapeOf(s)' /\ tapeOf(s)' \in Tapes
               /\ dest'[s] = 1 \/ dest'[s] <= scenario'.trackers
    BY <1>1, <1>3, <1>4, <1>7, <2>1 DEF IInv, FlightInv, tapeOf
  <2>2. pc'[CAPTURE] = "add" /\ capEvent' = "endmetadata"
         => msgRef'[CAPTURE] = Msg(m_audioTapeRef', "start")
    BY <1>3, <1>4, <1>10, Threads DEF IInv, FlightInv
  <2>3. ASSUME NEW s \in Reporters, NEW u \in Tapes, NEW stage \in {"start", "stop", "ready"},
               InFlight(s, Msg(u, stage))'
        PROVE  /\ \A s2 \in Reporters : InFlight(s2, Msg(u, stage))' => s = s2
               /\ \A k \in Trackers : dest'[s] <= k => ~Given(k, Msg(u, stage))'
    <3>1. CASE Msg(u, stage) = m
      <4>1. ~Out(m)
        BY <1>7, <1>10, <3>1
      <4>2. \A s2 \in Reporters : InFlight(s2, Msg(u, stage))' => s2 = r
        BY <1>8, <3>1, <4>1 DEF Out
      <4>3. \A k \in Trackers : ~Given(k, Msg(u, stage))'
        BY <1>8, <3>1, <4>1 DEF Out
      <4>4. QED
        BY <2>3, <4>2, <4>3
    <3>2. CASE Msg(u, stage) # m
      <4>1. s # r /\ InFlight(s, Msg(u, stage)) /\ dest'[s] = dest[s]
        BY <1>4, <1>8, <2>3, <3>2
      <4>2. /\ \A s2 \in Reporters : InFlight(s2, Msg(u, stage)) => s = s2
            /\ \A k \in Trackers : dest[s] <= k => ~Given(k, Msg(u, stage))
        BY <4>1 DEF IInv, FlightInv
      <4>3. QED
        BY <1>8, <3>2, <4>1, <4>2
    <3>3. QED
      BY <3>1, <3>2
  <2>4. QED
    BY <2>1, <2>2, <2>3 DEF FlightInv, Msg
<1>12. CallInv'
  <2>1. CASE r = CAPTURE
    BY <1>3, <1>4, <1>6, <2>1 DEF IInv, CallInv
  <2>2. CASE r # CAPTURE
    BY <1>3, <1>4, <2>2, Threads DEF IInv, CallInv
  <2>3. QED
    BY <2>1, <2>2
<1>13. TapeInv'
  BY <1>3, <1>4, Threads DEF IInv, TapeInv
<1>14. \A u \in Tapes \ {t} : Owed(u)' = Owed(u)
  <2>1. r # CAPTURE => pc'[CAPTURE] = pc[CAPTURE]
    BY <1>4, Threads
  <2>2. QED
    BY <1>3, <1>6, <2>1 DEF Owed
<1>15. \A u \in Tapes \ {t} : \A stage : Out(Msg(u, stage))' <=> Out(Msg(u, stage))
  BY <1>7, <1>9 DEF Msg
<1>16. \A stage : stage # stageOf(t) => (Out(Msg(t, stage))' <=> Out(Msg(t, stage)))
  BY <1>7, <1>9 DEF Msg
<1>17. QueueInv'
  <2>1. ASSUME NEW u \in Tapes, u # t
        PROVE  /\ m_toSendEventQueue'[u] = m_toSendEventQueue[u] /\ Owed(u)' = Owed(u)
               /\ pc'[u] = pc[u] /\ (Out(Msg(u, "ready"))' <=> Out(Msg(u, "ready")))
    BY <1>4, <1>5, <1>6, <1>14, <1>15, <2>1, Threads
  <2>2. CASE r = CAPTURE
    <3>1. Owed(t)' = << >> /\ pc'[t] = pc[t]
      <4>1. t # CAPTURE /\ t \in Reporters
        BY Threads
      <4>2. pc'[CAPTURE] = "add" /\ pc'[t] = pc[t]
        BY <1>4, <2>2, <4>1
      <4>3. QED
        BY <1>3, <1>6, <2>2, <4>2 DEF Owed
    <3>2. pc[t] \in {"add", "done"} \/ ~Out(Msg(t, "ready"))'
      <4>1. CASE stageOf(t) = "ready"
        BY <1>1, <1>3, <1>6, <2>2, <4>1, Fresh
      <4>2. CASE stageOf(t) # "ready"
        BY <1>16, <4>2 DEF IInv, QueueInv
      <4>3. QED
        BY <4>1, <4>2
    <3>3. QED
      BY <1>5, <2>1, <3>1, <3>2 DEF IInv, QueueInv, Msg
  <2>3. CASE r = t
    <3>1. pc'[t] = "add" /\ pc[t] = "get" /\ Owed(t)' = Owed(t)
      <4>1. pc'[CAPTURE] = pc[CAPTURE]
        BY <1>4, <1>6, <2>3, Threads
      <4>2. QED
        BY <1>3, <1>4, <2>3, <4>1 DEF Owed
    <3>2. m_toSendEventQueue[t] = Owed(t) /\ ~Out(Msg(t, "ready"))
      BY <3>1 DEF IInv, QueueInv
    <3>3. m_toSendEventQueue[t] # << >> => ~Out(Msg(t, "ready"))'
      BY <1>1, <1>3, <1>16, <3>2, Fresh
    <3>4. QED
      BY <1>5, <2>1, <3>1, <3>2, <3>3 DEF IInv, QueueInv, Msg
  <2>4. QED
    BY <1>6, <2>2, <2>3
<1>18. t <= numTapes
  BY <1>1, <1>3, Fresh
<1>19. StartInv'
  <2>1. ASSUME NEW u \in Tapes, u > numTapes' \/ m_toSendEventQueue'[u] = <<"start">>
        PROVE  ~Out(Msg(u, "start"))'
    <3>1. u # t
      <4>1. m_toSendEventQueue'[t] # <<"start">>
        BY <1>5
      <4>2. numTapes' = numTapes /\ numTapes \in Nat /\ t \in Nat
        BY <1>3, Threads, ReportingBounds DEF IInv, TypeOK, CallType
      <4>3. ~(t > numTapes)
        BY <1>18, <4>2
      <4>4. QED
        BY <2>1, <4>1, <4>2, <4>3
    <3>2. QED
      BY <1>3, <1>5, <1>15, <2>1, <3>1 DEF IInv, StartInv
  <2>2. QED
    BY <2>1 DEF StartInv, Msg
<1>20. StopInv'
  <2>1. ASSUME NEW u \in Tapes,
               \/ ~m_shouldStop'[u]
               \/ u = m_audioTapeRef' /\ pc'[CAPTURE] = "stop"
               \/ m_toSendEventQueue'[u] = <<"stop">>
        PROVE  ~Out(Msg(u, "stop"))'
    <3>1. pc'[CAPTURE] = "stop" => pc[CAPTURE] = "stop"
      BY <1>4, Threads
    <3>2. CASE u # t
      BY <1>3, <1>5, <1>15, <2>1, <3>1, <3>2 DEF IInv, StopInv
    <3>3. CASE u = t
      <4>1. m_toSendEventQueue'[t] # <<"stop">>
        BY <1>5
      <4>2. ~m_shouldStop[t] \/ (t = m_audioTapeRef /\ pc[CAPTURE] = "stop")
        BY <1>3, <2>1, <3>1, <3>3, <4>1
      <4>3. stageOf(t) # "stop" /\ ~Out(Msg(t, "stop"))
        BY <1>1, <1>3, <4>2, Fresh DEF IInv, StopInv
      <4>4. QED
        BY <1>16, <3>3, <4>3
    <3>4. QED
      BY <3>2, <3>3
  <2>2. QED
    BY <2>1 DEF StopInv, Msg
<1>21. HandledInv'
  <2>1. ASSUME NEW k \in 1..scenario'.trackers, NEW u \in 1..numTapes'
        PROVE  \/ Started(k, u)'
               \/ /\ u = m_audioTapeRef'
                  /\ \/ session' = "started"
                     \/ capEvent' = "endmetadata" /\ pc'[CAPTURE] = "get"
                     \/ capEvent' = "endmetadata" /\ pc'[CAPTURE] = "add" /\ dest'[CAPTURE] <= k
    <3>1. k \in 1..scenario.trackers /\ u \in 1..numTapes /\ k \in Trackers
      BY <1>3, ScenarioType DEF IInv
    <3>2. CASE Started(k, u)
      BY <1>3, <3>2 DEF Started, Given
    <3>3. CASE /\ u = m_audioTapeRef
               /\ \/ session = "started"
                  \/ capEvent = "endmetadata" /\ pc[CAPTURE] = "get"
                  \/ capEvent = "endmetadata" /\ pc[CAPTURE] = "add" /\ dest[CAPTURE] <= k
      <4>1. CASE r = CAPTURE
        <5>1. pc'[CAPTURE] = "add" /\ dest'[CAPTURE] <= k
          BY <1>4, <3>1, <4>1
        <5>2. QED
          BY <1>3, <1>6, <3>3, <4>1, <5>1
      <4>2. CASE r # CAPTURE
        <5>1. pc'[CAPTURE] = pc[CAPTURE] /\ dest'[CAPTURE] = dest[CAPTURE]
          BY <1>4, <4>2, Threads
        <5>2. QED
          BY <1>3, <3>3, <5>1
      <4>3. QED
        BY <4>1, <4>2
    <3>4. QED
      BY <3>1, <3>2, <3>3 DEF IInv, HandledInv
  <2>2. QED
    BY <2>1 DEF HandledInv
<1>22. ReadyInv'
  <2>1. ASSUME NEW u \in Tapes, Out(Msg(u, "ready"))' PROVE pc'[u] \in {"add", "done"}
    <3>1. CASE Out(Msg(u, "ready"))
      <4>1. pc[u] \in {"add", "done"}
        BY <3>1 DEF IInv, ReadyInv
      <4>2. QED
        BY <1>3, <1>4, <4>1, Threads
    <3>2. CASE ~Out(Msg(u, "ready"))
      <4>1. u = t /\ stageOf(t) = "ready"
        BY <1>15, <1>16, <2>1, <3>2
      <4>2. r = t \/ pc[t] \in {"add", "done"}
        BY <1>1, <1>3, <4>1, Fresh
      <4>3. QED
        BY <1>3, <1>4, <4>1, <4>2, Threads
    <3>3. QED
      BY <3>1, <3>2
  <2>2. QED
    BY <2>1 DEF ReadyInv, Msg
<1>23. QED
  BY <1>11, <1>12, <1>13, <1>17, <1>19, <1>20, <1>21, <1>22 DEF Living
-----------------------------------------------------------------------------
(* Reporting::AddMessage                                                   *)

\* A message is what its members say.
LEMMA MessageIs ==
  ASSUME NEW x \in Messages, NEW t, NEW stage
  PROVE  x = Msg(t, stage) <=> x.tape = t /\ x.stage = stage
BY DEF Messages, Msg

\* An entry of a sequence that another was appended to.
LEMMA Appended ==
  ASSUME NEW S, NEW q \in Seq(S), NEW e \in S, NEW p, p = Append(q, e)
  PROVE  /\ p \in Seq(S) /\ Len(q) \in Nat /\ Len(p) = Len(q) + 1 /\ p[Len(q) + 1] = e
         /\ \A i \in 1..Len(q) : i \in 1..Len(p) /\ p[i] = q[i]
         /\ \A i \in 1..Len(p) : i \in 1..Len(q) \/ i = Len(q) + 1
OBVIOUS

\* The message in a thread's hand, and the queue it goes to.
LEMMA InHand ==
  ASSUME IInv, alive, NEW r \in Reporters, AddMessage(r),
         NEW k, k = dest[r], NEW m, m = msgRef[r]
  PROVE  /\ pc[r] = "add" /\ InFlight(r, m)
         /\ m \in Messages /\ m.tape = tapeOf(r) /\ m.tape \in 1..numTapes /\ m.tape \in Tapes
         /\ m = Msg(m.tape, m.stage)
         /\ k \in Nat
         /\ k <= scenario.trackers => k \in Trackers /\ k \in 1..scenario.trackers
         /\ k > scenario.trackers => scenario.trackers = 0
         /\ r # CAPTURE => r = m.tape /\ m_shouldStop[m.tape]
         /\ r = CAPTURE => /\ m.tape = m_audioTapeRef /\ session \in {"reported", "stopped"}
                           /\ capEvent # "none"
<1>1. /\ pc[r] = "add" /\ m \in Messages \cup {NoMessage} /\ m.tape = tapeOf(r)
      /\ tapeOf(r) \in Tapes /\ k \in Trackers \cup {1} /\ (k = 1 \/ k <= scenario.trackers)
  BY DEF AddMessage, IInv, FlightInv, TypeOK, ThreadType
<1>2. m \in Messages
  BY <1>1, Threads DEF NoMessage
<1>3. m = Msg(m.tape, m.stage)
  BY <1>2, MessageIs
<1>4. /\ k \in Nat
      /\ k <= scenario.trackers => k \in Trackers /\ k \in 1..scenario.trackers
      /\ k > scenario.trackers => scenario.trackers = 0
  BY <1>1, ScenarioType, ReportingBounds DEF IInv, Trackers
<1>5. r # CAPTURE => r = m.tape /\ m_shouldStop[m.tape] /\ m.tape <= numTapes
  BY <1>1, Threads DEF IInv, TapeInv, tapeOf
<1>6. r = CAPTURE => /\ m.tape = m_audioTapeRef /\ session \in {"reported", "stopped"}
                     /\ capEvent # "none" /\ m.tape = numTapes
  BY <1>1, TapeInHand DEF tapeOf
<1>7. m.tape \in 1..numTapes
  BY <1>1, <1>5, <1>6, ReportingBounds DEF IInv, TypeOK, CallType, Tapes
<1>8. QED
  BY <1>1, <1>2, <1>3, <1>4, <1>5, <1>6, <1>7 DEF InFlight

\* One queue at most gets the message, and the others are as they were.
LEMMA Queues ==
  ASSUME IInv, alive, NEW r \in Reporters, AddMessage(r),
         NEW k, k = dest[r], NEW m, m = msgRef[r], NEW j \in Trackers
  PROVE  /\ \/ enqueued'[j] = enqueued[j] /\ m_messageQueue'[j] = m_messageQueue[j]
            \/ /\ j = k /\ k <= scenario.trackers
               /\ enqueued'[j] = Append(enqueued[j], m)
               /\ m_messageQueue'[j] = Append(m_messageQueue[j], m)
         /\ lost[j] \subseteq lost'[j]
         /\ j = k /\ k <= scenario.trackers
              => m \in lost'[j] \/ enqueued'[j] = Append(enqueued[j], m)
<1>1. /\ enqueued \in [Trackers -> Seq(Messages)] /\ m_messageQueue \in [Trackers -> Seq(Messages)]
      /\ lost \in [Trackers -> SUBSET Messages]
  BY DEF IInv, TypeOK, TrackerType
<1>2. CASE /\ k <= scenario.trackers
           /\ m_messageQueue' = [m_messageQueue EXCEPT ![k] = Append(@, m)]
           /\ enqueued' = [enqueued EXCEPT ![k] = Append(@, m)]
           /\ lost' = lost
  BY <1>1, <1>2
<1>3. CASE /\ k <= scenario.trackers /\ lost' = [lost EXCEPT ![k] = @ \cup {m}]
           /\ m_messageQueue' = m_messageQueue /\ enqueued' = enqueued
  BY <1>1, <1>3
<1>4. CASE scenario.trackers = 0 /\ UNCHANGED <<queueVars, lost>>
  BY <1>4 DEF Trackers
<1>5. QED
  BY <1>2, <1>3, <1>4 DEF AddMessage

\* What a tracker has been given.
LEMMA GivenStep ==
  ASSUME IInv, alive, NEW r \in Reporters, AddMessage(r),
         NEW k, k = dest[r], NEW m, m = msgRef[r], NEW j \in Trackers
  PROVE  /\ \A x : Given(j, x) => Given(j, x)'
         /\ \A x : Given(j, x)' => Given(j, x) \/ (j = k /\ k <= scenario.trackers /\ x = m)
         /\ j = k /\ k <= scenario.trackers => m \in lost'[j] \/ Given(j, m)'
<1> DEFINE q == enqueued[j]
<1>1. q \in Seq(Messages) /\ m \in Messages
  BY InHand DEF IInv, TypeOK, TrackerType
<1>2. CASE enqueued'[j] = q
  BY <1>2, Queues DEF Given
<1>3. CASE j = k /\ k <= scenario.trackers /\ enqueued'[j] = Append(q, m)
  <2>1. /\ Len(q) \in Nat /\ Len(enqueued'[j]) = Len(q) + 1 /\ enqueued'[j][Len(q) + 1] = m
        /\ \A i \in 1..Len(q) : i \in 1..Len(enqueued'[j]) /\ enqueued'[j][i] = q[i]
        /\ \A i \in 1..Len(enqueued'[j]) : i \in 1..Len(q) \/ i = Len(q) + 1
    BY <1>1, <1>3, Appended
  <2>2. Len(q) + 1 \in 1..Len(enqueued'[j])
    BY <2>1
  <2>3. QED
    BY <1>3, <2>1, <2>2 DEF Given
<1>4. QED
  BY <1>2, <1>3, Queues

\* The start message of the tape went ahead.
LEMMA StartWentAhead ==
  ASSUME IInv, alive, NEW r \in Reporters, AddMessage(r), dest[r] <= scenario.trackers,
         msgRef[r].stage # "start"
  PROVE  Started(dest[r], msgRef[r].tape)
<1>1. PICK k : k = dest[r]
  OBVIOUS
<1>2. PICK m : m = msgRef[r]
  OBVIOUS
<1>3. /\ k \in 1..scenario.trackers /\ m.tape \in 1..numTapes /\ pc[r] = "add"
      /\ r # CAPTURE => m_shouldStop[m.tape]
      /\ m = Msg(m.tape, m.stage) /\ m.stage # "start"
  BY <1>1, <1>2, InHand
<1>4. ASSUME m.tape = m_audioTapeRef, session = "started" PROVE FALSE
  BY <1>2, <1>3, <1>4, InHand DEF IInv, CallInv
<1>5. ASSUME m.tape = m_audioTapeRef, capEvent = "endmetadata", pc[CAPTURE] \in {"get", "add"}
      PROVE  FALSE
  <2>1. session = "reported"
    BY <1>5, Threads, TapeInHand DEF IInv, CallInv
  <2>2. ~m_shouldStop[m_audioTapeRef]
    BY <1>5, <2>1 DEF IInv, CallInv
  <2>3. r = CAPTURE
    BY <1>3, <1>5, <2>2
  <2>4. m = Msg(m_audioTapeRef, "start")
    BY <1>2, <1>3, <1>5, <2>3 DEF IInv, FlightInv
  <2>5. QED
    BY <1>3, <2>4 DEF Msg
<1>6. QED
  BY <1>1, <1>2, <1>3, <1>4, <1>5 DEF IInv, HandledInv

\* The queues of the trackers.
LEMMA AddQueuesStep ==
  ASSUME IInv, alive, NEW r \in Reporters, AddMessage(r)
  PROVE  OnceEach' /\ StartFirst' /\ DeliveryInv' /\ InOrderDelivery' /\ DeletedInv'
<1>1. PICK k : k = dest[r]
  OBVIOUS
<1>2. PICK m : m = msgRef[r]
  OBVIOUS
<1>3. /\ m \in Messages /\ InFlight(r, m) /\ m.tape \in Tapes /\ m = Msg(m.tape, m.stage)
      /\ UNCHANGED <<repPc, current, received, deleted>>
  BY <1>1, <1>2, InHand DEF AddMessage
<1>4. ASSUME NEW j \in Trackers
      PROVE  /\ enqueued[j] \in Seq(Messages) /\ Len(enqueued[j]) \in Nat
             /\ m_messageQueue[j] \in Seq(Messages) /\ Len(m_messageQueue[j]) \in Nat
             /\ \A i \in 1..Len(enqueued[j]) : enqueued[j][i] \in Messages
  <2>1. enqueued[j] \in Seq(Messages) /\ m_messageQueue[j] \in Seq(Messages)
    BY DEF IInv, TypeOK, TrackerType
  <2>2. QED
    BY <2>1
<1>5. ASSUME NEW j \in Trackers, j = k, enqueued'[j] = Append(enqueued[j], m)
      PROVE  /\ enqueued'[j][Len(enqueued[j]) + 1] = m
             /\ Len(enqueued'[j]) = Len(enqueued[j]) + 1
             /\ \A i \in 1..Len(enqueued[j]) :
                  i \in 1..Len(enqueued'[j]) /\ enqueued'[j][i] = enqueued[j][i]
             /\ \A i \in 1..Len(enqueued'[j]) :
                  i \in 1..Len(enqueued[j]) \/ i = Len(enqueued[j]) + 1
  BY <1>3, <1>4, <1>5, Appended
<1>6. OnceEach'
  <2>1. ASSUME NEW j \in Trackers, NEW t \in Tapes, NEW stage \in {"start", "stop", "ready"},
               NEW a \in 1..Len(enqueued'[j]), NEW b \in 1..Len(enqueued'[j]),
               At(j, a, t, stage)', At(j, b, t, stage)'
        PROVE  a = b
    <3>1. CASE enqueued'[j] = enqueued[j]
      BY <2>1, <3>1 DEF IInv, OnceEach, At
    <3>2. CASE j = k /\ enqueued'[j] = Append(enqueued[j], m)
      <4>0. PICK n : n = Len(enqueued[j]) + 1
        OBVIOUS
      <4>1. m = Msg(t, stage) => ~Given(j, m)
        BY <1>1, <1>3, <3>2, InHand DEF IInv, FlightInv
      <4>2. ASSUME NEW i \in 1..Len(enqueued[j]), At(j, i, t, stage), m = Msg(t, stage)
            PROVE  FALSE
        BY <1>4, <4>1, <4>2, MessageIs DEF At, Given
      <4>3. ASSUME NEW i \in 1..Len(enqueued[j]), At(j, i, t, stage)' PROVE At(j, i, t, stage)
        BY <1>5, <3>2, <4>3 DEF At
      <4>4. At(j, n, t, stage)' => m = Msg(t, stage)
        BY <1>3, <1>5, <3>2, <4>0, MessageIs DEF At
      <4>5. CASE a \in 1..Len(enqueued[j]) /\ b \in 1..Len(enqueued[j])
        BY <2>1, <4>3, <4>5 DEF IInv, OnceEach
      <4>6. CASE a = n /\ b \in 1..Len(enqueued[j])
        BY <2>1, <4>2, <4>3, <4>4, <4>6
      <4>7. CASE b = n /\ a \in 1..Len(enqueued[j])
        BY <2>1, <4>2, <4>3, <4>4, <4>7
      <4>8. QED
        BY <1>5, <3>2, <4>0, <4>5, <4>6, <4>7
    <3>3. QED
      BY <1>1, <1>2, <3>1, <3>2, Queues
  <2>2. QED
    BY <2>1 DEF OnceEach, At
<1>7. StartFirst'
  <2>1. ASSUME NEW j \in Trackers, NEW i \in 1..Len(enqueued'[j]), NEW t, t = enqueued'[j][i].tape
        PROVE  \/ Msg(t, "start") \in lost'[j]
               \/ \E h \in 1..i : At(j, h, t, "start")'
    <3>1. lost[j] \subseteq lost'[j]
      BY <1>1, <1>2, Queues
    <3>2. CASE i \in 1..Len(enqueued[j]) /\ enqueued'[j][i] = enqueued[j][i]
      <4>1. Msg(t, "start") \in lost[j] \/ \E h \in 1..i : At(j, h, t, "start")
        BY <2>1, <3>2 DEF IInv, StartFirst, Msg
      <4>2. ASSUME NEW h \in 1..i, At(j, h, t, "start") PROVE At(j, h, t, "start")'
        <5>1. h \in 1..Len(enqueued[j])
          BY <1>4, <3>2
        <5>2. enqueued'[j][h] = enqueued[j][h]
          BY <1>1, <1>2, <1>5, <5>1, Queues
        <5>3. QED
          BY <4>2, <5>2 DEF At
      <4>3. QED
        BY <3>1, <4>1, <4>2
    <3>3. CASE /\ j = k /\ k <= scenario.trackers /\ enqueued'[j] = Append(enqueued[j], m)
               /\ i = Len(enqueued[j]) + 1
      <4>1. enqueued'[j][i] = m /\ t = m.tape /\ i \in 1..i
        BY <1>4, <1>5, <2>1, <3>3
      <4>2. CASE m.stage = "start"
        BY <4>1, <4>2 DEF At
      <4>3. CASE m.stage # "start"
        <5>1. Started(j, t)
          BY <1>1, <1>2, <3>3, <4>1, <4>3, StartWentAhead
        <5>2. ASSUME NEW h \in 1..Len(enqueued[j]), enqueued[j][h] = Msg(t, "start")
              PROVE  h \in 1..i /\ At(j, h, t, "start")'
          <6>1. h \in 1..i
            BY <1>4, <3>3
          <6>2. QED
            BY <1>5, <3>3, <5>2, <6>1 DEF At, Msg
        <5>3. QED
          BY <3>1, <5>1, <5>2 DEF Started, Given
      <4>4. QED
        BY <4>2, <4>3
    <3>4. QED
      BY <1>1, <1>2, <1>5, <3>2, <3>3, Queues
  <2>2. QED
    BY <2>1 DEF StartFirst, At, Msg
<1>8. ASSUME NEW j \in Trackers
      PROVE  /\ Place(j)' = Place(j)
             /\ \A i \in 1..Place(j) : enqueued'[j][i] = enqueued[j][i]
             /\ Len(m_messageQueue'[j]) <= Len(enqueued'[j])
             /\ \A i \in 1..Len(m_messageQueue'[j]) :
                  m_messageQueue'[j][i] = enqueued'[j][Place(j) + i]
  <2> DEFINE n == Len(enqueued[j])
             l == Len(m_messageQueue[j])
  <2>1. n \in Nat /\ l \in Nat /\ l <= n /\ Place(j) = n - l
    BY <1>4 DEF IInv, DeliveryInv, Place
  <2>2. \A i \in 1..l : m_messageQueue[j][i] = enqueued[j][Place(j) + i]
    BY DEF IInv, DeliveryInv
  <2>3. CASE enqueued'[j] = enqueued[j] /\ m_messageQueue'[j] = m_messageQueue[j]
    BY <2>1, <2>2, <2>3 DEF Place
  <2>4. CASE /\ j = k /\ enqueued'[j] = Append(enqueued[j], m)
             /\ m_messageQueue'[j] = Append(m_messageQueue[j], m)
    <3>1. /\ Len(enqueued'[j]) = n + 1 /\ enqueued'[j][n + 1] = m
          /\ \A i \in 1..n : enqueued'[j][i] = enqueued[j][i]
      BY <1>5, <2>4
    <3>2. /\ Len(m_messageQueue'[j]) = l + 1 /\ m_messageQueue'[j][l + 1] = m
          /\ \A i \in 1..l : m_messageQueue'[j][i] = m_messageQueue[j][i]
          /\ \A i \in 1..Len(m_messageQueue'[j]) : i \in 1..l \/ i = l + 1
      BY <1>3, <1>4, <2>4, Appended
    <3>3. Place(j)' = (n + 1) - (l + 1)
      BY <3>1, <3>2 DEF Place
    <3> HIDE DEF n, l
    <3>4. /\ (n + 1) - (l + 1) = n - l /\ l + 1 <= n + 1
          /\ \A i \in 1..(n - l) : i \in 1..n
          /\ \A i \in 1..l : (n - l) + i \in 1..n
          /\ (n - l) + (l + 1) = n + 1
      BY <2>1
    <3>5. QED
      BY <2>1, <2>2, <3>1, <3>2, <3>3, <3>4
  <2>5. QED
    BY <1>1, <1>2, <2>3, <2>4, Queues
<1>9. DeliveryInv'
  <2>1. ASSUME NEW j \in Trackers
        PROVE  /\ \A i \in 1..Len(received'[j]) : received'[j][i] \in 1..Place(j)
               /\ repPc'[j] = "send" =>
                    /\ Place(j) > 0 /\ current'[j] = enqueued'[j][Place(j)]
                    /\ isRealtime(current'[j])
                         => \A i \in 1..Len(received'[j]) : received'[j][i] < Place(j)
    <3>1. Place(j) > 0 => Place(j) \in 1..Place(j)
      <4>1. PICK n : n = Place(j)
        OBVIOUS
      <4>2. n \in Int
        BY <1>4, <4>1 DEF Place
      <4>3. n > 0 => n \in 1..n
        BY <4>2
      <4>4. QED
        BY <4>1, <4>3
    <3>2. QED
      BY <1>3, <1>8, <3>1 DEF IInv, DeliveryInv
  <2>2. QED
    BY <1>8, <2>1 DEF DeliveryInv, isRealtime
<1>10. InOrderDelivery'
  <2>1. ASSUME NEW j \in Trackers, NEW i \in 1..Len(received[j])
        PROVE  enqueued'[j][received[j][i]] = enqueued[j][received[j][i]]
    BY <1>8 DEF IInv, DeliveryInv
  <2>2. QED
    BY <1>3, <2>1 DEF IInv, InOrderDelivery
<1>11. DeletedInv'
  BY <1>1, <1>2, <1>3, GivenStep DEF IInv, DeletedInv, Msg
<1>12. QED
  BY <1>6, <1>7, <1>9, <1>10, <1>11

\* Where a thread is after a turn of the loop: at the next tracker, or through.
LEMMA Advances ==
  ASSUME IInv, alive, NEW r \in Reporters, AddMessage(r), NEW k, k = dest[r]
  PROVE  /\ UNCHANGED <<scenario, numTapes, audioVars, tapeVars>>
         /\ \A s \in Reporters \ {r} :
              pc'[s] = pc[s] /\ msgRef'[s] = msgRef[s] /\ dest'[s] = dest[s]
         /\ r # CAPTURE => UNCHANGED <<capEvent, portVars, session>>
         /\ \/ /\ k < scenario.trackers /\ pc'[r] = "add" /\ msgRef'[r] = msgRef[r] /\ dest'[r] = k + 1
               /\ UNCHANGED <<capEvent, portVars, session>>
            \/ k >= scenario.trackers /\ r # CAPTURE /\ pc'[r] = "done"
            \/ k >= scenario.trackers /\ r = CAPTURE /\ Reported(CAPTURE)
                 /\ pc'[CAPTURE] \in {"idle", "get"}
<1>1. /\ pc \in [Reporters -> {"idle", "stop", "get", "add", "done", "crashed"}]
      /\ msgRef \in [Reporters -> Messages \cup {NoMessage}]
      /\ dest \in [Reporters -> Trackers \cup {1}]
      /\ pc[r] = "add" /\ CAPTURE \in Reporters
  BY Threads DEF AddMessage, IInv, TypeOK, ThreadType
<1>2. UNCHANGED <<scenario, numTapes, audioVars, tapeVars>>
  BY DEF AddMessage
<1>3. CASE /\ k < scenario.trackers /\ dest' = [dest EXCEPT ![r] = k + 1]
           /\ UNCHANGED <<pc, msgRef, capEvent, portVars, session>>
  BY <1>1, <1>2, <1>3
<1>4. CASE /\ k >= scenario.trackers /\ Reported(r)
           /\ msgRef' = [msgRef EXCEPT ![r] = NoMessage] /\ dest' = dest
  <2>1. CASE r # CAPTURE
    <3>1. pc' = [pc EXCEPT ![r] = "done"] /\ UNCHANGED <<capEvent, portVars, session>>
      BY <1>4, <2>1 DEF Reported
    <3>2. QED
      BY <1>1, <1>2, <1>4, <2>1, <3>1
  <2>2. CASE r = CAPTURE
    <3>1. PICK p \in {"idle", "get"} : pc' = [pc EXCEPT ![CAPTURE] = p]
      BY <1>4, <2>2 DEF Reported, report
    <3>2. QED
      BY <1>1, <1>2, <1>4, <2>2, <3>1
  <2>3. QED
    BY <2>1, <2>2
<1>5. QED
  BY <1>3, <1>4 DEF AddMessage

\* No message comes to a thread or a tracker but from a thread.
LEMMA OutStep ==
  ASSUME IInv, alive, NEW r \in Reporters, AddMessage(r)
  PROVE  /\ \A s \in Reporters : \A x : InFlight(s, x)' => InFlight(s, x)
         /\ \A x : Out(x)' => Out(x)
         /\ \A k \in Trackers : \A t : Started(k, t) => Started(k, t)'
<1>1. PICK k : k = dest[r]
  OBVIOUS
<1>2. PICK m : m = msgRef[r]
  OBVIOUS
<1>3. ASSUME NEW s \in Reporters, NEW x, InFlight(s, x)' PROVE InFlight(s, x)
  <2>1. CASE s # r
    BY <1>1, <1>3, <2>1, Advances DEF InFlight
  <2>2. CASE s = r
    BY <1>1, <1>3, <2>2, Advances, InHand DEF InFlight
  <2>3. QED
    BY <2>1, <2>2
<1>4. ASSUME NEW x, Out(x)' PROVE Out(x)
  <2>1. CASE \E s \in Reporters : InFlight(s, x)'
    BY <1>3, <2>1 DEF Out
  <2>2. CASE \E j \in Trackers : Given(j, x)'
    BY <1>1, <1>2, <2>2, GivenStep, InHand DEF Out
  <2>3. QED
    BY <1>4, <2>1, <2>2 DEF Out
<1>5. ASSUME NEW j \in Trackers, NEW t, Started(j, t) PROVE Started(j, t)'
  <2>1. lost[j] \subseteq lost'[j] /\ \A x : Given(j, x) => Given(j, x)'
    BY <1>1, <1>2, Queues, GivenStep
  <2>2. QED
    BY <1>5, <2>1 DEF Started, Msg
<1>6. QED
  BY <1>3, <1>4, <1>5

\* The threads and the messages in their hands.
LEMMA AddThreadsStep ==
  ASSUME IInv, alive, NEW r \in Reporters, AddMessage(r)
  PROVE  FlightInv' /\ ReadyInv' /\ TapeInv'
<1>1. PICK k : k = dest[r]
  OBVIOUS
<1>2. PICK m : m = msgRef[r]
  OBVIOUS
<1>3. /\ pc[r] = "add" /\ InFlight(r, m) /\ k \in Nat /\ scenario.trackers \in Nat
      /\ r # CAPTURE => r = m.tape
  BY <1>1, <1>2, InHand, ScenarioType DEF IInv
<1>4. ASSUME NEW s \in Reporters, pc'[s] = "add"
      PROVE  /\ pc[s] = "add" /\ msgRef'[s] = msgRef[s] /\ tapeOf(s)' = tapeOf(s)
             /\ s # r => dest'[s] = dest[s]
             /\ s = r => dest'[s] = k + 1 /\ k < scenario.trackers
             /\ scenario' = scenario
             /\ s = CAPTURE => UNCHANGED <<m_audioTapeRef, capEvent>>
  <2>1. CASE s # r
    <3>1. pc[s] = "add" /\ msgRef'[s] = msgRef[s] /\ dest'[s] = dest[s] /\ scenario' = scenario
      BY <1>1, <1>4, <2>1, Advances
    <3>2. s = CAPTURE => UNCHANGED <<m_audioTapeRef, capEvent>>
      BY <1>1, <2>1, Advances
    <3>3. QED
      BY <2>1, <3>1, <3>2 DEF tapeOf
  <2>2. CASE s = r
    <3>1. /\ k < scenario.trackers /\ msgRef'[r] = msgRef[r] /\ dest'[r] = k + 1
          /\ UNCHANGED <<capEvent, portVars>> /\ scenario' = scenario
      BY <1>1, <1>4, <2>2, Advances
    <3>2. QED
      BY <1>3, <2>2, <3>1 DEF tapeOf
  <2>3. QED
    BY <2>1, <2>2
<1>5. FlightInv'
  <2>1. ASSUME NEW s \in Reporters, pc'[s] = "add"
        PROVE  /\ msgRef'[s].tape = tapeOf(s)' /\ tapeOf(s)' \in Tapes
               /\ dest'[s] = 1 \/ dest'[s] <= scenario'.trackers
    BY <1>3, <1>4, <2>1 DEF IInv, FlightInv
  <2>2. pc'[CAPTURE] = "add" /\ capEvent' = "endmetadata"
         => msgRef'[CAPTURE] = Msg(m_audioTapeRef', "start")
    BY <1>4, Threads DEF IInv, FlightInv
  <2>3. ASSUME NEW s \in Reporters, NEW t \in Tapes, NEW stage \in {"start", "stop", "ready"},
               InFlight(s, Msg(t, stage))'
        PROVE  /\ \A s2 \in Reporters : InFlight(s2, Msg(t, stage))' => s = s2
               /\ \A j \in Trackers : dest'[s] <= j => ~Given(j, Msg(t, stage))'
    <3>1. InFlight(s, Msg(t, stage)) /\ pc'[s] = "add"
      BY <2>3, OutStep DEF InFlight
    <3>2. /\ \A s2 \in Reporters : InFlight(s2, Msg(t, stage)) => s = s2
          /\ \A j \in Trackers : dest[s] <= j => ~Given(j, Msg(t, stage))
      BY <3>1 DEF IInv, FlightInv
    <3>3. ASSUME NEW j \in Trackers, dest'[s] <= j PROVE ~Given(j, Msg(t, stage))'
      <4>1. j \in Nat /\ dest[s] <= j
        BY <1>1, <1>3, <1>4, <3>1, <3>3, ReportingBounds DEF Trackers
      <4>2. ASSUME j = k, Msg(t, stage) = m PROVE FALSE
        <5>1. s = r
          BY <1>3, <3>2, <4>2
        <5>2. dest'[r] = k + 1
          BY <1>4, <3>1, <5>1
        <5>3. QED
          BY <1>3, <3>3, <4>2, <5>1, <5>2
      <4>3. ASSUME Given(j, Msg(t, stage))' PROVE FALSE
        <5>1. PICK x : x = Msg(t, stage)
          OBVIOUS
        <5>2. Given(j, x)'
          BY <4>3, <5>1 DEF Msg
        <5>3. Given(j, x) \/ (j = k /\ x = m)
          BY <1>1, <1>2, <5>2, GivenStep
        <5>4. QED
          BY <3>2, <4>1, <4>2, <5>1, <5>3
      <4>4. QED
        BY <4>3
    <3>4. QED
      BY <3>2, <3>3, OutStep
  <2>4. QED
    BY <2>1, <2>2, <2>3 DEF FlightInv, Msg
<1>6. ASSUME NEW t \in Tapes
      PROVE  /\ t \in Reporters
             /\ t # r => pc'[t] = pc[t]
             /\ t = r => pc[t] = "add" /\ pc'[t] \in {"add", "done"}
  <2>1. t \in Reporters /\ t # CAPTURE
    BY Threads
  <2>2. QED
    BY <1>1, <1>3, <2>1, Advances
<1>7. ReadyInv'
  BY <1>6, OutStep DEF IInv, ReadyInv, Msg
<1>8. TapeInv'
  <2>1. UNCHANGED <<hasAudio, m_state, m_shouldStop, numTapes>>
    BY <1>1, Advances
  <2>2. ASSUME NEW t \in Tapes PROVE pc'[t] # "stop" /\ (pc'[t] # "idle" => pc[t] # "idle")
    BY <1>6 DEF IInv, TapeInv
  <2>3. QED
    BY <2>1, <2>2 DEF IInv, TapeInv
<1>9. QED
  BY <1>5, <1>7, <1>8

\* What the capture thread knows after a turn of the loop.
LEMMA AddCallStep ==
  ASSUME IInv, alive, NEW r \in Reporters, AddMessage(r)
  PROVE  /\ CallInv'
         /\ \A t \in Tapes : Owed(t)' = Owed(t)
         /\ pc'[CAPTURE] = "stop" => pc[CAPTURE] = "stop" /\ m_audioTapeRef' = m_audioTapeRef
<1>1. PICK k : k = dest[r]
  OBVIOUS
<1>2. pc[r] = "add" /\ UNCHANGED <<m_shouldStop, expired, hasAudio, numTapes>>
  BY <1>1, Advances DEF AddMessage
<1>3. CASE /\ UNCHANGED <<capEvent, portVars, session>> /\ pc'[CAPTURE] = pc[CAPTURE]
  <2>1. CallInv'
    BY <1>2, <1>3 DEF IInv, CallInv
  <2>2. \A t \in Tapes : Owed(t)' = Owed(t)
    BY <1>3 DEF Owed
  <2>3. QED
    BY <1>3, <2>1, <2>2
<1>4. CASE r = CAPTURE /\ Reported(CAPTURE) /\ pc'[CAPTURE] \in {"idle", "get"}
  <2>1. /\ pc[CAPTURE] = "add" /\ m_audioTapeRef \in Tapes /\ session \in {"reported", "stopped"}
        /\ capEvent # "none" /\ m_audioTapeRef = numTapes /\ m_audioTapeRef # NULL
    BY <1>2, <1>4, Threads, TapeInHand
  <2>2. pc \in [Reporters -> {"idle", "stop", "get", "add", "done", "crashed"}] /\ CAPTURE \in Reporters
    BY Threads DEF IInv, TypeOK, ThreadType
  <2>3. m_needSendStop' = CASE capEvent = "endmetadata" -> TRUE
                            [] capEvent \in {"stop", "finalize", "extra"} -> FALSE
                            [] OTHER -> m_needSendStop
    BY <1>4 DEF Reported
  <2>4. \/ /\ capEvent = "finalize" /\ capEvent' = "extra" /\ pc' = [pc EXCEPT ![CAPTURE] = "get"]
           /\ UNCHANGED <<m_audioTapeRef, session>>
        \/ /\ capEvent = "extra" /\ capEvent' = "none" /\ pc' = [pc EXCEPT ![CAPTURE] = "idle"]
           /\ m_audioTapeRef' = NULL /\ session' = "none"
        \/ /\ capEvent \notin {"finalize", "extra"} /\ capEvent' = "none"
           /\ pc' = [pc EXCEPT ![CAPTURE] = "idle"]
           /\ UNCHANGED <<m_audioTapeRef, session>>
    BY <1>4 DEF Reported, report
  <2>5. CASE /\ capEvent = "finalize" /\ capEvent' = "extra" /\ pc' = [pc EXCEPT ![CAPTURE] = "get"]
             /\ UNCHANGED <<m_audioTapeRef, session>>
    <3>1. pc'[CAPTURE] = "get"
      BY <2>2, <2>5
    <3>2. session = "reported"
      BY <2>1, <2>5 DEF IInv, CallInv
    <3>3. CallInv'
      BY <1>2, <2>1, <2>5, <3>1, <3>2 DEF IInv, CallInv
    <3>4. \A t \in Tapes : Owed(t)' = Owed(t)
      BY <2>1, <2>5, <3>1 DEF Owed
    <3>5. QED
      BY <3>1, <3>3, <3>4
  <2>6. CASE /\ capEvent = "extra" /\ capEvent' = "none" /\ pc' = [pc EXCEPT ![CAPTURE] = "idle"]
             /\ m_audioTapeRef' = NULL /\ session' = "none"
    <3>1. pc'[CAPTURE] = "idle"
      BY <2>2, <2>6
    <3>2. CallInv'
      BY <2>6, <3>1 DEF CallInv
    <3>3. \A t \in Tapes : Owed(t)' = Owed(t)
      BY <2>1, <2>6, <3>1, Threads DEF Owed
    <3>4. QED
      BY <3>1, <3>2, <3>3
  <2>7. CASE /\ capEvent \notin {"finalize", "extra"} /\ capEvent' = "none"
             /\ pc' = [pc EXCEPT ![CAPTURE] = "idle"]
             /\ UNCHANGED <<m_audioTapeRef, session>>
    <3>1. pc'[CAPTURE] = "idle"
      BY <2>2, <2>7
    <3>2. capEvent \in {"endmetadata", "update", "hold", "resume", "stop"}
      BY <2>1, <2>7 DEF IInv, TypeOK, CallType
    <3>3. session = "reported" => m_needSendStop'
      <4>1. ASSUME session = "reported", capEvent # "endmetadata"
            PROVE  capEvent \in {"update", "hold", "resume"} /\ m_needSendStop
        BY <3>2, <4>1 DEF IInv, CallInv
      <4>2. QED
        BY <2>3, <4>1
    <3>4. session = "stopped" => ~m_needSendStop'
      <4>1. session = "stopped" => capEvent = "stop"
        BY <2>1 DEF IInv, CallInv
      <4>2. QED
        BY <2>3, <4>1
    <3>5. CallInv'
      BY <1>2, <2>1, <2>7, <3>1, <3>2, <3>3, <3>4 DEF IInv, CallInv
    <3>6. \A t \in Tapes : Owed(t)' = Owed(t)
      BY <2>1, <2>7, <3>1 DEF Owed
    <3>7. QED
      BY <3>1, <3>5, <3>6
  <2>8. QED
    BY <2>4, <2>5, <2>6, <2>7
<1>5. QED
  <2>1. CASE r # CAPTURE
    <3>1. UNCHANGED <<capEvent, portVars, session>> /\ pc'[CAPTURE] = pc[CAPTURE]
      BY <1>1, <2>1, Threads, Advances
    <3>2. QED
      BY <1>3, <3>1
  <2>2. CASE r = CAPTURE
    <3>1. \/ UNCHANGED <<capEvent, portVars, session>> /\ pc'[CAPTURE] = "add"
          \/ Reported(CAPTURE) /\ pc'[CAPTURE] \in {"idle", "get"}
      BY <1>1, <2>2, Advances
    <3>2. QED
      BY <1>2, <1>3, <1>4, <2>2, <3>1
  <2>3. QED
    BY <2>1, <2>2

\* What is owed, and where the start messages are, after a turn of the loop.
LEMMA AddLivingStep ==
  ASSUME IInv, alive, NEW r \in Reporters, AddMessage(r)
  PROVE  Living'
<1>1. PICK k : k = dest[r]
  OBVIOUS
<1>2. PICK m : m = msgRef[r]
  OBVIOUS
<1>3. /\ pc[r] = "add"
      /\ UNCHANGED <<scenario, m_toSendEventQueue, m_shouldStop, numTapes>>
  BY <1>1, Advances DEF AddMessage
<1>4. ASSUME NEW t \in Tapes, pc[t] \in {"add", "done"} PROVE pc'[t] \in {"add", "done"}
  <2>1. t \in Reporters /\ t # CAPTURE
    BY Threads
  <2>2. t = r => pc'[t] \in {"add", "done"}
    BY <1>1, <2>1, Advances
  <2>3. QED
    BY <1>1, <1>4, <2>1, <2>2, Advances
<1>5. ASSUME NEW t, NEW stage, ~Out(Msg(t, stage)) PROVE ~Out(Msg(t, stage))'
  BY <1>5, OutStep DEF Msg
<1>6. QueueInv'
  <2>1. ASSUME NEW t \in Tapes
        PROVE  \/ /\ m_toSendEventQueue'[t] = Owed(t)'
                  /\ pc'[t] \in {"add", "done"} \/ ~Out(Msg(t, "ready"))'
               \/ /\ m_toSendEventQueue'[t] = << >> /\ pc'[t] \in {"add", "done"}
                  /\ Owed(t)' # << >> /\ ~Out(Msg(t, "ready"))'
    <3>1. Owed(t)' = Owed(t) /\ m_toSendEventQueue'[t] = m_toSendEventQueue[t]
      BY <1>3, AddCallStep
    <3>2. QED
      BY <1>4, <1>5, <3>1 DEF IInv, QueueInv
  <2>2. QED
    BY <2>1 DEF QueueInv
<1>7. StartInv'
  BY <1>3, <1>5 DEF IInv, StartInv
<1>8. StopInv'
  BY <1>3, <1>5, AddCallStep DEF IInv, StopInv
<1>9. HandledInv'
  <2>1. ASSUME NEW j \in 1..scenario'.trackers, NEW t \in 1..numTapes'
        PROVE  \/ Started(j, t)'
               \/ /\ t = m_audioTapeRef'
                  /\ \/ session' = "started"
                     \/ capEvent' = "endmetadata" /\ pc'[CAPTURE] = "get"
                     \/ capEvent' = "endmetadata" /\ pc'[CAPTURE] = "add" /\ dest'[CAPTURE] <= j
    <3>1. j \in 1..scenario.trackers /\ t \in 1..numTapes /\ j \in Trackers
      BY <1>3, ScenarioType DEF IInv
    <3>2. CASE Started(j, t)
      BY <3>1, <3>2, OutStep
    <3>3. CASE /\ t = m_audioTapeRef
               /\ \/ session = "started"
                  \/ capEvent = "endmetadata" /\ pc[CAPTURE] = "get"
                  \/ capEvent = "endmetadata" /\ pc[CAPTURE] = "add" /\ dest[CAPTURE] <= j
      <4>1. CASE r # CAPTURE
        <5>1. /\ UNCHANGED <<capEvent, m_audioTapeRef, session>>
              /\ pc'[CAPTURE] = pc[CAPTURE] /\ dest'[CAPTURE] = dest[CAPTURE]
          BY <1>1, <4>1, Threads, Advances
        <5>2. QED
          BY <3>3, <5>1
      <4>2. CASE r = CAPTURE
        <5>1. /\ capEvent = "endmetadata" /\ pc[CAPTURE] = "add" /\ k <= j
              /\ t = m_audioTapeRef /\ m = Msg(t, "start")
          <6>1. session # "started"
            BY <1>2, <4>2, InHand
          <6>2. pc[CAPTURE] = "add"
            BY <1>3, <4>2
          <6>3. QED
            BY <1>1, <1>2, <3>3, <4>2, <6>1, <6>2 DEF IInv, FlightInv
        <5>2. k \in Nat /\ j \in Nat /\ scenario.trackers \in Nat /\ j <= scenario.trackers
          BY <1>1, <1>2, <3>1, InHand, ScenarioType DEF IInv
        <5>3. CASE j = k
          <6>1. m \in lost'[j] \/ Given(j, m)'
            BY <1>1, <1>2, <3>1, <5>2, <5>3, GivenStep
          <6>2. QED
            BY <5>1, <6>1 DEF Started, Given, Msg
        <5>4. CASE j # k
          <6>1. k < scenario.trackers /\ k + 1 <= j
            BY <5>1, <5>2, <5>4
          <6>2. ~(k >= scenario.trackers)
            BY <5>2, <6>1
          <6>3. /\ pc'[CAPTURE] = "add" /\ dest'[CAPTURE] = k + 1
                /\ UNCHANGED <<capEvent, m_audioTapeRef, session>>
            BY <1>1, <4>2, <6>2, Advances
          <6>4. QED
            BY <5>1, <6>1, <6>3
        <5>5. QED
          BY <5>3, <5>4
      <4>3. QED
        BY <4>1, <4>2
    <3>4. QED
      BY <3>1, <3>2, <3>3 DEF IInv, HandledInv
  <2>2. QED
    BY <2>1 DEF HandledInv
<1>10. QED
  BY <1>6, <1>7, <1>8, <1>9, AddCallStep DEF Living
-----------------------------------------------------------------------------
(* ReportingThread::Run                                                    *)

\* Lengths of a tracker's queues, and the message its thread has in hand.
LEMMA Tracker ==
  ASSUME IInv, NEW k \in Trackers
  PROVE  /\ enqueued[k] \in Seq(Messages) /\ Len(enqueued[k]) \in Nat
         /\ m_messageQueue[k] \in Seq(Messages) /\ Len(m_messageQueue[k]) \in Nat
         /\ received[k] \in Seq(Nat) /\ Len(received[k]) \in Nat
         /\ Place(k) \in Nat /\ Place(k) <= Len(enqueued[k])
         /\ \A i \in 1..Len(received[k]) : received[k][i] \in Nat
<1>1. /\ enqueued[k] \in Seq(Messages) /\ m_messageQueue[k] \in Seq(Messages)
      /\ received[k] \in Seq(Nat) /\ Len(m_messageQueue[k]) <= Len(enqueued[k])
  BY DEF IInv, TypeOK, TrackerType, DeliveryInv
<1>2. Len(enqueued[k]) \in Nat /\ Len(m_messageQueue[k]) \in Nat /\ Len(received[k]) \in Nat
  BY <1>1
<1>3. Place(k) \in Nat /\ Place(k) <= Len(enqueued[k])
  <2>1. PICK n \in Nat : n = Len(enqueued[k])
    BY <1>2
  <2>2. PICK l \in Nat : l = Len(m_messageQueue[k])
    BY <1>2
  <2>3. l <= n => n - l \in Nat /\ n - l <= n
    OBVIOUS
  <2>4. QED
    BY <1>1, <2>1, <2>2, <2>3 DEF Place
<1>4. QED
  BY <1>1, <1>2, <1>3

\* A thread that is through with its message, or will send it again, has maybe
\* delivered it.
LEMMA ReceiveStep ==
  ASSUME IInv, NEW k \in Trackers, repPc[k] = "send",
         UNCHANGED <<enqueued, m_messageQueue>>,
         receive(k) \/ UNCHANGED received,
         \/ repPc'[k] = "pop"
         \/ repPc'[k] = "send" /\ current'[k] = current[k] /\ ~isRealtime(current[k]),
         \A j \in Trackers \ {k} : repPc'[j] = repPc[j] /\ current'[j] = current[j]
  PROVE  DeliveryInv' /\ InOrderDelivery'
<1>1. PICK p : p = Place(k)
  OBVIOUS
<1>2. PICK n : n = Len(received[k])
  OBVIOUS
<1>3. /\ p \in Nat /\ n \in Nat /\ p > 0 /\ current[k] = enqueued[k][p]
      /\ isRealtime(current[k]) => \A i \in 1..n : received[k][i] < p
      /\ \A i \in 1..n : received[k][i] \in 1..p
  BY <1>1, <1>2, Tracker DEF IInv, DeliveryInv
<1>4. \A j \in Trackers : Place(j)' = Place(j)
  BY DEF Place
<1>5. /\ \A j \in Trackers \ {k} : received'[j] = received[j]
      /\ \/ received'[k] = received[k]
         \/ /\ Len(received'[k]) = n + 1 /\ received'[k][n + 1] = p
            /\ \A i \in 1..n : received'[k][i] = received[k][i]
            /\ \A i \in 1..Len(received'[k]) : i \in 1..n \/ i = n + 1
  <2>1. received \in [Trackers -> Seq(Nat)] /\ received[k] \in Seq(Nat)
    BY DEF IInv, TypeOK, TrackerType
  <2>2. CASE received' = received
    BY <2>2
  <2>3. CASE receive(k)
    <3>1. received' = [received EXCEPT ![k] = Append(received[k], p)]
      BY <1>1, <2>3 DEF receive, Place
    <3>2. received'[k] = Append(received[k], p)
      BY <2>1, <3>1
    <3>3. QED
      BY <1>2, <1>3, <2>1, <3>1, <3>2, Appended
  <2>4. QED
    BY <2>2, <2>3
<1>6. \A i \in 1..Len(received'[k]) : received'[k][i] \in 1..p
  BY <1>2, <1>3, <1>5
<1>7. DeliveryInv'
  <2>1. ASSUME NEW j \in Trackers
        PROVE  /\ Len(m_messageQueue'[j]) <= Len(enqueued'[j])
               /\ \A i \in 1..Len(m_messageQueue'[j]) :
                    m_messageQueue'[j][i] = enqueued'[j][Place(j) + i]
               /\ \A i \in 1..Len(received'[j]) : received'[j][i] \in 1..Place(j)
               /\ repPc'[j] = "send" =>
                    /\ Place(j) > 0 /\ current'[j] = enqueued'[j][Place(j)]
                    /\ isRealtime(current'[j])
                         => \A i \in 1..Len(received'[j]) : received'[j][i] < Place(j)
    <3>1. CASE j = k
      BY <1>1, <1>3, <1>6, <3>1 DEF IInv, DeliveryInv, isRealtime
    <3>2. CASE j # k
      <4>1. /\ received'[j] = received[j] /\ repPc'[j] = repPc[j] /\ current'[j] = current[j]
            /\ enqueued'[j] = enqueued[j] /\ m_messageQueue'[j] = m_messageQueue[j]
        BY <1>5, <3>2
      <4>2. QED
        BY <4>1 DEF IInv, DeliveryInv
    <3>3. QED
      BY <3>1, <3>2
  <2>2. QED
    BY <1>4, <2>1 DEF DeliveryInv, isRealtime
<1>8. ASSUME NEW a \in 1..n
      PROVE  /\ received[k][a] <= p
             /\ enqueued[k][received[k][a]].stage \in {"start", "stop"} => received[k][a] < p
  BY <1>3 DEF isRealtime
<1>9. InOrderDelivery'
  <2>1. ASSUME NEW j \in Trackers, NEW a \in 1..Len(received'[j]), NEW b \in 1..Len(received'[j]), a < b
        PROVE  /\ received'[j][a] <= received'[j][b]
               /\ enqueued'[j][received'[j][a]].stage \in {"start", "stop"}
                    => received'[j][a] < received'[j][b]
    <3>1. CASE received'[j] = received[j]
      BY <2>1, <3>1 DEF IInv, InOrderDelivery
    <3>2. CASE /\ j = k /\ Len(received'[k]) = n + 1 /\ received'[k][n + 1] = p
               /\ \A i \in 1..n : received'[k][i] = received[k][i]
               /\ \A i \in 1..Len(received'[k]) : i \in 1..n \/ i = n + 1
      <4>1. a \in 1..n /\ received'[k][a] = received[k][a]
        BY <1>3, <2>1, <3>2
      <4>2. CASE b \in 1..n
        BY <1>2, <2>1, <3>2, <4>1, <4>2 DEF IInv, InOrderDelivery
      <4>3. CASE b = n + 1
        BY <1>8, <3>2, <4>1, <4>3
      <4>4. QED
        BY <2>1, <3>2, <4>2, <4>3
    <3>3. QED
      BY <1>5, <3>1, <3>2
  <2>2. QED
    BY <2>1 DEF InOrderDelivery
<1>10. QED
  BY <1>7, <1>9

\* The thread of a tracker takes the next message.
LEMMA PopStep ==
  ASSUME IInv, NEW k \in Trackers, PopMessage(k)
  PROVE  DeliveryInv' /\ InOrderDelivery' /\ DeletedInv'
<1>1. PICK q : q = m_messageQueue[k]
  OBVIOUS
<1>2. PICK p : p = Place(k)
  OBVIOUS
<1>3. /\ q \in Seq(Messages) /\ Len(q) \in Nat /\ p \in Nat
      /\ \A i \in 1..Len(received[k]) : received[k][i] \in 1..p
      /\ \A i \in 1..Len(q) : q[i] = enqueued[k][p + i]
      /\ Len(q) <= Len(enqueued[k]) /\ Len(enqueued[k]) \in Nat
  BY <1>1, <1>2, Tracker DEF IInv, DeliveryInv
<1>4. /\ repPc[k] = "pop" /\ q # << >>
      /\ m_messageQueue' = [m_messageQueue EXCEPT ![k] = Tail(q)]
      /\ \/ /\ current' = [current EXCEPT ![k] = Head(q)]
            /\ repPc' = [repPc EXCEPT ![k] = "send"]
         \/ UNCHANGED <<current, repPc>>
      /\ UNCHANGED <<enqueued, received, deleted>>
  BY <1>1 DEF PopMessage
<1>5. /\ Len(q) > 0 /\ Len(Tail(q)) = Len(q) - 1 /\ Head(q) = q[1]
      /\ \A i \in 1..Len(Tail(q)) : Tail(q)[i] = q[i + 1] /\ i + 1 \in 1..Len(q)
  BY <1>3, <1>4
<1>6. /\ m_messageQueue'[k] = Tail(q)
      /\ \A j \in Trackers \ {k} : /\ m_messageQueue'[j] = m_messageQueue[j]
                                   /\ repPc'[j] = repPc[j] /\ current'[j] = current[j]
      /\ repPc'[k] = "send" => current'[k] = Head(q)
  BY <1>4 DEF IInv, TypeOK, TrackerType
<1>7. Place(k)' = p + 1
  <2>1. PICK l \in Nat : l = Len(q)
    BY <1>3
  <2>2. PICK n \in Nat : n = Len(enqueued[k])
    BY <1>3
  <2>3. p = n - l /\ Place(k)' = n - (l - 1)
    BY <1>1, <1>2, <1>4, <1>5, <1>6, <2>1, <2>2 DEF Place
  <2>4. n - (l - 1) = (n - l) + 1
    OBVIOUS
  <2>5. QED
    BY <2>3, <2>4
<1>8. DeliveryInv'
  <2>1. /\ Len(m_messageQueue'[k]) <= Len(enqueued'[k])
        /\ \A i \in 1..Len(m_messageQueue'[k]) :
             m_messageQueue'[k][i] = enqueued'[k][(p + 1) + i]
    <3>1. ASSUME NEW i \in 1..Len(Tail(q)) PROVE Tail(q)[i] = enqueued[k][(p + 1) + i]
      <4>1. Tail(q)[i] = enqueued[k][p + (i + 1)]
        BY <1>3, <1>5
      <4>2. p + (i + 1) = (p + 1) + i
        BY <1>3
      <4>3. QED
        BY <4>1, <4>2
    <3>2. enqueued' = enqueued /\ m_messageQueue'[k] = Tail(q)
      BY <1>4, <1>6
    <3>3. Len(Tail(q)) <= Len(enqueued[k])
      <4>1. \A l \in Nat, n \in Nat : l <= n => l - 1 <= n
        OBVIOUS
      <4>2. QED
        BY <1>3, <1>5, <4>1
    <3>4. QED
      BY <3>1, <3>2, <3>3
  <2>2. \A i \in 1..Len(received'[k]) : received'[k][i] \in 1..(p + 1) /\ received'[k][i] < p + 1
    BY <1>3, <1>4
  <2>3. repPc'[k] = "send" => current'[k] = enqueued'[k][p + 1]
    <3>1. 1 \in 1..Len(q)
      BY <1>3, <1>5
    <3>2. QED
      BY <1>3, <1>4, <1>5, <1>6, <3>1
  <2>4. ASSUME NEW j \in Trackers, j # k
        PROVE  /\ Place(j)' = Place(j)
               /\ Len(m_messageQueue'[j]) <= Len(enqueued'[j])
               /\ \A i \in 1..Len(m_messageQueue'[j]) :
                    m_messageQueue'[j][i] = enqueued'[j][Place(j) + i]
               /\ \A i \in 1..Len(received'[j]) : received'[j][i] \in 1..Place(j)
               /\ repPc'[j] = "send" =>
                    /\ Place(j) > 0 /\ current'[j] = enqueued'[j][Place(j)]
                    /\ isRealtime(current'[j])
                         => \A i \in 1..Len(received'[j]) : received'[j][i] < Place(j)
    <3>1. /\ m_messageQueue'[j] = m_messageQueue[j] /\ repPc'[j] = repPc[j]
          /\ current'[j] = current[j] /\ received'[j] = received[j] /\ enqueued'[j] = enqueued[j]
      BY <1>4, <1>6, <2>4
    <3>2. QED
      BY <3>1 DEF IInv, DeliveryInv, Place
  <2>5. p + 1 > 0
    BY <1>3
  <2>6. QED
    BY <1>7, <2>1, <2>2, <2>3, <2>4, <2>5 DEF DeliveryInv, isRealtime
<1>9. InOrderDelivery' /\ DeletedInv'
  BY <1>4 DEF IInv, InOrderDelivery, DeletedInv, Given
<1>10. QED
  BY <1>8, <1>9

\* A step of a tracker's thread, or of the operator.
LEMMA TrackStep ==
  ASSUME IInv, Track
  PROVE  /\ DeliveryInv' /\ InOrderDelivery' /\ DeletedInv'
         /\ UNCHANGED <<scenario, streamVars, callVars, portVars, audioVars, tapeVars, threadVars,
                        enqueued>>
         /\ \A j \in Trackers : lost[j] \subseteq lost'[j]
<1>1. PICK k \in Trackers : \/ InitOk(k) \/ PopMessage(k) \/ SkipMessage(k) \/ ExecuteOk(k)
                           \/ ExecuteFail(k) \/ SkipTapes(k)
  BY DEF Track
<1>2. /\ repPc \in [Trackers -> {"init", "pop", "send"}]
      /\ current \in [Trackers -> Messages \cup {NoMessage}]
      /\ lost \in [Trackers -> SUBSET Messages]
  BY DEF IInv, TypeOK, TrackerType
<1>3. UNCHANGED <<scenario, streamVars, callVars, portVars, audioVars, tapeVars, threadVars,
                  enqueued>>
  BY <1>1 DEF InitOk, PopMessage, SkipMessage, ExecuteOk, ExecuteFail, SkipTapes
<1>4. \A j \in Trackers : lost[j] \subseteq lost'[j]
  BY <1>1, <1>2 DEF InitOk, PopMessage, SkipMessage, ExecuteOk, ExecuteFail, SkipTapes
<1>5. ASSUME doneWith(k)
      PROVE  /\ repPc'[k] = "pop"
             /\ \A j \in Trackers \ {k} : repPc'[j] = repPc[j] /\ current'[j] = current[j]
  BY <1>2, <1>5 DEF doneWith
<1>6. CASE InitOk(k)
  <2>1. /\ repPc'[k] = "pop" /\ \A j \in Trackers \ {k} : repPc'[j] = repPc[j]
        /\ UNCHANGED <<enqueued, m_messageQueue, received, current, deleted>>
    BY <1>2, <1>6 DEF InitOk
  <2>2. DeliveryInv'
    BY <2>1 DEF IInv, DeliveryInv, Place
  <2>3. InOrderDelivery' /\ DeletedInv'
    BY <2>1 DEF IInv, InOrderDelivery, DeletedInv, Given
  <2>4. QED
    BY <1>3, <1>4, <2>2, <2>3
<1>7. CASE PopMessage(k)
  BY <1>3, <1>4, <1>7, PopStep
<1>8. CASE SkipMessage(k)
  <2>1. /\ repPc[k] = "send" /\ doneWith(k)
        /\ UNCHANGED <<enqueued, m_messageQueue, received, deleted>>
    BY <1>8 DEF SkipMessage
  <2>2. DeliveryInv' /\ InOrderDelivery'
    BY <1>5, <2>1, ReceiveStep
  <2>3. DeletedInv'
    BY <2>1 DEF IInv, DeletedInv, Given
  <2>4. QED
    BY <1>3, <1>4, <2>2, <2>3
<1>9. CASE ExecuteOk(k)
  <2>1. /\ repPc[k] = "send" /\ doneWith(k) /\ receive(k)
        /\ UNCHANGED <<enqueued, m_messageQueue>>
        /\ \/ deleted' = deleted
           \/ current[k].stage = "ready" /\ deleted' = deleted \cup {current[k].tape}
    BY <1>9 DEF ExecuteOk, attempt
  <2>2. DeliveryInv' /\ InOrderDelivery'
    BY <1>5, <2>1, ReceiveStep
  <2>3. DeletedInv'
    <3>1. ASSUME current[k].stage = "ready" PROVE Given(k, Msg(current[k].tape, "ready"))
      <4>1. /\ Place(k) > 0 /\ current[k] = enqueued[k][Place(k)]
            /\ Place(k) \in Nat /\ Place(k) <= Len(enqueued[k]) /\ Len(enqueued[k]) \in Nat
            /\ enqueued[k] \in Seq(Messages)
        BY <2>1, Tracker DEF IInv, DeliveryInv
      <4>2. Place(k) \in 1..Len(enqueued[k])
        BY <4>1
      <4>3. current[k] \in Messages
        BY <4>1, <4>2
      <4>4. current[k] = Msg(current[k].tape, "ready")
        BY <3>1, <4>3, MessageIs
      <4>5. QED
        BY <4>1, <4>2, <4>4 DEF Given
    <3>2. \A t \in deleted' : \E j \in Trackers : Given(j, Msg(t, "ready"))
      BY <2>1, <3>1 DEF IInv, DeletedInv
    <3>3. QED
      BY <2>1, <3>2 DEF DeletedInv, Given, Msg
  <2>4. QED
    BY <1>3, <1>4, <2>2, <2>3
<1>10. CASE ExecuteFail(k)
  <2>1. /\ repPc[k] = "send" /\ (receive(k) \/ UNCHANGED received)
        /\ UNCHANGED <<enqueued, m_messageQueue, deleted>>
        /\ \/ doneWith(k)
           \/ ~isRealtime(current[k]) /\ UNCHANGED <<repPc, current>>
    BY <1>10 DEF ExecuteFail, attempt
  <2>2. DeliveryInv' /\ InOrderDelivery'
    BY <1>5, <2>1, ReceiveStep
  <2>3. DeletedInv'
    BY <2>1 DEF IInv, DeletedInv, Given
  <2>4. QED
    BY <1>3, <1>4, <2>2, <2>3
<1>11. CASE SkipTapes(k)
  <2>1. UNCHANGED <<enqueued, m_messageQueue, repPc, current, received, deleted>>
    BY <1>11 DEF SkipTapes
  <2>2. QED
    BY <1>3, <1>4, <2>1, DeliveryRests
<1>12. QED
  BY <1>1, <1>6, <1>7, <1>8, <1>9, <1>10, <1>11
-----------------------------------------------------------------------------
(* The invariant.                                                          *)

\* Ready messages stay behind their threads.
LEMMA ReadyRests ==
  ASSUME IInv, MessagesRest,
         \A t \in Tapes : pc[t] \in {"add", "done"} => pc'[t] \in {"add", "done"}
  PROVE  ReadyInv'
BY RestStep DEF IInv, ReadyInv, Msg

\* The process starts in the invariant.
LEMMA Start == ASSUME Init PROVE IInv
<1>1. TypeOK
  BY InitTypes
<1>2. StreamInv
  BY StreamStart DEF Init
<1>3. /\ session = "none" /\ numTapes = 0 /\ m_audioTapeRef = NULL /\ capEvent = "none"
      /\ \A r \in Reporters : pc[r] = "idle"
      /\ \A t \in Tapes : /\ m_toSendEventQueue[t] = << >> /\ ~m_shouldStop[t] /\ ~hasAudio[t]
                          /\ m_state[t] = "Created"
      /\ \A k \in Trackers : /\ enqueued[k] = << >> /\ m_messageQueue[k] = << >>
                             /\ received[k] = << >> /\ repPc[k] = "init"
      /\ deleted = {}
  BY DEF Init
<1>4. \A m : ~Out(m)
  BY <1>3 DEF Out, InFlight, Given
<1>5. TapeInv
  BY <1>3, Threads DEF TapeInv
<1>6. OnceEach /\ StartFirst /\ InOrderDelivery /\ DeletedInv
  BY <1>3 DEF OnceEach, StartFirst, InOrderDelivery, DeletedInv
<1>7. FlightInv
  BY <1>3, Threads DEF FlightInv, InFlight
<1>8. ReadyInv
  BY <1>4 DEF ReadyInv
<1>9. DeliveryInv
  <2>1. Len(<< >>) = 0 /\ 0 <= 0
    OBVIOUS
  <2>2. ASSUME NEW k \in Trackers
        PROVE  /\ Len(m_messageQueue[k]) = 0 /\ Len(enqueued[k]) = 0 /\ Len(received[k]) = 0
               /\ repPc[k] # "send"
    BY <1>3, <2>1
  <2>3. QED
    BY <2>2 DEF DeliveryInv
<1>10. CallInv
  BY <1>3, Threads DEF CallInv
<1>11. QueueInv
  BY <1>3, <1>4, Threads DEF QueueInv, Owed
<1>12. StartInv /\ StopInv
  BY <1>4 DEF StartInv, StopInv
<1>13. HandledInv
  BY <1>3 DEF HandledInv
<1>14. QED
  BY <1>1, <1>2, <1>5, <1>6, <1>7, <1>8, <1>9, <1>10, <1>11, <1>12, <1>13 DEF IInv

\* A step of the process keeps the invariant.
LEMMA Step == ASSUME IInv, Next PROVE IInv'
<1>1. alive
  BY DEF Next, Capture, Tape, Message, Track, Follow, EtStart, EtEndMetadata, EtUpdate, EtHoldResume,
         EtStop, QueueStop, Hoover, WriteAudio, StopTape, GetMessage, AddMessage, InitOk,
         PopMessage, SkipMessage, ExecuteOk, ExecuteFail, SkipTapes, attempt, idle
<1>2. TypeOK' /\ StreamInv
  BY <1>1, TypeStep DEF IInv
<1>3. ASSUME MessagesRest, Living', TapeInv', UNCHANGED streamVars,
             UNCHANGED <<enqueued, m_messageQueue, repPc, current, received, deleted>>,
             \A t \in Tapes : pc[t] \in {"add", "done"} => pc'[t] \in {"add", "done"}
      PROVE  IInv'
  <2>1. DeliveryInv' /\ InOrderDelivery' /\ DeletedInv'
    BY <1>3, DeliveryRests
  <2>2. OnceEach' /\ StartFirst' /\ FlightInv' /\ ReadyInv'
    BY <1>3, RestStep, ReadyRests
  <2>3. StreamInv'
    BY <1>2, <1>3, StreamRests
  <2>4. QED
    BY <1>2, <1>3, <2>1, <2>2, <2>3 DEF IInv, Living
<1>4. CASE Capture
  <2>1. MessagesRest /\ Living' /\ TapeInv'
    BY <1>1, <1>2, <1>4, CaptureStep
  <2>2. /\ UNCHANGED streamVars
        /\ UNCHANGED <<enqueued, m_messageQueue, repPc, current, received, deleted>>
    BY <1>4 DEF Capture, EtStart, EtEndMetadata, EtUpdate, EtHoldResume, EtStop, QueueStop, Hoover,
                stop
  <2>3. pc' = pc \/ \E p \in {"get", "stop"} : pc' = [pc EXCEPT ![CAPTURE] = p]
    BY <1>4 DEF Capture, EtStart, EtEndMetadata, EtUpdate, EtHoldResume, EtStop, QueueStop, Hoover,
                stop, report
  <2>4. \A t \in Tapes : pc'[t] = pc[t]
    BY <2>3, Threads DEF IInv, TypeOK, ThreadType
  <2>5. QED
    BY <1>3, <2>1, <2>2, <2>4
<1>5. CASE Tape
  <2>1. PICK u \in Tapes : WriteAudio(u) \/ StopTape(u)
    BY <1>5 DEF Tape
  <2>2. MessagesRest /\ Living' /\ TapeInv'
    BY <1>1, <1>2, <2>1, WriteAudioStep, StopTapeStep
  <2>3. /\ UNCHANGED streamVars
        /\ UNCHANGED <<enqueued, m_messageQueue, repPc, current, received, deleted>>
    BY <2>1 DEF WriteAudio, StopTape
  <2>4. \A t \in Tapes : pc[t] \in {"add", "done"} => pc'[t] \in {"add", "done"}
    <3>1. pc' = pc \/ (pc' = [pc EXCEPT ![u] = "get"] /\ m_state[u] # "Stopped")
      BY <2>1 DEF WriteAudio, StopTape
    <3>2. \A t \in Tapes : pc[t] \in {"add", "done"} => m_state[t] = "Stopped"
      BY DEF IInv, TapeInv
    <3>3. pc \in [Reporters -> {"idle", "stop", "get", "add", "done", "crashed"}]
      BY DEF IInv, TypeOK, ThreadType
    <3>4. QED
      BY <3>1, <3>2, <3>3, Threads
  <2>5. QED
    BY <1>3, <2>2, <2>3, <2>4
<1>6. ASSUME NEW r \in Reporters, GetMessage(r) PROVE IInv'
  <2>1. /\ UNCHANGED streamVars
        /\ UNCHANGED <<enqueued, lost, m_messageQueue, repPc, current, received, deleted>>
    BY <1>6 DEF GetMessage
  <2>2. DeliveryInv' /\ InOrderDelivery' /\ DeletedInv'
    BY <2>1, DeliveryRests
  <2>3. StreamInv'
    BY <1>2, <2>1, StreamRests
  <2>4. OnceEach' /\ StartFirst'
    BY <2>1 DEF IInv, OnceEach, StartFirst, At
  <2>5. CASE rejected(tapeOf(r))
    <3>1. ~alive' /\ MessagesRest /\ TapeInv' /\ ReadyInv'
      BY <1>6, <2>5, CrashStep DEF GetMessage
    <3>2. FlightInv'
      BY <3>1, RestStep
    <3>3. QED
      BY <1>2, <2>2, <2>3, <2>4, <3>1, <3>2 DEF IInv
  <2>6. CASE ~rejected(tapeOf(r))
    <3>1. Living' /\ TapeInv' /\ FlightInv' /\ ReadyInv'
      BY <1>1, <1>6, <2>6, TakeStep
    <3>2. QED
      BY <1>2, <2>2, <2>3, <2>4, <3>1 DEF IInv, Living
  <2>7. QED
    BY <2>5, <2>6
<1>7. ASSUME NEW r \in Reporters, AddMessage(r) PROVE IInv'
  <2>1. OnceEach' /\ StartFirst' /\ DeliveryInv' /\ InOrderDelivery' /\ DeletedInv'
    BY <1>1, <1>7, AddQueuesStep
  <2>2. FlightInv' /\ ReadyInv' /\ TapeInv'
    BY <1>1, <1>7, AddThreadsStep
  <2>3. Living'
    BY <1>1, <1>7, AddLivingStep
  <2>4. StreamInv'
    <3>1. UNCHANGED streamVars \/ Broadcast
      BY <1>7 DEF AddMessage
    <3>2. QED
      BY <1>2, <3>1, StreamRests, BroadcastStep
  <2>5. QED
    BY <1>2, <2>1, <2>2, <2>3, <2>4 DEF IInv, Living
<1>8. ASSUME UNCHANGED <<scenario, callVars, portVars, audioVars, tapeVars, threadVars, enqueued>>,
             \A j \in Trackers : lost[j] \subseteq lost'[j],
             DeliveryInv', InOrderDelivery', DeletedInv', StreamInv'
      PROVE  IInv'
  <2>1. MessagesRest /\ Living' /\ TapeInv'
    BY <1>1, <1>2, <1>8, CallRests
  <2>2. OnceEach' /\ StartFirst' /\ FlightInv' /\ ReadyInv'
    BY <1>8, <2>1, RestStep, ReadyRests
  <2>3. QED
    BY <1>2, <1>8, <2>1, <2>2 DEF IInv, Living
<1>9. CASE Track
  <2>1. StreamInv'
    BY <1>2, <1>9, TrackStep, StreamRests
  <2>2. QED
    BY <1>8, <1>9, <2>1, TrackStep
<1>10. CASE Follow
  <2>1. UNCHANGED <<scenario, callVars, portVars, audioVars, tapeVars, threadVars, sendVars,
                    queueVars, skipVars, lost>>
    BY <1>10 DEF Follow
  <2>2. DeliveryInv' /\ InOrderDelivery' /\ DeletedInv'
    BY <2>1, DeliveryRests
  <2>3. StreamInv'
    <3>1. PICK c \in scenario.clients : StreamingSvc(c)
      BY <1>10 DEF Follow
    <3>2. c \in Clients
      BY <3>1, ScenarioType DEF IInv
    <3>3. QED
      BY <1>2, <3>1, <3>2, ServiceStep
  <2>4. QED
    BY <1>8, <2>1, <2>2, <2>3
<1>11. QED
  BY <1>4, <1>5, <1>6, <1>7, <1>9, <1>10 DEF Next, Message

\* A stuttering step keeps it.
LEMMA Stutter == ASSUME IInv, UNCHANGED vars PROVE IInv'
<1> USE DEF vars
<1>1. CallType' /\ TapeType' /\ scenario' \in Scenarios
  BY DEF IInv, TypeOK, CallType, TapeType
<1>2. ThreadType' /\ TrackerType'
  BY DEF IInv, TypeOK, ThreadType, TrackerType
<1>3. TypeOK' /\ StreamInv'
  BY <1>1, <1>2, StreamRests DEF IInv, TypeOK
<1>4. DeliveryInv' /\ InOrderDelivery' /\ DeletedInv'
  BY DeliveryRests
<1>5. MessagesRest
  BY DEF MessagesRest
<1>6. OnceEach' /\ StartFirst' /\ FlightInv' /\ ReadyInv'
  BY <1>5, RestStep, ReadyRests
<1>7. TapeInv'
  BY DEF IInv, TapeInv
<1>8. alive' => alive
  BY DEF alive
<1>9. alive => Living'
  BY <1>3, CallRests
<1>10. QED
  BY <1>3, <1>4, <1>6, <1>7, <1>8, <1>9 DEF IInv, Living

\* The inductive invariant holds in every state of the process.
THEOREM ReportingInvariant == Spec => []IInv
<1>1. Init => IInv
  BY Start
<1>2. IInv /\ [Next]_vars => IInv'
  BY Step, Stutter
<1>3. QED
  BY <1>1, <1>2, PTL DEF Spec

\* AudioTape::GetMessage by two threads without a lock, an event queued before its
\* message is due (CapturePort.cpp:367), Finalize's second message: every tracker
\* hears at most once that a tape started, stopped and is ready, and of the start
\* first, for every number of tapes and trackers and every length of the queues.
THEOREM StagesComeInOrder == Spec => []StagesInOrder
<1>1. IInv => StagesInOrder
  BY DEF IInv, StagesInOrder
<1>2. QED
  BY <1>1, ReportingInvariant, PTL

\* TapeMsg::HandleResponse: no file is deleted, and no ready message exists, before
\* the thread of the tape has taken its message, which it does once it has left the
\* processing chain.
THEOREM ReadyIsNotPremature == Spec => []NoPrematureReady
<1>1. IInv => NoPrematureReady
  <2> SUFFICES ASSUME IInv PROVE NoPrematureReady
    OBVIOUS
  <2>1. ASSUME NEW t \in Tapes, NEW k \in Trackers, Given(k, Msg(t, "ready"))
        PROVE  m_state[t] = "Stopped" /\ pc[t] \in {"add", "done"}
    <3>1. pc[t] \in {"add", "done"}
      BY <2>1 DEF IInv, ReadyInv, Out
    <3>2. QED
      BY <3>1 DEF IInv, TapeInv
  <2>2. ASSUME NEW k \in Trackers, NEW i \in 1..Len(enqueued[k]), enqueued[k][i].stage = "ready"
        PROVE  m_state[enqueued[k][i].tape] = "Stopped"
    <3>1. enqueued[k] \in Seq(Messages)
      BY DEF IInv, TypeOK, TrackerType
    <3>2. enqueued[k][i] \in Messages
      BY <3>1
    <3>3. enqueued[k][i].tape \in Tapes /\ enqueued[k][i] = Msg(enqueued[k][i].tape, "ready")
      BY <2>2, <3>2, MessageIs DEF Messages
    <3>4. QED
      BY <2>1, <3>3 DEF Given
  <2>3. ASSUME NEW t \in deleted PROVE m_state[t] = "Stopped" /\ pc[t] \in {"get", "add", "done"}
    BY <2>1 DEF IInv, DeletedInv, TypeOK, TrackerType
  <2>4. QED
    BY <2>2, <2>3 DEF NoPrematureReady
<1>2. QED
  BY <1>1, ReportingInvariant, PTL

\* ReportingThread::Run with its retries: a tracker receives messages in the order of
\* its queue, and a start or stop message once at most.
THEOREM DeliveredInOrder == Spec => []InOrderDelivery
<1>1. IInv => InOrderDelivery
  BY DEF IInv
<1>2. QED
  BY <1>1, ReportingInvariant, PTL

\* EventStreaming::AddMessage and the sessions' threads, below the threads that
\* report: a client follows the latest messages in order, without a gap, as long as
\* its list was never full; and never more clients than allowed are served.
THEOREM ClientsAlwaysFollow == Spec => []ClientsFollow
<1>1. IInv => ClientsFollow
  BY InvFollows DEF IInv
<1>2. QED
  BY <1>1, ReportingInvariant, PTL
=============================================================================
