--------------------------- MODULE EventStreaming ---------------------------
(***************************************************************************)
(* The clients that follow the messages of OrkAudio over a connection of   *)
(* their own (EventStreaming.cpp and EventStreamingServer of               *)
(* MultiThreadedServer.cpp).  Every connection has a thread and a session: *)
(* a list of messages with a mutex, and a semaphore that has one token     *)
(* more than there were messages.  The thread takes a token, sends the     *)
(* messages until there are none, and takes the next token; it leaves when *)
(* a message cannot be sent.                                               *)
(*                                                                         *)
(* A step is a section under one lock, or the sending of a message.        *)
(* Messages are known by their numbers.                                    *)
(***************************************************************************)
EXTENDS Naturals, Sequences, FiniteSets

CONSTANTS
  Clients,
  MaxSessions,    \* 100 in the code
  MaxMessages     \* 10000 in the code: a list of more loses its first

ASSUME StreamingBounds == MaxSessions \in Nat /\ MaxMessages \in Nat

VARIABLES
  m_sessions,     \* the clients whose session gets messages
  m_messages,     \* the list of each session
  m_semaphore,    \* the tokens of each session
  clientPc,       \* where the thread of each connection is
  inHand,         \* the message a thread is sending, or none
  \* history
  streamed,       \* how often AddMessage was called
  joined,         \* streamed when the session was added
  read            \* what was sent to each client

streamVars == <<m_sessions, m_messages, m_semaphore, clientPc, inHand,
                streamed, joined, read>>

StreamInit ==
  /\ m_sessions = {} /\ streamed = 0
  /\ m_messages = [c \in Clients |-> << >>] /\ read = [c \in Clients |-> << >>]
  /\ m_semaphore = [c \in Clients |-> 1]
  /\ clientPc = [c \in Clients |-> "new"]
  /\ inHand = [c \in Clients |-> << >>] /\ joined = [c \in Clients |-> 0]
-----------------------------------------------------------------------------
\* Slip: the message that came last gives way.
pushOverLast(q, n) == Append(IF Len(q) > MaxMessages THEN SubSeq(q, 1, Len(q) - 1) ELSE q, n)

\* EventStreamingSession::AddMessage
push(q, n) == Append(IF Len(q) > MaxMessages THEN Tail(q) ELSE q, n)

\* EventStreaming::AddMessage: one lock is held for all sessions.
Broadcast ==
  /\ streamed' = streamed + 1
  /\ m_messages' = [c \in Clients |-> IF c \in m_sessions
                                      THEN push(m_messages[c], streamed + 1)
                                      ELSE m_messages[c]]
  /\ m_semaphore' = [c \in Clients |-> m_semaphore[c] + IF c \in m_sessions THEN 1 ELSE 0]
  /\ UNCHANGED <<m_sessions, clientPc, inHand, joined, read>>

Goes(c, from, to) == clientPc[c] = from /\ clientPc' = [clientPc EXCEPT ![c] = to]

\* A request was answered with a header.
AddSession(c) ==
  /\ Goes(c, "new", "added")
  /\ m_sessions' = m_sessions \cup {c}
  /\ joined' = [joined EXCEPT ![c] = streamed]
  /\ UNCHANGED <<m_messages, m_semaphore, inHand, streamed, read>>

\* Too many sessions, this one included: it leaves again.
CountSessions(c) ==
  /\ Goes(c, "added", IF Cardinality(m_sessions) > MaxSessions THEN "leave" ELSE "wait")
  /\ UNCHANGED <<m_sessions, m_messages, m_semaphore, inHand, streamed, joined, read>>

WaitForMessages(c) ==
  /\ m_semaphore[c] > 0
  /\ Goes(c, "wait", "drain")
  /\ m_semaphore' = [m_semaphore EXCEPT ![c] = @ - 1]
  /\ UNCHANGED <<m_sessions, m_messages, inHand, streamed, joined, read>>

\* GetNumMessages and GetTapeMessage.  Nobody else takes messages in between,
\* but for the first of a list that is full.
GetTapeMessage(c) ==
  \/ /\ m_messages[c] = << >>
     /\ Goes(c, "drain", "wait")
     /\ UNCHANGED <<m_sessions, m_messages, m_semaphore, inHand, streamed, joined, read>>
  \/ /\ m_messages[c] # << >>
     /\ Goes(c, "drain", "send")
     /\ inHand' = [inHand EXCEPT ![c] = <<Head(m_messages[c])>>]
     /\ m_messages' = [m_messages EXCEPT ![c] = Tail(@)]
     /\ UNCHANGED <<m_sessions, m_semaphore, streamed, joined, read>>

\* It fails when the client has gone, and maybe not at once then.
Send(c) ==
  /\ \/ Goes(c, "send", "drain") /\ read' = [read EXCEPT ![c] = @ \o inHand[c]]
     \/ Goes(c, "send", "leave") /\ UNCHANGED read
  /\ inHand' = [inHand EXCEPT ![c] = << >>]
  /\ UNCHANGED <<m_sessions, m_messages, m_semaphore, streamed, joined>>

RemoveSession(c) ==
  /\ Goes(c, "leave", "closed")
  /\ m_sessions' = m_sessions \ {c}
  /\ UNCHANGED <<m_messages, m_semaphore, inHand, streamed, joined, read>>

StreamingSvc(c) ==
  \/ AddSession(c) \/ CountSessions(c) \/ WaitForMessages(c) \/ GetTapeMessage(c) \/ Send(c)
  \/ RemoveSession(c)
-----------------------------------------------------------------------------
\* EventStreaming.cpp:22: what a client was sent, is being sent and will be sent
\* are the latest messages since its session was added, in the order of the one
\* fan-out, and all of them unless the list was full or the client has gone; and
\* no message waits for a client whose thread waits without a token.  Sessions are
\* added and counted under separate locks, and never more than allowed are served.
ClientsFollow ==
  /\ Cardinality({c \in Clients : clientPc[c] \in {"wait", "drain", "send"}}) <= MaxSessions
  /\ \A c \in Clients :
    LET seen == read[c] \o inHand[c] \o m_messages[c]
        q == m_messages[c]
    IN /\ \A i \in 1..Len(seen) - 1 : seen[i] < seen[i + 1]
       /\ c \in m_sessions =>
            /\ q # << >> => q[Len(q)] = streamed /\ q[1] + Len(q) = streamed + 1
            /\ clientPc[c] # "leave" /\ streamed - joined[c] <= MaxMessages + 1
                 => Len(seen) = streamed - joined[c]
       /\ clientPc[c] = "wait" /\ m_semaphore[c] = 0 => q = << >>
-----------------------------------------------------------------------------
(* The inductive invariant of the proof of ClientsFollow.                  *)

StreamType ==
  /\ m_sessions \in SUBSET Clients /\ IsFiniteSet(m_sessions) /\ streamed \in Nat
  /\ m_messages \in [Clients -> Seq(Nat)] /\ read \in [Clients -> Seq(Nat)]
  /\ inHand \in [Clients -> Seq(Nat)]
  /\ m_semaphore \in [Clients -> Nat] /\ joined \in [Clients -> Nat]
  /\ clientPc \in [Clients -> {"new", "added", "wait", "drain", "send", "leave", "closed"}]

Served == {c \in Clients : clientPc[c] \in {"wait", "drain", "send"}}

\* What a thread has in hand, and the tokens it can count on.
ThreadInv(c) ==
  /\ c \in m_sessions <=> clientPc[c] \notin {"new", "closed"}
  /\ clientPc[c] = "new" => m_messages[c] = << >> /\ read[c] = << >>
  /\ IF clientPc[c] = "send" THEN Len(inHand[c]) = 1 ELSE inHand[c] = << >>
  /\ clientPc[c] \in {"new", "added"} => m_semaphore[c] > 0
  /\ clientPc[c] = "wait" /\ m_semaphore[c] = 0 => m_messages[c] = << >>

Rising(q) == \A i, j \in 1..Len(q) : i < j => q[i] < q[j]

\* The last message that has left the list of a session that gets messages.
Taken(c) == streamed - Len(m_messages[c])

\* The list has the latest messages, one by one, and those that left it are older.
ListInv(c) ==
  /\ Len(m_messages[c]) <= streamed
  /\ \A i \in 1..Len(m_messages[c]) : m_messages[c][i] = Taken(c) + i
  /\ Rising(read[c])
  /\ \A i \in 1..Len(read[c]) : read[c][i] <= Taken(c)
  /\ inHand[c] # << >> => /\ inHand[c][1] <= Taken(c)
                          /\ \A i \in 1..Len(read[c]) : read[c][i] < inHand[c][1]
  /\ joined[c] <= streamed
  /\ clientPc[c] # "leave" /\ streamed - joined[c] <= MaxMessages + 1
       => Len(read[c]) + Len(inHand[c]) + Len(m_messages[c]) = streamed - joined[c]

StreamInv ==
  /\ StreamType
  /\ Cardinality(Served) <= MaxSessions
  /\ \A c \in Clients : ThreadInv(c)
  /\ \A c \in m_sessions : ListInv(c)
  /\ \A c \in Clients : Rising(read[c] \o inHand[c] \o m_messages[c])
=============================================================================
