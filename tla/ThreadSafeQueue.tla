-------------------------- MODULE ThreadSafeQueue --------------------------
(***************************************************************************)
(* orkbasecxx/ThreadSafeQueue.h with the OrkSemaphore of Utils.h: the      *)
(* bounded queue between every two stages of the tape pipeline.  push()    *)
(* holds the mutex from its first line to its last, so it is one step.     *)
(* pop() first waits on the semaphore and only then takes the mutex, so    *)
(* any number of other calls may run between its two halves.               *)
(*                                                                         *)
(* push() releases the semaphore whether or not the element fitted.  The   *)
(* surplus token of a refused push makes a later pop() return a default    *)
(* constructed (NULL) element, which the worker threads test for.          *)
(***************************************************************************)
EXTENDS Naturals, Sequences, FiniteSets

CONSTANTS
  Elements,     \* what is queued
  Consumers,    \* the threads that call pop()
  DefaultSize,  \* capacity given by the constructor
  ConfigSize,   \* capacity a worker thread gives to setSize() when it starts
  MaxPushes     \* bound on the number of push() calls explored

ASSUME ConsumersFinite == IsFiniteSet(Consumers)
ASSUME SizesAreNat == DefaultSize \in Nat /\ ConfigSize \in Nat
ASSUME MaxPushesIsNat == MaxPushes \in Nat

VARIABLES
  m_queue,      \* the elements waiting
  m_size,       \* current capacity
  m_count,      \* OrkSemaphore::m_count
  acquired,     \* consumers that passed acquire() and do not have the mutex yet
  accepted,     \* history: elements push() accepted
  delivered,    \* history: elements pop() returned
  rejected,     \* history: number of push() calls that returned false
  nulls         \* history: number of pop() calls that returned NULL

vars == <<m_queue, m_size, m_count, acquired, accepted, delivered, rejected, nulls>>

Init ==
  /\ m_queue = << >>
  /\ m_size = DefaultSize
  /\ m_count = 0               \* the constructor acquires the initial token
  /\ acquired = {}
  /\ accepted = << >>
  /\ delivered = << >>
  /\ rejected = 0
  /\ nulls = 0

\* Slip: a consumer is woken only when the queue was empty.
releaseIfEmpty == m_count' = IF m_queue = << >> THEN m_count + 1 ELSE m_count

\* Slip: the release of both branches of push() is added to the common one.
releaseTwice == m_count' = m_count + 2

release == m_count' = m_count + 1

\* Slip: a full queue makes room by dropping its oldest element.
pushDropOldest(e) ==
  /\ Len(accepted) + rejected < MaxPushes
  /\ m_queue' = Append(IF Len(m_queue) < m_size \/ m_queue = << >> THEN m_queue ELSE Tail(m_queue), e)
  /\ accepted' = Append(accepted, e)
  /\ release
  /\ UNCHANGED <<m_size, acquired, delivered, rejected, nulls>>

push(e) ==
  /\ Len(accepted) + rejected < MaxPushes
  /\ \/ /\ Len(m_queue) < m_size
        /\ m_queue' = Append(m_queue, e)
        /\ accepted' = Append(accepted, e)
        /\ UNCHANGED rejected
     \/ /\ Len(m_queue) >= m_size
        /\ rejected' = rejected + 1
        /\ UNCHANGED <<m_queue, accepted>>
  /\ release
  /\ UNCHANGED <<m_size, acquired, delivered, nulls>>

acquire(c) ==
  /\ c \notin acquired
  /\ m_count > 0
  /\ m_count' = m_count - 1
  /\ acquired' = acquired \cup {c}
  /\ UNCHANGED <<m_queue, m_size, accepted, delivered, rejected, nulls>>

popLocked(c) ==
  /\ c \in acquired
  /\ acquired' = acquired \ {c}
  /\ \/ /\ m_queue # << >>
        /\ m_queue' = Tail(m_queue)
        /\ delivered' = Append(delivered, Head(m_queue))
        /\ UNCHANGED nulls
     \/ /\ m_queue = << >>
        /\ nulls' = nulls + 1
        /\ UNCHANGED <<m_queue, delivered>>
  /\ UNCHANGED <<m_size, m_count, accepted, rejected>>

\* A worker thread announces the configured capacity when it starts, without
\* taking the mutex and whatever the queue already holds.
setSize ==
  /\ m_size' = ConfigSize
  /\ UNCHANGED <<m_queue, m_count, acquired, accepted, delivered, rejected, nulls>>

Next ==
  \/ \E e \in Elements : push(e)
  \/ \E c \in Consumers : acquire(c) \/ popLocked(c)
  \/ setSize

Spec == Init /\ [][Next]_vars

\* A worker thread loops on pop(); the scheduler runs each of them.
Fairness == \A c \in Consumers : WF_vars(acquire(c)) /\ WF_vars(popLocked(c))

FairSpec == Spec /\ Fairness
-----------------------------------------------------------------------------
(* Properties *)

\* Every variable of the queue and of its semaphore holds a value of its type.
TypeOK ==
  /\ m_queue \in Seq(Elements)
  /\ m_size \in {DefaultSize, ConfigSize}
  /\ m_count \in Nat
  /\ acquired \in SUBSET Consumers
  /\ accepted \in Seq(Elements)
  /\ delivered \in Seq(Elements)
  /\ rejected \in Nat
  /\ nulls \in Nat

\* ThreadSafeQueue::push/pop: every queued element has a token that will make
\* some consumer fetch it, held by the semaphore or by a consumer that is past
\* acquire().  If it failed, an element could stay queued while every consumer
\* sleeps.
NoStrandedElement == Len(m_queue) <= m_count + Cardinality(acquired)

\* ThreadSafeQueue::pop returns NULL only as the after-effect of a refused
\* push(): the worker threads take a NULL for a stop request, so a NULL that
\* no refusal explains would stop them.
NullsComeFromRejections == nulls <= rejected

\* The exact account of tokens that the two properties above follow from: each
\* push() made one, and each token is in the semaphore, held by a consumer, or
\* was spent on an element or on a NULL.
TokenAccount ==
  Len(accepted) + rejected
    = m_count + Cardinality(acquired) + Len(delivered) + nulls

\* The accepted elements are the delivered ones followed by the queued ones.
HistoryAccount ==
  /\ Len(accepted) = Len(delivered) + Len(m_queue)
  /\ \A i \in 1..Len(delivered) : delivered[i] = accepted[i]
  /\ \A i \in 1..Len(m_queue) : m_queue[i] = accepted[Len(delivered) + i]

\* The inductive invariant of the proofs.
IInv == TypeOK /\ TokenAccount /\ HistoryAccount /\ NoStrandedElement

\* push/pop implement the lossy FIFO the pipeline relies on.
Fifo == INSTANCE LossyFifo WITH
          Elements <- Elements, accepted <- accepted, delivered <- delivered
RefinesFifo == Fifo!Spec

\* Under the fairness of the worker threads' loops, every accepted element is
\* eventually returned by some pop().
EveryElementDelivered ==
  \A n \in 1..MaxPushes : Len(accepted) >= n ~> Len(delivered) >= n
=============================================================================
