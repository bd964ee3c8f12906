----------------------- MODULE ThreadSafeQueueProofs -----------------------
(***************************************************************************)
(* Proofs about ThreadSafeQueue for every set of elements, every finite    *)
(* set of consumer threads and every capacity.                             *)
(***************************************************************************)
EXTENDS ThreadSafeQueue, FiniteSetTheorems, TLAPS

\* The number of consumers past acquire() is a natural number, grows by one
\* when a consumer acquires and shrinks by one when it takes the mutex.
LEMMA AcquiredCount ==
  ASSUME acquired \in SUBSET Consumers
  PROVE  /\ Cardinality(acquired) \in Nat
         /\ \A c \in Consumers \ acquired :
              Cardinality(acquired \cup {c}) = Cardinality(acquired) + 1
         /\ \A c \in acquired :
              /\ Cardinality(acquired \ {c}) = Cardinality(acquired) - 1
              /\ Cardinality(acquired) > 0
<1>1. IsFiniteSet(acquired)
  BY ConsumersFinite, FS_Subset
<1>2. Cardinality(acquired) \in Nat
  BY <1>1, FS_CardinalityType
<1>3. ASSUME NEW c \in Consumers \ acquired
      PROVE  Cardinality(acquired \cup {c}) = Cardinality(acquired) + 1
  BY <1>1, <1>3, FS_AddElement
<1>4. ASSUME NEW c \in acquired
      PROVE  /\ Cardinality(acquired \ {c}) = Cardinality(acquired) - 1
             /\ Cardinality(acquired) > 0
  <2>1. Cardinality(acquired \ {c}) = Cardinality(acquired) - 1
    BY <1>1, <1>4, FS_RemoveElement
  <2>2. acquired # {}
    BY <1>4
  <2>3. Cardinality(acquired) # 0
    BY <1>1, <2>2, FS_EmptySet
  <2>4. QED
    BY <1>2, <2>1, <2>3
<1>5. QED
  BY <1>2, <1>3, <1>4

\* The constructor's state satisfies the inductive invariant.
LEMMA InitIInv == Init => IInv
<1> SUFFICES ASSUME Init PROVE IInv
  OBVIOUS
<1>1. Cardinality(acquired) = 0
  BY FS_EmptySet DEF Init
<1>2. TypeOK
  BY SizesAreNat DEF Init, TypeOK
<1>3. TokenAccount /\ HistoryAccount /\ NoStrandedElement
  BY <1>1 DEF Init, TokenAccount, HistoryAccount, NoStrandedElement
<1>4. QED
  BY <1>2, <1>3 DEF IInv

\* ThreadSafeQueue::push keeps the inductive invariant, in both of its cases.
LEMMA PushIInv ==
  ASSUME IInv, NEW e \in Elements, push(e)
  PROVE  IInv'
<1> USE DEF IInv, TypeOK
<1>1. Cardinality(acquired) \in Nat
  BY AcquiredCount
<1>2. CASE /\ Len(m_queue) < m_size
           /\ m_queue' = Append(m_queue, e)
           /\ accepted' = Append(accepted, e)
           /\ UNCHANGED rejected
  <2>1. Len(m_queue') = Len(m_queue) + 1 /\ Len(accepted') = Len(accepted) + 1
    BY <1>2
  <2>2. TypeOK'
    BY <1>2 DEF push, release
  <2>3. TokenAccount' /\ NoStrandedElement'
    <3>1. Cardinality(acquired)' = Cardinality(acquired) /\ m_count' = m_count + 1
          /\ UNCHANGED <<delivered, nulls, rejected>>
      BY <1>2 DEF push, release
    <3>2. /\ Len(delivered) \in Nat /\ Len(accepted) \in Nat /\ Len(m_queue) \in Nat
          /\ m_count \in Nat /\ rejected \in Nat /\ nulls \in Nat
          /\ TokenAccount /\ NoStrandedElement
      OBVIOUS
    <3> HIDE DEF IInv, TypeOK
    <3>3. TokenAccount'
      BY <1>1, <2>1, <3>1, <3>2, SMTT(30) DEF TokenAccount
    <3>4. NoStrandedElement'
      BY <1>1, <2>1, <3>1, <3>2 DEF NoStrandedElement
    <3>5. QED
      BY <3>3, <3>4
  <2>4. HistoryAccount'
    <3>1. \A i \in 1..Len(accepted) : accepted'[i] = accepted[i]
      BY <1>2
    <3>2. accepted'[Len(accepted) + 1] = e
      BY <1>2
    <3>3. \A i \in 1..Len(m_queue) : m_queue'[i] = m_queue[i]
      BY <1>2
    <3>4. m_queue'[Len(m_queue) + 1] = e
      BY <1>2
    <3>5. delivered' = delivered /\ Len(delivered) \in Nat /\ Len(m_queue) \in Nat
          /\ Len(accepted) = Len(delivered) + Len(m_queue)
      BY DEF push, HistoryAccount
    <3>6. \A i \in 1..Len(delivered') : delivered'[i] = accepted'[i]
      BY <3>1, <3>5 DEF HistoryAccount
    <3>7. ASSUME NEW i \in 1..Len(m_queue')
          PROVE  m_queue'[i] = accepted'[Len(delivered') + i]
      <4>1. CASE i \in 1..Len(m_queue)
        BY <3>1, <3>3, <3>5, <4>1 DEF HistoryAccount
      <4>2. CASE i = Len(m_queue) + 1
        BY <3>2, <3>4, <3>5, <4>2
      <4>3. QED
        BY <2>1, <3>5, <4>1, <4>2
    <3>8. QED
      BY <2>1, <3>5, <3>6, <3>7 DEF HistoryAccount
  <2>5. QED
    BY <2>2, <2>3, <2>4
<1>3. CASE /\ Len(m_queue) >= m_size
           /\ rejected' = rejected + 1
           /\ UNCHANGED <<m_queue, accepted>>
  <2>1. TypeOK'
    BY <1>3 DEF push, release
  <2>2. TokenAccount' /\ NoStrandedElement'
    BY <1>1, <1>3 DEF push, release, TokenAccount, NoStrandedElement
  <2>3. HistoryAccount'
    BY <1>3 DEF push, HistoryAccount
  <2>4. QED
    BY <2>1, <2>2, <2>3
<1>4. QED
  BY <1>2, <1>3 DEF push

\* OrkSemaphore::acquire moves one token from the semaphore to the consumer.
LEMMA AcquireIInv ==
  ASSUME IInv, NEW c \in Consumers, acquire(c)
  PROVE  IInv'
<1> USE DEF IInv, TypeOK
<1>1. /\ Cardinality(acquired) \in Nat
      /\ Cardinality(acquired') = Cardinality(acquired) + 1
  BY AcquiredCount DEF acquire
<1>2. TypeOK'
  BY DEF acquire
<1>3. TokenAccount' /\ NoStrandedElement'
  <2>1. /\ Cardinality(acquired)' = Cardinality(acquired) + 1
        /\ m_count' = m_count - 1
        /\ UNCHANGED <<m_queue, accepted, delivered, rejected, nulls>>
    BY <1>1 DEF acquire
  <2>2. Len(delivered) \in Nat /\ Len(accepted) \in Nat /\ Len(m_queue) \in Nat
    OBVIOUS
  <2>3. QED
    BY <1>1, <2>1, <2>2 DEF TokenAccount, NoStrandedElement
<1>4. HistoryAccount'
  BY DEF acquire, HistoryAccount
<1>5. QED
  BY <1>2, <1>3, <1>4

\* The locked half of ThreadSafeQueue::pop spends the consumer's token on the
\* oldest element or, when there is none, on a NULL.
LEMMA PopIInv ==
  ASSUME IInv, NEW c \in Consumers, popLocked(c)
  PROVE  IInv'
<1> USE DEF IInv, TypeOK
<1>1. /\ Cardinality(acquired) \in Nat
      /\ Cardinality(acquired) > 0
      /\ Cardinality(acquired') = Cardinality(acquired) - 1
  BY AcquiredCount DEF popLocked
<1>2. CASE /\ m_queue # << >>
           /\ m_queue' = Tail(m_queue)
           /\ delivered' = Append(delivered, Head(m_queue))
           /\ UNCHANGED nulls
  <2>1. Len(m_queue) > 0 /\ Len(m_queue') = Len(m_queue) - 1
        /\ Len(delivered') = Len(delivered) + 1
    BY <1>2
  <2>2. TypeOK'
    BY <1>2 DEF popLocked
  <2>3. TokenAccount' /\ NoStrandedElement'
    <3>1. /\ Cardinality(acquired)' = Cardinality(acquired) - 1
          /\ UNCHANGED <<m_count, accepted, rejected, nulls>>
      BY <1>1, <1>2 DEF popLocked
    <3>2. /\ Len(delivered) \in Nat /\ Len(accepted) \in Nat /\ Len(m_queue) \in Nat
          /\ m_count \in Nat /\ rejected \in Nat /\ nulls \in Nat
          /\ TokenAccount /\ NoStrandedElement
      OBVIOUS
    <3> HIDE DEF IInv, TypeOK
    <3>3. TokenAccount'
      <4>1. Len(accepted)' + rejected' = Len(accepted) + rejected
        BY <3>1
      <4>2. Len(delivered)' = Len(delivered) + 1 /\ m_count' = m_count /\ nulls' = nulls
        BY <2>1, <3>1
      <4>3. Len(accepted) + rejected = m_count + Cardinality(acquired) + Len(delivered) + nulls
        BY <3>2 DEF TokenAccount
      <4>4. Len(accepted)' + rejected'
              = m_count' + Cardinality(acquired)' + Len(delivered)' + nulls'
        <5>1. \A t, m, a, d, n \in Nat :
                a > 0 /\ t = m + a + d + n => t = m + (a - 1) + (d + 1) + n
          OBVIOUS
        <5>2. Len(accepted) + rejected
                = m_count + (Cardinality(acquired) - 1) + (Len(delivered) + 1) + nulls
          <6>1. Len(accepted) + rejected \in Nat
            BY <3>2
          <6>2. QED
            BY <1>1, <3>2, <4>3, <5>1, <6>1, SMTT(30)
        <5>3. QED
          BY <3>1, <4>1, <4>2, <5>2
      <4>5. QED
        BY <4>4 DEF TokenAccount
    <3>4. NoStrandedElement'
      BY <1>1, <2>1, <3>1, <3>2 DEF NoStrandedElement
    <3>5. QED
      BY <3>3, <3>4
  <2>4. HistoryAccount'
    <3>1. \A i \in 1..Len(delivered) : delivered'[i] = delivered[i]
      BY <1>2
    <3>2. delivered'[Len(delivered) + 1] = m_queue[1]
      BY <1>2
    <3>3. \A i \in 1..Len(m_queue') : m_queue'[i] = m_queue[i + 1]
      BY <1>2
    <3>4. accepted' = accepted /\ Len(delivered) \in Nat /\ Len(m_queue) \in Nat
          /\ Len(accepted) = Len(delivered) + Len(m_queue)
      BY DEF popLocked, HistoryAccount
    <3>5. m_queue[1] = accepted[Len(delivered) + 1]
      BY <2>1, <3>4 DEF HistoryAccount
    <3>6. ASSUME NEW i \in 1..Len(delivered')
          PROVE  delivered'[i] = accepted'[i]
      <4>1. CASE i \in 1..Len(delivered)
        BY <3>1, <3>4, <4>1 DEF HistoryAccount
      <4>2. CASE i = Len(delivered) + 1
        BY <3>2, <3>4, <3>5, <4>2
      <4>3. QED
        BY <2>1, <3>4, <4>1, <4>2
    <3>7. ASSUME NEW i \in 1..Len(m_queue')
          PROVE  m_queue'[i] = accepted'[Len(delivered') + i]
      <4>1. i + 1 \in 1..Len(m_queue)
        BY <2>1, <3>4
      <4>2. m_queue[i + 1] = accepted[Len(delivered) + (i + 1)]
        BY <4>1 DEF HistoryAccount
      <4>3. Len(delivered') + i = Len(delivered) + (i + 1)
        BY <2>1, <3>4
      <4>4. QED
        BY <3>3, <3>4, <4>2, <4>3
    <3> HIDE DEF IInv, TypeOK
    <3>8. Len(accepted') = Len(delivered') + Len(m_queue')
      BY <2>1, <3>4
    <3>9. QED
      BY <3>6, <3>7, <3>8 DEF HistoryAccount
  <2>5. QED
    BY <2>2, <2>3, <2>4
<1>3. CASE /\ m_queue = << >>
           /\ nulls' = nulls + 1
           /\ UNCHANGED <<m_queue, delivered>>
  <2>1. Len(m_queue) = 0
    BY <1>3
  <2>2. TypeOK'
    BY <1>3 DEF popLocked
  <2>3. TokenAccount' /\ NoStrandedElement'
    BY <1>1, <1>3, <2>1 DEF popLocked, TokenAccount, NoStrandedElement
  <2>4. HistoryAccount'
    BY <1>3 DEF popLocked, HistoryAccount
  <2>5. QED
    BY <2>2, <2>3, <2>4
<1>4. QED
  BY <1>2, <1>3 DEF popLocked

\* setSize() and stuttering steps leave the account of tokens alone.
LEMMA SetSizeIInv ==
  ASSUME IInv, setSize \/ UNCHANGED vars
  PROVE  IInv'
BY DEF IInv, TypeOK, TokenAccount, HistoryAccount, NoStrandedElement, setSize, vars

\* IInv is an invariant of the queue.
THEOREM Invariance == Spec => []IInv
<1>1. IInv /\ [Next]_vars => IInv'
  <2> SUFFICES ASSUME IInv, [Next]_vars PROVE IInv'
    OBVIOUS
  <2>1. ASSUME NEW e \in Elements, push(e) PROVE IInv'
    BY <2>1, PushIInv
  <2>2. ASSUME NEW c \in Consumers, acquire(c) PROVE IInv'
    BY <2>2, AcquireIInv
  <2>3. ASSUME NEW c \in Consumers, popLocked(c) PROVE IInv'
    BY <2>3, PopIInv
  <2>4. CASE setSize \/ UNCHANGED vars
    BY <2>4, SetSizeIInv
  <2>5. QED
    BY <2>1, <2>2, <2>3, <2>4 DEF Next
<1>2. QED
  BY InitIInv, <1>1, PTL DEF Spec

\* ThreadSafeQueue: no element is ever queued without a token that will make a
\* consumer fetch it, however many threads push and pop.
THEOREM NoStranding == Spec => []NoStrandedElement
<1>1. IInv => NoStrandedElement
  BY DEF IInv
<1>2. QED
  BY Invariance, <1>1, PTL

\* ThreadSafeQueue::pop: there are never more NULL results than refused
\* push() calls.
THEOREM NullsBounded == Spec => []NullsComeFromRejections
<1>1. IInv => NullsComeFromRejections
  <2> SUFFICES ASSUME IInv PROVE nulls <= rejected
    BY DEF NullsComeFromRejections
  <2>1. Cardinality(acquired) \in Nat
    BY AcquiredCount DEF IInv, TypeOK
  <2>2. Len(m_queue) \in Nat /\ Len(accepted) \in Nat /\ Len(delivered) \in Nat
    BY DEF IInv, TypeOK
  <2>3. QED
    BY <2>1, <2>2 DEF IInv, TypeOK, TokenAccount, HistoryAccount, NoStrandedElement
<1>2. QED
  BY Invariance, <1>1, PTL

\* push() and pop() implement the lossy FIFO: what is delivered is what was
\* accepted, once each and in order.
THEOREM Refinement == Spec => RefinesFifo
<1>1. Init => Fifo!Init
  BY DEF Init, Fifo!Init
<1>2. IInv /\ [Next]_vars => [Fifo!Next]_Fifo!vars
  <2> SUFFICES ASSUME IInv, [Next]_vars PROVE [Fifo!Next]_Fifo!vars
    OBVIOUS
  <2>1. ASSUME NEW e \in Elements, push(e) PROVE Fifo!Next \/ UNCHANGED Fifo!vars
    BY <2>1 DEF push, Fifo!Next, Fifo!Accept, Fifo!vars
  <2>2. ASSUME NEW c \in Consumers, acquire(c) PROVE UNCHANGED Fifo!vars
    BY <2>2 DEF acquire, Fifo!vars
  <2>3. ASSUME NEW c \in Consumers, popLocked(c) PROVE Fifo!Next \/ UNCHANGED Fifo!vars
    <3>1. CASE m_queue = << >>
      BY <2>3, <3>1 DEF popLocked, Fifo!vars
    <3>2. CASE m_queue # << >>
      <4>1. Len(m_queue) > 0
        BY <3>2 DEF IInv, TypeOK
      <4>2. /\ Len(delivered) < Len(accepted)
            /\ Head(m_queue) = accepted[Len(delivered) + 1]
        BY <4>1 DEF IInv, TypeOK, HistoryAccount
      <4>3. Fifo!Deliver
        BY <2>3, <3>2, <4>2 DEF popLocked, Fifo!Deliver
      <4>4. QED
        BY <4>3 DEF Fifo!Next
    <3>3. QED
      BY <3>1, <3>2
  <2>4. CASE setSize \/ UNCHANGED vars
    BY <2>4 DEF setSize, vars, Fifo!vars
  <2>5. QED
    BY <2>1, <2>2, <2>3, <2>4 DEF Next
<1>3. QED
  BY Invariance, <1>1, <1>2, PTL DEF Spec, RefinesFifo, Fifo!Spec
=============================================================================
