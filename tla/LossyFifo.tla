----------------------------- MODULE LossyFifo -----------------------------
(***************************************************************************)
(* What the pipeline expects of the queue between two of its stages        *)
(* (ThreadSafeQueue.h): an element offered to it is either refused or      *)
(* accepted, and the accepted ones are delivered once each, in the order   *)
(* in which they were accepted.  Nothing is said about when.               *)
(***************************************************************************)
EXTENDS Naturals, Sequences

CONSTANT Elements

VARIABLES
  accepted,   \* every element push() returned true for, oldest first
  delivered   \* every element some pop() returned, oldest first

vars == <<accepted, delivered>>

Init ==
  /\ accepted  = << >>
  /\ delivered = << >>

Accept(e) ==
  /\ accepted' = Append(accepted, e)
  /\ UNCHANGED delivered

Deliver ==
  /\ Len(delivered) < Len(accepted)
  /\ delivered' = Append(delivered, accepted[Len(delivered) + 1])
  /\ UNCHANGED accepted

Next == (\E e \in Elements : Accept(e)) \/ Deliver

Spec == Init /\ [][Next]_vars
=============================================================================
