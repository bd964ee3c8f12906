-------------------------- MODULE IpFragmentation --------------------------
(***************************************************************************)
(* Reassembly of IP fragments (IpFragmentation.cpp).  The fragments of a   *)
(* datagram are kept in a map by the 16-bit identification alone, sorted   *)
(* by offset, until they add up; what has not been added to for a while is *)
(* swept away, but only when some fragment comes in.                       *)
(*                                                                         *)
(* A fragment is a record with the fields id, off (the offset), len (the   *)
(* payload), last, and the history fields datagram (the one it is of), n   *)
(* (its number among the arrivals) and at (when it arrived).               *)
(***************************************************************************)
EXTENDS Naturals, Sequences, FiniteSets, SequencesExt

CONSTANTS
  PacketIds,       \* identifications of IP datagrams
  TimeoutSec       \* 60 seconds, in ticks of the clock

ASSUME TimeoutAssumption == TimeoutSec \in Nat \ {0}

\* A WaitAllAndSortAlgorithm.
NewFragments ==
  [ordered |-> << >>, finalSize |-> 0, currentSize |-> 0,
   drop |-> FALSE, complete |-> FALSE, lastUpdate |-> 0]

NoFragments == [NewFragments EXCEPT !.drop = TRUE]

\* The map and lastCheck; time(NULL) is far from 0 when the program starts.
EmptyMap == [byId |-> [id \in PacketIds |-> NoFragments], lastCheck |-> 0]

Size(ordered) == FoldSeq(LAMBDA f, size : size + f.len, 0, ordered)

\* ForwardSequentialAlgorithm: the fragments follow each other from 0 on.
Sequential(ordered) ==
  \A i \in 1..Len(ordered) : ordered[i].off = Size(SubSeq(ordered, 1, i - 1))

\* Slip: fragments are kept as they come.
addFragmentLast(e, f, now) ==
  LET added == [e EXCEPT !.ordered = Append(@, f),
                         !.finalSize = IF f.last THEN f.off + f.len ELSE @,
                         !.currentSize = @ + f.len]
  IN IF \E i \in 1..Len(e.ordered) : e.ordered[i].off = f.off THEN e
     ELSE IF added.currentSize # added.finalSize THEN [added EXCEPT !.lastUpdate = now]
     ELSE IF Sequential(added.ordered)
     THEN [added EXCEPT !.complete = TRUE, !.lastUpdate = now]
     ELSE [added EXCEPT !.drop = TRUE]

\* One more fragment at its place.  One with the offset of another is a
\* retransmission, and does not count as an update.
addFragment(e, f, now) ==
  LET before == Cardinality({i \in 1..Len(e.ordered) : e.ordered[i].off < f.off})
      added == [e EXCEPT !.ordered = InsertAt(@, before + 1, f),
                         !.finalSize = IF f.last THEN f.off + f.len ELSE @,
                         !.currentSize = @ + f.len]
  IN IF \E i \in 1..Len(e.ordered) : e.ordered[i].off = f.off THEN e
     ELSE IF added.finalSize # 0 /\ added.currentSize > added.finalSize
     THEN [added EXCEPT !.drop = TRUE]
     ELSE IF added.currentSize = added.finalSize
     THEN IF Sequential(added.ordered)
          THEN [added EXCEPT !.complete = TRUE, !.lastUpdate = now]
          ELSE [added EXCEPT !.drop = TRUE]
     ELSE [added EXCEPT !.lastUpdate = now]

\* Slip: a sweep that comes too early counts all the same.
SweepPostponed(map, now) ==
  [byId |-> [id \in PacketIds |->
               IF now - map.lastCheck >= TimeoutSec
                  /\ now - map.byId[id].lastUpdate >= TimeoutSec
               THEN NoFragments ELSE map.byId[id]],
   lastCheck |-> now]

\* At most once in TimeoutSec the old ones are deleted.
Sweep(map, now) ==
  IF now - map.lastCheck < TimeoutSec THEN map
  ELSE [byId |-> [id \in PacketIds |->
                    IF now - map.byId[id].lastUpdate >= TimeoutSec
                    THEN NoFragments ELSE map.byId[id]],
        lastCheck |-> now]

\* What stays in the map after a fragment.
Kept(e) == IF e.drop \/ e.complete THEN NoFragments ELSE e

\* The map after fragment f, and the fragments of the datagram it completes.
HandleIpFragment(map, f, now) ==
  LET swept == Sweep(map, now)
      found == IF swept.byId[f.id] = NoFragments THEN NewFragments ELSE swept.byId[f.id]
      e == addFragment(found, f, now)
  IN [map |-> [swept EXCEPT !.byId[f.id] = Kept(e)],
      packet |-> IF e.complete THEN e.ordered ELSE << >>]
=============================================================================
