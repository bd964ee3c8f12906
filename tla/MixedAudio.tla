----------------------------- MODULE MixedAudio -----------------------------
(***************************************************************************)
(* What the mixer of a call promises to the writer of its storage file:    *)
(* every packet it takes is laid on one line of places at the place of its *)
(* first sample, its samples side by side, and the line is played in order *)
(* and only once.  The one loss is that of a line that grows to exactly    *)
(* Capacity places.                                                        *)
(***************************************************************************)
EXTENDS Naturals, Sequences

CONSTANTS
  Capacity,
  Packets      \* records with the fields id and n

VARIABLES
  line,        \* places taken and not played, each the set of its samples
  played       \* places played

vars == <<line, played>>

Init == line = << >> /\ played = << >>

Samples(l) == UNION {l[i] : i \in 1..Len(l)}

\* A packet is laid only once.
Fresh(c) == \A s \in Samples(line) \cup Samples(played) : s[1] # c.id

\* Packet c laid on line l from place first on, after silence if need be, and in
\* place of the samples of the packets over.
Laid(l, c, first, over) ==
  LET end == first + c.n - 1 IN
    [i \in 1..(IF end > Len(l) THEN end ELSE Len(l)) |->
       IF i \in first..end
       THEN {<<c.id, i - first + 1>>}
              \cup {s \in IF i <= Len(l) THEN l[i] ELSE {} : s[1] \notin over}
       ELSE IF i <= Len(l) THEN l[i] ELSE {}]

\* A packet is laid on the line, and some of the line is played.
Mix ==
  \E c \in {p \in Packets : Fresh(p)} :
    /\ <<c.id, 1>> \in Samples(line') \cup Samples(played')
    /\ Len(played') >= Len(played)
    /\ \E first \in 1..(Capacity - c.n) :
         \E over \in SUBSET {s[1] : s \in Samples(line)} :
           played' \o line' = played \o Laid(line, c, first, over)

\* A packet that ends at the last of Capacity places makes the line forgotten.
Overflow ==
  /\ \E c \in Packets, first \in 1..Capacity :
       Fresh(c) /\ Len(line) < first + c.n - 1 /\ first + c.n - 1 = Capacity
  /\ line' = << >>
  /\ UNCHANGED played

\* Some of the line is played.
Play ==
  /\ Len(played') >= Len(played)
  /\ played' \o line' = played \o line

\* The whole line is played, and a packet begins a new one.
Restart ==
  /\ played' = played \o line
  /\ \E c \in {p \in Packets : Fresh(p)} : line' = Laid(<< >>, c, 1, {})

Next == Mix \/ Overflow \/ Play \/ Restart

Spec == Init /\ [][Next]_vars
=============================================================================
