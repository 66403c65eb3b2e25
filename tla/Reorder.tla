-------------------------------- MODULE Reorder --------------------------------
(***************************************************************************)
(* What the receiving end of a window protocol promises: segments numbered *)
(* 0, 1, 2, ... arrive in any order and more than once; those inside the   *)
(* window are kept, and they are handed over in order, each once.          *)
(***************************************************************************)
EXTENDS Integers, Sequences, FiniteSets

CONSTANT Windows

VARIABLES
    window,        \* how many may wait to be taken, and how far ahead is kept
    ready,         \* the numbers in order, waiting to be taken
    held,          \* the numbers that came too early
    following      \* the number that comes next after those ready

vars == <<window, ready, held, following>>

Init == window \in Windows /\ ready = <<>> /\ held = {} /\ following = 0

\* As many numbers as follow without a gap, and as the window has room for, join
\* those that stay ready; the others stay held.
Advance(kept, stay) ==
    \E n \in 0..Cardinality(kept) :
        LET run == following..(following + n - 1) IN
        /\ run \subseteq kept
        /\ n > 0 => Len(stay) + n <= window
        /\ following + n \in kept => Len(stay) + n >= window
        /\ following' = following + n
        /\ held' = kept \ run
        /\ ready' = stay \o [i \in 1..n |-> following + i - 1]

\* A number arrives: one inside the window is kept.
Arrive ==
    \E n \in following..(following + window - 1) :
        Advance(held \cup {n}, ready) /\ UNCHANGED window

\* The reader takes some numbers, which makes room for others.
Take ==
    \E n \in 1..Len(ready) :
        Advance(held, SubSeq(ready, n + 1, Len(ready))) /\ UNCHANGED window

Resize == window' \in Windows /\ UNCHANGED <<ready, held, following>>

\* The conversation ends and another one starts.
Restart == window' \in Windows /\ ready' = <<>> /\ held' = {} /\ following' = 0

Next == Arrive \/ Take \/ Resize \/ Restart

Spec == Init /\ [][Next]_vars

================================================================================
