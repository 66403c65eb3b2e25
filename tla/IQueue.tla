--------------------------------- MODULE IQueue ---------------------------------
(***************************************************************************)
(* The intrusive lists of ikcp.h: rings of nodes linked both ways, each    *)
(* through a head that belongs to no segment.  A ring is a record of the   *)
(* functions next and prev; Null is the null pointer.                      *)
(***************************************************************************)
EXTENDS Integers, FiniteSets

CONSTANT Null

\* iqueue_init.
Single(ring, n) ==
    [next |-> [ring.next EXCEPT ![n] = n], prev |-> [ring.prev EXCEPT ![n] = n]]

\* iqueue_is_empty.
IsEmptyRing(ring, head) == ring.next[head] = head

\* iqueue_add: n comes right after at.
AddAfter(ring, n, at) ==
    LET follower == ring.next[at] IN
    [next |-> [ring.next EXCEPT ![n] = follower, ![at] = n],
     prev |-> [ring.prev EXCEPT ![n] = at, ![follower] = n]]

\* iqueue_add_tail: n comes right before head.
AddTail(ring, n, head) ==
    LET tail == ring.prev[head] IN
    [next |-> [ring.next EXCEPT ![n] = head, ![tail] = n],
     prev |-> [ring.prev EXCEPT ![n] = tail, ![head] = n]]

\* Mutant: only one of the two links around n is closed.
UnlinkForwards(ring, n) ==
    [next |-> [ring.next EXCEPT ![ring.prev[n]] = ring.next[n], ![n] = Null],
     prev |-> [ring.prev EXCEPT ![n] = Null]]

\* iqueue_del.
Unlink(ring, n) ==
    LET before == ring.prev[n]
        behind == ring.next[n]
    IN  [next |-> [ring.next EXCEPT ![before] = behind, ![n] = Null],
         prev |-> [ring.prev EXCEPT ![behind] = before, ![n] = Null]]

\* The nodes in the order of next, from the one after head up to head again.
Nodes(ring, head) ==
    LET most == Cardinality(DOMAIN ring.next)
        walk[k \in 0..most] ==
            IF k = 0 THEN head
            ELSE IF walk[k - 1] = Null THEN Null ELSE ring.next[walk[k - 1]]
        count == CHOOSE k \in 0..most :
                     /\ walk[k + 1] \in {head, Null} \/ k = most
                     /\ \A i \in 1..k : walk[i] \notin {head, Null}
    IN  [k \in 1..count |-> walk[k]]

================================================================================
