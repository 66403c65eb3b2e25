----------------------------- MODULE ReliableQueue -----------------------------
(***************************************************************************)
(* What a reliable transport promises: units of data, numbered in order,   *)
(* enter at one end and leave at the other in order, none of them lost or  *)
(* repeated.  They travel in pieces; where messages are kept apart, a      *)
(* message is a run of pieces numbered down to 0 and leaves as it entered. *)
(***************************************************************************)
EXTENDS Integers, SequencesExt

CONSTANT Whole     \* whether messages are kept apart

VARIABLES
    queue,         \* the pieces accepted and not yet handed over
    accepted       \* how many units were accepted so far

DataOf(pieces) == FlattenSeq([i \in 1..Len(pieces) |-> pieces[i].data])

IsMessage(m) == m # <<>> /\ \A i \in 1..Len(m) : m[i].frg = Len(m) - i

Init == queue = <<>> /\ accepted = 0

\* New units are added at the tail; those of a message in pieces of their own.
Enter ==
    /\ accepted' > accepted
    /\ DataOf(queue') = DataOf(queue) \o
           [i \in 1..(accepted' - accepted) |-> accepted + i - 1]
    /\ Whole => /\ IsPrefix(queue, queue')
                /\ IsMessage(SubSeq(queue', Len(queue) + 1, Len(queue')))

\* A message, or else any number of pieces, is taken from the head.
Leave ==
    LET n == Len(queue) - Len(queue') IN
    /\ accepted' = accepted
    /\ n > 0
    /\ Whole => IsMessage(SubSeq(queue, 1, n))
    /\ queue' = SubSeq(queue, n + 1, Len(queue))

Next == Enter \/ Leave

Spec == Init /\ [][Next]_<<queue, accepted>>

================================================================================
