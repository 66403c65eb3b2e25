------------------------------- MODULE LossyFifo -------------------------------
(***************************************************************************)
(* What one direction of a connection promises: the frames captured at one *)
(* end come out at the other in the order of their capture, none twice and *)
(* none that was not captured.  Frames may be lost, and silence may come   *)
(* out between them.                                                       *)
(***************************************************************************)
EXTENDS Naturals

VARIABLES
    captured,    \* number of frames captured so far; they are numbered from 1
    played       \* how many frames were played, and the number of the last one

FifoInit == captured = 0 /\ played = [times |-> 0, id |-> 0]

Capture == captured' = captured + 1 /\ played' = played

Play ==
    /\ \E id \in (played.id + 1)..captured :
          played' = [times |-> played.times + 1, id |-> id]
    /\ captured' = captured

FifoSpec == FifoInit /\ [][Capture \/ Play]_<<captured, played>>

================================================================================
