----------------------------- MODULE MCReceiveBuffer -----------------------------
(***************************************************************************)
(* A small instance of ReceiveBuffer.  All nodes are alike.                *)
(***************************************************************************)
EXTENDS ReceiveBuffer, TLC

Alike == Permutations(Pool)

================================================================================
