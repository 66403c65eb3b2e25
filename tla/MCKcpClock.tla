------------------------------- MODULE MCKcpClock -------------------------------
(***************************************************************************)
(* A small instance of KcpClock: the configuration gives every constant a  *)
(* value.                                                                  *)
(***************************************************************************)
EXTENDS KcpClock

================================================================================
