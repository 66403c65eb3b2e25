-------------------------------- MODULE MCStream -------------------------------
(***************************************************************************)
(* Small instances of Stream: the configurations give every constant a     *)
(* number, so that nothing is defined here.                                *)
(***************************************************************************)
EXTENDS Stream

================================================================================
