--------------------------------- MODULE MCKcp ---------------------------------
(***************************************************************************)
(* Small instances of Kcp: the configurations give every constant a value. *)
(***************************************************************************)
EXTENDS Kcp

================================================================================
