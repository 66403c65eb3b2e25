---------------------------- MODULE MCClientSession ----------------------------
(***************************************************************************)
(* Small instances of ClientSession.                                       *)
(***************************************************************************)
EXTENDS ClientSession

\* Below zero (never an overflow), zero (an overflow with one frame), and more
\* than the longest block needs.
MCPanelSizes == {-1, 0, 9}

================================================================================
