---------------------------- MODULE MCServerSession ----------------------------
(***************************************************************************)
(* Small instances of ServerSession.                                       *)
(***************************************************************************)
EXTENDS ServerSession

\* Below zero (never ready to send), zero (ready with one frame, sends none),
\* and two real sizes.
MCBlockSizes == {-1, 0, 1, 2}

\* A ready buffer must be reachable whatever the panel says.
MCOneBlockSize == {1}

================================================================================
