---------------------------- MODULE MCWebSession ----------------------------
(***************************************************************************)
(* An instance of WebSession for TLC.                                      *)
(***************************************************************************)
EXTENDS WebSession

CONSTANTS u1, u2, e1, e2, c1, c2, c3, c4, r1, r2

MCUser == {u1, u2}
MCEmail == {e1, e2}
MCCall == {c1, c2, c3, c4}
MCRequest == {r1, r2}
MCOtherOps == {"login", "logout", "create", "update", "remove"}
=============================================================================
