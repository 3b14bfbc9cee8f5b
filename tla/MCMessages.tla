----------------------------- MODULE MCMessages -----------------------------
(***************************************************************************)
(* Instances of module Messages for TLC.                                   *)
(***************************************************************************)
EXTENDS Messages

MCMaxSent == [main |-> 2, bg |-> 2]
=============================================================================
