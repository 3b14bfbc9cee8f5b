-------------------------- MODULE MCPass2Workers ---------------------------
(***************************************************************************)
(* Instances of module Pass2Workers for TLC: the constants are given in    *)
(* the configuration files.                                                *)
(***************************************************************************)
EXTENDS Pass2Workers
=============================================================================
