----------------------------- MODULE CodeStore -----------------------------
(***************************************************************************)
(* What the compiler promises about the code of all devices, without any   *)
(* file: a run replaces the code of the last policy by that of the policy  *)
(* it compiles, all devices at once, or leaves it alone.  A run may fail   *)
(* either way: exit status 1 does not tell which code is there, but it is  *)
(* that of one policy.  Nothing is said of the code while a run is active  *)
(* or once a process has been killed.                                      *)
(*                                                                         *)
(* Module CodeDir implements this with two processes and two directories.  *)
(***************************************************************************)
CONSTANTS
  Devices,
  Policies,  \* functions on Devices
  Nothing    \* no code

VARIABLES
  wanted,    \* policy that is compiled
  mode,      \* "stable", "busy" or "unknown"
  code       \* code of each device, if stable

vars == <<wanted, mode, code>>

NoCode == [d \in Devices |-> Nothing]

Init ==
  /\ wanted \in Policies
  /\ mode = "stable"
  /\ code = NoCode

\* The run has found no error yet and starts to replace the code.
Replace ==
  /\ mode = "stable"
  /\ mode' = "busy"
  /\ code' = NoCode
  /\ UNCHANGED wanted

\* The run ends, with success or with errors found since it started to replace.
Commit ==
  /\ mode = "busy"
  /\ mode' = "stable"
  /\ code' = wanted
  /\ UNCHANGED wanted

\* A process has been killed.
Lose ==
  /\ mode' = "unknown"
  /\ code' = NoCode
  /\ UNCHANGED wanted

\* Another run is started, but never while one is active.
NextRun ==
  /\ mode # "busy"
  /\ wanted' \in Policies
  /\ UNCHANGED <<mode, code>>

Next == Replace \/ Commit \/ Lose \/ NextRun

Spec == Init /\ [][Next]_vars
=============================================================================
