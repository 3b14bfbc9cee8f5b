----------------------------- MODULE MCCodeDir -----------------------------
(***************************************************************************)
(* Instances of module CodeDir for TLC.                                    *)
(***************************************************************************)
EXTENDS CodeDir

CONSTANTS d1, d2, c1, c2, r1, r2

\* The policies differ in rules only, in both files, and in the devices.
MCPolicies ==
  { [d \in Devices |-> CASE d = d1 -> <<c1, r1>> [] d = d2 -> <<c1, r1>>],
    [d \in Devices |-> CASE d = d1 -> <<c1, r2>> [] d = d2 -> <<c1, r1>>],
    [d \in Devices |-> CASE d = d1 -> <<c2, r2>> [] d = d2 -> Nothing] }
=============================================================================
