---------------------------- MODULE PolicyRules ----------------------------
(***************************************************************************)
(* Pass 1 from expansion of groups up to ACLs of routers: the steps of     *)
(* SpocMain in spoc.go that handle rules.  The check for redundant rules   *)
(* runs in background.                                                     *)
(***************************************************************************)
EXTENDS PrintRoutes

objectVars == <<prtVars, hostVars>>
outputVars == <<distributeVars, routeVars, printed>>
ruleVars == <<pathVars, redundantVars, localVars, superVars, outputVars>>
vars == <<policy, step, netVars, objectVars, subnetVars, groupVars, serviceVars, ruleVars>>

Init ==
  /\ policy \in Policies
  /\ step = "protocols"
  /\ InitPrt /\ InitSubnets /\ InitGroups /\ InitServices /\ InitHosts
  /\ InitRules /\ InitRedundant /\ InitLocal /\ InitSupernet /\ InitDistribute
  /\ InitRoutes /\ InitPrint

Next ==
  /\ UNCHANGED policy
  /\ \/ NextPrt /\ UNCHANGED <<netVars, hostVars, subnetVars, groupVars, serviceVars, ruleVars>>
     \/ NextSubnets /\ UNCHANGED <<objectVars, groupVars, serviceVars, ruleVars>>
     \/ NextServices /\ UNCHANGED <<objectVars, subnetVars, ruleVars>>
     \/ NextHosts /\ UNCHANGED <<prtVars, netVars, subnetVars, groupVars, serviceVars, ruleVars>>
     \/ /\ UNCHANGED <<netVars, objectVars, subnetVars, groupVars, serviceVars>>
        /\ \/ NextPathRules /\ UNCHANGED <<redundantVars, localVars, superVars, outputVars>>
           \/ (CheckRedundantRules \/ CollectMessages) /\ UNCHANGED <<pathVars, localVars, superVars, outputVars>>
           \/ MarkManagedLocal /\ UNCHANGED <<pathVars, redundantVars, superVars, outputVars>>
           \/ NextSupernet /\ UNCHANGED <<pathVars, redundantVars, localVars, outputVars>>
           \/ /\ UNCHANGED <<pathVars, redundantVars, localVars, superVars>>
              /\ \/ NextRoutes /\ UNCHANGED <<distributeVars, printed>>
                 \/ NextDistribute /\ UNCHANGED <<routeVars, printed>>
                 \/ PrintRoutes /\ UNCHANGED <<distributeVars, routeVars>>

\* The program ends.
Finished == step \in {"done", "stopped"} /\ UNCHANGED vars

Spec == Init /\ [][Next \/ Finished]_vars
=============================================================================
