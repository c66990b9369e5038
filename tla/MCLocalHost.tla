------------------------------ MODULE MCLocalHost ------------------------------
(***************************************************************************)
(* What the Bridge does on its own host: the shared relay, the Skill       *)
(* directory of a client and the authentication of the requests, which     *)
(* share no state.  A behaviour moves one of them, its focus, and leaves   *)
(* the others in an initial state, so that one run explores the three      *)
(* without their product.                                                  *)
(***************************************************************************)
EXTENDS RelayRuntime, SkillRoot, RequestAuth

CONSTANTS r1, r2, t1, t2, a, b, v1, v2
VARIABLE focus

hostVars == <<relayVars, skillVars, authVars, focus>>

MCManifests == {[run |-> r1, route |-> t1], [run |-> r1, route |-> t2],
                [run |-> r2, route |-> t2]}
MCBudgets == {[faults |-> 1, edits |-> 1, commands |-> 1],
              [faults |-> 4, edits |-> 0, commands |-> 0],
              [faults |-> 0, edits |-> 1, commands |-> 2]}

MCSkillSets == {[n \in Names |-> IF n = a THEN v1 ELSE Absent],
                [n \in Names |-> IF n = b THEN v2 ELSE IF n = a THEN v2 ELSE Absent]}
MCSkillBudgets == {[faults |-> 2, edits |-> 1, commands |-> 1, collections |-> 0],
                   [faults |-> 1, edits |-> 0, commands |-> 2, collections |-> 1]}

\* The relay starts with the manifest from which one of the others changes
\* the routing and the other one everything.  A part that does not move starts
\* in one state.
RelayAtFirst == desired = [run |-> r1, route |-> t1]
RelayAtRest == admin /\ budget = [faults |-> 1, edits |-> 1, commands |-> 1]
SkillAtRest == /\ root = [n \in Names |-> IF n = a THEN v1 ELSE Absent]
               /\ purse = [faults |-> 2, edits |-> 1, commands |-> 1, collections |-> 0]

HostInit ==
    /\ focus \in {"relay", "skills", "requests"}
    /\ RelayInit /\ SkillInit /\ AuthInit
    /\ RelayAtFirst
    /\ focus # "relay" => RelayAtRest
    /\ focus # "skills" => SkillAtRest

HostNext ==
    \/ focus = "relay" /\ RelayNext /\ UNCHANGED <<skillVars, authVars, focus>>
    \/ focus = "skills" /\ SkillNext /\ UNCHANGED <<relayVars, authVars, focus>>
    \/ focus = "requests" /\ AuthNext /\ UNCHANGED <<relayVars, skillVars, focus>>

\* RelayFairness and SkillFairness of the part that moves.
HostFairness ==
    /\ WF_relayVars(focus = "relay" /\ BridgeStep) /\ WF_relayVars(focus = "relay" /\ Finish)
    /\ SF_relayVars(focus = "relay" /\ ClaimReconcile)
    /\ WF_relayVars(focus = "relay" /\ RetryComesDue)
    /\ WF_relayVars(focus = "relay" /\ ProbeComesDue)
    /\ WF_skillVars(focus = "skills" /\ SkillStep) /\ WF_skillVars(focus = "skills" /\ GcStep)
    /\ WF_skillVars(focus = "skills" /\ SkillReconcile)

HostSpec == HostInit /\ [][HostNext]_hostVars /\ HostFairness
-----------------------------------------------------------------------------
\* The three parts keep their types: requests and places belong together, the
\* counted failures of the relay stay within its three retries, and no nonce
\* is remembered from the future.
HostTypeOK == RelayTypeOK /\ SkillTypeOK /\ AuthTypeOK
=============================================================================
