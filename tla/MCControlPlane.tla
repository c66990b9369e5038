---------------------------- MODULE MCControlPlane ----------------------------
(***************************************************************************)
(* What the control plane keeps in its database beside the operation       *)
(* queue: relay governance, relay telemetry, Profiles with their preflight *)
(* tokens and bundles, the intake from local clients, and the import of a  *)
(* generation-1 configuration.  They meet only in the queue                *)
(* (OperationQueue).  A behaviour moves one of them, its focus, and leaves *)
(* the others in an initial state, so that one run explores the five       *)
(* without their product.                                                  *)
(***************************************************************************)
EXTENDS Governance, Telemetry, ProfileApply, Intake, ConfigMigration

CONSTANTS s1, x, y, z, u1
VARIABLE focus

planeVars == <<govVars, telVars, profVars, intakeVars, migVars, focus>>

Tool(sig) == [sig |-> sig, look |-> 1]
MCShapes == {[t \in {x} |-> Tool(1)], [t \in {y} |-> Tool(1)], [t \in {x} |-> Tool(2)],
             [t \in {y, z} |-> Tool(1)]}
MCGovBudgets == {[edits |-> 2, changes |-> 1, applies |-> 1, faults |-> 1],
                 [edits |-> 2, changes |-> 0, applies |-> 2, faults |-> 0]}

MCTelBudgets == {[calls |-> 3, applies |-> 1, faults |-> 1],
                 [calls |-> 3, applies |-> 0, faults |-> 2]}

MCParcels == {[name |-> First(ProfileNames), kind |-> "secrets",
               pins |-> [s \in Catalog |-> IF s = First(Catalog) THEN 1 ELSE 0]],
              [name |-> First(ProfileNames), pins |-> [s \in Catalog |-> 2], kind |-> "standard"]}
ProfBudget(e, l, p, b, r, f) == [edits |-> e, library |-> l, preflights |-> p,
                                 parcels |-> b, retries |-> r, faults |-> f]
MCProfBudgets == {ProfBudget(2, 0, 1, 0, 1, 1), ProfBudget(1, 1, 0, 2, 0, 0),
                  ProfBudget(1, 1, 1, 0, 0, 0)}

IntakeBudget(e, q, r, f) == [edits |-> e, requests |-> q, retries |-> r, faults |-> f]
MCIntakeBudgets == {IntakeBudget(1, 1, 1, 2), IntakeBudget(1, 2, 1, 1)}

Definition(b, t, d) == [base |-> b, transport |-> t, desired |-> d]
MCCompact == [i \in LegacyIds |-> <<5, i>>]
\* Configurations to import: a name used twice, one server, no Skills, broken.
MCLegacies ==
    {[servers |-> <<Definition(<<7>>, "http", FALSE), Definition(<<7>>, "streamable-http", TRUE)>>,
      secrets |-> <<0>>, skills |-> {"a"}, sound |-> TRUE],
     [servers |-> <<Definition(<<7>>, "stdio", FALSE)>>,
      secrets |-> <<0>>, skills |-> {"a"}, sound |-> TRUE],
     [servers |-> <<Definition(<<7>>, "http", FALSE)>>,
      secrets |-> <<0>>, skills |-> {}, sound |-> TRUE],
     [servers |-> <<>>, secrets |-> <<0>>, skills |-> {"a"}, sound |-> FALSE]}
\* All ways to name three definitions, a name that looks like a suffix included.
MCDrafts ==
    [servers : [LegacyIds -> {Definition(b, t, d) : b \in {<<7>>, <<7, 0>>, <<7, 7, 0, 0>>},
                                                    t \in {"http", "stdio"}, d \in BOOLEAN}],
     secrets : {<<>>}, skills : {{}}, sound : {FALSE}]
MigBudget(e, s, u) == [edits |-> e, stops |-> s, uses |-> u]
MCMigBudgets == {MigBudget(0, 0, 0), MigBudget(1, 1, 0), MigBudget(0, 1, 1), MigBudget(1, 0, 1)}

\* A part that does not move starts in one state.
GovAtRest == /\ upstream[s1] = [t \in {x} |-> Tool(1)] /\ accepted[s1] = 0
             /\ govLeft = [edits |-> 2, changes |-> 1, applies |-> 1, faults |-> 1]
TelAtRest == members = {u1} /\ telLeft = [calls |-> 3, applies |-> 1, faults |-> 1]
ProfAtRest == profLeft = ProfBudget(2, 0, 1, 0, 1, 1)
IntakeAtRest == /\ shelf = [e \in Entries |-> 0]
                /\ intakeLeft = IntakeBudget(1, 1, 1, 2)
MigAtRest == legacy \in MCLegacies /\ ~legacy.sound /\ migLeft = MigBudget(0, 0, 0)
\* The drafts only want their names.
MigScope == legacy \in IF migLeft = MigBudget(0, 0, 0) THEN MCDrafts ELSE MCLegacies

PlaneInit ==
    /\ focus \in {"governance", "telemetry", "profiles", "intake", "migration"}
    /\ GovInit /\ (focus # "governance" => GovAtRest)
    /\ TelInit /\ (focus # "telemetry" => TelAtRest)
    /\ ProfInit /\ (focus # "profiles" => ProfAtRest)
    /\ IntakeInit /\ (focus # "intake" => IntakeAtRest)
    /\ MigInit /\ IF focus = "migration" THEN MigScope ELSE MigAtRest

PlaneNext ==
    \/ /\ focus = "governance" /\ GovNext
       /\ UNCHANGED <<telVars, profVars, intakeVars, migVars, focus>>
    \/ /\ focus = "telemetry" /\ TelNext
       /\ UNCHANGED <<govVars, profVars, intakeVars, migVars, focus>>
    \/ /\ focus = "profiles" /\ ProfNext
       /\ UNCHANGED <<govVars, telVars, intakeVars, migVars, focus>>
    \/ /\ focus = "intake" /\ IntakeNext
       /\ UNCHANGED <<govVars, telVars, profVars, migVars, focus>>
    \/ /\ focus = "migration" /\ MigNext
       /\ UNCHANGED <<govVars, telVars, profVars, intakeVars, focus>>

\* GovFairness, TelFairness, IntakeFairness and MigFairness of the part that moves.
PlaneFairness ==
    /\ WF_govVars(focus = "governance" /\ GovWorker)
    /\ WF_govVars(focus = "governance" /\ CreateReconcile)
    /\ WF_telVars(focus = "telemetry" /\ EnqueueTelemetryPull)
    /\ WF_telVars(focus = "telemetry" /\ PullStep)
    /\ WF_intakeVars(focus = "intake" /\ SkillStep)
    /\ WF_intakeVars(focus = "intake" /\ MCPStep)
    /\ \A p \in Migrators : WF_migVars(focus = "migration" /\ ApplyStep(p))
    /\ WF_migVars(focus = "migration" /\ \E p \in Migrators : DryRun(p))
    /\ WF_migVars(/\ focus = "migration"
                  /\ \E p \in Migrators, expected \in reviews : StartApply(p, expected))

PlaneSpec == PlaneInit /\ [][PlaneNext]_planeVars /\ PlaneFairness
-----------------------------------------------------------------------------
\* The five parts keep their types, and every reference from one row to another
\* finds it: applied and accepted revisions, pinned versions, bundles and markers.
PlaneTypeOK == GovTypeOK /\ TelTypeOK /\ ProfTypeOK /\ IntakeTypeOK /\ MigTypeOK
=============================================================================
