------------------------------ MODULE Governance ------------------------------
(***************************************************************************)
(* Relay governance in the control plane: draft and applied revisions of   *)
(* the Relay Configuration and of the Global Policy, the contracts the     *)
(* upstream MCP servers expose and the ones an operator accepted, rename   *)
(* proposals, and the durable operation that renders a routing bundle,     *)
(* has the relay load it and then finalizes the revision pointers.         *)
(*                                                                         *)
(* Every transaction of internal/store is one action.  What is not in one  *)
(* transaction is interleaved: the operator's preflight and the apply, the *)
(* creation of the operation, its execution on the host and its            *)
(* finalization; the reading of the contracts by the Bridge and their      *)
(* recording.  The host's side of an execution is RelayRuntime; here it    *)
(* loads a bundle or leaves the relay as it was.                           *)
(***************************************************************************)
EXTENDS Integers, Sequences, FiniteSets

CONSTANTS
    Servers,     \* MCP servers of the library
    Tools,       \* tool identities (mcp_tools rows)
    Shapes,      \* contracts an upstream may expose: functions from tools to
                 \* [sig, look], signature and presentation
    Profiles,    \* Profiles still published from before the Skill-only change
    NoGovOp,     \* no operation owns the relay target
    Unseen,      \* no preflight answer, no observation in flight
    GovBudgets   \* bounds: edits, changes (of upstream contracts), applies, faults

ASSUME GovernanceAssumption ==
    /\ NoGovOp # Unseen
    /\ \A b \in GovBudgets : b \in [edits : Nat, changes : Nat, applies : Nat, faults : Nat]

VARIABLES
    configs,     \* relay_configuration_revisions: the member set of each
    relay,       \* relay_configuration_state: current, applied, mode
    policies,    \* global_policy_revisions: the tools each overrides
    policy,      \* global_policy_state: current, applied
    upstream,    \* what each server exposes now (outside ToolHub)
    contracts,   \* mcp_contract_revisions of each server, oldest first
    accepted,    \* accepted_revision_id of each server, 0 for none
    proposals,   \* mcp_tool_rename_proposals
    drafts,      \* current revision number of each Profile
    published,   \* published revision of each Profile, 0 for none
    preview,     \* what the operator's last preflight showed
    observed,    \* a contract observation the Bridge answered, not yet stored
    govOp,       \* the operation that owns the relay target
    served,      \* the routing bundle the relay runs
    desired,     \* the pinned desired snapshot: bundle, source, health
    backups,     \* bundles of the backups with a pinned manifest
    govLeft      \* what is left of the bounds

govVars == <<configs, relay, policies, policy, upstream, contracts, accepted,
             proposals, drafts, published, preview, observed, govOp, served,
             desired, backups, govLeft>>

revisionVars == <<configs, relay, policies, policy>>
contractVars == <<upstream, contracts, accepted, proposals>>
relayVars    == <<served, desired, backups>>

Modes == {"compatibility", "enforced"}

Newest(seq) == seq[Len(seq)]

Spend(what) == /\ govLeft[what] > 0
               /\ govLeft' = [govLeft EXCEPT ![what] = @ - 1]
-----------------------------------------------------------------------------
(* Rendering *)

\* The accepted tools that the relay must not route: gone from the latest
\* contract, or with another signature there.
Paused(s) ==
    LET base == contracts[s][accepted[s]]
        last == Newest(contracts[s])
    IN  {t \in DOMAIN base : t \notin DOMAIN last \/ base[t].sig # last[t].sig}

RoutedServer(s, override) ==
    IF accepted[s] = 0
      THEN [contract |-> 0, paused |-> {}, overridden |-> {}]
      ELSE [contract   |-> accepted[s],
            paused     |-> Paused(s),
            overridden |-> override \cap DOMAIN contracts[s][accepted[s]]]

\* renderCandidateRoutingBundleTx: the bundle of a candidate laid over the
\* applied state.  profs is the set of Profile revisions it carries.
RenderCandidate(mode, config, pol, profs) ==
    [mode     |-> mode,
     config   |-> config,
     policy   |-> pol,
     servers  |-> [s \in configs[config] |-> RoutedServer(s, policies[pol])],
     profiles |-> profs]

\* The Profiles a candidate bundle carries when it names any: the published
\* ones, those named in their candidate revision.
CandidateProfiles(names, revision) ==
    IF names = {} THEN {}
    ELSE {<<p, revision[p]>> : p \in names}
         \cup {<<p, published[p]>> : p \in {q \in Profiles \ names : published[q] > 0}}
-----------------------------------------------------------------------------
(* Drafts *)

\* SaveRelayConfiguration: another member set becomes the current revision;
\* the same one is answered with the revision there is.
SaveRelayConfiguration ==
    /\ Spend("edits")
    /\ \E members \in SUBSET Servers :
         /\ members # configs[relay.current]
         /\ configs' = Append(configs, members)
    /\ relay' = [relay EXCEPT !.current = Len(configs')]
    /\ UNCHANGED <<policies, policy, contractVars, drafts, published, preview,
                   observed, govOp, relayVars>>

SaveGlobalPolicy ==
    /\ Spend("edits")
    /\ \E overridden \in SUBSET Tools :
         /\ overridden # policies[policy.current]
         /\ policies' = Append(policies, overridden)
    /\ policy' = [policy EXCEPT !.current = Len(policies')]
    /\ UNCHANGED <<configs, relay, contractVars, drafts, published, preview,
                   observed, govOp, relayVars>>

\* SaveProfile of a published Profile: a new draft, the published revision
\* stays.
SaveProfileDraft ==
    /\ Spend("edits")
    /\ \E p \in Profiles : drafts' = [drafts EXCEPT ![p] = @ + 1]
    /\ UNCHANGED <<revisionVars, contractVars, published, preview, observed,
                   govOp, relayVars>>
-----------------------------------------------------------------------------
(* Contracts *)

\* External: an MCP server starts to expose another set of tools.
UpstreamChanges ==
    /\ Spend("changes")
    /\ \E s \in Servers, c \in Shapes :
         /\ c # upstream[s]
         /\ upstream' = [upstream EXCEPT ![s] = c]
    /\ UNCHANGED <<revisionVars, contracts, accepted, proposals, drafts,
                   published, preview, observed, govOp, relayVars>>

\* contract_observe, first half: the Bridge reads the contracts of the
\* servers in the bundle the relay runs.
ReadContracts ==
    /\ observed = Unseen
    /\ Spend("edits")
    /\ observed' = [config |-> served.config,
                    shapes |-> [s \in configs[served.config] |-> upstream[s]]]
    /\ UNCHANGED <<revisionVars, contractVars, drafts, published, preview,
                   govOp, relayVars>>

\* ObserveContractsTx: the same contract as the latest adds nothing.
Recorded(s, c) ==
    IF contracts[s] # <<>> /\ Newest(contracts[s]) = c
      THEN contracts[s] ELSE Append(contracts[s], c)

\* createRenameProposalTx, against the previous latest contract: one removed
\* and one added tool of equal signature are a suspected rename, any other
\* such pairs are ambiguous ones.
RenameProposals(s, c) ==
    IF Recorded(s, c) = contracts[s] \/ contracts[s] = <<>> THEN {}
    ELSE LET old     == Newest(contracts[s])
             removed == DOMAIN old \ DOMAIN c
             added   == DOMAIN c \ DOMAIN old
             status  == IF Cardinality(removed) = 1 /\ Cardinality(added) = 1
                          THEN "suspected" ELSE "ambiguous"
         IN  {[server |-> s, from |-> Len(contracts[s]), old |-> pair[1], new |-> pair[2],
               status |-> status] :
                pair \in {xy \in removed \X added : old[xy[1]].sig = c[xy[2]].sig}}

\* ObserveRelayContracts: the answer is recorded only if it describes the
\* configuration that is still applied; otherwise the operation conflicts.
ObserveRelayContracts ==
    /\ observed # Unseen
    /\ observed' = Unseen
    /\ IF observed.config = relay.applied
         THEN /\ contracts' = [s \in Servers |->
                    IF s \in DOMAIN observed.shapes THEN Recorded(s, observed.shapes[s])
                    ELSE contracts[s]]
              /\ proposals' = proposals \cup
                    UNION {RenameProposals(s, observed.shapes[s]) : s \in DOMAIN observed.shapes}
         ELSE UNCHANGED <<contracts, proposals>>
    /\ UNCHANGED <<revisionVars, upstream, accepted, drafts, published, preview,
                   govOp, relayVars, govLeft>>

\* AcceptContract takes any revision of the server, not only the latest.
AcceptContract ==
    /\ Spend("edits")
    /\ \E s \in Servers : \E r \in 1..Len(contracts[s]) :
         accepted' = [accepted EXCEPT ![s] = r]
    /\ UNCHANGED <<revisionVars, upstream, contracts, proposals, drafts,
                   published, preview, observed, govOp, relayVars>>

\* cloneGlobalPolicyForRenameTx: a draft policy in which the new tool has the
\* override of the old one; no draft when there is no override.
RenamedOverrides(overridden, old, new) ==
    IF old \in overridden THEN (overridden \ {old}) \cup {new} ELSE overridden

\* ConfirmToolRename: only while the contract that added the new name is the
\* latest one.  It accepts that contract, rejects the competing ambiguous
\* proposals and leaves applied policy and published Profiles alone.
ConfirmToolRename ==
    \E p \in proposals :
      LET newer == RenamedOverrides(policies[policy.current], p.old, p.new) IN
      /\ p.status \in {"suspected", "ambiguous"}
      /\ Len(contracts[p.server]) = p.from + 1
      /\ Spend("edits")
      /\ proposals' =
           {IF q = p THEN [q EXCEPT !.status = "confirmed"]
            ELSE IF /\ p.status = "ambiguous"
                    /\ q.status = "ambiguous" /\ q.server = p.server /\ q.from = p.from
                    /\ (q.old = p.old \/ q.new = p.new)
                   THEN [q EXCEPT !.status = "rejected"]
                   ELSE q : q \in proposals}
      /\ IF p.old \in policies[policy.current]
           THEN /\ policies' = Append(policies, newer)
                /\ policy' = [policy EXCEPT !.current = Len(policies')]
           ELSE UNCHANGED <<policies, policy>>
      /\ accepted' = [accepted EXCEPT ![p.server] = p.from + 1]
      /\ UNCHANGED <<configs, relay, upstream, contracts, drafts, published,
                     preview, observed, govOp, relayVars>>
-----------------------------------------------------------------------------
(* Preparing and creating the operation *)

\* validateRelayEnforcementReadinessTx
EnforcementReady(config) ==
    /\ config = relay.applied
    /\ desired.health = "healthy" /\ desired.source = "relay_config_apply"
    /\ configs[config] # {}
    /\ \A s \in configs[config] : accepted[s] # 0 /\ accepted[s] = Len(contracts[s])

\* prepareRelayConfigurationApplyTx, of a preflight and again in the
\* transaction that creates the operation.
PrepareAllowed(config, mode, names) ==
    /\ mode = "enforced" => EnforcementReady(config)
    /\ \A p \in names : published[p] > 0

PreflightRelayConfiguration ==
    /\ Spend("edits")
    /\ \E config \in 1..Len(configs), mode \in Modes, names \in SUBSET Profiles :
         /\ PrepareAllowed(config, mode, names)
         /\ preview' = [config |-> config, mode |-> mode, names |-> names,
                        bundle |-> RenderCandidate(mode, config, policy.applied,
                                                   CandidateProfiles(names, drafts))]
    /\ UNCHANGED <<revisionVars, contractVars, drafts, published, observed,
                   govOp, relayVars>>

\* CreateRelayConfigurationModeApplyOperation: prepared again under the
\* target's lock, it must still render what the operator saw.
CreateRelayApply ==
    /\ govOp = NoGovOp /\ preview # Unseen
    /\ Spend("applies")
    /\ PrepareAllowed(preview.config, preview.mode, preview.names)
    /\ RenderCandidate(preview.mode, preview.config, policy.applied,
                       CandidateProfiles(preview.names, drafts)) = preview.bundle
    /\ govOp' = [kind |-> "relay", phase |-> "queued", bundle |-> preview.bundle,
                 config |-> preview.config, mode |-> preview.mode,
                 before |-> relay.applied, beforeMode |-> relay.mode,
                 names |-> preview.names, revisions |-> drafts,
                 predecessors |-> published, backup |-> Unseen]
    /\ UNCHANGED <<revisionVars, contractVars, drafts, published, preview,
                   observed, relayVars>>

\* CreateGlobalPolicyApplyOperation: no preflight and no hash from the operator.
CreatePolicyApply ==
    /\ govOp = NoGovOp
    /\ Spend("applies")
    /\ \E pol \in 1..Len(policies) :
         govOp' = [kind |-> "policy", phase |-> "queued", policy |-> pol,
                   bundle |-> RenderCandidate(relay.mode, relay.applied, pol, {}),
                   before |-> policy.applied, backup |-> Unseen]
    /\ UNCHANGED <<revisionVars, contractVars, drafts, published, preview,
                   observed, relayVars>>

\* POST /targets/{id}/restore of the shared relay.
CreateRestore ==
    /\ govOp = NoGovOp
    /\ Spend("applies")
    /\ \E b \in backups : govOp' = [kind |-> "restore", phase |-> "queued", bundle |-> b]
    /\ UNCHANGED <<revisionVars, contractVars, drafts, published, preview,
                   observed, relayVars>>

\* The scheduler's reconcile of the pinned snapshot.  The tick is taken only
\* where it has something to do: repairing a matching relay changes nothing.
CreateReconcile ==
    /\ govOp = NoGovOp
    /\ served # desired.bundle \/ desired.health # "healthy"
    /\ govOp' = [kind |-> "reconcile", phase |-> "queued", bundle |-> desired.bundle]
    /\ UNCHANGED <<revisionVars, contractVars, drafts, published, preview,
                   observed, relayVars, govLeft>>
-----------------------------------------------------------------------------
(* Execution on the host *)

IsGovernance == govOp.kind \in {"relay", "policy"}

\* executeCommit of an apply: the relay loads the bundle.  The backup is
\* recorded with the manifest that was desired before; an apply that wrote
\* nothing has none, and a failing insert is ignored.
ExecuteApply ==
    /\ govOp # NoGovOp /\ IsGovernance /\ govOp.phase = "queued"
    /\ served' = govOp.bundle
    /\ \/ /\ backups' = backups \cup {desired.bundle}
          /\ govOp' = [govOp EXCEPT !.phase = "reloaded", !.backup = desired.bundle]
       \/ /\ govOp' = [govOp EXCEPT !.phase = "reloaded"]
          /\ UNCHANGED backups
    /\ desired' = [desired EXCEPT !.health = "healthy"]
    /\ UNCHANGED <<revisionVars, contractVars, drafts, published, preview,
                   observed, govLeft>>

\* executeCommit of a restore: the restored manifest is pinned at once, and
\* no finalizer follows.
ExecuteRestore ==
    /\ govOp # NoGovOp /\ govOp.kind = "restore"
    /\ served' = govOp.bundle
    /\ backups' = backups \cup {desired.bundle}
    /\ desired' = [bundle |-> govOp.bundle, source |-> "restore", health |-> "healthy"]
    /\ govOp' = NoGovOp
    /\ UNCHANGED <<revisionVars, contractVars, drafts, published, preview,
                   observed, govLeft>>

ExecuteReconcile ==
    /\ govOp # NoGovOp /\ govOp.kind = "reconcile"
    /\ served' = govOp.bundle
    /\ backups' = IF served = govOp.bundle THEN backups ELSE backups \cup {desired.bundle}
    /\ desired' = [desired EXCEPT !.health = "healthy"]
    /\ govOp' = NoGovOp
    /\ UNCHANGED <<revisionVars, contractVars, drafts, published, preview,
                   observed, govLeft>>

\* The host refused or rolled back: the step fails and the target is blocked.
ExecuteFails ==
    /\ govOp # NoGovOp /\ govOp.phase = "queued"
    /\ Spend("faults")
    /\ desired' = [desired EXCEPT !.health = "blocked"]
    /\ govOp' = NoGovOp
    /\ UNCHANGED <<revisionVars, contractVars, drafts, published, preview,
                   observed, served, backups>>
-----------------------------------------------------------------------------
(* Finalization *)

\* validateCandidateRoutingHashTx / validateRelayConfigurationRoutingHashTx:
\* the candidate rendered from the database as it is now.
RenderedAgain ==
    IF govOp.kind = "relay"
      THEN RenderCandidate(govOp.mode, govOp.config, policy.applied,
                           CandidateProfiles(govOp.names, govOp.revisions))
      ELSE RenderCandidate(relay.mode, relay.applied, govOp.policy, {})

\* Mutant: the operation's hash is trusted.
HashTrusted == TRUE

HashStillMatches == RenderedAgain = govOp.bundle

\* Mutant: no backup is asked for.
NoBackupNeeded == TRUE

\* hasRestorableCompatibilityBackup, of this operation's own backup.
CompatibilityBackup ==
    /\ govOp.backup # Unseen
    /\ govOp.backup.mode = "compatibility" /\ govOp.backup.config = relay.applied

RelayFinalizable ==
    /\ govOp.kind = "relay"
    /\ relay.applied = govOp.before /\ relay.mode = govOp.beforeMode
    /\ \A p \in govOp.names : published[p] = govOp.predecessors[p]
    /\ HashStillMatches
    /\ govOp.mode = "enforced" => CompatibilityBackup

PolicyFinalizable ==
    /\ govOp.kind = "policy"
    /\ policy.applied = govOp.before
    /\ HashStillMatches

\* pinRelayDesiredSnapshotTx
PinRelayDesired(bundle) ==
    desired' = [bundle |-> bundle, source |-> "relay_config_apply", health |-> "healthy"]

FinalizeRelayConfigurationApply ==
    /\ govOp # NoGovOp /\ govOp.phase = "reloaded"
    /\ RelayFinalizable
    /\ relay' = [relay EXCEPT !.applied = govOp.config, !.mode = govOp.mode]
    /\ published' = [p \in Profiles |->
                       IF p \in govOp.names THEN govOp.revisions[p] ELSE published[p]]
    /\ PinRelayDesired(govOp.bundle)
    /\ govOp' = NoGovOp
    /\ UNCHANGED <<configs, policies, policy, contractVars, drafts, preview,
                   observed, served, backups, govLeft>>

FinalizeGlobalPolicyApply ==
    /\ govOp # NoGovOp /\ govOp.phase = "reloaded"
    /\ PolicyFinalizable
    /\ policy' = [policy EXCEPT !.applied = govOp.policy]
    /\ PinRelayDesired(govOp.bundle)
    /\ govOp' = NoGovOp
    /\ UNCHANGED <<configs, relay, policies, contractVars, drafts, published,
                   preview, observed, served, backups, govLeft>>

\* Mutant: a conflicting operation keeps the target.
ConflictKeepsTarget ==
    /\ govOp # NoGovOp /\ govOp.phase = "reloaded"
    /\ ~RelayFinalizable /\ ~PolicyFinalizable
    /\ govOp' = [govOp EXCEPT !.phase = "failed"]
    /\ UNCHANGED <<revisionVars, contractVars, drafts, published, preview,
                   observed, relayVars, govLeft>>

\* A finalizer that conflicts: FailGovernanceFinalization ends the operation
\* and frees the target; the relay keeps running the bundle it loaded.
FailGovernanceFinalization ==
    /\ govOp # NoGovOp /\ govOp.phase = "reloaded"
    /\ ~RelayFinalizable /\ ~PolicyFinalizable
    /\ govOp' = NoGovOp
    /\ UNCHANGED <<revisionVars, contractVars, drafts, published, preview,
                   observed, relayVars, govLeft>>
-----------------------------------------------------------------------------
\* A relay configured, applied and pinned once, nothing reviewed yet.
GovInit ==
    /\ configs = <<{}, Servers>>
    /\ relay = [current |-> 2, applied |-> 2, mode |-> "compatibility"]
    /\ policies = <<{}>>
    /\ policy = [current |-> 1, applied |-> 1]
    /\ \E c \in Shapes :
         /\ upstream = [s \in Servers |-> c]
         /\ contracts = [s \in Servers |-> <<c>>]
    /\ accepted \in [Servers -> {0, 1}]
    /\ proposals = {}
    /\ drafts = [p \in Profiles |-> 1]
    /\ published = [p \in Profiles |-> 1]
    /\ preview = Unseen
    /\ observed = Unseen
    /\ govOp = NoGovOp
    /\ served = RenderCandidate("compatibility", 2, 1, {})
    /\ desired = [bundle |-> served, source |-> "relay_config_apply", health |-> "healthy"]
    /\ backups = {RenderCandidate("compatibility", 1, 1, {})}
    /\ govLeft \in GovBudgets

GovWorker ==
    \/ ExecuteApply
    \/ ExecuteRestore
    \/ ExecuteReconcile
    \/ FinalizeRelayConfigurationApply
    \/ FinalizeGlobalPolicyApply
    \/ FailGovernanceFinalization

GovNext ==
    \/ SaveRelayConfiguration \/ SaveGlobalPolicy \/ SaveProfileDraft
    \/ UpstreamChanges \/ ReadContracts \/ ObserveRelayContracts
    \/ AcceptContract \/ ConfirmToolRename
    \/ PreflightRelayConfiguration
    \/ CreateRelayApply \/ CreatePolicyApply \/ CreateRestore \/ CreateReconcile
    \/ ExecuteFails
    \/ GovWorker

\* The worker executes and finalizes what it owns, and the scheduler ticks.
GovFairness == WF_govVars(GovWorker) /\ WF_govVars(CreateReconcile)

GovSpec == GovInit /\ [][GovNext]_govVars /\ GovFairness
-----------------------------------------------------------------------------
(* Properties *)

Bundles(b) ==
    /\ b.mode \in Modes /\ b.config \in 1..Len(configs) /\ b.policy \in 1..Len(policies)
    /\ DOMAIN b.servers = configs[b.config]

\* Types: pointers name revisions that exist, and every bundle routes exactly
\* the members of the configuration it names.
GovTypeOK ==
    /\ relay.current \in 1..Len(configs) /\ relay.applied \in 1..Len(configs)
    /\ relay.mode \in Modes
    /\ policy.current \in 1..Len(policies) /\ policy.applied \in 1..Len(policies)
    /\ \A s \in Servers : accepted[s] \in 0..Len(contracts[s])
    /\ \A p \in proposals : p.from \in 1..Len(contracts[p.server])
    /\ Bundles(served) /\ Bundles(desired.bundle)
    /\ \A b \in backups : Bundles(b)

\* What the database renders for the applied pointers, with the published
\* Profiles when the pinned bundle carries any.
AppliedRendering ==
    RenderCandidate(relay.mode, relay.applied, policy.applied,
      IF desired.bundle.profiles = {} THEN {}
      ELSE {<<p, published[p]>> : p \in {q \in Profiles : published[q] > 0}})

\* What finalization pins as desired state is what the relay loaded and what
\* the database renders once the pointers have moved, whatever was accepted,
\* observed, renamed, edited or published while the operation ran.
FinalizedIsServed ==
    [][desired'.bundle # desired.bundle /\ desired'.source = "relay_config_apply"
       => desired'.bundle = served' /\ desired'.bundle = AppliedRendering']_govVars

\* Enforcement is entered only over reviewed contracts and with a backup of
\* the same configuration in compatibility mode to return to.
EnforcementHasWayBack ==
    [][relay.mode = "compatibility" /\ relay'.mode = "enforced"
       => /\ \E b \in backups : b.mode = "compatibility" /\ b.config = relay'.applied
          /\ \A s \in configs[relay'.applied] : accepted[s] # 0 /\ Paused(s) = {}]_govVars

\* Whatever an apply that could not be finalized left running, the relay
\* returns to the desired bundle.
ServedConverges == <>[](served = desired.bundle)

\* The applied Relay Configuration is the only source of the shared member
\* set: with no operation under way the desired snapshot has its members.
AppliedIsTheSource ==
    govOp = NoGovOp => configs[desired.bundle.config] = configs[relay.applied]
=============================================================================
