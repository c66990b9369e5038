--------------------------- MODULE OperationQueue ---------------------------
(***************************************************************************)
(* The durable operation queue of the ToolHub control plane: the           *)
(* operations and operation_targets tables (internal/store/operations.go,  *)
(* snapshots.go, nodes.go, relay_governance.go) together with the worker   *)
(* goroutines that drain them (internal/worker/worker.go).                 *)
(*                                                                         *)
(* Every store method is one PostgreSQL transaction that takes the parent  *)
(* operation's row lock before it changes a step, so it is one action here.*)
(* A worker's steps between two store calls are separate actions.          *)
(* Requests that the store answers without a change (an idempotent replay, *)
(* ErrConflict, ErrOperationActive, ErrNotFound) are stuttering steps.     *)
(* Operations without targets (control operations) are in Intake and       *)
(* Telemetry.                                                              *)
(***************************************************************************)
EXTENDS Naturals, FiniteSets

CONSTANTS
    Ops,          \* operation ids: bounds how many operations are created
    Targets,      \* runtime targets
    Relay,        \* the target local/shared-relay
    Clients,      \* local client targets a governed Profile Apply may name
    Nodes,        \* Salt nodes, the only ones discovery can archive
    NodeOf,       \* Salt node of a target, NoNode for a target of the local node
    NoNode,
    ApiKinds,     \* kinds of the operations API clients create
    Workers,      \* worker goroutines (cmd/toolhub starts four)
    NoRow,        \* an idle worker holds no step
    MaxCrashes,   \* bound on control-plane restarts
    StoreErrors,  \* whether a worker's own store calls may fail
    UserCancels   \* whether the operator calls POST /operations/{id}/cancel

ASSUME ConstantsAssumption ==
    /\ Relay \in Targets
    /\ Clients \subseteq Targets \ {Relay}
    /\ NoNode \notin Nodes
    /\ NodeOf \in [Targets -> Nodes \cup {NoNode}]
    /\ \A t \in Clients \cup {Relay} : NodeOf[t] = NoNode
    /\ NoRow \notin Ops \X Targets
    /\ ApiKinds \subseteq {"edit", "intake", "relay_config_apply"}
    /\ MaxCrashes \in Nat
    /\ StoreErrors \in BOOLEAN
    /\ UserCancels \in BOOLEAN

\* One operation_targets row per operation and target: UNIQUE(operation_id,target_id).
Rows == Ops \X Targets

Live      == {"queued", "running"}
Terminal  == {"succeeded", "partial", "failed", "cancelled"}
RowStatus == {"none"} \cup Live \cup Terminal

\* "edit" stands for every commit that pins its own snapshot (edit, restore,
\* Skill-only apply), "intake" for the steps that pin none (scan, imports, relay
\* controls), "apply" for the governed Profile Apply with a routing hash,
\* "relay_config_apply" also for policy_apply, which the queue treats alike.
Kinds == {"edit", "intake", "apply", "relay_config_apply", "reconcile"}

\* worker.go: governanceOperationKind and governanceFinalizationRequired.
Governed(k) == k \in {"apply", "relay_config_apply"}

VARIABLES
    opStatus,   \* operations.status, "none" for an id not yet inserted
    kind,       \* operations.kind
    cancel,     \* operations with cancel_requested
    finalized,  \* operations whose metadata has governanceFinalizedAction
    status,     \* operation_targets.status
    pend,       \* rows with governance_finalization_pending
    rerun,      \* rows with pending_rerun
    bridge,     \* rows whose bridge_operation_id is set
    dep,        \* depends_on_target_id, as pairs <<dependent, dependency>>
    desired,    \* targets that have a target_desired_snapshots row
    archived,   \* nodes with archived_at
    pc,         \* where each worker is in Worker.loop
    item,       \* the step each worker holds
    phase,      \* "up": serving; "recovering": inside Worker.Recover
    crashes

opVars   == <<opStatus, kind, cancel, finalized>>
rowVars  == <<status, pend, rerun, bridge, dep>>
workVars == <<pc, item>>
procVars == <<phase, crashes>>
vars     == <<opVars, rowVars, desired, archived, workVars, procVars>>

TypeOK ==
    /\ opStatus \in [Ops -> RowStatus]
    /\ kind \in [Ops -> Kinds]
    /\ cancel \subseteq Ops
    /\ finalized \subseteq Ops
    /\ status \in [Rows -> RowStatus]
    /\ pend \subseteq Rows
    /\ rerun \subseteq Rows
    /\ bridge \subseteq Rows
    /\ dep \subseteq Rows \X Rows
    /\ desired \subseteq Targets
    /\ archived \subseteq Nodes
    /\ pc \in [Workers -> {"idle", "claimed", "executing", "finalize", "rerun"}]
    /\ item \in [Workers -> Rows \cup {NoRow}]
    /\ phase \in {"up", "recovering"}
    /\ crashes \in 0..MaxCrashes

\* A database at rest: a fresh installation, or one whose targets all have a
\* desired snapshot.
Init ==
    /\ opStatus = [o \in Ops |-> "none"]
    /\ kind = [o \in Ops |-> "intake"]
    /\ cancel = {}
    /\ finalized = {}
    /\ status = [r \in Rows |-> "none"]
    /\ pend = {}
    /\ rerun = {}
    /\ bridge = {}
    /\ dep = {}
    /\ desired \in {{}, Targets}
    /\ archived = {}
    /\ pc = [w \in Workers |-> "idle"]
    /\ item = [w \in Workers |-> NoRow]
    /\ phase = "up"
    /\ crashes = 0

-----------------------------------------------------------------------------
(* Tables *)

RowsOf(o) == {r \in Rows : r[1] = o /\ status[r] # "none"}
Archived(t) == NodeOf[t] \in archived

\* Mutant: the index before migration 009, blind to finalization ownership.
LiveOnlyIndex(st, pd) ==
    \A r, s \in Rows : st[r] \in Live /\ st[s] \in Live /\ r[2] = s[2] => r = s

\* The partial unique index operation_targets_one_active_idx: a transaction
\* whose result breaks it is rolled back.
Owners(st, pd) == {r \in Rows : st[r] \in Live \/ r \in pd}
OneActiveIndex(st, pd) ==
    \A r, s \in Owners(st, pd) : r[2] = s[2] => r = s

\* Mutant: a status name outside the operations.status check constraint.
AggregateUnknownStatus(S) == IF S = {"succeeded"} THEN "completed" ELSE "failed"

\* The status recalculateOperation derives from a set of terminal row statuses.
Aggregate(S) ==
    CASE \/ "partial" \in S
         \/ "succeeded" \in S /\ S \cap {"failed", "cancelled"} # {} -> "partial"
      [] "failed" \in S /\ S \cap {"partial", "succeeded"} = {} -> "failed"
      [] "cancelled" \in S /\ S \cap {"partial", "succeeded", "failed"} = {} -> "cancelled"
      [] OTHER -> "succeeded"

\* Mutant: the finalization_pending count is forgotten.
RecalculatedUnfinalized(o, st, pd) ==
    LET mine == {r \in Rows : r[1] = o /\ st[r] # "none"}
    IN  IF \E r \in mine : st[r] \in Live
        THEN opStatus[o]
        ELSE Aggregate({st[r] : r \in mine})

\* Mutant: every finished step closes its operation.
RecalculatedEarly(o, st, pd) ==
    Aggregate({st[r] : r \in {x \in Rows : x[1] = o /\ st[x] # "none"}})

\* recalculateOperation: an operation with live or finalization-owned rows
\* keeps its status.
Recalculated(o, st, pd) ==
    LET mine == {r \in Rows : r[1] = o /\ st[r] # "none"}
    IN  IF mine \cap Owners(st, pd) # {}
        THEN opStatus[o]
        ELSE Aggregate({st[r] : r \in mine})

-----------------------------------------------------------------------------
(* Creation of operations *)

\* The rows R of a new operation o, in the given statuses; the insert fails as
\* a whole when the index rejects one of them.
InsertRows(o, k, R, st, pd, edges) ==
    /\ phase = "up"
    /\ opStatus[o] = "none"
    /\ \A r \in R : ~Archived(r[2])                        \* lockActiveTargets
    /\ OneActiveIndex([r \in Rows |-> IF r \in R THEN st[r] ELSE status[r]],
                      pend \cup pd)
    /\ opStatus' = [opStatus EXCEPT ![o] = "queued"]
    /\ kind' = [kind EXCEPT ![o] = k]
    /\ status' = [r \in Rows |-> IF r \in R THEN st[r] ELSE status[r]]
    /\ pend' = pend \cup pd
    /\ dep' = dep \cup edges
    /\ UNCHANGED <<cancel, finalized, rerun, bridge, desired, archived,
                   workVars, procVars>>

\* CreateOperation / createOperationTx for an API mutation with targets.
CreateOperation(o, k, T) ==
    LET R == {o} \X T
    IN  /\ T # {}
        /\ k \in ApiKinds
        /\ k = "relay_config_apply" => T = {Relay}
        /\ InsertRows(o, k, R, [r \in Rows |-> "queued"],
                      IF k = "relay_config_apply" THEN R ELSE {}, {})

\* CreateProfileApplyOperation: a client and the relay, the relay step after
\* the client step, both owned by the finalizer.
CreateProfileApplyOperation(o, c) ==
    LET R == {o} \X {c, Relay}
    IN  /\ c \in Clients
        /\ InsertRows(o, "apply", R, [r \in Rows |-> "queued"], R,
                      {<< <<o, Relay>>, <<o, c>> >>})

\* RetryFailedTargets: a new operation of the same kind over the failed and
\* partial targets. The original need not be terminal.
RetryFailedTargets(o, old) ==
    LET T == {t \in Targets : status[<<old, t>>] \in {"failed", "partial"}}
        R == {o} \X T
    IN  /\ opStatus[old] # "none" /\ kind[old] # "apply" /\ T # {}
        /\ InsertRows(o, kind[old], R, [r \in Rows |-> "queued"],
                      IF kind[old] = "relay_config_apply" THEN R ELSE {}, {})

\* retryProfileApplyTargets: both rows again, a succeeded one carried over as
\* succeeded evidence, both owned by the finalizer.
RetryProfileApplyTargets(o, old) ==
    LET T == {r[2] : r \in RowsOf(old)}
        R == {o} \X T
    IN  /\ kind[old] = "apply" /\ opStatus[old] \in {"failed", "partial"}
        /\ \A t \in T : status[<<old, t>>] \in {"succeeded", "failed", "partial"}
        /\ \E t \in T : status[<<old, t>>] \in {"failed", "partial"}
        /\ InsertRows(o, "apply", R,
                      [r \in Rows |-> IF status[<<old, r[2]>>] = "succeeded"
                                      THEN "succeeded" ELSE "queued"],
                      R, {<< <<o, Relay>>, <<o, t>> >> : t \in T \ {Relay}})

\* Mutant: the scheduler does not look at nodes.archived_at.
EligibleAnyNode == {desired}

\* A relay target is skipped while suspended or waiting for its retry time
\* (module RelayRuntime); here that is an arbitrary choice.
Eligible ==
    {E \in SUBSET {t \in desired : ~Archived(t)} :
        \A t \in desired \ {Relay} : ~Archived(t) => t \in E}

\* EnqueueReconciles: one transaction for the whole tick. A target with a live
\* step only gets pending_rerun; every other one gets an operation of its own.
\* A target owned by a finalizer alone makes the insert, and the tick, fail.
EnqueueReconciles(E, new) ==
    LET busy == {r \in Rows : status[r] \in Live /\ r[2] \in E}
        free == E \ {r[2] : r \in busy}
        R    == {<<new[t], t>> : t \in free}
        st   == [r \in Rows |-> IF r \in R THEN "queued" ELSE status[r]]
    IN  /\ phase = "up"
        /\ E \in Eligible /\ E # {}
        /\ new \in [free -> {o \in Ops : opStatus[o] = "none"}]
        /\ \A t, u \in free : new[t] = new[u] => t = u
        /\ OneActiveIndex(st, pend)
        /\ opStatus' = [o \in Ops |-> IF \E t \in free : new[t] = o
                                      THEN "queued" ELSE opStatus[o]]
        /\ kind' = [o \in Ops |-> IF \E t \in free : new[t] = o
                                  THEN "reconcile" ELSE kind[o]]
        /\ status' = st
        /\ rerun' = rerun \cup busy
        /\ UNCHANGED <<cancel, finalized, pend, bridge, dep, desired, archived,
                       workVars, procVars>>

-----------------------------------------------------------------------------
(* Cancellation and node discovery *)

\* CancelOperation
CancelOperation(o) ==
    LET dropped == {r \in RowsOf(o) : status[r] = "queued"}
        st == [r \in Rows |-> IF r \in dropped THEN "cancelled" ELSE status[r]]
        pd == IF dropped # {} THEN pend \ RowsOf(o) ELSE pend
    IN  /\ UserCancels /\ phase = "up"
        /\ opStatus[o] \in Live
        /\ cancel' = cancel \cup {o}
        /\ status' = st
        /\ pend' = pd
        /\ opStatus' = [opStatus EXCEPT ![o] = Recalculated(o, st, pd)]
        /\ UNCHANGED <<kind, finalized, rerun, bridge, dep, desired, archived,
                       workVars, procVars>>

\* UpsertDiscoveredNodes: nodes absent from the Salt master's answer are
\* archived, their undispatched queued steps cancelled; nodes seen return.
UpsertDiscoveredNodes(seen) ==
    LET gone    == (Nodes \ seen) \ archived
        lost    == {r \in Rows : NodeOf[r[2]] \in gone}
        dropped == {r \in lost : status[r] = "queued" /\ r \notin bridge}
        st == [r \in Rows |-> IF r \in dropped THEN "cancelled" ELSE status[r]]
    IN  /\ phase = "up"
        /\ archived # Nodes \ seen
        /\ archived' = Nodes \ seen
        /\ status' = st
        /\ rerun' = rerun \ lost
        /\ opStatus' = [o \in Ops |-> IF \E r \in dropped : r[1] = o
                                      THEN Recalculated(o, st, pend)
                                      ELSE opStatus[o]]
        /\ UNCHANGED <<kind, cancel, finalized, pend, bridge, dep, desired,
                       workVars, procVars>>

-----------------------------------------------------------------------------
(* Worker.loop *)

Goto(w, label, r) ==
    /\ pc' = [pc EXCEPT ![w] = label]
    /\ item' = [item EXCEPT ![w] = r]

\* Mutants of the claim query: a running step is claimed again; the dependency
\* is not checked.
ClaimableRunning(r) ==
    status[r] \in Live /\ r[1] \notin cancel /\ ~Archived(r[2])
ClaimableUnordered(r) ==
    status[r] = "queued" /\ r[1] \notin cancel /\ ~Archived(r[2])
\* ClaimOperationTarget
Claimable(r) ==
    /\ status[r] = "queued"
    /\ r[1] \notin cancel
    /\ \A d \in Rows : <<r, d>> \in dep => status[d] = "succeeded"
    /\ ~Archived(r[2]) \/ r \in bridge

ClaimOperationTarget(w, r) ==
    /\ phase = "up" /\ pc[w] = "idle"
    /\ Claimable(r)
    /\ status' = [status EXCEPT ![r] = "running"]
    /\ opStatus' = [opStatus EXCEPT ![r[1]] = "running"]
    /\ Goto(w, "claimed", r)
    /\ UNCHANGED <<kind, cancel, finalized, pend, rerun, bridge, dep, desired,
                   archived, procVars>>

\* SetBridgeOperationMetadata, after which the Bridge call is made.
SetBridgeOperationMetadata(w) ==
    /\ pc[w] = "claimed"
    /\ status[item[w]] = "running"
    /\ bridge' = bridge \cup {item[w]}
    /\ Goto(w, "executing", item[w])
    /\ UNCHANGED <<opVars, status, pend, rerun, dep, desired, archived, procVars>>

\* executeCommit pins the snapshot of a committed manifest itself unless a
\* finalizer owns it (desiredSnapshotOwnedByFinalizer).
PinDesiredSnapshot(w) ==
    /\ pc[w] = "executing"
    /\ kind[item[w][1]] = "edit" /\ item[w][2] \notin desired
    /\ desired' = desired \cup {item[w][2]}
    /\ UNCHANGED <<opVars, rowVars, archived, workVars, procVars>>

\* The status Worker.loop derives from execute, and that of a step whose
\* Bridge metadata could not be stored.
StepOutcome(w, s) ==
    \/ pc[w] = "executing" /\ s = "failed"
    \/ pc[w] = "executing" /\ s = "partial" /\ kind[item[w][1]] = "intake"
    \/ /\ pc[w] = "executing" /\ s = "succeeded"
       /\ kind[item[w][1]] = "edit" => item[w][2] \in desired
    \/ pc[w] = "claimed" /\ s = "failed" /\ StoreErrors

\* FinishOperationTarget, with the worker's next step.
FinishOperationTarget(w, s) ==
    LET r  == item[w]
        o  == r[1]
        st == [x \in Rows |->
                 IF x = r THEN s
                 ELSE IF s # "succeeded" /\ <<x, r>> \in dep /\ status[x] = "queued"
                      THEN "failed" ELSE status[x]]
        pd == IF \E x \in RowsOf(o) : st[x] \in {"partial", "failed", "cancelled"}
              THEN pend \ RowsOf(o) ELSE pend
        terminal == \A x \in RowsOf(o) : st[x] \in Terminal
        finalize == /\ pc[w] = "executing" /\ Governed(kind[o]) /\ terminal
                    /\ \/ kind[o] = "apply"
                       \/ r[2] = Relay /\ s = "succeeded"
    IN  /\ StepOutcome(w, s)
        /\ status[r] = "running"
        /\ status' = st
        /\ pend' = pd
        /\ opStatus' = [opStatus EXCEPT ![o] = Recalculated(o, st, pd)]
        /\ Goto(w, IF finalize THEN "finalize" ELSE "rerun", r)
        /\ UNCHANGED <<kind, cancel, finalized, rerun, bridge, dep, desired,
                       archived, procVars>>

-----------------------------------------------------------------------------
(* Governance finalization *)

AllSucceededAndOwned(o) ==
    /\ opStatus[o] = "running"
    /\ RowsOf(o) # {}
    /\ \A r \in RowsOf(o) : status[r] = "succeeded" /\ r \in pend

\* FinalizeProfileApply (strict), FinalizeRelayConfigurationApply,
\* FinalizeRelayDefaultProfile, FinalizeGlobalPolicyApply: publish, pin the
\* snapshots, markGovernanceFinalizedTx.
Finalize(o) ==
    LET pd == pend \ RowsOf(o)
    IN  /\ AllSucceededAndOwned(o)
        /\ o \notin finalized
        /\ finalized' = finalized \cup {o}
        /\ pend' = pd
        /\ desired' = desired \cup {r[2] : r \in RowsOf(o)}
        /\ opStatus' = [opStatus EXCEPT ![o] = Recalculated(o, status, pd)]
        /\ UNCHANGED <<kind, cancel, status, rerun, bridge, dep, archived>>

\* FinalizeProfileApply (relaxed): the relay is deterministically unavailable,
\* the client snapshot is published alone. The rows are re-owned inside the
\* transaction, so the index must accept them.
ClientOnly(o) ==
    /\ kind[o] = "apply" /\ opStatus[o] = "partial"
    /\ RowsOf(o) \cap pend = {}
    /\ status[<<o, Relay>>] = "failed"
    /\ \A r \in RowsOf(o) : r[2] # Relay => status[r] = "succeeded"

FinalizeRelaxed(o) ==
    /\ ClientOnly(o)
    /\ o \notin finalized
    /\ OneActiveIndex(status, pend \cup RowsOf(o))
    /\ finalized' = finalized \cup {o}
    /\ desired' = desired \cup {r[2] : r \in {x \in RowsOf(o) : x[2] # Relay}}
    /\ UNCHANGED <<opStatus, kind, cancel, rowVars, archived>>

\* FailGovernanceFinalization: a finalizer that met a changed predecessor,
\* archived Profile or mismatched hash. Needs a running, still owned operation.
FailGovernanceFinalization(o) ==
    /\ opStatus[o] = "running"
    /\ RowsOf(o) \cap pend # {}
    /\ pend' = pend \ RowsOf(o)
    /\ opStatus' = [opStatus EXCEPT ![o] = "failed"]
    /\ UNCHANGED <<kind, cancel, finalized, status, rerun, bridge, dep, desired,
                   archived>>

\* finalizeGovernanceOperation as called by Worker.loop: an error, also one
\* that was persisted, skips EnqueuePendingRerun.
FinalizeGovernanceOperation(w) ==
    LET o == item[w][1]
    IN  /\ pc[w] = "finalize"
        /\ \/ (Finalize(o) \/ FinalizeRelaxed(o)) /\ Goto(w, "rerun", item[w])
           \/ FailGovernanceFinalization(o) /\ Goto(w, "idle", NoRow)
           \/ /\ ClientOnly(o)                          \* ErrFinalizationDeferred
              /\ Goto(w, "rerun", item[w])
              /\ UNCHANGED <<opVars, rowVars, desired, archived>>
           \/ /\ opStatus[o] # "running" \/ RowsOf(o) \cap pend = {}
              /\ Goto(w, "idle", NoRow)
              /\ UNCHANGED <<opVars, rowVars, desired, archived>>
        /\ UNCHANGED procVars

-----------------------------------------------------------------------------
(* The coalesced rerun, store failures, restart *)

\* EnqueuePendingRerun. When another step already owns the target, or no
\* operation id is left (the bound Ops), the transaction leaves no trace.
EnqueuePendingRerun(w, o, eligible) ==
    LET r == item[w]
        t == r[2]
        due == /\ r \in rerun
               /\ status[r] \in {"succeeded", "failed", "cancelled"}
               /\ t \in desired
        insert == due /\ eligible /\ ~Archived(t)
        owned == \E x \in Owners(status, pend) : x[2] = t
    IN  /\ pc[w] = "rerun"
        /\ t # Relay => eligible
        /\ Goto(w, "idle", NoRow)
        /\ \/ /\ insert /\ ~owned /\ opStatus[o] = "none"
              /\ rerun' = rerun \ {r}
              /\ status' = [status EXCEPT ![<<o, t>>] = "queued"]
              /\ opStatus' = [opStatus EXCEPT ![o] = "queued"]
              /\ kind' = [kind EXCEPT ![o] = "reconcile"]
           \/ /\ insert
              /\ owned \/ \A p \in Ops : opStatus[p] # "none"
              /\ UNCHANGED <<rerun, status, opStatus, kind>>
           \/ /\ ~insert
              /\ rerun' = IF due THEN rerun \ {r} ELSE rerun
              /\ UNCHANGED <<status, opStatus, kind>>
        /\ UNCHANGED <<cancel, finalized, pend, bridge, dep, desired, archived,
                       procVars>>

\* A store call of Worker.loop fails: the worker logs and takes the next item;
\* the step keeps the status it has until the next restart.
StrandStep(w) ==
    /\ StoreErrors
    /\ pc[w] # "idle"
    /\ Goto(w, "idle", NoRow)
    /\ UNCHANGED <<opVars, rowVars, desired, archived, procVars>>

\* The control plane stops at any point; only the database survives.
Crash ==
    /\ crashes < MaxCrashes
    /\ crashes' = crashes + 1
    /\ phase' = "recovering"
    /\ pc' = [w \in Workers |-> "idle"]
    /\ item' = [w \in Workers |-> NoRow]
    /\ UNCHANGED <<opVars, rowVars, desired, archived>>

\* Worker.Recover, first loop: RequeueRunningOperationTarget. The wait for the
\* Bridge that precedes it is module BridgeReplay.
RequeueRunningOperationTarget(r) ==
    LET o   == r[1]
        end == Archived(r[2]) /\ r \notin bridge
        st  == [status EXCEPT ![r] = IF end THEN "cancelled" ELSE "queued"]
    IN  /\ phase = "recovering"
        /\ status[r] = "running"
        /\ status' = st
        /\ rerun' = IF end THEN rerun \ {r} ELSE rerun
        /\ opStatus' = [opStatus EXCEPT ![o] =
                          IF end THEN Recalculated(o, st, pend)
                          ELSE IF \E x \in RowsOf(o) : st[x] = "running"
                               THEN "running" ELSE "queued"]
        /\ UNCHANGED <<kind, cancel, finalized, pend, bridge, dep, desired,
                       archived, workVars, procVars>>

\* Mutant: Recover returns before every running step was requeued.
RecoverSkipsRunning == TRUE

NoneRunning == \A r \in Rows : status[r] # "running"

\* PendingGovernanceFinalizations
PendingFinalization(o) ==
    /\ Governed(kind[o]) /\ opStatus[o] = "running"
    /\ RowsOf(o) \cap pend # {}
    /\ \A r \in RowsOf(o) : status[r] = "succeeded"

\* Worker.Recover, second loop.
RecoverFinalization(o) ==
    /\ phase = "recovering" /\ NoneRunning
    /\ PendingFinalization(o)
    /\ Finalize(o) \/ FailGovernanceFinalization(o)
    /\ UNCHANGED <<workVars, procVars>>

\* Recover returned: workers, scheduler and API start (cmd/toolhub/main.go).
StartServing ==
    /\ phase = "recovering" /\ NoneRunning
    /\ \A o \in Ops : ~PendingFinalization(o)
    /\ phase' = "up"
    /\ UNCHANGED <<opVars, rowVars, desired, archived, workVars, crashes>>

-----------------------------------------------------------------------------
Create ==
    \E o \in Ops :
        \/ \E k \in ApiKinds, T \in SUBSET Targets : CreateOperation(o, k, T)
        \/ \E c \in Clients : CreateProfileApplyOperation(o, c)
        \/ \E old \in Ops : RetryFailedTargets(o, old)
        \/ \E old \in Ops : RetryProfileApplyTargets(o, old)

Tick ==
    \E E \in SUBSET Targets :
        \E new \in [E \ {r[2] : r \in {x \in Rows : status[x] \in Live}} -> Ops] :
            EnqueueReconciles(E, new)

WorkerStep(w) ==
    \/ SetBridgeOperationMetadata(w)
    \/ PinDesiredSnapshot(w)
    \/ \E s \in Terminal : FinishOperationTarget(w, s)
    \/ FinalizeGovernanceOperation(w)
    \/ \E o \in Ops, eligible \in BOOLEAN : EnqueuePendingRerun(w, o, eligible)

Recovery ==
    \/ \E r \in Rows : RequeueRunningOperationTarget(r)
    \/ \E o \in Ops : RecoverFinalization(o)
    \/ StartServing

Next ==
    \/ Create
    \/ Tick
    \/ \E o \in Ops : CancelOperation(o)
    \/ \E seen \in SUBSET Nodes : UpsertDiscoveredNodes(seen)
    \/ \E w \in Workers, r \in Rows : ClaimOperationTarget(w, r)
    \/ \E w \in Workers : WorkerStep(w)
    \/ \E w \in Workers : StrandStep(w)
    \/ Crash
    \/ Recovery

Spec == Init /\ [][Next]_vars

\* Worker goroutines, and Recover at startup, keep taking steps; nothing is
\* assumed of the operator, the scheduler, discovery or crashes.
Fairness ==
    /\ \A r \in Rows : WF_vars(\E w \in Workers : ClaimOperationTarget(w, r))
    /\ \A w \in Workers :
          /\ WF_vars(SetBridgeOperationMetadata(w))
          /\ WF_vars(\E s \in Terminal : FinishOperationTarget(w, s))
          /\ WF_vars(FinalizeGovernanceOperation(w))
          /\ WF_vars(\E o \in Ops, e \in BOOLEAN : EnqueuePendingRerun(w, o, e))
    /\ WF_vars(Recovery)

FairSpec == Spec /\ Fairness

-----------------------------------------------------------------------------
(* Properties *)

Executing(w) == pc[w] \in {"claimed", "executing"}

\* Two workers never drive the same target at once, and no worker drives a
\* target that another operation's unfinished finalization still owns. This is
\* what operation_targets_one_active_idx, the claim's FOR UPDATE SKIP LOCKED
\* and requeueing only before the workers start are for.
ExclusiveTarget ==
    \A w \in Workers : Executing(w) =>
        /\ \A v \in Workers \ {w} : Executing(v) => item[v][2] # item[w][2]
        /\ \A r \in pend : r[2] = item[w][2] => r = item[w]

\* A step runs only on top of a dependency that succeeded, whatever was
\* cancelled, retried or requeued in between; a dependency that failed takes
\* its queued dependents with it.
DependencyOrder ==
    \A r, d \in Rows : <<r, d>> \in dep =>
        /\ status[r] \in {"running", "succeeded", "partial"} => status[d] = "succeeded"
        /\ status[d] \in {"partial", "failed"} => status[r] \notin Live

\* An operation is open exactly while one of its steps is live or owned by the
\* finalizer: recalculateOperation is called wherever the last one ends, and
\* no terminal operation is left holding a target.
OpenWhileOwned ==
    \A o \in Ops : opStatus[o] # "none" =>
        (opStatus[o] \in Live <=> RowsOf(o) \cap Owners(status, pend) # {})

\* A closed operation reports what its steps did. Success means that every
\* step succeeded and, for a governed kind, that the publication was finalized;
\* cancelled means that nothing ran to an end; failed means that no step took
\* effect, except when all of them did and the finalizer refused to publish.
HonestOutcome ==
    \A o \in Ops : opStatus[o] \in Terminal =>
        LET S == {status[r] : r \in RowsOf(o)}
        IN  /\ opStatus[o] = "succeeded" =>
                  S = {"succeeded"} /\ (Governed(kind[o]) => o \in finalized)
            /\ opStatus[o] = "cancelled" => S = {"cancelled"}
            /\ opStatus[o] = "failed" =>
                  \/ "failed" \in S /\ S \cap {"succeeded", "partial"} = {}
                  \/ Governed(kind[o]) /\ S = {"succeeded"} /\ o \notin finalized
            /\ opStatus[o] = "partial" => S \notin {{"succeeded"}, {"failed"}, {"cancelled"}}

\* Archiving a node drains it: no step that the Bridge has not seen waits in
\* the queue of an archived node, where no worker would ever claim it.
ArchivedNodeDrained ==
    \A r \in Rows : status[r] = "queued" /\ Archived(r[2]) => r \in bridge

\* Every queued or running step ends (worker loop, dependency failure,
\* archiving and Recover together leave none behind), and every finalizer gives
\* its targets back, also when the control plane stops between the last step and
\* the finalization.
EveryStepEnds ==
    \A r \in Rows :
        /\ status[r] \in Live ~> status[r] \in Terminal
        /\ r \in pend ~> r \notin pend

\* docs/API.md: "Only queued target work is cancellable. A destructive target
\* step that reached `running` completes its atomic terminal transition."
RunningStepCompletes ==
    \A r \in Rows : status[r] = "running" ~> status[r] \in Terminal

Driven == {item[w] : w \in {v \in Workers : Executing(v)}}

\* The queue as a lease of targets: a row holds its target while it is live or
\* owned by the finalizer, and is driven between its claim and its end.
Lease == INSTANCE TargetLease
           WITH Holders <- Ops,
                held    <- Owners(status, pend),
                past    <- {r \in Rows : status[r] # "none"} \ Owners(status, pend),
                driven  <- Driven

\* The tables, the claim, the finalizers, cancellation, discovery and recovery
\* together implement the lease: a target passes from one operation to the next
\* only when all of the first one's claims on it are settled, and a row that
\* gave its target back never owns it again, however it is retried or restarted.
ImplementsLease == Lease!LeaseSpec
=============================================================================
