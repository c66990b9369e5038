# ToolHub verification project

TLA+ modules that model ToolHub's control plane, its Bridge and what the Bridge
does on the host, the TLC configurations that check them on small instances, and
TLAPS proofs, for all instances, of every invariant and every action property that
the passing runs check. Paths are relative to the repository root (`src/` here).

## 1. The system

ToolHub keeps AI-client configurations (Skills, MCP servers, the shared mcpm
relay) on a local host and on Salt minions in a desired state.

| Component | Code | State | Operations | Talks to |
|---|---|---|---|---|
| HTTP API | `internal/httpapi` | none | preflight, create, retry, cancel, edit | store |
| Durable queue | `internal/store/operations.go`, `migrations/` | `operations`, `operation_targets` in PostgreSQL | create, claim, finish, cancel, retry, rerun, requeue | workers |
| Worker | `internal/worker/worker.go` | four goroutines, one claimed step each, and a control loop | claim, execute, finish, finalize, recover | store, Bridge |
| Governance | `internal/store/{relay_governance,contracts,governance_operations}.go` | revisions of Relay Configuration and Global Policy, contracts, applied pointers | save, observe, accept, rename, apply, finalize, fail | queue, relay |
| Telemetry | `internal/store/telemetry.go` | cursors, daily aggregates | pull, drain, ingest | relay |
| Profiles | `internal/store/{profiles,snapshots,bundles}.go` | Profiles, revisions, tokens, desired snapshots, bundle fingerprints | save, archive, purge, preflight, apply, import | queue |
| Intake | `internal/runtime/intake.go`, `worker.go`, `store/library.go` | Library rows, stored requests | import Skills and MCP servers of a client | Bridge |
| Node discovery | `internal/store/nodes.go` | `nodes.archived_at` | archive, restore | queue |
| Bridge server and journal | `internal/bridge/server.go`, `journal.go` | BoltDB: nonces, idempotency, operations, Salt recovery, backups | mutation middleware, handlers, start-up recovery | adapter |
| Adapter and Salt driver | `internal/bridge/adapter.go`, `internal/saltdriver` | Salt jobs | dispatch, poll, scan, recover | minions, local runtime |
| Skill roots | `internal/runtime/manager.go` | client directories, backups | scan, apply, reconcile, restore, collect | file system |
| Shared relay | `internal/runtime/relay.go`, `mcpm_admin.go`, `relay_probe.go` | registry, anchors, environment, routing file, unit | apply, reconcile, restore, start, stop, restart | systemd, mcpm |
| Configuration migration | `internal/configmigration`, `store/config_import.go` | legacy and destination database | dry run, apply, verify | store |
| Relay gateway | `mcpm/` | sessions, confirmations, observations | serve MCP, reload routing | clients |

What is hard: four workers and the API share rows under one partial unique
index; a governed operation keeps its targets after its steps ended, until it is
finalized; discovery archives nodes under queued work; both processes stop at
any point and are restarted by systemd; a step's effect is outside any
transaction, so it is replayed under an idempotency key and, for Salt, observed
through a job cache that forgets; files, unit and process of the relay change one
after the other and may each fail; what an operator confirmed is applied later,
from rows that moved meanwhile; counters of the relay start again with every
boot. `PROJECT.json` lists these hazards by line.

## 2. Modules

| Module | Models |
|---|---|
| `OperationQueue` | the tables of the queue, every transaction on target steps, the worker loop, finalization, archiving, stop and start-up of the control plane |
| `TargetLease` | abstract specification: what the queue promises about targets |
| `OperationQueueProofs` | the inductive invariant of the queue and the theorems drawn from it |
| `QueueLeaseProofs` | the queue implements the lease |
| `QueueOutcomeProofs` | dependency order, open operations, honest results, archived nodes |
| `Bridge` | the Bridge's journal, the mutation middleware, the journaled handlers, Salt dispatch, poll and recovery, stop and start-up |
| `BridgeReplay` | the control plane's side of a step composed with `Bridge`: claim, send, receive, time out, recover, replay |
| `BridgeProofs`, `BridgeReplayProofs` | the inductive invariants of the Bridge, alone and under the control plane, and their theorems |
| `RelayRuntime` | the shared relay: files, unit, process, rollback, projection and retry schedule |
| `SkillRoot` | a client's Skill directory, its backups and their collection |
| `RequestAuth` | the time window and the nonces of signed requests |
| `LocalHostProofs` | a request is served once; directories, backups and catalogs of `SkillRoot`; successes, failures and reconciles of `RelayRuntime`; the types of the three |
| `Governance` | configurations, policies, contracts and the operation that applies them |
| `Telemetry` | observation cursors and aggregates |
| `ProfileApply` | Profiles, preflight tokens, applies, adoption and bundles |
| `Intake` | imports from local clients |
| `ControlPlaneProofs` | imports forget nothing and bring a server once; observations are counted once; finalization and enforcement of `Governance`; review and names of `ConfigMigration`; the types of all five parts, for which it extends `ProfileApplyProofs` |
| `ProfileApplyProofs` | what is applied, confirmed and saved of a Profile |
| `ConfigMigration` | the import of a generation-1 configuration |
| `MCOperationQueue`, `MCBridge`, `MCBridgeReplay`, `MCLocalHost`, `MCControlPlane` | the bounds of the runs; the last two also compose modules |

In all modules one action is one transaction, one file operation, one systemctl
call, one probe or one answer, with everything the code does in it; a process can
stop, a call can fail and a user can edit between any two. Definitions marked
"Mutant" in a comment are faulty variants that show that a property can fail;
no specification uses them.

### OperationQueue and TargetLease

A row of `operation_targets` is a pair of an operation and a target, which its
unique constraint allows. `status`, `pend`, `rerun`, `bridge`, `dep` are its
columns; `opStatus`, `kind`, `cancel`, `finalized` those of `operations`;
`desired` says which targets have a desired snapshot and `archived` which nodes
are archived. `Recalculated` is part of every action whose code calls
`recalculateOperation`. A worker is its program counter and claimed row. What
execution does is the environment's choice of outcome. `InsertRows` is enabled
only if the partial unique index accepts the rows, which is how
`createOperationTx` fails. Request bodies, results, error texts and timestamps
are left out.

`TargetLease` knows only steps that hold their target, have given it back, or are
driven. New steps get the targets of their operation together or not at all; only
a holder is driven; a target is given back once, by a step nobody drives.
`OperationQueue` maps `held` to the rows the unique index counts, `past` to the
rows that ended and own nothing, `driven` to the rows workers execute.

### Bridge and BridgeReplay

A request is named by its key, which is also its operation id. The durable state
is one variable per bucket (`idem`, `op`, `recov`); a goroutine is where it is
between two BoltDB transactions. `job` is a job published to a minion, which ends
at a time of its own (`MinionRuns`, the `_write` of the Salt execution module).
`Poll` is what looking the job up may end with and `SaltOutcome` what is made of
it: a failure at any time (deadline, unreadable result, cancelled context), a
success only from the job's own result or from a scan that finds the request's
content. A local apply is one step here; one that reports an error may have left
the old content, the new one or neither (`LeaveBehind`). Its inner steps are
`SkillRoot` and `RelayRuntime`. `JournalErrors` lets each write that the code
tolerates fail. `BridgeReplay` replaces the arbitrary callers of `Bridge` by
workers and adds the stop and the start-up of the control plane.

### RelayRuntime

A manifest is a runtime configuration and a routing bundle. `disk` is what each of
the four files was rendered from, or foreign content; `loaded` is what the running
process read when it started, so that files and process can differ. `at` walks
through `RelayManager.Apply` and its relatives: integrity check, writes, the choice
between hot reload, restart and enforced pause (`AfterWriting`), verification, and
the rollback of files, routing, unit and port, each of which can fail. A failing
systemctl query reads like an inactive unit, as in the code. `proc` is the snapshot of
the unit that the rollback goes back to; as in the code an apply that has nothing to
write takes none (`NothingToWrite`), so the history field `found` says what the unit
really was. `proj` is the
projection that `UpdateRelayProjection` keeps: health, counted failures, the
backoff as a retry that waits or is due, suspension after three. `form` is an open
Settings page that will write back the pause flag it was loaded with. `behind` is
a history variable: the process may be older than its files because a stop fell
between write and restart, or a failed rollback or a failed pause left it so, which
is the one excuse in `AppliedIsServed`.

### SkillRoot

A directory maps entry names to a Skill version, opaque content or nothing. A step
scans, copies a backup, builds a stage, renames the root aside, renames the stage
in, removes what was set aside, and scans again; a Bridge stop leaves whatever is
there, `SkillRevert` and `SwapIn` take the code's way back. The two catalogs of
backups (journal and table) and the collection that removes directories first and
rows afterwards run beside it. Protected entries are kept unless a desired Skill
has their name, as the code does it.

### RequestAuth

Time counts fractions of a second; timestamps and nonces are whole seconds.
Verification and `AcceptNonce` read the clock separately, up to `MaxStall` apart.
That a signature cannot be made without the key is assumed.

### Governance, Telemetry, ProfileApply, Intake

`Governance` renders a bundle from configuration, policy and accepted contracts
when an apply is created (`RenderCandidate`), lets the relay load it, and finalizes
only if rendering again gives the same hash; an apply that cannot be finalized
leaves the relay to the reconcile. Profiles published before migration 015 are
still part of a bundle; new publications have no live effect and are left out.
`Telemetry` numbers observations per boot, keeps one cursor per server and drains
from the slowest one; an observation is made in a session of a published Profile or in
a default session, whose nil UUID names no Profile revision, and a batch with one of
the latter is refused as a whole (`Unknown`). `ProfileApply` separates what the code separates: the
preflight reads the revision number and the pins in two queries, confirmation and
apply are different requests, forms are read before they are saved. `Intake` has
the Skill batch with chunks, narrowing of the stored request and retries, and the
MCP import with its confirmation token and the name that identifies what was saved.

### ConfigMigration

Dry run, apply with the reviewed fingerprint, schema, bootstrap of account and
environment in separate transactions, the import in one, and the verification by
marker and counts. Names are sequences of pieces; `AssignMCPNames` computes as the
code does who keeps a name, who gets a suffix and what is cut to make room: the
definitions that lost their name (`Losers`) are renamed one after the other, in the
order of the code's second sort, which a definition's `Turn` counts.

### MCLocalHost and MCControlPlane

Each composes parts that share no variable. A behaviour moves one of them, its
`focus`, and leaves the others in an initial state, so that one run explores all
parts without their product; this loses nothing, because no action or property
reads two parts. Fairness is that of each module, guarded by the focus.

## 3. Runs

| Run | Bounds | Shows |
|---|---|---|
| `queue_governance` | 3 operations, client and relay, 1 worker, cancellation, 1 stop | types, dependency order, no operation closed while it owns a target, honest aggregation |
| `queue_archive` | 2 operations (edits, relay applies), 2 workers, failing store calls, a Salt node that is archived and restored, 1 stop | an archived node's work is drained; no target is driven twice; the queue implements `TargetLease` |
| `queue_liveness` | no cancellation, 1 stop | every step and every finalization ends |
| `queue_cancel_stuck` | finding | a cancelled running step is never claimed again after a stop |
| `bridge_requests` | a local and a Salt key, 2 callers, 1 stop, failing journal writes | one answer per key, no success without effect, one execution per life, terminal operations final |
| `replay_steps` | a local and a Salt step; 2 bodies and 1 stop of each process, or 1 body and 2 stops of the control plane | a succeeded step is applied and leaves nothing pending; no recorded job is left alone; every step ends while the Bridge stays up |
| `replay_early` | finding | a fast restart replays a request that is still executing |
| `replay_stuck` | finding | a local step interrupted on both sides blocks start-up for ever |
| `local_host` | relay: 3 manifests, up to 4 faults; Skills: 3 names, 2 versions, 5 backups, retention of 1; requests: 2 nonces, half seconds, window 1 s | a success is served, a failure undone; a directory is never mixed; the catalog is on disk; a request is served once; everything settles |
| `relay_reapply` | finding, as `local_host` | a failed apply of what is already there disables and stops a running unit |
| `control_plane` | below | what was confirmed is what is applied, counted, finalized and imported, once; imports and pulls end |
| `restored_members` | finding | a restored relay backup serves members the applied configuration does not name |

Bounds. Two workers are enough for a conflict about one row and two operations
for one about a target; the third operation of `queue_governance` is the retry or
the reconcile that arrives while the other two are live and finalizing. One stop
can fall between any two transactions, into start-up recovery included; the second
stop of the control plane in `replay_steps` falls into the recovery after the first.
Two callers make a duplicate request; a third would see what the second sees. Operations, workers
and callers are interchangeable, so the queue runs use symmetry over operations
and workers where only safety is checked. Deadlock is not checked where all work
may have ended.

The new modules bound what their environment may do by budgets, sets of records
whose members trade one kind of event for another: four faults without commands or
one fault with an edit and a command. Four faults are enough to fail a commit
and its rollback, or a step and the three retries that suspend the relay. In `RequestAuth` two fractions of a second
are enough for the rounding to matter, a window of one second leaves time to
forget a nonce and deliver its request again, and two nonces let one request prune the
other's. In `Telemetry` a drain of 1 from a buffer of 2 stands for 1,000 of
100,000, so that a batch can end before another cursor. In `Governance` one
server with four contracts gives a rename, a changed signature and a split.
`ProfileApply` has two Profiles, Skills and writers, enough for a purge between
read and save and for two previews of one bundle. `Intake` has two items in chunks
of one, so that a stop falls between chunks. `ConfigMigration` names all 1,728
configurations of three definitions over three base names, one of which looks like
another's suffix and one as long as a name may be, and imports four with two concurrent invocations, an edit, a stop
and a use of the destination.

Fairness. Workers are goroutines in a loop and their store calls return, so each
worker's next step is weakly fair; so are start-up recovery and finalization,
which systemd's restart repeats. A goroutine of the Bridge goes on because every
poll has a deadline. The scheduler ticks, so reconciles and telemetry pulls are
created again; the relay's reconcile is strongly fair because operator commands can
take its turn but do not go on for ever. Time passes: a retry comes due. The
migration tool runs to its end and the administrator repeats a dry run and an
apply. No fairness is assumed of the API, of discovery, of stops, of a caller
giving up, of users' edits or of faults.

Exceptions inside properties are states of the code, named where they occur:
`RoutingStuck` (only the routing file differs and no admin socket answers: the hot
reload that reconcile chooses can never succeed), `Outgrown` (a member that joins
late has an old cursor and every pull is refused until the buffer moved on),
`Unattributed` (the same because of an observation of a default session),
`NothingToWrite` (the apply that takes no snapshot, whose failure may leave the unit
stopped and disabled, but never half way),
`Wedged` (a migration that stopped between account and environment, or two
bootstraps at once, leave a destination that is never pristine again), a server
renamed between two attempts of its import, and an invalid entry with the name of a
desired Skill.

## 4. Findings

The five violation runs are described with the sentences they contradict in
`PROJECT.json`: a cancelled running step that a restart leaves queued for ever,
the replay that is too early, local operations that a Bridge restart leaves
running, a failed apply of a matching manifest that stops the relay it found running
(`FailedCommitUndone` without its exception), and a restore that changes the relay's
member set behind the applied configuration.

The exception `Unattributed` of `TelemetryCatchesUp` is a disagreement, too: a session
without `?profile=` is allowed (docs/BRIDGE.md:167-168) and observed under the nil UUID
(`mcpm/src/mcpm/toolhub/routing.py:88-116`, `gateway.py:315-328`), `telemetryClientKindTx`
(`telemetry.go:130`) refuses its observations, and one of them keeps itself and all that
follow it in the relay's buffer out of the daily aggregates into which docs/API.md:276
says the ring is drained. Without the exception TLC finds this behaviour.

Two related windows are in the models without a run of their own: after a restart `CancelOperation` also cancels a queued step that was already
dispatched, and a Bridge stop between `Dispatch` and `PutRunningSaltOperation`
leaves a Salt job that nothing remembers.

## 5. Proofs

### Ownership of targets

About the queue, for every set of operations, targets, nodes and workers and every
bound, from `ConstantsAssumption` alone:

* `QueueInvariant`: `Spec => []QueueInv`;
* `QueueTypeCorrect`: `Spec => []TypeOK`;
* `TargetExclusive`: `Spec => []ExclusiveTarget`;
* `QueueImplementsLease`: `Spec => ImplementsLease`, that is `TargetLease` under
  the mapping above.

`ExclusiveTarget` speaks about workers and is not inductive: nothing in it says
that the row a worker holds is still the running row of its target. `QueueInv`
adds `Index` (at most one row per target is live or owned by a finalizer, what
the unique index enforces), `FreshIds` (an operation id not yet used has no rows,
so an insert cannot overwrite one) and `Holding` (a worker between claim and
finish holds a running row no other worker holds). There is one lemma per action
and `NextInv` combines them.

The refinement sorts the actions of the queue into three kinds. An insertion of
rows is a `Grant` (`Inserts`): the index makes the targets free and `FreshIds` the
holder new. A claim is a `Drive`: `Holding` and `Index` show that the row is held
and nobody drives it. Everything else lets go (`LetsGo`): workers stop driving, and
rows leave the held set only when nobody drives them any more, a whole set at once
for cancellation, dependency failure, archiving, finalization and stops. The
mapping needs one invariant more, `PendInserted`: a row owned by a finalizer was
inserted, so that giving it back puts it into `past` for good.

### Requests

About the nonces, for every window, resolution of the clock, set of requests and
length of time, from `AuthAssumption` and `StallAssumption` (a delivery spends less
than a second between `VerifyRequest` and `AcceptNonce`):

* `RequestServedOnce`: `AuthSpec => []ServedOnce`.

`AuthInv` says what a remembered and a forgotten nonce stand for. A remembered one
belongs to a served request whose timestamp is at most a window after the second it
was seen (`RememberedServed`, from the window check of the delivery that was
served). It is pruned when two windows and the rest of that second have passed
(`PrunedLate`, where rounding down matters), so its request is out of the window by
more than a whole second, and no delivery that was verified less than a second ago
can still be pending (`ForgottenStale`). A longer stall breaks the last step.

### Outcomes of the queue

From `ConstantsAssumption` alone, on top of `QueueInv` (`QueueOutcomes`):

* `DependenciesFirst`: `Spec => []DependencyOrder`;
* `OpenExactlyWhileOwned`: `Spec => []OpenWhileOwned`;
* `OutcomesHonest`: `Spec => []HonestOutcome`;
* `ArchivedNodesDrained`: `Spec => []ArchivedNodeDrained`.

`OutcomeInv` has facts about rows (`DepShape`, `ApplyEdges`: which edges a Profile
Apply has, so that a retry or a restart finds the same ones; `GovernedLocal`: a
governed operation has no row that archiving could end) and facts about one
operation, `OpInv(o)`. The result of an operation is computed from its rows when
the last of them ends, and for a governed one a second time by the finalizer. So the
invariant has to say that rows owned by a finalizer belong to an operation none of
whose rows went wrong (`PendClean`), that an open governed operation without a
failed row is owned whole (`GovernedOwned`; otherwise its last row would close it
before its finalizer), and that a worker about to finalize sees only terminal rows
(`FinalizeReady`). Most actions only age the rows of an operation or recalculate it
and are covered by lemmas on single operations that do not name the action.

### The Bridge and its replay

From `BridgeAssumption` (the second `NoReq` conjunct says that no record is the same
value as the missing record) and, for the composition, `ReplayAssumption`; for any keys,
callers, bodies, executions, stops and failing journal writes:

* `AnswersAgree`: `Spec => []OneAnswer`;
* `SuccessesApplied`: `Spec => []SuccessMeansApplied`;
* `ExecutesOncePerLife`: `Spec => []ExecutedOncePerLife`;
* `FinishedOperationsStay`: `Spec => FinishedStays`, an action property;
* `SucceededStepsApplied`: `ReplaySpec => []StepSucceededApplied`;
* `BridgePromisesKept`: the three invariants above under `ReplaySpec`;
* `RecordedJobsDriven`, `ReplayedJobsDriven`: `[]RecordedJobIsDriven` under either
  specification if `~JournalErrors`.

None of these is inductive, because an answer can come from three places: the
stored response, the operation, and a goroutine that has a result and has not
stored it. `BridgeInv` ties them together. `OneOwner`: one goroutine at a time is
between `IdempotencyBegin` and the reply of a key. `Record(k)`: a key without a
record has no terminal operation, no recovery record and no answered caller; only
the stored answer was ever given. `Call(c)`: while a goroutine executes, its
operation is open and its record pending; from the outcome on, operation and stored
answer agree with its own result if they are there at all. `WorldLanded`: what a
target holds, and a job that ended well, has landed, which is where a recovered
success comes from.

`RecordedJobIsDriven` needs its hypothesis. If the write that settles the operation
and `DeleteSaltRecovery` both fail, operation and recovery record stay while the
goroutine ends, until the next start; `replay_steps` too runs with a journal whose
writes succeed.

The composition inherits `BridgeInv`: to the Bridge a step of the control plane is
a request, a disconnected caller or nothing; a stop closes many connections at
once. `ReplayInv` adds that a waiting worker's request is one of its own key and was
not given up (`Waiting`), that the journal keeps the answer of a succeeded step,
and that what landed in a Bridge that never stopped has no job left (`JobsOver`).

### Skill directories and backups

From `SkillAssumption` alone, for any names, versions, manifests, number of backups,
retention and budgets:

* `RootsNeverMixed`: `SkillSpec => []RootNeverMixed`;
* `SuccessesTruthful`: `SkillSpec => []SuccessIsTruthful`;
* `CatalogsOnDisk`: `SkillSpec => []CatalogOnDisk`.

`RootNeverMixed` and `SuccessIsTruthful` look at single places of a step; `Placed`
says for every place what the directory, the stage and the directory renamed away
are, and `Intended` what the step means to install. The backup is what makes the way
back possible, so `Protecting` says that the backup of a running step is whole, the
newest, and in no collection that runs beside it: `GCBackups` keeps the newest ones
and `MaxPerTarget` is not zero. `Stored(i)` relates store, catalogs and collection of
one backup: a number not given out is nowhere, what a collection still has to remove
is catalogued, and what it has removed is gone before the catalog forgets it.

### Imports and telemetry

From `IntakeAssumption` and `TelemetryAssumption`, for any entries, chunk size, servers,
batch and buffer size and budgets:

* `ImportsForgetNothing`: `IntakeSpec => []NothingForgotten`;
* `ServersBroughtOnce`: `IntakeSpec => []ServerBroughtOnce`;
* `ObservationsCountedOnce`: `TelSpec => []CountedOnce`.

A Skill import is described attempt by attempt: while it runs, every item of the
stored request is to be exported, in the chunk, failed or committed (`Running`), so
that narrowing the request to the failed items loses none of the others. For MCP
servers the step that has captured its entry has no row yet, and one row at most has
the entry's name.

Counting rests on the cursors. Everything before a cursor of this boot that the
relay still holds is counted (`Reached`), everything counted is covered by its
server's cursor (`Counted`), and a drained batch is a part of its boot's log that no
later cursor has overtaken (`Drain`). Only then can `IngestRelayObservations` decide by cursor alone
whether an observation is new, also for a batch that arrives after a reboot. A refused
batch moves neither cursor nor aggregates. The
slowest cursor exists because a non-empty set of numbers has a least one, which
the proof takes from well-founded induction.

### Profiles

From `ProfileAssumption`, for any Profiles, Skills, writers, hosts and bundles (the
sets from which the initial state chooses its Profile and Skill are not empty and
a bundle names versions within the bound):

* `AppliesDeliverRevisions`: `ProfSpec => []AppliedIsTheRevision`;
* `ConfirmationsUsedOnce`: `ProfSpec => []ConfirmedOnce`;
* `SavesLoseNoUpdate`: `ProfSpec => NoLostUpdate`, an action property.

Numbers identify revisions only as long as rows are not purged. `Current(id, rev,
pins)` says what is left of a value read earlier: its number is behind the row's, or
it is the row's and the pins are the same, or the row is gone or was created again
(`reborn`). Forms, previews and confirmations hold values of this kind.
A confirmation keeps its Profile from being purged (`Confirmation`), so a stored
request or a snapshot names a revision that exists with its pins (`NamesRevision`).
`Operations` adds that the tokens of an operation are used and shared with no other
operation; `BundlesOnce`, that an imported bundle has a fingerprint and a Profile. Every
action is first shown to be an evolution of the Profiles (`Evolves`: a row stays,
gains a revision or is purged when nothing names it), which keeps all of this.

### The shared relay

From `RelayAssumption` alone, for any manifests, failing calls, stops of the Bridge,
edits and commands:

* `AppliesServed`: `RelaySpec => []AppliedIsServed`;
* `FailuresUndone`: `RelaySpec => []FailedCommitUndone`;
* `ReconcilesRespectUser`: `RelaySpec => ReconcileRespectsUser`, an action property.

Both invariants look at the answer; everything that decides it happened many calls
earlier. `Where` says which request can be at which place: only a commit that wrote
takes anything back, a pause that is respected leads to `EnsurePaused` and never to a
start. `Untouched` says what an undisturbed commit has left alone so far: the unit is
the one it found until the restart, the files are the manifest's once they are written
and the old ones again once they are restored, and a reconcile has kept the user's
entries. `SnapshotTaken` says what an undisturbed commit goes back to: the unit it found,
or the zero snapshot if it had nothing to write. `ReadsFiles` carries what the running process has read: the files on disk, or
those the commit found as long as it has not restarted. `Counted` keeps a suspended
relay free of reconciles. A first attempt failed for a good reason: the process falls
behind its files not only by a stop but also when a pause, or a stop on the way back,
fails after the files were replaced, so that a later apply that finds an equal registry
restarts nothing and reports success. The history variable had missed that, TLC
confirmed the behaviour, and `behind` now records it.

`HostTypes` (`HostSpec => []HostTypeOK`) puts the parts of the host together: each step
of the composition is a step or a stutter of every part, so the invariants add up.

### Routing governance

From `GovernanceAssumption` alone, for any servers, tools, shapes, Profiles and budgets:

* `FinalizersPinServed`: `GovSpec => FinalizedIsServed`;
* `EnforcementCanReturn`: `GovSpec => EnforcementHasWayBack`.

Both are action properties about a finalization, which compares only hashes. `GovInv`
says what the operation that owns the relay has known since it was created. Once it has
reloaded, the relay serves its bundle (`Owner`): other work waits for the target.
A job that enforces was created for the applied configuration, with a bundle whose
contracts were all accepted and paused no tool (`AllReviewed`), and its backup is one
the relay has. Contracts may be observed, accepted and renamed afterwards; because the
same rendering gives the same bundle, the hash check carries the review of the creation
to the finalization. `Revisions`, `Reviews`, `Routed` and `Preflighted` say that pointers,
proposals, bundles and previews name revisions that exist; revisions are only added.

### The generation-1 import

From `MigrationAssumption`, for any number of invocations, definitions, edits and stops
(a snapshot has finitely many definitions and the form `IsSnapshot` gives; the longest
suffix fits into a name, 39 of 128 characters in the code):

* `ImportsAreReviewed`: `MigSpec => SuccessIsTheReview`, an action property;
* `ImportsKeepNames`: `MigSpec => []NamesKept`.

An apply compares with the review once and imports several transactions later. `MigInv`
says that the plan it carries has a reviewed fingerprint (`Carries`), that the marker of
the destination is the fingerprint of its content (`Destination`), and what each stage
may rely on though other invocations run beside it (`ReliesOn`): at the verification the
content it finds has the fingerprint of its plan.

`NamesKept` is about a loop. Its proof needs recursion and induction over numbers, which
`Recursion` and `AllNumbers` provide from the fact that a non-empty set of numbers has a
least one. `Before` is shown to be a total order, so every turn of the loop is that of
exactly one loser (`EveryTurn`); a keeper exists for every base name and is wanted
if any definition with that name is (`SomeKeeper`); after each turn (`Given`) keepers
have their base names, losers a candidate of theirs, and no two names are the same.

### The types of the control plane

* `PlaneTypes`: `PlaneSpec => []PlaneTypeOK`.

`PlaneTypeOK` says more than domains: rows refer to rows. It follows from the invariants
of the five parts, three facts about imports and the Library added: work in progress is
part of the stored request, which is part of what was asked for (`SkillShape`), a step
of an import is a token and an attempt (`MCPShape`), and the current version of a Skill is held
(`LibraryShape`). `IntakeAssumption` has contents start at 1.

### What TLC checks and TLAPS does not

The inductive invariants were checked with TLC on the instances of section 3, some with
larger budgets, before they were proved. Only model-checked are the liveness properties
(`EveryStepEnds`, `EveryStepSettles`, `RelaySettles`, `SkillsSettle`, `ServedConverges`,
`TelemetryCatchesUp`, `ImportsEnd`, `RepeatedApplyImports`), because fairness and
`ENABLED` are out of the prover's reach, and the counterexamples of section 4.

## 6. Not modelled, and the plan

Left to prove are the liveness properties above. Left to model, if the code grows there:
user edits of nodes and targets, and the retention of old rows.

Not modelled:

* the relay gateway (`mcpm/`), a Python service of its own; what the Go side relies
  on is external in the models (it loads the routing file on reload and buffers
  observations per boot);
* publication of Profiles into routing, which has had no live effect since
  migration 015;
* sessions, passwords, HMAC and encryption (cryptography);
* marketplace and AI clients, archive scanning (network and file formats), the web
  UI, packaging, the subagent policy script (an administrator's batch over the
  same API);
* deletion of old rows by retention and the single-transaction CRUD of the resource
  tables, whose correctness is relational constraints of PostgreSQL;
* the inventory of client MCP files, except for what an import reads of it.
