---------------------------- MODULE RelayRuntime ----------------------------
(***************************************************************************)
(* The shared mcpm relay of the local node: the files RelayManager writes  *)
(* (internal/runtime/relay.go), the systemd unit it restarts, the probes   *)
(* (relay_probe.go, mcpm_admin.go), the worker steps that drive it         *)
(* (worker.go execute, executeCommit, executeReconcile) and the projection *)
(* they leave in target_desired_snapshots (store/snapshots.go).            *)
(*                                                                         *)
(* A target is owned by one step at a time (OperationQueue), so there is   *)
(* at most one request in the Bridge.  One action is one file write, one   *)
(* systemctl call, one probe or one transaction; the Bridge may stop, the  *)
(* caller may disconnect, the process may die and the user may edit a file *)
(* between any two.                                                        *)
(*                                                                         *)
(* A manifest is the pair of the runtime configuration it asks for (MCP    *)
(* servers, secrets, port) and its routing bundle.  A file holds the       *)
(* configuration it was rendered from, or Foreign content.                 *)
(***************************************************************************)
EXTENDS Naturals, Sequences

CONSTANTS
    Runs,           \* runtime configurations
    Routes,         \* routing bundles
    NoRoute,        \* no routing file; no routing in a v1 manifest
    Foreign,        \* content ToolHub did not write
    Manifests,      \* the manifests that exist
    Budgets         \* bounds: how many faults (failing calls, stops,
                    \* disconnects, deaths), edits (of files, of settings)
                    \* and operator commands a behaviour may contain

ASSUME RelayAssumption ==
    /\ Manifests \subseteq [run : Runs, route : Routes \cup {NoRoute}]
    /\ Foreign \notin Runs \cup Routes
    /\ NoRoute \notin Routes \cup {Foreign}
    /\ Budgets \subseteq [faults : Nat, edits : Nat, commands : Nat]

VARIABLES
    disk,       \* registry, client anchors, unit environment, routing file
    unit,       \* systemd: [active, enabled]
    loaded,     \* what the running mcpm process read when it started
    admin,      \* the unit is started with the routing and admin flags
    desired,    \* target_desired_snapshots: the pinned manifest
    paused,     \* settings.relay_intentional_paused
    proj,       \* projection: health, failures, retry, suspended, probeDue
    backup,     \* the latest backup in the catalog, as a set of at most one
    form,       \* the pause flag an open Settings page will send back
    at,         \* where the step is
    op,         \* the request and its state
    behind,     \* history: the process may have read other files than these
    budget      \* faults, edits and commands that are left

relayVars == <<disk, unit, loaded, admin, desired, paused, proj, backup,
               form, at, op, behind, budget>>

Parts == {"registry", "anchors", "env", "routing"}
Contents == Runs \cup {Foreign}
Disks == [registry : Contents, extra : BOOLEAN, anchors : Contents,
          env : Contents, routing : Routes \cup {NoRoute, Foreign}]

Commits == {"apply", "restore", "reconcile"}
Controls == {"start", "stop", "restart", "health"}
NoOp == [kind |-> "none"]

\* Where a step can be; every place but idle and answer is inside Bridge.
Places == {"idle", "begin", "write", "reload", "pausing", "stop",
           "start", "wait", "undo", "reloadback", "undostop", "undostart",
           "answer"}
-----------------------------------------------------------------------------
(* What the code reads off the files and the process.                      *)

\* relayRuntimeConfigurationMatches: without preserveUnmanaged a tagged
\* registry entry or Hermes server that is not desired is a difference too.
RuntimeMatches(d, m, preserve) ==
    /\ d.registry = m.run /\ d.anchors = m.run /\ d.env = m.run
    /\ preserve \/ ~d.extra

\* relayRoutingMatches, canonicalRelayRouting: a v1 manifest has no routing.
RoutingMatches(d, m) == m.route = NoRoute \/ d.routing = m.route

\* relayConfigurationMatches
ConfigurationMatches(d, m, preserve) ==
    RuntimeMatches(d, m, preserve) /\ RoutingMatches(d, m)

\* ScanSharedRelay: the revision covers the tagged registry entries and the
\* anchors scanRelayAnchors finds, neither the environment nor the routing
\* file.
ScannedAnchors(d) == d.anchors
RelayRevision(d) == <<d.registry, d.extra, ScannedAnchors(d)>>

\* The anchors in the Claude, Codex and Hermes configurations, the unit's
\* environment file and the routing file as their writers leave them.
AnchorsOf(m) == m.run
EnvironmentOf(m) == m.run
RoutingOf(d, m) == IF m.route = NoRoute THEN d.routing ELSE m.route

\* Mutant: a reconcile removes what is not desired, like an apply.
RenderedAsApply(d, m, preserve) ==
    [registry |-> m.run, extra |-> FALSE, anchors |-> AnchorsOf(m),
     env |-> EnvironmentOf(m), routing |-> RoutingOf(d, m)]

\* writeRelayConfiguration: tagged entries that are not desired go unless
\* preserveUnmanaged; the other files are those above.
Rendered(d, m, preserve) ==
    [registry |-> m.run, extra |-> preserve /\ d.extra, anchors |-> AnchorsOf(m),
     env |-> EnvironmentOf(m), routing |-> RoutingOf(d, m)]

\* readSafeConfig and atomicWrite of one part; extra entries live in the
\* registry file.
Put(d, goal, part) ==
    LET new == [d EXCEPT ![part] = goal[part]]
    IN  IF part = "registry" THEN [new EXCEPT !.extra = goal.extra] ELSE new

\* The mcpm process reads registry, port and, with the flags, routing.
Started == [run |-> disk.registry, port |-> disk.env, sick |-> FALSE,
            route |-> IF admin THEN disk.routing ELSE NoRoute]
NotRunning == [run |-> Foreign, port |-> Foreign, sick |-> FALSE,
               route |-> NoRoute]

\* The admin socket exists while a process started with a bundle runs.
AdminUp == unit.active /\ loaded.route # NoRoute

\* Status without manifests: systemctl is-active and an HTTP GET.
HttpHealthy(port) == unit.active /\ loaded.port = port /\ ~loaded.sick

\* probeCompatibilityRelay: any MCP endpoint on the port will do.
CompatibilityProbed(m) == HttpHealthy(m.run)

\* relayStatusMatchesManifest and attributeObservedRelayContracts compare what
\* the admin socket reports with the manifest.
GovernedProbed(m) ==
    /\ m.route # NoRoute => loaded.route = m.route
    /\ loaded.run = m.run

\* ProbeMembers: without an admin socket only the compatibility probe.
Probed(m) == CompatibilityProbed(m) /\ (AdminUp => GovernedProbed(m))

\* waitUntilHealthy: a governed manifest needs the probe as well.
Ready(m) == HttpHealthy(m.run) /\ (m.route # NoRoute => Probed(m))

\* Status with the pause intent: neither running nor enabled.
PauseEnforced == ~unit.active /\ ~unit.enabled
-----------------------------------------------------------------------------
(* UpdateTargetHealth and UpdateRelayProjection.                           *)

\* updateTargetHealthTx on the error paths leaves the retry schedule alone.
Blocked(p) == [p EXCEPT !.health = "blocked"]

\* Mutant: a failing retry counts twice.
RetriedTwice(p) ==
    LET n == p.failures + 2
    IN  [p EXCEPT !.failures = n, !.retry = IF n < 3 THEN "waiting" ELSE "none",
                  !.suspended = n >= 3]

\* The wait of the n-th failing retry; the third one suspends the relay.
Retried(p) ==
    LET n == p.failures + 1
    IN  [p EXCEPT !.failures = n,
                  !.retry = IF n < 3 THEN "waiting" ELSE "none",
                  !.suspended = n >= 3]

\* UpdateRelayProjection.
Projected(p, h, policy, checked) ==
    LET q == [p EXCEPT !.health = h, !.probeDue = @ /\ ~checked]
    IN  CASE h = "healthy" ->
               [q EXCEPT !.failures = 0, !.retry = "none", !.suspended = FALSE]
          [] h # "healthy" /\ policy = "reset" ->
               [q EXCEPT !.failures = 0, !.retry = "waiting", !.suspended = FALSE]
          [] h # "healthy" /\ policy = "retry" -> Retried(q)
          [] h # "healthy" /\ policy = "observe" ->
               [q EXCEPT !.retry = IF @ = "none" /\ ~p.suspended
                                   THEN "waiting" ELSE @]
-----------------------------------------------------------------------------
(* The worker claims a step and reads what the request is made of.         *)

Request(kind, m) ==
    [kind |-> kind, m |-> m, paused |-> FALSE, full |-> FALSE,
     retried |-> FALSE, expected |-> RelayRevision(disk),
     before |-> disk, found |-> unit, proc |-> unit, goal |-> disk, todo |-> <<>>,
     wrote |-> FALSE, undo |-> "none", cancelled |-> FALSE, clean |-> TRUE,
     result |-> "none", health |-> "none", checked |-> FALSE]

Claim(request) ==
    /\ at = "idle"
    /\ op' = request
    /\ at' = "begin"
    /\ UNCHANGED <<disk, unit, loaded, admin, desired, paused, proj, backup,
                   form, behind>>

Command == /\ budget.commands > 0
           /\ budget' = [budget EXCEPT !.commands = @ - 1]

\* executeCommit of apply, edit, relay_config_apply and policy_apply: the
\* expected revision is the one the operator's preflight saw.
ClaimApply(m) == Command /\ Claim(Request("apply", m))

\* executeCommit of restore: the manifest comes from the backup's catalog
\* row, the pause intent from the settings.
ClaimRestore ==
    /\ Command
    /\ \E b \in backup :
          Claim([Request("restore", b.m) EXCEPT !.paused = paused,
                                                !.goal = b.disk])

\* Mutant: a blocked relay is left to the operator.
OnlyWhileHealthy == ~proj.suspended /\ proj.health # "blocked"

\* executeReconcile of a step EnqueueReconciles made: a suspended relay and a
\* blocked one that waits are left out; a blocked one is probed in full.
ReconcileDue ==
    ~proj.suspended /\ (proj.health # "blocked" \/ proj.retry # "waiting")

ClaimReconcile ==
    /\ ReconcileDue
    /\ Claim([Request("reconcile", desired) EXCEPT
                !.paused = paused,
                !.full = proj.health = "blocked" \/ proj.probeDue,
                !.retried = proj.retry # "none"])
    /\ UNCHANGED budget

\* execute of relay_start, relay_stop, relay_restart and relay_health.
ClaimControl(kind) ==
    /\ Command
    /\ Claim([Request(kind, desired) EXCEPT !.paused = paused])
-----------------------------------------------------------------------------
(* Steps inside the Bridge.  A systemctl call, an HTTP probe or an admin   *)
(* call fails when the caller is gone; otherwise its failure is a fault.   *)

bridgeFixed == <<admin, desired, paused, proj, backup, form>>

Fault == /\ budget.faults > 0
         /\ budget' = [budget EXCEPT !.faults = @ - 1]
CallFails == IF op.cancelled THEN UNCHANGED budget ELSE Fault
CallWorks == ~op.cancelled /\ UNCHANGED budget

GoTo(place, request) == at' = place /\ op' = request
Answered(request, result, h) ==
    GoTo("answer", [request EXCEPT !.result = result, !.health = h])

\* An unhealthy relay: a commit that wrote files takes them and the process
\* back, anything else reports a blocked relay and succeeds.
Unhealthy(request) ==
    IF request.wrote
    THEN GoTo("undo", [request EXCEPT !.undo = "process"])
    ELSE Answered([request EXCEPT !.checked = TRUE], "ok", "blocked")

\* RelayManager.Apply and Restore: the configuration changed after preflight.
BeginRefused ==
    /\ at = "begin" /\ op.kind \in Commits \ {"reconcile"}
    /\ op.expected # RelayRevision(disk)
    /\ Answered(op, "failed", "blocked")
    /\ UNCHANGED <<disk, unit, loaded, behind, budget, bridgeFixed>>

\* Apply of a reconcile that finds nothing to write: keep the pause, accept a
\* healthy relay, or restart an unhealthy one.
BeginMatching ==
    /\ at = "begin" /\ op.kind = "reconcile"
    /\ ConfigurationMatches(disk, op.m, TRUE)
    /\ IF op.paused THEN GoTo("pausing", op) /\ UNCHANGED budget
       ELSE \/ /\ ~op.cancelled
               /\ IF op.full THEN Probed(op.m) ELSE HttpHealthy(op.m.run)
               /\ Answered([op EXCEPT !.checked = op.full], "ok", "healthy")
               /\ UNCHANGED budget
            \/ /\ ~(IF op.full THEN Probed(op.m) ELSE HttpHealthy(op.m.run))
               /\ GoTo("stop", op) /\ UNCHANGED budget
            \/ CallFails /\ GoTo("stop", op)
    /\ UNCHANGED <<disk, unit, loaded, behind, bridgeFixed>>

\* backup and backupRelayFiles: the durable copy and the in-memory one.  The
\* history field found is the unit at that moment, whether asked for or not.
BackedUp(request) ==
    [request EXCEPT !.before = disk, !.found = unit, !.wrote = TRUE]

\* Apply of a manifest all files already match, which an operator may ask for;
\* a reconcile of one has ended in BeginMatching, and Restore does not compare.
NothingToWrite(request) ==
    /\ request.kind # "restore"
    /\ ConfigurationMatches(request.before, request.m, request.kind = "reconcile")

\* The zero relayProcessSnapshot.
NoSnapshot == [active |-> FALSE, enabled |-> FALSE]

\* captureRelayProcess, called only when a file will be written; a failing
\* query reads as not running, not enabled.
Captured(request, works) ==
    [request EXCEPT !.proc = IF works /\ ~NothingToWrite(request)
                             THEN unit ELSE NoSnapshot,
                    !.clean = @ /\ works]

\* ValidateMCPM runs the mcpm binary, except under a pause or for a restore.
ValidatesMCPM == ~op.paused /\ op.kind # "restore"

\* What Apply will write: the parts that do not match.
Outdated(m, preserve) ==
    (IF RuntimeMatches(disk, m, preserve) THEN <<>> ELSE <<"registry", "anchors", "env">>)
    \o (IF RoutingMatches(disk, m) THEN <<>> ELSE <<"routing">>)

\* The rest of Apply and Restore up to the first write: ValidateMCPM, the
\* process snapshot and the backups.
BeginWriting ==
    /\ at = "begin" /\ op.kind \in Commits
    /\ op.kind # "reconcile" => op.expected = RelayRevision(disk)
    /\ op.kind = "reconcile" => ~ConfigurationMatches(disk, op.m, TRUE)
    /\ LET request == [BackedUp(op) EXCEPT
                         !.todo = IF op.kind = "restore"
                                  THEN <<"registry", "anchors", "env", "routing">>
                                  ELSE Outdated(op.m, op.kind = "reconcile")]
       IN  \/ CallWorks /\ GoTo("write", Captured(request, TRUE))
           \/ ValidatesMCPM /\ CallFails /\ Answered(op, "failed", "blocked")
           \/ /\ CallFails /\ (ValidatesMCPM => ~op.cancelled)
              /\ ~NothingToWrite(request)
              /\ GoTo("write", Captured(request, FALSE))
    /\ UNCHANGED <<disk, unit, loaded, behind, bridgeFixed>>

\* restoreRelayBackup: the files of the selected backup; otherwise the files
\* as the writers render them.
Goal ==
    IF op.kind = "restore" THEN op.goal
    ELSE Rendered(disk, op.m, op.kind = "reconcile")

\* writeRelayConfiguration, writeRelayEnvironment, writeRelayRouting or
\* restoreRelayBackup: one file, read, changed and written; an error takes all
\* files back.
WriteFile ==
    /\ at = "write" /\ op.todo # <<>>
    /\ \/ /\ disk' = Put(disk, Goal, Head(op.todo))
          /\ GoTo("write", [op EXCEPT !.todo = Tail(@)])
          /\ UNCHANGED budget
       \/ /\ Fault
          /\ GoTo("undo", [op EXCEPT !.undo = "files"])
          /\ UNCHANGED disk
    /\ UNCHANGED <<unit, loaded, behind, bridgeFixed>>

\* Mutant: a changed routing is enough for the hot reload.
HotReloadOnRouting ==
    op.kind # "restore" /\ ~RoutingMatches(op.before, op.m) /\ op.before.routing # NoRoute

\* Only the routing changed and a previous bundle exists: hot reload.
HotReload ==
    /\ op.kind # "restore"
    /\ RuntimeMatches(op.before, op.m, op.kind = "reconcile")
    /\ ~RoutingMatches(op.before, op.m)
    /\ op.before.routing # NoRoute

\* A paused relay is kept down, unless an operator applies.
AfterWriting ==
    CASE op.paused /\ op.kind # "apply" -> "pausing"
      [] ~(op.paused /\ op.kind # "apply") /\ HotReload -> "reload"
      [] OTHER -> "stop"

\* The integrity check of Apply and Restore and the choice of what follows.
Verify ==
    /\ at = "write" /\ op.todo = <<>>
    /\ \/ /\ ~ConfigurationMatches(disk, op.m, op.kind # "apply")
          /\ GoTo("undo", [op EXCEPT !.undo = "files"])
       \/ /\ ConfigurationMatches(disk, op.m, op.kind # "apply")
          /\ GoTo(AfterWriting, op)
    /\ UNCHANGED <<disk, unit, loaded, behind, budget, bridgeFixed>>

\* reloadRoutingAndCheck and the HTTP check after it.
Reload ==
    /\ at = "reload"
    /\ \/ /\ AdminUp /\ CallWorks
          /\ loaded' = [loaded EXCEPT !.route = disk.routing]
          /\ IF disk.routing = op.m.route /\ HttpHealthy(op.m.run)
             THEN Answered(op, "ok", "healthy")
             ELSE GoTo("undo", [op EXCEPT !.undo = "reload"])
       \/ /\ IF AdminUp THEN CallFails ELSE UNCHANGED budget
          /\ GoTo("undo", [op EXCEPT !.undo = "reload"])
          /\ UNCHANGED loaded
    /\ UNCHANGED <<disk, unit, behind, bridgeFixed>>

\* EnsurePaused.  The query's own failure reads as a paused relay.
EnsurePaused ==
    /\ at = "pausing"
    /\ \/ /\ CallWorks
          /\ unit' = [active |-> FALSE, enabled |-> FALSE]
          /\ loaded' = NotRunning
          /\ Answered(op, "ok", "healthy")
          /\ UNCHANGED behind
       \/ /\ op.cancelled
          /\ Answered(op, "ok", "healthy")
          /\ behind' = (behind \/ op.wrote)
          /\ UNCHANGED <<unit, loaded, budget>>
       \/ /\ ~PauseEnforced /\ ~op.cancelled /\ Fault
          /\ IF op.kind = "restore" THEN Unhealthy(op)
             ELSE Answered([op EXCEPT !.checked = TRUE], "ok", "blocked")
          /\ behind' = (behind \/ op.wrote)
          /\ UNCHANGED <<unit, loaded>>
    /\ UNCHANGED <<disk, bridgeFixed>>
-----------------------------------------------------------------------------
(* RestartFixed, RestartAndCheck, StartAndCheck and waitUntilHealthy.      *)

\* Enable and stop the unit and wait for the port; a failure may come before
\* or after either of the two took effect.
StopUnit ==
    /\ at = "stop"
    /\ \/ /\ CallWorks
          /\ unit' = [active |-> FALSE, enabled |-> TRUE]
          /\ loaded' = NotRunning
          /\ GoTo("start", op)
       \/ /\ CallFails
          /\ \/ UNCHANGED <<unit, loaded>>
             \/ ~op.cancelled /\ unit' = [unit EXCEPT !.enabled = TRUE]
                              /\ UNCHANGED loaded
             \/ /\ ~op.cancelled
                /\ unit' = [active |-> FALSE, enabled |-> TRUE]
                /\ loaded' = NotRunning
          /\ Unhealthy(op)
    /\ UNCHANGED <<disk, behind, bridgeFixed>>

\* start-unit; the process may come up unable to answer.
StartUnit ==
    /\ at = "start"
    /\ \/ /\ ~op.cancelled
          /\ unit' = [unit EXCEPT !.active = TRUE]
          /\ behind' = FALSE
          /\ \/ loaded' = Started /\ UNCHANGED budget
             \/ loaded' = [Started EXCEPT !.sick = TRUE] /\ Fault
          /\ GoTo("wait", op)
       \/ /\ CallFails
          /\ Unhealthy(op)
          /\ UNCHANGED <<unit, loaded, behind>>
    /\ UNCHANGED <<disk, bridgeFixed>>

\* waitUntilHealthy until healthy or the readiness timeout.
WaitHealthy ==
    /\ at = "wait"
    /\ IF ~op.cancelled /\ Ready(op.m)
       THEN Answered([op EXCEPT !.checked = op.m.route # NoRoute],
                     "ok", "healthy")
       ELSE Unhealthy(op)
    /\ UNCHANGED <<disk, unit, loaded, behind, budget, bridgeFixed>>
-----------------------------------------------------------------------------
(* The way back of a commit that failed.                                   *)

\* Mutant: the files are taken back, the process is not.
AfterUndoOfFiles(request) ==
    IF request.undo = "reload" THEN GoTo("reloadback", request)
    ELSE Answered(request, "failed", "blocked")

AfterUndo(request) ==
    CASE request.undo = "files" -> Answered(request, "failed", "blocked")
      [] request.undo = "reload" -> GoTo("reloadback", request)
      [] request.undo = "process" -> GoTo("undostop", request)

\* restoreRelayFiles goes through a map and stops at the first error, which
\* no caller acts upon.
UndoFiles ==
    /\ at = "undo"
    /\ \/ /\ disk' = op.before
          /\ AfterUndo(op)
          /\ UNCHANGED <<budget, behind>>
       \/ /\ Fault
          /\ \E done \in SUBSET Parts :
                disk' = [registry |-> IF "registry" \in done
                             THEN op.before.registry ELSE disk.registry,
                         extra |-> IF "registry" \in done
                             THEN op.before.extra ELSE disk.extra,
                         anchors |-> IF "anchors" \in done
                             THEN op.before.anchors ELSE disk.anchors,
                         env |-> IF "env" \in done
                             THEN op.before.env ELSE disk.env,
                         routing |-> IF "routing" \in done
                             THEN op.before.routing ELSE disk.routing]
          /\ behind' = TRUE
          /\ AfterUndo([op EXCEPT !.clean = FALSE])
    /\ UNCHANGED <<unit, loaded, bridgeFixed>>

\* recoverPreviousRouting.
ReloadBack ==
    /\ at = "reloadback"
    /\ \/ /\ AdminUp /\ CallWorks
          /\ loaded' = [loaded EXCEPT !.route = disk.routing]
          /\ Answered(op, "failed", "blocked")
       \/ /\ IF AdminUp THEN CallFails ELSE UNCHANGED budget
          /\ Answered(op, "failed", "blocked")
          /\ UNCHANGED loaded
    /\ UNCHANGED <<disk, unit, behind, bridgeFixed>>

\* restoreRelayProcess: stop what runs, start it again only if it ran.
UndoStop ==
    /\ at = "undostop"
    /\ \/ /\ CallWorks
          /\ loaded' = NotRunning
          /\ IF op.proc.active
             THEN /\ unit' = [active |-> FALSE, enabled |-> TRUE]
                  /\ GoTo("undostart", op)
             ELSE /\ unit' = [active |-> FALSE,
                              enabled |-> unit.enabled /\ op.proc.enabled]
                  /\ Answered(op, "failed", "blocked")
          /\ UNCHANGED behind
       \/ /\ CallFails
          /\ Answered([op EXCEPT !.clean = op.cancelled /\ @],
                      "failed", "blocked")
          /\ behind' = TRUE
          /\ UNCHANGED <<unit, loaded>>
    /\ UNCHANGED <<disk, bridgeFixed>>

\* The port the previous process answered on: relayPortFromBackup.
OldPort == IF op.before.env = Foreign THEN op.m.run ELSE op.before.env

\* Start it on the previous files; disable it again if it was not enabled,
\* unless it does not answer.
UndoStart ==
    /\ at = "undostart"
    /\ \/ /\ CallWorks
          /\ loaded' = Started
          /\ behind' = FALSE
          /\ LET answers == disk.env = OldPort
             IN  /\ unit' = [active |-> TRUE,
                             enabled |-> op.proc.enabled \/ ~answers]
                 /\ Answered([op EXCEPT !.clean = @ /\ answers],
                             "failed", "blocked")
       \/ /\ CallFails
          /\ Answered([op EXCEPT !.clean = op.cancelled /\ @],
                      "failed", "blocked")
          /\ UNCHANGED <<unit, loaded, behind>>
    /\ UNCHANGED <<disk, bridgeFixed>>
-----------------------------------------------------------------------------
(* CompositeAdapter.Relay: the fixed controls.                             *)

BeginHealth ==
    /\ at = "begin" /\ op.kind = "health"
    /\ IF op.paused
       THEN Answered(op, "ok", IF PauseEnforced \/ op.cancelled
                               THEN "healthy" ELSE "blocked")
       ELSE Answered([op EXCEPT !.checked = TRUE], "ok",
                     IF Probed(op.m) /\ ~op.cancelled
                     THEN "healthy" ELSE "blocked")
    /\ UNCHANGED <<disk, unit, loaded, behind, budget, bridgeFixed>>

BeginRestart ==
    /\ at = "begin" /\ op.kind = "restart"
    /\ GoTo("stop", op)
    /\ UNCHANGED <<disk, unit, loaded, behind, budget, bridgeFixed>>

\* StartAndCheck: systemctl enable --now does not restart a running unit.
BeginStart ==
    /\ at = "begin" /\ op.kind = "start"
    /\ \/ /\ CallWorks
          /\ unit' = [active |-> TRUE, enabled |-> TRUE]
          /\ loaded' = IF unit.active THEN loaded ELSE Started
          /\ behind' = (behind /\ unit.active)
          /\ GoTo("wait", op)
       \/ /\ CallFails
          /\ Unhealthy(op)
          /\ UNCHANGED <<unit, loaded, behind>>
    /\ UNCHANGED <<disk, bridgeFixed>>

BeginStop ==
    /\ at = "begin" /\ op.kind = "stop"
    /\ \/ /\ CallWorks
          /\ unit' = [active |-> FALSE, enabled |-> FALSE]
          /\ loaded' = NotRunning
          /\ Answered(op, "ok", "healthy")
       \/ /\ CallFails
          /\ Answered(op, "failed", "blocked")
          /\ UNCHANGED <<unit, loaded>>
    /\ UNCHANGED <<disk, behind, bridgeFixed>>
-----------------------------------------------------------------------------
(* The worker's transactions after the answer.                             *)

idleAgain == at' = "idle" /\ op' = NoOp

\* RecordBackup: the catalog pins a manifest beside the Bridge's backup.
Recorded(m) == {[disk |-> op.before, m |-> m]}

\* executeCommit after an answer of Bridge.Commit.
FinishCommit ==
    /\ at = "answer" /\ op.kind \in {"apply", "restore"}
    /\ IF op.result = "ok"
       THEN /\ paused' = (paused /\ op.kind # "apply")
            /\ backup' = Recorded(desired)
            /\ desired' = op.m
            /\ proj' = Projected(proj, op.health, "reset", op.checked)
       ELSE proj' = Blocked(proj) /\ UNCHANGED <<paused, backup, desired>>
    /\ idleAgain
    /\ UNCHANGED <<disk, unit, loaded, admin, form, behind, budget>>

\* executeReconcile after an answer of Bridge.Reconcile.
FinishReconcile ==
    /\ at = "answer" /\ op.kind = "reconcile"
    /\ IF op.result = "ok"
       THEN /\ backup' = IF op.wrote THEN Recorded(op.m) ELSE backup
            /\ proj' = Projected(proj, op.health,
                                 IF op.retried THEN "retry" ELSE "observe",
                                 op.checked)
       ELSE proj' = Blocked(proj) /\ UNCHANGED backup
    /\ idleAgain
    /\ UNCHANGED <<disk, unit, loaded, admin, desired, paused, form, behind,
                   budget>>

\* execute of a control: SetRelayIntentionalPaused follows the Bridge action
\* whatever the relay's health, then the projection.
FinishControl ==
    /\ at = "answer" /\ op.kind \in Controls
    /\ IF op.result = "ok"
       THEN /\ paused' = CASE op.kind = "stop" -> TRUE
                           [] op.kind \in {"start", "restart"} -> FALSE
                           [] op.kind = "health" -> paused
            /\ proj' = Projected(proj, op.health,
                                 IF op.kind \in {"start", "restart"}
                                 THEN "reset" ELSE "observe", op.checked)
       ELSE UNCHANGED <<paused, proj>>
    /\ idleAgain
    /\ UNCHANGED <<disk, unit, loaded, admin, desired, backup, form, behind,
                   budget>>
-----------------------------------------------------------------------------
(* What happens around the step.                                           *)

InBridge == at \notin {"idle", "answer"}

\* The Bridge process stops: nothing is taken back, and the worker's request
\* fails (executeCommit and its relatives; the target becomes blocked).
BridgeStops ==
    /\ InBridge /\ Fault
    /\ behind' = (behind \/ op.wrote)
    /\ Answered([op EXCEPT !.clean = FALSE], "failed", "blocked")
    /\ UNCHANGED <<disk, unit, loaded, bridgeFixed>>

\* The caller disconnects: the request context is cancelled.
CallerLeaves ==
    /\ InBridge /\ ~op.cancelled /\ Fault
    /\ GoTo(at, [op EXCEPT !.cancelled = TRUE])
    /\ UNCHANGED <<disk, unit, loaded, behind, bridgeFixed>>

Touched == op' = IF at = "idle" THEN op ELSE [op EXCEPT !.clean = FALSE]

ProcessDies ==
    /\ unit.active /\ Fault
    /\ unit' = [unit EXCEPT !.active = FALSE]
    /\ loaded' = NotRunning
    /\ Touched
    /\ UNCHANGED <<disk, at, behind, bridgeFixed>>

Edit == /\ budget.edits > 0
        /\ budget' = [budget EXCEPT !.edits = @ - 1]

\* The user changes a managed file, adds an entry of their own, or removes
\* the routing file.
UserEdits ==
    /\ Edit
    /\ \/ \E part \in Parts : disk' = [disk EXCEPT ![part] = Foreign]
       \/ disk' = [disk EXCEPT !.extra = TRUE]
       \/ disk' = [disk EXCEPT !.routing = NoRoute]
    /\ Touched
    /\ UNCHANGED <<unit, loaded, at, behind, bridgeFixed>>

\* updateSettings writes the whole form back, the pause flag included.
OpenSettings ==
    /\ form = "closed"
    /\ form' = IF paused THEN "paused" ELSE "running"
    /\ UNCHANGED <<disk, unit, loaded, admin, desired, paused, proj, backup,
                   at, op, behind, budget>>
SaveSettings ==
    /\ form # "closed" /\ Edit
    /\ paused' = (form = "paused")
    /\ form' = "closed"
    /\ UNCHANGED <<disk, unit, loaded, admin, desired, proj, backup, at, op,
                   behind>>

\* relay_next_retry_at passes.
RetryComesDue ==
    /\ proj.retry = "waiting"
    /\ proj' = [proj EXCEPT !.retry = "due"]
    /\ UNCHANGED <<disk, unit, loaded, admin, desired, paused, backup, form,
                   at, op, behind, budget>>

\* relay_last_member_check_at is thirty minutes old.
ProbeComesDue ==
    /\ ~proj.probeDue
    /\ proj' = [proj EXCEPT !.probeDue = TRUE]
    /\ UNCHANGED <<disk, unit, loaded, admin, desired, paused, backup, form,
                   at, op, behind, budget>>
-----------------------------------------------------------------------------
\* A relay that was applied and serves its manifest.
RelayInit ==
    \E m \in Manifests :
        /\ admin \in BOOLEAN
        /\ desired = m
        /\ disk = [registry |-> m.run, extra |-> FALSE, anchors |-> m.run,
                   env |-> m.run, routing |-> m.route]
        /\ unit = [active |-> TRUE, enabled |-> TRUE]
        /\ loaded = [run |-> m.run, port |-> m.run, sick |-> FALSE,
                     route |-> IF admin THEN m.route ELSE NoRoute]
        /\ paused = FALSE
        /\ proj = [health |-> "healthy", failures |-> 0, retry |-> "none",
                   suspended |-> FALSE, probeDue |-> FALSE]
        /\ backup = {}
        /\ form = "closed"
        /\ at = "idle" /\ op = NoOp
        /\ behind = FALSE
        /\ budget \in Budgets

BridgeStep ==
    \/ BeginRefused \/ BeginMatching \/ BeginWriting
    \/ BeginHealth \/ BeginRestart \/ BeginStart \/ BeginStop
    \/ WriteFile \/ Verify \/ Reload \/ EnsurePaused
    \/ StopUnit \/ StartUnit \/ WaitHealthy
    \/ UndoFiles \/ ReloadBack \/ UndoStop \/ UndoStart

Finish == FinishCommit \/ FinishReconcile \/ FinishControl

Operator ==
    \/ \E m \in Manifests : ClaimApply(m)
    \/ ClaimRestore
    \/ \E kind \in Controls : ClaimControl(kind)
    \/ OpenSettings \/ SaveSettings

World == BridgeStops \/ CallerLeaves \/ ProcessDies \/ UserEdits
Clock == RetryComesDue \/ ProbeComesDue

RelayNext == BridgeStep \/ Finish \/ ClaimReconcile \/ Operator \/ World \/ Clock

\* The Bridge and the worker go on, time passes and the scheduler ticks;
\* operators, users and faults owe nothing.
RelayFairness ==
    /\ WF_relayVars(BridgeStep) /\ WF_relayVars(Finish)
    /\ SF_relayVars(ClaimReconcile)
    /\ WF_relayVars(RetryComesDue) /\ WF_relayVars(ProbeComesDue)

RelaySpec == RelayInit /\ [][RelayNext]_relayVars /\ RelayFairness
-----------------------------------------------------------------------------
\* The state variables keep their types.
RelayTypeOK ==
    /\ disk \in Disks
    /\ unit \in [active : BOOLEAN, enabled : BOOLEAN]
    /\ desired \in Manifests
    /\ paused \in BOOLEAN /\ behind \in BOOLEAN /\ admin \in BOOLEAN
    /\ proj \in [health : {"healthy", "blocked"}, failures : 0..3,
                 retry : {"none", "waiting", "due"},
                 suspended : BOOLEAN, probeDue : BOOLEAN]
    /\ form \in {"closed", "paused", "running"}
    /\ at \in Places
    /\ at = "idle" <=> op = NoOp

\* An apply or restore that reports success left files that match its
\* manifest, and a relay that serves them: the process runs, has read the
\* routing bundle when it reads one at all, and has read the registry unless
\* an earlier stop, failed rollback or failed pause left it with other files
\* than the ones on disk.  A restore under an intentional pause leaves the
\* unit stopped instead.
AppliedIsServed ==
    (/\ at = "answer" /\ op.result = "ok" /\ op.clean
     /\ op.kind \in {"apply", "restore"})
    => /\ ConfigurationMatches(disk, op.m, TRUE)
       /\ IF op.kind = "restore" /\ op.paused
          THEN PauseEnforced \/ op.cancelled
          ELSE /\ unit.active /\ ~loaded.sick
               /\ behind \/ loaded.run = op.m.run
               /\ admin /\ op.m.route # NoRoute => loaded.route = op.m.route

\* A commit that went as far as its backups and reports failure, undisturbed:
\* no failing rollback, no Bridge stop, no outside change.
CommitTakenBack ==
    /\ at = "answer" /\ op.result = "failed" /\ op.clean
    /\ op.kind \in Commits /\ op.wrote

\* A commit that reports failure took back everything: the files are those it
\* found, and so is the unit's state unless the caller had left.  The one commit
\* that does not put the unit back is the apply of what is already there: it
\* took no snapshot, so its failure leaves the unit stopped and disabled,
\* whatever it was (relay.go:265-268 and restoreRelayProcess), but never half
\* way.
FailedCommitUndone ==
    CommitTakenBack =>
        /\ disk = op.before
        /\ \/ unit = op.found \/ op.cancelled
           \/ NothingToWrite(op) /\ PauseEnforced

\* What docs/BRIDGE.md says of every failure of an apply or restore: it
\* "restores the complete old file set and old process state".
FailureRestoresProcess ==
    CommitTakenBack => disk = op.before /\ (unit = op.found \/ op.cancelled)

\* A reconcile respects what the user decided, whether it succeeds, fails or
\* is undone: sent with the pause intent it never starts a stopped relay, and
\* it keeps the entries the user added to the registry.  (An edit made while it
\* runs may be lost to the in-memory file snapshot.)
ReconcileRespectsUser ==
    [][at # "idle" /\ op.kind = "reconcile" =>
         /\ op.paused /\ ~unit.active => ~unit'.active
         /\ op.clean /\ disk.extra => disk'.extra]_relayVars

\* The states reconcile cannot leave: only the routing file differs, so it
\* takes the hot reload, which restarts nothing, and no admin socket answers or
\* the process does not serve the manifest's port.
RoutingStuck ==
    /\ RuntimeMatches(disk, desired, TRUE) /\ ~RoutingMatches(disk, desired)
    /\ disk.routing # NoRoute /\ ~paused
    /\ ~AdminUp \/ ~HttpHealthy(desired.run)

\* Periodic reconcile brings the relay back: once faults, edits and commands
\* have stopped, for good, the files match the pinned manifest and the relay
\* answers or is stopped as the pause intent says, or it is suspended after
\* three failing retries, or reconcile comes back to RoutingStuck for ever.
RelaySettles ==
    \/ []<>RoutingStuck
    \/ <>[](\/ proj.suspended
            \/ /\ ConfigurationMatches(disk, desired, TRUE)
               /\ IF paused THEN ~unit.active
                  ELSE unit.active /\ loaded.port = desired.run /\ ~loaded.sick)
=============================================================================
