------------------------------ MODULE SkillRoot ------------------------------
(***************************************************************************)
(* The managed Skill directory of a local client (internal/runtime/        *)
(* manager.go), the backups taken before every change, their two catalogs  *)
(* (Bridge journal, control plane table) and their garbage collection.     *)
(*                                                                         *)
(* A directory maps every entry name to Absent, a Skill version (its       *)
(* content hash) or Opaque: content that is no valid package, which the    *)
(* scan reports as protected.  Reserved names are protected whatever they  *)
(* hold.  One action is one scan, copy or rename; the Bridge may stop, a   *)
(* call may fail and the user may edit between any two.                    *)
(***************************************************************************)
EXTENDS Naturals, FiniteSets

CONSTANTS
    Names,          \* entry names
    Reserved,       \* names of protected entries
    Versions,       \* Skill versions
    Opaque, Absent,
    SkillSets,      \* the manifests that exist: Names -> version or Absent
    MaxBackups,     \* bound: backups ever made
    MaxPerTarget,   \* retention: backups kept
    SkillBudgets    \* bounds: faults, edits, commands and collections

ASSUME SkillAssumption ==
    /\ Names # {} /\ Reserved \subseteq Names
    /\ Opaque \notin Versions /\ Absent \notin Versions \cup {Opaque}
    /\ \A m \in SkillSets : /\ m \in [Names -> Versions \cup {Absent}]
                            /\ \A n \in Reserved : m[n] = Absent
    /\ MaxBackups \in Nat /\ MaxPerTarget \in Nat \ {0}
    /\ SkillBudgets \subseteq
          [faults : Nat, edits : Nat, commands : Nat, collections : Nat]

VARIABLES
    root,           \* the Skill directory; no directory reads as empty
    asides,         \* directories renamed away and not yet removed
    store,          \* backup id -> set of at most one directory
    origin,         \* history: what backup id was copied from
    torn,           \* history: backups a collection began to remove
    journaled,      \* the Bridge's backup catalog; ids grow with the time of creation
    rows,           \* the control plane's catalog: id -> pinned manifest
    wanted,         \* the pinned manifest of the target
    where,          \* where the step is
    job,            \* the request and its state
    gc,             \* the collection: place, ids to remove, ids to take off the catalogs
    purse           \* faults, edits, commands, collections that are left

skillVars == <<root, asides, store, origin, torn, journaled, rows, wanted,
               where, job, gc, purse>>
copies == <<store, origin, torn, journaled, rows, gc>>

Ids == 1..MaxBackups
Dirs == [Names -> Versions \cup {Opaque, Absent}]
EmptyDir == [n \in Names |-> Absent]
Unpinned == [n \in {} |-> Absent]
NoJob == [kind |-> "none"]
NoGc == [at |-> "idle", ids |-> {}, expired |-> {}]
-----------------------------------------------------------------------------
(* The pure parts.                                                         *)

\* inspectSkillEntry: what the scan reports as protected.
IsProtected(d, n) == d[n] = Opaque \/ (n \in Reserved /\ d[n] # Absent)

\* hashInventory: protected entries have a name and no content hash.
Revision(d) == [n \in Names |-> IF IsProtected(d, n) THEN Opaque ELSE d[n]]

\* managedDrift: entries that are not desired are no drift.
ManagedDrift(d, m) ==
    \E n \in Names : m[n] # Absent /\ (IsProtected(d, n) \/ d[n] # m[n])

\* Preflight: what an Apply of m to the scanned directory will do.
Diff(d, m) ==
    [add      |-> {n \in Names : m[n] # Absent /\ (d[n] = Absent \/ IsProtected(d, n))},
     replace  |-> {n \in Names : /\ m[n] # Absent /\ d[n] # Absent
                                 /\ ~IsProtected(d, n) /\ d[n] # m[n]},
     delete   |-> {n \in Names : m[n] = Absent /\ d[n] # Absent /\ ~IsProtected(d, n)},
     excluded |-> {n \in Names : IsProtected(d, n)}]

\* Mutants: protected entries go like any other; a desired name keeps its
\* protected content.
MirroredOverProtected(d, m, preserve) ==
    [n \in Names |-> IF m[n] # Absent THEN m[n] ELSE IF preserve THEN d[n] ELSE Absent]
MirroredAroundProtected(d, m, preserve) ==
    [n \in Names |-> IF IsProtected(d, n) THEN d[n]
                     ELSE IF m[n] # Absent THEN m[n] ELSE IF preserve THEN d[n] ELSE Absent]

\* copyRootForStage, extractSkillArtifact and the deletion of what is neither
\* desired nor protected.
Mirrored(d, m, preserve) ==
    [n \in Names |-> IF m[n] # Absent THEN m[n]
                     ELSE IF preserve \/ IsProtected(d, n) THEN d[n]
                     ELSE Absent]
-----------------------------------------------------------------------------
SkillFault == purse.faults > 0 /\ purse' = [purse EXCEPT !.faults = @ - 1]
SkillCommand == /\ purse.commands > 0
                /\ purse' = [purse EXCEPT !.commands = @ - 1]

Step(place, request) == where' = place /\ job' = request
Ended(request, result) == Step("answer", [request EXCEPT !.result = result])

\* Apply and Reconcile put the backup back after any error of the mirror,
\* Restore only after its final checks, and nobody after a failing way back.
Failing(request) ==
    IF request.undoing \/ request.kind = "restore"
    THEN Ended(request, "failed") ELSE Step("revert", request)

\* The worker claims a step; the revision is the one preflight returned.
SkillRequest(kind, m, from) ==
    [kind |-> kind, m |-> m, expected |-> Revision(root), before |-> root,
     next |-> root, old |-> root, goal |-> root, id |-> 0, from |-> from,
     undoing |-> FALSE, repaired |-> FALSE, clean |-> TRUE, result |-> "none"]
SkillClaim(request) ==
    /\ where = "idle"
    /\ Step("begin", request)
    /\ UNCHANGED <<root, asides, wanted, copies>>

SkillApply(m) == SkillCommand /\ SkillClaim(SkillRequest("apply", m, 0))
SkillReconcile == SkillClaim(SkillRequest("reconcile", wanted, 0)) /\ UNCHANGED purse

\* executeCommit of a restore: the manifest the catalog row pins.
SkillRestore ==
    /\ SkillCommand
    /\ \E id \in Ids : /\ rows[id] # Unpinned
                       /\ SkillClaim(SkillRequest("restore", rows[id], id))

\* The scan and the revision check of Apply, Reconcile and Restore.
SkillBegin ==
    /\ where = "begin"
    /\ \/ /\ IF job.kind = "reconcile"
             THEN IF ManagedDrift(root, job.m)
                  THEN Step("backup", [job EXCEPT !.before = root])
                  ELSE Ended(job, "ok")
             ELSE IF Revision(root) = job.expected
                  THEN Step("backup", [job EXCEPT !.before = root])
                  ELSE Ended(job, "failed")
          /\ UNCHANGED purse
       \/ SkillFault /\ Ended(job, "failed")
    /\ UNCHANGED <<root, asides, wanted, copies>>

\* backupRoot: a copy of everything; a failing copy is removed.
SkillBackup ==
    /\ where = "backup"
    /\ \/ \E id \in Ids :
            /\ \A i \in Ids : i < id <=> origin[i] # Unpinned
            /\ store' = [store EXCEPT ![id] = {root}]
            /\ origin' = [origin EXCEPT ![id] = root]
            /\ Step("stage", [job EXCEPT !.id = id])
            /\ UNCHANGED purse
       \/ SkillFault /\ Ended(job, "failed") /\ UNCHANGED <<store, origin>>
    /\ UNCHANGED <<root, asides, wanted, torn, journaled, rows, gc>>

\* mirrorSkillRoot up to the swap, or the copy of the selected backup.
SkillStage ==
    /\ where = "stage"
    /\ \/ /\ job.kind # "restore"
          /\ LET d == Mirrored(root, job.m, job.kind = "reconcile")
             IN  Step("swapout", [job EXCEPT !.next = d, !.goal = d])
          /\ UNCHANGED purse
       \/ /\ job.kind = "restore"
          /\ \E d \in store[job.from] :
                Step("swapout", [job EXCEPT !.next = d, !.goal = d])
          /\ UNCHANGED purse
       \/ /\ job.kind = "restore" /\ store[job.from] = {}
          /\ Ended(job, "failed") /\ UNCHANGED purse
       \/ SkillFault /\ Failing(job)
    /\ UNCHANGED <<root, asides, wanted, copies>>

\* restoreRoot of the backup this step took; its error is ignored.
SkillRevert ==
    /\ where = "revert"
    /\ \/ /\ \E d \in store[job.id] :
                Step("swapout", [job EXCEPT !.next = d, !.undoing = TRUE])
          /\ UNCHANGED purse
       \/ /\ store[job.id] = {} /\ Ended(job, "failed") /\ UNCHANGED purse
       \/ SkillFault /\ Ended(job, "failed")
    /\ UNCHANGED <<root, asides, wanted, copies>>

\* atomicReplaceDirectory: rename the root away,
SwapOut ==
    /\ where = "swapout"
    /\ \/ /\ root' = EmptyDir
          /\ asides' = asides \cup {root}
          /\ Step("swapin", [job EXCEPT !.old = root])
          /\ UNCHANGED purse
       \/ SkillFault /\ Failing(job) /\ UNCHANGED <<root, asides>>
    /\ UNCHANGED <<wanted, copies>>

\* Mutant: the stage is copied into a root that is still there.
SwapInByCopy ==
    /\ where = "swapin"
    /\ root' = [n \in Names |-> IF job.next[n] # Absent THEN job.next[n] ELSE job.old[n]]
    /\ Step("discard", job)
    /\ UNCHANGED <<asides, wanted, copies, purse>>

\* rename the stage in, or the old root back, whose error is ignored,
SwapIn ==
    /\ where = "swapin"
    /\ \/ /\ root' = job.next
          /\ Step("discard", job)
          /\ UNCHANGED <<asides, purse>>
       \/ /\ SkillFault /\ Failing(job)
          /\ root' = job.old /\ asides' = asides \ {job.old}
       \/ /\ purse.faults > 1 /\ purse' = [purse EXCEPT !.faults = @ - 2]
          /\ Failing(job) /\ UNCHANGED <<root, asides>>
    /\ UNCHANGED <<wanted, copies>>

\* and remove the old root, whose error is not.
SwapDiscard ==
    /\ where = "discard"
    /\ asides' = asides \ {job.old}
    /\ \/ /\ IF job.undoing THEN Ended(job, "failed") ELSE Step("check", job)
          /\ UNCHANGED purse
       \/ SkillFault /\ Failing(job)
    /\ UNCHANGED <<root, wanted, copies>>

\* managedDrift of a restored directory.
RestoredAsPinned == job.kind = "restore" => ~ManagedDrift(root, job.m)

\* The scan after the swap.  persistResultBackup ignores a failing journal.
SkillCheck ==
    /\ where = "check"
    /\ \/ /\ RestoredAsPinned
          /\ Ended([job EXCEPT !.repaired = TRUE], "ok")
          /\ \/ journaled' = journaled \cup {job.id} /\ UNCHANGED purse
             \/ SkillFault /\ UNCHANGED journaled
       \/ /\ ~RestoredAsPinned
          /\ Step("revert", job)
          /\ UNCHANGED <<journaled, purse>>
       \/ /\ SkillFault /\ UNCHANGED journaled
          /\ IF job.kind = "restore" THEN Step("revert", job)
             ELSE Ended(job, "failed")
    /\ UNCHANGED <<root, asides, wanted, store, origin, torn, rows, gc>>

\* executeCommit and executeReconcile after the answer: RecordBackup pins the
\* previous manifest, a reconcile the current one.
SkillFinish ==
    /\ where = "answer"
    /\ IF job.result = "ok"
       THEN /\ rows' = IF job.repaired THEN [rows EXCEPT ![job.id] = wanted] ELSE rows
            /\ wanted' = job.m
       ELSE UNCHANGED <<rows, wanted>>
    /\ where' = "idle" /\ job' = NoJob
    /\ UNCHANGED <<root, asides, store, origin, torn, journaled, gc, purse>>

\* The Bridge stops: the operation is reported failed after its restart, the
\* files stay as they are and a running collection ends.
SkillBridgeStops ==
    /\ SkillFault
    /\ where \notin {"idle", "answer"} \/ gc.at # "idle"
    /\ IF where \in {"idle", "answer"} THEN UNCHANGED <<where, job>>
       ELSE Ended(job, "failed")
    /\ gc' = NoGc
    /\ UNCHANGED <<root, asides, wanted, store, origin, torn, journaled, rows>>

\* The user adds, changes or removes an entry.
SkillEdit ==
    /\ purse.edits > 0 /\ purse' = [purse EXCEPT !.edits = @ - 1]
    /\ \E n \in Names, c \in Versions \cup {Opaque, Absent} :
          root[n] # c /\ root' = [root EXCEPT ![n] = c]
    /\ job' = IF where = "idle" THEN job ELSE [job EXCEPT !.clean = FALSE]
    /\ UNCHANGED <<asides, wanted, where, copies>>
-----------------------------------------------------------------------------
(* backup_gc: Journal.GCBackups, RemoveBackup, DeleteBackupsByBridgeIDs.   *)

gcFixed == <<root, asides, wanted, where, job, origin>>

\* The newest MaxPerTarget are kept unless they are older than the cutoff; the
\* backup of a step that is still running is not that old.
Newer(id) == {i \in journaled : i > id}
GcBegin ==
    /\ gc.at = "idle"
    /\ purse.collections > 0
    /\ purse' = [purse EXCEPT !.collections = @ - 1]
    /\ \E cutoff \in 0..MaxBackups :
          /\ where # "idle" => job.id = 0 \/ job.id > cutoff
          /\ LET expired == {i \in journaled : i <= cutoff \/ Cardinality(Newer(i)) >= MaxPerTarget}
             IN  gc' = [at |-> "remove", ids |-> expired, expired |-> expired]
    /\ UNCHANGED <<store, torn, journaled, rows, gcFixed>>

\* Backups lists the newest first.
NextToRemove(id) == id \in gc.ids /\ \A i \in gc.ids : i <= id

\* Mutant: an error of RemoveAll is ignored.
GcRemoveGoesOn ==
    /\ gc.at = "remove"
    /\ \E id \in Ids :
          /\ NextToRemove(id)
          /\ torn' = torn \cup {id}
          /\ gc' = [gc EXCEPT !.ids = @ \ {id}]
          /\ \/ store' = [store EXCEPT ![id] = {}] /\ UNCHANGED purse
             \/ SkillFault /\ UNCHANGED store
    /\ UNCHANGED <<journaled, rows, gcFixed>>

\* RemoveAll of one backup, entry by entry; an error ends the collection with
\* the catalog as it was.
GcRemove ==
    /\ gc.at = "remove"
    /\ \E id \in Ids :
       /\ NextToRemove(id)
       /\ torn' = torn \cup {id}
       /\ \/ /\ store' = [store EXCEPT ![id] = {}]
             /\ gc' = [gc EXCEPT !.ids = @ \ {id}]
             /\ UNCHANGED purse
          \/ /\ \E d \in store[id], n \in Names :
                   /\ d[n] # Absent
                   /\ store' = [store EXCEPT ![id] = {[d EXCEPT ![n] = Absent]}]
             /\ UNCHANGED <<gc, purse>>
          \/ /\ SkillFault
             /\ gc' = NoGc
             /\ UNCHANGED store
    /\ UNCHANGED <<journaled, rows, gcFixed>>

\* One transaction takes all removed ids off the catalog; the answer may be
\* lost, and the control plane's transaction may fail.
GcCommit ==
    /\ gc.at = "remove" /\ gc.ids = {}
    /\ \/ /\ journaled' = journaled \ gc.expired
          /\ gc' = [gc EXCEPT !.at = "report"] /\ UNCHANGED purse
       \/ /\ SkillFault /\ UNCHANGED journaled
          /\ gc' = NoGc
    /\ UNCHANGED <<store, torn, rows, gcFixed>>

GcReport ==
    /\ gc.at = "report"
    /\ \/ /\ rows' = [i \in Ids |-> IF i \in gc.expired THEN Unpinned ELSE rows[i]]
          /\ UNCHANGED purse
       \/ SkillFault /\ UNCHANGED rows
    /\ gc' = NoGc
    /\ UNCHANGED <<store, torn, journaled, gcFixed>>
-----------------------------------------------------------------------------
\* A client whose directory was applied, with an entry of its own.
SkillInit ==
    /\ \E m \in SkillSets, own \in [Reserved -> {Opaque, Absent}] :
          /\ wanted = m
          /\ root = [n \in Names |-> IF n \in Reserved THEN own[n] ELSE m[n]]
    /\ asides = {} /\ torn = {} /\ journaled = {}
    /\ store = [i \in Ids |-> {}]
    /\ origin = [i \in Ids |-> Unpinned] /\ rows = [i \in Ids |-> Unpinned]
    /\ where = "idle" /\ job = NoJob
    /\ gc = NoGc
    /\ purse \in SkillBudgets

SkillStep ==
    \/ SkillBegin \/ SkillBackup \/ SkillStage \/ SkillRevert
    \/ SwapOut \/ SwapIn \/ SwapDiscard \/ SkillCheck \/ SkillFinish
GcStep == GcRemove \/ GcCommit \/ GcReport

SkillNext ==
    \/ SkillStep \/ SkillReconcile \/ GcBegin \/ GcStep
    \/ (\E m \in SkillSets : SkillApply(m)) \/ SkillRestore
    \/ SkillBridgeStops \/ SkillEdit

\* The worker and the scheduler go on; operators, users and faults owe nothing.
SkillFairness == /\ WF_skillVars(SkillStep) /\ WF_skillVars(GcStep)
                 /\ WF_skillVars(SkillReconcile)
SkillSpec == SkillInit /\ [][SkillNext]_skillVars /\ SkillFairness
-----------------------------------------------------------------------------
\* The state variables keep their types.
SkillTypeOK ==
    /\ root \in Dirs /\ asides \subseteq Dirs
    /\ \A i \in Ids : store[i] \subseteq Dirs /\ Cardinality(store[i]) <= 1
    /\ journaled \subseteq Ids /\ torn \subseteq Ids
    /\ where \in {"idle", "begin", "backup", "stage", "revert", "swapout",
                  "swapin", "discard", "check", "answer"}
    /\ where = "idle" <=> job = NoJob

Clean == where # "idle" /\ job.clean

\* An apply did exactly the preflight's diff: entries outside it are untouched,
\* added and replaced ones hold the desired version, deleted ones are gone.
DidTheDiff ==
    LET diff == Diff(job.before, job.m)
    IN  \A n \in Names : root[n] = IF n \in diff.add \cup diff.replace THEN job.m[n]
                                   ELSE IF n \in diff.delete THEN Absent
                                   ELSE job.before[n]

\* A reconcile left every desired Skill in place and everything else as it was.
DidTheRepair ==
    \A n \in Names : root[n] = IF job.m[n] # Absent THEN job.m[n] ELSE job.before[n]

\* A restore satisfies the manifest its catalog row pins, and is all of what was
\* backed up unless a collection had begun to remove that backup.
DidTheRestore ==
    /\ ~ManagedDrift(root, job.m)
    /\ root = origin[job.from] \/ job.from \in torn

\* A step that reports success did what it announced: an apply its diff, a
\* reconcile its repair, a restore its backup.
SuccessIsTruthful ==
    Clean /\ where = "answer" /\ job.result = "ok" =>
        /\ job.kind = "apply" => DidTheDiff
        /\ job.kind = "reconcile" => DidTheRepair
        /\ job.kind = "restore" => DidTheRestore

\* Whatever fails, and wherever the Bridge stops, a directory the user did
\* not edit meanwhile is never a mixture: it is the one the step found, the one
\* it meant to install, or away; and unless it is the one found, that one is
\* still beside it or in the backup of the step.
RootNeverMixed ==
    (Clean /\ where \notin {"begin", "idle"}) =>
        /\ root \in {job.before, job.goal, EmptyDir}
        /\ root = job.before \/ job.before \in asides
           \/ (job.id # 0 /\ job.before \in store[job.id])

\* Collections: a backup the Bridge still catalogs is whole on disk unless a
\* collection has begun to remove it, and one that has left the catalog for good
\* is gone from the disk.
CatalogOnDisk ==
    \A i \in Ids :
        /\ i \in journaled => store[i] = {origin[i]} \/ i \in torn
        /\ i \in torn => store[i] = {} \/ i \in journaled

\* While the user and the faults rest, reconcile brings every desired Skill
\* back for good, whatever a failed step or a stopped Bridge left behind.
SkillsSettle == <>[](~ManagedDrift(root, wanted))
=============================================================================
