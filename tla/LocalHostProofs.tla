--------------------------- MODULE LocalHostProofs ---------------------------
(***************************************************************************)
(* What the Bridge promises on its own host, for every value of the        *)
(* constants: a signed request is served once, as long as a delivery       *)
(* spends less than a second between VerifyRequest and AcceptNonce         *)
(* (StallAssumption); a Skill directory is never mixed, its successes are  *)
(* truthful and its backup catalogs agree with the disk; what the shared   *)
(* relay reports applied is what it serves, a failed commit is undone and  *)
(* no reconcile overrides the user; and the three parts are well typed     *)
(* together.                                                               *)
(***************************************************************************)
EXTENDS MCLocalHost, FiniteSetTheorems, SequenceTheorems, TLAPS

(* Requests *)

\* Every instant and second is a number, and a request has a handler count.
Numbers ==
    /\ clock \in Nat
    /\ signed \in [Nonces -> Int] /\ seen \in [Nonces -> Int]
    /\ verified \subseteq [nonce : Nonces, at : Nat]
    /\ served \in [Nonces -> {0, 1}]

\* A delivery between the two calls was in the window when it was verified,
\* and that was not long ago.
PendingFresh ==
    \A d \in verified :
        /\ signed[d.nonce] # -1 /\ InWindow(signed[d.nonce], d.at)
        /\ d.at <= clock /\ clock <= d.at + MaxStall

\* A nonce is remembered only of a served request, whose timestamp is at most
\* a window after the second it was seen.
RememberedServed ==
    \A n \in Nonces : seen[n] # -1 =>
        served[n] = 1 /\ signed[n] # -1 /\ signed[n] - Window <= seen[n]

\* A nonce is forgotten only when its request has left the window and no
\* delivery of it is pending.
ForgottenStale ==
    \A n \in Nonces : seen[n] = -1 /\ served[n] = 1 =>
        /\ signed[n] # -1 /\ clock - signed[n] * Fractions > Window * Fractions
        /\ \A d \in verified : d.nonce # n

AuthInv == Numbers /\ PendingFresh /\ RememberedServed /\ ForgottenStale
-----------------------------------------------------------------------------
(* Seconds *)

\* Unix rounds down to whole seconds (time.Time.Unix).
LEMMA UnixRoundsDown ==
    ASSUME NEW t \in Int
    PROVE  /\ Unix(t) \in Int
           /\ Unix(t) * Fractions <= t
           /\ t < (Unix(t) + 1) * Fractions
BY AuthAssumption DEF Unix

\* No instant is before second zero.
LEMMA UnixClock ==
    ASSUME NEW t \in Nat
    PROVE  Unix(t) # -1
<1>1. Unix(t) \in Int /\ t < (Unix(t) + 1) * Fractions
  BY UnixRoundsDown
<1>. QED
  BY <1>1, AuthAssumption

\* Of two whole seconds the one that begins earlier is the smaller.
LEMMA Seconds ==
    ASSUME NEW i \in Int, NEW j \in Int, i * Fractions < j * Fractions
    PROVE  i < j
BY AuthAssumption

\* A timestamp accepted by VerifyRequest is at most a window after the second
\* in which AcceptNonce sees it, or any later one.
LEMMA StampBeforeSeen ==
    ASSUME NEW ts \in Int, NEW v \in Nat, NEW t \in Nat, v <= t, InWindow(ts, v)
    PROVE  ts - Window <= Unix(t)
<1>1. /\ Unix(t) \in Int /\ t < (Unix(t) + 1) * Fractions
  BY UnixRoundsDown
<1>2. (ts - Window) * Fractions <= v
  BY AuthAssumption DEF InWindow
<1>3. (ts - Window) * Fractions < (Unix(t) + 1) * Fractions
  BY <1>1, <1>2, AuthAssumption
<1>4. ts - Window < Unix(t) + 1
  BY <1>1, <1>3, Seconds, AuthAssumption
<1>. QED
  BY <1>1, <1>4, AuthAssumption

\* When a nonce is pruned, the two windows and the rest of a second have passed
\* since it was seen.
LEMMA PrunedLate ==
    ASSUME NEW m \in Int, NEW t \in Nat, Pruned(m, t)
    PROVE  m * Fractions + Fractions + 2 * Window * Fractions <= t
<1> DEFINE c == t - 2 * Window * Fractions
<1>1. c \in Int
  BY AuthAssumption
<1>2. Unix(c) \in Int /\ Unix(c) * Fractions <= c
  BY <1>1, UnixRoundsDown
<1>3. m + 1 <= Unix(c)
  BY <1>2 DEF Pruned
<1>4. (m + 1) * Fractions <= Unix(c) * Fractions
  <2> HIDE DEF c
  <2>. QED  BY <1>2, <1>3, AuthAssumption
<1>. QED
  BY <1>1, <1>2, <1>4, AuthAssumption

\* So a request whose nonce is pruned has left the window, for new deliveries
\* and for those that were verified less than a second ago.
LEMMA PrunedStale ==
    ASSUME NEW m \in Int, NEW ts \in Int, NEW t \in Nat, Pruned(m, t), ts - Window <= m
    PROVE  /\ t - ts * Fractions > Window * Fractions
           /\ \A v \in Nat : t <= v + MaxStall => ~InWindow(ts, v)
<1>1. m * Fractions + Fractions + 2 * Window * Fractions <= t
  BY PrunedLate
<1>2. ts * Fractions <= m * Fractions + Window * Fractions
  BY AuthAssumption
<1>3. t - ts * Fractions >= Window * Fractions + Fractions
  BY <1>1, <1>2, AuthAssumption
<1>. QED
  BY <1>3, AuthAssumption, StallAssumption DEF InWindow
-----------------------------------------------------------------------------
(* One lemma for each action: it keeps AuthInv. *)

LEMMA AuthInitInv == AuthInit => AuthInv
BY DEF AuthInit, AuthInv, Numbers, PendingFresh, RememberedServed, ForgottenStale

LEMMA SignRequestInv ==
    ASSUME AuthInv, NEW n \in Nonces, NEW ts \in Nat, SignRequest(n, ts)
    PROVE  AuthInv'
BY DEF AuthInv, Numbers, PendingFresh, RememberedServed, ForgottenStale, SignRequest, InWindow

LEMMA VerifyRequestInv ==
    ASSUME AuthInv, NEW n \in Nonces, VerifyRequest(n)
    PROVE  AuthInv'
<1> USE DEF AuthInv, VerifyRequest
<1>1. Numbers'
  BY DEF Numbers
<1>2. PendingFresh'
  BY AuthAssumption DEF Numbers, PendingFresh, InWindow
<1>3. RememberedServed'
  BY DEF RememberedServed
<1>4. ForgottenStale'
  BY AuthAssumption DEF Numbers, ForgottenStale, InWindow
<1>. QED
  BY <1>1, <1>2, <1>3, <1>4

LEMMA AcceptNonceInv ==
    ASSUME AuthInv, NEW d \in verified, AcceptNonce(d)
    PROVE  AuthInv'
<1> USE DEF AuthInv
<1>1. /\ d.nonce \in Nonces /\ d.at \in Nat /\ clock \in Nat
      /\ signed[d.nonce] \in Int /\ signed[d.nonce] # -1
  BY DEF Numbers, PendingFresh
<1>2. PendingFresh'
  BY DEF AcceptNonce, PendingFresh, InWindow
<1>3. CASE seen[d.nonce] # -1
  BY <1>2, <1>3 DEF AcceptNonce, Numbers, RememberedServed, ForgottenStale
<1>4. CASE seen[d.nonce] = -1
  <2>1. served[d.nonce] = 0
    BY <1>1, <1>4 DEF ForgottenStale, Numbers
  <2>2. Unix(clock) \in Int /\ signed[d.nonce] - Window <= Unix(clock)
    BY <1>1, UnixRoundsDown, StampBeforeSeen DEF PendingFresh
  <2>3. /\ seen' = [n \in Nonces |-> IF n = d.nonce THEN Unix(clock)
                      ELSE IF Pruned(seen[n], clock) THEN -1 ELSE seen[n]]
        /\ served' = [served EXCEPT ![d.nonce] = 1]
        /\ verified' = verified \ {d} /\ UNCHANGED <<clock, signed>>
    BY <1>1, <1>4, <2>1 DEF AcceptNonce, Numbers
  <2>4. Numbers'
    BY <2>2, <2>3 DEF Numbers
  <2>5. RememberedServed'
    BY <1>1, <2>2, <2>3 DEF Numbers, RememberedServed
  <2>6. ForgottenStale'
    <3> SUFFICES ASSUME NEW n \in Nonces, seen'[n] = -1, served'[n] = 1
                 PROVE  /\ signed[n] # -1
                        /\ clock - signed[n] * Fractions > Window * Fractions
                        /\ \A e \in verified : e # d => e.nonce # n
      BY <2>3 DEF ForgottenStale
    <3>1. CASE n = d.nonce
      <4>1. Unix(clock) # -1
        BY <1>1, UnixClock
      <4>. QED  BY <2>3, <3>1, <4>1
    <3>2. CASE n # d.nonce /\ seen[n] = -1
      BY <2>3, <3>2 DEF ForgottenStale, Numbers
    <3>3. CASE n # d.nonce /\ seen[n] # -1
      <4>1. Pruned(seen[n], clock)
        BY <2>3, <3>3
      <4>2. signed[n] \in Int /\ seen[n] \in Int /\ signed[n] # -1 /\ signed[n] - Window <= seen[n]
        BY <3>3 DEF RememberedServed, Numbers
      <4>3. /\ clock - signed[n] * Fractions > Window * Fractions
            /\ \A v \in Nat : clock <= v + MaxStall => ~InWindow(signed[n], v)
        BY <1>1, <4>1, <4>2, PrunedStale
      <4>. QED
        BY <4>2, <4>3 DEF PendingFresh, Numbers
    <3>. QED
      BY <3>1, <3>2, <3>3
  <2>. QED
    BY <1>2, <2>4, <2>5, <2>6
<1>. QED
  BY <1>3, <1>4

LEMMA PassInv == AuthInv /\ Pass => AuthInv'
BY AuthAssumption
   DEF AuthInv, Numbers, PendingFresh, RememberedServed, ForgottenStale, Pass, InWindow

LEMMA AuthNextInv == AuthInv /\ [AuthNext]_authVars => AuthInv'
<1> SUFFICES ASSUME AuthInv, [AuthNext]_authVars
             PROVE  AuthInv'
  OBVIOUS
<1>1. CASE \E n \in Nonces, ts \in 0..(MaxTime \div Fractions) : SignRequest(n, ts)
  BY <1>1, SignRequestInv
<1>2. CASE \E n \in Nonces : VerifyRequest(n)
  BY <1>2, VerifyRequestInv
<1>3. CASE \E d \in verified : AcceptNonce(d)
  BY <1>3, AcceptNonceInv
<1>4. CASE Pass
  BY <1>4, PassInv
<1>5. CASE UNCHANGED authVars
  BY <1>5 DEF authVars, AuthInv, Numbers, PendingFresh, RememberedServed, ForgottenStale
<1>. QED
  BY <1>1, <1>2, <1>3, <1>4, <1>5 DEF AuthNext
-----------------------------------------------------------------------------
\* A signed request reaches a handler at most once (VerifyRequest and
\* Journal.AcceptNonce), for any window and any number of deliveries.
THEOREM RequestServedOnce == AuthSpec => []ServedOnce
<1>1. AuthInv => ServedOnce
  BY DEF AuthInv, Numbers, ServedOnce
<1>. QED
  BY <1>1, AuthInitInv, AuthNextInv, PTL DEF AuthSpec
-----------------------------------------------------------------------------
(* Skill directories *)

\* A step that a worker has claimed.
SkillJob == [kind : {"apply", "reconcile", "restore"}, m : SkillSets, expected : Dirs,
             before : Dirs, next : Dirs, old : Dirs, goal : Dirs, id : Ids \cup {0},
             from : Ids \cup {0}, undoing : BOOLEAN, repaired : BOOLEAN, clean : BOOLEAN,
             result : {"none", "ok", "failed"}]

\* The types of the directory, its backups and the step.
RootType ==
    /\ root \in Dirs
    /\ store \in [Ids -> SUBSET Dirs]
    /\ origin \in [Ids -> Dirs \cup {Unpinned}]
    /\ torn \subseteq Ids /\ journaled \subseteq Ids
    /\ rows \in [Ids -> SkillSets \cup {Unpinned}]
    /\ wanted \in SkillSets
    /\ \/ where = "idle" /\ job = NoJob
       \/ where \in {"begin", "backup", "stage", "revert", "swapout", "swapin", "discard",
                     "check", "answer"} /\ job \in SkillJob
    /\ gc \in [at : {"idle", "remove", "report"}, ids : SUBSET Ids, expired : SUBSET Ids]

\* A number that was not given to a backup is in no catalog and collection.
Unused(i) == /\ store[i] = {} /\ rows[i] = Unpinned
             /\ i \notin journaled \cup torn \cup gc.ids \cup gc.expired

\* A stored backup is whole or torn; what a collection removes is catalogued,
\* and what it has removed is gone.
Stored(i) ==
    /\ origin[i] = Unpinned => Unused(i)
    /\ store[i] = {} \/ store[i] = {origin[i]} \/ i \in torn
    /\ i \in journaled => store[i] = {origin[i]} \/ i \in torn
    /\ i \in torn => store[i] = {} \/ i \in journaled
    /\ gc.at = "remove" => /\ i \in gc.ids => i \in gc.expired
                           /\ i \in gc.expired => i \in journaled /\ (i \in gc.ids \/ store[i] = {})

\* The backup of the step is the newest, whole, and in no collection.
Protecting ==
    /\ where \in {"begin", "backup"} => job.id = 0
    /\ where \in {"stage", "revert", "swapout", "swapin", "discard", "check"} => job.id # 0
    /\ where # "idle" /\ job.repaired => job.id # 0
    /\ where # "idle" /\ job.id # 0 =>
         /\ origin[job.id] # Unpinned /\ store[job.id] = {origin[job.id]}
         /\ job.id \notin torn \cup gc.ids \cup gc.expired
         /\ job.clean => origin[job.id] = job.before
         /\ \A i \in Ids : origin[i] # Unpinned => i <= job.id

\* The directory the step means to install.
Intended == IF job.kind = "restore"
        THEN job.from \in Ids /\ origin[job.from] # Unpinned
             /\ (job.goal = origin[job.from] \/ job.from \in torn)
        ELSE job.goal = Mirrored(job.before, job.m, job.kind = "reconcile")

\* Where an undisturbed step has brought the directory.
Placed == Clean =>
    /\ root \in {job.before, job.goal, EmptyDir} /\ job.old \in {job.before, job.goal, EmptyDir}
    /\ where \in {"begin", "backup", "stage"} \/ (where = "answer" /\ job.id = 0) => root = job.before
    /\ where \in {"begin", "backup", "stage"} => job.old = job.before /\ ~job.undoing
    /\ where \in {"swapout", "swapin", "discard"} /\ job.undoing => job.next = job.before
    /\ where \in {"swapout", "swapin"} /\ ~job.undoing => job.next = job.goal /\ Intended
    /\ where \in {"discard", "check"} /\ ~job.undoing => root = job.goal /\ Intended
    /\ where = "discard" /\ job.undoing => root = job.before
    /\ where = "check" => ~job.undoing

\* A restore names a backup that was made.
Restoring == where # "idle" /\ job.kind = "restore" =>
    job.from \in Ids /\ origin[job.from] # Unpinned

\* The inductive invariant.
RootInv ==
    /\ RootType
    /\ \A i \in Ids : Stored(i)
    /\ Protecting
    /\ Restoring
    /\ Placed
    /\ SuccessIsTruthful

-----------------------------------------------------------------------------
\* A backup is never mistaken for a number that was not given out.
LEMMA PinnedDirs == \A d \in Dirs : d # Unpinned
  BY SkillAssumption DEF Dirs, Unpinned

\* A manifest neither.
LEMMA PinnedSets == \A m \in SkillSets : m # Unpinned
  BY SkillAssumption DEF Unpinned

\* No directory is a directory.
LEMMA EmptyIsDir == EmptyDir \in Dirs
  BY DEF EmptyDir, Dirs

\* What is staged is a directory.
LEMMA MirroredIsDir ==
  ASSUME NEW d \in Dirs, NEW m \in SkillSets, NEW p \in BOOLEAN
  PROVE  Mirrored(d, m, p) \in Dirs
  BY SkillAssumption DEF Mirrored, Dirs

\* The scan reports a name for every entry.
LEMMA RevisionIsDir ==
  ASSUME NEW d \in Dirs  PROVE  Revision(d) \in Dirs
  BY DEF Revision, Dirs

\* The directory and the step are as they were and backups age only by tearing.
SameStep == /\ UNCHANGED <<root, wanted, where, job, origin>>
            /\ torn \subseteq torn'

\* Then an undisturbed step is where it was.
LEMMA StepKept ==
  ASSUME RootInv, SameStep
  PROVE  Restoring' /\ Placed' /\ SuccessIsTruthful'
<1>1. Restoring'
  BY DEF RootInv, SameStep, Restoring
<1>2. Placed'
  <2>1. Intended => Intended'
    BY DEF SameStep, Intended
  <2> QED  BY <2>1 DEF RootInv, SameStep, Placed, Clean
<1>3. SuccessIsTruthful'
  <2>1. DidTheDiff => DidTheDiff'
    BY DEF SameStep, DidTheDiff
  <2>2. DidTheRepair => DidTheRepair'
    BY DEF SameStep, DidTheRepair
  <2>3. DidTheRestore => DidTheRestore'
    BY DEF SameStep, DidTheRestore
  <2> QED  BY <2>1, <2>2, <2>3 DEF RootInv, SameStep, SuccessIsTruthful, Clean
<1> QED  BY <1>1, <1>2, <1>3

\* The copies are as they were.
LEMMA StoredKept ==
  ASSUME RootInv, UNCHANGED copies
  PROVE  \A i \in Ids : Stored(i)'
  BY DEF RootInv, copies, Stored, Unused

\* The fields of a step that a change of its result leaves alone.
Fields(q, r) ==
    /\ q.kind = r.kind /\ q.m = r.m /\ q.before = r.before /\ q.next = r.next /\ q.old = r.old
    /\ q.goal = r.goal /\ q.id = r.id /\ q.from = r.from /\ q.undoing = r.undoing
    /\ q.clean = r.clean

\* Ended changes the result alone.
LEMMA EndedFacts ==
  ASSUME NEW q \in SkillJob, NEW r \in {"ok", "failed"}
  PROVE  LET e == [q EXCEPT !.result = r]
         IN  e \in SkillJob /\ Fields(e, q) /\ e.result = r /\ e.repaired = q.repaired
  BY DEF SkillJob, Fields
-----------------------------------------------------------------------------
(* One lemma per action *)

\* A directory that was applied.
LEMMA RootInit == SkillInit => RootInv
<1> SUFFICES ASSUME SkillInit PROVE RootInv
  OBVIOUS
<1>1. PICK m \in SkillSets, own \in [Reserved -> {Opaque, Absent}] :
        /\ wanted = m
        /\ root = [n \in Names |-> IF n \in Reserved THEN own[n] ELSE m[n]]
  BY DEF SkillInit
<1>2. root \in Dirs
  BY <1>1, SkillAssumption DEF Dirs
<1>3. RootType
  BY <1>1, <1>2 DEF SkillInit, RootType, NoGc
<1>4. \A i \in Ids : Stored(i)
  BY DEF SkillInit, Stored, Unused, NoGc
<1>5. Protecting /\ Restoring /\ Placed /\ SuccessIsTruthful
  BY DEF SkillInit, Protecting, Restoring, Placed, SuccessIsTruthful, Clean
<1> QED  BY <1>3, <1>4, <1>5 DEF RootInv

\* The worker claims a step: what it will find is what is there.
LEMMA ClaimInv ==
  ASSUME RootInv, NEW kind \in {"apply", "reconcile", "restore"}, NEW m \in SkillSets,
         NEW from \in Ids \cup {0}, kind = "restore" => from \in Ids /\ origin[from] # Unpinned,
         SkillClaim(SkillRequest(kind, m, from))
  PROVE  RootInv'
<1> DEFINE q == SkillRequest(kind, m, from)
<1>1. root \in Dirs /\ Revision(root) \in Dirs
  BY RevisionIsDir DEF RootInv, RootType
<1>2. /\ q \in SkillJob /\ q.kind = kind /\ q.m = m /\ q.before = root /\ q.old = root
      /\ q.goal = root /\ q.id = 0 /\ q.from = from /\ q.result = "none" /\ q.repaired = FALSE
      /\ q.undoing = FALSE
  BY <1>1 DEF SkillRequest, SkillJob
<1>3. where' = "begin" /\ job' = q /\ UNCHANGED <<root, wanted, copies>>
  BY DEF SkillClaim, Step
<1> HIDE DEF q
<1>4. RootType'
  BY <1>2, <1>3 DEF RootInv, RootType, copies
<1>5. \A i \in Ids : Stored(i)'
  BY <1>3, StoredKept
<1>6. Protecting' /\ Restoring' /\ Placed' /\ SuccessIsTruthful'
  BY <1>2, <1>3 DEF Protecting, Restoring, Placed, SuccessIsTruthful, Clean, copies
<1> QED  BY <1>4, <1>5, <1>6 DEF RootInv

\* A step that fails, with the directory as it is or the old root renamed back,
\* has ended or goes on to put its backup back.
Fails == /\ where # "idle" /\ where # "answer"
         /\ \/ Ended(job, "failed") /\ root' = root
            \/ /\ job.id # 0 /\ root' \in {root, job.old}
               /\ Ended(job, "failed") \/ Step("revert", job)
         /\ UNCHANGED <<wanted, copies>>

\* Failing leaves nothing to promise about the result.
LEMMA FailInv ==
  ASSUME RootInv, Fails
  PROVE  RootInv'
<1>1. job \in SkillJob
  BY DEF Fails, RootInv, RootType
<1>2. /\ job' \in SkillJob /\ Fields(job', job) /\ job'.repaired = job.repaired
      /\ \/ where' = "answer" /\ job'.result = "failed"
         \/ where' = "revert" /\ job.id # 0
  <2>1. CASE Ended(job, "failed")
    BY <1>1, <2>1, EndedFacts DEF Ended, Step
  <2>2. CASE job.id # 0 /\ Step("revert", job)
    BY <1>1, <2>2 DEF Step, Fields
  <2> QED  BY <2>1, <2>2 DEF Fails
<1>3. root' \in {root, job.old} /\ UNCHANGED <<wanted, copies>>
  BY DEF Fails
<1>4. RootType'
  BY <1>1, <1>2, <1>3 DEF RootInv, RootType, copies, SkillJob
<1>5. \A i \in Ids : Stored(i)'
  BY <1>3, StoredKept
<1>6. Protecting'
  BY <1>2, <1>3 DEF Fails, RootInv, Protecting, copies, Fields
<1>7. Restoring'
  BY <1>2, <1>3 DEF Fails, RootInv, Restoring, copies, Fields
<1>8. Placed'
  <2> SUFFICES ASSUME Clean'  PROVE  Placed'
    BY DEF Placed
  <2>1. Clean
    BY <1>2 DEF Fails, Clean, Fields
  <2>2. root' \in {job'.before, job'.goal, EmptyDir} /\ job'.old \in {job'.before, job'.goal, EmptyDir}
    BY <2>1, <1>2, <1>3 DEF RootInv, Placed, Fields
  <2>3. job'.id = 0 => root' = job'.before
    <3> SUFFICES ASSUME job.id = 0  PROVE  root' = job'.before
      BY <1>2 DEF Fields
    <3>1. where \in {"begin", "backup"} /\ root' = root
      BY DEF Fails, RootInv, RootType, Protecting
    <3> QED  BY <2>1, <3>1, <1>2 DEF RootInv, Placed, Fields
  <2> QED  BY <1>2, <2>2, <2>3 DEF Placed
<1>9. SuccessIsTruthful'
  BY <1>2 DEF SuccessIsTruthful
<1> QED  BY <1>4, <1>5, <1>6, <1>7, <1>8, <1>9 DEF RootInv

\* The scan and the revision check.
LEMMA BeginInv ==
  ASSUME RootInv, SkillBegin
  PROVE  RootInv'
<1>1. /\ job \in SkillJob /\ where = "begin" /\ job.id = 0 /\ root \in Dirs
      /\ UNCHANGED <<root, wanted, copies>>
  BY DEF SkillBegin, RootInv, RootType, Protecting
<1>2. CASE Ended(job, "failed")
  BY <1>1, <1>2, FailInv DEF Fails
<1>3. CASE Step("backup", [job EXCEPT !.before = root])
  <2>1. /\ where' = "backup" /\ job' \in SkillJob /\ job'.before = root /\ job'.id = 0
        /\ job'.old = job.old /\ job'.goal = job.goal /\ job'.clean = job.clean
        /\ job'.kind = job.kind /\ job'.from = job.from /\ job'.repaired = job.repaired
        /\ job'.undoing = job.undoing
    BY <1>1, <1>3 DEF Step, SkillJob
  <2>2. RootType'
    BY <1>1, <2>1 DEF RootInv, RootType, copies
  <2>3. \A i \in Ids : Stored(i)'
    BY <1>1, StoredKept
  <2>4. Protecting' /\ Restoring' /\ SuccessIsTruthful'
    BY <1>1, <2>1 DEF RootInv, Protecting, Restoring, SuccessIsTruthful, copies
  <2>5. Placed'
    BY <1>1, <2>1 DEF RootInv, Placed, Clean
  <2> QED  BY <2>2, <2>3, <2>4, <2>5 DEF RootInv
<1>4. CASE job.kind = "reconcile" /\ ~ManagedDrift(root, job.m) /\ Ended(job, "ok")
  <2>1. /\ where' = "answer" /\ job' \in SkillJob /\ Fields(job', job) /\ job'.repaired = job.repaired
    BY <1>1, <1>4, EndedFacts DEF Ended, Step
  <2>2. RootType'
    BY <1>1, <2>1 DEF RootInv, RootType, copies
  <2>3. \A i \in Ids : Stored(i)'
    BY <1>1, StoredKept
  <2>4. Protecting' /\ Restoring'
    BY <1>1, <2>1 DEF RootInv, Protecting, Restoring, Fields, copies
  <2>5. Placed'
    BY <1>1, <2>1 DEF RootInv, Placed, Clean, Fields
  <2>6. SuccessIsTruthful'
    <3> SUFFICES ASSUME Clean'  PROVE  DidTheRepair'
      BY <1>4, <2>1 DEF SuccessIsTruthful, Fields
    <3>1. root = job.before
      BY <1>1, <2>1 DEF RootInv, Placed, Clean, Fields
    <3>2. \A n \in Names : job.m[n] # Absent => root[n] = job.m[n]
      BY <1>4 DEF ManagedDrift
    <3> QED  BY <1>1, <2>1, <3>1, <3>2 DEF DidTheRepair, Fields
  <2> QED  BY <2>2, <2>3, <2>4, <2>5, <2>6 DEF RootInv
<1> QED  BY <1>2, <1>3, <1>4 DEF SkillBegin

\* backupRoot gives the copy a number nothing has used.
LEMMA BackupInv ==
  ASSUME RootInv, SkillBackup
  PROVE  RootInv'
<1>1. /\ job \in SkillJob /\ where = "backup" /\ job.id = 0 /\ root \in Dirs
      /\ UNCHANGED <<root, wanted, torn, journaled, rows, gc>>
  BY DEF SkillBackup, RootInv, RootType, Protecting
<1>2. CASE Ended(job, "failed") /\ UNCHANGED <<store, origin>>
  BY <1>1, <1>2, FailInv DEF Fails, copies
<1>3. ASSUME NEW id \in Ids, \A i \in Ids : i < id <=> origin[i] # Unpinned,
             store' = [store EXCEPT ![id] = {root}], origin' = [origin EXCEPT ![id] = root],
             Step("stage", [job EXCEPT !.id = id])
      PROVE  RootInv'
  <2>1. /\ where' = "stage" /\ job' \in SkillJob /\ job'.id = id /\ job'.before = job.before
        /\ job'.old = job.old /\ job'.goal = job.goal /\ job'.clean = job.clean
        /\ job'.kind = job.kind /\ job'.from = job.from /\ job'.undoing = job.undoing
    BY <1>1, <1>3 DEF Step, SkillJob
  <2>2. id \in Nat \ {0} /\ origin[id] = Unpinned /\ Stored(id) /\ Unused(id)
    BY <1>3 DEF RootInv, Stored, Ids
  <2>3. root # Unpinned
    BY <1>1, PinnedDirs
  <2>4. /\ store'[id] = {root} /\ origin'[id] = root
        /\ \A i \in Ids : i # id => store'[i] = store[i] /\ origin'[i] = origin[i]
    BY <1>3 DEF RootInv, RootType
  <2>5. RootType'
    BY <1>1, <1>3, <2>1 DEF RootInv, RootType
  <2>6. \A i \in Ids : Stored(i)'
    <3>1. Stored(id)'
      BY <1>1, <2>2, <2>3, <2>4 DEF Stored, Unused
    <3>2. ASSUME NEW i \in Ids, i # id  PROVE  Stored(i)'
      BY <1>1, <2>4, <3>2 DEF RootInv, Stored, Unused
    <3> QED  BY <3>1, <3>2
  <2>7. Protecting'
    <3>1. \A i \in Ids : origin'[i] # Unpinned => i <= id
      BY <1>3, <2>4 DEF Ids
    <3>2. job.clean => root = job.before
      BY <1>1 DEF RootInv, Placed, Clean
    <3> QED  BY <1>1, <2>1, <2>2, <2>3, <2>4, <3>1, <3>2 DEF Protecting, Unused
  <2>8. Restoring'
    BY <1>1, <2>1, <2>2, <2>4 DEF RootInv, Restoring
  <2>9. Placed' /\ SuccessIsTruthful'
    BY <1>1, <2>1 DEF RootInv, Placed, SuccessIsTruthful, Clean
  <2> QED  BY <2>5, <2>6, <2>7, <2>8, <2>9 DEF RootInv
<1> QED  BY <1>2, <1>3 DEF SkillBackup

\* The step stages d, which is now what it means to install.
LEMMA StageInv ==
  ASSUME RootInv, SkillStage
  PROVE  RootInv'
<1>1. /\ job \in SkillJob /\ where = "stage" /\ job.id # 0 /\ root \in Dirs
      /\ UNCHANGED <<root, wanted, copies>>
  BY DEF SkillStage, RootInv, RootType, Protecting
<1>2. CASE Ended(job, "failed") \/ Failing(job)
  BY <1>1, <1>2, FailInv DEF Fails, Failing
<1>3. ASSUME NEW d \in Dirs, Step("swapout", [job EXCEPT !.next = d, !.goal = d]),
             job.kind # "restore" => d = Mirrored(root, job.m, job.kind = "reconcile"),
             job.kind = "restore" => d \in store[job.from]
      PROVE  RootInv'
  <2>1. /\ where' = "swapout" /\ job' \in SkillJob /\ job'.id = job.id /\ job'.before = job.before
        /\ job'.old = job.old /\ job'.goal = d /\ job'.next = d /\ job'.clean = job.clean
        /\ job'.kind = job.kind /\ job'.from = job.from /\ job'.m = job.m
        /\ job'.repaired = job.repaired /\ job'.undoing = job.undoing
    BY <1>1, <1>3 DEF Step, SkillJob
  <2>2. RootType'
    BY <1>1, <2>1 DEF RootInv, RootType, copies
  <2>3. \A i \in Ids : Stored(i)'
    BY <1>1, StoredKept
  <2>4. Protecting' /\ Restoring' /\ SuccessIsTruthful'
    BY <1>1, <2>1 DEF RootInv, Protecting, Restoring, SuccessIsTruthful, copies
  <2>5. Placed'
    <3> SUFFICES ASSUME Clean'  PROVE  Placed'
      BY DEF Placed
    <3>1. Clean /\ root = job.before
      BY <1>1, <2>1 DEF RootInv, Placed, Clean
    <3>2. Intended'
      <4>1. CASE job.kind = "restore"
        <5>1. job.from \in Ids /\ origin[job.from] # Unpinned /\ Stored(job.from)
          BY <1>1, <4>1 DEF RootInv, Restoring
        <5>2. d = origin[job.from] \/ job.from \in torn
          BY <1>3, <4>1, <5>1 DEF Stored
        <5> QED  BY <1>1, <2>1, <4>1, <5>1, <5>2 DEF Intended, copies
      <4>2. CASE job.kind # "restore"
        BY <1>1, <1>3, <2>1, <3>1, <4>2 DEF Intended
      <4> QED  BY <4>1, <4>2
    <3>3. job.old = job.before /\ ~job.undoing
      BY <3>1, <1>1 DEF RootInv, Placed
    <3> QED  BY <1>1, <2>1, <3>1, <3>2, <3>3 DEF Placed
  <2> QED  BY <2>2, <2>3, <2>4, <2>5 DEF RootInv
<1>4. Mirrored(root, job.m, job.kind = "reconcile") \in Dirs
  BY <1>1, MirroredIsDir DEF SkillJob
<1>5. job.kind = "restore" => store[job.from] \subseteq Dirs
  BY <1>1 DEF RootInv, RootType, Restoring
<1> QED  BY <1>2, <1>3, <1>4, <1>5 DEF SkillStage

\* restoreRoot stages the backup of the step, which is what the step found.
LEMMA RevertInv ==
  ASSUME RootInv, SkillRevert
  PROVE  RootInv'
<1>1. /\ job \in SkillJob /\ where = "revert" /\ job.id # 0 /\ job.id \in Ids /\ root \in Dirs
      /\ UNCHANGED <<root, wanted, copies>>
  BY DEF SkillRevert, RootInv, RootType, Protecting, SkillJob
<1>2. CASE Ended(job, "failed")
  BY <1>1, <1>2, FailInv DEF Fails
<1>3. ASSUME NEW d \in store[job.id], Step("swapout", [job EXCEPT !.next = d, !.undoing = TRUE])
      PROVE  RootInv'
  <2>1. d \in Dirs /\ (job.clean => d = job.before)
    BY <1>1, <1>3 DEF RootInv, RootType, Protecting
  <2>2. /\ where' = "swapout" /\ job' \in SkillJob /\ job'.id = job.id /\ job'.before = job.before
        /\ job'.old = job.old /\ job'.goal = job.goal /\ job'.next = d /\ job'.clean = job.clean
        /\ job'.kind = job.kind /\ job'.from = job.from /\ job'.repaired = job.repaired
        /\ job'.undoing = TRUE
    BY <1>1, <1>3, <2>1 DEF Step, SkillJob
  <2>3. RootType'
    BY <1>1, <2>2 DEF RootInv, RootType, copies
  <2>4. \A i \in Ids : Stored(i)'
    BY <1>1, StoredKept
  <2>5. Protecting' /\ Restoring' /\ SuccessIsTruthful'
    BY <1>1, <2>2 DEF RootInv, Protecting, Restoring, SuccessIsTruthful, copies
  <2>6. Placed'
    BY <1>1, <2>1, <2>2 DEF RootInv, Placed, Clean
  <2> QED  BY <2>3, <2>4, <2>5, <2>6 DEF RootInv
<1> QED  BY <1>2, <1>3 DEF SkillRevert

\* The root is renamed away.
LEMMA SwapOutInv ==
  ASSUME RootInv, SwapOut
  PROVE  RootInv'
<1>1. /\ job \in SkillJob /\ where = "swapout" /\ job.id # 0 /\ root \in Dirs
      /\ UNCHANGED <<wanted, copies>>
  BY DEF SwapOut, RootInv, RootType, Protecting
<1>2. CASE Failing(job) /\ UNCHANGED root
  BY <1>1, <1>2, FailInv DEF Fails, Failing
<1>3. CASE root' = EmptyDir /\ Step("swapin", [job EXCEPT !.old = root])
  <2>1. /\ where' = "swapin" /\ job' \in SkillJob /\ job'.id = job.id /\ job'.before = job.before
        /\ job'.old = root /\ job'.goal = job.goal /\ job'.next = job.next /\ job'.clean = job.clean
        /\ job'.kind = job.kind /\ job'.from = job.from /\ job'.m = job.m
        /\ job'.repaired = job.repaired /\ job'.undoing = job.undoing
    BY <1>1, <1>3 DEF Step, SkillJob
  <2>2. RootType'
    BY <1>1, <1>3, <2>1, EmptyIsDir DEF RootInv, RootType, copies
  <2>3. \A i \in Ids : Stored(i)'
    BY <1>1, StoredKept
  <2>4. Protecting' /\ Restoring' /\ SuccessIsTruthful'
    BY <1>1, <2>1 DEF RootInv, Protecting, Restoring, SuccessIsTruthful, copies
  <2>5. Intended => Intended'
    BY <1>1, <2>1 DEF Intended, copies
  <2>6. Placed'
    BY <1>1, <1>3, <2>1, <2>5 DEF RootInv, Placed, Clean
  <2> QED  BY <2>2, <2>3, <2>4, <2>6 DEF RootInv
<1> QED  BY <1>2, <1>3 DEF SwapOut

\* The stage is renamed in.
LEMMA SwapInInv ==
  ASSUME RootInv, SwapIn
  PROVE  RootInv'
<1>1. /\ job \in SkillJob /\ where = "swapin" /\ job.id # 0
      /\ UNCHANGED <<wanted, copies>>
  BY DEF SwapIn, RootInv, RootType, Protecting
<1>2. CASE Failing(job) /\ root' \in {root, job.old}
  BY <1>1, <1>2, FailInv DEF Fails, Failing
<1>3. CASE root' = job.next /\ Step("discard", job)
  <2>1. where' = "discard" /\ job' = job /\ job.next \in Dirs
    BY <1>1, <1>3 DEF Step, SkillJob
  <2>2. RootType'
    BY <1>1, <1>3, <2>1 DEF RootInv, RootType, copies
  <2>3. \A i \in Ids : Stored(i)'
    BY <1>1, StoredKept
  <2>4. Protecting' /\ Restoring' /\ SuccessIsTruthful'
    BY <1>1, <2>1 DEF RootInv, Protecting, Restoring, SuccessIsTruthful, copies
  <2>5. Intended => Intended'
    BY <1>1, <2>1 DEF Intended, copies
  <2>6. Placed'
    BY <1>1, <1>3, <2>1, <2>5 DEF RootInv, Placed, Clean
  <2> QED  BY <2>2, <2>3, <2>4, <2>6 DEF RootInv
<1> QED  BY <1>2, <1>3 DEF SwapIn

\* The old root is removed.
LEMMA DiscardInv ==
  ASSUME RootInv, SwapDiscard
  PROVE  RootInv'
<1>1. /\ job \in SkillJob /\ where = "discard" /\ job.id # 0
      /\ UNCHANGED <<root, wanted, copies>>
  BY DEF SwapDiscard, RootInv, RootType, Protecting
<1>2. CASE Failing(job) \/ Ended(job, "failed")
  BY <1>1, <1>2, FailInv DEF Fails, Failing
<1>3. CASE ~job.undoing /\ Step("check", job)
  <2>1. where' = "check" /\ job' = job
    BY <1>3 DEF Step
  <2>2. RootType'
    BY <1>1, <2>1 DEF RootInv, RootType, copies
  <2>3. \A i \in Ids : Stored(i)'
    BY <1>1, StoredKept
  <2>4. Protecting' /\ Restoring' /\ SuccessIsTruthful'
    BY <1>1, <2>1 DEF RootInv, Protecting, Restoring, SuccessIsTruthful, copies
  <2>5. Intended => Intended'
    BY <1>1, <2>1 DEF Intended, copies
  <2>6. Placed'
    BY <1>1, <1>3, <2>1, <2>5 DEF RootInv, Placed, Clean
  <2> QED  BY <2>2, <2>3, <2>4, <2>6 DEF RootInv
<1> QED  BY <1>2, <1>3 DEF SwapDiscard

\* mirrorSkillRoot of an apply changes the entries of the preflight's diff.
LEMMA MirrorIsDiff ==
  ASSUME NEW d \in Dirs, NEW m \in SkillSets, NEW n \in Names
  PROVE  Mirrored(d, m, FALSE)[n] =
           IF n \in Diff(d, m).add \cup Diff(d, m).replace THEN m[n]
           ELSE IF n \in Diff(d, m).delete THEN Absent ELSE d[n]
  BY SkillAssumption DEF Mirrored, Diff, IsProtected

\* mirrorSkillRoot of a reconcile changes the desired entries.
LEMMA MirrorIsRepair ==
  ASSUME NEW d \in Dirs, NEW m \in SkillSets, NEW n \in Names
  PROVE  Mirrored(d, m, TRUE)[n] = IF m[n] # Absent THEN m[n] ELSE d[n]
  BY DEF Mirrored

\* The scan after the swap: a success has done what it announced.
LEMMA CheckInv ==
  ASSUME RootInv, SkillCheck
  PROVE  RootInv'
<1>1. /\ job \in SkillJob /\ where = "check" /\ job.id # 0 /\ job.id \in Ids
      /\ UNCHANGED <<root, wanted, store, origin, torn, rows, gc>>
  BY DEF SkillCheck, RootInv, RootType, Protecting, SkillJob
<1>2. CASE (Ended(job, "failed") \/ Step("revert", job)) /\ UNCHANGED journaled
  BY <1>1, <1>2, FailInv DEF Fails, copies
<1>3. CASE /\ RestoredAsPinned /\ Ended([job EXCEPT !.repaired = TRUE], "ok")
           /\ journaled' \in {journaled, journaled \cup {job.id}}
  <2> DEFINE q == [job EXCEPT !.repaired = TRUE]
  <2>1. q \in SkillJob /\ Fields(q, job)
    BY <1>1 DEF SkillJob, Fields
  <2>2. where' = "answer" /\ job' \in SkillJob /\ Fields(job', q)
    BY <1>3, <2>1, EndedFacts DEF Ended, Step
  <2>3. Fields(job', job)
    BY <2>1, <2>2 DEF Fields
  <2> HIDE DEF q
  <2>4. RootType'
    BY <1>1, <1>3, <2>2 DEF RootInv, RootType
  <2>5. /\ origin[job.id] # Unpinned /\ store[job.id] = {origin[job.id]}
        /\ job.id \notin torn \cup gc.ids \cup gc.expired
    BY <1>1 DEF RootInv, Protecting
  <2>6. ASSUME NEW i \in Ids  PROVE  Stored(i)'
    <3>1. Stored(i)
      BY DEF RootInv
    <3>2. CASE i = job.id
      BY <1>1, <1>3, <2>5, <3>1, <3>2 DEF Stored, Unused
    <3>3. CASE i # job.id
      BY <1>1, <1>3, <3>1, <3>3 DEF Stored, Unused
    <3> QED  BY <3>2, <3>3
  <2>7. Protecting' /\ Restoring'
    BY <1>1, <2>2, <2>3 DEF RootInv, Protecting, Restoring, Fields
  <2>8. Placed'
    BY <1>1, <2>2, <2>3 DEF RootInv, Placed, Clean, Fields
  <2>9. SuccessIsTruthful'
    <3> SUFFICES ASSUME Clean'
                 PROVE  /\ job.kind = "apply" => DidTheDiff'
                        /\ job.kind = "reconcile" => DidTheRepair'
                        /\ job.kind = "restore" => DidTheRestore'
      BY <2>3 DEF SuccessIsTruthful, Fields
    <3>1. root = job.goal /\ Intended
      BY <1>1, <2>2, <2>3 DEF RootInv, Placed, Clean, Fields
    <3>2. job.before \in Dirs /\ job.m \in SkillSets /\ job'.before = job.before /\ job'.m = job.m
      BY <1>1, <2>3 DEF SkillJob, Fields
    <3>3. ASSUME job.kind = "apply"  PROVE  DidTheDiff'
      <4>1. root = Mirrored(job.before, job.m, FALSE)
        <5>1. (job.kind = "reconcile") = FALSE
          BY <3>3
        <5> QED  BY <3>1, <3>3, <5>1 DEF Intended
      <4>2. \A n \in Names :
              root[n] = IF n \in Diff(job.before, job.m).add \cup Diff(job.before, job.m).replace
                        THEN job.m[n]
                        ELSE IF n \in Diff(job.before, job.m).delete THEN Absent
                        ELSE job.before[n]
        BY <3>2, <4>1, MirrorIsDiff
      <4>3. Diff(job'.before, job'.m) = Diff(job.before, job.m) /\ root' = root
        BY <1>1, <3>2
      <4> QED  BY <3>2, <4>2, <4>3 DEF DidTheDiff
    <3>4. ASSUME job.kind = "reconcile"  PROVE  DidTheRepair'
      <4>1. root = Mirrored(job.before, job.m, TRUE)
        <5>1. (job.kind = "reconcile") = TRUE
          BY <3>4
        <5> QED  BY <3>1, <3>4, <5>1 DEF Intended
      <4> QED  BY <1>1, <3>2, <4>1, MirrorIsRepair DEF DidTheRepair
    <3>5. ASSUME job.kind = "restore"  PROVE  DidTheRestore'
      <4>1. ~ManagedDrift(root, job.m)
        BY <1>3, <3>5 DEF RestoredAsPinned
      <4>2. root = origin[job.from] \/ job.from \in torn
        BY <3>1, <3>5 DEF Intended
      <4> QED  BY <1>1, <2>3, <4>1, <4>2 DEF DidTheRestore, Fields
    <3> QED  BY <3>3, <3>4, <3>5
  <2> QED  BY <2>4, <2>6, <2>7, <2>8, <2>9 DEF RootInv
<1> QED  BY <1>2, <1>3 DEF SkillCheck

\* The worker records the result: the backup of a success is pinned.
LEMMA FinishInv ==
  ASSUME RootInv, SkillFinish
  PROVE  RootInv'
<1>1. /\ job \in SkillJob /\ where = "answer" /\ where' = "idle" /\ job' = NoJob
      /\ UNCHANGED <<root, store, origin, torn, journaled, gc>>
  BY DEF SkillFinish, RootInv, RootType
<1>2. wanted \in SkillSets /\ job.m \in SkillSets
  BY <1>1 DEF RootInv, RootType, SkillJob
<1>3. wanted' \in SkillSets
  BY <1>2 DEF SkillFinish
<1>4. rows' = rows \/ (job.id \in Ids /\ origin[job.id] # Unpinned /\ rows' = [rows EXCEPT ![job.id] = wanted])
  BY <1>1 DEF SkillFinish, RootInv, Protecting, SkillJob
<1>5. RootType'
  BY <1>1, <1>2, <1>3, <1>4 DEF RootInv, RootType
<1>6. ASSUME NEW i \in Ids  PROVE  Stored(i)'
  <2>1. origin[i] = Unpinned => rows'[i] = rows[i]
    BY <1>4 DEF RootInv, RootType
  <2> QED  BY <1>1, <2>1 DEF RootInv, Stored, Unused
<1>7. Protecting' /\ Restoring' /\ Placed' /\ SuccessIsTruthful'
  BY <1>1 DEF Protecting, Restoring, Placed, SuccessIsTruthful, Clean
<1> QED  BY <1>5, <1>6, <1>7 DEF RootInv

\* An edit of the user: nothing is promised of what the step then finds.
LEMMA EditInv ==
  ASSUME RootInv, SkillEdit
  PROVE  RootInv'
<1>1. root' \in Dirs /\ UNCHANGED <<wanted, where, copies>>
  BY DEF SkillEdit, RootInv, RootType, Dirs
<1>2. CASE where = "idle"
  <2>1. job' = job
    BY <1>2 DEF SkillEdit
  <2>2. RootType'
    BY <1>1, <2>1 DEF RootInv, RootType, copies
  <2>3. \A i \in Ids : Stored(i)'
    BY <1>1, StoredKept
  <2>4. Protecting' /\ Restoring' /\ Placed' /\ SuccessIsTruthful'
    BY <1>1, <1>2 DEF Protecting, Restoring, Placed, SuccessIsTruthful, Clean
  <2> QED  BY <2>2, <2>3, <2>4 DEF RootInv
<1>3. CASE where # "idle"
  <2>1. /\ job \in SkillJob /\ job' \in SkillJob /\ job'.id = job.id /\ job'.kind = job.kind
        /\ job'.from = job.from /\ job'.repaired = job.repaired /\ job'.clean = FALSE
    <3>1. job \in SkillJob /\ job' = [job EXCEPT !.clean = FALSE]
      BY <1>3 DEF SkillEdit, RootInv, RootType
    <3> QED  BY <3>1 DEF SkillJob
  <2>2. RootType'
    BY <1>1, <1>3, <2>1 DEF RootInv, RootType, copies
  <2>3. \A i \in Ids : Stored(i)'
    BY <1>1, StoredKept
  <2>4. Protecting' /\ Restoring'
    BY <1>1, <2>1 DEF RootInv, Protecting, Restoring, copies
  <2>5. Placed' /\ SuccessIsTruthful'
    BY <2>1 DEF Placed, SuccessIsTruthful, Clean
  <2> QED  BY <2>2, <2>3, <2>4, <2>5 DEF RootInv
<1> QED  BY <1>2, <1>3

\* A collection has ended, or was cut short.
LEMMA GcOver ==
  ASSUME RootInv, SameStep, gc' = NoGc, torn' = torn, UNCHANGED <<store, journaled>>,
         rows' \in [Ids -> SkillSets \cup {Unpinned}],
         \A i \in Ids : rows'[i] \in {rows[i], Unpinned}
  PROVE  RootInv'
<1>1. RootType'
  BY DEF RootInv, RootType, SameStep, NoGc
<1>2. \A i \in Ids : Stored(i)'
  BY DEF RootInv, Stored, Unused, SameStep, NoGc
<1>3. Protecting'
  BY DEF RootInv, Protecting, SameStep, NoGc
<1> QED  BY <1>1, <1>2, <1>3, StepKept DEF RootInv

\* The Bridge stops: the step has failed and a collection is over.
LEMMA StopInv ==
  ASSUME RootInv, SkillBridgeStops
  PROVE  RootInv'
<1>1. gc' = NoGc /\ UNCHANGED <<root, wanted, store, origin, torn, journaled, rows>>
  BY DEF SkillBridgeStops
<1>2. CASE where \in {"idle", "answer"}
  <2>1. UNCHANGED <<where, job>>
    BY <1>2 DEF SkillBridgeStops
  <2>2. rows' \in [Ids -> SkillSets \cup {Unpinned}] /\ SameStep
    BY <1>1, <2>1 DEF RootInv, RootType, SameStep
  <2> QED  BY <1>1, <2>2, GcOver
<1>3. CASE where \notin {"idle", "answer"}
  <2>1. job \in SkillJob /\ Ended(job, "failed")
    BY <1>3 DEF SkillBridgeStops, RootInv, RootType
  <2>2. /\ job' \in SkillJob /\ Fields(job', job) /\ job'.repaired = job.repaired
        /\ where' = "answer" /\ job'.result = "failed"
    BY <2>1, EndedFacts DEF Ended, Step
  <2>3. RootType'
    BY <1>1, <2>2 DEF RootInv, RootType, NoGc
  <2>4. \A i \in Ids : Stored(i)'
    BY <1>1 DEF RootInv, Stored, Unused, NoGc
  <2>5. Protecting' /\ Restoring'
    BY <1>1, <1>3, <2>2 DEF RootInv, Protecting, Restoring, Fields, NoGc
  <2>6. Placed'
    <3>1. job.id = 0 => where \in {"begin", "backup"}
      BY <1>3 DEF RootInv, RootType, Protecting
    <3> QED  BY <1>1, <1>3, <2>2, <3>1 DEF RootInv, Placed, Clean, Fields
  <2>7. SuccessIsTruthful'
    BY <2>2 DEF SuccessIsTruthful
  <2> QED  BY <2>3, <2>4, <2>5, <2>6, <2>7 DEF RootInv
<1> QED  BY <1>2, <1>3

\* The list of the backups to remove does not name the step's own, the newest.
LEMMA GcBeginInv ==
  ASSUME RootInv, GcBegin
  PROVE  RootInv'
<1>1. UNCHANGED <<store, torn, journaled, rows, root, wanted, where, job, origin>>
  BY DEF GcBegin, gcFixed
<1>2. PICK cutoff \in 0..MaxBackups :
        /\ where # "idle" => job.id = 0 \/ job.id > cutoff
        /\ LET expired == {i \in journaled : i <= cutoff \/ Cardinality(Newer(i)) >= MaxPerTarget}
           IN  gc' = [at |-> "remove", ids |-> expired, expired |-> expired]
  BY DEF GcBegin
<1> DEFINE expired == {i \in journaled : i <= cutoff \/ Cardinality(Newer(i)) >= MaxPerTarget}
<1>3. /\ gc'.at = "remove" /\ gc'.ids = expired /\ gc'.expired = expired
      /\ gc' \in [at : {"idle", "remove", "report"}, ids : SUBSET Ids, expired : SUBSET Ids]
  BY <1>2 DEF RootInv, RootType
<1>4. where # "idle" /\ job.id # 0 => job.id \notin expired
  <2> SUFFICES ASSUME where # "idle", job.id # 0  PROVE  job.id \notin expired
    OBVIOUS
  <2>1. \A i \in journaled : i \in Ids /\ origin[i] # Unpinned
    BY DEF RootInv, RootType, Stored, Unused
  <2>2. \A i \in journaled : ~(i > job.id)
    BY <2>1 DEF RootInv, Protecting, RootType, SkillJob, Ids
  <2>3. Newer(job.id) = {}
    BY <2>2 DEF Newer
  <2>4. ~(Cardinality(Newer(job.id)) >= MaxPerTarget)
    BY <2>3, FS_EmptySet, SkillAssumption
  <2>5. ~(job.id <= cutoff)
    BY <1>2 DEF RootInv, RootType, SkillJob, Ids
  <2> QED  BY <2>4, <2>5
<1>5. expired \subseteq journaled
  OBVIOUS
<1> HIDE DEF expired
<1>6. RootType'
  BY <1>1, <1>3 DEF RootInv, RootType
<1>7. \A i \in Ids : Stored(i)'
  BY <1>1, <1>3, <1>5 DEF RootInv, Stored, Unused
<1>8. Protecting'
  BY <1>1, <1>3, <1>4 DEF RootInv, Protecting
<1> QED  BY <1>1, <1>6, <1>7, <1>8, StepKept DEF RootInv, SameStep

\* RemoveAll of one backup tears it and ends with nothing left.
LEMMA GcRemoveInv ==
  ASSUME RootInv, GcRemove
  PROVE  RootInv'
<1>1. PICK id \in Ids :
        /\ NextToRemove(id)
        /\ torn' = torn \cup {id}
        /\ \/ /\ store' = [store EXCEPT ![id] = {}]
              /\ gc' = [gc EXCEPT !.ids = @ \ {id}]
           \/ /\ \E d \in store[id], n \in Names :
                    store' = [store EXCEPT ![id] = {[d EXCEPT ![n] = Absent]}]
              /\ gc' = gc
           \/ gc' = NoGc /\ store' = store
  BY DEF GcRemove
<1>2. gc.at = "remove" /\ UNCHANGED <<journaled, rows, root, wanted, where, job, origin>>
  BY DEF GcRemove, gcFixed
<1>3. id \in gc.ids /\ id \in gc.expired /\ id \in journaled /\ origin[id] # Unpinned
  BY <1>1, <1>2 DEF NextToRemove, RootInv, Stored, Unused
<1>4. store' \in [Ids -> SUBSET Dirs] /\ \A i \in Ids : i # id => store'[i] = store[i]
  <2>1. ASSUME NEW d \in store[id], NEW n \in Names  PROVE  [d EXCEPT ![n] = Absent] \in Dirs
    BY <2>1 DEF RootInv, RootType, Dirs
  <2> QED  BY <1>1, <2>1 DEF RootInv, RootType
<1>5. /\ gc' \in [at : {"idle", "remove", "report"}, ids : SUBSET Ids, expired : SUBSET Ids]
      /\ \/ gc' = NoGc
         \/ gc'.at = "remove" /\ gc'.expired = gc.expired /\ gc'.ids = gc.ids
         \/ /\ gc'.at = "remove" /\ gc'.expired = gc.expired /\ gc'.ids = gc.ids \ {id}
            /\ store'[id] = {}
  BY <1>1, <1>2 DEF RootInv, RootType, NoGc
<1>6. RootType'
  BY <1>1, <1>2, <1>4, <1>5 DEF RootInv, RootType
<1>7. ASSUME NEW i \in Ids  PROVE  Stored(i)'
  <2>1. Stored(i)
    BY DEF RootInv
  <2>2. CASE i = id
    BY <1>1, <1>2, <1>3, <1>5, <2>1, <2>2 DEF Stored, NoGc
  <2>3. CASE i # id
    BY <1>1, <1>2, <1>4, <1>5, <2>1, <2>3 DEF Stored, Unused, NoGc
  <2> QED  BY <2>2, <2>3
<1>8. Protecting'
  <2>1. where # "idle" /\ job.id # 0 => job.id # id /\ job.id \in Ids
    BY <1>3 DEF RootInv, Protecting, RootType, SkillJob
  <2> QED  BY <1>1, <1>2, <1>4, <1>5, <2>1 DEF RootInv, Protecting, NoGc
<1> QED  BY <1>1, <1>2, <1>6, <1>7, <1>8, StepKept DEF RootInv, SameStep

\* The removed backups leave the Bridge's catalog together.
LEMMA GcCommitInv ==
  ASSUME RootInv, GcCommit
  PROVE  RootInv'
<1>1. /\ gc.at = "remove" /\ gc.ids = {}
      /\ UNCHANGED <<store, torn, rows, root, wanted, where, job, origin>>
  BY DEF GcCommit, gcFixed
<1>2. CASE gc' = NoGc /\ UNCHANGED journaled
  BY <1>1, <1>2, GcOver DEF SameStep, RootInv, RootType
<1>3. CASE journaled' = journaled \ gc.expired /\ gc' = [gc EXCEPT !.at = "report"]
  <2>1. /\ gc'.at = "report" /\ gc'.ids = gc.ids /\ gc'.expired = gc.expired
        /\ gc' \in [at : {"idle", "remove", "report"}, ids : SUBSET Ids, expired : SUBSET Ids]
    BY <1>3 DEF RootInv, RootType
  <2>2. RootType'
    BY <1>1, <1>3, <2>1 DEF RootInv, RootType
  <2>3. \A i \in Ids : Stored(i)'
    BY <1>1, <1>3, <2>1 DEF RootInv, Stored, Unused
  <2>4. Protecting'
    BY <1>1, <2>1 DEF RootInv, Protecting
  <2> QED  BY <1>1, <2>2, <2>3, <2>4, StepKept DEF RootInv, SameStep
<1> QED  BY <1>2, <1>3 DEF GcCommit

\* The control plane forgets them, or does not.
LEMMA GcReportInv ==
  ASSUME RootInv, GcReport
  PROVE  RootInv'
<1>1. gc' = NoGc /\ UNCHANGED <<store, torn, journaled, root, wanted, where, job, origin>>
  BY DEF GcReport, gcFixed
<1>2. rows' = rows \/ rows' = [i \in Ids |-> IF i \in gc.expired THEN Unpinned ELSE rows[i]]
  BY DEF GcReport
<1>3. /\ rows' \in [Ids -> SkillSets \cup {Unpinned}]
      /\ \A i \in Ids : rows'[i] \in {rows[i], Unpinned}
  BY <1>2 DEF RootInv, RootType
<1> QED  BY <1>1, <1>3, GcOver DEF SameStep

\* Every step keeps the invariant.
LEMMA RootNext ==
  ASSUME RootInv, [SkillNext]_skillVars
  PROVE  RootInv'
<1>1. CASE UNCHANGED skillVars
  <2>1. UNCHANGED copies /\ SameStep
    BY <1>1 DEF skillVars, copies, SameStep
  <2>2. RootType' /\ Protecting'
    BY <1>1 DEF RootInv, RootType, Protecting, skillVars
  <2> QED  BY <2>1, <2>2, StoredKept, StepKept DEF RootInv
<1>2. CASE SkillStep
  BY <1>2, BeginInv, BackupInv, StageInv, RevertInv, SwapOutInv, SwapInInv, DiscardInv,
     CheckInv, FinishInv DEF SkillStep
<1>3. CASE GcBegin \/ GcStep
  BY <1>3, GcBeginInv, GcRemoveInv, GcCommitInv, GcReportInv DEF GcStep
<1>4. CASE SkillReconcile \/ \E m \in SkillSets : SkillApply(m)
  <2>1. PICK kind \in {"apply", "reconcile"}, m \in SkillSets : SkillClaim(SkillRequest(kind, m, 0))
    BY <1>4 DEF SkillReconcile, SkillApply, RootInv, RootType
  <2> QED  BY <2>1, ClaimInv
<1>5. CASE SkillRestore
  <2>1. PICK id \in Ids : /\ rows[id] # Unpinned
                          /\ SkillClaim(SkillRequest("restore", rows[id], id))
    BY <1>5 DEF SkillRestore
  <2>2. rows[id] \in SkillSets /\ origin[id] # Unpinned
    BY <2>1 DEF RootInv, RootType, Stored, Unused
  <2> QED  BY <2>1, <2>2, ClaimInv
<1>6. CASE SkillBridgeStops \/ SkillEdit
  BY <1>6, StopInv, EditInv
<1> QED  BY <1>1, <1>2, <1>3, <1>4, <1>5, <1>6 DEF SkillNext

\* What directories, backups and catalogs rely on, in every state.
THEOREM RootsInvariant == SkillSpec => []RootInv
<1>1. SkillInit => RootInv
  BY RootInit
<1>2. RootInv /\ [SkillNext]_skillVars => RootInv'
  BY RootNext
<1> QED  BY <1>1, <1>2, PTL DEF SkillSpec

\* Whatever fails and wherever the Bridge stops, a directory nobody edited is the
\* one the step found, the one it meant to install, or away, and the one it found
\* is beside it or in the step's backup (atomicReplaceDirectory, restoreRoot,
\* backupRoot), for any names, versions, backups, retention and collections.
THEOREM RootsNeverMixed == SkillSpec => []RootNeverMixed
<1>1. RootInv => RootNeverMixed
  <2> SUFFICES ASSUME RootInv, Clean, where \notin {"begin", "idle"}
               PROVE  /\ root \in {job.before, job.goal, EmptyDir}
                      /\ root = job.before \/ (job.id # 0 /\ job.before \in store[job.id])
    BY DEF RootNeverMixed
  <2>1. CASE job.id = 0
    <3>1. where \in {"backup", "answer"}
      BY <2>1 DEF RootInv, RootType, Protecting
    <3> QED  BY <2>1, <3>1 DEF RootInv, Placed
  <2>2. CASE job.id # 0
    BY <2>2 DEF RootInv, Protecting, Placed, Clean
  <2> QED  BY <2>1, <2>2
<1> QED  BY <1>1, RootsInvariant, PTL

\* A success of Apply, Reconcile or Restore has done what it announced, whatever
\* collections, failed steps and stops came before (mirrorSkillRoot, managedDrift,
\* Manager.Restore).
THEOREM SuccessesTruthful == SkillSpec => []SuccessIsTruthful
<1>1. RootInv => SuccessIsTruthful
  BY DEF RootInv
<1> QED  BY <1>1, RootsInvariant, PTL

\* A catalogued backup is whole unless a collection has begun to remove it, and one
\* that has left the catalog is gone (Journal.GCBackups deletes the rows after
\* every RemoveBackup, and none if one fails).
THEOREM CatalogsOnDisk == SkillSpec => []CatalogOnDisk
<1>1. RootInv => CatalogOnDisk
  BY DEF RootInv, Stored, CatalogOnDisk
<1> QED  BY <1>1, RootsInvariant, PTL
-----------------------------------------------------------------------------
(* The relay *)

Units == [active : BOOLEAN, enabled : BOOLEAN]
RouteFiles == Routes \cup {NoRoute, Foreign}
Processes == [run : Contents, port : Contents, sick : BOOLEAN, route : RouteFiles]

RelayJob == [kind : Commits \cup Controls, m : Manifests, paused : BOOLEAN, full : BOOLEAN,
             retried : BOOLEAN, expected : Contents \X BOOLEAN \X Contents, before : Disks,
             found : Units, proc : Units, goal : Disks, todo : Seq(Parts), wrote : BOOLEAN,
             undo : {"none", "files", "reload", "process"}, cancelled : BOOLEAN,
             clean : BOOLEAN, result : {"none", "ok", "failed"},
             health : {"none", "healthy", "blocked"}, checked : BOOLEAN]

\* The types, with those of the process, the request, the catalog and the budget.
RelayType ==
    /\ RelayTypeOK
    /\ loaded \in Processes
    /\ at # "idle" => op \in RelayJob
    /\ at = "answer" => op.health \in {"healthy", "blocked"}
    /\ backup \subseteq [disk : Disks, m : Manifests]
    /\ budget \in [faults : Nat, edits : Nat, commands : Nat]

\* Three counted failures suspend the retries, and a suspended relay has no
\* reconcile (EnqueueReconciles).
Counted ==
    /\ proj.suspended <=> proj.failures = 3
    /\ at # "idle" /\ op.kind = "reconcile" => ~proj.suspended

Running == {"reload", "stop", "start", "wait"}
TakingBack == {"undo", "reloadback", "undostop", "undostart"}

\* Which request can be where: only a commit writes, only a pause that is
\* respected ends at EnsurePaused, and only the others restart or reload.
Where ==
    /\ at = "begin" => ~op.wrote
    /\ op.wrote => op.kind \in Commits
    /\ at \in TakingBack \cup {"write", "reload"} => op.wrote
    /\ op.kind \in {"apply", "restore"} => at \in {"begin", "answer"} \/ op.wrote
    /\ at = "pausing" => op.paused /\ op.kind \in {"restore", "reconcile"}
    /\ op.kind \in {"restore", "reconcile"} /\ op.paused => at \notin Running
    /\ op.kind = "reconcile" /\ op.paused =>
          at \notin TakingBack \/ (at = "undo" /\ op.undo = "files")
    /\ at = "undo" => op.undo # "none"
    /\ at \in {"start", "undostart"} => ~unit.active
    /\ at = "undostart" => op.proc.active
    /\ at = "reload" => op.before.registry = op.m.run /\ disk.registry \in {op.m.run, Foreign}

\* An undisturbed commit: the unit is as it found it until it is restarted,
\* the files are the manifest's once they are verified and the old ones again
\* once they are taken back, and a reconcile keeps the user's entries.
Untouched ==
    /\ (\/ at \in {"write", "reload", "pausing", "stop", "reloadback"}
        \/ at = "undo" /\ op.undo # "process")
       => unit = op.found
    /\ at \in {"start", "wait"} => unit.enabled
    /\ at \in {"undo", "undostop"} /\ op.proc.enabled => unit.enabled
    /\ at \in {"reloadback", "undostop", "undostart"} => disk = op.before
    /\ at \in Running \cup {"pausing"} => ConfigurationMatches(disk, op.m, TRUE)
    /\ at = "wait" => /\ loaded.run = disk.registry
                      /\ loaded.route = IF admin THEN disk.routing ELSE NoRoute
    /\ op.kind = "reconcile" /\ at # "answer" => disk.extra = op.before.extra

\* The process read this registry, or someone else has changed it since.
Read(d) == d.registry = Foreign \/ loaded.run = d.registry

\* A process that is not behind read the files: those on disk, or those the
\* commit found while it has not restarted the unit.
ReadsFiles == unit.active /\ ~behind =>
    /\ at \in {"idle", "wait", "reloadback", "answer"} => Read(disk)
    /\ at # "idle" /\ ~op.wrote => Read(disk)
    /\ (\/ at \in {"write", "reload"}
        \/ at \in {"pausing", "stop"} /\ op.wrote
        \/ at = "undo" /\ op.undo # "process")
       => Read(op.before)

\* What the way back puts the unit to: the unit as it was found, or nothing
\* running if there was nothing to write and the unit was not asked for.
Snapshot(q) == q.proc = q.found \/ (q.proc = NoSnapshot /\ NothingToWrite(q))
SnapshotTaken == at \notin {"idle", "answer"} /\ op.wrote /\ op.clean => Snapshot(op)

RelayInv ==
    /\ RelayType /\ Counted /\ ReadsFiles /\ SnapshotTaken
    /\ at # "idle" => Where /\ (op.wrote /\ op.clean => Untouched)
    /\ AppliedIsServed /\ FailedCommitUndone
-----------------------------------------------------------------------------
Allowance == [faults : Nat, edits : Nat, commands : Nat]

\* A manifest is a configuration and perhaps a routing bundle.
LEMMA ManifestParts ==
  ASSUME NEW m \in Manifests
  PROVE  m.run \in Runs /\ m.run # Foreign /\ m.run \in Contents
         /\ m.route \in Routes \cup {NoRoute} /\ m.route # Foreign
  BY RelayAssumption DEF Contents

\* The files a writer renders are files.
LEMMA RenderedIsDisk ==
  ASSUME NEW d \in Disks, NEW m \in Manifests, NEW p \in BOOLEAN
  PROVE  Rendered(d, m, p) \in Disks /\ (p => Rendered(d, m, p).extra = d.extra)
  BY ManifestParts DEF Rendered, Disks, AnchorsOf, EnvironmentOf, RoutingOf

\* So is a directory with one of them replaced.
LEMMA PutIsDisk ==
  ASSUME NEW d \in Disks, NEW goal \in Disks, NEW part \in Parts
  PROVE  Put(d, goal, part) \in Disks
         /\ (goal.extra = d.extra => Put(d, goal, part).extra = d.extra)
<1>1. CASE part = "registry"
  BY <1>1 DEF Put, Disks
<1>2. CASE part = "anchors"
  BY <1>2 DEF Put, Disks
<1>3. CASE part = "env"
  BY <1>3 DEF Put, Disks
<1>4. CASE part = "routing"
  BY <1>4 DEF Put, Disks
<1> QED  BY <1>1, <1>2, <1>3, <1>4 DEF Parts

\* What a start reads is a process, which has read the registry.
LEMMA StartedIsProcess ==
  ASSUME disk \in Disks, admin \in BOOLEAN
  PROVE  /\ Started \in Processes /\ Started.run = disk.registry
         /\ Started.route = IF admin THEN disk.routing ELSE NoRoute
         /\ NotRunning \in Processes
  BY DEF Started, NotRunning, Processes, Disks, Contents, RouteFiles

\* The budget only counts down.
LEMMA BudgetKept ==
  ASSUME budget \in Allowance,
         Fault \/ CallFails \/ CallWorks \/ Edit \/ Command \/ UNCHANGED budget
  PROVE  budget' \in Allowance
<1>1. CASE Fault
  BY <1>1 DEF Fault, Allowance
<1>2. CASE Edit
  BY <1>2 DEF Edit, Allowance
<1>3. CASE Command
  BY <1>3 DEF Command, Allowance
<1> QED  BY <1>1, <1>2, <1>3 DEF CallFails, CallWorks

\* The fields of a request that no later step changes.
Kept(e, q) ==
    /\ e.kind = q.kind /\ e.m = q.m /\ e.paused = q.paused /\ e.retried = q.retried
    /\ e.before = q.before /\ e.found = q.found /\ e.proc = q.proc /\ e.goal = q.goal
    /\ e.wrote = q.wrote

\* What a request found to write, and its snapshot, stay what they are.
LEMMA SnapshotKept ==
  ASSUME NEW e, NEW q, Kept(e, q)
  PROVE  /\ NothingToWrite(e) <=> NothingToWrite(q)
         /\ Snapshot(e) <=> Snapshot(q)
  BY DEF Kept, Snapshot, NothingToWrite, ConfigurationMatches, RuntimeMatches, RoutingMatches

\* An answer adds its result and the health to the request.
LEMMA AnsweredFacts ==
  ASSUME NEW q \in RelayJob, NEW r \in {"ok", "failed"}, NEW h \in {"healthy", "blocked"},
         Answered(q, r, h)
  PROVE  /\ at' = "answer" /\ op' \in RelayJob /\ Kept(op', q)
         /\ op'.result = r /\ op'.health = h /\ op'.clean = q.clean
         /\ op'.cancelled = q.cancelled
  BY DEF Answered, GoTo, RelayJob, Kept

\* The fields a step inside the Bridge sets.
LEMMA ChangedFacts ==
  ASSUME NEW q \in RelayJob, NEW v \in BOOLEAN
  PROVE  /\ [q EXCEPT !.clean = v] \in RelayJob /\ [q EXCEPT !.clean = v].clean = v
         /\ Kept([q EXCEPT !.clean = v], q) /\ [q EXCEPT !.clean = v].cancelled = q.cancelled
         /\ [q EXCEPT !.clean = v].undo = q.undo
         /\ [q EXCEPT !.checked = v] \in RelayJob /\ [q EXCEPT !.checked = v].clean = q.clean
         /\ Kept([q EXCEPT !.checked = v], q)
         /\ [q EXCEPT !.checked = v].cancelled = q.cancelled
  BY DEF RelayJob, Kept

\* The way back a failing commit chooses.
LEMMA UndoFacts ==
  ASSUME NEW q \in RelayJob, NEW u \in {"files", "reload", "process"}
  PROVE  /\ [q EXCEPT !.undo = u] \in RelayJob /\ [q EXCEPT !.undo = u].clean = q.clean
         /\ Kept([q EXCEPT !.undo = u], q) /\ [q EXCEPT !.undo = u].undo = u
         /\ [q EXCEPT !.undo = u].cancelled = q.cancelled
  BY DEF RelayJob, Kept

\* A step inside the Bridge leaves the database and the settings alone.
Stepped ==
    /\ UNCHANGED <<admin, desired, paused, proj, backup, form>>
    /\ disk' \in Disks /\ unit' \in Units /\ loaded' \in Processes
    /\ behind' \in BOOLEAN /\ budget' \in Allowance

\* The types after a step to a place outside idle.
LEMMA SteppedType ==
  ASSUME RelayInv, at # "idle", Stepped, at' \in Places \ {"idle"}, op' \in RelayJob,
         at' = "answer" => op'.health \in {"healthy", "blocked"}, Kept(op', op)
  PROVE  RelayType' /\ Counted'
<1>1. op' # NoOp
  BY DEF RelayJob, NoOp, Commits, Controls
<1>2. RelayTypeOK'
  BY <1>1 DEF RelayInv, RelayType, RelayTypeOK, Stepped, Units
<1>3. RelayType'
  BY <1>2 DEF RelayInv, RelayType, Stepped, Allowance
<1>4. Counted'
  BY DEF RelayInv, Counted, Stepped, Kept
<1> QED  BY <1>3, <1>4

\* A step that ends the Bridge's part.
LEMMA AnswerInv ==
  ASSUME RelayInv, at # "idle", Stepped,
         at' = "answer", op' \in RelayJob, op'.health \in {"healthy", "blocked"}, Kept(op', op),
         unit'.active /\ ~behind' => Read(disk)',
         AppliedIsServed', FailedCommitUndone'
  PROVE  RelayInv'
<1>1. RelayType' /\ Counted'
  BY SteppedType DEF Places
<1>2. Where'
  BY DEF RelayInv, Where, Kept, Running, TakingBack
<1>3. op'.wrote /\ op'.clean => Untouched'
  BY DEF Untouched, Running
<1>4. ReadsFiles' /\ SnapshotTaken'
  BY DEF ReadsFiles, SnapshotTaken
<1> QED  BY <1>1, <1>2, <1>3, <1>4 DEF RelayInv

\* A step that goes on.
LEMMA GoInv ==
  ASSUME RelayInv, at \notin {"idle", "answer"}, Stepped,
         at' \in Places \ {"idle", "answer"}, op' \in RelayJob, Kept(op', op),
         op'.clean => op.clean, Where', op'.wrote /\ op'.clean => Untouched', ReadsFiles'
  PROVE  RelayInv'
<1>1. RelayType' /\ Counted'
  BY SteppedType
<1>2. AppliedIsServed' /\ FailedCommitUndone'
  BY DEF AppliedIsServed, FailedCommitUndone, CommitTakenBack
<1>3. SnapshotTaken'
  <2> SUFFICES ASSUME op'.wrote, op'.clean  PROVE Snapshot(op)'
    BY DEF SnapshotTaken
  <2>1. Snapshot(op)
    BY DEF RelayInv, SnapshotTaken, Kept
  <2>2. Snapshot(op')
    BY <2>1, SnapshotKept
  <2> QED  BY <2>2
<1> QED  BY <1>1, <1>2, <1>3 DEF RelayInv
-----------------------------------------------------------------------------
(* One lemma per step of the relay *)

\* What every step reads has its type.
LEMMA RelayFacts ==
  ASSUME RelayInv
  PROVE  /\ disk \in Disks /\ unit \in Units /\ loaded \in Processes /\ budget \in Allowance
         /\ paused \in BOOLEAN /\ behind \in BOOLEAN /\ admin \in BOOLEAN
         /\ desired \in Manifests /\ at \in Places
         /\ at # "idle" => /\ op \in RelayJob /\ op.kind \in Commits \cup Controls
                           /\ op.m \in Manifests /\ op.before \in Disks /\ op.proc \in Units
                           /\ op.found \in Units /\ op.goal \in Disks /\ op.todo \in Seq(Parts)
                           /\ op.paused \in BOOLEAN /\ op.wrote \in BOOLEAN
                           /\ op.clean \in BOOLEAN /\ op.cancelled \in BOOLEAN
                           /\ op.full \in BOOLEAN /\ op.retried \in BOOLEAN
  BY DEF RelayInv, RelayType, RelayTypeOK, RelayJob, Units, Allowance

\* A relay that was applied.
LEMMA RelayInitInv == RelayInit => RelayInv
<1> SUFFICES ASSUME RelayInit PROVE RelayInv
  OBVIOUS
<1>1. PICK m \in Manifests :
        /\ desired = m
        /\ disk = [registry |-> m.run, extra |-> FALSE, anchors |-> m.run,
                   env |-> m.run, routing |-> m.route]
        /\ loaded = [run |-> m.run, port |-> m.run, sick |-> FALSE,
                     route |-> IF admin THEN m.route ELSE NoRoute]
        /\ admin \in BOOLEAN
        /\ unit = [active |-> TRUE, enabled |-> TRUE] /\ paused = FALSE
        /\ proj = [health |-> "healthy", failures |-> 0, retry |-> "none",
                   suspended |-> FALSE, probeDue |-> FALSE]
        /\ backup = {} /\ form = "closed" /\ at = "idle" /\ op = NoOp
        /\ behind = FALSE /\ budget \in Budgets
  BY DEF RelayInit
<1>2. disk \in Disks /\ loaded \in Processes /\ loaded.run = disk.registry
  BY <1>1, ManifestParts DEF Disks, Processes, RouteFiles
<1>3. RelayType
  <2>1. budget \in [faults : Nat, edits : Nat, commands : Nat]
    BY <1>1, RelayAssumption
  <2>2. unit \in [active : BOOLEAN, enabled : BOOLEAN]
    BY <1>1
  <2>3. proj \in [health : {"healthy", "blocked"}, failures : 0..3,
                  retry : {"none", "waiting", "due"}, suspended : BOOLEAN, probeDue : BOOLEAN]
    BY <1>1
  <2>4. RelayTypeOK
    BY <1>1, <1>2, <2>2, <2>3 DEF RelayTypeOK, Places
  <2> QED  BY <1>1, <1>2, <2>1, <2>4 DEF RelayType
<1>4. Counted /\ ReadsFiles /\ SnapshotTaken /\ AppliedIsServed /\ FailedCommitUndone
  BY <1>1, <1>2 DEF Counted, ReadsFiles, SnapshotTaken, Read, AppliedIsServed, FailedCommitUndone, CommitTakenBack
<1> QED  BY <1>1, <1>3, <1>4 DEF RelayInv

\* The request a step starts with.
LEMMA RequestFacts ==
  ASSUME RelayInv, NEW kind \in Commits \cup Controls, NEW m \in Manifests
  PROVE  /\ Request(kind, m) \in RelayJob /\ Request(kind, m).kind = kind
         /\ Request(kind, m).wrote = FALSE
<1> DEFINE rev == RelayRevision(disk)
<1>1. disk \in Disks /\ unit \in Units
  BY RelayFacts
<1>2. rev \in Contents \X BOOLEAN \X Contents
  BY <1>1 DEF RelayRevision, ScannedAnchors, Disks
<1>3. Request(kind, m) =
         [kind |-> kind, m |-> m, paused |-> FALSE, full |-> FALSE,
          retried |-> FALSE, expected |-> rev, before |-> disk, found |-> unit, proc |-> unit, goal |-> disk,
          todo |-> <<>>, wrote |-> FALSE, undo |-> "none", cancelled |-> FALSE, clean |-> TRUE,
          result |-> "none", health |-> "none", checked |-> FALSE]
  BY DEF Request
<1>4. <<>> \in Seq(Parts)
  OBVIOUS
<1> HIDE DEF rev
<1> QED  BY <1>1, <1>2, <1>3, <1>4 DEF RelayJob

\* The worker claims a step.
LEMMA RelayClaimInv ==
  ASSUME RelayInv, NEW q \in RelayJob, ~q.wrote,
         q.kind = "reconcile" => ~proj.suspended,
         Claim(q), budget' \in Allowance
  PROVE  RelayInv'
<1>1. /\ at = "idle" /\ at' = "begin" /\ op' = q
      /\ UNCHANGED <<disk, unit, loaded, admin, desired, paused, proj, backup, form, behind>>
  BY DEF Claim
<1>2. op' # NoOp
  BY <1>1 DEF RelayJob, NoOp, Commits, Controls
<1>3. RelayType'
  <2>1. RelayTypeOK'
    BY <1>1, <1>2 DEF RelayInv, RelayType, RelayTypeOK, Places
  <2> QED  BY <1>1, <2>1 DEF RelayInv, RelayType, Allowance
<1>4. Counted'
  BY <1>1 DEF RelayInv, Counted
<1>5. ReadsFiles'
  BY <1>1 DEF RelayInv, ReadsFiles, Read
<1>6. Where' /\ SnapshotTaken' /\ AppliedIsServed' /\ FailedCommitUndone'
  BY <1>1 DEF Where, SnapshotTaken, AppliedIsServed, FailedCommitUndone, CommitTakenBack, Running, TakingBack
<1> QED  BY <1>1, <1>3, <1>4, <1>5, <1>6 DEF RelayInv

\* Every claim.
LEMMA ClaimsInv ==
  ASSUME RelayInv,
         \/ \E m \in Manifests : ClaimApply(m)
         \/ ClaimRestore \/ ClaimReconcile
         \/ \E kind \in Controls : ClaimControl(kind)
  PROVE  RelayInv'
<1> USE RelayFacts
<1>1. ASSUME NEW m \in Manifests, ClaimApply(m)  PROVE RelayInv'
  <2> DEFINE q == Request("apply", m)
  <2>1. q \in RelayJob /\ ~q.wrote /\ q.kind = "apply"
    BY RequestFacts DEF Commits
  <2> HIDE DEF q
  <2>2. Claim(q) /\ budget' \in Allowance
    BY <1>1, BudgetKept DEF ClaimApply, q
  <2> QED  BY <2>1, <2>2, RelayClaimInv
<1>2. CASE ClaimRestore
  <2>1. PICK old \in backup :
          Claim([Request("restore", old.m) EXCEPT !.paused = paused, !.goal = old.disk])
    BY <1>2 DEF ClaimRestore
  <2>2. old.m \in Manifests /\ old.disk \in Disks
    BY <2>1 DEF RelayInv, RelayType
  <2> DEFINE p == Request("restore", old.m)
             q == [p EXCEPT !.paused = paused, !.goal = old.disk]
  <2>3. p \in RelayJob /\ ~p.wrote /\ p.kind = "restore"
    BY <2>2, RequestFacts DEF Commits
  <2>4. Claim(q)
    BY <2>1
  <2> HIDE DEF p
  <2>5. q \in RelayJob /\ ~q.wrote /\ q.kind = "restore"
    BY <2>2, <2>3 DEF RelayJob
  <2> HIDE DEF q
  <2>6. budget' \in Allowance
    BY <1>2, BudgetKept DEF ClaimRestore
  <2> QED  BY <2>4, <2>5, <2>6, RelayClaimInv
<1>3. CASE ClaimReconcile
  <2> DEFINE p == Request("reconcile", desired)
             f == (proj.health = "blocked" \/ proj.probeDue)
             t == (proj.retry # "none")
             q == [p EXCEPT !.paused = paused, !.full = f, !.retried = t]
  <2>1. p \in RelayJob /\ ~p.wrote /\ p.kind = "reconcile"
    BY RequestFacts DEF Commits
  <2>2. Claim(q) /\ ReconcileDue /\ UNCHANGED budget
    BY <1>3 DEF ClaimReconcile
  <2>3. f \in BOOLEAN /\ t \in BOOLEAN
    BY DEF RelayInv, RelayType, RelayTypeOK
  <2> HIDE DEF p, f, t
  <2>4. q \in RelayJob /\ ~q.wrote /\ q.kind = "reconcile"
    BY <2>1, <2>3, RelayFacts DEF RelayJob
  <2> HIDE DEF q
  <2> QED  BY <2>2, <2>4, RelayClaimInv DEF ReconcileDue
<1>4. ASSUME NEW kind \in Controls, ClaimControl(kind)  PROVE RelayInv'
  <2> DEFINE p == Request(kind, desired)
             q == [p EXCEPT !.paused = paused]
  <2>1. p \in RelayJob /\ ~p.wrote /\ p.kind = kind
    BY RequestFacts
  <2>2. Claim(q) /\ budget' \in Allowance
    BY <1>4, BudgetKept DEF ClaimControl
  <2> HIDE DEF p
  <2>3. q \in RelayJob /\ ~q.wrote /\ q.kind = kind
    BY <2>1 DEF RelayJob
  <2> HIDE DEF q
  <2> QED  BY <2>2, <2>3, RelayClaimInv DEF Controls
<1> QED  BY <1>1, <1>2, <1>3, <1>4

\* A refused commit, a failing validation: nothing was written.
LEMMA NothingWritten ==
  ASSUME RelayInv, at # "idle", ~op.wrote, Stepped, NEW q \in RelayJob, Kept(q, op),
         NEW r \in {"ok", "failed"}, NEW h \in {"healthy", "blocked"}, Answered(q, r, h),
         op.kind \in {"apply", "restore"} => r = "failed",
         unit'.active /\ ~behind' => Read(disk)'
  PROVE  RelayInv'
<1>1. /\ at' = "answer" /\ op' \in RelayJob /\ Kept(op', q) /\ op'.result = r /\ op'.health = h
  BY AnsweredFacts
<1>2. Kept(op', op)
  BY <1>1 DEF Kept
<1>3. AppliedIsServed' /\ FailedCommitUndone'
  BY <1>1, <1>2 DEF AppliedIsServed, FailedCommitUndone, CommitTakenBack, Kept
<1> QED  BY <1>1, <1>2, <1>3, AnswerInv

\* RelayManager refuses a configuration that changed after the preflight.
LEMMA BeginRefusedInv == RelayInv /\ BeginRefused => RelayInv'
<1> SUFFICES ASSUME RelayInv, BeginRefused  PROVE RelayInv'
  OBVIOUS
<1>1. /\ at = "begin" /\ Answered(op, "failed", "blocked")
      /\ UNCHANGED <<disk, unit, loaded, behind, budget, bridgeFixed>>
  BY DEF BeginRefused
<1>2. Stepped /\ op \in RelayJob /\ Kept(op, op)
  BY <1>1, RelayFacts DEF Stepped, bridgeFixed, Kept
<1>3. ~op.wrote
  BY <1>1 DEF RelayInv, Where
<1>4. unit'.active /\ ~behind' => Read(disk)'
  BY <1>1, <1>3 DEF RelayInv, ReadsFiles, Read
<1> QED  BY <1>1, <1>2, <1>3, <1>4, NothingWritten

\* A reconcile or a control that goes on without writing.
LEMMA GoesUnwritten ==
  ASSUME RelayInv, at \notin {"idle", "answer"}, ~op.wrote, Stepped, UNCHANGED disk,
         op' = op, at' \in {"pausing", "stop", "start", "wait"},
         op.kind \notin {"apply", "restore"},
         at' = "pausing" => op.paused /\ op.kind = "reconcile",
         at' \in {"stop", "start", "wait"} /\ op.kind = "reconcile" => ~op.paused,
         at' = "start" => ~unit'.active,
         unit'.active /\ ~behind' => Read(disk)'
  PROVE  RelayInv'
<1>1. op \in RelayJob /\ Kept(op', op)
  BY RelayFacts DEF Kept
<1>2. Where'
  BY <1>1, RelayFacts DEF Where, Kept, Running, TakingBack, Commits
<1>3. ReadsFiles'
  BY DEF ReadsFiles
<1> QED  BY <1>1, <1>2, <1>3, GoInv DEF Places

\* A reconcile that finds nothing to write.
LEMMA BeginMatchingInv == RelayInv /\ BeginMatching => RelayInv'
<1> SUFFICES ASSUME RelayInv, BeginMatching  PROVE RelayInv'
  OBVIOUS
<1>1. /\ at = "begin" /\ op.kind = "reconcile"
      /\ UNCHANGED <<disk, unit, loaded, behind, bridgeFixed>>
      /\ UNCHANGED budget \/ CallFails
  BY DEF BeginMatching
<1>2. Stepped /\ op \in RelayJob /\ op.full \in BOOLEAN
  BY <1>1, RelayFacts, BudgetKept DEF Stepped, bridgeFixed
<1>3. ~op.wrote
  BY <1>1 DEF RelayInv, Where
<1>4. unit'.active /\ ~behind' => Read(disk)'
  BY <1>1, <1>3 DEF RelayInv, ReadsFiles, Read
<1>5. CASE GoTo("pausing", op) /\ op.paused
  BY <1>1, <1>2, <1>3, <1>4, <1>5, GoesUnwritten DEF GoTo
<1>6. CASE GoTo("stop", op) /\ ~op.paused
  BY <1>1, <1>2, <1>3, <1>4, <1>6, GoesUnwritten DEF GoTo
<1>7. CASE Answered([op EXCEPT !.checked = op.full], "ok", "healthy")
  BY <1>1, <1>2, <1>3, <1>4, <1>7, NothingWritten, ChangedFacts
<1> QED  BY <1>5, <1>6, <1>7 DEF BeginMatching

\* The backups and the snapshot of the process: the commit starts to write.
LEMMA BeginWritingInv == RelayInv /\ BeginWriting => RelayInv'
<1> SUFFICES ASSUME RelayInv, BeginWriting  PROVE RelayInv'
  OBVIOUS
<1> DEFINE todo == IF op.kind = "restore" THEN <<"registry", "anchors", "env", "routing">>
                   ELSE Outdated(op.m, op.kind = "reconcile")
           q == [BackedUp(op) EXCEPT !.todo = todo]
<1>1. /\ at = "begin" /\ op.kind \in Commits
      /\ UNCHANGED <<disk, unit, loaded, behind, bridgeFixed>>
      /\ CallWorks \/ CallFails
      /\ \/ GoTo("write", Captured(q, TRUE)) \/ GoTo("write", Captured(q, FALSE))
         \/ Answered(op, "failed", "blocked")
  BY DEF BeginWriting
<1>2. Stepped /\ op \in RelayJob
  BY <1>1, RelayFacts, BudgetKept DEF Stepped, bridgeFixed
<1>3. ~op.wrote
  BY <1>1 DEF RelayInv, Where
<1>4. unit'.active /\ ~behind' => Read(disk)'
  BY <1>1, <1>3 DEF RelayInv, ReadsFiles, Read
<1>5. CASE Answered(op, "failed", "blocked")
  <2>1. Kept(op, op)
    BY DEF Kept
  <2> QED  BY <1>1, <1>2, <1>3, <1>4, <1>5, <2>1, NothingWritten
<1>6. CASE GoTo("write", Captured(q, TRUE)) \/ GoTo("write", Captured(q, FALSE))
  <2>1. todo \in Seq(Parts)
    <3>1. /\ <<"registry", "anchors", "env", "routing">> \in Seq(Parts)
          /\ <<"registry", "anchors", "env">> \in Seq(Parts)
          /\ <<"routing">> \in Seq(Parts) /\ <<>> \in Seq(Parts)
      BY DEF Parts
    <3> QED  BY <3>1, ConcatProperties DEF Outdated
  <2> HIDE DEF todo
  <2>2. /\ q \in RelayJob /\ q.before = disk /\ q.found = unit /\ q.wrote = TRUE
        /\ q.clean = op.clean
        /\ q.kind = op.kind /\ q.m = op.m /\ q.paused = op.paused
    BY <1>2, <2>1, RelayFacts DEF BackedUp, RelayJob
  <2> HIDE DEF q
  <2>3. /\ at' = "write" /\ op' \in RelayJob /\ op'.before = disk /\ op'.wrote = TRUE
        /\ op'.kind = op.kind /\ op'.m = op.m /\ op'.paused = op.paused
        /\ op'.found = unit /\ (op'.clean => Snapshot(op'))
    <3> DEFINE zero == NothingToWrite(q)
    <3>1. NoSnapshot \in Units /\ unit \in Units /\ q.clean \in BOOLEAN
      BY <1>1, <1>2, <2>2, RelayFacts DEF NoSnapshot, Units
    <3>2. CASE GoTo("write", Captured(q, TRUE))
      <4> DEFINE p == IF ~zero THEN unit ELSE NoSnapshot
      <4>1. at' = "write" /\ op' = [q EXCEPT !.proc = p, !.clean = q.clean]
        BY <3>1, <3>2 DEF GoTo, Captured
      <4>2. p \in Units /\ (p = unit \/ (p = NoSnapshot /\ zero))
        BY <3>1
      <4> HIDE DEF p, zero
      <4>3. /\ op' \in RelayJob /\ op'.proc = p /\ op'.found = q.found /\ op'.kind = q.kind
            /\ op'.m = q.m /\ op'.before = q.before /\ op'.wrote = q.wrote
            /\ op'.paused = q.paused
        BY <2>2, <3>1, <4>1, <4>2 DEF RelayJob
      <4>4. zero => NothingToWrite(op')
        BY <4>3 DEF zero, NothingToWrite, ConfigurationMatches, RuntimeMatches, RoutingMatches
      <4> QED  BY <2>2, <4>1, <4>2, <4>3, <4>4 DEF Snapshot
    <3>3. CASE GoTo("write", Captured(q, FALSE))
      <4>1. at' = "write" /\ op' = [q EXCEPT !.proc = NoSnapshot, !.clean = FALSE]
        BY <3>1, <3>3 DEF GoTo, Captured
      <4> QED  BY <2>2, <3>1, <4>1 DEF RelayJob
    <3> QED  BY <1>6, <3>2, <3>3
  <2>4. RelayType'
    <3>1. op' # NoOp
      BY <2>3 DEF RelayJob, NoOp, Commits, Controls
    <3>2. RelayTypeOK'
      BY <1>2, <2>3, <3>1 DEF RelayInv, RelayType, RelayTypeOK, Stepped, Units, Places
    <3> QED  BY <1>2, <2>3, <3>2 DEF RelayInv, RelayType, Stepped, Allowance
  <2>5. Counted' /\ AppliedIsServed' /\ FailedCommitUndone'
    BY <1>1, <1>2, <2>3 DEF RelayInv, Counted, Stepped, AppliedIsServed, FailedCommitUndone, CommitTakenBack
  <2>6. Where'
    BY <1>1, <2>3 DEF Where, Running, TakingBack
  <2>7. op'.wrote /\ op'.clean => Untouched'
    BY <1>1, <2>3 DEF Untouched, Running
  <2>8. ReadsFiles' /\ SnapshotTaken'
    BY <1>1, <1>4, <2>3 DEF ReadsFiles, Read, SnapshotTaken
  <2> QED  BY <2>4, <2>5, <2>6, <2>7, <2>8 DEF RelayInv
<1> QED  BY <1>1, <1>5, <1>6

\* A file is written, or all of them are taken back.
LEMMA WriteFileInv == RelayInv /\ WriteFile => RelayInv'
<1> SUFFICES ASSUME RelayInv, WriteFile  PROVE RelayInv'
  OBVIOUS
<1>1. /\ at = "write" /\ op.todo # <<>> /\ UNCHANGED <<unit, loaded, behind, bridgeFixed>>
  BY DEF WriteFile
<1>2. op.wrote /\ op.kind \in Commits
  BY <1>1 DEF RelayInv, Where, TakingBack
<1>3. CASE /\ disk' = Put(disk, Goal, Head(op.todo))
           /\ GoTo("write", [op EXCEPT !.todo = Tail(@)]) /\ UNCHANGED budget
  <2>1. Head(op.todo) \in Parts /\ Tail(op.todo) \in Seq(Parts)
    BY <1>1, RelayFacts, HeadTailProperties
  <2>2. Goal \in Disks /\ (op.kind = "reconcile" => Goal.extra = disk.extra)
    <3>1. (op.kind = "reconcile") \in BOOLEAN
      OBVIOUS
    <3>2. /\ Rendered(disk, op.m, op.kind = "reconcile") \in Disks
          /\ op.kind = "reconcile" => Rendered(disk, op.m, op.kind = "reconcile").extra = disk.extra
      BY <1>1, <3>1, RelayFacts, RenderedIsDisk
    <3> QED  BY <1>1, <3>2, RelayFacts DEF Goal
  <2>3. disk' \in Disks /\ (op.kind = "reconcile" => disk'.extra = disk.extra)
    BY <1>3, <2>1, <2>2, RelayFacts, PutIsDisk
  <2>4. /\ at' = "write" /\ op' \in RelayJob /\ Kept(op', op) /\ op'.clean = op.clean
    BY <1>1, <1>3, <2>1, RelayFacts DEF GoTo, RelayJob, Kept
  <2>5. Stepped
    BY <1>1, <1>3, <2>3, RelayFacts DEF Stepped, bridgeFixed
  <2>6. Where'
    BY <1>1, <1>2, <2>4 DEF RelayInv, Where, Kept, Running, TakingBack
  <2>7. op'.wrote /\ op'.clean => Untouched'
    BY <1>1, <2>3, <2>4 DEF RelayInv, Untouched, Kept, Running
  <2>8. ReadsFiles'
    BY <1>1, <1>2, <2>4 DEF RelayInv, ReadsFiles, Read, Kept
  <2> QED  BY <1>1, <2>4, <2>5, <2>6, <2>7, <2>8, GoInv DEF Places
<1>4. CASE Fault /\ GoTo("undo", [op EXCEPT !.undo = "files"]) /\ UNCHANGED disk
  <2>1. /\ at' = "undo" /\ op' \in RelayJob /\ Kept(op', op) /\ op'.clean = op.clean
        /\ op'.undo = "files"
    BY <1>1, <1>4, RelayFacts, UndoFacts DEF GoTo
  <2>2. Stepped
    BY <1>1, <1>4, RelayFacts, BudgetKept DEF Stepped, bridgeFixed
  <2>3. Where'
    BY <1>1, <1>2, <2>1 DEF RelayInv, Where, Kept, Running, TakingBack
  <2>4. op'.wrote /\ op'.clean => Untouched'
    BY <1>1, <1>4, <2>1 DEF RelayInv, Untouched, SnapshotTaken, Snapshot, NoSnapshot, Kept, Running
  <2>5. ReadsFiles'
    BY <1>1, <1>2, <2>1 DEF RelayInv, ReadsFiles, Read, Kept
  <2> QED  BY <1>1, <2>1, <2>2, <2>3, <2>4, <2>5, GoInv DEF Places
<1> QED  BY <1>3, <1>4 DEF WriteFile

\* The integrity check, and what follows it.
LEMMA VerifyInv == RelayInv /\ Verify => RelayInv'
<1> SUFFICES ASSUME RelayInv, Verify  PROVE RelayInv'
  OBVIOUS
<1>1. at = "write" /\ UNCHANGED <<disk, unit, loaded, behind, budget, bridgeFixed>>
  BY DEF Verify
<1>2. op.wrote /\ op.kind \in Commits
  BY <1>1 DEF RelayInv, Where, TakingBack
<1>3. Stepped
  BY <1>1, RelayFacts DEF Stepped, bridgeFixed
<1>4. CASE GoTo("undo", [op EXCEPT !.undo = "files"])
  <2>1. /\ at' = "undo" /\ op' \in RelayJob /\ Kept(op', op) /\ op'.clean = op.clean
        /\ op'.undo = "files"
    BY <1>1, <1>4, RelayFacts, UndoFacts DEF GoTo
  <2>2. Where'
    BY <1>1, <1>2, <2>1 DEF RelayInv, Where, Kept, Running, TakingBack
  <2>3. op'.wrote /\ op'.clean => Untouched'
    BY <1>1, <1>4, <2>1 DEF RelayInv, Untouched, SnapshotTaken, Snapshot, NoSnapshot, Kept, Running
  <2>4. ReadsFiles'
    BY <1>1, <1>2, <2>1 DEF RelayInv, ReadsFiles, Read, Kept
  <2> QED  BY <1>1, <1>3, <2>1, <2>2, <2>3, <2>4, GoInv DEF Places
<1>5. CASE ConfigurationMatches(disk, op.m, op.kind # "apply") /\ GoTo(AfterWriting, op)
  <2>1. /\ at' = AfterWriting /\ op' = op /\ op \in RelayJob /\ Kept(op', op)
    BY <1>1, <1>5, RelayFacts DEF GoTo, Kept
  <2>2. /\ AfterWriting \in {"pausing", "reload", "stop"}
        /\ AfterWriting = "pausing" <=> op.paused /\ op.kind # "apply"
        /\ AfterWriting = "reload" => op.before.registry = op.m.run
    BY DEF AfterWriting, HotReload, RuntimeMatches
  <2>3. ConfigurationMatches(disk, op.m, TRUE) /\ disk.registry = op.m.run
    BY <1>5 DEF ConfigurationMatches, RuntimeMatches
  <2>4. Where'
    BY <1>1, <1>2, <2>1, <2>2, <2>3 DEF RelayInv, Where, Running, TakingBack, Commits
  <2>5. op'.wrote /\ op'.clean => Untouched'
    <3>1. ConfigurationMatches(disk, op.m, TRUE)'
      BY <1>1, <2>1, <2>3 DEF ConfigurationMatches, RuntimeMatches, RoutingMatches
    <3> QED  BY <1>1, <2>1, <2>2, <3>1 DEF RelayInv, Untouched, Running
  <2>6. ReadsFiles'
    BY <1>1, <1>2, <2>1, <2>2 DEF RelayInv, ReadsFiles, Read
  <2> QED  BY <1>1, <1>3, <2>1, <2>2, <2>4, <2>5, <2>6, GoInv DEF Places
<1> QED  BY <1>4, <1>5 DEF Verify

\* The hot reload.
LEMMA ReloadInv == RelayInv /\ Reload => RelayInv'
<1> SUFFICES ASSUME RelayInv, Reload  PROVE RelayInv'
  OBVIOUS
<1>1. /\ at = "reload" /\ UNCHANGED <<disk, unit, behind, bridgeFixed>>
      /\ CallWorks \/ CallFails \/ UNCHANGED budget
      /\ loaded' = [loaded EXCEPT !.route = disk.routing] \/ UNCHANGED loaded
  BY DEF Reload
<1>2. op.wrote /\ op.kind \in Commits
  BY <1>1 DEF RelayInv, Where, TakingBack
<1>3. loaded' \in Processes /\ loaded'.run = loaded.run
  BY <1>1, RelayFacts DEF Processes, Disks, RouteFiles
<1>4. Stepped
  BY <1>1, <1>3, RelayFacts, BudgetKept DEF Stepped, bridgeFixed
<1>5. unit.active /\ ~behind => loaded.run = op.m.run
  <2>1. op.before.registry = op.m.run /\ op.m.run # Foreign
    BY <1>1, RelayFacts, ManifestParts DEF RelayInv, Where
  <2> QED  BY <1>1, <2>1 DEF RelayInv, ReadsFiles, Read
<1>6. CASE GoTo("undo", [op EXCEPT !.undo = "reload"])
  <2>1. /\ at' = "undo" /\ op' \in RelayJob /\ Kept(op', op) /\ op'.clean = op.clean
        /\ op'.undo = "reload"
    BY <1>1, <1>6, RelayFacts, UndoFacts DEF GoTo
  <2>2. Where'
    BY <1>1, <1>2, <2>1 DEF RelayInv, Where, Kept, Running, TakingBack
  <2>3. op'.wrote /\ op'.clean => Untouched'
    BY <1>1, <2>1 DEF RelayInv, Untouched, SnapshotTaken, Snapshot, NoSnapshot, Kept, Running
  <2>4. ReadsFiles'
    BY <1>1, <1>2, <1>3, <2>1 DEF RelayInv, ReadsFiles, Read, Kept
  <2> QED  BY <1>1, <1>4, <2>1, <2>2, <2>3, <2>4, GoInv DEF Places
<1>7. CASE /\ loaded' = [loaded EXCEPT !.route = disk.routing]
           /\ disk.routing = op.m.route /\ HttpHealthy(op.m.run)
           /\ Answered(op, "ok", "healthy")
  <2>1. /\ at' = "answer" /\ op' \in RelayJob /\ Kept(op', op) /\ op'.result = "ok"
        /\ op'.health = "healthy" /\ op'.clean = op.clean
    BY <1>1, <1>7, RelayFacts, AnsweredFacts
  <2>2. unit'.active /\ ~behind' => Read(disk)'
    <3>1. disk.registry \in {op.m.run, Foreign}
      BY <1>1 DEF RelayInv, Where
    <3> QED  BY <1>1, <1>3, <1>5, <3>1 DEF Read
  <2>3. FailedCommitUndone'
    BY <2>1 DEF FailedCommitUndone, CommitTakenBack
  <2>4. AppliedIsServed'
    <3> SUFFICES ASSUME op.clean, op.kind \in {"apply", "restore"}
                 PROVE  /\ ConfigurationMatches(disk, op.m, TRUE)'
                        /\ ~(op.kind = "restore" /\ op.paused)
                        /\ unit'.active /\ ~loaded'.sick
                        /\ behind' \/ loaded'.run = op.m.run
                        /\ admin' /\ op.m.route # NoRoute => loaded'.route = op.m.route
      BY <2>1 DEF AppliedIsServed, Kept
    <3>1. ConfigurationMatches(disk, op.m, TRUE)
      BY <1>1, <1>2 DEF RelayInv, Untouched, Running
    <3>2. ConfigurationMatches(disk, op.m, TRUE)'
      BY <1>1, <2>1, <3>1 DEF ConfigurationMatches, RuntimeMatches, RoutingMatches, Kept
    <3>3. ~(op.kind = "restore" /\ op.paused)
      BY <1>1 DEF RelayInv, Where, Running
    <3>4. unit'.active /\ ~loaded'.sick /\ loaded'.route = op.m.route
      BY <1>1, <1>7, RelayFacts DEF HttpHealthy, Processes
    <3> QED  BY <1>1, <1>3, <1>5, <3>2, <3>3, <3>4
  <2> QED  BY <1>1, <1>4, <2>1, <2>2, <2>3, <2>4, AnswerInv
<1> QED  BY <1>6, <1>7 DEF Reload

\* A relay that does not come up: a commit goes back, anything else reports it.
LEMMA UnhealthyInv ==
  ASSUME RelayInv, at \in Running \cup {"pausing", "begin"},
         at = "begin" => op.kind \in Controls,
         Stepped, UNCHANGED disk, Unhealthy(op),
         op.kind = "reconcile" => ~op.paused,
         op.wrote /\ op.clean /\ op.proc.enabled => unit'.enabled,
         ~op.wrote /\ unit'.active /\ ~behind' => Read(disk)'
  PROVE  RelayInv'
<1>1. at # "idle" /\ op \in RelayJob
  BY RelayFacts DEF Running
<1>2. CASE op.wrote
  <2>1. op.kind \in Commits
    BY <1>1, <1>2 DEF RelayInv, Where
  <2>2. /\ at' = "undo" /\ op' \in RelayJob /\ Kept(op', op) /\ op'.clean = op.clean
        /\ op'.undo = "process"
    BY <1>1, <1>2, UndoFacts DEF Unhealthy, GoTo
  <2>3. Where'
    BY <1>1, <1>2, <2>1, <2>2 DEF RelayInv, Where, Kept, Running, TakingBack
  <2>4. op'.wrote /\ op'.clean => Untouched'
    BY <1>1, <1>2, <2>2 DEF RelayInv, Untouched, Kept, Running
  <2>5. ReadsFiles'
    BY <1>2, <2>2 DEF ReadsFiles, Kept
  <2> QED  BY <1>1, <2>2, <2>3, <2>4, <2>5, GoInv DEF Places, Running
<1>3. CASE ~op.wrote
  <2>1. op.kind \notin {"apply", "restore"}
    BY <1>1, <1>3 DEF RelayInv, Where, Running, Controls
  <2> DEFINE q == [op EXCEPT !.checked = TRUE]
  <2>2. q \in RelayJob /\ Kept(q, op) /\ Answered(q, "ok", "blocked")
    BY <1>1, <1>3, ChangedFacts DEF Unhealthy
  <2> HIDE DEF q
  <2> QED  BY <1>1, <1>3, <2>1, <2>2, NothingWritten
<1> QED  BY <1>2, <1>3

\* EnsurePaused.
LEMMA EnsurePausedInv == RelayInv /\ EnsurePaused => RelayInv'
<1> SUFFICES ASSUME RelayInv, EnsurePaused  PROVE RelayInv'
  OBVIOUS
<1>1. /\ at = "pausing" /\ UNCHANGED <<disk, bridgeFixed>>
      /\ CallWorks \/ Fault \/ UNCHANGED budget
      /\ \/ /\ unit' = [active |-> FALSE, enabled |-> FALSE] /\ loaded' = NotRunning
            /\ UNCHANGED behind
         \/ /\ UNCHANGED <<unit, loaded>> /\ behind' = (behind \/ op.wrote)
  BY DEF EnsurePaused
<1>2. op.paused /\ op.kind \in {"restore", "reconcile"}
  BY <1>1 DEF RelayInv, Where
<1>3. unit' \in Units /\ loaded' \in Processes /\ behind' \in BOOLEAN
  <2>1. unit \in Units /\ loaded \in Processes /\ behind \in BOOLEAN /\ op.wrote \in BOOLEAN
    BY <1>1, RelayFacts
  <2>2. NotRunning \in Processes
    BY RelayFacts, StartedIsProcess
  <2>3. [active |-> FALSE, enabled |-> FALSE] \in Units
    BY DEF Units
  <2>4. behind' \in BOOLEAN
    BY <1>1, <2>1
  <2> QED  BY <1>1, <2>1, <2>2, <2>3, <2>4
<1>4. Stepped /\ op \in RelayJob
  BY <1>1, <1>3, RelayFacts, BudgetKept DEF Stepped, bridgeFixed
<1>5. unit'.active /\ ~behind' => Read(disk)'
  BY <1>1, RelayFacts DEF RelayInv, ReadsFiles, Read
<1>6. ASSUME Answered(op, "ok", "healthy"), PauseEnforced' \/ op.cancelled
      PROVE  RelayInv'
  <2>1. /\ at' = "answer" /\ op' \in RelayJob /\ Kept(op', op) /\ op'.result = "ok"
        /\ op'.health = "healthy" /\ op'.clean = op.clean /\ op'.cancelled = op.cancelled
    BY <1>4, <1>6, AnsweredFacts
  <2>2. FailedCommitUndone'
    BY <2>1 DEF FailedCommitUndone, CommitTakenBack
  <2>3. AppliedIsServed'
    <3> SUFFICES ASSUME op.clean, op.kind = "restore"
                 PROVE  ConfigurationMatches(disk, op.m, TRUE)'
      BY <1>2, <1>6, <2>1 DEF AppliedIsServed, Kept
    <3>1. ConfigurationMatches(disk, op.m, TRUE)
      BY <1>1 DEF RelayInv, Where, Untouched
    <3> QED  BY <1>1, <2>1, <3>1 DEF ConfigurationMatches, RuntimeMatches, RoutingMatches, Kept
  <2> QED  BY <1>1, <1>4, <1>5, <2>1, <2>2, <2>3, AnswerInv
<1>7. CASE Answered(op, "ok", "healthy") /\ unit' = [active |-> FALSE, enabled |-> FALSE]
  BY <1>6, <1>7 DEF PauseEnforced
<1>8. CASE Answered(op, "ok", "healthy") /\ op.cancelled
  BY <1>6, <1>8
<1>9. CASE op.kind = "restore" /\ Unhealthy(op) /\ UNCHANGED unit
  <2>1. op.wrote
    BY <1>1, <1>9 DEF RelayInv, Where
  <2>2. op.clean => unit = op.found /\ Snapshot(op)
    BY <1>1, <2>1 DEF RelayInv, Untouched, SnapshotTaken
  <2>3. op.clean /\ op.proc.enabled => unit.enabled
    BY <2>2 DEF Snapshot, NoSnapshot
  <2> QED  BY <1>1, <1>4, <1>9, <2>1, <2>3, UnhealthyInv
<1>10. CASE op.kind # "restore" /\ Answered([op EXCEPT !.checked = TRUE], "ok", "blocked")
  <2> DEFINE q == [op EXCEPT !.checked = TRUE]
  <2>1. q \in RelayJob /\ Kept(q, op) /\ Answered(q, "ok", "blocked")
    BY <1>4, <1>10, ChangedFacts
  <2> HIDE DEF q
  <2>2. /\ at' = "answer" /\ op' \in RelayJob /\ Kept(op', q) /\ op'.result = "ok"
        /\ op'.health = "blocked"
    BY <2>1, AnsweredFacts
  <2>3. Kept(op', op)
    BY <2>1, <2>2 DEF Kept
  <2>4. FailedCommitUndone' /\ AppliedIsServed'
    BY <1>2, <1>10, <2>2, <2>3 DEF FailedCommitUndone, CommitTakenBack, AppliedIsServed, Kept
  <2> QED  BY <1>1, <1>4, <1>5, <2>2, <2>3, <2>4, AnswerInv
<1> QED  BY <1>7, <1>8, <1>9, <1>10 DEF EnsurePaused

\* The unit stops, to be started again on the new files.
LEMMA StopUnitInv == RelayInv /\ StopUnit => RelayInv'
<1> SUFFICES ASSUME RelayInv, StopUnit  PROVE RelayInv'
  OBVIOUS
<1>1. /\ at = "stop" /\ UNCHANGED <<disk, behind, bridgeFixed>>
      /\ CallWorks \/ CallFails
      /\ \/ UNCHANGED <<unit, loaded>>
         \/ unit' = [unit EXCEPT !.enabled = TRUE] /\ UNCHANGED loaded
         \/ unit' = [active |-> FALSE, enabled |-> TRUE] /\ loaded' = NotRunning
  BY DEF StopUnit
<1>2. op.kind \in {"restore", "reconcile"} => ~op.paused
  BY <1>1 DEF RelayInv, Where, Running
<1>3. /\ unit' \in Units /\ loaded' \in Processes
      /\ unit'.active => unit.active /\ UNCHANGED loaded
      /\ unit.enabled => unit'.enabled
  <2>1. unit \in Units /\ loaded \in Processes /\ NotRunning \in Processes
    BY RelayFacts, StartedIsProcess
  <2>2. CASE UNCHANGED <<unit, loaded>>
    BY <2>1, <2>2
  <2>3. CASE unit' = [unit EXCEPT !.enabled = TRUE] /\ UNCHANGED loaded
    BY <2>1, <2>3 DEF Units
  <2>4. CASE unit' = [active |-> FALSE, enabled |-> TRUE] /\ loaded' = NotRunning
    BY <2>1, <2>4 DEF Units
  <2> QED  BY <1>1, <2>2, <2>3, <2>4
<1>4. Stepped /\ op \in RelayJob
  BY <1>1, <1>3, RelayFacts, BudgetKept DEF Stepped, bridgeFixed
<1>5. CASE unit' = [active |-> FALSE, enabled |-> TRUE] /\ GoTo("start", op)
  <2>1. at' = "start" /\ op' = op /\ Kept(op', op) /\ ~unit'.active /\ unit'.enabled
    BY <1>5 DEF GoTo, Kept
  <2>2. Where'
    BY <1>1, <1>2, <2>1 DEF RelayInv, Where, Running, TakingBack
  <2>3. op'.wrote /\ op'.clean => Untouched'
    <3> SUFFICES ASSUME op.wrote, op.clean  PROVE Untouched'
      BY <2>1
    <3>1. ConfigurationMatches(disk, op.m, TRUE)
      BY <1>1 DEF RelayInv, Untouched, Running
    <3>2. ConfigurationMatches(disk, op.m, TRUE)'
      BY <1>1, <2>1, <3>1 DEF ConfigurationMatches, RuntimeMatches, RoutingMatches
    <3> QED  BY <1>1, <2>1, <3>2 DEF RelayInv, Untouched
  <2>4. ReadsFiles'
    BY <2>1 DEF ReadsFiles
  <2> QED  BY <1>1, <1>4, <2>1, <2>2, <2>3, <2>4, GoInv DEF Places
<1>6. CASE Unhealthy(op)
  <2>1. op.wrote /\ op.clean /\ op.proc.enabled => unit.enabled
    BY <1>1 DEF RelayInv, Untouched, SnapshotTaken, Snapshot, NoSnapshot
  <2>2. ~op.wrote /\ unit'.active /\ ~behind' => Read(disk)'
    BY <1>1, <1>3 DEF RelayInv, ReadsFiles, Read
  <2> QED  BY <1>1, <1>2, <1>3, <1>4, <1>6, <2>1, <2>2, UnhealthyInv DEF Running
<1> QED  BY <1>5, <1>6 DEF StopUnit

\* The unit starts and reads the files.
LEMMA StartUnitInv == RelayInv /\ StartUnit => RelayInv'
<1> SUFFICES ASSUME RelayInv, StartUnit  PROVE RelayInv'
  OBVIOUS
<1>1. /\ at = "start" /\ UNCHANGED <<disk, bridgeFixed>>
      /\ Fault \/ CallFails \/ UNCHANGED budget
  BY DEF StartUnit
<1>2. op.kind \in {"restore", "reconcile"} => ~op.paused
  BY <1>1 DEF RelayInv, Where, Running
<1>3. ~unit.active
  BY <1>1 DEF RelayInv, Where
<1>4. CASE /\ unit' = [unit EXCEPT !.active = TRUE] /\ behind' = FALSE
           /\ loaded' = Started \/ loaded' = [Started EXCEPT !.sick = TRUE]
           /\ GoTo("wait", op)
  <2> DEFINE s == Started
  <2>1. /\ s \in Processes /\ s.run = disk.registry
        /\ s.route = IF admin THEN disk.routing ELSE NoRoute
        /\ loaded' = s \/ loaded' = [s EXCEPT !.sick = TRUE]
    BY <1>4, RelayFacts, StartedIsProcess
  <2> HIDE DEF s
  <2>2. /\ loaded' \in Processes /\ loaded'.run = disk.registry
        /\ loaded'.route = IF admin THEN disk.routing ELSE NoRoute
    BY <2>1 DEF Processes
  <2>3. unit' \in Units /\ unit'.enabled = unit.enabled
    BY <1>4, RelayFacts DEF Units
  <2>4. Stepped /\ op \in RelayJob
    BY <1>1, <1>4, <2>2, <2>3, RelayFacts, BudgetKept DEF Stepped, bridgeFixed
  <2>5. at' = "wait" /\ op' = op /\ Kept(op', op)
    BY <1>4 DEF GoTo, Kept
  <2>6. Where'
    BY <1>1, <1>2, <2>5 DEF RelayInv, Where, Running, TakingBack
  <2>7. op'.wrote /\ op'.clean => Untouched'
    <3> SUFFICES ASSUME op.wrote, op.clean  PROVE Untouched'
      BY <2>5
    <3>1. ConfigurationMatches(disk, op.m, TRUE) /\ unit.enabled
      BY <1>1 DEF RelayInv, Untouched, Running
    <3>2. ConfigurationMatches(disk, op.m, TRUE)'
      BY <1>1, <2>5, <3>1 DEF ConfigurationMatches, RuntimeMatches, RoutingMatches
    <3>3. admin' = admin /\ disk' = disk
      BY <1>1 DEF bridgeFixed
    <3> QED  BY <1>1, <2>2, <2>3, <2>5, <3>1, <3>2, <3>3 DEF RelayInv, Untouched
  <2>8. ReadsFiles'
    BY <1>1, <2>2, <2>5 DEF ReadsFiles, Read
  <2> QED  BY <1>1, <2>4, <2>5, <2>6, <2>7, <2>8, GoInv DEF Places
<1>5. CASE CallFails /\ Unhealthy(op) /\ UNCHANGED <<unit, loaded, behind>>
  <2>1. op.wrote /\ op.clean => unit.enabled
    BY <1>1 DEF RelayInv, Untouched
  <2>2. Stepped
    BY <1>1, <1>5, RelayFacts, BudgetKept DEF Stepped, bridgeFixed
  <2> QED  BY <1>1, <1>2, <1>3, <1>5, <2>1, <2>2, UnhealthyInv DEF Running
<1> QED  BY <1>4, <1>5 DEF StartUnit

\* The relay answers, or the readiness timeout passes.
LEMMA WaitHealthyInv == RelayInv /\ WaitHealthy => RelayInv'
<1> SUFFICES ASSUME RelayInv, WaitHealthy  PROVE RelayInv'
  OBVIOUS
<1>1. /\ at = "wait" /\ UNCHANGED <<disk, unit, loaded, behind, budget, bridgeFixed>>
  BY DEF WaitHealthy
<1>2. op.kind \in {"restore", "reconcile"} => ~op.paused
  BY <1>1 DEF RelayInv, Where, Running
<1>3. Stepped /\ op \in RelayJob
  BY <1>1, RelayFacts DEF Stepped, bridgeFixed
<1>4. unit'.active /\ ~behind' => Read(disk)'
  BY <1>1 DEF RelayInv, ReadsFiles, Read
<1>5. CASE Unhealthy(op)
  <2>1. op.wrote /\ op.clean => unit.enabled
    BY <1>1 DEF RelayInv, Untouched
  <2> QED  BY <1>1, <1>2, <1>3, <1>4, <1>5, <2>1, UnhealthyInv DEF Running
<1>6. CASE Ready(op.m) /\ Answered([op EXCEPT !.checked = op.m.route # NoRoute], "ok", "healthy")
  <2> DEFINE c == (op.m.route # NoRoute)
             q == [op EXCEPT !.checked = c]
  <2>1. c \in BOOLEAN
    OBVIOUS
  <2>2. Answered(q, "ok", "healthy")
    BY <1>6
  <2> HIDE DEF c
  <2>3. q \in RelayJob /\ Kept(q, op) /\ q.clean = op.clean
    BY <1>3, <2>1, ChangedFacts
  <2> HIDE DEF q
  <2>4. /\ at' = "answer" /\ op' \in RelayJob /\ Kept(op', q) /\ op'.result = "ok"
        /\ op'.health = "healthy" /\ op'.clean = op.clean
    BY <2>2, <2>3, AnsweredFacts
  <2>5. Kept(op', op)
    BY <2>3, <2>4 DEF Kept
  <2>6. FailedCommitUndone'
    BY <2>4 DEF FailedCommitUndone, CommitTakenBack
  <2>7. AppliedIsServed'
    <3> SUFFICES ASSUME op.clean, op.kind \in {"apply", "restore"}
                 PROVE  /\ ConfigurationMatches(disk, op.m, TRUE)'
                        /\ ~(op.kind = "restore" /\ op.paused)
                        /\ unit'.active /\ ~loaded'.sick
                        /\ loaded'.run = op.m.run
                        /\ admin' /\ op.m.route # NoRoute => loaded'.route = op.m.route
      BY <2>4, <2>5 DEF AppliedIsServed, Kept
    <3>1. /\ ConfigurationMatches(disk, op.m, TRUE) /\ loaded.run = disk.registry
          /\ loaded.route = IF admin THEN disk.routing ELSE NoRoute
      BY <1>1 DEF RelayInv, Where, Untouched, Running
    <3>2. ConfigurationMatches(disk, op.m, TRUE)'
      BY <1>1, <2>5, <3>1 DEF ConfigurationMatches, RuntimeMatches, RoutingMatches, Kept
    <3>3. unit'.active /\ ~loaded'.sick
      BY <1>1, <1>6 DEF Ready, HttpHealthy
    <3>4. loaded'.run = op.m.run /\ (admin /\ op.m.route # NoRoute => loaded'.route = op.m.route)
      BY <1>1, <3>1 DEF ConfigurationMatches, RuntimeMatches, RoutingMatches
    <3> QED  BY <1>1, <1>2, <3>2, <3>3, <3>4 DEF bridgeFixed
  <2> QED  BY <1>1, <1>3, <1>4, <2>4, <2>5, <2>6, <2>7, AnswerInv
<1> QED  BY <1>5, <1>6 DEF WaitHealthy

\* Answers of a failed commit: nothing is left of it, or it was disturbed.
LEMMA TakenBack ==
  ASSUME RelayInv, at # "idle", Stepped, NEW q \in RelayJob, Kept(q, op),
         Answered(q, "failed", "blocked"),
         unit'.active /\ ~behind' => Read(disk)',
         q.clean => /\ disk' = op.before
                    /\ \/ unit' = op.found \/ q.cancelled
                       \/ NothingToWrite(op) /\ PauseEnforced'
  PROVE  RelayInv'
<1>1. /\ at' = "answer" /\ op' \in RelayJob /\ Kept(op', q) /\ op'.result = "failed"
      /\ op'.health = "blocked" /\ op'.clean = q.clean /\ op'.cancelled = q.cancelled
  BY AnsweredFacts
<1>2. Kept(op', op)
  BY <1>1 DEF Kept
<1>3. AppliedIsServed' /\ FailedCommitUndone'
  <2>1. NothingToWrite(op) => NothingToWrite(op')
    BY <1>2, SnapshotKept
  <2> QED  BY <1>1, <1>2, <2>1 DEF AppliedIsServed, FailedCommitUndone, CommitTakenBack, Kept
<1> QED  BY <1>1, <1>2, <1>3, AnswerInv

\* The files are taken back: all of them, or as many as the first error lets.
LEMMA UndoFilesInv == RelayInv /\ UndoFiles => RelayInv'
<1> SUFFICES ASSUME RelayInv, UndoFiles  PROVE RelayInv'
  OBVIOUS
<1>1. at = "undo" /\ UNCHANGED <<unit, loaded, bridgeFixed>>
  BY DEF UndoFiles
<1>2. /\ op.wrote /\ op.kind \in Commits /\ op.undo # "none" /\ op \in RelayJob
      /\ op.undo \in {"none", "files", "reload", "process"}
      /\ op.kind = "reconcile" /\ op.paused => op.undo = "files"
  BY <1>1, RelayFacts DEF RelayInv, Where, TakingBack, RelayJob
<1>3. PICK q \in RelayJob :
        /\ Kept(q, op) /\ AfterUndo(q) /\ q.undo = op.undo /\ q.cancelled = op.cancelled
        /\ \/ q.clean = op.clean /\ disk' = op.before /\ UNCHANGED <<budget, behind>>
           \/ ~q.clean /\ disk' \in Disks /\ behind' = TRUE /\ Fault
  <2>1. CASE disk' = op.before /\ AfterUndo(op) /\ UNCHANGED <<budget, behind>>
    BY <1>2, <2>1 DEF Kept
  <2>2. CASE /\ Fault /\ behind' = TRUE /\ AfterUndo([op EXCEPT !.clean = FALSE])
             /\ \E done \in SUBSET Parts :
                  disk' = [registry |-> IF "registry" \in done
                                        THEN op.before.registry ELSE disk.registry,
                           extra |-> IF "registry" \in done
                                     THEN op.before.extra ELSE disk.extra,
                           anchors |-> IF "anchors" \in done
                                       THEN op.before.anchors ELSE disk.anchors,
                           env |-> IF "env" \in done THEN op.before.env ELSE disk.env,
                           routing |-> IF "routing" \in done
                                       THEN op.before.routing ELSE disk.routing]
    <3>1. disk \in Disks /\ op.before \in Disks
      BY <1>1, RelayFacts
    <3>2. disk' \in Disks
      BY <2>2, <3>1 DEF Disks
    <3> QED  BY <1>2, <2>2, <3>2, ChangedFacts
  <2> QED  BY <2>1, <2>2 DEF UndoFiles
<1>4. Stepped /\ op.before \in Disks
  BY <1>1, <1>3, RelayFacts, BudgetKept DEF Stepped, bridgeFixed
<1>5. op.undo # "process" /\ unit'.active /\ ~behind' => Read(disk)'
  BY <1>1, <1>3 DEF RelayInv, ReadsFiles, Read
<1>6. /\ op.clean /\ op.undo # "process" => unit = op.found
      /\ op.clean /\ op.proc.enabled => unit.enabled
  BY <1>1, <1>2 DEF RelayInv, Untouched
<1>7. CASE op.undo = "files"
  <2>1. Answered(q, "failed", "blocked")
    BY <1>3, <1>7 DEF AfterUndo
  <2> QED  BY <1>1, <1>3, <1>4, <1>5, <1>6, <1>7, <2>1, TakenBack
<1>8. CASE op.undo = "reload"
  <2>1. at' = "reloadback" /\ op' = q
    BY <1>3, <1>8 DEF AfterUndo, GoTo
  <2>2. Where'
    BY <1>1, <1>2, <1>3, <1>8, <2>1 DEF Where, Kept, Running, TakingBack
  <2>3. op'.wrote /\ op'.clean => Untouched'
    BY <1>1, <1>3, <1>6, <1>8, <2>1 DEF Untouched, Kept, Running
  <2>4. ReadsFiles'
    BY <1>2, <1>3, <1>5, <1>8, <2>1 DEF ReadsFiles, Kept
  <2> QED  BY <1>1, <1>3, <1>4, <2>1, <2>2, <2>3, <2>4, GoInv DEF Places
<1>9. CASE op.undo = "process"
  <2>1. at' = "undostop" /\ op' = q
    BY <1>3, <1>9 DEF AfterUndo, GoTo
  <2>2. Where'
    BY <1>1, <1>2, <1>3, <1>9, <2>1 DEF Where, Kept, Running, TakingBack
  <2>3. op'.wrote /\ op'.clean => Untouched'
    BY <1>1, <1>3, <1>6, <1>9, <2>1 DEF Untouched, Kept, Running
  <2>4. ReadsFiles'
    BY <1>2, <1>3, <2>1 DEF ReadsFiles, Kept
  <2> QED  BY <1>1, <1>3, <1>4, <2>1, <2>2, <2>3, <2>4, GoInv DEF Places
<1> QED  BY <1>2, <1>7, <1>8, <1>9

\* recoverPreviousRouting.
LEMMA ReloadBackInv == RelayInv /\ ReloadBack => RelayInv'
<1> SUFFICES ASSUME RelayInv, ReloadBack  PROVE RelayInv'
  OBVIOUS
<1>1. /\ at = "reloadback" /\ UNCHANGED <<disk, unit, behind, bridgeFixed>>
      /\ CallWorks \/ CallFails \/ UNCHANGED budget
      /\ loaded' = [loaded EXCEPT !.route = disk.routing] \/ UNCHANGED loaded
      /\ Answered(op, "failed", "blocked")
  BY DEF ReloadBack
<1>2. op.wrote /\ op \in RelayJob /\ Kept(op, op)
  BY <1>1, RelayFacts DEF RelayInv, Where, TakingBack, Kept
<1>3. loaded' \in Processes /\ loaded'.run = loaded.run
  BY <1>1, RelayFacts DEF Processes, Disks, RouteFiles
<1>4. Stepped
  BY <1>1, <1>3, RelayFacts, BudgetKept DEF Stepped, bridgeFixed
<1>5. unit'.active /\ ~behind' => Read(disk)'
  BY <1>1, <1>3 DEF RelayInv, ReadsFiles, Read
<1>6. op.clean => disk' = op.before /\ unit' = op.found
  BY <1>1, <1>2 DEF RelayInv, Untouched
<1> QED  BY <1>1, <1>2, <1>4, <1>5, <1>6, TakenBack

\* The process of the failed commit stops.
LEMMA UndoStopInv == RelayInv /\ UndoStop => RelayInv'
<1> SUFFICES ASSUME RelayInv, UndoStop  PROVE RelayInv'
  OBVIOUS
<1>1. at = "undostop" /\ UNCHANGED <<disk, bridgeFixed>>
  BY DEF UndoStop
<1>2. /\ op.wrote /\ op \in RelayJob /\ Kept(op, op) /\ op.kind \in Commits
      /\ op.kind = "reconcile" => ~op.paused
      /\ op.clean \in BOOLEAN /\ op.cancelled \in BOOLEAN /\ op.proc \in Units
  BY <1>1, RelayFacts DEF RelayInv, Where, TakingBack, Kept
<1>3. op.clean => disk = op.before /\ (op.proc.enabled => unit.enabled) /\ Snapshot(op)
  BY <1>1, <1>2 DEF RelayInv, Untouched, SnapshotTaken
<1>4. CASE /\ CallWorks /\ loaded' = NotRunning /\ UNCHANGED behind
           /\ op.proc.active /\ unit' = [active |-> FALSE, enabled |-> TRUE]
           /\ GoTo("undostart", op)
  <2>1. Stepped
    BY <1>1, <1>4, RelayFacts, StartedIsProcess, BudgetKept DEF Stepped, bridgeFixed, Units
  <2>2. at' = "undostart" /\ op' = op /\ ~unit'.active
    BY <1>4 DEF GoTo
  <2>3. Where'
    BY <1>1, <1>2, <1>4, <2>2 DEF Where, Running, TakingBack
  <2>4. op'.wrote /\ op'.clean => Untouched'
    BY <1>1, <1>2, <1>3, <2>2 DEF RelayInv, Untouched, Running
  <2>5. ReadsFiles'
    BY <2>2 DEF ReadsFiles
  <2> QED  BY <1>1, <1>2, <2>1, <2>2, <2>3, <2>4, <2>5, GoInv DEF Places
<1>5. CASE /\ CallWorks /\ loaded' = NotRunning /\ UNCHANGED behind
           /\ ~op.proc.active
           /\ unit' = [active |-> FALSE, enabled |-> unit.enabled /\ op.proc.enabled]
           /\ Answered(op, "failed", "blocked")
  <2>1. unit' \in Units /\ ~unit'.active /\ unit'.enabled = (unit.enabled /\ op.proc.enabled)
    BY <1>2, <1>5, RelayFacts DEF Units
  <2>2. Stepped
    BY <1>1, <1>5, <2>1, RelayFacts, StartedIsProcess, BudgetKept DEF Stepped, bridgeFixed
  <2>3. op.clean => unit' = op.proc
    <3> SUFFICES ASSUME op.clean  PROVE unit' = op.proc
      OBVIOUS
    <3>1. op.proc.enabled \in BOOLEAN /\ unit.enabled \in BOOLEAN /\ op.proc.active \in BOOLEAN
      BY <1>2, RelayFacts DEF Units
    <3>2. (unit.enabled /\ op.proc.enabled) = op.proc.enabled
      BY <1>3, <3>1
    <3>3. op.proc = [active |-> FALSE, enabled |-> op.proc.enabled]
      BY <1>2, <1>5, <3>1 DEF Units
    <3> QED  BY <1>5, <3>2, <3>3
  <2>4. op.clean => unit' = op.found \/ (NothingToWrite(op) /\ PauseEnforced')
    BY <1>3, <2>1, <2>3 DEF Snapshot, NoSnapshot, PauseEnforced
  <2> QED  BY <1>1, <1>2, <1>3, <1>5, <2>1, <2>2, <2>4, TakenBack
<1>6. CASE /\ CallFails /\ behind' = TRUE /\ UNCHANGED <<unit, loaded>>
           /\ Answered([op EXCEPT !.clean = op.cancelled /\ @], "failed", "blocked")
  <2> DEFINE c == (op.cancelled /\ op.clean)
             q == [op EXCEPT !.clean = c]
  <2>1. c \in BOOLEAN /\ (c => op.cancelled /\ op.clean)
    BY <1>2
  <2>2. Answered(q, "failed", "blocked")
    BY <1>6
  <2> HIDE DEF c
  <2>3. q \in RelayJob /\ Kept(q, op) /\ q.clean = c /\ q.cancelled = op.cancelled
    <3>1. op \in RelayJob
      BY <1>2
    <3> QED  BY <2>1, <3>1 DEF RelayJob, Kept
  <2> HIDE DEF q
  <2>4. Stepped
    BY <1>1, <1>6, RelayFacts, BudgetKept DEF Stepped, bridgeFixed
  <2> QED  BY <1>1, <1>3, <1>6, <2>1, <2>2, <2>3, <2>4, TakenBack
<1> QED  BY <1>4, <1>5, <1>6 DEF UndoStop

\* It starts again on the files it had.
LEMMA UndoStartInv == RelayInv /\ UndoStart => RelayInv'
<1> SUFFICES ASSUME RelayInv, UndoStart  PROVE RelayInv'
  OBVIOUS
<1>1. at = "undostart" /\ UNCHANGED <<disk, bridgeFixed>>
  BY DEF UndoStart
<1>2. /\ op.wrote /\ op \in RelayJob /\ Kept(op, op) /\ ~unit.active /\ op.proc.active
      /\ op.clean \in BOOLEAN /\ op.cancelled \in BOOLEAN /\ op.proc \in Units
  BY <1>1, RelayFacts DEF RelayInv, Where, TakingBack, Kept
<1>3. op.clean => disk = op.before /\ op.proc = op.found
  BY <1>1, <1>2 DEF RelayInv, Untouched, SnapshotTaken, Snapshot, NoSnapshot
<1>4. CASE /\ CallWorks /\ loaded' = Started /\ behind' = FALSE
           /\ unit' = [active |-> TRUE, enabled |-> op.proc.enabled \/ ~(disk.env = OldPort)]
           /\ Answered([op EXCEPT !.clean = @ /\ disk.env = OldPort], "failed", "blocked")
  <2> DEFINE answers == (disk.env = OldPort)
             c == (op.clean /\ answers)
             q == [op EXCEPT !.clean = c]
  <2>1. answers \in BOOLEAN /\ c \in BOOLEAN /\ (c => op.clean /\ answers)
    <3>1. answers \in BOOLEAN
      OBVIOUS
    <3> HIDE DEF answers
    <3> QED  BY <1>2, <3>1
  <2>2. Answered(q, "failed", "blocked") /\ unit' = [active |-> TRUE, enabled |-> op.proc.enabled \/ ~answers]
    BY <1>4
  <2> HIDE DEF c, answers
  <2>3. q \in RelayJob /\ Kept(q, op) /\ q.clean = c /\ q.cancelled = op.cancelled
    <3>1. op \in RelayJob
      BY <1>2
    <3> QED  BY <2>1, <3>1 DEF RelayJob, Kept
  <2> HIDE DEF q
  <2>4. op.proc.enabled \in BOOLEAN /\ op.proc = [active |-> TRUE, enabled |-> op.proc.enabled]
    BY <1>2 DEF Units
  <2>5. unit' \in Units /\ (c => unit' = op.proc)
    <3>1. (op.proc.enabled \/ ~answers) \in BOOLEAN
      BY <2>1, <2>4
    <3>2. c => (op.proc.enabled \/ ~answers) = op.proc.enabled
      BY <2>1, <2>4
    <3> QED  BY <2>2, <2>4, <3>1, <3>2 DEF Units
  <2>6. Stepped /\ loaded'.run = disk.registry
    <3>1. loaded' \in Processes /\ loaded'.run = disk.registry
      BY <1>4, RelayFacts, StartedIsProcess
    <3>2. budget' \in Allowance
      BY <1>4, RelayFacts, BudgetKept
    <3> QED  BY <1>1, <1>4, <2>5, <3>1, <3>2, RelayFacts DEF Stepped, bridgeFixed
  <2>7. Read(disk)'
    BY <1>1, <2>6 DEF Read
  <2> QED  BY <1>1, <1>3, <2>1, <2>2, <2>3, <2>5, <2>6, <2>7, TakenBack
<1>5. CASE /\ CallFails /\ UNCHANGED <<unit, loaded, behind>>
           /\ Answered([op EXCEPT !.clean = op.cancelled /\ @], "failed", "blocked")
  <2> DEFINE c == (op.cancelled /\ op.clean)
             q == [op EXCEPT !.clean = c]
  <2>1. c \in BOOLEAN /\ (c => op.cancelled /\ op.clean)
    BY <1>2
  <2>2. Answered(q, "failed", "blocked")
    BY <1>5
  <2> HIDE DEF c
  <2>3. q \in RelayJob /\ Kept(q, op) /\ q.clean = c /\ q.cancelled = op.cancelled
    <3>1. op \in RelayJob
      BY <1>2
    <3> QED  BY <2>1, <3>1 DEF RelayJob, Kept
  <2> HIDE DEF q
  <2>4. Stepped
    BY <1>1, <1>5, RelayFacts, BudgetKept DEF Stepped, bridgeFixed
  <2> QED  BY <1>1, <1>2, <1>3, <1>5, <2>1, <2>2, <2>3, <2>4, TakenBack
<1> QED  BY <1>4, <1>5 DEF UndoStart

\* An answer of a control: it never wrote a file.
LEMMA ControlWritesNot ==
  ASSUME RelayInv, at = "begin", op.kind \in Controls
  PROVE  ~op.wrote /\ op \in RelayJob /\ Kept(op, op) /\ op.kind \notin {"apply", "restore", "reconcile"}
  BY RelayFacts DEF RelayInv, Where, Kept, Controls

\* relay_health.
LEMMA BeginHealthInv == RelayInv /\ BeginHealth => RelayInv'
<1> SUFFICES ASSUME RelayInv, BeginHealth  PROVE RelayInv'
  OBVIOUS
<1>1. /\ at = "begin" /\ op.kind = "health"
      /\ UNCHANGED <<disk, unit, loaded, behind, budget, bridgeFixed>>
  BY DEF BeginHealth
<1>2. /\ ~op.wrote /\ op \in RelayJob /\ Kept(op, op) /\ op.kind \notin {"apply", "restore"}
  BY <1>1, ControlWritesNot DEF Controls
<1>3. Stepped
  BY <1>1, RelayFacts DEF Stepped, bridgeFixed
<1>4. unit'.active /\ ~behind' => Read(disk)'
  BY <1>1, <1>2 DEF RelayInv, ReadsFiles, Read
<1>5. PICK q \in RelayJob, h \in {"healthy", "blocked"} : Kept(q, op) /\ Answered(q, "ok", h)
  <2>1. CASE op.paused
    BY <1>2, <2>1 DEF BeginHealth
  <2>2. CASE ~op.paused
    BY <1>2, <2>2, ChangedFacts DEF BeginHealth
  <2> QED  BY <2>1, <2>2
<1> QED  BY <1>1, <1>2, <1>3, <1>4, <1>5, NothingWritten

\* relay_restart.
LEMMA BeginRestartInv == RelayInv /\ BeginRestart => RelayInv'
<1> SUFFICES ASSUME RelayInv, BeginRestart  PROVE RelayInv'
  OBVIOUS
<1>1. /\ at = "begin" /\ op.kind = "restart" /\ GoTo("stop", op)
      /\ UNCHANGED <<disk, unit, loaded, behind, budget, bridgeFixed>>
  BY DEF BeginRestart
<1>2. ~op.wrote
  BY <1>1, ControlWritesNot DEF Controls
<1>3. Stepped
  BY <1>1, RelayFacts DEF Stepped, bridgeFixed
<1>4. unit'.active /\ ~behind' => Read(disk)'
  BY <1>1, <1>2 DEF RelayInv, ReadsFiles, Read
<1> QED  BY <1>1, <1>2, <1>3, <1>4, GoesUnwritten DEF GoTo

\* relay_start.
LEMMA BeginStartInv == RelayInv /\ BeginStart => RelayInv'
<1> SUFFICES ASSUME RelayInv, BeginStart  PROVE RelayInv'
  OBVIOUS
<1>1. at = "begin" /\ op.kind = "start" /\ UNCHANGED <<disk, bridgeFixed>>
  BY DEF BeginStart
<1>2. ~op.wrote
  BY <1>1, ControlWritesNot DEF Controls
<1>3. unit.active /\ ~behind => Read(disk)
  BY <1>1, <1>2 DEF RelayInv, ReadsFiles
<1>4. CASE /\ CallWorks /\ unit' = [active |-> TRUE, enabled |-> TRUE]
           /\ loaded' = (IF unit.active THEN loaded ELSE Started)
           /\ behind' = (behind /\ unit.active) /\ GoTo("wait", op)
  <2>1. /\ loaded \in Processes /\ Started \in Processes /\ Started.run = disk.registry
        /\ behind \in BOOLEAN /\ unit.active \in BOOLEAN /\ unit' \in Units
    BY <1>4, RelayFacts, StartedIsProcess DEF Units
  <2>2. loaded' \in Processes /\ behind' \in BOOLEAN
    BY <1>4, <2>1
  <2>3. Stepped
    BY <1>1, <1>4, <2>1, <2>2, RelayFacts, BudgetKept DEF Stepped, bridgeFixed
  <2>4. unit'.active /\ ~behind' => Read(disk)'
    BY <1>1, <1>3, <1>4, <2>1 DEF Read
  <2> QED  BY <1>1, <1>2, <1>4, <2>3, <2>4, GoesUnwritten DEF GoTo
<1>5. CASE CallFails /\ Unhealthy(op) /\ UNCHANGED <<unit, loaded, behind>>
  <2>1. Stepped
    BY <1>1, <1>5, RelayFacts, BudgetKept DEF Stepped, bridgeFixed
  <2>2. unit'.active /\ ~behind' => Read(disk)'
    BY <1>1, <1>3, <1>5 DEF Read
  <2> QED  BY <1>1, <1>2, <1>5, <2>1, <2>2, UnhealthyInv DEF Controls
<1> QED  BY <1>4, <1>5 DEF BeginStart

\* relay_stop.
LEMMA BeginStopInv == RelayInv /\ BeginStop => RelayInv'
<1> SUFFICES ASSUME RelayInv, BeginStop  PROVE RelayInv'
  OBVIOUS
<1>1. at = "begin" /\ op.kind = "stop" /\ UNCHANGED <<disk, behind, bridgeFixed>>
  BY DEF BeginStop
<1>2. /\ ~op.wrote /\ op \in RelayJob /\ Kept(op, op) /\ op.kind \notin {"apply", "restore"}
  BY <1>1, ControlWritesNot DEF Controls
<1>3. CASE /\ CallWorks /\ unit' = [active |-> FALSE, enabled |-> FALSE]
           /\ loaded' = NotRunning /\ Answered(op, "ok", "healthy")
  <2>1. unit' \in Units /\ ~unit'.active /\ loaded' \in Processes /\ budget' \in Allowance
    BY <1>3, RelayFacts, StartedIsProcess, BudgetKept DEF Units
  <2>2. Stepped
    BY <1>1, <1>3, <2>1, RelayFacts DEF Stepped, bridgeFixed
  <2> QED  BY <1>1, <1>2, <1>3, <2>1, <2>2, NothingWritten
<1>4. CASE CallFails /\ Answered(op, "failed", "blocked") /\ UNCHANGED <<unit, loaded>>
  <2>1. Stepped
    BY <1>1, <1>4, RelayFacts, BudgetKept DEF Stepped, bridgeFixed
  <2>2. unit'.active /\ ~behind' => Read(disk)'
    BY <1>1, <1>2, <1>4 DEF RelayInv, ReadsFiles, Read
  <2> QED  BY <1>1, <1>2, <1>4, <2>1, <2>2, NothingWritten
<1> QED  BY <1>3, <1>4 DEF BeginStop

\* The Bridge stops: nothing is taken back, and the process may be left behind.
LEMMA BridgeStopsInv == RelayInv /\ BridgeStops => RelayInv'
<1> SUFFICES ASSUME RelayInv, BridgeStops  PROVE RelayInv'
  OBVIOUS
<1>1. /\ at \notin {"idle", "answer"} /\ Fault /\ behind' = (behind \/ op.wrote)
      /\ Answered([op EXCEPT !.clean = FALSE], "failed", "blocked")
      /\ UNCHANGED <<disk, unit, loaded, bridgeFixed>>
  BY DEF BridgeStops, InBridge
<1> DEFINE q == [op EXCEPT !.clean = FALSE]
<1>2. q \in RelayJob /\ Kept(q, op) /\ q.clean = FALSE /\ Answered(q, "failed", "blocked")
  BY <1>1, RelayFacts, ChangedFacts
<1> HIDE DEF q
<1>3. behind' \in BOOLEAN /\ budget' \in Allowance
  <2>1. behind \in BOOLEAN /\ op.wrote \in BOOLEAN
    BY <1>1, RelayFacts
  <2>2. behind' \in BOOLEAN
    BY <1>1, <2>1
  <2> QED  BY <1>1, <2>2, RelayFacts, BudgetKept
<1>4. Stepped
  BY <1>1, <1>3, RelayFacts DEF Stepped, bridgeFixed
<1>5. unit'.active /\ ~behind' => Read(disk)'
  BY <1>1 DEF RelayInv, ReadsFiles, Read
<1> QED  BY <1>1, <1>2, <1>4, <1>5, TakenBack

\* The caller disconnects.
LEMMA CallerLeavesInv == RelayInv /\ CallerLeaves => RelayInv'
<1> SUFFICES ASSUME RelayInv, CallerLeaves  PROVE RelayInv'
  OBVIOUS
<1>1. /\ at \notin {"idle", "answer"} /\ Fault /\ GoTo(at, [op EXCEPT !.cancelled = TRUE])
      /\ UNCHANGED <<disk, unit, loaded, behind, bridgeFixed>>
  BY DEF CallerLeaves, InBridge
<1>2. op \in RelayJob /\ at \in Places
  BY <1>1, RelayFacts
<1>3. /\ at' = at /\ op' \in RelayJob /\ Kept(op', op) /\ op'.clean = op.clean
      /\ op'.undo = op.undo
  BY <1>1, <1>2 DEF GoTo, RelayJob, Kept
<1>4. Stepped
  BY <1>1, RelayFacts, BudgetKept DEF Stepped, bridgeFixed
<1>5. Where'
  BY <1>1, <1>3 DEF RelayInv, Where, Kept
<1>6. op'.wrote /\ op'.clean => Untouched'
  BY <1>1, <1>3 DEF RelayInv, Untouched, Kept, bridgeFixed, ConfigurationMatches, RuntimeMatches,
     RoutingMatches
<1>7. ReadsFiles'
  BY <1>1, <1>3 DEF RelayInv, ReadsFiles, Read, Kept
<1> QED  BY <1>1, <1>2, <1>3, <1>4, <1>5, <1>6, <1>7, GoInv

\* Something outside changes the process or the files: the step is disturbed.
LEMMA TouchedInv ==
  ASSUME RelayInv, Stepped, Touched, UNCHANGED <<at, behind>>,
         unit'.active => unit.active /\ loaded' = loaded,
         disk'.registry \in {disk.registry, Foreign}
  PROVE  RelayInv'
<1>1. Read(disk) /\ unit'.active => Read(disk)'
  BY DEF Read
<1>2. CASE at = "idle"
  <2>1. op' = op /\ at' = "idle"
    BY <1>2 DEF Touched
  <2>2. RelayType'
    <3>1. RelayTypeOK'
      BY <1>2, <2>1 DEF RelayInv, RelayType, RelayTypeOK, Stepped, Units
    <3> QED  BY <2>1, <3>1 DEF RelayInv, RelayType, Stepped, Allowance
  <2>3. Counted' /\ SnapshotTaken' /\ AppliedIsServed' /\ FailedCommitUndone'
    BY <2>1 DEF RelayInv, SnapshotTaken, Counted, Stepped, AppliedIsServed, FailedCommitUndone, CommitTakenBack
  <2>4. ReadsFiles'
    BY <1>1, <1>2, <2>1 DEF RelayInv, ReadsFiles
  <2> QED  BY <2>1, <2>2, <2>3, <2>4 DEF RelayInv
<1>3. CASE at # "idle"
  <2>1. op \in RelayJob /\ at \in Places
    BY <1>3, RelayFacts
  <2>2. /\ op' \in RelayJob /\ Kept(op', op) /\ op'.clean = FALSE /\ op'.undo = op.undo
        /\ op'.health = op.health
    BY <1>3, <2>1 DEF Touched, RelayJob, Kept
  <2>3. RelayType' /\ Counted'
    BY <1>3, <2>1, <2>2, SteppedType DEF RelayInv, RelayType
  <2>4. Where'
    BY <1>3, <2>2 DEF RelayInv, Where, Kept
  <2>5. AppliedIsServed' /\ FailedCommitUndone' /\ SnapshotTaken'
    BY <2>2 DEF SnapshotTaken, AppliedIsServed, FailedCommitUndone, CommitTakenBack
  <2>6. ReadsFiles'
    <3>1. Read(op.before) /\ unit'.active => Read(op.before)'
      BY <2>2 DEF Read, Kept
    <3> QED  BY <1>1, <1>3, <2>2, <3>1 DEF RelayInv, ReadsFiles, Kept
  <2> QED  BY <2>2, <2>3, <2>4, <2>5, <2>6 DEF RelayInv
<1> QED  BY <1>2, <1>3

\* The mcpm process dies.
LEMMA ProcessDiesInv == RelayInv /\ ProcessDies => RelayInv'
<1> SUFFICES ASSUME RelayInv, ProcessDies  PROVE RelayInv'
  OBVIOUS
<1>1. /\ unit' = [unit EXCEPT !.active = FALSE] /\ loaded' = NotRunning /\ Touched /\ Fault
      /\ UNCHANGED <<disk, at, behind, bridgeFixed>>
  BY DEF ProcessDies
<1>2. unit' \in Units /\ ~unit'.active /\ loaded' \in Processes /\ budget' \in Allowance
  <2>1. unit' \in Units /\ ~unit'.active
    BY <1>1, RelayFacts DEF Units
  <2> QED  BY <1>1, <2>1, RelayFacts, StartedIsProcess, BudgetKept
<1>3. Stepped
  BY <1>1, <1>2, RelayFacts DEF Stepped, bridgeFixed
<1> QED  BY <1>1, <1>2, <1>3, TouchedInv

\* The user edits a file.
LEMMA UserEditsInv == RelayInv /\ UserEdits => RelayInv'
<1> SUFFICES ASSUME RelayInv, UserEdits  PROVE RelayInv'
  OBVIOUS
<1>1. /\ Touched /\ Edit /\ UNCHANGED <<unit, loaded, at, behind, bridgeFixed>>
      /\ \/ \E part \in Parts : disk' = [disk EXCEPT ![part] = Foreign]
         \/ disk' = [disk EXCEPT !.extra = TRUE]
         \/ disk' = [disk EXCEPT !.routing = NoRoute]
  BY DEF UserEdits
<1>2. disk \in Disks
  BY RelayFacts
<1>3. disk' \in Disks /\ disk'.registry \in {disk.registry, Foreign}
  <2>1. ASSUME NEW part \in Parts, disk' = [disk EXCEPT ![part] = Foreign]
        PROVE  disk' \in Disks /\ disk'.registry \in {disk.registry, Foreign}
    <3>1. CASE part = "registry"
      BY <1>2, <2>1, <3>1 DEF Disks, Contents
    <3>2. CASE part = "anchors"
      BY <1>2, <2>1, <3>2 DEF Disks, Contents
    <3>3. CASE part = "env"
      BY <1>2, <2>1, <3>3 DEF Disks, Contents
    <3>4. CASE part = "routing"
      BY <1>2, <2>1, <3>4 DEF Disks, Contents
    <3> QED  BY <3>1, <3>2, <3>3, <3>4 DEF Parts
  <2>2. CASE disk' = [disk EXCEPT !.extra = TRUE]
    BY <1>2, <2>2 DEF Disks
  <2>3. CASE disk' = [disk EXCEPT !.routing = NoRoute]
    BY <1>2, <2>3 DEF Disks
  <2> QED  BY <1>1, <2>1, <2>2, <2>3
<1>4. Stepped
  BY <1>1, <1>3, RelayFacts, BudgetKept DEF Stepped, bridgeFixed
<1> QED  BY <1>1, <1>3, <1>4, TouchedInv

Projections == [health : {"healthy", "blocked"}, failures : 0..3,
                retry : {"none", "waiting", "due"}, suspended : BOOLEAN, probeDue : BOOLEAN]

\* Three failures are what suspends.
Counts(p) == p \in Projections /\ (p.suspended <=> p.failures = 3)

\* UpdateRelayProjection counts to three and suspends there.
LEMMA ProjectedCounts ==
  ASSUME NEW p, Counts(p), NEW h \in {"healthy", "blocked"},
         NEW policy \in {"reset", "retry", "observe"},
         NEW c \in BOOLEAN, policy = "retry" => ~p.suspended
  PROVE  Counts(Projected(p, h, policy, c))
<1> DEFINE q == [p EXCEPT !.health = h, !.probeDue = @ /\ ~c]
           e == Projected(p, h, policy, c)
<1>1. /\ Counts(q) /\ q.failures = p.failures /\ q.suspended = p.suspended
      /\ q.retry = p.retry
  BY DEF Projections, Counts
<1>2. e = CASE h = "healthy" ->
                 [q EXCEPT !.failures = 0, !.retry = "none", !.suspended = FALSE]
            [] h # "healthy" /\ policy = "reset" ->
                 [q EXCEPT !.failures = 0, !.retry = "waiting", !.suspended = FALSE]
            [] h # "healthy" /\ policy = "retry" -> Retried(q)
            [] h # "healthy" /\ policy = "observe" ->
                 [q EXCEPT !.retry = IF @ = "none" /\ ~p.suspended THEN "waiting" ELSE @]
  BY DEF Projected
<1> HIDE DEF q, e
<1>3. CASE h = "healthy"
  <2> DEFINE n == 0
             w == "none"
             s == FALSE
  <2>1. n \in 0..3 /\ (s <=> n = 3) /\ s \in BOOLEAN /\ w \in {"none", "waiting", "due"}
    OBVIOUS
  <2>2. e = [q EXCEPT !.failures = n, !.retry = w, !.suspended = s]
    BY <1>2, <1>3
  <2> HIDE DEF n, w, s
  <2>3. Counts(e)
    BY <1>1, <2>1, <2>2 DEF Counts, Projections
  <2> QED  BY <2>3 DEF e
<1>4. CASE h # "healthy" /\ policy = "reset"
  <2> DEFINE n == 0
             w == "waiting"
             s == FALSE
  <2>1. n \in 0..3 /\ (s <=> n = 3) /\ s \in BOOLEAN /\ w \in {"none", "waiting", "due"}
    OBVIOUS
  <2>2. e = [q EXCEPT !.failures = n, !.retry = w, !.suspended = s]
    BY <1>2, <1>4
  <2> HIDE DEF n, w, s
  <2>3. Counts(e)
    BY <1>1, <2>1, <2>2 DEF Counts, Projections
  <2> QED  BY <2>3 DEF e
<1>5. CASE h # "healthy" /\ policy = "retry"
  <2> DEFINE n == q.failures + 1
             w == IF n < 3 THEN "waiting" ELSE "none"
             s == (n >= 3)
  <2>1. n \in 0..3 /\ (s <=> n = 3) /\ s \in BOOLEAN /\ w \in {"none", "waiting", "due"}
    BY <1>1, <1>5 DEF Counts, Projections
  <2>2. e = [q EXCEPT !.failures = n, !.retry = w, !.suspended = s]
    BY <1>2, <1>5 DEF Retried
  <2> HIDE DEF n, w, s
  <2>3. Counts(e)
    BY <1>1, <2>1, <2>2 DEF Counts, Projections
  <2> QED  BY <2>3 DEF e
<1>6. CASE h # "healthy" /\ policy = "observe"
  <2> DEFINE w == IF q.retry = "none" /\ ~p.suspended THEN "waiting" ELSE q.retry
  <2>1. e = [q EXCEPT !.retry = w] /\ w \in {"none", "waiting", "due"}
    BY <1>1, <1>2, <1>6 DEF Counts, Projections
  <2> HIDE DEF w
  <2>2. Counts(e)
    BY <1>1, <2>1 DEF Counts, Projections
  <2> QED  BY <2>2 DEF e
<1> QED  BY <1>3, <1>4, <1>5, <1>6

\* A step whose answer says it failed blocks the target and counts nothing.
LEMMA BlockedCounts ==
  ASSUME NEW p, Counts(p)  PROVE Counts(Blocked(p))
  BY DEF Blocked, Counts, Projections

\* The worker ends the step with a projection that counts.
LEMMA IdleAgainInv ==
  ASSUME RelayInv, at = "answer", idleAgain, UNCHANGED <<disk, unit, loaded, admin, form, behind, budget>>,
         desired' \in Manifests, paused' \in BOOLEAN,
         backup' \subseteq [disk : Disks, m : Manifests],
         Counts(proj')
  PROVE  RelayInv'
<1>1. at' = "idle" /\ op' = NoOp
  BY DEF idleAgain
<1>2. RelayType'
  <2>1. RelayTypeOK'
    BY <1>1 DEF RelayInv, RelayType, RelayTypeOK, Places, Counts, Projections
  <2> QED  BY <1>1, <2>1 DEF RelayInv, RelayType
<1>3. Counted' /\ AppliedIsServed' /\ FailedCommitUndone' /\ SnapshotTaken'
  BY <1>1 DEF Counts, SnapshotTaken, Counted, AppliedIsServed, FailedCommitUndone, CommitTakenBack
<1>4. ReadsFiles'
  BY <1>1 DEF RelayInv, ReadsFiles, Read
<1> QED  BY <1>1, <1>2, <1>3, <1>4 DEF RelayInv

\* The transactions after the answer.
LEMMA RelayFinishInv == RelayInv /\ Finish => RelayInv'
<1> SUFFICES ASSUME RelayInv, Finish  PROVE RelayInv'
  OBVIOUS
<1>1. /\ at = "answer" /\ idleAgain
      /\ UNCHANGED <<disk, unit, loaded, admin, form, behind, budget>>
  BY DEF Finish, FinishCommit, FinishReconcile, FinishControl
<1>2. /\ op.m \in Manifests /\ op.before \in Disks /\ desired \in Manifests /\ paused \in BOOLEAN
      /\ op.health \in {"healthy", "blocked"} /\ op.checked \in BOOLEAN
      /\ Counts(proj)
      /\ backup \subseteq [disk : Disks, m : Manifests]
      /\ op.kind = "reconcile" => ~proj.suspended
  BY <1>1, RelayFacts DEF RelayInv, RelayType, RelayTypeOK, Counted, Counts, Projections, RelayJob
<1>3. ASSUME NEW m \in Manifests  PROVE Recorded(m) \subseteq [disk : Disks, m : Manifests]
  BY <1>2 DEF Recorded
<1>4. CASE proj' = Blocked(proj) /\ UNCHANGED <<paused, backup, desired>>
  BY <1>1, <1>2, <1>4, BlockedCounts, IdleAgainInv
<1>5. CASE UNCHANGED <<paused, backup, desired, proj>>
  BY <1>1, <1>2, <1>5, IdleAgainInv
<1>6. CASE FinishCommit /\ op.result = "ok"
  <2>1. paused' = (paused /\ op.kind # "apply") /\ backup' = Recorded(desired) /\ desired' = op.m
        /\ proj' = Projected(proj, op.health, "reset", op.checked)
    BY <1>6 DEF FinishCommit
  <2>2. paused' \in BOOLEAN
    BY <1>2, <2>1
  <2>3. Counts(proj')
    BY <1>2, <2>1, ProjectedCounts
  <2> QED  BY <1>1, <1>2, <1>3, <2>1, <2>2, <2>3, IdleAgainInv
<1>7. CASE FinishReconcile /\ op.result = "ok"
  <2> DEFINE policy == IF op.retried THEN "retry" ELSE "observe"
  <2>1. /\ backup' = (IF op.wrote THEN Recorded(op.m) ELSE backup)
        /\ proj' = Projected(proj, op.health, policy, op.checked)
        /\ UNCHANGED <<desired, paused>> /\ op.kind = "reconcile"
        /\ policy \in {"retry", "observe"}
    BY <1>7 DEF FinishReconcile
  <2> HIDE DEF policy
  <2>2. Counts(proj')
    BY <1>2, <2>1, ProjectedCounts
  <2>3. backup' \subseteq [disk : Disks, m : Manifests]
    BY <1>2, <1>3, <2>1
  <2> QED  BY <1>1, <1>2, <2>1, <2>2, <2>3, IdleAgainInv
<1>8. CASE FinishControl /\ op.result = "ok"
  <2> DEFINE policy == IF op.kind \in {"start", "restart"} THEN "reset" ELSE "observe"
  <2>1. /\ paused' = (CASE op.kind = "stop" -> TRUE
                        [] op.kind \in {"start", "restart"} -> FALSE
                        [] op.kind = "health" -> paused)
        /\ proj' = Projected(proj, op.health, policy, op.checked) /\ policy \in {"reset", "observe"}
        /\ UNCHANGED <<desired, backup>> /\ op.kind \in {"start", "stop", "restart", "health"}
    BY <1>8 DEF FinishControl, Controls
  <2> HIDE DEF policy
  <2>2. Counts(proj')
    BY <1>2, <2>1, ProjectedCounts
  <2>3. paused' \in BOOLEAN
    BY <1>2, <2>1
  <2> QED  BY <1>1, <1>2, <2>1, <2>2, <2>3, IdleAgainInv
<1> QED  BY <1>4, <1>5, <1>6, <1>7, <1>8 DEF Finish, FinishCommit, FinishReconcile, FinishControl

\* The Settings page and the clock leave the step alone.
LEMMA AroundInv ==
  ASSUME RelayInv, OpenSettings \/ SaveSettings \/ RetryComesDue \/ ProbeComesDue
  PROVE  RelayInv'
<1>1. /\ UNCHANGED <<disk, unit, loaded, admin, desired, backup, at, op, behind>>
      /\ budget' \in Allowance /\ paused' \in BOOLEAN
      /\ form' \in {"closed", "paused", "running"}
      /\ proj' \in Projections /\ proj'.suspended = proj.suspended /\ proj'.failures = proj.failures
  <2>1. /\ proj \in Projections /\ paused \in BOOLEAN /\ form \in {"closed", "paused", "running"}
        /\ budget \in Allowance
    BY RelayFacts DEF RelayInv, RelayType, RelayTypeOK, Projections
  <2>2. CASE OpenSettings
    BY <2>1, <2>2 DEF OpenSettings
  <2>3. CASE SaveSettings
    <3>1. paused' \in BOOLEAN /\ budget' \in Allowance
      BY <2>1, <2>3, BudgetKept DEF SaveSettings
    <3> QED  BY <2>1, <2>3, <3>1 DEF SaveSettings
  <2>4. CASE RetryComesDue
    BY <2>1, <2>4 DEF RetryComesDue, Projections
  <2>5. CASE ProbeComesDue
    BY <2>1, <2>5 DEF ProbeComesDue, Projections
  <2> QED  BY <2>2, <2>3, <2>4, <2>5
<1>2. RelayType'
  <2>1. RelayTypeOK'
    BY <1>1 DEF RelayInv, RelayType, RelayTypeOK, Projections
  <2> QED  BY <1>1, <2>1 DEF RelayInv, RelayType, Allowance
<1>3. Counted'
  BY <1>1 DEF RelayInv, Counted
<1>4. ReadsFiles' /\ FailedCommitUndone' /\ SnapshotTaken'
  BY <1>1 DEF RelayInv, ReadsFiles, Read, FailedCommitUndone, CommitTakenBack, PauseEnforced,
     NothingToWrite, SnapshotTaken, Snapshot, ConfigurationMatches, RuntimeMatches, RoutingMatches
<1>5. AppliedIsServed'
  BY <1>1 DEF RelayInv, AppliedIsServed, PauseEnforced, ConfigurationMatches, RuntimeMatches,
     RoutingMatches
<1>6. at' # "idle" => Where' /\ (op'.wrote /\ op'.clean => Untouched')
  BY <1>1 DEF RelayInv, Where, Untouched, ConfigurationMatches, RuntimeMatches, RoutingMatches
<1> QED  BY <1>2, <1>3, <1>4, <1>5, <1>6 DEF RelayInv

\* Nothing happens.
LEMMA RelayStutters == RelayInv /\ UNCHANGED relayVars => RelayInv'
<1> SUFFICES ASSUME RelayInv, UNCHANGED relayVars  PROVE RelayInv'
  OBVIOUS
<1>1. UNCHANGED <<disk, unit, loaded, admin, desired, paused, proj, backup, form, at, op, behind, budget>>
  BY DEF relayVars
<1>2. RelayType' /\ Counted' /\ ReadsFiles'
  BY <1>1 DEF RelayInv, RelayType, RelayTypeOK, Counted, ReadsFiles, Read
<1>5. FailedCommitUndone' /\ SnapshotTaken'
  BY <1>1 DEF RelayInv, FailedCommitUndone, CommitTakenBack, PauseEnforced, NothingToWrite,
     SnapshotTaken, Snapshot, ConfigurationMatches, RuntimeMatches, RoutingMatches
<1>3. AppliedIsServed'
  BY <1>1 DEF RelayInv, AppliedIsServed, PauseEnforced, ConfigurationMatches, RuntimeMatches,
     RoutingMatches
<1>4. at' # "idle" => Where' /\ (op'.wrote /\ op'.clean => Untouched')
  BY <1>1 DEF RelayInv, Where, Untouched, ConfigurationMatches, RuntimeMatches, RoutingMatches
<1> QED  BY <1>2, <1>3, <1>4, <1>5 DEF RelayInv

\* Every step.
LEMMA RelayNextInv == RelayInv /\ [RelayNext]_relayVars => RelayInv'
<1> SUFFICES ASSUME RelayInv, [RelayNext]_relayVars  PROVE RelayInv'
  OBVIOUS
<1>1. CASE BridgeStep
  BY <1>1, BeginRefusedInv, BeginMatchingInv, BeginWritingInv, BeginHealthInv, BeginRestartInv,
     BeginStartInv, BeginStopInv, WriteFileInv, VerifyInv, ReloadInv, EnsurePausedInv,
     StopUnitInv, StartUnitInv, WaitHealthyInv, UndoFilesInv, ReloadBackInv, UndoStopInv,
     UndoStartInv DEF BridgeStep
<1>2. CASE Finish
  BY <1>2, RelayFinishInv
<1>3. CASE ClaimReconcile \/ Operator
  BY <1>3, ClaimsInv, AroundInv DEF Operator
<1>4. CASE World
  BY <1>4, BridgeStopsInv, CallerLeavesInv, ProcessDiesInv, UserEditsInv DEF World
<1>5. CASE Clock
  BY <1>5, AroundInv DEF Clock
<1>6. CASE UNCHANGED relayVars
  BY <1>6, RelayStutters
<1> QED  BY <1>1, <1>2, <1>3, <1>4, <1>5, <1>6 DEF RelayNext

\* The inductive invariant of the shared relay (RelayManager and the worker
\* steps that drive it).
THEOREM RelayInvariant == RelaySpec => []RelayInv
<1>1. RelayInit => RelayInv
  BY RelayInitInv
<1>2. RelayInv /\ [RelayNext]_relayVars => RelayInv'
  BY RelayNextInv
<1> QED  BY <1>1, <1>2, PTL DEF RelaySpec

\* An apply or a restore that reports success is served (RelayManager.Apply,
\* Restore): the files match its manifest and the process that runs has read
\* them.
THEOREM AppliesServed == RelaySpec => []AppliedIsServed
<1>1. RelayInv => AppliedIsServed
  BY DEF RelayInv
<1> QED  BY <1>1, RelayInvariant, PTL

\* A commit that reports failure took back the files it wrote and the unit's
\* state (restoreRelayFiles, restoreRelayProcess); the apply of what is already
\* there, which captured no process state, left the unit stopped and disabled.
THEOREM FailuresUndone == RelaySpec => []FailedCommitUndone
<1>1. RelayInv => FailedCommitUndone
  BY DEF RelayInv
<1> QED  BY <1>1, RelayInvariant, PTL

\* What a step of a reconcile may do to the unit and to the user's entries.
Respects ==
    at # "idle" /\ op.kind = "reconcile" =>
        /\ op.paused /\ ~unit.active => ~unit'.active
        /\ op.clean /\ disk.extra => disk'.extra

\* Steps that neither start the unit nor write files.
LEMMA NoStart ==
  ASSUME unit' = unit \/ ~unit'.active \/ unit'.active = unit.active, UNCHANGED disk
  PROVE  Respects
  BY DEF Respects

\* Every step respects the user.
LEMMA StepRespects == RelayInv /\ RelayNext => Respects
<1> SUFFICES ASSUME RelayInv, RelayNext  PROVE Respects
  OBVIOUS
<1>1. CASE BeginRefused \/ BeginMatching \/ BeginWriting \/ BeginHealth \/ BeginRestart \/ Verify
           \/ Reload \/ ReloadBack \/ WaitHealthy
  BY <1>1, NoStart DEF BeginRefused, BeginMatching, BeginWriting, BeginHealth, BeginRestart,
     Verify, Reload, ReloadBack, WaitHealthy
<1>2. CASE Finish \/ ClaimReconcile \/ Operator \/ Clock \/ BridgeStops \/ CallerLeaves
  <2>1. UNCHANGED <<disk, unit>>
    BY <1>2 DEF Finish, FinishCommit, FinishReconcile, FinishControl, ClaimReconcile, Operator,
       ClaimApply, ClaimRestore, ClaimControl, Claim, OpenSettings, SaveSettings, Clock,
       RetryComesDue, ProbeComesDue, BridgeStops, CallerLeaves
  <2> QED  BY <2>1, NoStart
<1>3. CASE BeginStop \/ EnsurePaused \/ UndoStop
  BY <1>3, NoStart DEF BeginStop, EnsurePaused, UndoStop
<1>4. CASE StopUnit
  <2>1. unit \in Units
    BY RelayFacts
  <2>2. UNCHANGED disk /\ (unit' = unit \/ ~unit'.active \/ unit'.active = unit.active)
    BY <1>4, <2>1 DEF StopUnit, Units
  <2> QED  BY <2>2, NoStart
<1>5. CASE BeginStart
  BY <1>5 DEF BeginStart, Respects
<1>6. CASE StartUnit \/ UndoStart
  <2>1. UNCHANGED disk /\ at \in {"start", "undostart"}
    BY <1>6 DEF StartUnit, UndoStart
  <2>2. op.kind = "reconcile" => ~op.paused
    BY <2>1 DEF RelayInv, Where, Running, TakingBack
  <2> QED  BY <2>1, <2>2 DEF Respects
<1>7. CASE ProcessDies
  <2>1. UNCHANGED disk /\ ~unit'.active
    BY <1>7, RelayFacts DEF ProcessDies, Units
  <2> QED  BY <2>1, NoStart
<1>8. CASE UserEdits
  <2>1. disk \in Disks
    BY RelayFacts
  <2>2. ASSUME NEW part \in Parts, disk' = [disk EXCEPT ![part] = Foreign]
        PROVE  disk'.extra = disk.extra
    BY <2>1, <2>2 DEF Disks, Parts
  <2>3. disk.extra => disk'.extra
    BY <1>8, <2>1, <2>2 DEF UserEdits, Disks
  <2> QED  BY <1>8, <2>3 DEF UserEdits, Respects
<1>9. CASE WriteFile
  <2> SUFFICES ASSUME op.kind = "reconcile", op.clean, disk.extra  PROVE disk'.extra
    BY <1>9 DEF WriteFile, Respects
  <2>1. CASE disk' = Put(disk, Goal, Head(op.todo))
    <3>1. at = "write" /\ op.todo # <<>>
      BY <1>9 DEF WriteFile
    <3>2. Head(op.todo) \in Parts
      BY <3>1, RelayFacts, HeadTailProperties
    <3>3. Goal \in Disks /\ Goal.extra = disk.extra
      <4>1. Goal = Rendered(disk, op.m, TRUE)
        BY DEF Goal
      <4> QED  BY <3>1, <4>1, RelayFacts, RenderedIsDisk
    <3> QED  BY <2>1, <3>2, <3>3, RelayFacts, PutIsDisk
  <2> QED  BY <1>9, <2>1 DEF WriteFile
<1>10. CASE UndoFiles
  <2>1. at = "undo" /\ UNCHANGED unit
    BY <1>10 DEF UndoFiles
  <2>2. op.wrote
    BY <2>1 DEF RelayInv, Where, TakingBack
  <2>3. op.kind = "reconcile" /\ op.clean => disk.extra = op.before.extra
    BY <2>1, <2>2 DEF RelayInv, Untouched
  <2>4. op.kind = "reconcile" /\ op.clean => disk'.extra = disk.extra
    BY <1>10, <2>3 DEF UndoFiles
  <2> QED  BY <2>1, <2>4 DEF Respects
<1> QED  BY <1>1, <1>2, <1>3, <1>4, <1>5, <1>6, <1>7, <1>8, <1>9, <1>10
         DEF RelayNext, BridgeStep, World

\* A reconcile never starts a relay the user paused and keeps the entries the
\* user added (Apply with preserveUnmanaged, EnsurePaused, restoreRelayFiles).
THEOREM ReconcilesRespectUser == RelaySpec => ReconcileRespectsUser
<1>1. RelayInv /\ [RelayNext]_relayVars =>
        [at # "idle" /\ op.kind = "reconcile" =>
           /\ op.paused /\ ~unit.active => ~unit'.active
           /\ op.clean /\ disk.extra => disk'.extra]_relayVars
  BY StepRespects DEF Respects
<1> QED  BY <1>1, RelayInvariant, PTL DEF RelaySpec, ReconcileRespectsUser
-----------------------------------------------------------------------------
(* The types of the three parts, which share no state *)

\* Whole seconds are fewer than instants.
LEMMA UnixBelow ==
  ASSUME NEW t \in Nat  PROVE Unix(t) \in 0..t
<1>1. Unix(t) \in Int /\ Unix(t) * Fractions <= t /\ t < (Unix(t) + 1) * Fractions
  BY UnixRoundsDown
<1>2. Fractions \in Nat /\ Fractions >= 1
  BY AuthAssumption
<1>3. Unix(t) >= 0
  BY <1>1, <1>2
<1>4. Unix(t) <= Unix(t) * Fractions
  BY <1>1, <1>2, <1>3
<1> QED  BY <1>1, <1>2, <1>3, <1>4

\* Instants stay within the bound and pending deliveries are not old.
LEMMA AuthTypes == AuthTypeOK /\ [AuthNext]_authVars => AuthTypeOK'
<1> SUFFICES ASSUME AuthTypeOK, [AuthNext]_authVars  PROVE AuthTypeOK'
  OBVIOUS
<1>1. ASSUME NEW n \in Nonces, NEW ts \in 0..(MaxTime \div Fractions), SignRequest(n, ts)
      PROVE  AuthTypeOK'
  <2>1. MaxTime \div Fractions \in 0..MaxTime
    BY UnixBelow, AuthAssumption DEF Unix
  <2>2. ts \in -1..MaxTime
    BY <2>1, AuthAssumption
  <2> QED  BY <1>1, <2>2 DEF AuthTypeOK, SignRequest
<1>2. ASSUME NEW n \in Nonces, VerifyRequest(n)  PROVE AuthTypeOK'
  <2>1. clock - clock \in 0..MaxStall
    BY AuthAssumption DEF AuthTypeOK
  <2> QED  BY <1>2, <2>1 DEF AuthTypeOK, VerifyRequest
<1>3. ASSUME NEW d \in verified, AcceptNonce(d)  PROVE AuthTypeOK'
  <2>1. Unix(clock) \in -1..MaxTime /\ Unix(clock) * Fractions <= clock
    <3>1. clock \in Nat /\ clock <= MaxTime
      BY AuthAssumption DEF AuthTypeOK
    <3>2. Unix(clock) \in 0..clock /\ Unix(clock) * Fractions <= clock
      BY <3>1, UnixBelow, UnixRoundsDown
    <3> QED  BY <3>1, <3>2, AuthAssumption
  <2>2. d.nonce \in Nonces /\ (-1) * Fractions <= clock
    BY AuthAssumption DEF AuthTypeOK
  <2>3. CASE UNCHANGED <<seen, served>>
    BY <1>3, <2>3 DEF AuthTypeOK, AcceptNonce
  <2>4. CASE seen[d.nonce] = -1
    <3>1. /\ seen' = [n \in Nonces |-> IF n = d.nonce THEN Unix(clock)
                                       ELSE IF Pruned(seen[n], clock) THEN -1 ELSE seen[n]]
          /\ served' = [served EXCEPT ![d.nonce] = @ + 1]
          /\ verified' = verified \ {d} /\ UNCHANGED <<clock, signed>>
      BY <1>3, <2>4 DEF AcceptNonce
    <3>2. seen' \in [Nonces -> -1..MaxTime] /\ \A n \in Nonces : seen'[n] * Fractions <= clock'
      BY <2>1, <2>2, <3>1, AuthAssumption DEF AuthTypeOK
    <3>3. served' \in [Nonces -> Nat]
      BY <2>2, <3>1 DEF AuthTypeOK
    <3> QED  BY <3>1, <3>2, <3>3 DEF AuthTypeOK
  <2> QED  BY <1>3, <2>3, <2>4 DEF AcceptNonce
<1>4. CASE Pass
  <2>1. \A d \in verified : d.at \in 0..MaxTime /\ clock - d.at \in 0..MaxStall
    BY DEF AuthTypeOK
  <2>2. clock' \in 0..MaxTime /\ \A d \in verified : clock' - d.at \in 0..MaxStall
    BY <1>4, <2>1, AuthAssumption DEF AuthTypeOK, Pass
  <2>3. \A n \in Nonces : seen[n] * Fractions <= clock'
    <3> SUFFICES ASSUME NEW n \in Nonces  PROVE seen[n] * Fractions <= clock'
      OBVIOUS
    <3>1. seen[n] \in Int /\ clock \in Int /\ seen[n] * Fractions <= clock
      BY AuthAssumption DEF AuthTypeOK
    <3> QED  BY <1>4, <3>1, AuthAssumption DEF Pass
  <2> QED  BY <1>4, <2>2, <2>3 DEF AuthTypeOK, Pass
<1>5. CASE UNCHANGED authVars
  BY <1>5 DEF AuthTypeOK, authVars
<1> QED  BY <1>1, <1>2, <1>3, <1>4, <1>5 DEF AuthNext

\* A backup is one directory or gone, and what was renamed away is a directory.
Shelved ==
    /\ asides \subseteq Dirs
    /\ \A i \in Ids : store[i] = {} \/ \E d \in Dirs : store[i] = {d}

\* No step of a Skill directory stores two.
LEMMA ShelvedNext == RootInv /\ Shelved /\ [SkillNext]_skillVars => Shelved'
<1> SUFFICES ASSUME RootInv, Shelved, [SkillNext]_skillVars  PROVE Shelved'
  OBVIOUS
<1>1. root \in Dirs /\ store \in [Ids -> SUBSET Dirs]
  BY DEF RootInv, RootType
<1>2. CASE UNCHANGED <<asides, store>>
  BY <1>2 DEF Shelved
<1>3. CASE UNCHANGED store /\ (asides' \subseteq asides \cup {root})
  BY <1>1, <1>3 DEF Shelved
<1>4. ASSUME NEW id \in Ids, NEW d \in Dirs, UNCHANGED asides,
             store' = [store EXCEPT ![id] = {d}] \/ store' = [store EXCEPT ![id] = {}]
      PROVE  Shelved'
  <2>1. \A i \in Ids : i # id => store'[i] = store[i]
    BY <1>1, <1>4
  <2>2. store'[id] = {} \/ store'[id] = {d}
    BY <1>1, <1>4
  <2> QED  BY <1>4, <2>1, <2>2 DEF Shelved
<1>5. CASE SkillBackup
  <2>1. CASE UNCHANGED store
    BY <1>2, <1>5, <2>1 DEF SkillBackup
  <2>2. ASSUME NEW id \in Ids, store' = [store EXCEPT ![id] = {root}]  PROVE Shelved'
    <3>1. UNCHANGED asides
      BY <1>5 DEF SkillBackup
    <3> QED  BY <1>1, <1>4, <2>2, <3>1
  <2> QED  BY <1>5, <2>1, <2>2 DEF SkillBackup
<1>6. CASE GcRemove
  <2>1. UNCHANGED asides
    BY <1>6 DEF GcRemove, gcFixed
  <2>2. ASSUME NEW id \in Ids, NEW d \in store[id], NEW n \in Names,
               store' = [store EXCEPT ![id] = {[d EXCEPT ![n] = Absent]}]
        PROVE  Shelved'
    <3>1. [d EXCEPT ![n] = Absent] \in Dirs
      BY <1>1 DEF Dirs
    <3> QED  BY <1>4, <2>1, <2>2, <3>1
  <2>3. ASSUME NEW id \in Ids, store' = [store EXCEPT ![id] = {}]  PROVE Shelved'
    BY <1>1, <1>4, <2>1, <2>3
  <2> QED  BY <1>2, <1>6, <2>1, <2>2, <2>3 DEF GcRemove
<1>7. CASE SwapOut \/ SwapIn \/ SwapDiscard
  BY <1>3, <1>7 DEF SwapOut, SwapIn, SwapDiscard, copies
<1>8. CASE \/ SkillBegin \/ SkillStage \/ SkillRevert \/ SkillCheck \/ SkillFinish
           \/ GcBegin \/ GcCommit \/ GcReport \/ SkillBridgeStops \/ SkillEdit
           \/ SkillReconcile \/ (\E m \in SkillSets : SkillApply(m)) \/ SkillRestore
  <2>1. UNCHANGED <<asides, store>>
    BY <1>8 DEF SkillBegin, SkillStage, SkillRevert, SkillCheck, SkillFinish, GcBegin, GcCommit,
       GcReport, SkillBridgeStops, SkillEdit, SkillReconcile, SkillApply, SkillRestore, SkillClaim,
       copies, gcFixed
  <2> QED  BY <1>2, <2>1
<1>9. CASE UNCHANGED skillVars
  BY <1>2, <1>9 DEF skillVars
<1> QED  BY <1>5, <1>6, <1>7, <1>8, <1>9 DEF SkillNext, SkillStep, GcStep

\* The types of a Skill directory.
LEMMA SkillTypes == RootInv /\ Shelved => SkillTypeOK
<1> SUFFICES ASSUME RootInv, Shelved  PROVE SkillTypeOK
  OBVIOUS
<1>1. \A i \in Ids : store[i] \subseteq Dirs /\ Cardinality(store[i]) <= 1
  <2> SUFFICES ASSUME NEW i \in Ids  PROVE store[i] \subseteq Dirs /\ Cardinality(store[i]) <= 1
    OBVIOUS
  <2>1. CASE store[i] = {}
    BY <2>1, FS_EmptySet
  <2>2. ASSUME NEW d \in Dirs, store[i] = {d}  PROVE store[i] \subseteq Dirs /\ Cardinality(store[i]) <= 1
    BY <2>2, FS_Singleton
  <2> QED  BY <2>1, <2>2 DEF Shelved
<1>2. where = "idle" <=> job = NoJob
  <2>1. \A q \in SkillJob : q # NoJob
    BY DEF SkillJob, NoJob
  <2> QED  BY <2>1 DEF RootInv, RootType
<1> QED  BY <1>1, <1>2 DEF SkillTypeOK, Shelved, RootInv, RootType

\* The whole host keeps its types, whichever part moves: a request belongs to
\* its place (worker.go), three counted failures suspend a relay
\* (UpdateRelayProjection), a backup is one directory or gone (RemoveBackup),
\* and no nonce is remembered from the future (AcceptNonce).
THEOREM HostTypes == HostSpec => []HostTypeOK
<1> DEFINE HostInv == RelayInv /\ RootInv /\ Shelved /\ AuthTypeOK
<1>1. HostInit => HostInv
  <2> SUFFICES ASSUME HostInit  PROVE HostInv
    OBVIOUS
  <2>1. RelayInit /\ SkillInit /\ AuthInit
    BY DEF HostInit
  <2>2. Shelved
    BY <2>1 DEF SkillInit, Shelved
  <2>3. AuthTypeOK
    BY <2>1, AuthAssumption DEF AuthInit, AuthTypeOK
  <2> QED  BY <2>1, <2>2, <2>3, RelayInitInv, RootInit
<1>2. HostInv /\ [HostNext]_hostVars => HostInv'
  <2> SUFFICES ASSUME HostInv, [HostNext]_hostVars  PROVE HostInv'
    OBVIOUS
  <2>1. [RelayNext]_relayVars /\ [SkillNext]_skillVars /\ [AuthNext]_authVars
    BY DEF HostNext, hostVars
  <2> QED  BY <2>1, RelayNextInv, RootNext, ShelvedNext, AuthTypes
<1>3. HostInv => HostTypeOK
  BY SkillTypes DEF HostTypeOK, RelayInv, RelayType
<1> QED  BY <1>1, <1>2, <1>3, PTL DEF HostSpec
=============================================================================
