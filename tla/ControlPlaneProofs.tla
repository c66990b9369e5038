-------------------------- MODULE ControlPlaneProofs --------------------------
(***************************************************************************)
(* What the control plane keeps in its database, for every value of the    *)
(* constants: imports from local clients forget nothing and bring nothing  *)
(* twice (Intake), tool calls are counted once and none is skipped         *)
(* (Telemetry), a finalized routing job pins what the relay serves and an  *)
(* enforced one has a way back (Governance), a generation-1 import brings  *)
(* in what was reviewed under names of its own (ConfigMigration), and the  *)
(* five parts are well typed together.                                     *)
(***************************************************************************)
EXTENDS MCControlPlane, ProfileApplyProofs, FiniteSetTheorems, SequenceTheorems,
        WellFoundedInduction, TLAPS

-----------------------------------------------------------------------------
(* Intake: Skills *)

\* The job of a batch as it is stored, worked on and reported.
QueuedShape  == [at : {"queued"}, request : SUBSET Entries, asked : SUBSET Entries,
                 rev : [Entries -> Nat]]
WorkShape(at) == [at : {at}, request : SUBSET Entries, asked : SUBSET Entries,
                  rev : [Entries -> Nat], left : SUBSET Entries, chunk : SUBSET Entries,
                  failed : SUBSET Entries, good : SUBSET Entries]
EndedShape   == [at : {"ended"}, request : SUBSET Entries, asked : SUBSET Entries,
                 rev : [Entries -> Nat], result : {"failed", "partial", "succeeded"}]

\* Every item of the request is to be exported, exported, failed or committed.
Running(job) == /\ job.request \subseteq job.left \cup job.chunk \cup job.failed \cup job.good
                /\ job.good \subseteq landed

\* A job without failed items has committed what was asked for, in this attempt or
\* in one that a stop cut short.
Complete(job) == job.failed = {} => job.asked \subseteq landed

SkillInv ==
    /\ native \in [Entries -> Nat] /\ scanned \in [Entries -> Nat]
    /\ skillJob = NoJob \/ skillJob.asked \subseteq landed \cup skillJob.request
    /\ \/ skillJob = NoJob
       \/ skillJob \in QueuedShape
       \/ skillJob \in WorkShape("running") /\ Running(skillJob)
       \/ skillJob \in WorkShape("narrowed") /\ Complete(skillJob)
       \/ skillJob \in EndedShape
          /\ (skillJob.result = "succeeded" => skillJob.asked \subseteq landed)

(* Intake: MCP servers *)

\* Every row was saved once, at most one still has the name of the entry, and a
\* step that has captured the entry has no row yet.
ServerInv ==
    /\ \A s \in servers : {"step", "saves", "renamed"} \subseteq DOMAIN s /\ s.saves = 1
    /\ \A s, r \in servers : s.renamed \/ r.renamed \/ s = r
    /\ mcpJob.at = "captured" => \A s \in servers : s.step # mcpJob.step

IntakeInv == SkillInv /\ ServerInv
-----------------------------------------------------------------------------
\* Creating, retrying and requeueing an import.
LEMMA QueuedSkill ==
    ASSUME SkillInv,
           \/ \E items \in SUBSET Entries : CreateImport(items)
           \/ RetryFailedItems \/ StopDuringImport
    PROVE  SkillInv'
  <1>1. CASE \E items \in SUBSET Entries : CreateImport(items)
    BY <1>1 DEF SkillInv, CreateImport, QueuedJob, QueuedShape
  <1>2. CASE RetryFailedItems
    <2>1. skillJob \in EndedShape
      BY <1>2 DEF RetryFailedItems, SkillInv, QueuedShape, WorkShape, NoJob
    <2> QED  BY <1>2, <2>1 DEF SkillInv, RetryFailedItems, QueuedJob, QueuedShape, EndedShape
  <1>3. CASE StopDuringImport
    <2>1. skillJob \in WorkShape("running") \/ skillJob \in WorkShape("narrowed")
      BY <1>3 DEF StopDuringImport, SkillInv, QueuedShape, EndedShape, NoJob
    <2>2. /\ skillJob.request \in SUBSET Entries /\ skillJob.asked \in SUBSET Entries
          /\ skillJob.rev \in [Entries -> Nat] /\ skillJob # NoJob
      BY <2>1, <1>3 DEF WorkShape, StopDuringImport, NoJob
    <2> QED  BY <1>3, <2>2 DEF SkillInv, StopDuringImport, Requeued, QueuedShape
  <1> QED  BY <1>1, <1>2, <1>3

\* The worker's own steps.
LEMMA WorkedSkill ==
    ASSUME SkillInv, SkillStep \/ \E e \in Entries : ItemFails(e)
    PROVE  SkillInv'
  <1>1. CASE StartImport
    <2>1. skillJob \in QueuedShape
      BY <1>1 DEF StartImport, SkillInv, WorkShape, EndedShape, NoJob
    <2>2. skillJob' \in WorkShape("running") /\ Running(skillJob)'
      BY <1>1, <2>1 DEF StartImport, QueuedShape, WorkShape, Running
    <2>3. skillJob'.asked \subseteq landed' \cup skillJob'.request
      BY <1>1, <2>1 DEF StartImport, SkillInv, QueuedShape, NoJob
    <2> QED  BY <1>1, <2>2, <2>3 DEF StartImport, SkillInv
  <1>2. CASE ExportChunk
    <2>1. skillJob \in WorkShape("running") /\ Running(skillJob)
      BY <1>2 DEF ExportChunk, SkillInv, QueuedShape, WorkShape, EndedShape, NoJob
    <2>2. PICK items \in SUBSET skillJob.left :
            skillJob' = [skillJob EXCEPT !.left = @ \ items, !.chunk = Exported(items),
                                         !.failed = @ \cup (items \ Exported(items))]
      BY <1>2 DEF ExportChunk
    <2>3. Exported(items) \subseteq items
      BY DEF Exported
    <2>4. skillJob.chunk = {} /\ landed' = landed
      BY <1>2 DEF ExportChunk
    <2>5. skillJob' \in WorkShape("running") /\ Running(skillJob)'
      BY <2>1, <2>2, <2>3, <2>4 DEF WorkShape, Running
    <2>6. skillJob'.asked \subseteq landed' \cup skillJob'.request
      BY <2>1, <2>2, <2>4 DEF SkillInv, WorkShape, NoJob
    <2> QED  BY <1>2, <2>5, <2>6 DEF ExportChunk, SkillInv
  <1>3. ASSUME NEW e \in Entries, CommitItem(e)
        PROVE  SkillInv'
    <2>1. skillJob \in WorkShape("running") /\ Running(skillJob)
      BY <1>3 DEF CommitItem, SkillInv, QueuedShape, WorkShape, EndedShape, NoJob
    <2>2. skillJob' = [skillJob EXCEPT !.chunk = @ \ {e}, !.good = @ \cup {e}]
      BY <1>3 DEF CommitItem
    <2>3. e \in skillJob.chunk /\ landed' = landed \cup {e}
      BY <1>3 DEF CommitItem
    <2>4. skillJob' \in WorkShape("running")
      BY <2>1, <2>2 DEF WorkShape
    <2>5. Running(skillJob)'
      BY <2>1, <2>2, <2>3 DEF WorkShape, Running
    <2>6. skillJob'.asked \subseteq landed' \cup skillJob'.request
      BY <2>1, <2>2, <2>3 DEF SkillInv, WorkShape, NoJob
    <2> QED  BY <1>3, <2>4, <2>5, <2>6 DEF CommitItem, SkillInv
  <1>6. ASSUME NEW e \in Entries, ItemFails(e)
        PROVE  SkillInv'
    <2>0. skillJob.at = "running"
      BY <1>6 DEF ItemFails
    <2>1. skillJob \in WorkShape("running") /\ Running(skillJob)
      BY <2>0 DEF SkillInv, QueuedShape, WorkShape, EndedShape, NoJob
    <2>2. skillJob' = [skillJob EXCEPT !.chunk = @ \ {e}, !.failed = @ \cup {e}]
      BY <1>6 DEF ItemFails
    <2>3. e \in skillJob.chunk /\ landed' = landed
      BY <1>6 DEF ItemFails
    <2>4. skillJob' \in WorkShape("running")
      BY <2>1, <2>2 DEF WorkShape
    <2>5. Running(skillJob)'
      BY <2>1, <2>2, <2>3 DEF WorkShape, Running
    <2>6. skillJob'.asked \subseteq landed' \cup skillJob'.request
      BY <2>1, <2>2, <2>3 DEF SkillInv, WorkShape, NoJob
    <2> QED  BY <1>6, <2>4, <2>5, <2>6 DEF ItemFails, SkillInv
  <1>4. CASE NarrowRequest
    <2>1. skillJob \in WorkShape("running") /\ Running(skillJob)
      BY <1>4 DEF NarrowRequest, SkillInv, QueuedShape, WorkShape, EndedShape, NoJob
    <2>2. skillJob.asked \subseteq landed \cup skillJob.request
      BY <2>1 DEF SkillInv, WorkShape, NoJob
    <2>3. skillJob' \in WorkShape("narrowed") /\ Complete(skillJob)'
      BY <1>4, <2>1, <2>2 DEF NarrowRequest, Narrowed, WorkShape, Running, Complete
    <2>4. skillJob'.asked \subseteq landed' \cup skillJob'.request
      BY <1>4, <2>1, <2>2 DEF NarrowRequest, Narrowed, WorkShape, Running
    <2> QED  BY <1>4, <2>3, <2>4 DEF NarrowRequest, SkillInv
  <1>5. CASE FinishImport
    <2>1. skillJob \in WorkShape("narrowed") /\ Complete(skillJob)
      BY <1>5 DEF FinishImport, SkillInv, QueuedShape, WorkShape, EndedShape, NoJob
    <2>2. /\ skillJob' \in EndedShape
          /\ skillJob'.result = "succeeded" => skillJob'.asked \subseteq landed'
      BY <1>5, <2>1 DEF FinishImport, ImportResult, WorkShape, EndedShape, Complete
    <2>3. skillJob'.asked \subseteq landed' \cup skillJob'.request
      BY <1>5, <2>1 DEF FinishImport, SkillInv, WorkShape, NoJob
    <2> QED  BY <1>5, <2>2, <2>3 DEF FinishImport, SkillInv
  <1> QED  BY <1>1, <1>2, <1>3, <1>4, <1>5, <1>6 DEF SkillStep

\* Whatever leaves the job and the committed items alone.
LEMMA UndisturbedSkill ==
    ASSUME SkillInv, UNCHANGED <<skillJob, landed>>,
           native' \in [Entries -> Nat], scanned' \in [Entries -> Nat]
    PROVE  SkillInv'
  BY DEF SkillInv, Running, Complete

\* No step of an import of Skills disturbs SkillInv.
LEMMA SkillNext ==
    ASSUME SkillInv, [IntakeNext]_intakeVars
    PROVE  SkillInv'
  <1>1. CASE \/ \E items \in SUBSET Entries, c \in BOOLEAN : ImportLocalSkillBatch(items, c)
             \/ \E e \in Entries : ImportLocalSkill(e)
             \/ RetryFailedItems \/ StopDuringImport
    BY <1>1, QueuedSkill DEF ImportLocalSkillBatch, ImportLocalSkill
  <1>2. CASE SkillStep \/ \E e \in Entries : ItemFails(e)
    BY <1>2, WorkedSkill
  <1>3. CASE UserEditsSkills
    BY <1>3, UndisturbedSkill, IntakeAssumption DEF UserEditsSkills, SkillInv, Contents
  <1>4. CASE ScanTarget
    BY <1>4, UndisturbedSkill DEF ScanTarget, SkillInv
  <1>5. CASE UploadSkill
    BY <1>5, UndisturbedSkill DEF UploadSkill, SkillInv
  <1>6. CASE UNCHANGED skillVars
    BY <1>6, UndisturbedSkill DEF skillVars, SkillInv
  <1> QED
    BY <1>1, <1>2, <1>3, <1>4, <1>5, <1>6
    DEF IntakeNext, MCPStep, UserEditsMCP, PreflightLocalMCPImport,
        CreateLocalMCPImportOperation, RetryMCPImport, CaptureMCP, SaveCaptured,
        FinishMCPImport, CaptureFails, StopDuringMCPImport, RenameServer, intakeVars

\* The imports of Skills leave the servers and their job alone; the others change
\* them as follows.
LEMMA ServerNext ==
    ASSUME ServerInv, [IntakeNext]_intakeVars
    PROVE  ServerInv'
  <1>1. CASE UNCHANGED mcpVars
    BY <1>1 DEF mcpVars, ServerInv
  <1>2. CASE UserEditsMCP \/ PreflightLocalMCPImport
    BY <1>2 DEF UserEditsMCP, PreflightLocalMCPImport, ServerInv
  <1>3. CASE \E token \in mcpTokens : CreateLocalMCPImportOperation(token)
    BY <1>3 DEF CreateLocalMCPImportOperation, ServerInv
  <1>4. CASE RetryMCPImport
    BY <1>4 DEF RetryMCPImport, ServerInv
  <1>5. CASE CaptureMCP
    <2>1. CASE \E result \in {"succeeded", "failed"} : EndMCP(result)
      BY <1>5, <2>1 DEF CaptureMCP, EndMCP, ServerInv
    <2>2. CASE ~AlreadySaved(mcpJob.step) /\ mcpJob' = [mcpJob EXCEPT !.at = "captured"]
      <3>1. mcpJob'.step = mcpJob.step
        BY <2>2
      <3> QED  BY <1>5, <2>2, <3>1 DEF CaptureMCP, AlreadySaved, ServerInv
    <2> QED  BY <1>5, <2>1, <2>2 DEF CaptureMCP
  <1>6. CASE CaptureFails \/ FinishMCPImport
    BY <1>6 DEF CaptureFails, FinishMCPImport, EndMCP, ServerInv
  <1>7. CASE StopDuringMCPImport
    <2>1. mcpJob'.at # "captured" \/ mcpJob' = mcpJob
      BY <1>7 DEF StopDuringMCPImport
    <2> QED  BY <1>7, <2>1 DEF StopDuringMCPImport, ServerInv
  <1>8. CASE RenameServer
    <2>1. PICK s \in servers : servers' = (servers \ {s}) \cup {[s EXCEPT !.renamed = TRUE]}
      BY <1>8 DEF RenameServer
    <2> DEFINE new == [s EXCEPT !.renamed = TRUE]
    <2>2. /\ {"step", "saves", "renamed"} \subseteq DOMAIN new /\ new.saves = 1
          /\ new.step = s.step /\ new.renamed = TRUE
      BY DEF ServerInv
    <2> HIDE DEF new
    <2>3. servers' = (servers \ {s}) \cup {new} /\ mcpJob' = mcpJob
      BY <1>8, <2>1 DEF RenameServer, new
    <2> QED  BY <2>2, <2>3 DEF ServerInv
  <1>9. CASE SaveCaptured
    <2>1. CASE UNCHANGED servers /\ EndMCP("failed")
      BY <2>1 DEF EndMCP, ServerInv
    <2>2. CASE ~NameTaken(mcpJob.step) /\ servers' = Saved(mcpJob)
               /\ mcpJob' = [mcpJob EXCEPT !.at = "saved"]
      <3>1. \A s \in servers : s.step # mcpJob.step
        BY <1>9 DEF SaveCaptured, ServerInv
      <3>2. servers' = servers \cup {[step |-> mcpJob.step, token |-> mcpJob.token,
                                      saves |-> 1, renamed |-> FALSE]}
        BY <2>2, <3>1 DEF Saved
      <3>3. \A s \in servers : s.renamed
        BY <2>2, <3>1 DEF NameTaken
      <3>4. mcpJob'.at # "captured"
        BY <1>9, <2>2 DEF SaveCaptured
      <3> DEFINE new == [step |-> mcpJob.step, token |-> mcpJob.token, saves |-> 1,
                         renamed |-> FALSE]
      <3>5. {"step", "saves", "renamed"} \subseteq DOMAIN new /\ new.saves = 1
        OBVIOUS
      <3> HIDE DEF new
      <3>6. servers' = servers \cup {new}
        BY <3>2 DEF new
      <3> QED  BY <3>3, <3>4, <3>5, <3>6 DEF ServerInv
    <2> QED  BY <1>9, <2>1, <2>2 DEF SaveCaptured
  <1> QED
    BY <1>1, <1>2, <1>3, <1>4, <1>5, <1>6, <1>7, <1>8, <1>9
    DEF IntakeNext, MCPStep, SkillStep, UserEditsSkills, ScanTarget, UploadSkill,
        ImportLocalSkillBatch, ImportLocalSkill, CreateImport, RetryFailedItems,
        StartImport, ExportChunk, NarrowRequest, FinishImport, CommitItem, ItemFails,
        StopDuringImport, intakeVars

\* No import is under way.
LEMMA IntakeInitInv ==
    ASSUME IntakeInit
    PROVE  IntakeInv
  BY DEF IntakeInit, IntakeInv, SkillInv, ServerInv, NoJob

\* What the imports rely on, in every state.
THEOREM IntakeInvariant == IntakeSpec => []IntakeInv
  <1>1. IntakeInit => IntakeInv
    BY IntakeInitInv
  <1>2. IntakeInv /\ [IntakeNext]_intakeVars => IntakeInv'
    BY SkillNext, ServerNext DEF IntakeInv
  <1> QED  BY <1>1, <1>2, PTL DEF IntakeSpec

\* An item of a confirmed batch is committed or still in the stored request of its
\* operation (UpdateOperationTargetRequest), and a batch reported as succeeded has
\* brought all of them, for any number of items, chunks, stops, retries and errors.
THEOREM ImportsForgetNothing == IntakeSpec => []NothingForgotten
  <1>1. IntakeInv => NothingForgotten
    BY DEF IntakeInv, SkillInv, NothingForgotten, NoJob, QueuedShape, WorkShape, EndedShape
  <1> QED  BY <1>1, IntakeInvariant, PTL

\* A confirmed MCP entry has one row with one revision (executeLocalMCPImport looks
\* for the row of its step, SaveMCPServer refuses a taken name), unless the operator
\* has renamed the first one.
THEOREM ServersBroughtOnce == IntakeSpec => []ServerBroughtOnce
  <1>1. IntakeInv => ServerBroughtOnce
    BY DEF IntakeInv, ServerInv, ServerBroughtOnce
  <1> QED  BY <1>1, IntakeInvariant, PTL
-----------------------------------------------------------------------------
(* Telemetry *)

Cursor == [boot : Nat, seq : Nat]
Batch  == [boot : Nat \ {0}, first : Nat, next : Nat, log : Seq(Observations)]

TelType ==
    /\ boot \in Nat \ {0} /\ log \in Seq(Observations)
    /\ running \subseteq Upstreams /\ members \subseteq Upstreams
    /\ cursors \in [Upstreams -> Cursor]
    /\ pull \in [at : {"idle", "queued", "ingested"}] \cup [at : {"asking"}, after : Cursor]
                \cup [at : {"drained"}, batch : Batch]

\* What the relay still holds up to position n of this boot is counted.
CountedTo(n) == \A i \in 1..Len(log) : i <= n /\ i + Buffer > Len(log) => <<boot, i>> \in tally

\* A cursor is not ahead of the relay and everything before it is counted.
Reached(c) == /\ c.boot <= boot
              /\ c.boot = boot => c.seq <= Len(log) /\ CountedTo(c.seq)

\* An observation that is counted is covered by its server's cursor.
Covered(b, i, s) == cursors[s].boot = b /\ i <= cursors[s].seq

Counted ==
    /\ tally \subseteq Nat \X Nat
    /\ \A e \in tally : e[1] <= boot /\ (e[1] = boot => e[2] \in 1..Len(log))
    /\ \A i \in 1..Len(log) : <<boot, i>> \in tally => Covered(boot, i, log[i].server)

\* A batch is a part of the log of its boot that no later cursor has overtaken.
Drain(batch) ==
    /\ batch.first <= batch.next /\ batch.next <= Len(batch.log) /\ batch.boot <= boot
    /\ \A s \in Upstreams : cursors[s].boot <= batch.boot
    /\ \A i \in 1..Len(batch.log) :
         <<batch.boot, i>> \in tally => Covered(batch.boot, i, batch.log[i].server)
    /\ batch.boot = boot => /\ Len(batch.log) <= Len(log) /\ CountedTo(batch.first)
                            /\ \A i \in 1..Len(batch.log) : batch.log[i] = log[i]

TelInv ==
    /\ TelType /\ double = {} /\ Counted
    /\ \A s \in Upstreams : Reached(cursors[s])
    /\ pull.at = "asking" => Reached(pull.after)
    /\ pull.at = "drained" => Drain(pull.batch)

-----------------------------------------------------------------------------
\* A set of numbers has a least one, which Min is.
LEMMA LeastNumber ==
    ASSUME NEW S \in SUBSET Nat, S # {}
    PROVE  Min(S) \in S /\ \A n \in S : Min(S) <= n
  <1> DEFINE R == {ss \in Nat \X Nat : ss[1] < ss[2]}
  <1>1. IsWellFoundedOn(R, Nat)
    BY NatLessThanWellFounded DEF OpToRel
  <1>2. \A m, n \in Nat : m < n => <<m, n>> \in R
    OBVIOUS
  <1> HIDE DEF R
  <1>3. PICK m \in S : \A n \in S : ~(<<n, m>> \in R)
    BY <1>1, WFMin
  <1>4. ASSUME NEW n \in S  PROVE  m <= n
    <2>1. m \in Nat /\ n \in Nat /\ <<n, m>> \notin R
      BY <1>3
    <2>2. ~(n < m)
      BY <1>2, <2>1
    <2> QED  BY <2>1, <2>2
  <1> QED  BY <1>4 DEF Min

\* Induction over a set of numbers: 0 and every successor belong to it.
LEMMA AllNumbers ==
    ASSUME NEW S, 0 \in S, \A n \in Nat : n \in S => n + 1 \in S
    PROVE  \A n \in Nat : n \in S
  <1> SUFFICES ASSUME Nat \ S # {}  PROVE FALSE
    OBVIOUS
  <1> DEFINE m == Min(Nat \ S)
  <1>1. m \in Nat \ S /\ \A n \in Nat \ S : m <= n
    BY LeastNumber
  <1> HIDE DEF m
  <1>2. m # 0 /\ m - 1 \in Nat
    BY <1>1
  <1>3. m - 1 \in S
    BY <1>1, <1>2
  <1> QED  BY <1>1, <1>2, <1>3

\* f has this first value, and each of its values is a step from the one before.
Iterates(f, V, v0, step) ==
    /\ f \in [Nat -> V] /\ f[0] = v0
    /\ \A n \in Nat : f[n + 1] = step[n][f[n]]

\* There is such a function: definition by recursion over the numbers.
LEMMA Recursion ==
    ASSUME NEW V, NEW v0 \in V, NEW step \in [Nat -> [V -> V]]
    PROVE  \E f : Iterates(f, V, v0, step)
  <1> DEFINE Approx(n) == {g \in [0..n -> V] : /\ g[0] = v0
                                               /\ \A m \in 0..(n - 1) : g[m + 1] = step[m][g[m]]}
  <1>1. \A n \in Nat : Approx(n) # {}
    <2> DEFINE S == {n \in Nat : Approx(n) # {}}
    <2>1. 0 \in S
      <3>1. [m \in 0..0 |-> v0] \in Approx(0)
        OBVIOUS
      <3> QED  BY <3>1
    <2>2. ASSUME NEW n \in Nat, n \in S  PROVE n + 1 \in S
      <3>1. PICK g : g \in Approx(n)
        BY <2>2
      <3> DEFINE h == [m \in 0..(n + 1) |-> IF m = n + 1 THEN step[n][g[n]] ELSE g[m]]
      <3>2. g[n] \in V /\ step[n][g[n]] \in V
        BY <3>1
      <3>3. h \in [0..(n + 1) -> V]
        BY <3>1, <3>2
      <3>4. h[0] = v0
        BY <3>1
      <3>5. ASSUME NEW m \in 0..n  PROVE h[m + 1] = step[m][h[m]]
        BY <3>1, <3>5
      <3> HIDE DEF h
      <3>6. (n + 1) - 1 = n
        OBVIOUS
      <3>7. h \in Approx(n + 1)
        BY <3>3, <3>4, <3>5, <3>6
      <3> QED  BY <3>7
    <2> HIDE DEF S
    <2>3. \A n \in Nat : n \in S
      BY <2>1, <2>2, AllNumbers
    <2> QED  BY <2>3 DEF S
  <1>2. ASSUME NEW k \in Nat, NEW g \in Approx(k), NEW h \in Approx(k + 1)
        PROVE  g[k] = h[k]
    <2> DEFINE S == {m \in Nat : m <= k => g[m] = h[m]}
    <2>1. 0 \in S
      OBVIOUS
    <2>2. ASSUME NEW m \in Nat, m \in S  PROVE m + 1 \in S
      <3> SUFFICES ASSUME m + 1 <= k  PROVE g[m + 1] = h[m + 1]
        OBVIOUS
      <3>1. m \in 0..(k - 1) /\ m \in 0..((k + 1) - 1) /\ g[m] = h[m]
        BY <2>2
      <3>2. g[m + 1] = step[m][g[m]] /\ h[m + 1] = step[m][h[m]]
        BY <3>1
      <3> QED  BY <3>1, <3>2
    <2> HIDE DEF S
    <2>3. k \in S
      BY <2>1, <2>2, AllNumbers
    <2> QED  BY <2>3 DEF S
  <1> DEFINE pick(n) == CHOOSE g : g \in Approx(n)
             f == [n \in Nat |-> pick(n)[n]]
  <1>3. \A n \in Nat : pick(n) \in Approx(n)
    BY <1>1
  <1> HIDE DEF pick
  <1>4. f \in [Nat -> V]
    BY <1>3
  <1>5. f[0] = v0
    BY <1>3
  <1>6. ASSUME NEW n \in Nat  PROVE f[n + 1] = step[n][f[n]]
    <2>1. pick(n) \in Approx(n) /\ pick(n + 1) \in Approx(n + 1)
      BY <1>3
    <2>2. pick(n + 1)[n + 1] = step[n][pick(n + 1)[n]]
      BY <2>1
    <2>3. pick(n + 1)[n] = pick(n)[n]
      BY <2>1, <1>2
    <2> QED  BY <2>2, <2>3
  <1> QED  BY <1>4, <1>5, <1>6 DEF Iterates

\* Max and Min of two numbers.
LEMMA OfTwo ==
    ASSUME NEW a \in Nat, NEW b \in Nat
    PROVE  /\ Max({a, b}) = IF a >= b THEN a ELSE b
           /\ Min({a, b}) = IF a <= b THEN a ELSE b
  <1>1. Max({a, b}) \in {a, b} /\ \A n \in {a, b} : Max({a, b}) >= n
    <2>1. \E m \in {a, b} : \A n \in {a, b} : m >= n
      OBVIOUS
    <2> QED  BY <2>1 DEF Max
  <1>2. Min({a, b}) \in {a, b} /\ \A n \in {a, b} : Min({a, b}) <= n
    <2>1. \E m \in {a, b} : \A n \in {a, b} : m <= n
      OBVIOUS
    <2> QED  BY <2>1 DEF Min
  <1> QED  BY <1>1, <1>2

\* The observations of a log name servers.
LEMMA ObservedServers ==
    ASSUME NEW seq \in Seq(Observations)
    PROVE  /\ Len(seq) \in Nat
           /\ \A i \in 1..Len(seq) : seq[i].server \in Upstreams
  <1>1. \A i \in 1..Len(seq) : seq[i] \in Observations
    OBVIOUS
  <1>2. \A o \in Observations : o.server \in Upstreams
    BY DEF Observations
  <1> QED  BY <1>1, <1>2

\* The relay goes on in its boot.
Continues == /\ boot' = boot /\ log' \in Seq(Observations) /\ Len(log) <= Len(log')
             /\ \A i \in 1..Len(log) : log'[i] = log[i]

\* Growing logs and aggregates leave a cursor where it is.
LEMMA ReachedKept ==
    ASSUME TelType, NEW c \in Cursor, Reached(c), Continues, tally \subseteq tally'
    PROVE  Reached(c)'
  <1>1. Len(log) \in Nat /\ Len(log') \in Nat /\ c.seq \in Nat /\ Buffer \in Nat
    BY TelemetryAssumption DEF TelType, Continues, Cursor
  <1> QED  BY <1>1 DEF Reached, CountedTo, Continues

\* A new boot has no cursor and no observations yet.
LEMMA RebootInv ==
    ASSUME TelInv, NEW set \in SUBSET Upstreams, Boots(set), members' = members,
           UNCHANGED <<cursors, tally, double, pull>>
    PROVE  TelInv'
  <1>1. /\ boot' = boot + 1 /\ log' = <<>> /\ running' = set /\ boot \in Nat \ {0}
        /\ log' \in Seq(Observations) /\ Len(log') = 0
    BY EmptySeq DEF Boots, TelInv, TelType
  <1>2. TelType'
    BY <1>1 DEF TelInv, TelType
  <1>3. Counted'
    BY <1>1 DEF TelInv, Counted
  <1>4. ASSUME NEW c \in Cursor, Reached(c)
        PROVE  Reached(c)'
    BY <1>1, <1>4 DEF Reached, Cursor
  <1>5. \A s \in Upstreams : Reached(cursors[s])'
    <2> SUFFICES ASSUME NEW s \in Upstreams PROVE Reached(cursors[s])'
      OBVIOUS
    <2>1. PICK c \in Cursor : cursors[s] = c
      BY DEF TelInv, TelType
    <2> QED  BY <1>4, <2>1 DEF TelInv
  <1>6. pull'.at = "asking" => Reached(pull.after)'
    <2> SUFFICES ASSUME pull.at = "asking" PROVE Reached(pull.after)'
      OBVIOUS
    <2>1. PICK c \in Cursor : pull.after = c
      BY DEF TelInv, TelType
    <2> QED  BY <1>4, <2>1 DEF TelInv
  <1>7. pull'.at = "drained" => Drain(pull.batch)'
    <2> SUFFICES ASSUME pull.at = "drained" PROVE Drain(pull.batch)'
      OBVIOUS
    <2>1. PICK batch \in Batch : pull.batch = batch
      BY DEF TelInv, TelType
    <2>2. Drain(batch)
      BY <2>1 DEF TelInv
    <2>3. Drain(batch)'
      BY <1>1, <2>2 DEF Drain, Covered, Batch
    <2> QED  BY <2>1, <2>3
  <1> QED  BY <1>2, <1>3, <1>5, <1>6, <1>7 DEF TelInv

\* A tool call is behind every cursor and no part of a batch.
LEMMA ToolCallInv ==
    ASSUME TelInv, ToolCall
    PROVE  TelInv'
  <1>1. PICK u \in Observations : log' = Append(log, u)
    BY DEF ToolCall, Observations, TelInv, TelType
  <1>2. UNCHANGED <<boot, running, members, cursors, tally, double, pull>>
    BY DEF ToolCall
  <1>3. /\ log \in Seq(Observations) /\ Len(log) \in Nat /\ log' \in Seq(Observations)
        /\ Len(log') = Len(log) + 1 /\ \A i \in 1..Len(log) : log'[i] = log[i]
        /\ Buffer \in Nat
    BY <1>1, TelemetryAssumption DEF TelInv, TelType
  <1>4. Continues
    BY <1>2, <1>3 DEF Continues
  <1>5. TelType'
    BY <1>2, <1>3 DEF TelInv, TelType
  <1>6. Counted'
    BY <1>2, <1>3 DEF TelInv, Counted, Covered
  <1>7. \A s \in Upstreams : Reached(cursors[s])'
    <2> SUFFICES ASSUME NEW s \in Upstreams PROVE Reached(cursors[s])'
      OBVIOUS
    <2>1. PICK c \in Cursor : cursors[s] = c
      BY DEF TelInv, TelType
    <2> QED  BY <1>2, <1>4, <2>1, ReachedKept DEF TelInv
  <1>8. pull'.at = "asking" => Reached(pull.after)'
    <2> SUFFICES ASSUME pull.at = "asking" PROVE Reached(pull.after)'
      BY <1>2
    <2>1. PICK c \in Cursor : pull.after = c
      BY DEF TelInv, TelType
    <2> QED  BY <1>2, <1>4, <2>1, ReachedKept DEF TelInv
  <1>9. pull'.at = "drained" => Drain(pull.batch)'
    <2> SUFFICES ASSUME pull.at = "drained" PROVE Drain(pull.batch)'
      BY <1>2
    <2>1. PICK batch \in Batch : pull.batch = batch
      BY DEF TelInv, TelType
    <2>2. Drain(batch)
      BY <2>1 DEF TelInv
    <2>3. Len(batch.log) \in Nat /\ batch.first \in Nat /\ batch.next \in Nat
      BY DEF Batch
    <2>4. Drain(batch)'
      BY <1>2, <1>3, <2>2, <2>3 DEF Drain, Covered, CountedTo
    <2> QED  BY <1>2, <2>1, <2>4
  <1> QED  BY <1>2, <1>5, <1>6, <1>7, <1>8, <1>9 DEF TelInv

\* Everything the control plane reads as its cursor is reached.
LEMMA CursorReached ==
    ASSUME TelInv, NEW c \in RelayObservationCursor
    PROVE  c \in Cursor /\ Reached(c)
  <1> DEFINE all == {cursors[s] : s \in members}
             any == {cursors[s] : s \in Upstreams} \ {NoCursor}
  <1>1. NoCursor \in Cursor /\ Reached(NoCursor)
    BY DEF NoCursor, Cursor, Reached, TelInv, TelType
  <1>2. \A d \in any \cup all : d \in Cursor /\ Reached(d)
    BY DEF TelInv, TelType
  <1>3. CASE c \in any \cup {NoCursor}
    BY <1>1, <1>2, <1>3
  <1>4. CASE members # {} /\ c = [boot |-> (CHOOSE d \in all : TRUE).boot, seq |-> Min({d.seq : d \in all})]
    <2>1. PICK d \in all : d = CHOOSE e \in all : TRUE
      BY <1>4
    <2>2. d \in Cursor /\ Reached(d)
      BY <1>2, <2>1
    <2>3. {e.seq : e \in all} \in SUBSET Nat /\ d.seq \in {e.seq : e \in all}
      <3>1. \A e \in all : e.seq \in Nat
        BY <1>2 DEF Cursor
      <3> HIDE DEF all
      <3> QED  BY <2>1, <3>1
    <2>4. PICK n \in Nat : n = Min({e.seq : e \in all}) /\ n <= d.seq
      BY <2>3, LeastNumber
    <2>5. c = [boot |-> d.boot, seq |-> n]
      BY <1>4, <2>1, <2>4
    <2>6. c \in Cursor /\ c.boot = d.boot /\ c.seq = n
      BY <2>2, <2>5 DEF Cursor
    <2>7. Len(log) \in Nat /\ d.seq \in Nat
      BY <2>2 DEF TelInv, TelType, Cursor
    <2>8. c.boot <= boot
      BY <2>2, <2>6 DEF Reached
    <2>9. ASSUME c.boot = boot
          PROVE  c.seq <= Len(log) /\ CountedTo(c.seq)
      <3>1. d.seq <= Len(log) /\ CountedTo(d.seq)
        BY <2>2, <2>6, <2>9 DEF Reached
      <3>2. n <= Len(log)
        BY <2>4, <2>7, <3>1
      <3>3. \A i \in 1..Len(log) : i <= n => i <= d.seq
        BY <2>4, <2>7
      <3>4. CountedTo(n)
        BY <3>1, <3>3 DEF CountedTo
      <3> QED  BY <2>6, <3>2, <3>4
    <2> QED  BY <2>6, <2>8, <2>9 DEF Reached
  <1> QED  BY <1>3, <1>4 DEF RelayObservationCursor

\* The answer of the relay to a cursor it reached.
LEMMA DrainedFollows ==
    ASSUME TelInv, NEW after \in Cursor, Reached(after)
    PROVE  Drained(after) \in Batch /\ Drain(Drained(after))
  <1> DEFINE start == IF after.boot = boot THEN after.seq ELSE 0
             lost  == IF Len(log) > Buffer THEN Len(log) - Buffer ELSE 0
             first == Max({start, lost})
             next  == Min({Len(log), first + Limit})
  <1>1. /\ Len(log) \in Nat /\ log \in Seq(Observations) /\ boot \in Nat \ {0}
        /\ Buffer \in Nat \ {0} /\ Limit \in Nat \ {0}
    BY TelemetryAssumption DEF TelInv, TelType
  <1>2. start \in Nat /\ start <= Len(log) /\ lost \in Nat /\ lost <= Len(log)
    BY <1>1 DEF Reached, Cursor
  <1>3. CountedTo(start)
    BY <1>1 DEF Reached, CountedTo
  <1>4. first = IF start >= lost THEN start ELSE lost
    BY <1>2, OfTwo
  <1>5. \A i \in 1..Len(log) : i + Buffer > Len(log) => i > lost
    BY <1>1
  <1> HIDE DEF start, lost
  <1>6. first \in Nat /\ first <= Len(log)
    BY <1>2, <1>4
  <1>7. CountedTo(first)
    BY <1>1, <1>2, <1>3, <1>4, <1>5 DEF CountedTo
  <1> HIDE DEF first
  <1>8. next \in Nat /\ first <= next /\ next <= Len(log)
    <2>1. first + Limit \in Nat
      BY <1>1, <1>6
    <2>2. next = IF Len(log) <= first + Limit THEN Len(log) ELSE first + Limit
      BY <1>1, <2>1, OfTwo
    <2> QED  BY <1>1, <1>6, <2>2
  <1>9. Drained(after) = [boot |-> boot, first |-> first, next |-> next, log |-> log]
    BY DEF Drained, first, start, lost
  <1> HIDE DEF next
  <1>10. Drained(after) \in Batch
    BY <1>1, <1>6, <1>8, <1>9 DEF Batch
  <1> DEFINE batch == Drained(after)
  <1>11. /\ batch.boot = boot /\ batch.first = first /\ batch.next = next /\ batch.log = log
    BY <1>9
  <1> HIDE DEF batch
  <1>12. \A s \in Upstreams : cursors[s].boot <= boot
    BY DEF TelInv, Reached
  <1>13. Drain(batch)
    BY <1>1, <1>7, <1>8, <1>11, <1>12 DEF Drain, TelInv, Counted
  <1> QED  BY <1>10, <1>13 DEF batch

\* A step on the pull and the configuration alone.
LEMMA PullMoves ==
    ASSUME TelInv, UNCHANGED <<boot, log, cursors, tally, double>>,
           running' \subseteq Upstreams, members' \subseteq Upstreams,
           \/ pull' = pull \/ pull' \in [at : {"idle", "queued", "ingested"}]
           \/ \E c \in Cursor : pull' = [at |-> "asking", after |-> c] /\ Reached(c)
           \/ \E batch \in Batch : pull' = [at |-> "drained", batch |-> batch] /\ Drain(batch)
    PROVE  TelInv'
  <1>1. Counted' /\ double' = {}
    BY DEF TelInv, Counted, Covered
  <1>2. \A s \in Upstreams : Reached(cursors[s])'
    BY DEF TelInv, Reached, CountedTo
  <1>3. ASSUME NEW c \in Cursor, Reached(c)  PROVE Reached(c)'
    BY <1>3 DEF Reached, CountedTo
  <1>4. ASSUME NEW b \in Batch, Drain(b)  PROVE Drain(b)'
    BY <1>4 DEF Drain, CountedTo, Covered
  <1>5. CASE pull' = pull
    <2>1. TelType'
      BY <1>5 DEF TelInv, TelType
    <2>2. pull.at = "asking" => Reached(pull.after)'
      BY <1>5 DEF TelInv, Reached, CountedTo
    <2>3. pull.at = "drained" => Drain(pull.batch)'
      BY <1>5 DEF TelInv, Drain, CountedTo, Covered
    <2> QED  BY <1>1, <1>2, <1>5, <2>1, <2>2, <2>3 DEF TelInv
  <1>6. CASE pull' \in [at : {"idle", "queued", "ingested"}]
    <2>1. TelType'
      BY <1>6 DEF TelInv, TelType
    <2> QED  BY <1>1, <1>2, <1>6, <2>1 DEF TelInv
  <1>7. ASSUME NEW c \in Cursor, pull' = [at |-> "asking", after |-> c], Reached(c)
        PROVE  TelInv'
    <2>1. TelType'
      BY <1>7 DEF TelInv, TelType
    <2>2. pull'.at = "asking" /\ pull'.after = c
      BY <1>7
    <2> QED  BY <1>1, <1>2, <1>3, <1>7, <2>1, <2>2 DEF TelInv
  <1>8. ASSUME NEW batch \in Batch, pull' = [at |-> "drained", batch |-> batch], Drain(batch)
        PROVE  TelInv'
    <2>1. TelType'
      BY <1>8 DEF TelInv, TelType
    <2>2. pull'.at = "drained" /\ pull'.batch = batch
      BY <1>8
    <2> QED  BY <1>1, <1>2, <1>4, <1>8, <2>1, <2>2 DEF TelInv
  <1> QED  BY <1>5, <1>6, <1>7, <1>8

\* The transaction counts what no cursor covers, and only that.
LEMMA IngestInv ==
    ASSUME TelInv, IngestRelayObservations
    PROVE  TelInv'
  <1>1. /\ pull.at = "drained" /\ pull' = [at |-> "ingested"]
        /\ UNCHANGED <<boot, log, running, members>>
    BY DEF IngestRelayObservations
  <1>2. PICK batch \in Batch : pull.batch = batch
    BY <1>1 DEF TelInv, TelType
  <1>3. Drain(batch)
    BY <1>1, <1>2 DEF TelInv
  <1>4. CASE UNCHANGED <<cursors, tally, double>>
    BY <1>1, <1>4, PullMoves DEF TelInv, TelType
  <1>5. CASE ~Outrun(batch) /\ ~Unknown(batch)
    <2> DEFINE new == {<<batch.boot, i>> : i \in Fresh(batch)}
    <2>1. /\ tally' = tally \cup new /\ double' = double \cup (new \cap tally)
          /\ cursors' = Moved(batch)
      BY <1>2, <1>5 DEF IngestRelayObservations
    <2>2. /\ batch.boot \in Nat \ {0} /\ batch.first \in Nat /\ batch.next \in Nat
          /\ batch.log \in Seq(Observations) /\ Len(batch.log) \in Nat
          /\ \A i \in 1..Len(batch.log) : batch.log[i].server \in Upstreams
      <3>1. batch.boot \in Nat \ {0} /\ batch.first \in Nat /\ batch.next \in Nat
        BY DEF Batch
      <3>2. batch.log \in Seq(Observations)
        BY DEF Batch
      <3> QED  BY <3>1, <3>2, ObservedServers
    <2>3. /\ boot \in Nat \ {0} /\ Len(log) \in Nat /\ log \in Seq(Observations)
          /\ \A i \in 1..Len(log) : log[i].server \in Upstreams
      <3>1. boot \in Nat \ {0} /\ log \in Seq(Observations)
        BY DEF TelInv, TelType
      <3> QED  BY <3>1, ObservedServers
    <2>4. \A s \in Upstreams : cursors[s].boot \in Nat /\ cursors[s].seq \in Nat /\ cursors[s] \in Cursor
      BY DEF TelInv, TelType, Cursor
    <2>5. batch.first <= batch.next /\ batch.next <= Len(batch.log) /\ batch.boot <= boot
      BY <1>3 DEF Drain
    <2>6. \A i \in (batch.first + 1)..batch.next : i \in 1..Len(batch.log)
      BY <2>2, <2>5
    <2>7. \A i : i \in Fresh(batch) <=>
            /\ i \in (batch.first + 1)..batch.next
            /\ ~Covered(batch.boot, i, batch.log[i].server)
      BY <2>2, <2>4, <2>6 DEF Fresh, Covered
    <2>8. new \cap tally = {}
      BY <1>3, <2>6, <2>7 DEF Drain
    <2>9. \A s \in Upstreams :
            \/ cursors'[s] = cursors[s] /\ (s \in Tracked(batch) =>
                 cursors[s].boot = batch.boot /\ cursors[s].seq >= batch.next)
            \/ /\ cursors'[s] = [boot |-> batch.boot, seq |-> batch.next]
               /\ ~(cursors[s].boot = batch.boot /\ cursors[s].seq >= batch.next)
      BY <2>1 DEF Moved
    <2>10. \A i \in (batch.first + 1)..batch.next : batch.log[i].server \in Tracked(batch)
      BY DEF Tracked
    <2> HIDE DEF new
    <2>11. cursors' \in [Upstreams -> Cursor]
      <3>1. [boot |-> batch.boot, seq |-> batch.next] \in Cursor
        BY <2>2 DEF Cursor
      <3>2. DOMAIN cursors' = Upstreams /\ cursors' = [s \in Upstreams |-> cursors'[s]]
        BY <2>1 DEF Moved
      <3> QED  BY <2>4, <2>9, <3>1, <3>2
    <2>12. TelType'
      BY <1>1, <2>11 DEF TelInv, TelType
    <2>13. ASSUME batch.boot = boot
           PROVE  \A i \in 1..Len(log) : i <= batch.next /\ i + Buffer > Len(log)
                    => <<boot, i>> \in tally'
      <3> SUFFICES ASSUME NEW i \in 1..Len(log), i <= batch.next, i + Buffer > Len(log)
                   PROVE  <<boot, i>> \in tally'
        OBVIOUS
      <3>1. CASE i <= batch.first
        BY <1>3, <2>1, <2>13, <3>1 DEF Drain, CountedTo
      <3>2. CASE i \in (batch.first + 1)..batch.next /\ ~Covered(batch.boot, i, batch.log[i].server)
        BY <2>1, <2>7, <2>13, <3>2 DEF new
      <3>3. CASE i \in (batch.first + 1)..batch.next /\ Covered(batch.boot, i, batch.log[i].server)
        <4>1. PICK s \in Upstreams : s = batch.log[i].server
          BY <2>2, <2>6, <3>3
        <4>2. cursors[s].boot = boot /\ i <= cursors[s].seq
          BY <2>13, <3>3, <4>1 DEF Covered
        <4>3. <<boot, i>> \in tally
          BY <4>2 DEF TelInv, Reached, CountedTo
        <4> QED  BY <2>1, <4>3
      <3> QED  BY <2>2, <2>3, <3>1, <3>2, <3>3
    <2>14. \A s \in Upstreams : Reached(cursors[s])'
      <3> SUFFICES ASSUME NEW s \in Upstreams  PROVE Reached(cursors[s])'
        OBVIOUS
      <3>1. CASE cursors'[s] = cursors[s]
        <4>1. Reached(cursors[s])
          BY DEF TelInv
        <4> QED  BY <1>1, <2>1, <3>1, <4>1 DEF Reached, CountedTo
      <3>2. CASE cursors'[s] = [boot |-> batch.boot, seq |-> batch.next]
        <4>1. cursors'[s].boot = batch.boot /\ cursors'[s].seq = batch.next
          BY <3>2
        <4>2. batch.boot = boot => batch.next <= Len(log)
          BY <1>3, <2>2, <2>3, <2>5 DEF Drain
        <4> QED  BY <1>1, <2>5, <2>13, <4>1, <4>2 DEF Reached, CountedTo
      <3> QED  BY <2>9, <3>1, <3>2
    <2>15. Counted'
      <3>1. tally' \subseteq Nat \X Nat
        BY <2>1, <2>2, <2>7 DEF new, TelInv, Counted
      <3>2. ASSUME NEW e \in tally'
            PROVE  e[1] <= boot /\ (e[1] = boot => e[2] \in 1..Len(log))
        <4>1. CASE e \in tally
          BY <4>1 DEF TelInv, Counted
        <4>2. CASE e \in new
          <5>1. PICK i \in (batch.first + 1)..batch.next : e = <<batch.boot, i>>
            BY <2>7, <4>2 DEF new
          <5>2. batch.boot = boot => Len(batch.log) <= Len(log)
            BY <1>3 DEF Drain
          <5> QED  BY <2>2, <2>3, <2>5, <2>6, <5>1, <5>2
        <4> QED  BY <2>1, <4>1, <4>2
      <3>3. ASSUME NEW i \in 1..Len(log), <<boot, i>> \in tally'
            PROVE  cursors'[log[i].server].boot = boot /\ i <= cursors'[log[i].server].seq
        <4>0. PICK s \in Upstreams : s = log[i].server
          BY <2>3
        <4>1. CASE <<boot, i>> \in tally
          <5>1. cursors[s].boot = boot /\ i <= cursors[s].seq
            BY <4>0, <4>1 DEF TelInv, Counted, Covered
          <5>2. cursors[s].boot <= batch.boot
            BY <1>3 DEF Drain
          <5>3. batch.boot = boot
            BY <2>2, <2>3, <2>5, <5>1, <5>2
          <5> QED  BY <2>2, <2>4, <2>9, <4>0, <5>1, <5>3
        <4>2. CASE <<boot, i>> \in new
          <5>1. batch.boot = boot /\ i \in (batch.first + 1)..batch.next
            BY <2>7, <4>2 DEF new
          <5>2. log[i] = batch.log[i]
            BY <1>3, <2>6, <5>1 DEF Drain
          <5>3. s \in Tracked(batch)
            BY <2>10, <4>0, <5>1, <5>2
          <5> QED  BY <2>2, <2>4, <2>9, <4>0, <5>1, <5>3
        <4> QED  BY <2>1, <3>3, <4>1, <4>2
      <3> QED  BY <1>1, <3>1, <3>2, <3>3 DEF Counted, Covered
    <2>16. double' = {} /\ pull'.at = "ingested"
      BY <1>1, <2>1, <2>8 DEF TelInv
    <2> QED  BY <2>12, <2>14, <2>15, <2>16 DEF TelInv
  <1> QED  BY <1>2, <1>4, <1>5 DEF IngestRelayObservations

\* No step disturbs TelInv.
LEMMA TelNextInv ==
    ASSUME TelInv, [TelNext]_telVars
    PROVE  TelInv'
  <1>1. CASE ToolCall
    BY <1>1, ToolCallInv
  <1>2. CASE RelayReboots \/ ApplyReloads \/ ApplyTakenBack
    BY <1>2, RebootInv DEF RelayReboots, ApplyReloads, ApplyTakenBack, TelInv, TelType
  <1>3. CASE ApplyFinalized \/ EnterEnforced \/ UNCHANGED telVars
    BY <1>3, PullMoves DEF ApplyFinalized, EnterEnforced, telVars, TelInv, TelType
  <1>4. CASE EnqueueTelemetryPull \/ FinishPull \/ PullFails \/ RequeuePull
    BY <1>4, PullMoves
    DEF EnqueueTelemetryPull, FinishPull, PullFails, RequeuePull, NoPull, TelInv, TelType
  <1>5. CASE ReadCursor
    BY <1>5, CursorReached, PullMoves DEF ReadCursor, TelInv, TelType
  <1>6. CASE DrainRelayObservations
    <2>1. PICK c \in Cursor : pull.after = c
      BY <1>6 DEF DrainRelayObservations, TelInv, TelType
    <2>2. Reached(c)
      BY <1>6, <2>1 DEF DrainRelayObservations, TelInv
    <2> QED  BY <1>6, <2>1, <2>2, DrainedFollows, PullMoves DEF DrainRelayObservations, TelInv, TelType
  <1>7. CASE IngestRelayObservations
    BY <1>7, IngestInv
  <1> QED  BY <1>1, <1>2, <1>3, <1>4, <1>5, <1>6, <1>7 DEF TelNext, PullStep

\* Nothing is counted yet.
LEMMA TelInitInv ==
    ASSUME TelInit
    PROVE  TelInv
  <1>1. log = <<>> /\ log \in Seq(Observations) /\ Len(log) = 0 /\ boot = 1
    BY EmptySeq DEF TelInit
  <1>2. NoCursor \in Cursor /\ NoCursor.boot = 0
    BY DEF NoCursor, Cursor
  <1>3. TelType
    BY <1>1, <1>2 DEF TelInit, TelType, NoPull
  <1>4. \A s \in Upstreams : Reached(cursors[s])
    BY <1>1, <1>2 DEF TelInit, Reached
  <1> QED  BY <1>1, <1>3, <1>4 DEF TelInit, TelInv, Counted, NoPull

\* What counting relies on, in every state.
THEOREM TelemetryInvariant == TelSpec => []TelInv
  <1>1. TelInit => TelInv
    BY TelInitInv
  <1>2. TelInv /\ [TelNext]_telVars => TelInv'
    BY TelNextInv
  <1> QED  BY <1>1, <1>2, PTL DEF TelSpec

\* IngestRelayObservations adds no observation twice, and none is skipped that the
\* relay still holds, for any servers, batch and buffer sizes, reboots and stops.
THEOREM ObservationsCountedOnce == TelSpec => []CountedOnce
  <1>1. TelInv => CountedOnce
    BY CursorReached DEF TelInv, CountedOnce, Buffered, Reached, CountedTo
  <1> QED  BY <1>1, TelemetryInvariant, PTL
-----------------------------------------------------------------------------
(* Relay governance *)

\* Tools an override, a contract or a proposal may name.
Named == Tools \cup UNION {DOMAIN c : c \in Shapes}

Proposal == [server : Servers, from : Nat \ {0}, old : Named, new : Named,
             status : {"suspected", "ambiguous", "confirmed", "rejected"}]

\* The revisions the database holds, and pointers to them.
Revisions ==
    /\ configs \in Seq(SUBSET Servers) /\ policies \in Seq(SUBSET Named)
    /\ relay \in [current : 1..Len(configs), applied : 1..Len(configs), mode : Modes]
    /\ policy \in [current : 1..Len(policies), applied : 1..Len(policies)]
    /\ drafts \in [Profiles -> Nat \ {0}] /\ published \in [Profiles -> Nat]

\* Contracts, the accepted one of each server, and the proposals against them.
Reviews ==
    /\ upstream \in [Servers -> Shapes] /\ contracts \in [Servers -> Seq(Shapes)]
    /\ accepted \in [Servers -> Nat] /\ proposals \subseteq Proposal
    /\ \A s \in Servers : accepted[s] <= Len(contracts[s])
    /\ \A p \in proposals : p.from <= Len(contracts[p.server])
    /\ observed # Unseen => \E set \in SUBSET Servers : observed.shapes \in [set -> Shapes]

\* Every bundle that runs, is desired or can be restored routes its configuration.
Routed ==
    /\ Bundles(served)
    /\ desired = [bundle |-> desired.bundle, source |-> desired.source, health |-> desired.health]
    /\ Bundles(desired.bundle)
    /\ \A b \in backups : Bundles(b)

\* What the operator's last preflight has shown.
Preflighted == preview # Unseen =>
    preview.config \in 1..Len(configs) /\ preview.mode \in Modes /\ preview.names \subseteq Profiles

\* A bundle whose servers are all reviewed and route every accepted tool.
AllReviewed(b) == \A s \in DOMAIN b.servers : b.servers[s].contract # 0 /\ b.servers[s].paused = {}

RelayJob(o) ==
    /\ o.kind = "relay"
    /\ o = [kind |-> "relay", phase |-> o.phase, bundle |-> o.bundle, config |-> o.config,
            mode |-> o.mode, before |-> o.before, beforeMode |-> o.beforeMode, names |-> o.names,
            revisions |-> o.revisions, predecessors |-> o.predecessors, backup |-> o.backup]
    /\ o.config \in 1..Len(configs) /\ o.mode \in Modes
    /\ o.names \subseteq Profiles /\ o.revisions \in [Profiles -> Nat \ {0}]
    /\ o.backup = Unseen \/ o.backup \in backups
    /\ o.mode = "enforced" =>
         o.config = o.before /\ o.bundle.config = o.config /\ AllReviewed(o.bundle)

PolicyJob(o) ==
    /\ o.kind = "policy"
    /\ o = [kind |-> "policy", phase |-> o.phase, policy |-> o.policy, bundle |-> o.bundle,
            before |-> o.before, backup |-> o.backup]
    /\ o.policy \in 1..Len(policies)

HostJob(o) == o.kind \in {"restore", "reconcile"} /\ o.phase = "queued"

\* The operation that owns the relay target, and what the relay runs once it is loaded.
Owner ==
    govOp # NoGovOp =>
        /\ RelayJob(govOp) \/ PolicyJob(govOp) \/ HostJob(govOp)
        /\ Bundles(govOp.bundle)
        /\ govOp.phase = "reloaded" => served = govOp.bundle

GovInv == Revisions /\ Reviews /\ Routed /\ Preflighted /\ Owner

\* Revisions are only added.
Grown == /\ configs' \in Seq(SUBSET Servers) /\ policies' \in Seq(SUBSET Named)
         /\ Len(configs) <= Len(configs') /\ \A i \in 1..Len(configs) : configs'[i] = configs[i]
         /\ Len(policies) <= Len(policies')

\* A revision that exists goes on to exist.
LEMMA PointersStay ==
    ASSUME Revisions, Grown, NEW i
    PROVE  /\ i \in 1..Len(configs) => i \in 1..Len(configs')
           /\ i \in 1..Len(policies) => i \in 1..Len(policies')
  <1>1. /\ Len(configs) \in Nat /\ Len(configs') \in Nat
        /\ Len(policies) \in Nat /\ Len(policies') \in Nat
    BY DEF Revisions, Grown
  <1> QED  BY <1>1 DEF Grown

\* A bundle goes on to route the members of its configuration.
LEMMA BundlesStay ==
    ASSUME Revisions, Grown, NEW b, Bundles(b)
    PROVE  Bundles(b)'
  <1>1. b.config \in 1..Len(configs') /\ b.policy \in 1..Len(policies')
    BY PointersStay DEF Bundles
  <1>2. configs'[b.config] = configs[b.config]
    BY DEF Bundles, Grown
  <1> QED  BY <1>1, <1>2 DEF Bundles

\* Steps that leave the relay and its backups.
LEMMA RoutedStays ==
    ASSUME GovInv, Grown, UNCHANGED relayVars
    PROVE  Routed'
  <1>1. UNCHANGED <<served, desired, backups>>
    BY DEF relayVars
  <1>2. Bundles(served) /\ Bundles(desired.bundle) /\ \A b \in backups : Bundles(b)
    BY DEF GovInv, Routed
  <1>3. Bundles(served)'
    <2>1. PICK b : b = served
      OBVIOUS
    <2> QED  BY <1>1, <1>2, <2>1, BundlesStay DEF GovInv, Bundles
  <1>4. Bundles(desired.bundle)'
    <2>1. PICK b : b = desired.bundle
      OBVIOUS
    <2> QED  BY <1>1, <1>2, <2>1, BundlesStay DEF GovInv, Bundles
  <1>5. \A b \in backups' : Bundles(b)'
    BY <1>1, <1>2, BundlesStay DEF GovInv
  <1> QED  BY <1>1, <1>3, <1>4, <1>5 DEF GovInv, Routed

\* Steps that leave the operation.
LEMMA JobStays ==
    ASSUME GovInv, Grown, NEW o, RelayJob(o) \/ PolicyJob(o) \/ HostJob(o), Bundles(o.bundle),
           backups \subseteq backups'
    PROVE  (RelayJob(o) \/ PolicyJob(o) \/ HostJob(o))' /\ Bundles(o.bundle)'
  <1>1. Bundles(o.bundle)'
    BY BundlesStay DEF GovInv
  <1>2. CASE RelayJob(o)
    <2>1. o.config \in 1..Len(configs')
      BY <1>2, PointersStay DEF RelayJob, GovInv
    <2> QED  BY <1>1, <1>2, <2>1 DEF RelayJob
  <1>3. CASE PolicyJob(o)
    <2>1. o.policy \in 1..Len(policies')
      BY <1>3, PointersStay DEF PolicyJob, GovInv
    <2> QED  BY <1>1, <1>3, <2>1 DEF PolicyJob
  <1> QED  BY <1>1, <1>2, <1>3 DEF HostJob

\* Steps that leave the operation and what the relay runs.
LEMMA OwnerStays ==
    ASSUME GovInv, Grown, UNCHANGED <<govOp, served>>, backups \subseteq backups'
    PROVE  Owner'
  <1> SUFFICES ASSUME govOp # NoGovOp  PROVE  Owner'
    BY DEF Owner
  <1>1. PICK o : o = govOp
    OBVIOUS
  <1>2. /\ RelayJob(o) \/ PolicyJob(o) \/ HostJob(o)
        /\ Bundles(o.bundle)
    BY <1>1 DEF GovInv, Owner
  <1>3. (RelayJob(o) \/ PolicyJob(o) \/ HostJob(o))' /\ Bundles(o.bundle)'
    BY <1>2, JobStays
  <1>4. (RelayJob(govOp) \/ PolicyJob(govOp) \/ HostJob(govOp))' /\ Bundles(govOp.bundle)'
    BY <1>1, <1>3 DEF RelayJob, PolicyJob, HostJob, Bundles
  <1> QED  BY <1>4 DEF GovInv, Owner

\* Steps that leave the last preflight.
LEMMA PreflightStays ==
    ASSUME GovInv, Grown, UNCHANGED preview
    PROVE  Preflighted'
  <1> SUFFICES ASSUME preview # Unseen  PROVE  preview.config \in 1..Len(configs')
    BY DEF GovInv, Preflighted
  <1> QED  BY PointersStay DEF GovInv, Preflighted

\* Nothing is added.
LEMMA NothingAdded ==
    ASSUME GovInv, UNCHANGED <<configs, policies>>
    PROVE  Grown
  <1>1. Len(configs) \in Nat /\ Len(policies) \in Nat
    BY DEF GovInv, Revisions
  <1> QED  BY <1>1 DEF GovInv, Revisions, Grown

\* One revision is added.
LEMMA OneAdded ==
    ASSUME GovInv,
           \/ /\ \E set \in SUBSET Servers : configs' = Append(configs, set)
              /\ UNCHANGED policies
           \/ /\ \E overridden \in SUBSET Named : policies' = Append(policies, overridden)
              /\ UNCHANGED configs
    PROVE  /\ Grown
           /\ Len(configs') \in 1..Len(configs') \/ UNCHANGED configs
           /\ Len(policies') \in 1..Len(policies') \/ UNCHANGED policies
  <1>1. configs \in Seq(SUBSET Servers) /\ policies \in Seq(SUBSET Named)
    BY DEF GovInv, Revisions
  <1>2. CASE /\ \E set \in SUBSET Servers : configs' = Append(configs, set)
             /\ UNCHANGED policies
    BY <1>1, <1>2, AppendProperties DEF Grown
  <1>3. CASE /\ \E overridden \in SUBSET Named : policies' = Append(policies, overridden)
             /\ UNCHANGED configs
    BY <1>1, <1>3, AppendProperties DEF Grown
  <1> QED  BY <1>2, <1>3

\* SaveRelayConfiguration, SaveGlobalPolicy and SaveProfile add a draft revision.
LEMMA DraftKeeps ==
    ASSUME GovInv, SaveRelayConfiguration \/ SaveGlobalPolicy \/ SaveProfileDraft
    PROVE  GovInv'
  <1>1. /\ UNCHANGED contractVars /\ UNCHANGED relayVars
        /\ UNCHANGED <<published, preview, observed, govOp>>
    BY DEF SaveRelayConfiguration, SaveGlobalPolicy, SaveProfileDraft
  <1>2. Reviews'
    BY <1>1 DEF GovInv, Reviews, contractVars
  <1>3. Grown /\ Revisions'
    <2>1. CASE SaveRelayConfiguration
      <3>1. /\ \E set \in SUBSET Servers : configs' = Append(configs, set)
            /\ UNCHANGED <<policies, policy, drafts>>
            /\ relay' = [relay EXCEPT !.current = Len(configs')]
        BY <2>1 DEF SaveRelayConfiguration
      <3>2. Grown /\ Len(configs') \in 1..Len(configs')
        <4>1. configs' # configs
          BY <3>1, AppendProperties DEF GovInv, Revisions
        <4> QED  BY <3>1, <4>1, OneAdded
      <3>3. relay.applied \in 1..Len(configs') /\ relay.current \in 1..Len(configs')
        BY <3>2, PointersStay DEF GovInv, Revisions
      <3>4. relay' \in [current : 1..Len(configs'), applied : 1..Len(configs'), mode : Modes]
        BY <3>1, <3>2, <3>3 DEF GovInv, Revisions
      <3> QED  BY <1>1, <3>1, <3>2, <3>4 DEF GovInv, Revisions, Grown
    <2>2. CASE SaveGlobalPolicy
      <3>1. /\ \E overridden \in SUBSET Named : policies' = Append(policies, overridden)
            /\ UNCHANGED <<configs, relay, drafts>>
            /\ policy' = [policy EXCEPT !.current = Len(policies')]
        BY <2>2 DEF SaveGlobalPolicy, Named
      <3>2. Grown /\ Len(policies') \in 1..Len(policies')
        <4>1. policies' # policies
          BY <3>1, AppendProperties DEF GovInv, Revisions
        <4> QED  BY <3>1, <4>1, OneAdded
      <3>3. policy.applied \in 1..Len(policies')
        BY <3>2, PointersStay DEF GovInv, Revisions
      <3>4. policy' \in [current : 1..Len(policies'), applied : 1..Len(policies')]
        BY <3>1, <3>2, <3>3 DEF GovInv, Revisions
      <3> QED  BY <1>1, <3>1, <3>2, <3>4 DEF GovInv, Revisions, Grown
    <2>3. CASE SaveProfileDraft
      <3>1. UNCHANGED <<configs, relay, policies, policy>>
            /\ \E p \in Profiles : drafts' = [drafts EXCEPT ![p] = @ + 1]
        BY <2>3 DEF SaveProfileDraft, revisionVars
      <3> QED  BY <1>1, <3>1, NothingAdded DEF GovInv, Revisions
    <2> QED  BY <2>1, <2>2, <2>3
  <1>4. Routed' /\ Preflighted' /\ Owner'
    BY <1>1, <1>3, RoutedStays, PreflightStays, OwnerStays DEF relayVars
  <1> QED  BY <1>2, <1>3, <1>4 DEF GovInv

\* Steps that leave the revisions, the relay, its operation and the preflight.
LEMMA OnlyContracts ==
    ASSUME GovInv, UNCHANGED revisionVars, UNCHANGED relayVars,
           UNCHANGED <<drafts, published, preview, govOp>>, Reviews'
    PROVE  GovInv'
  <1>1. UNCHANGED <<configs, relay, policies, policy>> /\ Grown
    BY NothingAdded DEF revisionVars
  <1>2. Routed' /\ Preflighted' /\ Owner'
    BY <1>1, RoutedStays, PreflightStays, OwnerStays DEF relayVars
  <1> QED  BY <1>1, <1>2 DEF GovInv, Revisions

\* A contract that is recorded comes after those there are.
LEMMA RecordedLater ==
    ASSUME GovInv, NEW s \in Servers, NEW c \in Shapes
    PROVE  Recorded(s, c) \in Seq(Shapes) /\ Len(contracts[s]) <= Len(Recorded(s, c))
  <1>1. contracts[s] \in Seq(Shapes) /\ Len(contracts[s]) \in Nat
    BY DEF GovInv, Reviews
  <1> QED  BY <1>1, AppendProperties DEF Recorded

\* A proposal names tools of two contracts, the older of which has been recorded.
LEMMA ProposedOfContracts ==
    ASSUME GovInv, NEW s \in Servers, NEW c \in Shapes, NEW p \in RenameProposals(s, c)
    PROVE  p \in Proposal /\ p.server = s /\ p.from = Len(contracts[s])
  <1> DEFINE old     == Newest(contracts[s])
             removed == DOMAIN old \ DOMAIN c
             added   == DOMAIN c \ DOMAIN old
             status  == IF Cardinality(removed) = 1 /\ Cardinality(added) = 1
                          THEN "suspected" ELSE "ambiguous"
  <1>1. contracts[s] \in Seq(Shapes) /\ contracts[s] # <<>>
    BY DEF GovInv, Reviews, RenameProposals
  <1>2. Len(contracts[s]) \in Nat \ {0} /\ old \in Shapes
    BY <1>1 DEF Newest
  <1>3. PICK pair \in removed \X added :
          p = [server |-> s, from |-> Len(contracts[s]), old |-> pair[1], new |-> pair[2],
               status |-> status]
    BY <1>1 DEF RenameProposals
  <1>4. pair[1] \in Named /\ pair[2] \in Named
    BY <1>2, <1>3 DEF Named
  <1>5. status \in {"suspected", "ambiguous"}
    OBVIOUS
  <1> HIDE DEF status, old, removed, added
  <1> QED  BY <1>2, <1>3, <1>4, <1>5 DEF Proposal

\* ObserveRelayContracts records contracts and proposals, or conflicts.
LEMMA ObservationKeeps ==
    ASSUME GovInv, ObserveRelayContracts
    PROVE  GovInv'
  <1>1. /\ UNCHANGED revisionVars /\ UNCHANGED relayVars
        /\ UNCHANGED <<drafts, published, preview, govOp, upstream, accepted>>
        /\ observed # Unseen /\ observed' = Unseen
    BY DEF ObserveRelayContracts
  <1>2. CASE UNCHANGED <<contracts, proposals>>
    BY <1>1, <1>2, OnlyContracts DEF GovInv, Reviews
  <1>3. CASE /\ contracts' = [s \in Servers |->
                    IF s \in DOMAIN observed.shapes THEN Recorded(s, observed.shapes[s])
                    ELSE contracts[s]]
             /\ proposals' = proposals \cup
                    UNION {RenameProposals(s, observed.shapes[s]) : s \in DOMAIN observed.shapes}
    <2>1. PICK set \in SUBSET Servers : observed.shapes \in [set -> Shapes]
      BY <1>1 DEF GovInv, Reviews
    <2>2. ASSUME NEW s \in Servers
          PROVE  contracts'[s] \in Seq(Shapes) /\ Len(contracts[s]) <= Len(contracts'[s])
      <3>1. contracts[s] \in Seq(Shapes) /\ Len(contracts[s]) \in Nat
        BY DEF GovInv, Reviews
      <3>2. CASE s \in set
        BY <1>3, <2>1, <3>2, RecordedLater
      <3>3. CASE s \notin set
        BY <1>3, <2>1, <3>1, <3>3
      <3> QED  BY <3>2, <3>3
    <2>3. ASSUME NEW p \in proposals'
          PROVE  p \in Proposal /\ p.from <= Len(contracts[p.server])
      <3>1. CASE p \in proposals
        BY <3>1 DEF GovInv, Reviews
      <3>2. CASE p \notin proposals
        <4>1. PICK s \in set : p \in RenameProposals(s, observed.shapes[s])
          BY <1>3, <2>1, <3>2
        <4>2. s \in Servers /\ observed.shapes[s] \in Shapes
          BY <2>1
        <4>3. p \in Proposal /\ p.server = s /\ p.from = Len(contracts[s])
          BY <4>1, <4>2, ProposedOfContracts
        <4> QED  BY <4>2, <4>3 DEF GovInv, Reviews
      <3> QED  BY <3>1, <3>2
    <2>4. contracts' \in [Servers -> Seq(Shapes)]
      BY <1>3, <2>2
    <2>5. \A s \in Servers : accepted[s] <= Len(contracts'[s])
      <3> SUFFICES ASSUME NEW s \in Servers  PROVE accepted[s] <= Len(contracts'[s])
        OBVIOUS
      <3>1. accepted[s] \in Nat /\ accepted[s] <= Len(contracts[s]) /\ Len(contracts[s]) \in Nat
            /\ Len(contracts'[s]) \in Nat
        BY <2>4 DEF GovInv, Reviews
      <3> QED  BY <2>2, <3>1
    <2>6. \A p \in proposals' : p.from <= Len(contracts'[p.server])
      <3> SUFFICES ASSUME NEW p \in proposals'  PROVE p.from <= Len(contracts'[p.server])
        OBVIOUS
      <3>1. p.server \in Servers /\ p.from \in Nat
        BY <2>3 DEF Proposal
      <3>2. Len(contracts[p.server]) \in Nat /\ Len(contracts'[p.server]) \in Nat
        BY <2>4, <3>1 DEF GovInv, Reviews
      <3> QED  BY <2>2, <2>3, <3>1, <3>2
    <2>7. Reviews'
      BY <1>1, <2>3, <2>4, <2>5, <2>6 DEF GovInv, Reviews
    <2> QED  BY <1>1, <2>7, OnlyContracts
  <1> QED  BY <1>2, <1>3 DEF ObserveRelayContracts

\* The upstream changes, the Bridge reads contracts and an operator accepts one.
LEMMA ContractKeeps ==
    ASSUME GovInv, UpstreamChanges \/ ReadContracts \/ AcceptContract
    PROVE  GovInv'
  <1>1. CASE UpstreamChanges
    <2>1. Reviews'
      BY <1>1 DEF UpstreamChanges, GovInv, Reviews
    <2> QED  BY <1>1, <2>1, OnlyContracts DEF UpstreamChanges
  <1>2. CASE ReadContracts
    <2>1. configs[served.config] \in SUBSET Servers
      BY DEF GovInv, Revisions, Routed, Bundles
    <2>2. observed'.shapes \in [configs[served.config] -> Shapes]
      BY <1>2, <2>1 DEF ReadContracts, GovInv, Reviews
    <2>3. UNCHANGED contractVars
      BY <1>2 DEF ReadContracts
    <2>4. Reviews'
      BY <2>1, <2>2, <2>3 DEF contractVars, GovInv, Reviews
    <2> QED  BY <1>2, <2>4, OnlyContracts DEF ReadContracts
  <1>3. CASE AcceptContract
    <2>1. PICK s \in Servers : \E r \in 1..Len(contracts[s]) :
                                  accepted' = [accepted EXCEPT ![s] = r]
      BY <1>3 DEF AcceptContract
    <2>2. Len(contracts[s]) \in Nat
      BY DEF GovInv, Reviews
    <2>3. /\ accepted' \in [Servers -> Nat]
          /\ \A q \in Servers : accepted'[q] <= Len(contracts[q])
      BY <2>1, <2>2 DEF GovInv, Reviews
    <2>4. UNCHANGED <<upstream, contracts, proposals, observed>>
      BY <1>3 DEF AcceptContract
    <2>5. Reviews'
      BY <2>3, <2>4 DEF GovInv, Reviews
    <2> QED  BY <1>3, <2>5, OnlyContracts DEF AcceptContract
  <1> QED  BY <1>1, <1>2, <1>3

\* ConfirmToolRename accepts the contract of the new name and may add a policy draft.
LEMMA RenameKeeps ==
    ASSUME GovInv, ConfirmToolRename
    PROVE  GovInv'
  <1> DEFINE Settled(p, q) ==
        IF q = p THEN [q EXCEPT !.status = "confirmed"]
        ELSE IF /\ p.status = "ambiguous"
                /\ q.status = "ambiguous" /\ q.server = p.server /\ q.from = p.from
                /\ (q.old = p.old \/ q.new = p.new)
               THEN [q EXCEPT !.status = "rejected"]
               ELSE q
  <1>1. PICK p \in proposals :
          LET newer == RenamedOverrides(policies[policy.current], p.old, p.new) IN
          /\ Len(contracts[p.server]) = p.from + 1
          /\ proposals' = {Settled(p, q) : q \in proposals}
          /\ IF p.old \in policies[policy.current]
               THEN /\ policies' = Append(policies, newer)
                    /\ policy' = [policy EXCEPT !.current = Len(policies')]
               ELSE UNCHANGED <<policies, policy>>
          /\ accepted' = [accepted EXCEPT ![p.server] = p.from + 1]
    BY DEF ConfirmToolRename
  <1>2. /\ UNCHANGED <<configs, relay, upstream, contracts, drafts, published, preview, observed, govOp>>
        /\ UNCHANGED relayVars
    BY DEF ConfirmToolRename
  <1>3. p \in Proposal /\ p.server \in Servers /\ p.from \in Nat
    BY DEF GovInv, Reviews, Proposal
  <1>4. ASSUME NEW r \in proposals'
        PROVE  r \in Proposal /\ r.from <= Len(contracts[r.server])
    <2>1. PICK q \in proposals : r = Settled(p, q)
      BY <1>1, <1>4
    <2>2. q \in Proposal /\ q.from <= Len(contracts[q.server])
      BY DEF GovInv, Reviews
    <2>3. r \in Proposal /\ r.server = q.server /\ r.from = q.from
      BY <2>1, <2>2 DEF Proposal
    <2> QED  BY <2>2, <2>3
  <1>5. /\ accepted' \in [Servers -> Nat]
        /\ \A s \in Servers : accepted'[s] <= Len(contracts[s])
    <2>1. Len(contracts[p.server]) \in Nat
      BY <1>3 DEF GovInv, Reviews
    <2> QED  BY <1>1, <1>3, <2>1 DEF GovInv, Reviews
  <1>6. Reviews'
    BY <1>2, <1>4, <1>5 DEF GovInv, Reviews
  <1>7. Grown /\ Revisions'
    <2>1. CASE UNCHANGED <<policies, policy>>
      BY <1>2, <2>1, NothingAdded DEF GovInv, Revisions
    <2>2. CASE p.old \in policies[policy.current]
      <3>1. policies[policy.current] \in SUBSET Named /\ p.new \in Named
        BY <1>3 DEF GovInv, Revisions, Proposal
      <3>2. RenamedOverrides(policies[policy.current], p.old, p.new) \in SUBSET Named
        BY <3>1 DEF RenamedOverrides
      <3>3. /\ \E overridden \in SUBSET Named : policies' = Append(policies, overridden)
            /\ policy' = [policy EXCEPT !.current = Len(policies')]
        BY <1>1, <2>2, <3>2
      <3>4. Grown /\ Len(policies') \in 1..Len(policies')
        <4>1. policies' # policies
          BY <3>3, AppendProperties DEF GovInv, Revisions
        <4> QED  BY <1>2, <3>3, <4>1, OneAdded
      <3>5. policy.applied \in 1..Len(policies')
        BY <3>4, PointersStay DEF GovInv, Revisions
      <3>6. policy' \in [current : 1..Len(policies'), applied : 1..Len(policies')]
        BY <3>3, <3>4, <3>5 DEF GovInv, Revisions
      <3> QED  BY <1>2, <3>4, <3>6 DEF GovInv, Revisions, Grown
    <2> QED  BY <1>1, <2>1, <2>2
  <1>8. Routed' /\ Preflighted' /\ Owner'
    BY <1>2, <1>7, RoutedStays, PreflightStays, OwnerStays DEF relayVars
  <1> QED  BY <1>6, <1>7, <1>8 DEF GovInv

\* Steps that leave revisions and contracts.
LEMMA OnlyOperation ==
    ASSUME GovInv, UNCHANGED revisionVars, UNCHANGED contractVars, UNCHANGED <<drafts, observed>>,
           published' \in [Profiles -> Nat]
    PROVE  Revisions' /\ Reviews' /\ Grown
  <1>1. UNCHANGED <<configs, relay, policies, policy, upstream, contracts, accepted, proposals>>
    BY DEF revisionVars, contractVars
  <1> QED  BY <1>1, NothingAdded DEF GovInv, Revisions, Reviews

\* A bundle that is rendered routes its configuration.
LEMMA RenderedRoutes ==
    ASSUME NEW mode \in Modes, NEW config \in 1..Len(configs), NEW pol \in 1..Len(policies),
           NEW profs, NEW b, b = RenderCandidate(mode, config, pol, profs)
    PROVE  /\ Bundles(b) /\ b.mode = mode /\ b.config = config /\ b.policy = pol
           /\ b.profiles = profs /\ DOMAIN b.servers = configs[config]
           /\ \A s \in configs[config] : b.servers[s] = RoutedServer(s, policies[pol])
  BY DEF RenderCandidate, Bundles

\* What a server contributes to a bundle.
LEMMA RoutedFacts ==
    ASSUME NEW s, NEW override, accepted[s] # 0
    PROVE  /\ RoutedServer(s, override).contract = accepted[s]
           /\ RoutedServer(s, override).paused = Paused(s)
  BY DEF RoutedServer

\* The preflight only shows.
LEMMA PreviewKeeps ==
    ASSUME GovInv, PreflightRelayConfiguration
    PROVE  GovInv'
  <1>1. /\ UNCHANGED revisionVars /\ UNCHANGED contractVars /\ UNCHANGED relayVars
        /\ UNCHANGED <<drafts, published, observed, govOp>>
    BY DEF PreflightRelayConfiguration
  <1>2. Revisions' /\ Reviews' /\ Grown
    BY <1>1, OnlyOperation DEF GovInv, Revisions
  <1>3. Routed' /\ Owner'
    BY <1>1, <1>2, RoutedStays, OwnerStays DEF relayVars
  <1>4. Preflighted'
    <2>1. UNCHANGED configs
      BY <1>1 DEF revisionVars
    <2> QED  BY <2>1 DEF PreflightRelayConfiguration, Preflighted
  <1> QED  BY <1>2, <1>3, <1>4 DEF GovInv

\* A new operation that is well formed.
LEMMA CreatedKeeps ==
    ASSUME GovInv, UNCHANGED revisionVars, UNCHANGED contractVars, UNCHANGED relayVars,
           UNCHANGED <<drafts, published, preview, observed>>,
           NEW o, govOp' = o, o.phase = "queued", Bundles(o.bundle),
           RelayJob(o) \/ PolicyJob(o) \/ HostJob(o)
    PROVE  GovInv'
  <1>1. Revisions' /\ Reviews' /\ Grown
    BY OnlyOperation DEF GovInv, Revisions
  <1>2. Routed' /\ Preflighted'
    BY <1>1, RoutedStays, PreflightStays
  <1>3. backups \subseteq backups'
    BY DEF relayVars
  <1>4. (RelayJob(o) \/ PolicyJob(o) \/ HostJob(o))' /\ Bundles(o.bundle)'
    BY <1>1, <1>3, JobStays
  <1>5. (RelayJob(govOp) \/ PolicyJob(govOp) \/ HostJob(govOp))' /\ Bundles(govOp.bundle)'
    BY <1>4 DEF RelayJob, PolicyJob, HostJob, Bundles
  <1> QED  BY <1>1, <1>2, <1>5 DEF GovInv, Owner

\* Enforcement is asked for only over contracts that are accepted as they are.
LEMMA ReadyRoutesAll ==
    ASSUME GovInv, NEW config, EnforcementReady(config), NEW s \in configs[config]
    PROVE  accepted[s] # 0 /\ Paused(s) = {}
  <1>1. accepted[s] # 0 /\ accepted[s] = Len(contracts[s])
    BY DEF EnforcementReady
  <1> QED  BY <1>1 DEF Paused, Newest

\* CreateRelayConfigurationModeApplyOperation.
LEMMA CreateRelayKeeps ==
    ASSUME GovInv, CreateRelayApply
    PROVE  GovInv'
  <1>1. PICK o : o = [kind |-> "relay", phase |-> "queued", bundle |-> preview.bundle,
                 config |-> preview.config, mode |-> preview.mode,
                 before |-> relay.applied, beforeMode |-> relay.mode,
                 names |-> preview.names, revisions |-> drafts,
                 predecessors |-> published, backup |-> Unseen]
    OBVIOUS
  <1>2. /\ o.kind = "relay" /\ o.phase = "queued" /\ o.bundle = preview.bundle
        /\ o.config = preview.config /\ o.mode = preview.mode /\ o.before = relay.applied
        /\ o.names = preview.names /\ o.revisions = drafts /\ o.backup = Unseen
        /\ o = [kind |-> "relay", phase |-> o.phase, bundle |-> o.bundle, config |-> o.config,
                mode |-> o.mode, before |-> o.before, beforeMode |-> o.beforeMode, names |-> o.names,
                revisions |-> o.revisions, predecessors |-> o.predecessors, backup |-> o.backup]
    BY <1>1
  <1>3. /\ preview.config \in 1..Len(configs) /\ preview.mode \in Modes
        /\ preview.names \subseteq Profiles
    BY DEF CreateRelayApply, GovInv, Preflighted
  <1>4. policy.applied \in 1..Len(policies) /\ drafts \in [Profiles -> Nat \ {0}]
    BY DEF GovInv, Revisions
  <1>5. o.bundle = RenderCandidate(preview.mode, preview.config, policy.applied,
                                   CandidateProfiles(preview.names, drafts))
    BY <1>2 DEF CreateRelayApply
  <1>6. /\ Bundles(o.bundle) /\ o.bundle.config = preview.config
        /\ DOMAIN o.bundle.servers = configs[preview.config]
        /\ \A s \in configs[preview.config] :
             o.bundle.servers[s] = RoutedServer(s, policies[policy.applied])
    BY <1>3, <1>4, <1>5, RenderedRoutes
  <1>7. ASSUME o.mode = "enforced"
        PROVE  o.config = o.before /\ AllReviewed(o.bundle)
    <2>1. EnforcementReady(preview.config)
      BY <1>2, <1>7 DEF CreateRelayApply, PrepareAllowed
    <2>2. o.config = o.before
      BY <1>2, <2>1 DEF EnforcementReady
    <2>3. AllReviewed(o.bundle)
      <3> SUFFICES ASSUME NEW s \in configs[preview.config]
                   PROVE  o.bundle.servers[s].contract # 0 /\ o.bundle.servers[s].paused = {}
        BY <1>6 DEF AllReviewed
      <3>1. accepted[s] # 0 /\ Paused(s) = {}
        BY <2>1, ReadyRoutesAll
      <3> QED  BY <1>6, <3>1, RoutedFacts
    <2> QED  BY <2>2, <2>3
  <1>8. RelayJob(o)
    BY <1>2, <1>3, <1>4, <1>6, <1>7 DEF RelayJob
  <1>9. /\ UNCHANGED revisionVars /\ UNCHANGED contractVars /\ UNCHANGED relayVars
        /\ UNCHANGED <<drafts, published, preview, observed>> /\ govOp' = o
    BY <1>1 DEF CreateRelayApply
  <1> QED  BY <1>2, <1>6, <1>8, <1>9, CreatedKeeps

\* The other operations that take the relay target.
LEMMA CreateKeeps ==
    ASSUME GovInv, CreatePolicyApply \/ CreateRestore \/ CreateReconcile
    PROVE  GovInv'
  <1>1. /\ UNCHANGED revisionVars /\ UNCHANGED contractVars /\ UNCHANGED relayVars
        /\ UNCHANGED <<drafts, published, preview, observed>>
    BY DEF CreatePolicyApply, CreateRestore, CreateReconcile
  <1>2. CASE CreatePolicyApply
    <2>1. PICK pol \in 1..Len(policies) :
            govOp' = [kind |-> "policy", phase |-> "queued", policy |-> pol,
                      bundle |-> RenderCandidate(relay.mode, relay.applied, pol, {}),
                      before |-> policy.applied, backup |-> Unseen]
      BY <1>2 DEF CreatePolicyApply
    <2>2. PICK o : o = [kind |-> "policy", phase |-> "queued", policy |-> pol,
                        bundle |-> RenderCandidate(relay.mode, relay.applied, pol, {}),
                        before |-> policy.applied, backup |-> Unseen]
      OBVIOUS
    <2>3. relay.mode \in Modes /\ relay.applied \in 1..Len(configs)
      BY DEF GovInv, Revisions
    <2>4. o.bundle = RenderCandidate(relay.mode, relay.applied, pol, {}) /\ o.phase = "queued"
      BY <2>2
    <2>5. Bundles(o.bundle)
      BY <2>3, <2>4, RenderedRoutes
    <2>6. PolicyJob(o)
      BY <2>2 DEF PolicyJob
    <2> QED  BY <1>1, <2>1, <2>2, <2>4, <2>5, <2>6, CreatedKeeps
  <1>3. CASE CreateRestore
    <2>1. PICK b \in backups : govOp' = [kind |-> "restore", phase |-> "queued", bundle |-> b]
      BY <1>3 DEF CreateRestore
    <2>2. PICK o : o = [kind |-> "restore", phase |-> "queued", bundle |-> b]
      OBVIOUS
    <2>3. HostJob(o) /\ o.phase = "queued" /\ Bundles(o.bundle)
      BY <2>2 DEF HostJob, GovInv, Routed
    <2> QED  BY <1>1, <2>1, <2>2, <2>3, CreatedKeeps
  <1>4. CASE CreateReconcile
    <2>1. PICK o : o = [kind |-> "reconcile", phase |-> "queued", bundle |-> desired.bundle]
      OBVIOUS
    <2>2. HostJob(o) /\ o.phase = "queued" /\ Bundles(o.bundle)
      BY <2>1 DEF HostJob, GovInv, Routed
    <2> QED  BY <1>1, <1>4, <2>1, <2>2, CreatedKeeps DEF CreateReconcile
  <1> QED  BY <1>2, <1>3, <1>4

\* The relay or its desired state moves to bundles that route their configuration.
LEMMA MovedRoutes ==
    ASSUME GovInv, UNCHANGED revisionVars,
           NEW run, NEW next, Bundles(run), Bundles(next.bundle),
           next = [bundle |-> next.bundle, source |-> next.source, health |-> next.health],
           served' = run, desired' = next,
           backups' = backups \/ backups' = backups \cup {desired.bundle}
    PROVE  Routed'
  <1>1. UNCHANGED <<configs, policies>>
    BY DEF revisionVars
  <1>2. \A b : Bundles(b)' = Bundles(b)
    BY <1>1 DEF Bundles
  <1>3. Bundles(desired.bundle) /\ \A b \in backups : Bundles(b)
    BY DEF GovInv, Routed
  <1>4. \A b \in backups' : Bundles(b)
    BY <1>3
  <1>5. Bundles(run)' /\ Bundles(next.bundle)' /\ \A b \in backups' : Bundles(b)'
    BY <1>2, <1>4
  <1> QED  BY <1>5 DEF Routed, Bundles

\* A step that ends the operation.
LEMMA EndedKeeps ==
    ASSUME GovInv, UNCHANGED revisionVars, UNCHANGED contractVars,
           UNCHANGED <<drafts, published, preview, observed>>, Routed', govOp' = NoGovOp
    PROVE  GovInv'
  <1>1. Revisions' /\ Reviews' /\ Grown
    BY OnlyOperation DEF GovInv, Revisions
  <1>2. Preflighted'
    BY <1>1, PreflightStays
  <1> QED  BY <1>1, <1>2 DEF GovInv, Owner

\* executeCommit on the host, or its failure.
LEMMA ExecuteKeeps ==
    ASSUME GovInv, ExecuteApply \/ ExecuteRestore \/ ExecuteReconcile \/ ExecuteFails
    PROVE  GovInv'
  <1>1. /\ UNCHANGED revisionVars /\ UNCHANGED contractVars
        /\ UNCHANGED <<drafts, published, preview, observed>> /\ govOp # NoGovOp
    BY DEF ExecuteApply, ExecuteRestore, ExecuteReconcile, ExecuteFails
  <1>2. /\ Bundles(govOp.bundle) /\ Bundles(served) /\ Bundles(desired.bundle)
        /\ RelayJob(govOp) \/ PolicyJob(govOp) \/ HostJob(govOp)
        /\ desired = [bundle |-> desired.bundle, source |-> desired.source, health |-> desired.health]
    BY <1>1 DEF GovInv, Routed, Owner
  <1>3. ASSUME NEW health
        PROVE  \E next : /\ next = [desired EXCEPT !.health = health]
                         /\ next = [bundle |-> next.bundle, source |-> next.source,
                                    health |-> next.health]
                         /\ Bundles(next.bundle)
    <2>1. PICK next : next = [desired EXCEPT !.health = health]
      OBVIOUS
    <2>2. next = [bundle |-> next.bundle, source |-> next.source, health |-> next.health]
          /\ next.bundle = desired.bundle
      BY <1>2, <2>1
    <2> QED  BY <1>2, <2>1, <2>2
  <1>4. CASE ExecuteApply
    <2>1. /\ govOp.phase = "queued" /\ served' = govOp.bundle
          /\ desired' = [desired EXCEPT !.health = "healthy"]
          /\ \/ /\ backups' = backups \cup {desired.bundle}
                /\ govOp' = [govOp EXCEPT !.phase = "reloaded", !.backup = desired.bundle]
             \/ /\ govOp' = [govOp EXCEPT !.phase = "reloaded"] /\ UNCHANGED backups
      BY <1>4 DEF ExecuteApply
    <2>2. Routed'
      BY <1>1, <1>2, <1>3, <2>1, MovedRoutes
    <2>3. Revisions' /\ Reviews' /\ Grown
      BY <1>1, OnlyOperation DEF GovInv, Revisions
    <2>4. Preflighted'
      BY <1>1, <2>3, PreflightStays
    <2>5. /\ govOp'.bundle = govOp.bundle
          /\ RelayJob(govOp)' \/ PolicyJob(govOp)'
      <3>1. UNCHANGED <<configs, policies>>
        BY <1>1 DEF revisionVars
      <3>2. CASE RelayJob(govOp)
        BY <2>1, <3>1, <3>2 DEF RelayJob, AllReviewed
      <3>3. CASE PolicyJob(govOp)
        BY <2>1, <3>1, <3>3 DEF PolicyJob
      <3> QED  BY <1>2, <1>4, <3>2, <3>3 DEF ExecuteApply, IsGovernance, HostJob
    <2>6. Bundles(govOp.bundle)'
      <3>1. UNCHANGED <<configs, policies>>
        BY <1>1 DEF revisionVars
      <3> QED  BY <1>2, <2>5, <3>1 DEF Bundles
    <2> QED  BY <2>1, <2>2, <2>3, <2>4, <2>5, <2>6 DEF GovInv, Owner
  <1>5. CASE ExecuteRestore
    <2>1. PICK next : next = [bundle |-> govOp.bundle, source |-> "restore", health |-> "healthy"]
      OBVIOUS
    <2>2. /\ served' = govOp.bundle /\ backups' = backups \cup {desired.bundle}
          /\ desired' = next /\ govOp' = NoGovOp
      BY <1>5, <2>1 DEF ExecuteRestore
    <2>3. Bundles(next.bundle)
          /\ next = [bundle |-> next.bundle, source |-> next.source, health |-> next.health]
      BY <1>2, <2>1
    <2>4. Routed'
      BY <1>1, <1>2, <2>2, <2>3, MovedRoutes
    <2> QED  BY <1>1, <2>2, <2>4, EndedKeeps
  <1>6. CASE ExecuteReconcile
    <2>1. /\ served' = govOp.bundle /\ desired' = [desired EXCEPT !.health = "healthy"]
          /\ backups' = backups \/ backups' = backups \cup {desired.bundle}
          /\ govOp' = NoGovOp
      BY <1>6 DEF ExecuteReconcile
    <2>2. Routed'
      BY <1>1, <1>2, <1>3, <2>1, MovedRoutes
    <2> QED  BY <1>1, <2>1, <2>2, EndedKeeps
  <1>7. CASE ExecuteFails
    <2>1. /\ served' = served /\ desired' = [desired EXCEPT !.health = "blocked"]
          /\ backups' = backups /\ govOp' = NoGovOp
      BY <1>7 DEF ExecuteFails
    <2>2. Routed'
      BY <1>1, <1>2, <1>3, <2>1, MovedRoutes
    <2> QED  BY <1>1, <2>1, <2>2, EndedKeeps
  <1> QED  BY <1>4, <1>5, <1>6, <1>7

\* The finalizers move the applied pointers to the bundle the relay has loaded, or
\* conflict and leave it.
LEMMA FinalizeKeeps ==
    ASSUME GovInv,
           FinalizeRelayConfigurationApply \/ FinalizeGlobalPolicyApply \/ FailGovernanceFinalization
    PROVE  GovInv'
  <1>1. /\ UNCHANGED contractVars /\ UNCHANGED <<configs, policies, drafts, preview, observed>>
        /\ govOp # NoGovOp /\ govOp' = NoGovOp /\ UNCHANGED <<served, backups>>
    BY DEF FinalizeRelayConfigurationApply, FinalizeGlobalPolicyApply, FailGovernanceFinalization,
         revisionVars, relayVars
  <1>2. /\ Bundles(govOp.bundle)
        /\ RelayJob(govOp) \/ PolicyJob(govOp) \/ HostJob(govOp)
    BY <1>1 DEF GovInv, Owner
  <1>3. Reviews' /\ Grown
    BY <1>1, NothingAdded DEF GovInv, Reviews, contractVars
  <1>4. Preflighted' /\ Owner'
    BY <1>1, <1>3, PreflightStays DEF Owner
  <1>5. Revisions'
    <2>1. CASE FinalizeRelayConfigurationApply
      <3>1. RelayJob(govOp)
        BY <1>2, <2>1 DEF FinalizeRelayConfigurationApply, RelayFinalizable, PolicyJob, HostJob
      <3>2. relay' \in [current : 1..Len(configs), applied : 1..Len(configs), mode : Modes]
        BY <2>1, <3>1 DEF FinalizeRelayConfigurationApply, RelayJob, GovInv, Revisions
      <3>3. published' \in [Profiles -> Nat]
        BY <2>1, <3>1 DEF FinalizeRelayConfigurationApply, RelayJob, GovInv, Revisions
      <3> QED
        BY <1>1, <2>1, <3>2, <3>3 DEF FinalizeRelayConfigurationApply, GovInv, Revisions
    <2>2. CASE FinalizeGlobalPolicyApply
      <3>1. PolicyJob(govOp)
        BY <1>2, <2>2 DEF FinalizeGlobalPolicyApply, PolicyFinalizable, RelayJob, HostJob
      <3>2. policy' \in [current : 1..Len(policies), applied : 1..Len(policies)]
        BY <2>2, <3>1 DEF FinalizeGlobalPolicyApply, PolicyJob, GovInv, Revisions
      <3> QED  BY <1>1, <2>2, <3>2 DEF FinalizeGlobalPolicyApply, GovInv, Revisions
    <2>3. CASE FailGovernanceFinalization
      BY <2>3 DEF FailGovernanceFinalization, revisionVars, GovInv, Revisions
    <2> QED  BY <2>1, <2>2, <2>3
  <1>6. Routed'
    <2>1. CASE UNCHANGED relayVars
      BY <1>3, <2>1, RoutedStays
    <2>2. CASE PinRelayDesired(govOp.bundle)
      <3>1. desired' = [bundle |-> govOp.bundle, source |-> "relay_config_apply", health |-> "healthy"]
        BY <2>2 DEF PinRelayDesired
      <3>2. desired'.bundle = govOp.bundle /\ desired' = [bundle |-> desired'.bundle,
                 source |-> desired'.source, health |-> desired'.health]
        BY <3>1
      <3>3. Bundles(desired.bundle)'
        BY <1>1, <1>2, <3>2 DEF Bundles
      <3>4. Bundles(served)' /\ \A b \in backups' : Bundles(b)'
        BY <1>1 DEF GovInv, Routed, Bundles
      <3> QED  BY <3>2, <3>3, <3>4 DEF Routed
    <2> QED
      BY <2>1, <2>2 DEF FinalizeRelayConfigurationApply, FinalizeGlobalPolicyApply,
           FailGovernanceFinalization
  <1> QED  BY <1>3, <1>4, <1>5, <1>6 DEF GovInv

\* No step disturbs GovInv.
LEMMA GovNextInv ==
    ASSUME GovInv, [GovNext]_govVars
    PROVE  GovInv'
  <1>1. CASE UNCHANGED govVars
    <2>1. UNCHANGED <<configs, relay, policies, policy, upstream, contracts, accepted, proposals,
                      drafts, published, preview, observed, govOp, served, desired, backups>>
      BY <1>1 DEF govVars
    <2> QED  BY <2>1, OnlyContracts DEF revisionVars, relayVars, GovInv, Reviews
  <1> QED
    BY <1>1, DraftKeeps, ContractKeeps, ObservationKeeps, RenameKeeps, PreviewKeeps,
       CreateRelayKeeps, CreateKeeps, ExecuteKeeps, FinalizeKeeps DEF GovNext, GovWorker

\* A relay that was configured, applied and pinned once.
LEMMA GovInitInv ==
    ASSUME GovInit
    PROVE  GovInv
  <1>1. /\ configs = <<{}, Servers>> /\ configs \in Seq(SUBSET Servers) /\ Len(configs) = 2
        /\ policies = <<{}>> /\ policies \in Seq(SUBSET Named) /\ Len(policies) = 1
    BY DEF GovInit
  <1>2. Revisions
    BY <1>1 DEF GovInit, Revisions, Modes
  <1>3. Reviews
    <2>1. PICK c \in Shapes : upstream = [s \in Servers |-> c] /\ contracts = [s \in Servers |-> <<c>>]
      BY DEF GovInit
    <2>2. <<c>> \in Seq(Shapes) /\ Len(<<c>>) = 1
      OBVIOUS
    <2>3. /\ contracts \in [Servers -> Seq(Shapes)]
          /\ \A s \in Servers : Len(contracts[s]) = 1
      BY <2>1, <2>2
    <2>4. accepted \in [Servers -> {0, 1}] /\ proposals = {} /\ observed = Unseen
      BY DEF GovInit
    <2> QED  BY <2>1, <2>3, <2>4 DEF Reviews
  <1>4. Routed
    <2>1. "compatibility" \in Modes /\ 1 \in 1..Len(configs) /\ 2 \in 1..Len(configs)
          /\ 1 \in 1..Len(policies)
      BY <1>1 DEF Modes
    <2>2. /\ Bundles(RenderCandidate("compatibility", 2, 1, {}))
          /\ Bundles(RenderCandidate("compatibility", 1, 1, {}))
      BY <2>1, RenderedRoutes
    <2>3. /\ served = RenderCandidate("compatibility", 2, 1, {})
          /\ desired = [bundle |-> served, source |-> "relay_config_apply", health |-> "healthy"]
          /\ backups = {RenderCandidate("compatibility", 1, 1, {})}
      BY DEF GovInit
    <2> QED  BY <2>2, <2>3 DEF Routed
  <1>5. Preflighted /\ Owner
    BY DEF GovInit, Preflighted, Owner
  <1> QED  BY <1>2, <1>3, <1>4, <1>5 DEF GovInv

\* What relay governance relies on, in every state.
THEOREM GovernanceInvariant == GovSpec => []GovInv
  <1>1. GovInit => GovInv
    BY GovInitInv
  <1>2. GovInv /\ [GovNext]_govVars => GovInv'
    BY GovNextInv
  <1> QED  BY <1>1, <1>2, PTL DEF GovSpec

\* The Profiles a candidate carries are the published ones once it is applied.
LEMMA CandidateIsPublished ==
    ASSUME GovInv, NEW names \in SUBSET Profiles, names # {}, NEW revision \in [Profiles -> Nat \ {0}],
           published' = [p \in Profiles |-> IF p \in names THEN revision[p] ELSE published[p]]
    PROVE  /\ CandidateProfiles(names, revision) # {}
           /\ CandidateProfiles(names, revision)
                = {<<p, published'[p]>> : p \in {q \in Profiles : published'[q] > 0}}
  <1>1. published \in [Profiles -> Nat]
    BY DEF GovInv, Revisions
  <1>2. CandidateProfiles(names, revision) =
          {<<p, revision[p]>> : p \in names}
          \cup {<<p, published[p]>> : p \in {q \in Profiles \ names : published[q] > 0}}
    BY DEF CandidateProfiles
  <1>3. \A p \in names : published'[p] = revision[p] /\ revision[p] > 0
    OBVIOUS
  <1>4. \A p \in Profiles \ names : published'[p] = published[p]
    OBVIOUS
  <1> DEFINE left  == CandidateProfiles(names, revision)
             right == {<<p, published'[p]>> : p \in {q \in Profiles : published'[q] > 0}}
  <1>5. left # {}
    BY <1>2
  <1>6. ASSUME NEW e \in left  PROVE  e \in right
    <2>1. CASE \E p \in names : e = <<p, revision[p]>>
      BY <1>3, <2>1
    <2>2. CASE \E p \in Profiles \ names : published[p] > 0 /\ e = <<p, published[p]>>
      BY <1>4, <2>2
    <2> QED  BY <1>2, <1>6, <2>1, <2>2
  <1>7. ASSUME NEW e \in right  PROVE  e \in left
    <2>1. PICK p \in Profiles : published'[p] > 0 /\ e = <<p, published'[p]>>
      BY <1>7
    <2>2. CASE p \in names
      BY <1>2, <1>3, <2>1, <2>2
    <2>3. CASE p \notin names
      BY <1>2, <1>4, <2>1, <2>3
    <2> QED  BY <2>2, <2>3
  <1> HIDE DEF left, right
  <1>8. left = right
    BY <1>6, <1>7
  <1> QED  BY <1>5, <1>8 DEF left, right

\* What a finalizer pins runs and is what the database renders from then on.
LEMMA PinnedIsServed ==
    ASSUME GovInv, FinalizeRelayConfigurationApply \/ FinalizeGlobalPolicyApply
    PROVE  desired'.bundle = served' /\ desired'.bundle = AppliedRendering'
  <1>1. /\ govOp # NoGovOp /\ govOp.phase = "reloaded" /\ HashStillMatches
        /\ desired' = [bundle |-> govOp.bundle, source |-> "relay_config_apply", health |-> "healthy"]
        /\ UNCHANGED <<configs, policies, served>> /\ UNCHANGED contractVars
    BY DEF FinalizeRelayConfigurationApply, FinalizeGlobalPolicyApply, RelayFinalizable,
         PolicyFinalizable, PinRelayDesired
  <1>2. desired'.bundle = govOp.bundle /\ served' = govOp.bundle /\ govOp.bundle = RenderedAgain
    BY <1>1 DEF GovInv, Owner, HashStillMatches
  <1>3. /\ RelayJob(govOp) \/ PolicyJob(govOp) \/ HostJob(govOp)
    BY <1>1 DEF GovInv, Owner
  <1>4. \A s, override : RoutedServer(s, override)' = RoutedServer(s, override)
    BY <1>1 DEF RoutedServer, Paused, contractVars
  <1>5. \A mode, config, pol, profs :
          RenderCandidate(mode, config, pol, profs)' = RenderCandidate(mode, config, pol, profs)
    BY <1>1, <1>4 DEF RenderCandidate
  <1>6. CASE FinalizeRelayConfigurationApply
    <2>1. govOp.kind = "relay" /\ relay' = [relay EXCEPT !.applied = govOp.config, !.mode = govOp.mode]
          /\ UNCHANGED policy
          /\ published' = [p \in Profiles |->
                             IF p \in govOp.names THEN govOp.revisions[p] ELSE published[p]]
      BY <1>6 DEF FinalizeRelayConfigurationApply, RelayFinalizable
    <2>2. govOp.names \in SUBSET Profiles /\ govOp.revisions \in [Profiles -> Nat \ {0}]
      BY <1>3, <2>1 DEF RelayJob, PolicyJob, HostJob
    <2>3. relay'.mode = govOp.mode /\ relay'.applied = govOp.config
      BY <2>1 DEF GovInv, Revisions
    <2>4. PICK profs : profs = CandidateProfiles(govOp.names, govOp.revisions)
      OBVIOUS
    <2>5. govOp.bundle = RenderCandidate(govOp.mode, govOp.config, policy.applied, profs)
      BY <1>2, <2>1, <2>4 DEF RenderedAgain
    <2>6. govOp.bundle.profiles = profs
      BY <2>5 DEF RenderCandidate
    <2>7. profs = IF desired'.bundle.profiles = {} THEN {}
                  ELSE {<<p, published'[p]>> : p \in {q \in Profiles : published'[q] > 0}}
      <3>1. CASE govOp.names = {}
        BY <1>2, <2>4, <2>6, <3>1 DEF CandidateProfiles
      <3>2. CASE govOp.names # {}
        BY <1>2, <2>1, <2>2, <2>4, <2>6, <3>2, CandidateIsPublished
      <3> QED  BY <3>1, <3>2
    <2>8. PICK mode, config, pol :
            mode = govOp.mode /\ config = govOp.config /\ pol = policy.applied
      OBVIOUS
    <2>9. AppliedRendering' = RenderCandidate(mode, config, pol, profs)'
      BY <2>1, <2>3, <2>7, <2>8 DEF AppliedRendering
    <2> QED  BY <1>2, <1>5, <2>5, <2>8, <2>9
  <1>7. CASE FinalizeGlobalPolicyApply
    <2>1. govOp.kind = "policy" /\ policy' = [policy EXCEPT !.applied = govOp.policy] /\ UNCHANGED relay
      BY <1>7 DEF FinalizeGlobalPolicyApply, PolicyFinalizable
    <2>2. policy'.applied = govOp.policy
      BY <2>1 DEF GovInv, Revisions
    <2>3. govOp.bundle = RenderCandidate(relay.mode, relay.applied, govOp.policy, {})
      BY <1>2, <2>1 DEF RenderedAgain
    <2>4. desired'.bundle.profiles = {}
      BY <1>2, <2>3 DEF RenderCandidate
    <2>5. PICK mode, config, pol :
            mode = relay.mode /\ config = relay.applied /\ pol = govOp.policy
      OBVIOUS
    <2>6. AppliedRendering' = RenderCandidate(mode, config, pol, {})'
      BY <2>1, <2>2, <2>4, <2>5 DEF AppliedRendering
    <2> QED  BY <1>2, <1>5, <2>3, <2>5, <2>6
  <1> QED  BY <1>6, <1>7

\* pinRelayDesiredSnapshotTx pins what the relay has loaded and what the database renders
\* for the moved pointers, whatever was accepted, observed, renamed, edited or published
\* since the operation was created: for any servers, tools, contracts and Profiles.
THEOREM FinalizersPinServed == GovSpec => FinalizedIsServed
  <1>1. GovInv /\ [GovNext]_govVars =>
          [desired'.bundle # desired.bundle /\ desired'.source = "relay_config_apply"
           => desired'.bundle = served' /\ desired'.bundle = AppliedRendering']_govVars
    <2> SUFFICES ASSUME GovInv, GovNext, desired'.bundle # desired.bundle,
                        desired'.source = "relay_config_apply"
                 PROVE  desired'.bundle = served' /\ desired'.bundle = AppliedRendering'
      OBVIOUS
    <2>1. desired = [bundle |-> desired.bundle, source |-> desired.source, health |-> desired.health]
      BY DEF GovInv, Routed
    <2>2. /\ ~ExecuteApply /\ ~ExecuteReconcile /\ ~ExecuteFails /\ ~ExecuteRestore
      BY <2>1 DEF ExecuteApply, ExecuteReconcile, ExecuteFails, ExecuteRestore
    <2>3. ~UNCHANGED relayVars
      BY DEF relayVars
    <2>4. FinalizeRelayConfigurationApply \/ FinalizeGlobalPolicyApply
      BY <2>2, <2>3 DEF GovNext, GovWorker, SaveRelayConfiguration, SaveGlobalPolicy,
           SaveProfileDraft, UpstreamChanges, ReadContracts, ObserveRelayContracts, AcceptContract,
           ConfirmToolRename, PreflightRelayConfiguration, CreateRelayApply, CreatePolicyApply,
           CreateRestore, CreateReconcile, FailGovernanceFinalization
    <2> QED  BY <2>4, PinnedIsServed
  <1> QED  BY <1>1, GovernanceInvariant, PTL DEF GovSpec, FinalizedIsServed

\* FinalizeRelayConfigurationApply enters enforcement only over contracts that are
\* accepted and route every accepted tool, and with its own backup of the same
\* configuration in compatibility mode, though contracts are observed and accepted
\* between the preflight, the creation, the reload and the finalization.
THEOREM EnforcementCanReturn == GovSpec => EnforcementHasWayBack
  <1>1. GovInv /\ [GovNext]_govVars =>
          [relay.mode = "compatibility" /\ relay'.mode = "enforced"
           => /\ \E b \in backups : b.mode = "compatibility" /\ b.config = relay'.applied
              /\ \A s \in configs[relay'.applied] : accepted[s] # 0 /\ Paused(s) = {}]_govVars
    <2> SUFFICES ASSUME GovInv, GovNext, relay.mode = "compatibility", relay'.mode = "enforced"
                 PROVE  /\ \E b \in backups : b.mode = "compatibility" /\ b.config = relay'.applied
                        /\ \A s \in configs[relay'.applied] : accepted[s] # 0 /\ Paused(s) = {}
      OBVIOUS
    <2>1. ~UNCHANGED relay /\ ~SaveRelayConfiguration
      BY DEF SaveRelayConfiguration, GovInv, Revisions
    <2>2. ~UNCHANGED revisionVars
      BY <2>1 DEF revisionVars
    <2>3. FinalizeRelayConfigurationApply
      BY <2>1, <2>2 DEF GovNext, GovWorker, SaveGlobalPolicy, SaveProfileDraft, UpstreamChanges,
           ReadContracts, ObserveRelayContracts, AcceptContract, ConfirmToolRename,
           PreflightRelayConfiguration, CreateRelayApply, CreatePolicyApply, CreateRestore,
           CreateReconcile, ExecuteFails, ExecuteApply, ExecuteRestore, ExecuteReconcile,
           FinalizeGlobalPolicyApply, FailGovernanceFinalization
    <2>4. /\ govOp # NoGovOp /\ govOp.kind = "relay" /\ relay.applied = govOp.before
          /\ HashStillMatches /\ (govOp.mode = "enforced" => CompatibilityBackup)
          /\ relay' = [relay EXCEPT !.applied = govOp.config, !.mode = govOp.mode]
      BY <2>3 DEF FinalizeRelayConfigurationApply, RelayFinalizable
    <2>5. relay'.applied = govOp.config /\ govOp.mode = "enforced"
      BY <2>4 DEF GovInv, Revisions
    <2>6. RelayJob(govOp)
      BY <2>4 DEF GovInv, Owner, PolicyJob, HostJob
    <2>7. /\ govOp.config = relay.applied /\ AllReviewed(govOp.bundle)
          /\ govOp.config \in 1..Len(configs)
      BY <2>4, <2>5, <2>6 DEF RelayJob
    <2>8. govOp.backup \in backups /\ govOp.backup.mode = "compatibility"
          /\ govOp.backup.config = relay'.applied
      BY <2>4, <2>5, <2>6, <2>7 DEF RelayJob, CompatibilityBackup
    <2>9. ASSUME NEW s \in configs[govOp.config]
          PROVE  accepted[s] # 0 /\ Paused(s) = {}
      <3>1. PICK profs : govOp.bundle = RenderCandidate(govOp.mode, govOp.config, policy.applied, profs)
        BY <2>4 DEF HashStillMatches, RenderedAgain
      <3>2. DOMAIN govOp.bundle.servers = configs[govOp.config]
            /\ govOp.bundle.servers[s] = RoutedServer(s, policies[policy.applied])
        BY <2>9, <3>1 DEF RenderCandidate
      <3>3. /\ RoutedServer(s, policies[policy.applied]).contract # 0
            /\ RoutedServer(s, policies[policy.applied]).paused = {}
        BY <2>7, <2>9, <3>2 DEF AllReviewed
      <3>4. accepted[s] # 0
        BY <3>3 DEF RoutedServer
      <3> QED  BY <3>3, <3>4, RoutedFacts
    <2> QED  BY <2>5, <2>8, <2>9
  <1> QED  BY <1>1, GovernanceInvariant, PTL DEF GovSpec, EnforcementHasWayBack
-----------------------------------------------------------------------------
(* The import of a generation-1 configuration *)

\* The stages of an apply between the read of the source and the answer.
Stages == {"migrate", "preflight", "check", "account", "environment", "import", "verify"}

\* An invocation that applies carries a plan the administrator has reviewed.
Carries(t) == /\ t = [at |-> t.at, plan |-> t.plan] /\ t.at \in Stages
              /\ t.plan # NoPlan /\ SourceFingerprint(t.plan) \in reviews

\* What an invocation relies on: the schema once it is past Migrate, the account
\* before the environment, and at the end the marker of its plan.
ReliesOn(t) ==
    /\ t.at \in Stages \ {"migrate"} => dest.schema
    /\ t.at = "environment" => dest.account
    /\ t.at = "verify" => dest.content # NoPlan /\ dest.marker = SourceFingerprint(t.plan)

Invocation(t) == \/ t = Resting
                 \/ t.at = "done"
                 \/ Carries(t) /\ ReliesOn(t)

\* The destination is filled in the order schema, account, baseline, configuration,
\* and its marker is the fingerprint of what was imported.
Destination ==
    /\ dest = [schema |-> dest.schema, account |-> dest.account, bootstraps |-> dest.bootstraps,
               baseline |-> dest.baseline, content |-> dest.content, marker |-> dest.marker,
               touched |-> dest.touched]
    /\ dest.schema \in BOOLEAN /\ dest.account \in BOOLEAN /\ dest.baseline \in BOOLEAN
    /\ dest.touched \subseteq {"rows", "work", "member"}
    /\ dest.account => dest.schema
    /\ dest.baseline => dest.account
    /\ dest.content # NoPlan => dest.baseline /\ dest.marker = SourceFingerprint(dest.content)
    /\ dest.content = NoPlan => dest.marker = <<>>

MigInv ==
    /\ tool = [p \in Migrators |-> tool[p]]
    /\ \A p \in Migrators : Invocation(tool[p])
    /\ Destination
    /\ IsSnapshot(legacy)

\* What the steps of invocation p leave of the others and of the destination.
LEMMA InvocationMoves ==
    ASSUME MigInv, NEW p \in Migrators, NEW next, To(p, next),
           Destination', IsSnapshot(legacy'), reviews \subseteq reviews',
           dest.schema => dest'.schema, dest.account => dest'.account,
           dest.content # NoPlan => dest'.content = dest.content /\ dest'.marker = dest.marker,
           Invocation(next)'
    PROVE  MigInv'
  <1>1. tool' = [tool EXCEPT ![p] = next]
    BY DEF To
  <1>2. tool' = [q \in Migrators |-> tool'[q]] /\ tool'[p] = next
        /\ \A q \in Migrators \ {p} : tool'[q] = tool[q]
    BY <1>1 DEF MigInv
  <1>3. ASSUME NEW q \in Migrators \ {p}  PROVE  Invocation(tool[q])'
    <2>1. Invocation(tool[q]) /\ tool'[q] = tool[q]
      BY <1>2 DEF MigInv
    <2> QED  BY <2>1 DEF Invocation, Carries, ReliesOn
  <1>4. Invocation(tool[p])'
    BY <1>2
  <1> QED  BY <1>2, <1>3, <1>4 DEF MigInv

\* A plan is never the empty one, which has no members.
LEMMA PlanIsOne ==
    ASSUME NEW l
    PROVE  Prepare(l) # NoPlan
  <1>1. "relay" \in DOMAIN Prepare(l)
    BY DEF Prepare
  <1>2. "relay" \notin DOMAIN NoPlan
    BY DEF NoPlan
  <1> QED  BY <1>1, <1>2

\* An invocation that ends keeps nothing.
LEMMA InvocationEnds ==
    ASSUME MigInv, NEW p \in Migrators, NEW res, Ends(p, res), UNCHANGED <<legacy, reviews, dest>>
    PROVE  MigInv'
  <1>1. PICK next : next = [at |-> "done", plan |-> tool[p].plan, result |-> res]
    OBVIOUS
  <1>2. To(p, next) /\ next.at = "done"
    BY <1>1 DEF Ends
  <1>3. Invocation(next)'
    BY <1>2 DEF Invocation
  <1>4. Destination' /\ IsSnapshot(legacy')
    BY DEF MigInv, Destination
  <1> QED  BY <1>2, <1>3, <1>4, InvocationMoves

\* An invocation that goes on to another stage relies on what it has done there.
LEMMA InvocationGoesOn ==
    ASSUME MigInv, NEW p \in Migrators, NEW at \in Stages, Carries(tool[p]),
           To(p, [tool[p] EXCEPT !.at = at]),
           UNCHANGED <<legacy, reviews>>, Destination',
           dest'.schema, dest.account => dest'.account,
           dest.content # NoPlan => dest'.content = dest.content /\ dest'.marker = dest.marker,
           at = "environment" => dest'.account,
           at = "verify" =>
               dest'.content # NoPlan /\ dest'.marker = SourceFingerprint(tool[p].plan)
    PROVE  MigInv'
  <1>1. PICK next : next = [tool[p] EXCEPT !.at = at]
    OBVIOUS
  <1>2. Invocation(next)'
    <2>1. /\ next = [at |-> at, plan |-> tool[p].plan] /\ next.at = at
          /\ next.plan = tool[p].plan
      BY <1>1 DEF Carries
    <2> QED  BY <2>1 DEF Invocation, Carries, ReliesOn
  <1>3. To(p, next)
    BY <1>1
  <1>4. IsSnapshot(legacy')
    BY DEF MigInv
  <1> QED  BY <1>2, <1>3, <1>4, InvocationMoves

\* What is known of an invocation that works on the destination.
LEMMA AtWork ==
    ASSUME MigInv, NEW p \in Migrators, tool[p].at \in Stages
    PROVE  Carries(tool[p]) /\ ReliesOn(tool[p])
  <1>1. tool[p] # Resting /\ tool[p].at # "done"
    BY DEF Resting, Stages
  <1> QED  BY <1>1 DEF MigInv, Invocation

\* What is known of the destination while a step of it leaves the imported configuration.
LEMMA BroughtUp ==
    ASSUME MigInv, NEW p \in Migrators,
           Migrate(p) \/ BootstrapCheck(p) \/ BootstrapAccount(p) \/ BootstrapEnvironment(p)
    PROVE  MigInv'
  <1>1. tool[p].at \in Stages
    BY DEF Migrate, BootstrapCheck, BootstrapAccount, BootstrapEnvironment, Stages
  <1>2. Carries(tool[p]) /\ ReliesOn(tool[p]) /\ Destination
    BY <1>1, AtWork DEF MigInv
  <1>3. CASE Migrate(p)
    <2>1. dest' = [dest EXCEPT !.schema = TRUE]
      BY <1>3 DEF Migrate
    <2>2. Destination' /\ dest'.schema /\ dest'.account = dest.account
          /\ dest'.content = dest.content /\ dest'.marker = dest.marker
      BY <1>2, <2>1 DEF Destination
    <2> QED  BY <1>2, <1>3, <2>2, InvocationGoesOn DEF Migrate, Stages
  <1>4. CASE BootstrapCheck(p)
    <2>1. dest.schema /\ Destination' /\ UNCHANGED dest
      BY <1>2, <1>4 DEF BootstrapCheck, ReliesOn, Stages, Destination
    <2>2. CASE dest.account
      <3>1. To(p, [tool[p] EXCEPT !.at = "environment"])
        BY <1>4, <2>2 DEF BootstrapCheck
      <3> QED  BY <1>2, <1>4, <2>1, <2>2, <3>1, InvocationGoesOn DEF BootstrapCheck, Stages
    <2>3. CASE ~dest.account
      <3>1. To(p, [tool[p] EXCEPT !.at = "account"])
        BY <1>4, <2>3 DEF BootstrapCheck
      <3> QED  BY <1>2, <1>4, <2>1, <2>3, <3>1, InvocationGoesOn DEF BootstrapCheck, Stages
    <2> QED  BY <2>2, <2>3
  <1>5. CASE BootstrapAccount(p)
    <2>1. dest' = [dest EXCEPT !.account = TRUE, !.bootstraps = @ + 1] /\ dest.schema
      BY <1>2, <1>5 DEF BootstrapAccount, ReliesOn, Stages
    <2>2. Destination' /\ dest'.schema /\ dest'.account
          /\ dest'.content = dest.content /\ dest'.marker = dest.marker
      BY <1>2, <2>1 DEF Destination
    <2> QED  BY <1>2, <1>5, <2>2, InvocationGoesOn DEF BootstrapAccount, Stages
  <1>6. CASE BootstrapEnvironment(p)
    <2>1. dest' = [dest EXCEPT !.baseline = TRUE] /\ dest.schema /\ dest.account
      BY <1>2, <1>6 DEF BootstrapEnvironment, ReliesOn, Stages
    <2>2. Destination' /\ dest'.schema /\ dest'.account
          /\ dest'.content = dest.content /\ dest'.marker = dest.marker
      BY <1>2, <2>1 DEF Destination
    <2> QED  BY <1>2, <1>6, <2>2, InvocationGoesOn DEF BootstrapEnvironment, Stages
  <1> QED  BY <1>3, <1>4, <1>5, <1>6

\* ConfigImportDestinationNeedsBootstrap only reads.
LEMMA BootstrapAsked ==
    ASSUME MigInv, NEW p \in Migrators, NeedsBootstrap(p)
    PROVE  MigInv'
  <1>1. tool[p].at = "preflight" /\ UNCHANGED <<legacy, reviews, dest>>
    BY DEF NeedsBootstrap
  <1>2. Carries(tool[p]) /\ Destination' /\ dest.schema /\ dest'.schema
    BY <1>1, AtWork DEF Stages, MigInv, Destination, ReliesOn
  <1>3. \/ To(p, [tool[p] EXCEPT !.at = "import"])
        \/ To(p, [tool[p] EXCEPT !.at = "check"])
        \/ Ends(p, "failed")
    BY DEF NeedsBootstrap
  <1>4. CASE To(p, [tool[p] EXCEPT !.at = "import"])
    BY <1>1, <1>2, <1>4, InvocationGoesOn DEF Stages
  <1>5. CASE To(p, [tool[p] EXCEPT !.at = "check"])
    BY <1>1, <1>2, <1>5, InvocationGoesOn DEF Stages
  <1>6. CASE Ends(p, "failed")
    BY <1>1, <1>6, InvocationEnds
  <1> QED  BY <1>3, <1>4, <1>5, <1>6

\* ImportLegacyConfig commits the plan of the invocation with its marker, or finds the
\* marker of an earlier import.
LEMMA ImportKeeps ==
    ASSUME MigInv, NEW p \in Migrators, ImportLegacyConfig(p)
    PROVE  MigInv'
  <1> DEFINE plan == tool[p].plan
  <1>1. tool[p].at = "import" /\ UNCHANGED <<legacy, reviews>>
    BY DEF ImportLegacyConfig
  <1>2. Carries(tool[p]) /\ Destination /\ dest.schema
    BY <1>1, AtWork DEF Stages, MigInv, ReliesOn
  <1>3. CASE /\ AlreadyImported(plan) /\ To(p, [tool[p] EXCEPT !.at = "verify"])
             /\ UNCHANGED dest
    <2>1. Destination' /\ dest'.content # NoPlan /\ dest'.marker = SourceFingerprint(plan)
      BY <1>2, <1>3 DEF AlreadyImported, Destination
    <2> QED  BY <1>1, <1>2, <1>3, <2>1, InvocationGoesOn DEF Stages
  <1>4. CASE /\ dest.content = NoPlan /\ Pristine /\ dest' = ImportCommitted(plan)
             /\ To(p, [tool[p] EXCEPT !.at = "verify"])
    <2>1. plan # NoPlan /\ dest.account /\ dest.baseline
      BY <1>2, <1>4 DEF Carries, Pristine
    <2>2. dest' = [dest EXCEPT !.content = plan, !.marker = SourceFingerprint(plan)]
      BY <1>4 DEF ImportCommitted
    <2> HIDE DEF plan
    <2>3. /\ Destination' /\ dest'.content = plan /\ dest'.marker = SourceFingerprint(plan)
          /\ dest'.schema /\ dest'.account
      BY <1>2, <2>1, <2>2 DEF Destination
    <2>4. plan = tool[p].plan
      BY DEF plan
    <2> QED  BY <1>1, <1>2, <1>4, <2>1, <2>3, <2>4, InvocationGoesOn DEF Stages
  <1>5. CASE Ends(p, "failed") /\ UNCHANGED dest
    BY <1>1, <1>5, InvocationEnds
  <1> QED  BY <1>3, <1>4, <1>5 DEF ImportLegacyConfig

\* The steps of one invocation keep the invariant.
LEMMA InvocationKeeps ==
    ASSUME MigInv, NEW p \in Migrators, DryRun(p) \/ ApplyStep(p) \/ ToolStops(p)
    PROVE  MigInv'
  <1>1. CASE DryRun(p)
    <2>1. reviews \subseteq reviews' /\ UNCHANGED <<legacy, tool, dest>>
      BY <1>1 DEF DryRun
    <2>2. \A q \in Migrators : Invocation(tool[q])'
      BY <2>1 DEF MigInv, Invocation, Carries, ReliesOn
    <2> QED  BY <2>1, <2>2 DEF MigInv, Destination
  <1>2. CASE VerifyConfigImportAcceptance(p)
    BY <1>2, InvocationEnds DEF VerifyConfigImportAcceptance
  <1>3. CASE ToolStops(p)
    BY <1>3, InvocationEnds DEF ToolStops
  <1>4. CASE ReadAnswer(p)
    <2>1. Invocation(Resting)' /\ To(p, Resting) /\ UNCHANGED <<legacy, reviews, dest>>
      BY <1>4 DEF Invocation, ReadAnswer
    <2>2. Destination' /\ IsSnapshot(legacy')
      BY <2>1 DEF MigInv, Destination
    <2> QED  BY <2>1, <2>2, InvocationMoves
  <1> QED
    BY <1>1, <1>2, <1>3, <1>4, BroughtUp, BootstrapAsked, ImportKeeps DEF ApplyStep

\* An apply starts with the plan it compared with the review.
LEMMA StartKeeps ==
    ASSUME MigInv, NEW p \in Migrators, NEW expected \in reviews, StartApply(p, expected)
    PROVE  MigInv'
  <1>1. PICK plan : plan = Prepare(legacy)
    OBVIOUS
  <1>2. PICK next : next = [at |-> "migrate", plan |-> plan]
    OBVIOUS
  <1>3. SourceFingerprint(plan) \in reviews /\ To(p, next) /\ UNCHANGED <<legacy, reviews, dest>>
    BY <1>1, <1>2 DEF StartApply, Reviewed
  <1>4. plan # NoPlan
    BY <1>1, PlanIsOne
  <1>5. Invocation(next)'
    <2>1. next = [at |-> next.at, plan |-> next.plan] /\ next.at = "migrate" /\ next.plan = plan
      BY <1>2
    <2> QED  BY <1>3, <1>4, <2>1 DEF Invocation, Carries, ReliesOn, Stages
  <1>6. Destination' /\ IsSnapshot(legacy')
    BY <1>3 DEF MigInv, Destination
  <1> QED  BY <1>3, <1>5, <1>6, InvocationMoves

\* Steps around the tool: the legacy side changes, or the destination is used while
\* no invocation is at work.
LEMMA OutsideKeeps ==
    ASSUME MigInv, LegacyEdit \/ RotateLegacySecret \/ ApplicationRuns
    PROVE  MigInv'
  <1>1. CASE LegacyEdit \/ RotateLegacySecret
    <2>1. UNCHANGED <<reviews, tool, dest>>
      BY <1>1 DEF LegacyEdit, RotateLegacySecret
    <2>2. IsSnapshot(legacy')
      <3>1. CASE LegacyEdit
        BY <3>1, MigrationAssumption DEF LegacyEdit
      <3>2. CASE RotateLegacySecret
        <4>1. PICK i \in DOMAIN legacy.secrets : legacy' = [legacy EXCEPT !.secrets[i] = @ + 1]
          BY <3>2 DEF RotateLegacySecret
        <4>2. IsSnapshot(legacy)
          BY DEF MigInv
        <4>3. legacy.secrets \in Seq(Nat)
          BY <4>2 DEF IsSnapshot
        <4>4. [legacy.secrets EXCEPT ![i] = @ + 1] \in Seq(Nat)
          BY <4>1, <4>3
        <4>5. /\ DOMAIN legacy' = DOMAIN legacy /\ legacy'.servers = legacy.servers
              /\ legacy'.skills = legacy.skills /\ legacy'.sound = legacy.sound
              /\ legacy'.secrets \in Seq(Nat)
          BY <4>1, <4>2, <4>4 DEF IsSnapshot
        <4> QED  BY <4>2, <4>5 DEF IsSnapshot
      <3> QED  BY <1>1, <3>1, <3>2
    <2> QED  BY <2>1, <2>2 DEF MigInv, Invocation, Carries, ReliesOn, Destination
  <1>2. CASE ApplicationRuns
    <2>1. UNCHANGED <<legacy, reviews, tool>>
          /\ \A p \in Migrators : tool[p].at \in {"idle", "done"}
      BY <1>2 DEF ApplicationRuns
    <2>2. \A p \in Migrators : tool[p] = Resting \/ tool[p].at = "done"
      BY <2>1 DEF MigInv, Invocation, Carries, Stages
    <2>3. Destination'
      <3>1. PICK use \in {"rows", "work", "member"} :
              dest' = [dest EXCEPT !.schema = TRUE, !.account = TRUE, !.baseline = TRUE,
                                   !.bootstraps = IF dest.account THEN @ ELSE @ + 1,
                                   !.touched = @ \cup {use}]
        BY <1>2 DEF ApplicationRuns
      <3>2. Destination
        BY DEF MigInv
      <3> QED  BY <3>1, <3>2 DEF Destination
    <2> QED  BY <2>1, <2>2, <2>3 DEF MigInv, Invocation
  <1> QED  BY <1>1, <1>2

\* No step disturbs MigInv.
LEMMA MigNextInv ==
    ASSUME MigInv, [MigNext]_migVars
    PROVE  MigInv'
  <1>1. CASE UNCHANGED migVars
    BY <1>1 DEF migVars, MigInv, Invocation, Carries, ReliesOn, Destination
  <1> QED  BY <1>1, InvocationKeeps, StartKeeps, OutsideKeeps DEF MigNext

\* Nothing is reviewed or imported yet.
LEMMA MigInitInv ==
    ASSUME MigInit
    PROVE  MigInv
  BY MigrationAssumption DEF MigInit, MigInv, Invocation, Destination, NoPlan

\* What the migration tool, the administrator and the destination rely on, in every state.
THEOREM MigrationInvariant == MigSpec => []MigInv
  <1>1. MigInit => MigInv
    BY MigInitInv
  <1>2. MigInv /\ [MigNext]_migVars => MigInv'
    BY MigNextInv
  <1> QED  BY <1>1, <1>2, PTL DEF MigSpec

\* Every step of the system is one that SuccessIsTheReview allows.
LEMMA MigStep ==
    ASSUME MigInv, MigNext
    PROVE  /\ dest.content = NoPlan /\ dest'.content # NoPlan =>
                  /\ dest'.marker = SourceFingerprint(dest'.content)
                  /\ dest'.marker \in reviews
           /\ dest.content # NoPlan => dest'.content = dest.content
           /\ \A p \in Migrators :
                tool'[p].at = "done" /\ tool'[p].result = "imported" /\ tool[p].at = "verify" =>
                  /\ SourceFingerprint(dest.content) = SourceFingerprint(tool[p].plan)
                  /\ dest.touched \subseteq {"member"}
  <1>1. Destination
    BY DEF MigInv
  <1>2. \/ dest'.content = dest.content
        \/ \E p \in Migrators : /\ tool[p].at = "import" /\ dest.content = NoPlan
                                /\ dest' = ImportCommitted(tool[p].plan)
    <2>1. ASSUME NEW p \in Migrators, DryRun(p) \/ ApplyStep(p) \/ ToolStops(p)
          PROVE  \/ dest'.content = dest.content
                 \/ /\ tool[p].at = "import" /\ dest.content = NoPlan
                    /\ dest' = ImportCommitted(tool[p].plan)
      BY <1>1, <2>1 DEF DryRun, ApplyStep, ToolStops, Migrate, NeedsBootstrap, BootstrapCheck,
           BootstrapAccount, BootstrapEnvironment, ImportLegacyConfig,
           VerifyConfigImportAcceptance, ReadAnswer, Destination
    <2>2. LegacyEdit \/ RotateLegacySecret \/ ApplicationRuns => dest'.content = dest.content
      BY <1>1 DEF LegacyEdit, RotateLegacySecret, ApplicationRuns, Destination
    <2>3. \A p \in Migrators, expected \in reviews : StartApply(p, expected) => UNCHANGED dest
      BY DEF StartApply
    <2> QED  BY <2>1, <2>2, <2>3 DEF MigNext
  <1>3. ASSUME NEW p \in Migrators, tool[p].at = "import", dest.content = NoPlan,
               dest' = ImportCommitted(tool[p].plan)
        PROVE  dest'.marker = SourceFingerprint(dest'.content) /\ dest'.marker \in reviews
    <2>1. Carries(tool[p])
      BY <1>3, AtWork DEF Stages
    <2>2. dest'.content = tool[p].plan /\ dest'.marker = SourceFingerprint(tool[p].plan)
      BY <1>1, <1>3 DEF ImportCommitted, Destination
    <2> QED  BY <2>1, <2>2 DEF Carries
  <1>4. ASSUME NEW p \in Migrators, tool'[p].at = "done", tool'[p].result = "imported",
               tool[p].at = "verify"
        PROVE  /\ SourceFingerprint(dest.content) = SourceFingerprint(tool[p].plan)
               /\ dest.touched \subseteq {"member"}
    <2>1. ReliesOn(tool[p]) /\ tool = [q \in Migrators |-> tool[q]]
      BY <1>4, AtWork DEF Stages, MigInv
    <2>2. SourceFingerprint(dest.content) = SourceFingerprint(tool[p].plan)
      BY <1>1, <1>4, <2>1 DEF ReliesOn, Destination
    <2>3. tool'[p] # tool[p]
      BY <1>4
    <2>4. ASSUME NEW q \in Migrators, NEW next, To(q, next)
          PROVE  q = p
      BY <2>1, <2>3, <2>4 DEF To
    <2>5. ~ToolStops(p)
      BY <1>4, <2>1 DEF ToolStops, Ends, To
    <2>6. ASSUME NEW q \in Migrators, DryRun(q) \/ ApplyStep(q) \/ ToolStops(q)
          PROVE  VerifyConfigImportAcceptance(p)
      <3>1. q = p
        BY <2>3, <2>4, <2>6 DEF DryRun, ApplyStep, ToolStops, Migrate, NeedsBootstrap,
             BootstrapCheck, BootstrapAccount, BootstrapEnvironment, ImportLegacyConfig,
             VerifyConfigImportAcceptance, ReadAnswer, Ends
      <3> QED
        BY <1>4, <2>5, <2>6, <3>1 DEF DryRun, ApplyStep, Migrate, NeedsBootstrap, BootstrapCheck,
             BootstrapAccount, BootstrapEnvironment, ImportLegacyConfig, ReadAnswer, Resting
    <2>7. \A q \in Migrators, expected \in reviews : ~StartApply(q, expected)
      <3>1. ASSUME NEW q \in Migrators, NEW expected \in reviews, StartApply(q, expected)
            PROVE  FALSE
        BY <1>4, <2>4, <3>1 DEF StartApply, Resting
      <3> QED  BY <3>1
    <2>8. VerifyConfigImportAcceptance(p)
      BY <2>3, <2>6, <2>7 DEF MigNext, LegacyEdit, RotateLegacySecret, ApplicationRuns
    <2>9. Acceptance
      BY <1>4, <2>1, <2>8 DEF VerifyConfigImportAcceptance, Ends, To
    <2> QED  BY <1>1, <2>2, <2>9 DEF Acceptance, CoreVerified, Destination
  <1> QED  BY <1>2, <1>3, <1>4

\* What toolhub-config-migrate imports was shown by a dry run, an apply that reports
\* success has found or left the configuration it read, and no apply replaces one:
\* for any number of invocations, edits of the legacy side, stops of the tool and uses
\* of the destination (Execute, ImportLegacyConfig, VerifyConfigImportAcceptance).
THEOREM ImportsAreReviewed == MigSpec => SuccessIsTheReview
  <1>1. MigInv /\ [MigNext]_migVars =>
          [/\ dest.content = NoPlan /\ dest'.content # NoPlan =>
                  /\ dest'.marker = SourceFingerprint(dest'.content)
                  /\ dest'.marker \in reviews
           /\ dest.content # NoPlan => dest'.content = dest.content
           /\ \A p \in Migrators :
                tool'[p].at = "done" /\ tool'[p].result = "imported" /\ tool[p].at = "verify" =>
                  /\ SourceFingerprint(dest.content) = SourceFingerprint(tool[p].plan)
                  /\ dest.touched \subseteq {"member"}]_migVars
    BY MigStep
  <1> QED  BY <1>1, MigrationInvariant, PTL DEF MigSpec, SuccessIsTheReview
-----------------------------------------------------------------------------
(* The names an import gives to MCP definitions *)

\* The MCP definitions of a legacy database.
Definitions(defs) ==
    /\ DOMAIN defs \subseteq LegacyIds /\ IsFiniteSet(DOMAIN defs)
    /\ \A i \in DOMAIN defs :
         defs[i] \in [base : Seq(Nat), transport : {"http", "streamable-http", "stdio"},
                      desired : BOOLEAN]

\* What a naming that is under way may be.
Namings(defs) == UNION {[D -> Seq(Nat)] : D \in SUBSET DOMAIN defs}

\* A candidate begins with the base name, cut to the longest name where it has to be.
LEMMA CandidateName ==
    ASSUME NEW base \in Seq(Nat), NEW suffix \in Seq(Nat), Len(suffix) <= MaxName
    PROVE  /\ SuffixedMCPName(base, suffix) \in Seq(Nat)
           /\ \E k \in 0..Len(base) :
                /\ IsPrefix(SubSeq(base, 1, k), SuffixedMCPName(base, suffix))
                /\ \/ k = Len(base)
                   \/ /\ Len(SuffixedMCPName(base, suffix)) = MaxName
                      /\ MaxName = k + Len(suffix)
  <1> DEFINE k == IF Len(base) + Len(suffix) > MaxName THEN MaxName - Len(suffix) ELSE Len(base)
             cut == SubSeq(base, 1, k)
  <1>1. MaxName \in Nat /\ Len(base) \in Nat /\ Len(suffix) \in Nat
    BY MigrationAssumption
  <1>2. k \in 0..Len(base)
    BY <1>1
  <1>3. k = Len(base) \/ k + Len(suffix) = MaxName
    BY <1>1
  <1>4. SuffixedMCPName(base, suffix) = cut \o suffix
    BY DEF SuffixedMCPName
  <1> HIDE DEF k
  <1>5. cut \in Seq(Nat) /\ Len(cut) = k
    BY <1>1, <1>2
  <1> HIDE DEF cut
  <1>6. /\ cut \o suffix \in Seq(Nat) /\ Len(cut \o suffix) = k + Len(suffix)
        /\ \A m \in 1..k : (cut \o suffix)[m] = cut[m]
    <2>1. /\ cut \o suffix \in Seq(Nat) /\ Len(cut \o suffix) = Len(cut) + Len(suffix)
          /\ \A m \in 1..(Len(cut) + Len(suffix)) :
               (cut \o suffix)[m] = IF m <= Len(cut) THEN cut[m] ELSE suffix[m - Len(cut)]
      BY <1>5, ConcatProperties
    <2>2. \A m \in 1..k : m \in 1..(Len(cut) + Len(suffix)) /\ m <= Len(cut)
      BY <1>1, <1>2, <1>5
    <2> QED  BY <1>5, <2>1, <2>2
  <1>7. SubSeq(cut, 1, k) = cut /\ SubSeq(cut \o suffix, 1, k) = cut
    BY <1>1, <1>2, <1>5, <1>6
  <1>8. IsPrefix(cut, cut \o suffix)
    BY <1>1, <1>2, <1>5, <1>6, <1>7 DEF IsPrefix
  <1> QED  BY <1>2, <1>3, <1>4, <1>6, <1>8 DEF cut

\* All candidates of a definition are of this kind.
LEMMA CandidateNames ==
    ASSUME NEW defs, Definitions(defs), NEW i \in DOMAIN defs,
           NEW k \in DOMAIN Candidates(defs[i], i)
    PROVE  /\ DOMAIN Candidates(defs[i], i) \subseteq Nat
           /\ Candidates(defs[i], i)[k] \in Seq(Nat)
           /\ \E n \in 0..Len(defs[i].base) :
                /\ IsPrefix(SubSeq(defs[i].base, 1, n), Candidates(defs[i], i)[k])
                /\ \/ n = Len(defs[i].base)
                   \/ /\ Len(Candidates(defs[i], i)[k]) = MaxName
                      /\ MaxName <= n + Len(Compact[i]) + 1
  <1> DEFINE suffix == <<Piece(defs[i].transport)>> \o SubSeq(Compact[i], 1, k - 1)
  <1>1. Compact[i] \in Seq(Nat) /\ Len(Compact[i]) < MaxName /\ MaxName \in Nat
    BY MigrationAssumption DEF Definitions
  <1>2. k \in 1..(Len(Compact[i]) + 1) /\ DOMAIN Candidates(defs[i], i) \subseteq Nat
    BY <1>1 DEF Candidates
  <1>3. Piece(defs[i].transport) \in Nat
    BY DEF Piece
  <1>4. SubSeq(Compact[i], 1, k - 1) \in Seq(Nat) /\ Len(SubSeq(Compact[i], 1, k - 1)) = k - 1
    BY <1>1, <1>2
  <1>5. /\ suffix \in Seq(Nat) /\ Len(suffix) <= MaxName
        /\ Len(suffix) \in Nat /\ Len(suffix) <= Len(Compact[i]) + 1
    BY <1>1, <1>2, <1>3, <1>4
  <1>6. Candidates(defs[i], i)[k] = SuffixedMCPName(defs[i].base, suffix)
    BY <1>2 DEF Candidates
  <1>7. defs[i].base \in Seq(Nat)
    BY DEF Definitions
  <1> HIDE DEF suffix
  <1>8. /\ SuffixedMCPName(defs[i].base, suffix) \in Seq(Nat)
        /\ \E n \in 0..Len(defs[i].base) :
             /\ IsPrefix(SubSeq(defs[i].base, 1, n), SuffixedMCPName(defs[i].base, suffix))
             /\ \/ n = Len(defs[i].base)
                \/ /\ Len(SuffixedMCPName(defs[i].base, suffix)) = MaxName
                   /\ MaxName = n + Len(suffix)
    BY <1>5, <1>7, CandidateName
  <1>9. PICK n \in 0..Len(defs[i].base) :
          /\ IsPrefix(SubSeq(defs[i].base, 1, n), Candidates(defs[i], i)[k])
          /\ \/ n = Len(defs[i].base)
             \/ /\ Len(Candidates(defs[i], i)[k]) = MaxName
                /\ MaxName = n + Len(suffix)
    BY <1>6, <1>8
  <1>10. MaxName = n + Len(suffix) => MaxName <= n + Len(Compact[i]) + 1
    BY <1>1, <1>5, <1>7
  <1> QED  BY <1>2, <1>6, <1>8, <1>9, <1>10

\* One renaming leaves the other names and takes a candidate nobody uses, if there is one.
Renames(defs, names, i, new) ==
    /\ new \in Namings(defs)
    /\ \/ new = names
       \/ /\ DOMAIN new = DOMAIN names \cup {i}
          /\ \A j \in DOMAIN names \ {i} : new[j] = names[j]
          /\ \A j \in DOMAIN names : new[i] # names[j]
          /\ \E k \in DOMAIN Candidates(defs[i], i) : new[i] = Candidates(defs[i], i)[k]

\* This is what the loop's body does.
LEMMA RenamesOne ==
    ASSUME NEW defs, Definitions(defs), NEW names \in Namings(defs), NEW i \in DOMAIN defs
    PROVE  Renames(defs, names, i, Rename(defs, names, i))
  <1> DEFINE c    == Candidates(defs[i], i)
             free == {k \in DOMAIN c : c[k] \notin {names[j] : j \in DOMAIN names}}
             new  == Rename(defs, names, i)
  <1>1. CASE free = {}
    BY <1>1 DEF Rename, Renames
  <1>2. CASE free # {}
    <2>1. free \in SUBSET Nat
      BY CandidateNames
    <2>2. Min(free) \in free
      BY <1>2, <2>1, LeastNumber
    <2>3. new = [j \in DOMAIN names \cup {i} |-> IF j = i THEN c[Min(free)] ELSE names[j]]
      BY <1>2 DEF Rename
    <2> DEFINE k == Min(free)
    <2> HIDE DEF k, new
    <2>4. k \in DOMAIN c /\ c[k] \in Seq(Nat) /\ \A j \in DOMAIN names : c[k] # names[j]
      BY <2>2, CandidateNames DEF k
    <2>5. PICK D \in SUBSET DOMAIN defs : names \in [D -> Seq(Nat)]
      BY DEF Namings
    <2> HIDE DEF c
    <2>6. new \in [D \cup {i} -> Seq(Nat)]
      BY <2>3, <2>4, <2>5 DEF k
    <2>7. new \in Namings(defs)
      BY <2>6 DEF Namings
    <2>8. Renames(defs, names, i, new)
      BY <2>3, <2>4, <2>7 DEF k, c, Renames
    <2> QED  BY <2>8 DEF new
  <1> QED  BY <1>1, <1>2

\* The first difference decides.
LEMMA FirstDifference ==
    ASSUME NEW a, NEW b, NEW k \in 0..Len(a), k <= Len(b), \A m \in 1..k : a[m] = b[m],
           \/ k = Len(a) /\ k < Len(b)
           \/ k < Len(a) /\ k < Len(b) /\ a[k + 1] < b[k + 1]
    PROVE  Before(a, b)
  BY DEF Before

\* Names are totally ordered.
LEMMA NamesOrdered ==
    ASSUME NEW a \in Seq(Nat), NEW b \in Seq(Nat)
    PROVE  /\ ~Before(a, a)
           /\ a # b => Before(a, b) \/ Before(b, a)
           /\ \A c \in Seq(Nat) : Before(a, b) /\ Before(b, c) => Before(a, c)
  <1>1. ~Before(a, a)
    BY DEF Before
  <1>2. ASSUME a # b  PROVE Before(a, b) \/ Before(b, a)
    <2> DEFINE differ == {m \in Nat \ {0} : m > Len(a) \/ m > Len(b) \/ a[m] # b[m]}
               m == Min(differ)
    <2>1. Len(a) + 1 \in differ
      OBVIOUS
    <2>2. m \in differ /\ \A n \in differ : m <= n
      BY <2>1, LeastNumber
    <2>3. /\ m \in Nat \ {0}
          /\ m > Len(a) \/ m > Len(b) \/ a[m] # b[m]
          /\ \A n \in 1..(m - 1) : n <= Len(a) /\ n <= Len(b) /\ a[n] = b[n]
      <3> HIDE DEF m
      <3>1. m \in Nat \ {0} /\ (m > Len(a) \/ m > Len(b) \/ a[m] # b[m])
        BY <2>2
      <3>2. \A n \in Nat \ {0} : n \notin differ => n <= Len(a) /\ n <= Len(b) /\ a[n] = b[n]
        OBVIOUS
      <3> HIDE DEF differ
      <3>3. ASSUME NEW n \in 1..(m - 1)  PROVE n \in Nat \ {0} /\ n \notin differ
        <4>1. n \in Nat \ {0} /\ ~(m <= n)
          BY <3>1
        <4> QED  BY <2>2, <4>1
      <3> QED  BY <3>1, <3>2, <3>3
    <2> HIDE DEF m, differ
    <2>4. m - 1 \in 0..Len(a) /\ m - 1 \in 0..Len(b) /\ (m - 1) + 1 = m
      <3>1. CASE m = 1
        BY <3>1
      <3>2. CASE m # 1
        <4>1. m - 1 \in 1..(m - 1)
          BY <2>3, <3>2
        <4> QED  BY <2>3, <4>1
      <3> QED  BY <3>1, <3>2
    <2>5. CASE m > Len(a) /\ m > Len(b)
      <3>1. Len(a) = m - 1 /\ Len(b) = m - 1
        BY <2>3, <2>4, <2>5
      <3>2. a = b
        BY <2>3, <3>1
      <3> QED  BY <1>2, <3>2
    <2>6. CASE m > Len(a) /\ m <= Len(b)
      BY <2>3, <2>4, <2>6 DEF Before
    <2>7. CASE m <= Len(a) /\ m > Len(b)
      BY <2>3, <2>4, <2>7 DEF Before
    <2>8. CASE m <= Len(a) /\ m <= Len(b)
      <3>1. a[m] \in Nat /\ b[m] \in Nat /\ a[m] # b[m]
        BY <2>3, <2>8
      <3>2. a[m] < b[m] \/ b[m] < a[m]
        BY <3>1
      <3>3. PICK k : k = m - 1
        OBVIOUS
      <3>4. /\ k \in 0..Len(a) /\ k \in 0..Len(b) /\ k + 1 = m
            /\ k < Len(a) /\ k < Len(b) /\ k <= Len(a) /\ k <= Len(b)
        BY <2>4, <2>8, <3>3
      <3>5. \A n \in 1..k : a[n] = b[n]
        BY <2>3, <3>3
      <3>6. a[k + 1] < b[k + 1] \/ b[k + 1] < a[k + 1]
        BY <3>2, <3>4
      <3> QED  BY <3>4, <3>5, <3>6, FirstDifference
    <2>9. m \in Nat /\ Len(a) \in Nat /\ Len(b) \in Nat
      BY <2>3
    <2> QED  BY <2>5, <2>6, <2>7, <2>8, <2>9
  <1>3. ASSUME NEW c \in Seq(Nat), Before(a, b), Before(b, c)  PROVE Before(a, c)
    <2>1. PICK k \in 0..Len(a) :
            /\ k <= Len(b) /\ \A m \in 1..k : a[m] = b[m]
            /\ \/ k = Len(a) /\ k < Len(b)
               \/ k < Len(a) /\ k < Len(b) /\ a[k + 1] < b[k + 1]
      BY <1>3 DEF Before
    <2>2. PICK l \in 0..Len(b) :
            /\ l <= Len(c) /\ \A m \in 1..l : b[m] = c[m]
            /\ \/ l = Len(b) /\ l < Len(c)
               \/ l < Len(b) /\ l < Len(c) /\ b[l + 1] < c[l + 1]
      BY <1>3 DEF Before
    <2>3. CASE k < l
      <3>1. k + 1 \in 1..l
        BY <2>3
      <3>2. b[k + 1] = c[k + 1] /\ \A m \in 1..k : a[m] = c[m]
        BY <2>1, <2>2, <2>3, <3>1
      <3> QED  BY <2>1, <2>2, <2>3, <3>2 DEF Before
    <2>4. CASE l < k
      <3>1. l + 1 \in 1..k
        BY <2>4
      <3>2. a[l + 1] = b[l + 1] /\ \A m \in 1..l : a[m] = c[m]
        BY <2>1, <2>2, <2>4, <3>1
      <3>3. l \in 0..Len(a) /\ l < Len(a) /\ l < Len(c) /\ a[l + 1] < c[l + 1]
        BY <2>1, <2>2, <2>4, <3>2
      <3> QED  BY <3>2, <3>3 DEF Before
    <2>5. CASE k = l
      <3>1. \A m \in 1..k : a[m] = c[m]
        BY <2>1, <2>2, <2>5
      <3>2. k < Len(b) /\ k < Len(c) /\ b[k + 1] < c[k + 1] /\ b[k + 1] \in Nat /\ c[k + 1] \in Nat
        BY <2>1, <2>2, <2>5
      <3>3. k <= Len(c)
        BY <3>2
      <3>4. CASE k = Len(a)
        BY <3>1, <3>2, <3>3, <3>4, FirstDifference
      <3>5. CASE k < Len(a) /\ a[k + 1] < b[k + 1]
        <4>1. a[k + 1] \in Nat
          BY <3>5
        <4>2. a[k + 1] < c[k + 1]
          BY <3>2, <3>5, <4>1
        <4> QED  BY <3>1, <3>2, <3>3, <3>5, <4>2, FirstDifference
      <3> QED  BY <2>1, <3>4, <3>5
    <2> QED  BY <2>3, <2>4, <2>5
  <1> QED  BY <1>1, <1>2, <1>3

\* So are definitions, by the order in which they are renamed.
LEMMA DefinitionsOrdered ==
    ASSUME NEW defs, Definitions(defs), NEW i \in DOMAIN defs, NEW j \in DOMAIN defs
    PROVE  /\ ~Sooner(defs, i, i)
           /\ i # j => Sooner(defs, i, j) \/ Sooner(defs, j, i)
           /\ \A k \in DOMAIN defs : Sooner(defs, i, j) /\ Sooner(defs, j, k) => Sooner(defs, i, k)
  <1>1. \A k \in DOMAIN defs : k \in Nat /\ defs[k].base \in Seq(Nat) /\ defs[k].desired \in BOOLEAN
    BY MigrationAssumption DEF Definitions
  <1>2. ~Ahead(defs, i, i) /\ (i # j => Ahead(defs, i, j) \/ Ahead(defs, j, i))
    BY <1>1 DEF Ahead
  <1>3. \A k \in DOMAIN defs : Ahead(defs, i, j) /\ Ahead(defs, j, k) => Ahead(defs, i, k)
    BY <1>1 DEF Ahead
  <1>4. ASSUME NEW k \in DOMAIN defs, Sooner(defs, i, j), Sooner(defs, j, k)
        PROVE  Sooner(defs, i, k)
    BY <1>1, <1>3, <1>4, NamesOrdered DEF Sooner
  <1>5. ~Sooner(defs, i, i)
    BY <1>1, <1>2, NamesOrdered DEF Sooner
  <1>6. i # j => Sooner(defs, i, j) \/ Sooner(defs, j, i)
    BY <1>1, <1>2, NamesOrdered DEF Sooner
  <1> QED  BY <1>4, <1>5, <1>6

\* Every loser has a turn of its own, and there is one for every turn.
LEMMA EveryTurn ==
    ASSUME NEW defs, Definitions(defs)
    PROVE  /\ Cardinality(Losers(defs)) \in Nat
           /\ \A n \in 0..(Cardinality(Losers(defs)) - 1) :
                \E i \in Losers(defs) : Turn(defs, i) = n
  <1> DEFINE L      == Losers(defs)
             N      == Cardinality(L)
             Fore(i) == {j \in L : Sooner(defs, j, i)}
             turn   == [i \in L |-> Turn(defs, i)]
  <1>1. L \subseteq DOMAIN defs /\ IsFiniteSet(L) /\ N \in Nat
    BY FS_Subset, FS_CardinalityType DEF Losers, Definitions
  <1>2. ASSUME NEW i \in L  PROVE /\ IsFiniteSet(Fore(i)) /\ Turn(defs, i) = Cardinality(Fore(i))
                                  /\ Turn(defs, i) \in 0..(N - 1)
    <2>1. Fore(i) \subseteq L /\ IsFiniteSet(Fore(i)) /\ Turn(defs, i) = Cardinality(Fore(i))
      BY <1>1, FS_Subset DEF Turn
    <2>2. Fore(i) # L
      BY <1>1, DefinitionsOrdered
    <2> HIDE DEF Fore, L
    <2>3. Cardinality(Fore(i)) \in Nat /\ Cardinality(Fore(i)) <= N /\ Cardinality(Fore(i)) # N
      BY <1>1, <2>1, <2>2, FS_Subset, FS_CardinalityType
    <2> QED  BY <1>1, <2>1, <2>3
  <1>3. ASSUME NEW i \in L, NEW j \in L, Sooner(defs, i, j)  PROVE Turn(defs, i) < Turn(defs, j)
    <2>1. Fore(i) \subseteq Fore(j) /\ i \in Fore(j) /\ i \notin Fore(i)
      BY <1>1, <1>3, DefinitionsOrdered
    <2> HIDE DEF Fore, L
    <2>2. Cardinality(Fore(i)) <= Cardinality(Fore(j)) /\ Cardinality(Fore(i)) # Cardinality(Fore(j))
      BY <1>2, <2>1, FS_Subset
    <2>3. Cardinality(Fore(i)) \in Nat /\ Cardinality(Fore(j)) \in Nat
      BY <1>2, FS_CardinalityType
    <2> QED  BY <1>2, <2>2, <2>3
  <1>4. turn \in Injection(L, 0..(N - 1))
    <2>1. turn \in [L -> 0..(N - 1)]
      BY <1>2
    <2>2. ASSUME NEW i \in L, NEW j \in L, turn[i] = turn[j]  PROVE i = j
      <3>1. turn[i] = Turn(defs, i) /\ turn[j] = Turn(defs, j)
        OBVIOUS
      <3>2. Turn(defs, i) \in 0..(N - 1) /\ Turn(defs, j) \in 0..(N - 1)
        BY <1>2
      <3>3. i \in DOMAIN defs /\ j \in DOMAIN defs
        BY <1>1
      <3> HIDE DEF turn, L
      <3>4. ~Sooner(defs, i, j) /\ ~Sooner(defs, j, i)
        <4>1. Turn(defs, i) = Turn(defs, j) /\ Turn(defs, i) \in Int
          <5>1. Turn(defs, i) = Turn(defs, j)
            BY <2>2, <3>1, Zenon
          <5>2. 0..(N - 1) \subseteq Int
            BY <1>1
          <5> QED  BY <3>2, <5>1, <5>2, Zenon
        <4>2. ~(Turn(defs, i) < Turn(defs, j)) /\ ~(Turn(defs, j) < Turn(defs, i))
          BY <4>1
        <4> QED  BY <1>3, <4>2
      <3> QED  BY <3>3, <3>4, DefinitionsOrdered
    <2> HIDE DEF turn
    <2> QED  BY <2>1, <2>2 DEF Injection, IsInjective
  <1>5. IsFiniteSet(0..(N - 1)) /\ Cardinality(0..(N - 1)) = N
    BY <1>1, FS_Interval
  <1> HIDE DEF L
  <1>6. turn \in Surjection(L, 0..(N - 1))
    BY <1>4, <1>5, FS_Injection
  <1>7. \A n \in 0..(N - 1) : \E i \in L : turn[i] = n
    BY <1>6 DEF Surjection
  <1> QED  BY <1>1, <1>7 DEF L

\* The loser whose turn it is.
Renamed(defs, n) == CHOOSE i \in Losers(defs) : Turn(defs, i) = n

\* The names after each turn: the loop of assignMCPNames.
LEMMA NamesByTurns ==
    ASSUME NEW defs, Definitions(defs)
    PROVE  LET N == Cardinality(Losers(defs))
           IN  /\ Assigned(defs)[0] = [i \in DOMAIN defs \ Losers(defs) |-> defs[i].base]
               /\ \A n \in 0..N : Assigned(defs)[n] \in Namings(defs)
               /\ \A n \in 0..(N - 1) : /\ Renamed(defs, n) \in Losers(defs)
                                        /\ Assigned(defs)[n + 1] =
                                             Rename(defs, Assigned(defs)[n], Renamed(defs, n))
  <1> DEFINE N     == Cardinality(Losers(defs))
             V     == Namings(defs)
             first == [i \in DOMAIN defs \ Losers(defs) |-> defs[i].base]
             step  == [n \in Nat |-> [v \in V |-> IF n < N THEN Rename(defs, v, Renamed(defs, n)) ELSE v]]
             Def(f) == f = [n \in 0..N |-> IF n = 0 THEN first
                                           ELSE Rename(defs, f[n - 1], Renamed(defs, n - 1))]
  <1>1. N \in Nat /\ \A n \in 0..(N - 1) : Renamed(defs, n) \in Losers(defs)
    BY EveryTurn DEF Renamed
  <1>2. Losers(defs) \subseteq DOMAIN defs
    BY DEF Losers
  <1>3. first \in V
    <2>1. first \in [DOMAIN defs \ Losers(defs) -> Seq(Nat)]
      BY DEF Definitions
    <2> QED  BY <2>1 DEF Namings
  <1> HIDE DEF N, V, first
  <1>4. ASSUME NEW n \in 0..(N - 1), NEW v \in V  PROVE Rename(defs, v, Renamed(defs, n)) \in V
    BY <1>1, <1>2, RenamesOne DEF V, Renames
  <1>5. step \in [Nat -> [V -> V]]
    <2>1. ASSUME NEW n \in Nat, NEW v \in V
          PROVE  (IF n < N THEN Rename(defs, v, Renamed(defs, n)) ELSE v) \in V
      <3>1. n < N => n \in 0..(N - 1)
        BY <1>1
      <3> QED  BY <1>4, <3>1
    <2> QED  BY <2>1
  <1>6. ASSUME NEW n \in 0..(N - 1), NEW v \in V
        PROVE  n \in Nat /\ step[n][v] = Rename(defs, v, Renamed(defs, n))
    BY <1>1
  <1> HIDE DEF step
  <1>7. PICK f : Iterates(f, V, first, step)
    BY <1>3, <1>5, Recursion
  <1>8. \E g : Def(g)
    <2> DEFINE g == [n \in 0..N |-> f[n]]
    <2>1. ASSUME NEW n \in 0..N
          PROVE  g[n] = IF n = 0 THEN first ELSE Rename(defs, g[n - 1], Renamed(defs, n - 1))
      <3>1. CASE n = 0
        BY <1>7, <3>1 DEF Iterates
      <3>2. CASE n # 0
        <4>1. n - 1 \in 0..(N - 1) /\ n - 1 \in 0..N /\ n - 1 \in Nat /\ (n - 1) + 1 = n
          BY <1>1, <3>2
        <4>2. f[n] = step[n - 1][f[n - 1]] /\ f[n - 1] \in V
          BY <1>7, <4>1 DEF Iterates
        <4>3. f[n] = Rename(defs, f[n - 1], Renamed(defs, n - 1))
          BY <1>6, <4>1, <4>2
        <4> QED  BY <3>2, <4>1, <4>3
      <3> QED  BY <3>1, <3>2
    <2>2. Def(g)
      BY <2>1
    <2> QED  BY <2>2
  <1>9. Assigned(defs) = CHOOSE g : Def(g)
    BY DEF Assigned, Renamed, N, first
  <1>10. Def(Assigned(defs))
    BY <1>8, <1>9
  <1>11. Assigned(defs)[0] = first
    BY <1>1, <1>10
  <1>12. ASSUME NEW n \in 0..(N - 1)
         PROVE  Assigned(defs)[n + 1] = Rename(defs, Assigned(defs)[n], Renamed(defs, n))
    <2>1. n + 1 \in 0..N /\ n + 1 # 0 /\ (n + 1) - 1 = n
      BY <1>1
    <2> QED  BY <1>10, <2>1
  <1>13. ASSUME NEW n \in 0..N  PROVE Assigned(defs)[n] \in V
    <2> DEFINE S == {m \in Nat : m <= N => Assigned(defs)[m] \in V}
    <2>1. 0 \in S
      BY <1>3, <1>11
    <2>2. ASSUME NEW m \in Nat, m \in S  PROVE m + 1 \in S
      <3>1. m + 1 <= N => m \in 0..(N - 1) /\ m <= N
        BY <1>1
      <3> QED  BY <1>4, <1>12, <2>2, <3>1
    <2> HIDE DEF S
    <2>3. n \in S /\ n <= N
      BY <1>1, <2>1, <2>2, AllNumbers
    <2> QED  BY <2>3 DEF S
  <1> QED  BY <1>1, <1>11, <1>12, <1>13 DEF N, V, first

\* Names given so far: those who keep their base name have it, the others a candidate,
\* and no two the same.
Given(defs, names) ==
    /\ DOMAIN defs \ Losers(defs) \subseteq DOMAIN names /\ DOMAIN names \subseteq DOMAIN defs
    /\ \A i \in DOMAIN defs \ Losers(defs) : names[i] = defs[i].base
    /\ \A i \in DOMAIN names \cap Losers(defs) :
         \E k \in DOMAIN Candidates(defs[i], i) : names[i] = Candidates(defs[i], i)[k]
    /\ \A i, j \in DOMAIN names : names[i] = names[j] => i = j

\* Of two definitions with the same base name only one keeps it.
LEMMA OneKeeper ==
    ASSUME NEW defs, Definitions(defs), NEW i \in DOMAIN defs \ Losers(defs),
           NEW j \in DOMAIN defs \ Losers(defs), defs[i].base = defs[j].base
    PROVE  i = j
  <1> SUFFICES ASSUME i # j  PROVE FALSE
    OBVIOUS
  <1>1. Ahead(defs, i, j) /\ Ahead(defs, j, i)
    BY DEF Losers, KeepsName
  <1>2. i \in Nat /\ j \in Nat
    BY MigrationAssumption DEF Definitions
  <1> QED  BY <1>1, <1>2 DEF Ahead

\* One of them does, and it is wanted if any of them is.
LEMMA SomeKeeper ==
    ASSUME NEW defs, Definitions(defs), NEW i \in DOMAIN defs
    PROVE  \E j \in DOMAIN defs \ Losers(defs) :
             defs[j].base = defs[i].base /\ (defs[i].desired => defs[j].desired)
  <1> DEFINE same   == {j \in DOMAIN defs : defs[j].base = defs[i].base}
             wanted == {j \in same : defs[j].desired}
  <1>1. same \in SUBSET Nat /\ wanted \in SUBSET Nat /\ i \in same
    BY MigrationAssumption DEF Definitions
  <1>2. \A j \in DOMAIN defs : defs[j].desired \in BOOLEAN
    BY DEF Definitions
  <1>3. CASE wanted # {}
    <2> DEFINE j == Min(wanted)
    <2>1. j \in wanted /\ \A k \in wanted : j <= k
      BY <1>1, <1>3, LeastNumber
    <2> HIDE DEF j
    <2>2. ASSUME NEW k \in DOMAIN defs \ {j}, defs[k].base = defs[j].base
          PROVE  Ahead(defs, j, k)
      <3>1. k \in same /\ k \in Nat /\ j \in Nat /\ defs[j].desired
        BY <1>1, <2>1, <2>2
      <3>2. CASE defs[k].desired
        <4>1. j <= k /\ j # k
          BY <2>1, <2>2, <3>1, <3>2
        <4> QED  BY <3>1, <3>2, <4>1 DEF Ahead
      <3>3. CASE ~defs[k].desired
        BY <3>1, <3>3 DEF Ahead
      <3> QED  BY <3>2, <3>3
    <2> QED  BY <2>1, <2>2 DEF Losers, KeepsName
  <1>4. CASE wanted = {}
    <2> DEFINE j == Min(same)
    <2>1. j \in same /\ \A k \in same : j <= k
      BY <1>1, LeastNumber
    <2> HIDE DEF j
    <2>2. \A k \in same : ~defs[k].desired
      BY <1>4
    <2>3. ASSUME NEW k \in DOMAIN defs \ {j}, defs[k].base = defs[j].base
          PROVE  Ahead(defs, j, k)
      <3>1. k \in same /\ k \in Nat /\ j \in Nat /\ ~defs[j].desired /\ ~defs[k].desired
        BY <1>1, <2>1, <2>2, <2>3
      <3>2. j <= k /\ j # k
        BY <2>1, <2>3, <3>1
      <3> QED  BY <1>2, <2>1, <3>1, <3>2 DEF Ahead
    <2> QED  BY <1>1, <2>1, <2>2, <2>3 DEF Losers, KeepsName
  <1> QED  BY <1>3, <1>4

\* After every turn.
LEMMA GivenByTurns ==
    ASSUME NEW defs, Definitions(defs)
    PROVE  Given(defs, AssignMCPNames(defs))
  <1> DEFINE N  == Cardinality(Losers(defs))
             A  == Assigned(defs)
             S  == {n \in Nat : n <= N => Given(defs, A[n])}
  <1>1. N \in Nat
    BY EveryTurn
  <1>2. /\ A[0] = [i \in DOMAIN defs \ Losers(defs) |-> defs[i].base]
        /\ \A n \in 0..N : A[n] \in Namings(defs)
        /\ \A n \in 0..(N - 1) : /\ Renamed(defs, n) \in Losers(defs)
                                 /\ A[n + 1] = Rename(defs, A[n], Renamed(defs, n))
    BY NamesByTurns
  <1> HIDE DEF N, A
  <1>3. 0 \in S
    <2>1. Given(defs, A[0])
      BY <1>2, OneKeeper DEF Given
    <2> QED  BY <2>1
  <1>4. ASSUME NEW n \in Nat, n \in S  PROVE n + 1 \in S
    <2> SUFFICES ASSUME n + 1 <= N  PROVE Given(defs, A[n + 1])
      OBVIOUS
    <2>1. n \in 0..N /\ n \in 0..(N - 1) /\ n <= N
      BY <1>1
    <2>2. PICK old, i, new : old = A[n] /\ i = Renamed(defs, n) /\ new = A[n + 1]
      OBVIOUS
    <2>3. /\ old \in Namings(defs) /\ i \in Losers(defs) /\ new = Rename(defs, old, i)
          /\ Given(defs, old)
      BY <1>2, <1>4, <2>1, <2>2
    <2>4. i \in DOMAIN defs
      BY <2>3 DEF Losers
    <2>5. Renames(defs, old, i, new)
      BY <2>3, <2>4, RenamesOne
    <2>6. Given(defs, new)
      BY <2>3, <2>4, <2>5 DEF Given, Renames
    <2> QED  BY <2>2, <2>6
  <1> HIDE DEF S
  <1>5. N \in S
    BY <1>1, <1>3, <1>4, AllNumbers
  <1>6. Given(defs, A[N])
    BY <1>1, <1>5 DEF S
  <1> QED  BY <1>6 DEF AssignMCPNames, N, A

\* What NamesKept says of these definitions and names.
WellNamed(defs, names) ==
    /\ \A i, j \in DOMAIN defs : names[i] = names[j] => i = j
    /\ \A i \in DOMAIN defs :
         \E j \in DOMAIN defs : /\ names[j] = defs[i].base /\ defs[j].base = defs[i].base
                                /\ defs[i].desired => defs[j].desired
    /\ \A i \in DOMAIN defs :
         \E k \in 0..Len(defs[i].base) :
             /\ IsPrefix(SubSeq(defs[i].base, 1, k), names[i])
             /\ \/ k = Len(defs[i].base)
                \/ Len(names[i]) = MaxName /\ MaxName <= k + Len(Compact[i]) + 1

\* The naming of any configuration, if it succeeds, is like that.
LEMMA NamesAssigned ==
    ASSUME NEW defs, Definitions(defs), DOMAIN AssignMCPNames(defs) = DOMAIN defs
    PROVE  WellNamed(defs, AssignMCPNames(defs))
  <1> DEFINE names == AssignMCPNames(defs)
  <1>1. Given(defs, names)
    BY GivenByTurns
  <1> HIDE DEF names
  <1>2. \A i, j \in DOMAIN defs : names[i] = names[j] => i = j
    BY <1>1 DEF Given, names
  <1>3. ASSUME NEW i \in DOMAIN defs
        PROVE  \E j \in DOMAIN defs : /\ names[j] = defs[i].base /\ defs[j].base = defs[i].base
                                      /\ defs[i].desired => defs[j].desired
    <2>1. PICK j \in DOMAIN defs \ Losers(defs) :
            defs[j].base = defs[i].base /\ (defs[i].desired => defs[j].desired)
      BY SomeKeeper
    <2>2. names[j] = defs[j].base
      BY <1>1 DEF Given
    <2> QED  BY <2>1, <2>2
  <1>4. ASSUME NEW i \in DOMAIN defs
        PROVE  \E k \in 0..Len(defs[i].base) :
                 /\ IsPrefix(SubSeq(defs[i].base, 1, k), names[i])
                 /\ \/ k = Len(defs[i].base)
                    \/ Len(names[i]) = MaxName /\ MaxName <= k + Len(Compact[i]) + 1
    <2>1. CASE i \in Losers(defs)
      <3>1. PICK k \in DOMAIN Candidates(defs[i], i) : names[i] = Candidates(defs[i], i)[k]
        BY <1>1, <2>1 DEF Given, names
      <3> QED  BY <3>1, CandidateNames
    <2>2. CASE i \notin Losers(defs)
      <3>1. names[i] = defs[i].base /\ defs[i].base \in Seq(Nat)
        BY <1>1, <2>2 DEF Given, Definitions
      <3>2. Len(defs[i].base) \in 0..Len(defs[i].base)
            /\ SubSeq(defs[i].base, 1, Len(defs[i].base)) = defs[i].base
        BY <3>1
      <3>3. IsPrefix(defs[i].base, names[i])
        BY <3>1, <3>2 DEF IsPrefix
      <3> QED  BY <3>2, <3>3
    <2> QED  BY <2>1, <2>2
  <1> QED  BY <1>2, <1>3, <1>4 DEF names, WellNamed

\* The legacy side always holds definitions of a configuration that can be met.
Met == legacy.servers \in {l.servers : l \in Legacies \cup Drafts}

\* assignMCPNames gives every definition a name of its own, leaves each name to one that a
\* client wants if there is one, and cuts the others by no more than the longest suffix needs
\* (suffixedMCPName): for any number of definitions, names, ids and length of names.
THEOREM ImportsKeepNames == MigSpec => []NamesKept
  <1>1. MigInit => Met
    BY DEF MigInit, Met
  <1>2. MigInv /\ Met /\ [MigNext]_migVars => Met'
    <2> SUFFICES ASSUME MigInv, Met, [MigNext]_migVars  PROVE Met'
      OBVIOUS
    <2>1. CASE UNCHANGED legacy
      BY <2>1 DEF Met
    <2>2. CASE LegacyEdit
      BY <2>2 DEF LegacyEdit, Met
    <2>3. CASE RotateLegacySecret
      <3>1. legacy'.servers = legacy.servers
        BY <2>3 DEF RotateLegacySecret, MigInv, IsSnapshot
      <3> QED  BY <3>1 DEF Met
    <2>4. CASE \E p \in Migrators : DryRun(p) \/ ApplyStep(p) \/ ToolStops(p)
      <3>1. UNCHANGED legacy
        BY <2>4 DEF DryRun, ApplyStep, ToolStops, Migrate, NeedsBootstrap, BootstrapCheck,
             BootstrapAccount, BootstrapEnvironment, ImportLegacyConfig,
             VerifyConfigImportAcceptance, ReadAnswer
      <3> QED  BY <2>1, <3>1
    <2>5. CASE \E p \in Migrators, expected \in reviews : StartApply(p, expected)
      BY <2>1, <2>5 DEF StartApply
    <2>6. CASE ApplicationRuns \/ UNCHANGED migVars
      BY <2>1, <2>6 DEF ApplicationRuns, migVars
    <2> QED  BY <2>2, <2>3, <2>4, <2>5, <2>6 DEF MigNext
  <1>3. Met => NamesKept
    <2> SUFFICES ASSUME Met  PROVE NamesKept
      OBVIOUS
    <2>1. PICK defs : defs = legacy.servers
      OBVIOUS
    <2>2. PICK l \in Legacies \cup Drafts : defs = l.servers
      BY <2>1 DEF Met
    <2>3. Definitions(defs)
      BY <2>2, MigrationAssumption DEF IsSnapshot, Definitions
    <2>4. MCPNames[defs] = AssignMCPNames(defs)
      BY <2>1 DEF MCPNames, Met
    <2>5. PICK names : names = MCPNames[defs]
      OBVIOUS
    <2>6. DOMAIN names = DOMAIN defs => WellNamed(defs, names)
      BY <2>3, <2>4, <2>5, NamesAssigned
    <2> QED  BY <2>1, <2>5, <2>6 DEF NamesKept, WellNamed
  <1> QED  BY <1>1, <1>2, <1>3, MigrationInvariant, PTL DEF MigSpec
-----------------------------------------------------------------------------
(* The types of the five parts *)

\* Contents are within their bound, those confirmed by an import included, and a stored
\* request is never wider than what was asked for: what an attempt is at is in it.
SkillShape ==
    /\ native \in [Entries -> Contents] /\ scanned \in [Entries -> Contents]
    /\ shelf \in [Entries -> Contents]
    /\ skillJob # NoJob => /\ skillJob.rev \in [Entries -> Contents]
                           /\ skillJob.request # {} /\ skillJob.request \subseteq skillJob.asked
    /\ skillJob.at = "running" =>
         skillJob.left \cup skillJob.chunk \cup skillJob.failed \subseteq skillJob.request

\* A step is a token's number and the number of the attempt.
MCPShape ==
    /\ nativeMCP \in Contents /\ IsFiniteSet(mcpTokens)
    /\ mcpTokens \subseteq [number : Nat, content : Contents, used : BOOLEAN]
    /\ mcpJob # NoJob => "step" \in DOMAIN mcpJob /\ mcpJob.step \in Nat \X Nat
    /\ \A s \in servers : s.step \in Nat \X Nat

\* No step of an import of Skills widens its request.
LEMMA SkillShapeNext ==
    ASSUME SkillInv, SkillShape, [IntakeNext]_intakeVars
    PROVE  SkillShape'
  <1>0. 0 \in Contents /\ 1 \in Contents /\ 1..MaxContent \subseteq Contents
    BY IntakeAssumption DEF Contents
  <1>1. CASE UserEditsSkills \/ ScanTarget \/ UploadSkill
    <2>1. UNCHANGED skillJob
      BY <1>1 DEF UserEditsSkills, ScanTarget, UploadSkill
    <2>2. /\ native' \in [Entries -> Contents] /\ scanned' \in [Entries -> Contents]
          /\ shelf' \in [Entries -> Contents]
      BY <1>0, <1>1 DEF UserEditsSkills, ScanTarget, UploadSkill, SkillShape
    <2> QED  BY <2>1, <2>2 DEF SkillShape
  <1>2. ASSUME NEW items \in SUBSET Entries, CreateImport(items)
        PROVE  SkillShape'
    BY <1>2 DEF CreateImport, QueuedJob, SkillShape
  <1>3. CASE RetryFailedItems
    <2>1. skillJob # NoJob
      BY <1>3 DEF RetryFailedItems, NoJob
    <2> QED  BY <1>3, <2>1 DEF RetryFailedItems, QueuedJob, SkillShape
  <1>4. CASE StopDuringImport
    <2>1. skillJob # NoJob
      BY <1>4 DEF StopDuringImport, NoJob
    <2> QED  BY <1>4, <2>1 DEF StopDuringImport, Requeued, SkillShape
  <1>5. CASE StartImport
    <2>1. skillJob # NoJob
      BY <1>5 DEF StartImport, NoJob
    <2> QED  BY <1>5, <2>1 DEF StartImport, SkillShape
  <1>6. CASE FinishImport
    <2>1. skillJob # NoJob
      BY <1>6 DEF FinishImport, NoJob
    <2> QED  BY <1>6, <2>1 DEF FinishImport, SkillShape
  <1>7. CASE ExportChunk
    <2>1. skillJob \in WorkShape("running") /\ skillJob # NoJob
      BY <1>7 DEF ExportChunk, SkillInv, QueuedShape, WorkShape, EndedShape, NoJob
    <2>2. PICK items \in SUBSET skillJob.left :
            skillJob' = [skillJob EXCEPT !.left = @ \ items, !.chunk = Exported(items),
                                         !.failed = @ \cup (items \ Exported(items))]
      BY <1>7 DEF ExportChunk
    <2>3. Exported(items) \subseteq items
      BY DEF Exported
    <2>4. /\ skillJob'.rev = skillJob.rev /\ skillJob'.request = skillJob.request
          /\ skillJob'.asked = skillJob.asked
          /\ skillJob'.left \cup skillJob'.chunk \cup skillJob'.failed
               \subseteq skillJob.left \cup skillJob.failed
      BY <2>1, <2>2, <2>3 DEF WorkShape
    <2>5. UNCHANGED <<native, scanned, shelf>> /\ skillJob.at = "running"
      BY <1>7 DEF ExportChunk
    <2> QED  BY <2>1, <2>4, <2>5 DEF SkillShape
  <1>8. ASSUME NEW e \in Entries, CommitItem(e) \/ ItemFails(e)
        PROVE  SkillShape'
    <2>1. skillJob.at = "running" /\ e \in skillJob.chunk
      BY <1>8 DEF CommitItem, ItemFails
    <2>2. skillJob \in WorkShape("running") /\ skillJob # NoJob
      BY <2>1 DEF SkillInv, QueuedShape, WorkShape, EndedShape, NoJob
    <2>3. \/ skillJob' = [skillJob EXCEPT !.chunk = @ \ {e}, !.good = @ \cup {e}]
          \/ skillJob' = [skillJob EXCEPT !.chunk = @ \ {e}, !.failed = @ \cup {e}]
      BY <1>8 DEF CommitItem, ItemFails
    <2>4. /\ skillJob'.rev = skillJob.rev /\ skillJob'.request = skillJob.request
          /\ skillJob'.asked = skillJob.asked
          /\ skillJob'.left \cup skillJob'.chunk \cup skillJob'.failed
               \subseteq skillJob.left \cup skillJob.chunk \cup skillJob.failed
      <3>1. CASE skillJob' = [skillJob EXCEPT !.chunk = @ \ {e}, !.good = @ \cup {e}]
        BY <2>2, <3>1 DEF WorkShape
      <3>2. CASE skillJob' = [skillJob EXCEPT !.chunk = @ \ {e}, !.failed = @ \cup {e}]
        <4>1. /\ skillJob'.rev = skillJob.rev /\ skillJob'.request = skillJob.request
              /\ skillJob'.asked = skillJob.asked /\ skillJob'.left = skillJob.left
              /\ skillJob'.chunk = skillJob.chunk \ {e}
              /\ skillJob'.failed = skillJob.failed \cup {e}
          BY <2>2, <3>2 DEF WorkShape
        <4> QED  BY <2>1, <4>1
      <3> QED  BY <2>3, <3>1, <3>2
    <2>5. UNCHANGED <<native, scanned>> /\ shelf' \in [Entries -> Contents]
      BY <1>8, <2>2 DEF CommitItem, ItemFails, SkillShape
    <2> QED  BY <2>1, <2>2, <2>4, <2>5 DEF SkillShape
  <1>9. CASE NarrowRequest
    <2>1. skillJob \in WorkShape("running") /\ skillJob # NoJob /\ skillJob.at = "running"
      BY <1>9 DEF NarrowRequest, SkillInv, QueuedShape, WorkShape, EndedShape, NoJob
    <2>2. UNCHANGED <<native, scanned, shelf>>
      BY <1>9 DEF NarrowRequest
    <2>3. Narrowed(skillJob) # {} /\ Narrowed(skillJob) \subseteq skillJob.request
      BY <2>1 DEF Narrowed, SkillShape
    <2>4. /\ skillJob'.rev = skillJob.rev /\ skillJob'.asked = skillJob.asked
          /\ skillJob'.at = "narrowed"
          /\ skillJob'.request = skillJob.request \/ skillJob'.request = Narrowed(skillJob)
      BY <1>9, <2>1 DEF NarrowRequest, WorkShape
    <2> QED  BY <2>1, <2>2, <2>3, <2>4 DEF SkillShape
  <1>10. CASE UNCHANGED skillVars
    BY <1>10 DEF skillVars, SkillShape
  <1> QED
    BY <1>1, <1>2, <1>3, <1>4, <1>5, <1>6, <1>7, <1>8, <1>9, <1>10
    DEF IntakeNext, SkillStep, ImportLocalSkillBatch, ImportLocalSkill, MCPStep, UserEditsMCP,
        PreflightLocalMCPImport, CreateLocalMCPImportOperation, RetryMCPImport, CaptureMCP,
        SaveCaptured, FinishMCPImport, CaptureFails, StopDuringMCPImport, RenameServer, intakeVars

\* Every step of an import of MCP servers has a token and an attempt.
LEMMA MCPShapeNext ==
    ASSUME ServerInv, MCPShape, [IntakeNext]_intakeVars
    PROVE  MCPShape'
  <1>1. CASE UNCHANGED mcpVars
    BY <1>1 DEF mcpVars, MCPShape
  <1>2. CASE UserEditsMCP
    BY <1>2 DEF UserEditsMCP, MCPShape
  <1>3. CASE PreflightLocalMCPImport
    <2> DEFINE new == [number |-> Cardinality(mcpTokens) + 1, content |-> nativeMCP, used |-> FALSE]
    <2>1. Cardinality(mcpTokens) \in Nat
      BY FS_CardinalityType DEF MCPShape
    <2>2. new \in [number : Nat, content : Contents, used : BOOLEAN]
      BY <2>1 DEF MCPShape
    <2>3. mcpTokens' = mcpTokens \cup {new} /\ UNCHANGED <<nativeMCP, mcpJob, servers>>
      BY <1>3 DEF PreflightLocalMCPImport
    <2> HIDE DEF new
    <2>4. IsFiniteSet(mcpTokens')
      BY <2>3, FS_AddElement DEF MCPShape
    <2> QED  BY <2>2, <2>3, <2>4 DEF MCPShape
  <1>4. ASSUME NEW token \in mcpTokens, CreateLocalMCPImportOperation(token)
        PROVE  MCPShape'
    <2> DEFINE new == [token EXCEPT !.used = TRUE]
    <2>1. /\ token \in [number : Nat, content : Contents, used : BOOLEAN]
          /\ new \in [number : Nat, content : Contents, used : BOOLEAN]
      BY DEF MCPShape
    <2>2. mcpTokens' = (mcpTokens \ {token}) \cup {new} /\ UNCHANGED <<nativeMCP, servers>>
      BY <1>4 DEF CreateLocalMCPImportOperation
    <2> HIDE DEF new
    <2>3. IsFiniteSet(mcpTokens')
      BY <2>2, FS_AddElement, FS_RemoveElement DEF MCPShape
    <2>4. "step" \in DOMAIN mcpJob' /\ mcpJob'.step = <<token.number, 1>>
      BY <1>4 DEF CreateLocalMCPImportOperation
    <2>5. mcpJob'.step \in Nat \X Nat
      BY <2>1, <2>4
    <2> QED  BY <2>1, <2>2, <2>3, <2>4, <2>5 DEF MCPShape
  <1>5. CASE RetryMCPImport
    <2>1. mcpJob # NoJob
      BY <1>5 DEF RetryMCPImport, NoJob
    <2>2. mcpJob.step \in Nat \X Nat
      BY <2>1 DEF MCPShape
    <2>3. "step" \in DOMAIN mcpJob' /\ mcpJob'.step = <<mcpJob.step[1], mcpJob.step[2] + 1>>
      BY <1>5 DEF RetryMCPImport
    <2>4. mcpJob'.step \in Nat \X Nat
      BY <2>2, <2>3
    <2> QED  BY <1>5, <2>3, <2>4 DEF RetryMCPImport, MCPShape
  <1>6. CASE CaptureMCP \/ CaptureFails \/ FinishMCPImport \/ StopDuringMCPImport
    <2>1. mcpJob # NoJob
      BY <1>6 DEF CaptureMCP, CaptureFails, FinishMCPImport, StopDuringMCPImport, NoJob
    <2>2. "step" \in DOMAIN mcpJob' /\ mcpJob'.step = mcpJob.step
      BY <1>6, <2>1 DEF CaptureMCP, CaptureFails, FinishMCPImport, StopDuringMCPImport, EndMCP, MCPShape
    <2>3. UNCHANGED <<nativeMCP, mcpTokens, servers>>
      BY <1>6 DEF CaptureMCP, CaptureFails, FinishMCPImport, StopDuringMCPImport
    <2> QED  BY <2>1, <2>2, <2>3 DEF MCPShape
  <1>7. CASE RenameServer
    <2>1. PICK s \in servers : servers' = (servers \ {s}) \cup {[s EXCEPT !.renamed = TRUE]}
      BY <1>7 DEF RenameServer
    <2>2. [s EXCEPT !.renamed = TRUE].step = s.step
      BY DEF ServerInv
    <2>3. \A r \in servers' : r.step \in Nat \X Nat
      BY <2>1, <2>2 DEF MCPShape
    <2> QED  BY <1>7, <2>3 DEF RenameServer, MCPShape
  <1>8. CASE SaveCaptured
    <2>1. mcpJob # NoJob
      BY <1>8 DEF SaveCaptured, NoJob
    <2>2. "step" \in DOMAIN mcpJob' /\ mcpJob'.step = mcpJob.step /\ mcpJob.step \in Nat \X Nat
      BY <1>8, <2>1 DEF SaveCaptured, EndMCP, MCPShape
    <2>3. \A r \in servers' : r.step \in Nat \X Nat
      <3>1. \A s \in servers : s.step # mcpJob.step
        BY <1>8 DEF SaveCaptured, ServerInv
      <3>2. \/ UNCHANGED servers
            \/ servers' = servers \cup {[step |-> mcpJob.step, token |-> mcpJob.token, saves |-> 1,
                                         renamed |-> FALSE]}
        BY <1>8, <3>1 DEF SaveCaptured, Saved
      <3> QED  BY <2>2, <3>2 DEF MCPShape
    <2>4. UNCHANGED <<nativeMCP, mcpTokens>>
      BY <1>8 DEF SaveCaptured
    <2> QED  BY <2>2, <2>3, <2>4 DEF MCPShape
  <1> QED
    BY <1>1, <1>2, <1>3, <1>4, <1>5, <1>6, <1>7, <1>8
    DEF IntakeNext, MCPStep, SkillStep, UserEditsSkills, ScanTarget, UploadSkill,
        ImportLocalSkillBatch, ImportLocalSkill, CreateImport, RetryFailedItems,
        StartImport, ExportChunk, NarrowRequest, FinishImport, CommitItem, ItemFails,
        StopDuringImport, intakeVars

\* What the types of an import rest on.
LEMMA ShapeInit ==
    ASSUME IntakeInit
    PROVE  SkillShape /\ MCPShape
  <1>1. 0 \in Contents /\ 1 \in Contents
    BY IntakeAssumption DEF Contents
  <1>2. IsFiniteSet({})
    BY FS_EmptySet
  <1> QED  BY <1>1, <1>2 DEF IntakeInit, SkillShape, MCPShape, NoJob

\* A cursor is of a boot there has been.
LEMMA TelTyped ==
    ASSUME TelInv
    PROVE  TelTypeOK
  <1>1. ASSUME NEW s \in Upstreams
        PROVE  cursors[s] \in [boot : 0..boot, seq : Nat]
    <2>1. cursors[s] \in Cursor /\ cursors[s].boot <= boot /\ boot \in Nat
      BY DEF TelInv, TelType, Reached
    <2> QED  BY <2>1 DEF Cursor
  <1>2. cursors \in [Upstreams -> [boot : 0..boot, seq : Nat]]
    BY <1>1 DEF TelInv, TelType
  <1>3. pull.at \in {"idle", "queued", "asking", "drained", "ingested"}
    BY DEF TelInv, TelType
  <1> QED  BY <1>2, <1>3 DEF TelInv, TelType, TelTypeOK

\* A current version is one the Library holds.
LibraryShape ==
    /\ held \in [Catalog -> SUBSET (1..MaxVersion)] /\ required \subseteq Catalog
    /\ \A s \in Catalog : current[s] \in held[s] \cup {0}

\* ImportSkill and the import of a bundle hold a version before they make it current.
LEMMA LibraryShapeNext ==
    ASSUME ProfInv, LibraryShape, [ProfNext]_profVars
    PROVE  LibraryShape'
  <1>1. CASE UNCHANGED libraryVars
    BY <1>1 DEF libraryVars, LibraryShape
  <1>2. ASSUME NEW s \in Catalog, ImportSkill(s)
        PROVE  LibraryShape'
    <2>1. current \in [Catalog -> 0..MaxVersion]
      BY DEF ProfInv, ProfType, Pins
    <2>2. PICK v \in 1..MaxVersion : /\ current' = [current EXCEPT ![s] = v]
                                     /\ held' = [held EXCEPT ![s] = @ \cup {v}]
      BY <1>2 DEF ImportSkill
    <2>3. required' = required
      BY <1>2 DEF ImportSkill
    <2> QED  BY <2>1, <2>2, <2>3 DEF LibraryShape
  <1>3. ASSUME NEW s \in Catalog, UpdateSkillTags(s)
        PROVE  LibraryShape'
    BY <1>3 DEF UpdateSkillTags, LibraryShape
  <1>4. ASSUME NEW b \in Parcels, Imported(b)
        PROVE  LibraryShape'
    <2>1. b.pins \in [Catalog -> 0..MaxVersion] /\ MaxVersion \in Nat
      BY ProfileAssumption
    <2>2. \A s \in Catalog : b.pins[s] # 0 => b.pins[s] \in 1..MaxVersion
      BY <2>1
    <2>3. /\ held' = [s \in Catalog |-> IF b.pins[s] = 0 THEN held[s] ELSE held[s] \cup {b.pins[s]}]
          /\ current' = [s \in Catalog |-> IF current[s] = 0 THEN b.pins[s] ELSE current[s]]
          /\ required' = required
      BY <1>4 DEF Imported
    <2> QED  BY <2>2, <2>3 DEF LibraryShape
  <1>5. ASSUME NEW i \in DOMAIN parcelTokens, ImportAsNew(i) \/ ImportOverExisting(i)
        PROVE  LibraryShape'
    <2>1. parcelTokens[i] \in Preview
      BY DEF ProfInv, ProfType
    <2>2. parcelTokens[i].parcel \in Parcels
      BY <2>1 DEF Preview
    <2>3. Imported(parcelTokens[i].parcel)
      BY <1>5 DEF ImportAsNew, ImportOverExisting, ParcelSaved
    <2> QED  BY <1>4, <2>2, <2>3
  <1> QED
    BY <1>1, <1>2, <1>3, <1>5
    DEF ProfNext, ReadProfile, SaveProfile, RefreshProfile, GiveUp, RestoreArchivedProfile,
        CloneProfile, SavedFrom, CreateProfile, AdoptRestoredTarget, TargetRestored, ArchiveProfile,
        PurgeProfile, ProfilePreflight, ResolveRevision, ResolvePins, CreatePreflightConfirmation,
        PreflightFails, TokenExpires, CreateProfileSkillApplyOperation, RetryFailedTargets,
        TargetLands, TargetFails, PreviewProfileBundle, ConfirmDuplicate, profVars

\* What the types of Profiles rest on.
LEMMA ProfTyped ==
    ASSUME ProfInv, LibraryShape
    PROVE  ProfTypeOK
  <1>1. \A p \in ProfileIds : profiles[p].rev > 0 =>
          Len(revisions[p]) = profiles[p].rev /\ revisions[p][profiles[p].rev] = profiles[p].pins
    BY DEF ProfInv, Revised
  <1>2. \A i \in DOMAIN tokens : tokens[i].host \in Hosts /\ tokens[i].pins \in Pins
    BY TokenFacts DEF ProfInv
  <1> QED  BY <1>1, <1>2 DEF LibraryShape, ProfTypeOK

\* The first version is held.
LEMMA LibraryShapeInit ==
    ASSUME ProfInit
    PROVE  LibraryShape
  <1>1. First(Catalog) \in Catalog /\ 1 \in 1..MaxVersion
    BY ProfileAssumption DEF First
  <1>2. /\ current = [Nothing EXCEPT ![First(Catalog)] = 1]
        /\ held = [k \in Catalog |-> IF k = First(Catalog) THEN {1} ELSE {}]
        /\ required = {}
    BY DEF ProfInit
  <1> QED  BY <1>1, <1>2 DEF Nothing, LibraryShape

\* A marker is there exactly when a configuration is.
LEMMA MigTyped ==
    ASSUME MigInv
    PROVE  MigTypeOK
  <1>1. legacy.sound \in BOOLEAN /\ DOMAIN legacy.servers \subseteq LegacyIds
    BY DEF MigInv, IsSnapshot
  <1>2. \A p \in Migrators : tool[p].at \in Stages \cup {"idle", "done"}
    BY DEF MigInv, Invocation, Carries, Resting
  <1>3. \A plan : SourceFingerprint(plan) # <<>>
    BY DEF SourceFingerprint
  <1>4. (dest.content = NoPlan) = (dest.marker = <<>>)
    BY <1>3 DEF MigInv, Destination
  <1> QED  BY <1>1, <1>2, <1>4 DEF MigInv, Destination, MigTypeOK, Stages

\* Accepted revisions and the ones proposals name exist.
LEMMA GovTyped ==
    ASSUME GovInv
    PROVE  GovTypeOK
  <1>1. /\ relay.current \in 1..Len(configs) /\ relay.applied \in 1..Len(configs)
        /\ relay.mode \in Modes
        /\ policy.current \in 1..Len(policies) /\ policy.applied \in 1..Len(policies)
    BY DEF GovInv, Revisions
  <1>2. \A s \in Servers : accepted[s] \in 0..Len(contracts[s])
    BY DEF GovInv, Reviews
  <1>3. \A p \in proposals : p.from \in 1..Len(contracts[p.server])
    BY DEF GovInv, Reviews, Proposal
  <1> QED  BY <1>1, <1>2, <1>3 DEF GovInv, Routed, GovTypeOK

\* The invariants of the five parts.
PlaneInv == /\ GovInv /\ TelInv /\ MigInv
            /\ ProfInv /\ LibraryShape
            /\ IntakeInv /\ SkillShape /\ MCPShape

\* One part moves and the others stay as they are.
LEMMA PlaneNextInv ==
    ASSUME PlaneInv, [PlaneNext]_planeVars
    PROVE  PlaneInv'
  <1>1. /\ [GovNext]_govVars /\ [TelNext]_telVars /\ [ProfNext]_profVars
        /\ [IntakeNext]_intakeVars /\ [MigNext]_migVars
    BY DEF PlaneNext, planeVars
  <1>2. GovInv' /\ TelInv' /\ MigInv'
    BY <1>1, GovNextInv, TelNextInv, MigNextInv DEF PlaneInv
  <1>3. ProfInv' /\ LibraryShape'
    BY <1>1, ProfNextInv, LibraryShapeNext DEF PlaneInv
  <1>4. IntakeInv' /\ SkillShape' /\ MCPShape'
    BY <1>1, SkillNext, ServerNext, SkillShapeNext, MCPShapeNext DEF PlaneInv, IntakeInv
  <1> QED  BY <1>2, <1>3, <1>4 DEF PlaneInv

\* The rows of the control plane are well formed and refer to rows that exist: applied and
\* accepted revisions, held versions, the last revision of a Profile, what an import asked
\* for, and the configuration behind a marker, whichever part the operations move.
THEOREM PlaneTypes == PlaneSpec => []PlaneTypeOK
  <1>1. PlaneInit => PlaneInv
    BY GovInitInv, TelInitInv, ProfInitInv, LibraryShapeInit, IntakeInitInv, ShapeInit, MigInitInv
    DEF PlaneInit, PlaneInv
  <1>2. PlaneInv /\ [PlaneNext]_planeVars => PlaneInv'
    BY PlaneNextInv
  <1>3. PlaneInv => PlaneTypeOK
    <2> SUFFICES ASSUME PlaneInv  PROVE  PlaneTypeOK
      OBVIOUS
    <2>1. GovTypeOK /\ TelTypeOK /\ ProfTypeOK /\ MigTypeOK
      BY GovTyped, TelTyped, ProfTyped, MigTyped DEF PlaneInv
    <2>2. IntakeTypeOK
      BY DEF PlaneInv, SkillShape, MCPShape, IntakeTypeOK, NoJob
    <2> QED  BY <2>1, <2>2 DEF PlaneTypeOK
  <1> QED  BY <1>1, <1>2, <1>3, PTL DEF PlaneSpec
=============================================================================
