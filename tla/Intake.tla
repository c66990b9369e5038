-------------------------------- MODULE Intake --------------------------------
(***************************************************************************)
(* Bringing what a local client already has into the Library: Skills in    *)
(* batches (httpapi importLocalSkill, importLocalSkillBatch, worker        *)
(* executeLocalSkillImport, executeLocalSkillBatchImport) and MCP servers  *)
(* on a confirmation token (store/intake.go, executeLocalMCPImport).       *)
(*                                                                         *)
(* The operator confirms what an earlier scan showed.  The worker exports  *)
(* from the client's files, which the user goes on editing, and commits    *)
(* item by item; the control plane may stop between any two commits, after *)
(* which the step runs again from its stored request.                      *)
(***************************************************************************)
EXTENDS Naturals, FiniteSets

CONSTANTS
    Entries,        \* Skills in the client's root
    MaxContent,     \* bound: contents of a Skill or a server entry
    Chunk,          \* Skills in one export, 3 in the code
    IntakeBudgets   \* bounds: edits, requests, retries, faults

ASSUME IntakeAssumption ==
    /\ MaxContent \in Nat \ {0} /\ Chunk \in Nat \ {0}
    /\ IntakeBudgets \subseteq [edits : Nat, requests : Nat, retries : Nat, faults : Nat]

VARIABLES
    native,         \* Skills on disk: a content each, 0 for none
    scanned,        \* target_runtime_snapshots: what the last scan found
    shelf,          \* content of each Skill's current version, 0 for none
    skillJob,       \* the skill_import operation of the target
    landed,         \* history: items of skillJob that were committed
    nativeMCP,      \* the client's MCP entry, 0 for none
    mcpTokens,      \* local_mcp_import_confirmations: confirmed contents
    mcpJob,         \* the mcp_import operation of the target
    servers,        \* mcp_servers rows of imports: [step, token, saves, renamed]
    intakeLeft      \* what is left of the bounds

skillVars  == <<native, scanned, shelf, skillJob, landed>>
mcpVars    == <<nativeMCP, mcpTokens, mcpJob, servers>>
intakeVars == <<skillVars, mcpVars, intakeLeft>>

Contents == 0..MaxContent
NoJob    == [at |-> "none"]

IntakeSpend(what) == /\ intakeLeft[what] > 0
                     /\ intakeLeft' = [intakeLeft EXCEPT ![what] = @ - 1]
-----------------------------------------------------------------------------
(* Skills *)

UserEditsSkills ==
    /\ IntakeSpend("edits")
    /\ \E e \in Entries, c \in Contents : native' = [native EXCEPT ![e] = c]
    /\ UNCHANGED <<scanned, shelf, skillJob, landed, mcpVars>>

\* A scan operation: ReplaceRuntimeSnapshot.
ScanTarget ==
    /\ scanned # native
    /\ scanned' = native
    /\ UNCHANGED <<native, shelf, skillJob, landed, mcpVars, intakeLeft>>

\* uploadSkill, importSkill: another source moves a Skill's current version.
UploadSkill ==
    /\ IntakeSpend("edits")
    /\ \E e \in Entries, c \in 1..MaxContent : shelf' = [shelf EXCEPT ![e] = c]
    /\ UNCHANGED <<native, scanned, skillJob, landed, mcpVars>>

\* An existing Skill with other content needs confirmUpdates.
NeedsConfirmation(items) ==
    \E e \in items : shelf[e] # 0 /\ shelf[e] # scanned[e]

QueuedJob(items, rev) == [at |-> "queued", request |-> items, asked |-> items, rev |-> rev]

CreateImport(items) ==
    /\ skillJob.at \in {"none", "ended"}
    /\ items # {} /\ \A e \in items : scanned[e] # 0
    /\ IntakeSpend("requests")
    /\ skillJob' = QueuedJob(items, scanned) /\ landed' = {}
    /\ UNCHANGED <<native, scanned, shelf, mcpVars>>

\* Both handlers want the scan the operator saw to be the stored one.
ImportLocalSkillBatch(items, confirmUpdates) ==
    /\ NeedsConfirmation(items) => confirmUpdates
    /\ CreateImport(items)

\* The handler of a single Skill asks for no confirmation.
ImportLocalSkill(e) == CreateImport({e})

\* RetryFailedTargets: what the request was narrowed to.
RetryFailedItems ==
    /\ skillJob.at = "ended" /\ skillJob.result \in {"failed", "partial"}
    /\ IntakeSpend("retries")
    /\ skillJob' = QueuedJob(skillJob.request, skillJob.rev) /\ landed' = {}
    /\ UNCHANGED <<native, scanned, shelf, mcpVars>>

StartImport ==
    /\ skillJob.at = "queued"
    /\ skillJob' = [at |-> "running", request |-> skillJob.request, asked |-> skillJob.asked,
                    rev |-> skillJob.rev, left |-> skillJob.request, chunk |-> {},
                    failed |-> {}, good |-> {}]
    /\ UNCHANGED <<native, scanned, shelf, landed, mcpVars, intakeLeft>>

\* What ExportLocalSkillBatch answers for a chunk: nothing when the root no
\* longer has the scanned revision, otherwise the Skills as confirmed.
Exported(items) == IF native = skillJob.rev THEN items ELSE {}

\* ExportLocalSkillBatch of the next chunk.
ExportChunk ==
    /\ skillJob.at = "running" /\ skillJob.chunk = {}
    /\ \E items \in SUBSET skillJob.left :
         /\ items # {} /\ Cardinality(items) <= Chunk
         /\ Cardinality(items) < Chunk => items = skillJob.left
         /\ skillJob' = [skillJob EXCEPT !.left = @ \ items, !.chunk = Exported(items),
                                         !.failed = @ \cup (items \ Exported(items))]
    /\ UNCHANGED <<native, scanned, shelf, landed, mcpVars, intakeLeft>>

\* ImportSkill of one exported Skill, a transaction of its own.
CommitItem(e) ==
    /\ skillJob.at = "running" /\ e \in skillJob.chunk
    /\ shelf' = [shelf EXCEPT ![e] = skillJob.rev[e]]
    /\ landed' = landed \cup {e}
    /\ skillJob' = [skillJob EXCEPT !.chunk = @ \ {e}, !.good = @ \cup {e}]
    /\ UNCHANGED <<native, scanned, mcpVars, intakeLeft>>

\* The Skill changed while it was packed, or the commit failed.
ItemFails(e) ==
    /\ skillJob.at = "running" /\ e \in skillJob.chunk
    /\ IntakeSpend("faults")
    /\ skillJob' = [skillJob EXCEPT !.chunk = @ \ {e}, !.failed = @ \cup {e}]
    /\ UNCHANGED <<native, scanned, shelf, landed, mcpVars>>

\* Mutant: the request keeps what was imported.
NarrowedToGood(job) == IF job.failed = {} THEN job.request ELSE job.good

\* UpdateOperationTargetRequest: the stored request keeps the failed items.
Narrowed(job) == IF job.failed = {} THEN job.request ELSE job.failed

\* The worker ignores an error of the update.
NarrowRequest ==
    /\ skillJob.at = "running" /\ skillJob.left = {} /\ skillJob.chunk = {}
    /\ \/ skillJob' = [skillJob EXCEPT !.at = "narrowed", !.request = Narrowed(skillJob)]
          /\ UNCHANGED intakeLeft
       \/ skillJob' = [skillJob EXCEPT !.at = "narrowed"]
          /\ skillJob.failed # {} /\ IntakeSpend("faults")
    /\ UNCHANGED <<native, scanned, shelf, landed, mcpVars>>

ImportResult(job) ==
    IF job.good = {} THEN "failed" ELSE IF job.failed # {} THEN "partial" ELSE "succeeded"

FinishImport ==
    /\ skillJob.at = "narrowed"
    /\ skillJob' = [at |-> "ended", request |-> skillJob.request, asked |-> skillJob.asked,
                    rev |-> skillJob.rev, result |-> ImportResult(skillJob)]
    /\ UNCHANGED <<native, scanned, shelf, landed, mcpVars, intakeLeft>>

\* Mutant: the step is left as if its worker were still there.
NotRequeued(job) == [at |-> "claimed", request |-> job.request, asked |-> job.asked, rev |-> job.rev]

Requeued(job) == [at |-> "queued", request |-> job.request, asked |-> job.asked, rev |-> job.rev]

\* The control plane stops; RequeueRunningOperationTarget at its start.
StopDuringImport ==
    /\ skillJob.at \in {"running", "narrowed"}
    /\ IntakeSpend("faults")
    /\ skillJob' = Requeued(skillJob)
    /\ UNCHANGED <<native, scanned, shelf, landed, mcpVars>>
-----------------------------------------------------------------------------
(* MCP servers *)

UserEditsMCP ==
    /\ IntakeSpend("edits")
    /\ \E c \in Contents \ {nativeMCP} : nativeMCP' = c
    /\ UNCHANGED <<skillVars, mcpTokens, mcpJob, servers>>

\* preflightLocalMCPImport: the entry as it is, and a token for it.
PreflightLocalMCPImport ==
    /\ nativeMCP # 0
    /\ IntakeSpend("requests")
    /\ mcpTokens' = mcpTokens \cup
         {[number |-> Cardinality(mcpTokens) + 1, content |-> nativeMCP, used |-> FALSE]}
    /\ UNCHANGED <<skillVars, nativeMCP, mcpJob, servers>>

\* CreateLocalMCPImportOperation: the idempotency key is looked up first, so
\* a repeated request gets the same operation; otherwise the token is used.
CreateLocalMCPImportOperation(token) ==
    /\ mcpJob.at \in {"none", "ended"} /\ ~token.used
    /\ mcpTokens' = (mcpTokens \ {token}) \cup {[token EXCEPT !.used = TRUE]}
    /\ mcpJob' = [at |-> "queued", token |-> token.number, content |-> token.content,
                  step |-> <<token.number, 1>>]
    /\ UNCHANGED <<skillVars, nativeMCP, servers, intakeLeft>>

\* RetryFailedTargets: a new step with the same request.
RetryMCPImport ==
    /\ mcpJob.at = "ended" /\ mcpJob.result = "failed"
    /\ IntakeSpend("retries")
    /\ mcpJob' = [at |-> "queued", token |-> mcpJob.token, content |-> mcpJob.content,
                  step |-> <<mcpJob.step[1], mcpJob.step[2] + 1>>]
    /\ UNCHANGED <<skillVars, nativeMCP, mcpTokens, servers>>

EndMCP(result) ==
    mcpJob' = [at |-> "ended", token |-> mcpJob.token, content |-> mcpJob.content,
               step |-> mcpJob.step, result |-> result]

\* Mutant: the step does not look for the server of its first attempt.
NeverSaved(step) == FALSE

\* The server has the step's id.
AlreadySaved(step) == \E s \in servers : s.step = step

\* executeLocalMCPImport: a first attempt may have got this far already;
\* otherwise the entry must be the one that was confirmed.
CaptureMCP ==
    /\ mcpJob.at = "queued"
    /\ \/ AlreadySaved(mcpJob.step) /\ EndMCP("succeeded")
       \/ ~AlreadySaved(mcpJob.step) /\ nativeMCP # mcpJob.content /\ EndMCP("failed")
       \/ ~AlreadySaved(mcpJob.step) /\ nativeMCP = mcpJob.content
            /\ mcpJob' = [mcpJob EXCEPT !.at = "captured"]
    /\ UNCHANGED <<skillVars, nativeMCP, mcpTokens, servers, intakeLeft>>

\* The database or the Bridge does not answer the step.
CaptureFails ==
    /\ mcpJob.at = "queued"
    /\ IntakeSpend("faults")
    /\ EndMCP("failed")
    /\ UNCHANGED <<skillVars, nativeMCP, mcpTokens, servers>>

\* SaveMCPServer under the step's id: a row of that id gets a revision, and a
\* name another row has is refused.
Saved(job) ==
    LET own == {s \in servers : s.step = job.step}
    IN  IF own # {} THEN (servers \ own) \cup {[s EXCEPT !.saves = @ + 1] : s \in own}
        ELSE servers \cup {[step |-> job.step, token |-> job.token, saves |-> 1,
                            renamed |-> FALSE]}

NameTaken(step) == \E s \in servers : s.step # step /\ ~s.renamed

\* updateMCP: the operator gives an imported server another name.
RenameServer ==
    /\ IntakeSpend("edits")
    /\ \E s \in servers : servers' = (servers \ {s}) \cup {[s EXCEPT !.renamed = TRUE]}
    /\ UNCHANGED <<skillVars, nativeMCP, mcpTokens, mcpJob>>

SaveCaptured ==
    /\ mcpJob.at = "captured"
    /\ IF NameTaken(mcpJob.step) THEN EndMCP("failed") /\ UNCHANGED servers
       ELSE servers' = Saved(mcpJob) /\ mcpJob' = [mcpJob EXCEPT !.at = "saved"]
    /\ UNCHANGED <<skillVars, nativeMCP, mcpTokens, intakeLeft>>

\* Reading the saved server back may fail, and then the step does.
FinishMCPImport ==
    /\ mcpJob.at = "saved"
    /\ \/ EndMCP("succeeded") /\ UNCHANGED intakeLeft
       \/ EndMCP("failed") /\ IntakeSpend("faults")
    /\ UNCHANGED <<skillVars, nativeMCP, mcpTokens, servers>>

StopDuringMCPImport ==
    /\ mcpJob.at \in {"captured", "saved"}
    /\ IntakeSpend("faults")
    /\ mcpJob' = [mcpJob EXCEPT !.at = "queued"]
    /\ UNCHANGED <<skillVars, nativeMCP, mcpTokens, servers>>
-----------------------------------------------------------------------------
\* Every Skill on disk and scanned; the Library has all of them or none.
IntakeInit ==
    /\ native = [e \in Entries |-> 1] /\ scanned = native
    /\ shelf \in {[e \in Entries |-> 0], [e \in Entries |-> 1]}
    /\ skillJob = NoJob /\ landed = {}
    /\ nativeMCP = 1 /\ mcpTokens = {} /\ mcpJob = NoJob /\ servers = {}
    /\ intakeLeft \in IntakeBudgets

SkillStep == \/ StartImport \/ ExportChunk \/ NarrowRequest \/ FinishImport
             \/ \E e \in Entries : CommitItem(e)
MCPStep   == CaptureMCP \/ SaveCaptured \/ FinishMCPImport

IntakeNext ==
    \/ UserEditsSkills \/ ScanTarget \/ UploadSkill
    \/ \E items \in SUBSET Entries, c \in BOOLEAN : ImportLocalSkillBatch(items, c)
    \/ \E e \in Entries : ImportLocalSkill(e)
    \/ RetryFailedItems \/ SkillStep \/ StopDuringImport
    \/ \E e \in Entries : ItemFails(e)
    \/ UserEditsMCP \/ PreflightLocalMCPImport
    \/ \E token \in mcpTokens : CreateLocalMCPImportOperation(token)
    \/ RetryMCPImport \/ MCPStep \/ CaptureFails \/ StopDuringMCPImport \/ RenameServer

\* The worker goes on with a step it has claimed.
IntakeFairness == WF_intakeVars(SkillStep) /\ WF_intakeVars(MCPStep)

IntakeSpec == IntakeInit /\ [][IntakeNext]_intakeVars /\ IntakeFairness
-----------------------------------------------------------------------------
\* Types, and a request is never wider than what was asked for.
IntakeTypeOK ==
    /\ native \in [Entries -> Contents] /\ scanned \in [Entries -> Contents]
    /\ shelf \in [Entries -> Contents]
    /\ skillJob.at # "none" =>
         skillJob.request # {} /\ skillJob.request \subseteq skillJob.asked
    /\ \A s \in servers : s.step \in Nat \X Nat

\* No item of a batch is forgotten: at every moment it has been committed or
\* is still in the stored request, which is what a rerun after a stop and a
\* retry start from; and a batch reported as succeeded has brought them all,
\* whatever its first attempts had done when the control plane stopped.
NothingForgotten ==
    /\ skillJob.at # "none" => skillJob.asked \subseteq landed \cup skillJob.request
    /\ skillJob.at = "ended" /\ skillJob.result = "succeeded" => skillJob.asked \subseteq landed

\* A confirmed server entry enters the Library once: a step that runs again
\* finds what it saved, and a retry of a step that only seemed to fail is
\* refused by the name, unless the operator has renamed the server since.
ServerBroughtOnce ==
    \A s, r \in servers :
        /\ s.saves = 1
        /\ s.token = r.token => s = r \/ s.renamed \/ r.renamed

\* Every import ends, stops of the control plane notwithstanding.
ImportsEnd ==
    /\ (skillJob.at = "queued") ~> (skillJob.at = "ended")
    /\ (mcpJob.at = "queued") ~> (mcpJob.at = "ended")
=============================================================================
