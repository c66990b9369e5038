------------------------------- MODULE Bridge -------------------------------
(***************************************************************************)
(* The privileged Bridge: its BoltDB journal (internal/bridge/journal.go), *)
(* the mutation middleware and the commit, restore and reconcile handlers  *)
(* (internal/bridge/server.go) and the part of CompositeAdapter that       *)
(* drives and recovers Salt jobs (internal/bridge/adapter.go).             *)
(*                                                                         *)
(* A request is named by its idempotency key, which the control plane also *)
(* uses as the operation id.  Every HTTP request is served by a goroutine  *)
(* of its own; one step of this module is one BoltDB transaction, one call *)
(* of the target, or one answer.  The process may stop between any two.    *)
(*                                                                         *)
(* Manifests, artifacts, secrets and results are left out: a result is     *)
(* "succeeded" or "failed", a request body is its hash, and what a target  *)
(* holds is the key of the last request that reached it.                   *)
(***************************************************************************)
EXTENDS Naturals, FiniteSets

CONSTANTS
    Keys,           \* idempotency keys, also the operation ids
    SaltKeys,       \* the requests whose target is a Salt minion
    Targets,        \* the configured runtimes
    TargetOf,       \* [Keys -> Targets]
    Hashes,         \* request hashes a key may arrive with
    Calls,          \* HTTP requests served at the same time
    NoReq,          \* no record, no request
    MaxRestarts,    \* bound: stops of the Bridge process
    JournalErrors   \* whether a BoltDB write may fail

ASSUME BridgeAssumption ==
    /\ SaltKeys \subseteq Keys
    /\ TargetOf \in [Keys -> Targets]
    /\ NoReq \notin Keys \cup Hashes
    /\ NoReq \notin [hash: Hashes, answer: {"succeeded", "failed", "pending"}]
    /\ MaxRestarts \in Nat
    /\ JournalErrors \in BOOLEAN

VARIABLES
    idem,       \* idempotency bucket: NoReq or [hash, answer]
    op,         \* operations bucket: status of the single target
    recov,      \* salt recovery bucket: execution whose JID it holds, or 0
    exec,       \* executions of the adapter per key (names the Salt jobs)
    job,        \* Salt master and minion: the job of each execution
    config,     \* the request whose content a target holds
    landed,     \* requests whose content reached their target at some time
    up,         \* the Unix socket is open
    restarts,   \* stops so far
    pc,         \* per HTTP request: where its goroutine is
    key,        \* per HTTP request: its idempotency key
    hash,       \* per HTTP request: its body
    out,        \* per HTTP request: the result it is going to answer
    gone,       \* HTTP requests whose caller has disconnected
    answered    \* per key: the results callers have been given

journal == <<idem, op, recov>>
world == <<exec, job, config, landed>>
process == <<up, restarts>>
calls == <<pc, key, hash, out, gone>>
vars == <<journal, world, process, calls, answered>>

Terminal == {"succeeded", "failed"}

\* A key is executed at most once between two stops.
MaxExec == MaxRestarts + 1

\* "running": IsTerminalOperationStatus is false.
OpStatus == {"none", "running"} \cup Terminal

JobStatus == {"none", "running", "ok", "error"}

\* Where a goroutine of Server.mutation can be; in Executing it may still
\* change the target.
Executing == {"begun", "marked", "dispatched", "polling"}

PCs == Executing \cup
       {"idle", "finishing", "returned", "stored", "recovered", "replied"}

Outs == Terminal \cup {"none", "conflict", "still_running", "not_persisted"}

TypeOK ==
    /\ idem \in [Keys -> {NoReq} \cup
                         [hash: Hashes, answer: Terminal \cup {"pending"}]]
    /\ op \in [Keys -> OpStatus]
    /\ exec \in [Keys -> 0..MaxExec]
    /\ recov \in [Keys -> 0..MaxExec]
    /\ job \in [Keys \X (1..MaxExec) -> JobStatus]
    /\ config \in [Targets -> Keys \cup {NoReq}]
    /\ landed \subseteq Keys
    /\ up \in BOOLEAN
    /\ restarts \in 0..MaxRestarts
    /\ pc \in [Calls -> PCs]
    /\ key \in [Calls -> Keys \cup {NoReq}]
    /\ hash \in [Calls -> Hashes \cup {NoReq}]
    /\ out \in [Calls -> Outs]
    /\ gone \subseteq Calls
    /\ answered \in [Keys -> SUBSET Terminal]

Init ==
    /\ idem = [k \in Keys |-> NoReq]
    /\ op = [k \in Keys |-> "none"]
    /\ recov = [k \in Keys |-> 0]
    /\ exec = [k \in Keys |-> 0]
    /\ job = [j \in Keys \X (1..MaxExec) |-> "none"]
    /\ config = [t \in Targets |-> NoReq]
    /\ landed = {}
    /\ up = TRUE
    /\ restarts = 0
    /\ pc = [c \in Calls |-> "idle"]
    /\ key = [c \in Calls |-> NoReq]
    /\ hash = [c \in Calls |-> NoReq]
    /\ out = [c \in Calls |-> "none"]
    /\ gone = {}
    /\ answered = [k \in Keys |-> {}]

-----------------------------------------------------------------------------
(* Server.mutation: idempotency before the handler.                        *)

Goto(c, label) == pc' = [pc EXCEPT ![c] = label]

\* The handler's result, and where the goroutine goes with it.
Return(c, label, result) ==
    /\ Goto(c, label)
    /\ out' = [out EXCEPT ![c] = result]

\* recoveredIdempotencyResponse: only a terminal operation, which always
\* carries its result, can answer for a handler that did not.
Recoverable(k) == op[k] \in Terminal

\* An existing record decides the request without running the handler: a
\* different body conflicts, a stored response is replayed, a pending one is
\* answered from the operation once that is terminal.
AnswerExisting(c, k, h) ==
    /\ UNCHANGED journal
    /\ \/ /\ idem[k].hash # h
          /\ Return(c, "replied", "conflict")
       \/ /\ idem[k].hash = h
          /\ idem[k].answer # "pending"
          /\ Return(c, "replied", idem[k].answer)
       \/ /\ idem[k].hash = h
          /\ idem[k].answer = "pending"
          /\ Recoverable(k)
          /\ Return(c, "recovered", op[k])
       \/ /\ idem[k].hash = h
          /\ idem[k].answer = "pending"
          /\ ~Recoverable(k)
          /\ Return(c, "replied", "still_running")

IdempotencyBeginAgain(c, k, h) ==
    /\ up
    /\ pc[c] = "idle"
    /\ key' = [key EXCEPT ![c] = k]
    /\ hash' = [hash EXCEPT ![c] = h]
    /\ IF idem[k] = NoReq \/ (idem[k].answer = "pending" /\ op[k] \notin Terminal)
       THEN /\ idem' = [idem EXCEPT ![k] = [hash |-> h, answer |-> "pending"]]
            /\ Goto(c, "begun")
            /\ UNCHANGED <<op, recov, out>>
       ELSE AnswerExisting(c, k, h)
    /\ UNCHANGED <<world, process, gone, answered>>

\* IdempotencyBegin and the branches of mutation that follow it: a new key
\* is recorded as pending before its handler runs.
IdempotencyBegin(c, k, h) ==
    /\ up
    /\ pc[c] = "idle"
    /\ key' = [key EXCEPT ![c] = k]
    /\ hash' = [hash EXCEPT ![c] = h]
    /\ IF idem[k] = NoReq
       THEN /\ idem' = [idem EXCEPT ![k] = [hash |-> h, answer |-> "pending"]]
            /\ Goto(c, "begun")
            /\ UNCHANGED <<op, recov, out>>
       ELSE AnswerExisting(c, k, h)
    /\ UNCHANGED <<world, process, gone, answered>>

-----------------------------------------------------------------------------
(* Server.commit, restore and reconcile.                                   *)

\* The body does not decode or does not validate: nothing is journaled.
RejectInvalid(c) ==
    /\ pc[c] = "begun"
    /\ Return(c, "stored", "failed")
    /\ UNCHANGED <<journal, world, process, key, hash, gone, answered>>

\* A write to the operations bucket whose failure is only logged.
PutOperation(k, status) ==
    \/ op' = [op EXCEPT ![k] = status]
    \/ JournalErrors /\ op' = op

PersistRunningOperation(c) ==
    /\ pc[c] = "begun"
    /\ PutOperation(key[c], "running")
    /\ Goto(c, "marked")
    /\ UNCHANGED <<idem, recov, world, process, key, hash, out, gone, answered>>

\* What reaches the target: its content becomes that of the request.
Land(k) ==
    /\ config' = [config EXCEPT ![TargetOf[k]] = k]
    /\ landed' = landed \cup {k}

\* An apply that reports an error: it was refused or rolled back; the new
\* content is in place and only the scan after it failed; or the rollback
\* failed too and the target holds the content of no request.
LeaveBehind(k) ==
    \/ UNCHANGED <<config, landed>>
    \/ Land(k)
    \/ config' = [config EXCEPT ![TargetOf[k]] = NoReq] /\ UNCHANGED landed

\* CompositeAdapter.Commit, Reconcile and Restore on the local node, with the
\* runtime manager's work as one step.
LocalAdapter(c) ==
    /\ pc[c] = "marked"
    /\ key[c] \notin SaltKeys
    /\ exec' = [exec EXCEPT ![key[c]] = @ + 1]
    /\ \/ Land(key[c]) /\ Return(c, "returned", "succeeded")
       \/ LeaveBehind(key[c]) /\ Return(c, "returned", "failed")
    /\ UNCHANGED <<journal, job, process, key, hash, gone, answered>>

\* persistSafeOperation, on the error path and on the result path.
PersistSafeOperation(c) ==
    /\ pc[c] = "returned"
    /\ PutOperation(key[c], out[c])
    /\ Goto(c, "stored")
    /\ UNCHANGED <<idem, recov, world, process, key, hash, out, gone, answered>>

-----------------------------------------------------------------------------
(* CompositeAdapter.saltMutation.                                          *)

\* Preparing the minion, staging the bundle or publishing the job fails.  A
\* publication that reports an error may still have started the job.
SaltDispatchFails(c) ==
    /\ pc[c] = "marked"
    /\ key[c] \in SaltKeys
    /\ exec' = [exec EXCEPT ![key[c]] = @ + 1]
    /\ \E started \in {"none", "running"} :
           job' = [job EXCEPT ![<<key[c], exec[key[c]] + 1>>] = started]
    /\ Return(c, "returned", "failed")
    /\ UNCHANGED <<journal, config, landed, process, key, hash, gone, answered>>

SaltDispatch(c) ==
    /\ pc[c] = "marked"
    /\ key[c] \in SaltKeys
    /\ exec' = [exec EXCEPT ![key[c]] = @ + 1]
    /\ job' = [job EXCEPT ![<<key[c], exec[key[c]] + 1>>] = "running"]
    /\ Goto(c, "dispatched")
    /\ UNCHANGED <<journal, config, landed, process, key, hash, out, gone, answered>>

\* The operation and its recovery record in one transaction; when it fails
\* the request fails although the job runs.
PutRunningSaltOperation(c) ==
    /\ pc[c] = "dispatched"
    /\ \/ /\ op' = [op EXCEPT ![key[c]] = "running"]
          /\ recov' = [recov EXCEPT ![key[c]] = exec[key[c]]]
          /\ Goto(c, "polling")
          /\ UNCHANGED out
       \/ /\ JournalErrors
          /\ Return(c, "returned", "failed")
          /\ UNCHANGED <<op, recov>>
    /\ UNCHANGED <<idem, world, process, key, hash, gone, answered>>

\* The minion runs a published job: _write of the toolhub execution module.
MinionRuns(j) ==
    /\ job[j] = "running"
    /\ \/ job' = [job EXCEPT ![j] = "ok"] /\ Land(j[1])
       \/ job' = [job EXCEPT ![j] = "error"] /\ LeaveBehind(j[1])
    /\ UNCHANGED <<journal, exec, process, calls, answered>>

\* What Driver.Poll may end with: the job's result once the master has it; the
\* deadline or a cancelled request context at any time, with the job still in
\* the job cache or missing from it, whatever the job did.
Poll(k) ==
    {"unavailable", "missing"} \cup ({job[<<k, recov[k]>>]} \cap {"ok", "error"})

AcceptMissingJob(k) == {"failed", "succeeded"}

\* What saltMutation and RecoverOperations make of it.  A missing job counts as
\* a success only if a scan of the target finds the pinned members; a result
\* that cannot be decoded, or whose backup cannot be journaled, is a failure.
SaltOutcome(k) ==
    {"failed"} \cup
    {s \in {"succeeded"} : \E r \in Poll(k) :
        r = "ok" \/ (r = "missing" /\ config[TargetOf[k]] = k)}

\* finishSaltOperation; if its write fails the request fails.
FinishSaltOperation(c) ==
    /\ pc[c] = "polling"
    /\ \/ \E s \in SaltOutcome(key[c]) :
              /\ op' = [op EXCEPT ![key[c]] = s]
              /\ Return(c, "finishing", s)
       \/ /\ JournalErrors
          /\ Return(c, "finishing", "failed")
          /\ UNCHANGED op
    /\ UNCHANGED <<idem, recov, world, process, key, hash, gone, answered>>

\* The deferred CleanupRemote and DeleteSaltRecovery, whose error is dropped.
DeleteSaltRecovery(c) ==
    /\ pc[c] = "finishing"
    /\ \/ recov' = [recov EXCEPT ![key[c]] = 0]
       \/ JournalErrors /\ recov' = recov
    /\ Goto(c, "returned")
    /\ UNCHANGED <<idem, op, world, process, key, hash, out, gone, answered>>

-----------------------------------------------------------------------------
(* The answer.                                                             *)

IdempotencyPutIgnoringErrors(c) ==
    /\ pc[c] \in {"stored", "recovered"}
    /\ \/ idem' = [idem EXCEPT ![key[c]] =
                       [hash |-> hash[c], answer |-> out[c]]]
       \/ JournalErrors /\ UNCHANGED idem
    /\ Goto(c, "replied")
    /\ UNCHANGED <<op, recov, world, process, key, hash, out, gone, answered>>

\* IdempotencyPut replaces the record; the response is written after it.
IdempotencyPut(c) ==
    /\ pc[c] \in {"stored", "recovered"}
    /\ \/ /\ idem' = [idem EXCEPT ![key[c]] =
                          [hash |-> hash[c], answer |-> out[c]]]
          /\ Goto(c, "replied")
          /\ UNCHANGED out
       \/ /\ JournalErrors
          /\ Return(c, "replied", "not_persisted")
          /\ UNCHANGED idem
    /\ UNCHANGED <<op, recov, world, process, key, hash, gone, answered>>

\* The goroutine ends; a caller that is still there has the response.
Reply(c) ==
    /\ pc[c] = "replied"
    /\ answered' = IF c \notin gone /\ out[c] \in Terminal
                   THEN [answered EXCEPT ![key[c]] = @ \cup {out[c]}]
                   ELSE answered
    /\ pc' = [pc EXCEPT ![c] = "idle"]
    /\ key' = [key EXCEPT ![c] = NoReq]
    /\ hash' = [hash EXCEPT ![c] = NoReq]
    /\ out' = [out EXCEPT ![c] = "none"]
    /\ gone' = gone \ {c}
    /\ UNCHANGED <<journal, world, process>>

\* The caller gives up or dies; its request context is cancelled.
Disconnect(c) ==
    /\ pc[c] # "idle"
    /\ c \notin gone
    /\ gone' = gone \cup {c}
    /\ UNCHANGED <<journal, world, process, pc, key, hash, out, answered>>

-----------------------------------------------------------------------------
(* Stop and start: NewServer.                                              *)

Restart ==
    /\ restarts < MaxRestarts
    /\ restarts' = restarts + 1
    /\ up' = FALSE
    /\ pc' = [c \in Calls |-> "idle"]
    /\ key' = [c \in Calls |-> NoReq]
    /\ hash' = [c \in Calls |-> NoReq]
    /\ out' = [c \in Calls |-> "none"]
    /\ gone' = {}
    /\ UNCHANGED <<journal, world, answered>>

\* One recovery record of CompositeAdapter.RecoverOperations.  A running
\* operation is settled first and its record deleted after; a record whose
\* operation is no longer running is only deleted.  When the settling write
\* fails the record is deleted all the same and start-up fails.
RecoverSalt(k) ==
    /\ ~up
    /\ recov[k] # 0
    /\ \/ /\ op[k] = "running"
          /\ \E s \in SaltOutcome(k) : op' = [op EXCEPT ![k] = s]
          /\ UNCHANGED <<recov, restarts>>
       \/ /\ op[k] # "running"
          /\ recov' = [recov EXCEPT ![k] = 0]
          /\ UNCHANGED <<op, restarts>>
       \/ /\ op[k] = "running"
          /\ JournalErrors
          /\ restarts < MaxRestarts
          /\ restarts' = restarts + 1
          /\ recov' = [recov EXCEPT ![k] = 0]
          /\ UNCHANGED op
    /\ UNCHANGED <<idem, world, up, calls, answered>>

SkipSaltRecovery == TRUE

\* CompositeAdapter.RecoverOperations goes through every recovery record.
SaltRecovered == \A k \in Keys : recov[k] = 0

DropEveryPending(k) == idem[k] # NoReq /\ idem[k].answer = "pending"

\* RecoverPendingIdempotency deletes the pending records that have no
\* terminal operation with a result.
DroppedAtStart(k) ==
    idem[k] # NoReq /\ idem[k].answer = "pending" /\ op[k] \notin Terminal

Serve ==
    /\ ~up
    /\ SaltRecovered
    /\ idem' = [k \in Keys |-> IF DroppedAtStart(k) THEN NoReq ELSE idem[k]]
    /\ up' = TRUE
    /\ UNCHANGED <<op, recov, world, restarts, calls, answered>>

-----------------------------------------------------------------------------
Handle(c) ==
    \/ RejectInvalid(c)
    \/ PersistRunningOperation(c)
    \/ LocalAdapter(c)
    \/ PersistSafeOperation(c)
    \/ SaltDispatchFails(c)
    \/ SaltDispatch(c)
    \/ PutRunningSaltOperation(c)
    \/ FinishSaltOperation(c)
    \/ DeleteSaltRecovery(c)
    \/ IdempotencyPut(c)

Recovery == Serve \/ \E k \in Keys : RecoverSalt(k)

Next ==
    \/ \E c \in Calls, k \in Keys, h \in Hashes : IdempotencyBegin(c, k, h)
    \/ \E c \in Calls : Handle(c)
    \/ \E c \in Calls : Reply(c)
    \/ \E c \in Calls : Disconnect(c)
    \/ \E k \in SaltKeys : \E n \in 1..exec[k] : MinionRuns(<<k, n>>)
    \/ Restart
    \/ Recovery

Spec == Init /\ [][Next]_vars

\* A goroutine goes on (every poll has a deadline), a minion finishes what it
\* was given, and systemd starts the Bridge again until it serves.
Fairness ==
    /\ \A c \in Calls : WF_vars(Handle(c)) /\ WF_vars(Reply(c))
    /\ \A k \in SaltKeys : WF_vars(\E n \in 1..exec[k] : MinionRuns(<<k, n>>))
    /\ WF_vars(Recovery)

FairSpec == Spec /\ Fairness

-----------------------------------------------------------------------------
(* Properties.                                                             *)

\* Every caller of one key is told the same result: the handler's answer, the
\* stored response of mutation and the response recovered from the operation
\* agree, also across restarts and failed journal writes.
OneAnswer == \A k \in Keys : Cardinality(answered[k]) <= 1

\* A success that a caller was told, or that the journal holds, has reached
\* the target: a Salt job that left no result is never taken for a success
\* unless the target was seen to hold the request's members.
SuccessMeansApplied ==
    \A k \in Keys :
        "succeeded" \in answered[k] \cup {op[k]} => k \in landed

\* The adapter runs at most once per key between two stops of the Bridge,
\* however many callers repeat the request at the same time.
ExecutedOncePerLife ==
    /\ \A k \in Keys : exec[k] <= restarts + 1
    /\ \A c, d \in Calls :
           c # d /\ {pc[c], pc[d]} \subseteq Executing => key[c] # key[d]

\* While the socket is open, a Salt operation that has a recovery record and
\* is still running is being polled by a request of this process: start-up
\* recovery leaves none to nobody.
RecordedJobIsDriven ==
    up => \A k \in Keys :
              recov[k] # 0 /\ op[k] = "running"
              => \E c \in Calls : key[c] = k /\ pc[c] \in {"polling", "finishing", "returned"}

\* An operation with a terminal result keeps it: neither a retry after a
\* restart nor a late goroutine runs or records it a second time.
FinishedStays ==
    [][\A k \in Keys : op[k] \in Terminal => op'[k] = op[k] /\ exec'[k] = exec[k]]_vars
=============================================================================
