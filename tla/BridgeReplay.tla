---------------------------- MODULE BridgeReplay ----------------------------
(***************************************************************************)
(* The control plane's side of a Bridge step, composed with Bridge: a      *)
(* worker that claimed a step sends its request and waits                  *)
(* (internal/worker/worker.go, internal/bridgeclient/client.go), and       *)
(* Worker.Recover asks the Bridge about every running step before the      *)
(* process serves again.  The queue itself is OperationQueue; here a step  *)
(* is only queued, running or ended, and the key of its request is its     *)
(* own id, as SetBridgeOperationMetadata records it.                       *)
(***************************************************************************)
EXTENDS Bridge

CONSTANT MaxCrashes     \* bound: stops of the control plane

ASSUME ReplayAssumption == MaxCrashes \in Nat

VARIABLES
    step,       \* operation_targets.status of the step with this key
    caller,     \* the HTTP request a worker waits for, or NoReq
    serving,    \* the control plane has recovered and runs its workers
    crashes     \* stops of the control plane so far

control == <<step, caller, serving, crashes>>
allVars == <<vars, control>>

StepStatus == {"queued", "running"} \cup Terminal

ReplayTypeOK ==
    /\ TypeOK
    /\ step \in [Keys -> StepStatus]
    /\ caller \in [Keys -> Calls \cup {NoReq}]
    /\ serving \in BOOLEAN
    /\ crashes \in 0..MaxCrashes

ReplayInit ==
    /\ Init
    /\ step = [k \in Keys |-> "queued"]
    /\ caller = [k \in Keys |-> NoReq]
    /\ serving = TRUE
    /\ crashes = 0

-----------------------------------------------------------------------------
(* A worker.                                                               *)

\* Worker.loop claims the step and stores its Bridge operation id.
Claim(k) ==
    /\ serving
    /\ step[k] = "queued"
    /\ step' = [step EXCEPT ![k] = "running"]
    /\ UNCHANGED <<vars, caller, serving, crashes>>

\* executeCommit or executeReconcile builds the body and calls the Bridge.
\* The body of a replay may differ: settings and secrets are read again.
Send(k, c, h) ==
    /\ serving
    /\ step[k] = "running"
    /\ caller[k] = NoReq
    /\ IdempotencyBegin(c, k, h)
    /\ caller' = [caller EXCEPT ![k] = c]
    /\ UNCHANGED <<step, serving, crashes>>

EndedOptimistic(answer) ==
    IF answer \in {"succeeded", "still_running"} THEN "succeeded" ELSE "failed"

\* FinishOperationTarget with the result, or failed for any Bridge error.
Ended(answer) == IF answer = "succeeded" THEN "succeeded" ELSE "failed"

Receive(k) ==
    /\ caller[k] # NoReq
    /\ Reply(caller[k])
    /\ step' = [step EXCEPT ![k] = Ended(out[caller[k]])]
    /\ caller' = [caller EXCEPT ![k] = NoReq]
    /\ UNCHANGED <<serving, crashes>>

\* client.call cannot reach the socket, or gives up on a request that takes
\* longer than the client's or the server's time limit.
CallFails(k) ==
    /\ serving
    /\ step[k] = "running"
    /\ \/ /\ caller[k] = NoReq
          /\ ~up
          /\ UNCHANGED vars
       \/ caller[k] # NoReq /\ Disconnect(caller[k])
    /\ step' = [step EXCEPT ![k] = "failed"]
    /\ caller' = [caller EXCEPT ![k] = NoReq]
    /\ UNCHANGED <<serving, crashes>>

\* A goroutine whose caller has gone ends without being heard.
EndUnheard(c) ==
    /\ c \in gone
    /\ Reply(c)
    /\ UNCHANGED control

-----------------------------------------------------------------------------
(* Stops of either process.                                                *)

\* Open connections break and the waiting workers fail their steps.
BridgeStops ==
    /\ Restart
    /\ step' = [k \in Keys |-> IF caller[k] # NoReq THEN "failed" ELSE step[k]]
    /\ caller' = [k \in Keys |-> NoReq]
    /\ UNCHANGED <<serving, crashes>>

\* The connections of its requests close; the Bridge's goroutines go on.
ControlPlaneStops ==
    /\ crashes < MaxCrashes
    /\ crashes' = crashes + 1
    /\ serving' = FALSE
    /\ gone' = gone \cup {caller[k] : k \in {q \in Keys : caller[q] # NoReq}}
    /\ caller' = [k \in Keys |-> NoReq]
    /\ UNCHANGED <<journal, world, process, pc, key, hash, out, answered, step>>

SettledTerminalOnly(k) == op[k] \in Terminal

\* What the poll of Worker.Recover waits for: the operation is terminal or
\* the Bridge does not know it.
Settled(k) == op[k] # "running"

\* Worker.Recover and RequeueRunningOperationTarget for one running step.
\* While the Bridge is down or the operation runs, recovery fails at its
\* deadline and the process is started again.
RecoverStep(k) ==
    /\ ~serving
    /\ step[k] = "running"
    /\ up
    /\ Settled(k)
    /\ step' = [step EXCEPT ![k] = "queued"]
    /\ UNCHANGED <<vars, caller, serving, crashes>>

StartServing ==
    /\ ~serving
    /\ \A k \in Keys : step[k] # "running"
    /\ serving' = TRUE
    /\ UNCHANGED <<vars, step, caller, crashes>>

-----------------------------------------------------------------------------
BridgeStep ==
    /\ \/ \E c \in Calls : Handle(c)
       \/ \E k \in SaltKeys : \E n \in 1..exec[k] : MinionRuns(<<k, n>>)
       \/ Recovery
    /\ UNCHANGED control

Worker(k) ==
    \/ Claim(k)
    \/ \E c \in Calls, h \in Hashes : Send(k, c, h)
    \/ Receive(k)
    \/ CallFails(k)

ReplayNext ==
    \/ \E k \in Keys : Worker(k)
    \/ \E c \in Calls : EndUnheard(c)
    \/ BridgeStops
    \/ ControlPlaneStops
    \/ \E k \in Keys : RecoverStep(k)
    \/ StartServing
    \/ BridgeStep

ReplaySpec == ReplayInit /\ [][ReplayNext]_allVars

\* Both processes are restarted by systemd and neither stops for ever; the
\* goroutines and the minions are those of Bridge.  A worker gets its answer
\* if there is one: giving up is not assumed to happen.
ReplayFairness ==
    /\ \A c \in Calls : WF_allVars(Handle(c) /\ UNCHANGED control)
    /\ \A c \in Calls : WF_allVars(EndUnheard(c))
    /\ WF_allVars(Recovery /\ UNCHANGED control)
    /\ \A k \in Keys : /\ WF_allVars(Claim(k))
                       /\ WF_allVars(\E c \in Calls, h \in Hashes : Send(k, c, h))
                       /\ WF_allVars(Receive(k))
                       /\ WF_allVars(~up /\ CallFails(k))
                       /\ WF_allVars(RecoverStep(k))
    /\ WF_allVars(StartServing)

ReplayFairSpec == ReplaySpec /\ ReplayFairness

-----------------------------------------------------------------------------
(* Properties.                                                             *)

\* A step the control plane shows as succeeded, and whose target it gives to the
\* next operation, has reached that target, however often either process stopped
\* and whatever a replay was answered; and nothing of it is left that could still
\* change the target: no goroutine runs it and, as long as the Bridge stayed up,
\* no Salt job of it is pending.  (After a stop between Dispatch and the
\* recovery record, an unrecorded job may still be.)
StepSucceededApplied ==
    \A k \in Keys : step[k] = "succeeded" =>
        /\ k \in landed
        /\ \A c \in Calls : key[c] = k => pc[c] \notin Executing
        /\ restarts = 0 => \A n \in 1..exec[k] : job[<<k, n>>] # "running"

\* As long as the Bridge stays up, every step ends, through any stop of the
\* control plane: recovery completes and the replayed request is answered.
EveryStepSettles ==
    [](restarts = 0) => \A k \in Keys : <>[](step[k] \in Terminal)

\* The comment on Worker.Recover says it waits for a durable Bridge step to be
\* terminal before it replays: no replay is told that it is still running.
ReplayNeverEarly == \A c \in Calls : pc[c] = "replied" => out[c] # "still_running"

\* docs/BRIDGE.md and the comment on Worker.Recover promise that a step the
\* Bridge was interrupted in is recovered and replayed: start-up recovery of
\* the control plane completes.
RecoveryCompletes == ~serving ~> serving
=============================================================================
