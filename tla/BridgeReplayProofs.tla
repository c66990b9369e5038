------------------------- MODULE BridgeReplayProofs -------------------------
(***************************************************************************)
(* TLAPS proofs about BridgeReplay: what Bridge promises survives the      *)
(* composition with the control plane, and a step shown as succeeded has   *)
(* reached its target and left nothing behind that could change it again.  *)
(***************************************************************************)
EXTENDS BridgeReplay, BridgeProofs

\* Only the first execution of a key can be under way while the Bridge has not
\* stopped yet, and once its content has landed its Salt job is over.
JobsOver(k) ==
    /\ k \in landed => exec[k] # 0
    /\ k \notin SaltKeys => \A n \in 1..MaxExec : job[<<k, n>>] = "none"
    /\ restarts = 0 /\ k \in landed => \A n \in 1..exec[k] : job[<<k, n>>] # "running"

\* A caller that has gone had a request, a waiting worker has a request of its
\* own step and is not gone, and the journal keeps the answer of a succeeded step.
Waiting ==
    /\ \A c \in gone : pc[c] # "idle"
    /\ \A k \in Keys : caller[k] # NoReq =>
          /\ pc[caller[k]] # "idle" /\ key[caller[k]] = k
          /\ caller[k] \notin gone
    /\ \A k \in Keys : step[k] = "succeeded" =>
          idem[k] # NoReq /\ idem[k].answer = "succeeded"

ReplayInv ==
    /\ ReplayTypeOK
    /\ BridgeInv
    /\ \A k \in Keys : JobsOver(k)
    /\ Waiting

-----------------------------------------------------------------------------
(* The Bridge inside the composition *)

\* Seen from the Bridge, a step of the composition is one of its own, or the
\* control plane stops and all its connections close at once.
LEMMA BridgePart ==
  ASSUME ReplayInv, [ReplayNext]_allVars
  PROVE  [Next]_vars \/ ControlPlaneStops
<1>1. \A k \in Keys : caller[k] # NoReq => caller[k] \in Calls
  BY DEF ReplayInv, ReplayTypeOK
<1>2. CASE UNCHANGED allVars
  BY <1>2 DEF allVars
<1>3. ASSUME NEW k \in Keys, Worker(k) PROVE [Next]_vars
  BY <1>1, <1>3 DEF Worker, Claim, Send, Receive, CallFails, Next
<1>4. CASE \/ \E c \in Calls : EndUnheard(c)
           \/ BridgeStops
           \/ \E k \in Keys : RecoverStep(k)
           \/ StartServing
           \/ BridgeStep
  BY <1>4 DEF EndUnheard, BridgeStops, RecoverStep, StartServing, BridgeStep, Next
<1> QED  BY <1>2, <1>3, <1>4 DEF ReplayNext

\* Every step of the composition keeps the Bridge's invariant.
LEMMA BridgeKept ==
  ASSUME ReplayInv, [ReplayNext]_allVars
  PROVE  BridgeInv'
<1>1. CASE [Next]_vars
  BY <1>1, NextInv DEF ReplayInv
<1>2. CASE ControlPlaneStops
  <2>1. /\ UNCHANGED <<idem, op, recov, exec, job, config, landed, up, restarts,
                       pc, key, hash, out, answered>>
        /\ gone' \subseteq Calls
    BY <1>2 DEF ControlPlaneStops, journal, world, process, ReplayInv, ReplayTypeOK, TypeOK
  <2>2. BridgeInv
    BY DEF ReplayInv
  <2>3. TypeOK' /\ OneOwner' /\ WorldLanded'
    BY <2>1, <2>2 DEF BridgeInv, TypeOK, OneOwner, WorldLanded
  <2>4. \A k \in Keys : Record(k)'
    BY <2>1, <2>2 DEF BridgeInv, Record
  <2>5. \A c \in Calls : Call(c)'
    BY <2>1, <2>2 DEF BridgeInv, Call
  <2> QED  BY <2>3, <2>4, <2>5 DEF BridgeInv
<1> QED  BY <1>1, <1>2, BridgePart

\* What is over stays over.
LEMMA JobsOverNext ==
  ASSUME BridgeInv, NEW k \in Keys, JobsOver(k), [Next]_vars
  PROVE  JobsOver(k)'
<1> USE BridgeAssumption DEF BridgeInv
<1>0. exec[k] \in Nat /\ restarts \in Nat /\ MaxExec \in Nat /\ exec[k] <= MaxExec
      /\ exec[k] <= restarts + 1
  BY DEF TypeOK, Record, MaxExec
<1>1. CASE UNCHANGED <<exec, job, landed, restarts>>
  BY <1>1 DEF JobsOver
<1>2. CASE UNCHANGED <<exec, job, landed>> /\ restarts' = restarts + 1
  BY <1>0, <1>2 DEF JobsOver
<1>3. ASSUME NEW c \in Calls, LocalAdapter(c) PROVE JobsOver(k)'
  <2>1. key[c] \in Keys \ SaltKeys
    BY <1>3 DEF LocalAdapter, Call
  <2>2. /\ job' = job /\ restarts' = restarts
        /\ landed' \in {landed, landed \cup {key[c]}}
        /\ exec' = [exec EXCEPT ![key[c]] = @ + 1]
    BY <1>3 DEF LocalAdapter, Land, LeaveBehind, process
  <2>3. CASE k = key[c]
    <3>1. exec'[k] = exec[k] + 1
      BY <2>2, <2>3 DEF TypeOK
    <3>2. restarts' = 0 => exec'[k] <= MaxExec
      <4>1. exec[k] <= restarts
        BY <1>3, <2>3 DEF LocalAdapter, Call
      <4> QED  BY <3>1, <4>1, <2>2 DEF TypeOK, MaxExec
    <3> QED  BY <1>0, <2>1, <2>2, <2>3, <3>1, <3>2 DEF JobsOver
  <2>4. CASE k # key[c]
    BY <2>2, <2>4 DEF JobsOver, TypeOK
  <2> QED  BY <2>3, <2>4
<1>4. ASSUME NEW c \in Calls, SaltDispatchFails(c) \/ SaltDispatch(c) PROVE JobsOver(k)'
  <2>1. key[c] \in Keys /\ key[c] \in SaltKeys /\ exec[key[c]] <= restarts
    BY <1>4 DEF SaltDispatchFails, SaltDispatch, Call
  <2>2. /\ landed' = landed /\ restarts' = restarts
        /\ exec' = [exec EXCEPT ![key[c]] = @ + 1]
        /\ \E v : job' = [job EXCEPT ![<<key[c], exec[key[c]] + 1>>] = v]
    BY <1>4 DEF SaltDispatchFails, SaltDispatch, process
  <2>3. CASE k = key[c]
    <3>1. exec'[k] = exec[k] + 1
      BY <2>2, <2>3 DEF TypeOK
    <3> QED  BY <1>0, <2>1, <2>2, <2>3, <3>1 DEF JobsOver
  <2>4. CASE k # key[c]
    <3>1. exec'[k] = exec[k]
      BY <2>2, <2>4 DEF TypeOK
    <3>2. \A n \in 1..MaxExec : job'[<<k, n>>] = job[<<k, n>>]
      BY <2>2, <2>4 DEF TypeOK
    <3> QED  BY <1>0, <2>2, <3>1, <3>2 DEF JobsOver
  <2> QED  BY <2>3, <2>4
<1>5. ASSUME NEW q \in SaltKeys, NEW n \in 1..exec[q], MinionRuns(<<q, n>>) PROVE JobsOver(k)'
  <2>1. /\ exec' = exec /\ restarts' = restarts
        /\ landed' \in {landed, landed \cup {q}}
        /\ \E v \in {"ok", "error"} : job' = [job EXCEPT ![<<q, n>>] = v]
    BY <1>5 DEF MinionRuns, Land, LeaveBehind, process
  <2>2. exec[q] \in Nat /\ exec[q] <= restarts + 1 /\ exec[q] <= MaxExec
    BY DEF TypeOK, Record, MaxExec
  <2>3. CASE k = q
    <3>1. exec[k] # 0
      BY <2>2, <2>3
    <3>2. restarts = 0 => \A m \in 1..exec[k] : m = n /\ job'[<<k, m>>] # "running"
      <4> SUFFICES ASSUME restarts = 0, NEW m \in 1..exec[k]
                   PROVE  m = n /\ job'[<<k, m>>] # "running"
        OBVIOUS
      <4>1. m = n /\ n \in 1..MaxExec
        BY <2>2, <2>3
      <4> QED  BY <4>1, <2>1, <2>3 DEF TypeOK
    <3> QED  BY <2>1, <2>3, <3>1, <3>2 DEF JobsOver
  <2>4. CASE k # q
    <3>1. \A m \in 1..MaxExec : job'[<<k, m>>] = job[<<k, m>>]
      BY <2>1, <2>4 DEF TypeOK
    <3> QED  BY <1>0, <2>1, <2>4, <3>1 DEF JobsOver
  <2> QED  BY <2>3, <2>4
<1>6. CASE Restart \/ Recovery
  BY <1>1, <1>2, <1>6 DEF Restart, Recovery, Serve, RecoverSalt, world
<1>7. ASSUME NEW c \in Calls, Handle(c) PROVE JobsOver(k)'
  BY <1>1, <1>3, <1>4, <1>7
     DEF Handle, RejectInvalid, PersistRunningOperation, PersistSafeOperation,
         PutRunningSaltOperation, FinishSaltOperation, DeleteSaltRecovery, IdempotencyPut,
         world, process
<1>8. CASE \/ \E c \in Calls, q \in Keys, h \in Hashes : IdempotencyBegin(c, q, h)
           \/ \E c \in Calls : Reply(c) \/ Disconnect(c)
           \/ UNCHANGED vars
  BY <1>1, <1>8 DEF IdempotencyBegin, Reply, Disconnect, vars, world, process
<1> QED  BY <1>5, <1>6, <1>7, <1>8 DEF Next

\* IdempotencyPut replaces a stored answer only by the same one, and neither a
\* repeated request nor RecoverPendingIdempotency touches it.
LEMMA AnswerKept ==
  ASSUME BridgeInv, [Next]_vars, NEW k \in Keys,
         idem[k] # NoReq, idem[k].answer = "succeeded"
  PROVE  idem'[k] # NoReq /\ idem'[k].answer = "succeeded"
<1> USE BridgeAssumption DEF BridgeInv
<1>1. CASE idem'[k] = idem[k]
  BY <1>1
<1>2. ASSUME NEW c \in Calls, IdempotencyPut(c) PROVE idem'[k] # NoReq /\ idem'[k].answer = "succeeded"
  <2>1. CASE key[c] = k
    <3>1. out[c] = "succeeded" /\ hash[c] \in Hashes
      BY <1>2, <2>1 DEF IdempotencyPut, Call, Terminal
    <3> QED  BY <1>1, <1>2, <2>1, <3>1 DEF IdempotencyPut, TypeOK
  <2>2. CASE key[c] # k
    BY <1>1, <1>2, <2>2 DEF IdempotencyPut, TypeOK
  <2> QED  BY <2>1, <2>2
<1>3. ASSUME NEW c \in Calls, Handle(c), ~IdempotencyPut(c) PROVE idem'[k] = idem[k]
  BY <1>3 DEF Handle, RejectInvalid, PersistRunningOperation, LocalAdapter,
              PersistSafeOperation, SaltDispatchFails, SaltDispatch,
              PutRunningSaltOperation, FinishSaltOperation, DeleteSaltRecovery, journal
<1>4. ASSUME NEW c \in Calls, NEW q \in Keys, NEW h \in Hashes, IdempotencyBegin(c, q, h)
      PROVE  idem'[k] = idem[k]
  BY <1>4 DEF IdempotencyBegin, AnswerExisting, TypeOK, journal
<1>5. CASE Restart \/ Recovery
  BY <1>5 DEF Restart, Recovery, Serve, DroppedAtStart, RecoverSalt, TypeOK, journal
<1>6. CASE \/ \E c \in Calls : Reply(c) \/ Disconnect(c)
           \/ \E q \in SaltKeys : \E n \in 1..exec[q] : MinionRuns(<<q, n>>)
           \/ UNCHANGED vars
  BY <1>6 DEF Reply, Disconnect, MinionRuns, vars, journal
<1> QED  BY <1>1, <1>2, <1>3, <1>4, <1>5, <1>6 DEF Next

-----------------------------------------------------------------------------
(* The control plane *)

\* The types of the steps and their requests.
LEMMA ControlType ==
  ASSUME ReplayInv, [ReplayNext]_allVars
  PROVE  /\ step' \in [Keys -> StepStatus]
         /\ caller' \in [Keys -> Calls \cup {NoReq}]
         /\ serving' \in BOOLEAN
         /\ crashes' \in 0..MaxCrashes
<1> USE ReplayAssumption DEF ReplayInv, ReplayTypeOK
<1>1. CASE UNCHANGED control
  BY <1>1 DEF control
<1>2. ASSUME NEW k \in Keys, Worker(k)
      PROVE  /\ step' \in [Keys -> StepStatus] /\ caller' \in [Keys -> Calls \cup {NoReq}]
             /\ UNCHANGED <<serving, crashes>>
  BY <1>2 DEF Worker, Claim, Send, Receive, CallFails, Ended, StepStatus, Terminal
<1>3. CASE BridgeStops
  BY <1>3 DEF BridgeStops, StepStatus, Terminal
<1>4. CASE ControlPlaneStops
  <2>1. crashes \in 0..MaxCrashes /\ crashes < MaxCrashes /\ crashes' = crashes + 1
    BY <1>4 DEF ControlPlaneStops
  <2>2. crashes' \in 0..MaxCrashes
    BY <2>1
  <2>3. serving' \in BOOLEAN
    BY <1>4 DEF ControlPlaneStops
  <2>4. step' = step /\ caller' \in [Keys -> Calls \cup {NoReq}]
    BY <1>4 DEF ControlPlaneStops
  <2> QED  BY <2>2, <2>3, <2>4
<1>5. CASE (\E k \in Keys : RecoverStep(k)) \/ StartServing
  BY <1>5 DEF RecoverStep, StartServing, StepStatus
<1> QED  BY <1>1, <1>2, <1>3, <1>4, <1>5 DEF ReplayNext, EndUnheard, BridgeStep, allVars, control

\* A step becomes succeeded only on an answer that the journal stored before.
LEMMA SucceededStored ==
  ASSUME ReplayInv, [ReplayNext]_allVars, NEW k \in Keys, step'[k] = "succeeded"
  PROVE  idem'[k] # NoReq /\ idem'[k].answer = "succeeded"
<1> USE DEF ReplayInv, BridgeInv
<1>1. CASE step[k] = "succeeded"
  <2>1. idem[k] # NoReq /\ idem[k].answer = "succeeded"
    BY <1>1 DEF Waiting
  <2>2. CASE [Next]_vars
    BY <2>1, <2>2, AnswerKept
  <2>3. CASE ControlPlaneStops
    BY <2>1, <2>3 DEF ControlPlaneStops, journal
  <2> QED  BY <2>2, <2>3, BridgePart
<1>2. CASE step[k] # "succeeded"
  <2>1. Receive(k) /\ out[caller[k]] = "succeeded"
    BY <1>2 DEF ReplayNext, Worker, Claim, Send, Receive, CallFails, Ended, EndUnheard,
                BridgeStops, ControlPlaneStops, RecoverStep, StartServing, BridgeStep,
                ReplayTypeOK, allVars, control
  <2>2. /\ caller[k] \in Calls /\ key[caller[k]] = k /\ pc[caller[k]] = "replied"
        /\ idem' = idem
    BY <2>1 DEF Receive, Reply, Waiting, ReplayTypeOK, journal
  <2> QED  BY <2>1, <2>2 DEF Call, Terminal
<1> QED  BY <1>1, <1>2

\* Waiting workers and requests stay in step.
LEMMA WaitingNext ==
  ASSUME ReplayInv, [ReplayNext]_allVars
  PROVE  Waiting'
<1> USE DEF ReplayInv, BridgeInv
<1> DEFINE Paired == /\ \A c \in gone : pc[c] # "idle"
                     /\ \A k \in Keys : caller[k] # NoReq =>
                           /\ pc[caller[k]] # "idle" /\ key[caller[k]] = k
                           /\ caller[k] \notin gone
<1> SUFFICES Paired'
  BY SucceededStored DEF Waiting
<1>0. Paired /\ \A k \in Keys : caller[k] # NoReq => caller[k] \in Calls
  BY DEF Waiting, ReplayTypeOK
<1>1. CASE UNCHANGED <<caller, pc, key, gone>>
  BY <1>0, <1>1
<1>2. ASSUME NEW k \in Keys, NEW c \in Calls, NEW h \in Hashes, Send(k, c, h) PROVE Paired'
  <2>1. /\ pc[c] = "idle" /\ gone' = gone
        /\ caller' = [caller EXCEPT ![k] = c]
        /\ key' = [key EXCEPT ![c] = k]
        /\ \E l \in {"begun", "replied", "recovered"} : pc' = [pc EXCEPT ![c] = l]
    BY <1>2 DEF Send, IdempotencyBegin, AnswerExisting, Return, Goto
  <2> QED  BY <1>0, <2>1 DEF TypeOK, ReplayTypeOK
<1>3. ASSUME NEW k \in Keys, Receive(k) PROVE Paired'
  <2>1. /\ caller[k] # NoReq
        /\ pc' = [pc EXCEPT ![caller[k]] = "idle"]
        /\ key' = [key EXCEPT ![caller[k]] = NoReq]
        /\ gone' = gone \ {caller[k]}
        /\ caller' = [caller EXCEPT ![k] = NoReq]
    BY <1>3 DEF Receive, Reply
  <2>2. \A q \in Keys \ {k} : caller[q] # NoReq => caller[q] # caller[k]
    BY <1>0, <2>1
  <2> QED  BY <1>0, <2>1, <2>2 DEF TypeOK, ReplayTypeOK
<1>4. ASSUME NEW k \in Keys, CallFails(k) PROVE Paired'
  <2>1. /\ UNCHANGED <<pc, key>>
        /\ gone' = gone \/ (caller[k] # NoReq /\ gone' = gone \cup {caller[k]})
        /\ caller' = [caller EXCEPT ![k] = NoReq]
    BY <1>4 DEF CallFails, Disconnect, vars, calls
  <2>2. \A q \in Keys \ {k} : caller[q] # NoReq /\ caller[k] # NoReq => caller[q] # caller[k]
    BY <1>0
  <2> QED  BY <1>0, <2>1, <2>2 DEF TypeOK, ReplayTypeOK
<1>5. ASSUME NEW c \in Calls, EndUnheard(c) PROVE Paired'
  BY <1>0, <1>5 DEF EndUnheard, Reply, control, TypeOK
<1>6. CASE BridgeStops
  BY <1>6 DEF BridgeStops, Restart, TypeOK
<1>7. CASE ControlPlaneStops
  BY <1>0, <1>7 DEF ControlPlaneStops
<1>8. ASSUME NEW c \in Calls, Handle(c), UNCHANGED control PROVE Paired'
  <2>1. /\ UNCHANGED <<key, gone, caller>>
        /\ \E l \in PCs \ {"idle"} : pc' = [pc EXCEPT ![c] = l]
    BY <1>8 DEF Handle, RejectInvalid, PersistRunningOperation, LocalAdapter,
                PersistSafeOperation, SaltDispatchFails, SaltDispatch,
                PutRunningSaltOperation, FinishSaltOperation, DeleteSaltRecovery,
                IdempotencyPut, Return, Goto, PCs, Executing, control
  <2> QED  BY <1>0, <2>1 DEF TypeOK
<1>9. CASE \/ UNCHANGED allVars
           \/ \E k \in Keys : Claim(k) \/ RecoverStep(k)
           \/ StartServing
           \/ Recovery /\ UNCHANGED control
           \/ /\ \E k \in SaltKeys : \E n \in 1..exec[k] : MinionRuns(<<k, n>>)
              /\ UNCHANGED control
  BY <1>1, <1>9 DEF allVars, vars, calls, control, Claim, RecoverStep, StartServing,
                    Recovery, Serve, RecoverSalt, MinionRuns
<1> QED  BY <1>2, <1>3, <1>4, <1>5, <1>6, <1>7, <1>8, <1>9 DEF ReplayNext, Worker, BridgeStep

-----------------------------------------------------------------------------
(* Theorems *)

\* ReplayInv is an invariant of the composition.
THEOREM ReplayInvariant == ReplaySpec => []ReplayInv
<1>1. ReplayInit => ReplayInv
  <2> SUFFICES ASSUME ReplayInit PROVE ReplayInv
    OBVIOUS
  <2>1. BridgeInv
    BY InitInv DEF ReplayInit
  <2>2. ReplayTypeOK
    BY <2>1, ReplayAssumption DEF ReplayInit, ReplayTypeOK, BridgeInv, StepStatus
  <2>3. \A k \in Keys : JobsOver(k)
    BY DEF ReplayInit, Init, JobsOver
  <2>4. Waiting
    BY DEF ReplayInit, Init, Waiting
  <2> QED  BY <2>1, <2>2, <2>3, <2>4 DEF ReplayInv
<1>2. ReplayInv /\ [ReplayNext]_allVars => ReplayInv'
  <2> SUFFICES ASSUME ReplayInv, [ReplayNext]_allVars PROVE ReplayInv'
    OBVIOUS
  <2>1. BridgeInv'
    BY BridgeKept
  <2>2. ReplayTypeOK'
    BY <2>1, ControlType DEF ReplayTypeOK, BridgeInv
  <2>3. \A k \in Keys : JobsOver(k)'
    <3>1. CASE [Next]_vars
      BY <3>1, JobsOverNext DEF ReplayInv
    <3>2. CASE ControlPlaneStops
      BY <3>2 DEF ControlPlaneStops, world, process, ReplayInv, JobsOver
    <3> QED  BY <3>1, <3>2, BridgePart
  <2>4. Waiting'
    BY WaitingNext
  <2> QED  BY <2>1, <2>2, <2>3, <2>4 DEF ReplayInv
<1> QED  BY <1>1, <1>2, PTL DEF ReplaySpec

\* A step the control plane shows as succeeded has landed on its target, no
\* goroutine of the Bridge runs it, and, if the Bridge never stopped, no Salt
\* job of it is pending, through any stop of either process, replay, lost
\* connection and failed journal write (Worker.loop, Worker.Recover,
\* Server.mutation, saltMutation).
THEOREM SucceededStepsApplied == ReplaySpec => []StepSucceededApplied
<1>1. ReplayInv => StepSucceededApplied
  <2> SUFFICES ASSUME ReplayInv, NEW k \in Keys, step[k] = "succeeded"
               PROVE  /\ k \in landed
                      /\ \A c \in Calls : key[c] = k => pc[c] \notin Executing
                      /\ restarts = 0 => \A n \in 1..exec[k] : job[<<k, n>>] # "running"
    BY DEF StepSucceededApplied
  <2>1. idem[k] # NoReq /\ idem[k].answer = "succeeded"
    BY DEF ReplayInv, Waiting
  <2>2. k \in landed
    BY <2>1 DEF ReplayInv, BridgeInv, Record
  <2>3. \A c \in Calls : key[c] = k => pc[c] \notin Executing
    BY <2>1 DEF ReplayInv, BridgeInv, Call
  <2>4. restarts = 0 => \A n \in 1..exec[k] : job[<<k, n>>] # "running"
    BY <2>2 DEF ReplayInv, JobsOver
  <2> QED  BY <2>2, <2>3, <2>4
<1> QED  BY <1>1, ReplayInvariant, PTL

\* What Bridge promises by itself holds when the control plane drives it: one
\* answer per key, success only for what landed, one execution per life.
THEOREM BridgePromisesKept ==
  ReplaySpec => [](OneAnswer /\ SuccessMeansApplied /\ ExecutedOncePerLife)
<1>1. BridgeInv => OneAnswer /\ SuccessMeansApplied /\ ExecutedOncePerLife
  BY InvAnswers, InvApplied, InvOncePerLife
<1>2. ReplayInv => BridgeInv
  BY DEF ReplayInv
<1> QED  BY <1>1, <1>2, ReplayInvariant, PTL

\* With a journal whose writes succeed, the same holds of RecordedJobIsDriven:
\* a recorded Salt job is polled by this process or dealt with before it serves.
THEOREM ReplayedJobsDriven ==
  ASSUME ~JournalErrors
  PROVE  ReplaySpec => []RecordedJobIsDriven
<1>1. ReplayInit => Driven
  BY DEF ReplayInit, Init, Driven
<1>2. ReplayInv /\ Driven /\ [ReplayNext]_allVars => Driven'
  <2> SUFFICES ASSUME ReplayInv, Driven, [ReplayNext]_allVars PROVE Driven'
    OBVIOUS
  <2>1. CASE [Next]_vars
    BY <2>1, DrivenNext DEF ReplayInv
  <2>2. CASE ControlPlaneStops
    BY <2>2 DEF ControlPlaneStops, journal, process, Driven
  <2> QED  BY <2>1, <2>2, BridgePart
<1>3. Driven => RecordedJobIsDriven
  BY DEF Driven, RecordedJobIsDriven
<1> QED  BY <1>1, <1>2, <1>3, ReplayInvariant, PTL DEF ReplaySpec

=============================================================================
