---------------------------- MODULE BridgeProofs ----------------------------
(***************************************************************************)
(* TLAPS proofs about Bridge: one answer per idempotency key, success only *)
(* for what reached its target, one execution per life of the process, and *)
(* terminal operations that stay as they are.  They hold for any number of *)
(* keys, targets, concurrent requests and restarts, and with journal       *)
(* writes that fail, except where a theorem says otherwise.                *)
(***************************************************************************)
EXTENDS Bridge, FiniteSetTheorems, TLAPS

\* The goroutine that began the record of its key and has not stored its answer.
Owning == Executing \cup {"finishing", "returned", "stored"}

\* No two goroutines own one key.
OneOwner ==
    \A c, d \in Calls :
        c # d /\ pc[c] \in Owning /\ pc[d] \in Owning => key[c] # key[d]

\* What a target holds, and a job that ended well, has landed.
WorldLanded ==
    /\ \A t \in Targets : config[t] \in Keys => config[t] \in landed
    /\ \A k \in Keys, n \in 1..MaxExec : job[<<k, n>>] = "ok" => k \in landed

\* The journal's view of key k: a key without a record has neither a terminal
\* operation, nor a Salt recovery record, nor a caller who was answered, and
\* has not been executed in this life of the process; only the stored answer
\* was ever given.
Record(k) ==
    /\ idem[k] = NoReq => /\ op[k] \notin Terminal
                          /\ recov[k] = 0
                          /\ exec[k] <= restarts
    /\ answered[k] # {} => idem[k] # NoReq /\ answered[k] = {idem[k].answer}
    /\ answered[k] \subseteq Terminal
    /\ idem[k] # NoReq => (idem[k].answer = "succeeded" => k \in landed)
    /\ op[k] = "succeeded" => k \in landed
    /\ exec[k] <= restarts + 1
    /\ ~up => exec[k] <= restarts

\* What goroutine c knows. While it executes, its operation is open and its
\* record pending. From the outcome on, whatever operation or stored answer
\* there is agrees with its own result.
Call(c) ==
    /\ pc[c] \in Executing \cup {"idle"} => out[c] = "none"
    /\ pc[c] # "idle" => /\ up /\ key[c] \in Keys /\ hash[c] \in Hashes
                         /\ idem[key[c]] # NoReq
    /\ out[c] = "succeeded" => key[c] \in landed
    /\ pc[c] \in Executing =>
          op[key[c]] \notin Terminal /\ idem[key[c]].answer = "pending"
    /\ pc[c] \in {"finishing", "returned", "stored", "recovered"} =>
          /\ out[c] \in Terminal
          /\ op[key[c]] \in Terminal => op[key[c]] = out[c]
          /\ idem[key[c]].answer # "pending" => idem[key[c]].answer = out[c]
    /\ pc[c] = "recovered" => op[key[c]] \in Terminal
    /\ pc[c] = "replied" /\ out[c] \in Terminal => idem[key[c]].answer = out[c]
    /\ pc[c] \in {"begun", "marked"} => exec[key[c]] <= restarts
    /\ pc[c] = "dispatched" => exec[key[c]] # 0
    /\ pc[c] = "polling" => recov[key[c]] # 0

\* The inductive invariant.
BridgeInv ==
    /\ TypeOK
    /\ OneOwner
    /\ WorldLanded
    /\ \A k \in Keys : Record(k)
    /\ \A c \in Calls : Call(c)

-----------------------------------------------------------------------------
(* One lemma per action *)

\* The journal starts empty.
LEMMA InitInv == Init => BridgeInv
<1> SUFFICES ASSUME Init PROVE BridgeInv
  OBVIOUS
<1>0. 0 \in 0..MaxExec /\ 0 \in 0..MaxRestarts
  BY BridgeAssumption DEF MaxExec
<1>1. TypeOK
  BY <1>0 DEF Init, TypeOK, OpStatus, JobStatus, PCs, Outs
<1>2. OneOwner /\ WorldLanded
  BY BridgeAssumption DEF Init, OneOwner, WorldLanded, Owning, Executing
<1>3. ASSUME NEW k \in Keys PROVE Record(k)
  BY DEF Init, Record, Terminal
<1>4. ASSUME NEW c \in Calls PROVE Call(c)
  BY DEF Init, Call, Executing
<1> QED  BY <1>1, <1>2, <1>3, <1>4 DEF BridgeInv

\* Neither saltMutation nor RecoverOperations makes a success of a job whose
\* content never reached the target.
LEMMA SaltOutcomeLanded ==
  ASSUME BridgeInv, NEW k \in Keys, recov[k] # 0
  PROVE  \A s \in SaltOutcome(k) : s \in Terminal /\ (s = "succeeded" => k \in landed)
<1>1. recov[k] \in 1..MaxExec /\ TargetOf[k] \in Targets
  BY BridgeAssumption DEF BridgeInv, TypeOK, MaxExec
<1>2. job[<<k, recov[k]>>] = "ok" => k \in landed
  BY <1>1 DEF BridgeInv, WorldLanded
<1>3. config[TargetOf[k]] = k => k \in landed
  BY <1>1 DEF BridgeInv, WorldLanded
<1> QED  BY <1>2, <1>3 DEF SaltOutcome, Poll, Terminal

\* Begin: a key is admitted once in a life of the Bridge.
LEMMA BeginInv ==
  ASSUME BridgeInv, NEW c \in Calls, NEW k \in Keys, NEW h \in Hashes, IdempotencyBegin(c, k, h)
  PROVE  BridgeInv'
<1> USE BridgeAssumption DEF BridgeInv
<1>1. TypeOK'
  <2>1. CASE idem[k] = NoReq
    BY <2>1 DEF IdempotencyBegin, Goto, TypeOK, PCs, Executing, Terminal, world, process
  <2>2. CASE idem[k] # NoReq
    <3>1. \E l \in {"replied", "recovered"}, r \in Outs : Return(c, l, r)
      BY <2>2 DEF IdempotencyBegin, AnswerExisting, Recoverable, TypeOK, Outs, Terminal
    <3>2. UNCHANGED journal
      BY <2>2 DEF IdempotencyBegin, AnswerExisting
    <3> QED  BY <2>2, <3>1, <3>2
             DEF IdempotencyBegin, Return, Goto, TypeOK, PCs, journal, world, process
  <2> QED  BY <2>1, <2>2
<1>2. OneOwner'
  BY DEF IdempotencyBegin, AnswerExisting, Recoverable, Return, Goto, OneOwner, Owning, Executing, Call, TypeOK, journal, world, process, calls
<1>3. WorldLanded'
  BY DEF IdempotencyBegin, AnswerExisting, Recoverable, Return, Goto, WorldLanded, TypeOK, journal, world, process, calls
<1>4. \A q \in Keys : Record(q)'
  <2>0. ASSUME NEW q \in Keys PROVE Record(q)'
    <3>1. UNCHANGED <<op, recov, world, process, answered>>
      BY DEF IdempotencyBegin, AnswerExisting, journal
    <3>2. CASE idem'[q] = idem[q]
      BY <3>1, <3>2 DEF Record, world, process
    <3>3. CASE /\ idem[q] = NoReq
               /\ idem'[q] = [hash |-> h, answer |-> "pending"]
               /\ idem'[q] # NoReq
      BY <3>1, <3>3 DEF Record, world, process
    <3> QED  BY <3>2, <3>3 DEF IdempotencyBegin, AnswerExisting, TypeOK, journal
  <2> QED  BY <2>0
<1>5. ASSUME NEW d \in Calls PROVE Call(d)'
  BY DEF IdempotencyBegin, AnswerExisting, Recoverable, Return, Goto, Call, Record, OneOwner, Owning, Executing, Terminal, TypeOK,
         journal, world, process, calls
<1> QED  BY <1>1, <1>2, <1>3, <1>4, <1>5

\* RejectInvalid: the body does not decode or validate; nothing is journaled.
LEMMA RejectInv ==
  ASSUME BridgeInv, NEW c \in Calls, RejectInvalid(c)
  PROVE  BridgeInv'
<1> USE BridgeAssumption DEF BridgeInv
<1>1. TypeOK'
  BY DEF RejectInvalid, Return, Goto, TypeOK, OpStatus, JobStatus, PCs, Outs, Terminal, Executing, Call, Record,
         MaxExec, journal, world, process, calls
<1>2. OneOwner'
  BY DEF RejectInvalid, Return, Goto, OneOwner, Owning, Executing, Call, TypeOK, journal, world, process, calls
<1>3. WorldLanded'
  BY DEF RejectInvalid, Return, Goto, WorldLanded, TypeOK, journal, world, process, calls
<1>4. ASSUME NEW k \in Keys PROVE Record(k)'
  BY DEF RejectInvalid, Return, Goto, Record, Call, TypeOK, Terminal, Executing, journal, world, process, calls
<1>5. ASSUME NEW d \in Calls PROVE Call(d)'
  BY DEF RejectInvalid, Return, Goto, Call, Record, OneOwner, Owning, Executing, Terminal, TypeOK,
         journal, world, process, calls
<1> QED  BY <1>1, <1>2, <1>3, <1>4, <1>5

\* PersistRunningOperation: the operation is put as running.
LEMMA RunningInv ==
  ASSUME BridgeInv, NEW c \in Calls, PersistRunningOperation(c)
  PROVE  BridgeInv'
<1> USE BridgeAssumption DEF BridgeInv
<1>1. TypeOK'
  BY DEF PersistRunningOperation, PutOperation, Goto, TypeOK, OpStatus, JobStatus, PCs, Outs, Terminal, Executing, Call, Record,
         MaxExec, journal, world, process, calls
<1>2. OneOwner'
  BY DEF PersistRunningOperation, PutOperation, Goto, OneOwner, Owning, Executing, Call, TypeOK, journal, world, process, calls
<1>3. WorldLanded'
  BY DEF PersistRunningOperation, PutOperation, Goto, WorldLanded, TypeOK, journal, world, process, calls
<1>4. ASSUME NEW k \in Keys PROVE Record(k)'
  BY DEF PersistRunningOperation, PutOperation, Goto, Record, Call, TypeOK, Terminal, Executing, journal, world, process, calls
<1>5. ASSUME NEW d \in Calls PROVE Call(d)'
  BY DEF PersistRunningOperation, PutOperation, Goto, Call, Record, OneOwner, Owning, Executing, Terminal, TypeOK,
         journal, world, process, calls
<1> QED  BY <1>1, <1>2, <1>3, <1>4, <1>5

\* A local operation runs in its goroutine.
LEMMA LocalInv ==
  ASSUME BridgeInv, NEW c \in Calls, LocalAdapter(c)
  PROVE  BridgeInv'
<1> USE BridgeAssumption DEF BridgeInv
<1>1. TypeOK'
  <2>1. key[c] \in Keys /\ exec[key[c]] + 1 \in 0..MaxExec /\ TargetOf[key[c]] \in Targets
    <3>1. key[c] \in Keys /\ exec[key[c]] <= restarts
      BY DEF LocalAdapter, Call
    <3>2. exec[key[c]] \in Nat /\ restarts \in Nat /\ restarts <= MaxRestarts
      BY <3>1 DEF TypeOK
    <3> QED  BY <3>1, <3>2 DEF MaxExec
  <2>2. exec' \in [Keys -> 0..MaxExec]
    BY <2>1 DEF LocalAdapter, TypeOK
  <2>3. config' \in [Targets -> Keys \cup {NoReq}] /\ landed' \subseteq Keys
    BY <2>1 DEF LocalAdapter, Land, LeaveBehind, TypeOK
  <2>4. pc' \in [Calls -> PCs] /\ out' \in [Calls -> Outs]
    BY DEF LocalAdapter, Return, Goto, TypeOK, PCs, Outs, Terminal
  <2> QED  BY <2>2, <2>3, <2>4 DEF LocalAdapter, TypeOK, journal, process
<1>2. OneOwner'
  BY DEF LocalAdapter, Land, LeaveBehind, Return, Goto, OneOwner, Owning, Executing, Call, TypeOK, journal, world, process, calls
<1>3. WorldLanded'
  BY DEF LocalAdapter, Land, LeaveBehind, Return, Goto, WorldLanded, TypeOK, journal, world, process, calls
<1>4. ASSUME NEW k \in Keys PROVE Record(k)'
  BY DEF LocalAdapter, Land, LeaveBehind, Return, Goto, Record, Call, TypeOK, Terminal, Executing, journal, world, process, calls
<1>5. ASSUME NEW d \in Calls PROVE Call(d)'
  BY DEF LocalAdapter, Land, LeaveBehind, Return, Goto, Call, Record, OneOwner, Owning, Executing, Terminal, TypeOK,
         journal, world, process, calls
<1> QED  BY <1>1, <1>2, <1>3, <1>4, <1>5

\* PersistSafeOperation, on the error path and the result path.
LEMMA SafeInv ==
  ASSUME BridgeInv, NEW c \in Calls, PersistSafeOperation(c)
  PROVE  BridgeInv'
<1> USE BridgeAssumption DEF BridgeInv
<1>1. TypeOK'
  BY DEF PersistSafeOperation, PutOperation, Goto, TypeOK, OpStatus, JobStatus, PCs, Outs, Terminal, Executing, Call, Record,
         MaxExec, journal, world, process, calls
<1>2. OneOwner'
  BY DEF PersistSafeOperation, PutOperation, Goto, OneOwner, Owning, Executing, Call, TypeOK, journal, world, process, calls
<1>3. WorldLanded'
  BY DEF PersistSafeOperation, PutOperation, Goto, WorldLanded, TypeOK, journal, world, process, calls
<1>4. ASSUME NEW k \in Keys PROVE Record(k)'
  BY DEF PersistSafeOperation, PutOperation, Goto, Record, Call, TypeOK, Terminal, Executing, journal, world, process, calls
<1>5. ASSUME NEW d \in Calls PROVE Call(d)'
  BY DEF PersistSafeOperation, PutOperation, Goto, Call, Record, OneOwner, Owning, Executing, Terminal, TypeOK,
         journal, world, process, calls
<1> QED  BY <1>1, <1>2, <1>3, <1>4, <1>5

\* Salt does not take the job.
LEMMA DispatchFailsInv ==
  ASSUME BridgeInv, NEW c \in Calls, SaltDispatchFails(c)
  PROVE  BridgeInv'
<1> USE BridgeAssumption DEF BridgeInv
<1>1. TypeOK'
  BY DEF SaltDispatchFails, Return, Goto, TypeOK, OpStatus, JobStatus, PCs, Outs, Terminal, Executing, Call, Record,
         MaxExec, journal, world, process, calls
<1>2. OneOwner'
  BY DEF SaltDispatchFails, Return, Goto, OneOwner, Owning, Executing, Call, TypeOK, journal, world, process, calls
<1>3. WorldLanded'
  BY DEF SaltDispatchFails, Return, Goto, WorldLanded, TypeOK, journal, world, process, calls
<1>4. ASSUME NEW k \in Keys PROVE Record(k)'
  BY DEF SaltDispatchFails, Return, Goto, Record, Call, TypeOK, Terminal, Executing, journal, world, process, calls
<1>5. ASSUME NEW d \in Calls PROVE Call(d)'
  BY DEF SaltDispatchFails, Return, Goto, Call, Record, OneOwner, Owning, Executing, Terminal, TypeOK,
         journal, world, process, calls
<1> QED  BY <1>1, <1>2, <1>3, <1>4, <1>5

\* Salt takes the job before the journal knows of it.
LEMMA DispatchInv ==
  ASSUME BridgeInv, NEW c \in Calls, SaltDispatch(c)
  PROVE  BridgeInv'
<1> USE BridgeAssumption DEF BridgeInv
<1>1. TypeOK'
  BY DEF SaltDispatch, Goto, TypeOK, OpStatus, JobStatus, PCs, Outs, Terminal, Executing, Call, Record,
         MaxExec, journal, world, process, calls
<1>2. OneOwner'
  BY DEF SaltDispatch, Goto, OneOwner, Owning, Executing, Call, TypeOK, journal, world, process, calls
<1>3. WorldLanded'
  BY DEF SaltDispatch, Goto, WorldLanded, TypeOK, journal, world, process, calls
<1>4. ASSUME NEW k \in Keys PROVE Record(k)'
  BY DEF SaltDispatch, Goto, Record, Call, TypeOK, Terminal, Executing, journal, world, process, calls
<1>5. ASSUME NEW d \in Calls PROVE Call(d)'
  BY DEF SaltDispatch, Goto, Call, Record, OneOwner, Owning, Executing, Terminal, TypeOK,
         journal, world, process, calls
<1> QED  BY <1>1, <1>2, <1>3, <1>4, <1>5

\* PutRunningSaltOperation records the job, or fails to.
LEMMA RecordInv ==
  ASSUME BridgeInv, NEW c \in Calls, PutRunningSaltOperation(c)
  PROVE  BridgeInv'
<1> USE BridgeAssumption DEF BridgeInv
<1>1. TypeOK'
  <2>1. key[c] \in Keys
    BY DEF PutRunningSaltOperation, Call
  <2>2. op' \in [Keys -> OpStatus] /\ recov' \in [Keys -> 0..MaxExec]
    BY <2>1 DEF PutRunningSaltOperation, TypeOK, OpStatus
  <2>3. pc' \in [Calls -> PCs] /\ out' \in [Calls -> Outs]
    BY DEF PutRunningSaltOperation, Return, Goto, TypeOK, PCs, Executing, Outs, Terminal
  <2> QED  BY <2>2, <2>3 DEF PutRunningSaltOperation, TypeOK, world, process
<1>2. OneOwner'
  BY DEF PutRunningSaltOperation, Return, Goto, OneOwner, Owning, Executing, Call, TypeOK, journal, world, process, calls
<1>3. WorldLanded'
  BY DEF PutRunningSaltOperation, Return, Goto, WorldLanded, TypeOK, journal, world, process, calls
<1>4. ASSUME NEW k \in Keys PROVE Record(k)'
  BY DEF PutRunningSaltOperation, Return, Goto, Record, Call, TypeOK, Terminal, Executing, journal, world, process, calls
<1>5. ASSUME NEW d \in Calls PROVE Call(d)'
  BY DEF PutRunningSaltOperation, Return, Goto, Call, Record, OneOwner, Owning, Executing, Terminal, TypeOK,
         journal, world, process, calls
<1> QED  BY <1>1, <1>2, <1>3, <1>4, <1>5

\* finishSaltOperation; if its write fails the request fails.
LEMMA FinishSaltInv ==
  ASSUME BridgeInv, NEW c \in Calls, FinishSaltOperation(c)
  PROVE  BridgeInv'
<1> USE BridgeAssumption DEF BridgeInv
<1> DEFINE q == key[c]
<1>1. q \in Keys /\ recov[q] # 0
  BY DEF FinishSaltOperation, Call, Executing
<1>2. PICK v \in Terminal : /\ v = "succeeded" => q \in landed
                            /\ \/ op' = [op EXCEPT ![q] = v]
                               \/ op' = op /\ v = "failed"
                            /\ pc' = [pc EXCEPT ![c] = "finishing"]
                            /\ out' = [out EXCEPT ![c] = v]
  BY <1>1, SaltOutcomeLanded DEF FinishSaltOperation, Return, Goto, Terminal
<1>3. /\ pc[c] = "polling"
      /\ UNCHANGED <<idem, recov, world, process, key, hash, gone, answered>>
  BY DEF FinishSaltOperation
<1>4. TypeOK'
  BY <1>1, <1>2, <1>3 DEF TypeOK, OpStatus, PCs, Outs, Terminal, world, process
<1>5. OneOwner' /\ WorldLanded'
  BY <1>2, <1>3 DEF OneOwner, WorldLanded, Owning, Executing, TypeOK, world
<1>6. ASSUME NEW k \in Keys PROVE Record(k)'
  BY <1>1, <1>2, <1>3 DEF Record, Call, TypeOK, Executing, Terminal, world, process
<1>7. ASSUME NEW d \in Calls PROVE Call(d)'
  BY <1>1, <1>2, <1>3
     DEF Call, OneOwner, Owning, Executing, Terminal, TypeOK, world, process
<1> QED  BY <1>4, <1>5, <1>6, <1>7

\* DeleteSaltRecovery, whose error is dropped.
LEMMA DeleteInv ==
  ASSUME BridgeInv, NEW c \in Calls, DeleteSaltRecovery(c)
  PROVE  BridgeInv'
<1> USE BridgeAssumption DEF BridgeInv
<1>1. TypeOK'
  <2>1. key[c] \in Keys /\ 0 \in 0..MaxExec
    BY DEF DeleteSaltRecovery, Call, MaxExec
  <2>2. recov' \in [Keys -> 0..MaxExec] /\ pc' \in [Calls -> PCs]
    BY <2>1 DEF DeleteSaltRecovery, Goto, TypeOK, PCs
  <2> QED  BY <2>2 DEF DeleteSaltRecovery, TypeOK, world, process
<1>2. OneOwner'
  BY DEF DeleteSaltRecovery, Goto, OneOwner, Owning, Executing, Call, TypeOK, journal, world, process, calls
<1>3. WorldLanded'
  BY DEF DeleteSaltRecovery, Goto, WorldLanded, TypeOK, journal, world, process, calls
<1>4. ASSUME NEW k \in Keys PROVE Record(k)'
  BY DEF DeleteSaltRecovery, Goto, Record, Call, TypeOK, Terminal, Executing, journal, world, process, calls
<1>5. ASSUME NEW d \in Calls PROVE Call(d)'
  BY DEF DeleteSaltRecovery, Goto, Call, Record, OneOwner, Owning, Executing, Terminal, TypeOK,
         journal, world, process, calls
<1> QED  BY <1>1, <1>2, <1>3, <1>4, <1>5

\* IdempotencyPut replaces the record.
LEMMA PutInv ==
  ASSUME BridgeInv, NEW c \in Calls, IdempotencyPut(c)
  PROVE  BridgeInv'
<1> USE BridgeAssumption DEF BridgeInv
<1>1. TypeOK'
  BY DEF IdempotencyPut, Return, Goto, TypeOK, OpStatus, JobStatus, PCs, Outs, Terminal, Executing, Call, Record,
         MaxExec, journal, world, process, calls
<1>2. OneOwner'
  BY DEF IdempotencyPut, Return, Goto, OneOwner, Owning, Executing, Call, TypeOK, journal, world, process, calls
<1>3. WorldLanded'
  BY DEF IdempotencyPut, Return, Goto, WorldLanded, TypeOK, journal, world, process, calls
<1>4. ASSUME NEW k \in Keys PROVE Record(k)'
  BY DEF IdempotencyPut, Return, Goto, Record, Call, TypeOK, Terminal, Executing, journal, world, process, calls
<1>5. ASSUME NEW d \in Calls PROVE Call(d)'
  BY DEF IdempotencyPut, Return, Goto, Call, Record, OneOwner, Owning, Executing, Terminal, TypeOK,
         journal, world, process, calls
<1> QED  BY <1>1, <1>2, <1>3, <1>4, <1>5

\* The goroutine ends; a caller still there has the response.
LEMMA ReplyInv ==
  ASSUME BridgeInv, NEW c \in Calls, Reply(c)
  PROVE  BridgeInv'
<1> USE BridgeAssumption DEF BridgeInv
<1>1. TypeOK'
  BY DEF Reply, TypeOK, OpStatus, JobStatus, PCs, Outs, Terminal, Executing, Call, Record,
         MaxExec, journal, world, process, calls
<1>2. OneOwner'
  BY DEF Reply, OneOwner, Owning, Executing, Call, TypeOK, journal, world, process, calls
<1>3. WorldLanded'
  BY DEF Reply, WorldLanded, TypeOK, journal, world, process, calls
<1>4. ASSUME NEW k \in Keys PROVE Record(k)'
  BY DEF Reply, Record, Call, TypeOK, Terminal, Executing, journal, world, process, calls
<1>5. ASSUME NEW d \in Calls PROVE Call(d)'
  BY DEF Reply, Call, Record, OneOwner, Owning, Executing, Terminal, TypeOK,
         journal, world, process, calls
<1> QED  BY <1>1, <1>2, <1>3, <1>4, <1>5

\* A caller goes away; its operation goes on.
LEMMA DisconnectInv ==
  ASSUME BridgeInv, NEW c \in Calls, Disconnect(c)
  PROVE  BridgeInv'
<1> USE BridgeAssumption DEF BridgeInv
<1>1. TypeOK'
  BY DEF Disconnect, TypeOK, OpStatus, JobStatus, PCs, Outs, Terminal, Executing, Call, Record,
         MaxExec, journal, world, process, calls
<1>2. OneOwner'
  BY DEF Disconnect, OneOwner, Owning, Executing, Call, TypeOK, journal, world, process, calls
<1>3. WorldLanded'
  BY DEF Disconnect, WorldLanded, TypeOK, journal, world, process, calls
<1>4. ASSUME NEW k \in Keys PROVE Record(k)'
  BY DEF Disconnect, Record, Call, TypeOK, Terminal, Executing, journal, world, process, calls
<1>5. ASSUME NEW d \in Calls PROVE Call(d)'
  BY DEF Disconnect, Call, Record, OneOwner, Owning, Executing, Terminal, TypeOK,
         journal, world, process, calls
<1> QED  BY <1>1, <1>2, <1>3, <1>4, <1>5

\* The minion executes a job.
LEMMA MinionInv ==
  ASSUME BridgeInv, NEW q \in SaltKeys, NEW n \in 1..exec[q], MinionRuns(<<q, n>>)
  PROVE  BridgeInv'
<1> USE BridgeAssumption DEF BridgeInv
<1>1. TypeOK'
  <2>1. q \in Keys /\ <<q, n>> \in Keys \X (1..MaxExec) /\ TargetOf[q] \in Targets
    <3>1. q \in Keys /\ TargetOf[q] \in Targets
      OBVIOUS
    <3>2. exec[q] \in 0..MaxExec /\ MaxExec \in Nat
      BY <3>1 DEF TypeOK, MaxExec
    <3>3. n \in 1..MaxExec
      BY <3>2
    <3> QED  BY <3>1, <3>3
  <2>2. job' \in [Keys \X (1..MaxExec) -> JobStatus]
    BY <2>1 DEF MinionRuns, TypeOK, JobStatus
  <2>3. config' \in [Targets -> Keys \cup {NoReq}] /\ landed' \subseteq Keys
    BY <2>1 DEF MinionRuns, Land, LeaveBehind, TypeOK
  <2> QED  BY <2>2, <2>3 DEF MinionRuns, TypeOK, journal, process, calls
<1>2. OneOwner'
  BY DEF MinionRuns, Land, LeaveBehind, OneOwner, Owning, Executing, Call, TypeOK, journal, world, process, calls
<1>3. WorldLanded'
  BY DEF MinionRuns, Land, LeaveBehind, WorldLanded, TypeOK, journal, world, process, calls
<1>4. ASSUME NEW k \in Keys PROVE Record(k)'
  BY DEF MinionRuns, Land, LeaveBehind, Record, Call, TypeOK, Terminal, Executing, journal, world, process, calls
<1>5. ASSUME NEW d \in Calls PROVE Call(d)'
  BY DEF MinionRuns, Land, LeaveBehind, Call, Record, OneOwner, Owning, Executing, Terminal, TypeOK,
         journal, world, process, calls
<1> QED  BY <1>1, <1>2, <1>3, <1>4, <1>5

\* A stop ends every goroutine and keeps the journal and the jobs.
LEMMA RestartInv ==
  ASSUME BridgeInv, Restart
  PROVE  BridgeInv'
<1> USE BridgeAssumption DEF BridgeInv
<1>1. TypeOK'
  <2>1. restarts' \in 0..MaxRestarts
    BY DEF Restart, TypeOK
  <2> QED  BY <2>1 DEF Restart, TypeOK, PCs, Outs, journal, world
<1>2. OneOwner'
  BY DEF Restart, OneOwner, Owning, Executing, Call, TypeOK, journal, world, process, calls
<1>3. WorldLanded'
  BY DEF Restart, WorldLanded, TypeOK, journal, world, process, calls
<1>4. ASSUME NEW k \in Keys PROVE Record(k)'
  BY DEF Restart, Record, Call, TypeOK, Terminal, Executing, journal, world, process, calls
<1>5. ASSUME NEW d \in Calls PROVE Call(d)'
  BY DEF Restart, Call, Record, OneOwner, Owning, Executing, Terminal, TypeOK,
         journal, world, process, calls
<1> QED  BY <1>1, <1>2, <1>3, <1>4, <1>5

\* One recovery record of RecoverOperations.
LEMMA RecoverInv ==
  ASSUME BridgeInv, NEW q \in Keys, RecoverSalt(q)
  PROVE  BridgeInv'
<1> USE BridgeAssumption DEF BridgeInv
<1>1. /\ ~up /\ recov[q] # 0
      /\ UNCHANGED <<idem, world, up, calls, answered>>
  BY DEF RecoverSalt
<1>2. /\ op' = op \/ \E v \in Terminal : /\ v = "succeeded" => q \in landed
                                         /\ op' = [op EXCEPT ![q] = v]
      /\ recov' = recov \/ recov' = [recov EXCEPT ![q] = 0]
      /\ restarts' = restarts \/ (restarts' = restarts + 1 /\ restarts < MaxRestarts)
  BY <1>1, SaltOutcomeLanded DEF RecoverSalt
<1>3. TypeOK'
  <2>1. op' \in [Keys -> OpStatus]
    BY <1>2 DEF TypeOK, OpStatus
  <2>2. recov' \in [Keys -> 0..MaxExec] /\ restarts' \in 0..MaxRestarts
    BY <1>2 DEF TypeOK, MaxExec
  <2> QED  BY <1>1, <2>1, <2>2 DEF TypeOK, world, calls
<1>4. OneOwner' /\ WorldLanded'
  BY <1>1 DEF OneOwner, WorldLanded, world, calls
<1>5. ASSUME NEW k \in Keys PROVE Record(k)'
  <2>1. restarts <= restarts' /\ restarts \in Nat /\ restarts' \in Nat /\ exec[k] \in Nat
    BY <1>2 DEF TypeOK
  <2>2. op'[k] \in Terminal => op[k] \in Terminal \/ k = q
    BY <1>2 DEF TypeOK
  <2>3. recov[k] = 0 => recov'[k] = 0
    BY <1>2 DEF TypeOK
  <2>4. op'[k] = "succeeded" => k \in landed
    BY <1>2 DEF Record, TypeOK
  <2> QED  BY <1>1, <2>1, <2>2, <2>3, <2>4 DEF Record, world
<1>6. ASSUME NEW d \in Calls PROVE Call(d)'
  BY <1>1 DEF Call, Executing, calls, world
<1> QED  BY <1>3, <1>4, <1>5, <1>6

\* Start-up has ended and the Bridge serves.
LEMMA ServeInv ==
  ASSUME BridgeInv, Serve
  PROVE  BridgeInv'
<1> USE BridgeAssumption DEF BridgeInv
<1>1. TypeOK'
  BY DEF Serve, SaltRecovered, DroppedAtStart, TypeOK, OpStatus, JobStatus, PCs, Outs, Terminal, Executing, Call, Record,
         MaxExec, journal, world, process, calls
<1>2. OneOwner'
  BY DEF Serve, SaltRecovered, DroppedAtStart, OneOwner, Owning, Executing, Call, TypeOK, journal, world, process, calls
<1>3. WorldLanded'
  BY DEF Serve, SaltRecovered, DroppedAtStart, WorldLanded, TypeOK, journal, world, process, calls
<1>4. ASSUME NEW k \in Keys PROVE Record(k)'
  BY DEF Serve, SaltRecovered, DroppedAtStart, Record, Call, TypeOK, Terminal, Executing, journal, world, process, calls
<1>5. ASSUME NEW d \in Calls PROVE Call(d)'
  BY DEF Serve, SaltRecovered, DroppedAtStart, Call, Record, OneOwner, Owning, Executing, Terminal, TypeOK,
         journal, world, process, calls
<1> QED  BY <1>1, <1>2, <1>3, <1>4, <1>5

\* No step disturbs BridgeInv.
LEMMA NextInv == BridgeInv /\ [Next]_vars => BridgeInv'
<1> SUFFICES ASSUME BridgeInv, [Next]_vars PROVE BridgeInv'
  OBVIOUS
<1>1. CASE UNCHANGED vars
  <2>1. UNCHANGED <<idem, op, recov, exec, job, config, landed, up, restarts,
                    pc, key, hash, out, gone, answered>>
    BY <1>1 DEF vars, journal, world, process, calls
  <2>2. TypeOK' /\ OneOwner' /\ WorldLanded'
    BY <2>1 DEF BridgeInv, TypeOK, OneOwner, WorldLanded
  <2>3. \A k \in Keys : Record(k)'
    BY <2>1 DEF BridgeInv, Record
  <2>4. \A c \in Calls : Call(c)'
    BY <2>1 DEF BridgeInv, Call
  <2> QED  BY <2>2, <2>3, <2>4 DEF BridgeInv
<1>2. ASSUME NEW c \in Calls, NEW k \in Keys, NEW h \in Hashes, IdempotencyBegin(c, k, h)
      PROVE  BridgeInv'
  BY <1>2, BeginInv
<1>3. ASSUME NEW c \in Calls, Handle(c) PROVE BridgeInv'
  BY <1>3, RejectInv, RunningInv, LocalInv, SafeInv, DispatchFailsInv, DispatchInv,
     RecordInv, FinishSaltInv, DeleteInv, PutInv DEF Handle
<1>4. ASSUME NEW c \in Calls, Reply(c) \/ Disconnect(c) PROVE BridgeInv'
  BY <1>4, ReplyInv, DisconnectInv
<1>5. CASE \E k \in SaltKeys : \E n \in 1..exec[k] : MinionRuns(<<k, n>>)
  BY <1>5, MinionInv
<1>6. CASE Restart
  BY <1>6, RestartInv
<1>7. CASE Recovery
  BY <1>7, ServeInv, RecoverInv DEF Recovery
<1> QED  BY <1>1, <1>2, <1>3, <1>4, <1>5, <1>6, <1>7 DEF Next

-----------------------------------------------------------------------------
(* Theorems *)

\* BridgeInv is an invariant of the Bridge.
THEOREM BridgeInvariant == Spec => []BridgeInv
<1>1. Init => BridgeInv
  BY InitInv
<1>2. BridgeInv /\ [Next]_vars => BridgeInv'
  BY NextInv
<1> QED  BY <1>1, <1>2, PTL DEF Spec

\* All answers of a key are those of its record.
LEMMA InvAnswers == BridgeInv => OneAnswer
<1> SUFFICES ASSUME BridgeInv, NEW k \in Keys PROVE Cardinality(answered[k]) <= 1
  BY DEF OneAnswer
<1>1. CASE answered[k] = {}
  BY <1>1, FS_EmptySet
<1>2. CASE answered[k] # {}
  <2>1. PICK x : answered[k] = {x}
    BY <1>2 DEF BridgeInv, Record
  <2>2. Cardinality({x}) = 1
    BY FS_Singleton
  <2> QED  BY <2>1, <2>2
<1> QED  BY <1>1, <1>2

\* Every caller of one idempotency key is told the same result: the handler,
\* the stored response of Server.mutation and the response recovered from the
\* operation agree, across any number of restarts and failed journal writes.
THEOREM AnswersAgree == Spec => []OneAnswer
<1>1. BridgeInv => OneAnswer
  BY InvAnswers
<1> QED  BY <1>1, BridgeInvariant, PTL

\* A stored success has landed.
LEMMA InvApplied == BridgeInv => SuccessMeansApplied
  BY DEF BridgeInv, SuccessMeansApplied, Record

\* A success that a caller was told, or that the operations bucket holds, has
\* reached its target (saltMutation, RecoverOperations and the adapter's result).
THEOREM SuccessesApplied == Spec => []SuccessMeansApplied
<1>1. BridgeInv => SuccessMeansApplied
  BY InvApplied
<1> QED  BY <1>1, BridgeInvariant, PTL

\* Only the owner of a record executes.
LEMMA InvOncePerLife == BridgeInv => ExecutedOncePerLife
<1> SUFFICES ASSUME BridgeInv PROVE ExecutedOncePerLife
  OBVIOUS
<1>1. \A k \in Keys : exec[k] <= restarts + 1
  BY DEF BridgeInv, Record
<1>2. \A c, d \in Calls : c # d /\ {pc[c], pc[d]} \subseteq Executing => key[c] # key[d]
  BY DEF BridgeInv, OneOwner, Owning
<1> QED  BY <1>1, <1>2 DEF ExecutedOncePerLife

\* IdempotencyBegin lets one goroutine at a time execute a key, and the adapter
\* runs at most once per key between two stops of the Bridge.
THEOREM ExecutesOncePerLife == Spec => []ExecutedOncePerLife
<1>1. BridgeInv => ExecutedOncePerLife
  BY InvOncePerLife
<1> QED  BY <1>1, BridgeInvariant, PTL

\* A terminal operation is neither executed nor recorded again: not by a late
\* goroutine, a repeated request, a failed journal write or a restart.
THEOREM FinishedOperationsStay == Spec => FinishedStays
<1>1. BridgeInv /\ [Next]_vars =>
        [\A k \in Keys : op[k] \in Terminal => op'[k] = op[k] /\ exec'[k] = exec[k]]_vars
  <2> SUFFICES ASSUME BridgeInv, Next, NEW k \in Keys, op[k] \in Terminal
               PROVE  op'[k] = op[k] /\ exec'[k] = exec[k]
    OBVIOUS
  <2> USE DEF BridgeInv
  <2>1. ASSUME NEW c \in Calls, Handle(c) PROVE op'[k] = op[k] /\ exec'[k] = exec[k]
    <3>1. CASE pc[c] \in Executing
      <4>1. key[c] # k
        BY <3>1, <2>1 DEF Call
      <4> QED  BY <2>1, <3>1, <4>1
               DEF Handle, RejectInvalid, PersistRunningOperation, LocalAdapter,
                   PersistSafeOperation, SaltDispatchFails, SaltDispatch,
                   PutRunningSaltOperation, FinishSaltOperation, DeleteSaltRecovery,
                   IdempotencyPut, PutOperation, TypeOK, journal, world
    <3>2. CASE pc[c] \notin Executing
      <4>1. PersistSafeOperation(c) \/ DeleteSaltRecovery(c) \/ IdempotencyPut(c)
        BY <2>1, <3>2
           DEF Handle, RejectInvalid, PersistRunningOperation, LocalAdapter,
               SaltDispatchFails, SaltDispatch, PutRunningSaltOperation,
               FinishSaltOperation, Executing
      <4>2. pc[c] = "returned" /\ key[c] = k => op[k] = out[c]
        BY DEF Call
      <4> QED  BY <4>1, <4>2
               DEF PersistSafeOperation, PutOperation, DeleteSaltRecovery, IdempotencyPut,
                   TypeOK, world
    <3> QED  BY <3>1, <3>2
  <2>2. ASSUME NEW q \in Keys, RecoverSalt(q) PROVE op'[k] = op[k] /\ exec'[k] = exec[k]
    BY <2>2 DEF RecoverSalt, TypeOK, Terminal, world
  <2>3. CASE \/ \E c \in Calls, q \in Keys, h \in Hashes : IdempotencyBegin(c, q, h)
             \/ \E c \in Calls : Reply(c) \/ Disconnect(c)
             \/ \E q \in SaltKeys : \E n \in 1..exec[q] : MinionRuns(<<q, n>>)
             \/ Restart \/ Serve
    BY <2>3 DEF IdempotencyBegin, AnswerExisting, Reply, Disconnect, MinionRuns, Restart, Serve,
                journal, world
  <2> QED  BY <2>1, <2>2, <2>3 DEF Next, Recovery
<1> QED  BY <1>1, BridgeInvariant, PTL DEF Spec, FinishedStays

\* With a journal whose writes succeed, the goroutine that recorded a Salt job
\* is still there to poll it and delete the record; after a stop, no request is
\* served before RecoverOperations has dealt with every record.
Driven ==
    up => \A k \in Keys : recov[k] # 0 =>
              \E c \in Calls : key[c] = k /\ pc[c] \in {"polling", "finishing"}

\* A recorded job keeps its goroutine, or the recovery that takes it up.
LEMMA DrivenNext ==
  ASSUME BridgeInv, Driven, [Next]_vars, ~JournalErrors
  PROVE  Driven'
<1> USE DEF BridgeInv
<1> SUFFICES ASSUME up', NEW k \in Keys, recov'[k] # 0
             PROVE  \E c \in Calls : key'[c] = k /\ pc'[c] \in {"polling", "finishing"}
  BY DEF Driven
<1>1. CASE UNCHANGED <<recov, up, key, pc>>
  BY <1>1 DEF Driven
<1>2. CASE Restart \/ Recovery
  BY <1>2 DEF Restart, Recovery, Serve, SaltRecovered, RecoverSalt
<1>3. ASSUME NEW c \in Calls,
             \/ \E q \in Keys, h \in Hashes : IdempotencyBegin(c, q, h)
             \/ Handle(c)
             \/ Reply(c)
      PROVE  \E d \in Calls : key'[d] = k /\ pc'[d] \in {"polling", "finishing"}
  <2>1. /\ up' = up
        /\ \A d \in Calls \ {c} : key'[d] = key[d] /\ pc'[d] = pc[d]
    <3>1. CASE Handle(c)
      <4>1. /\ UNCHANGED <<up, key>>
            /\ \E l \in PCs : Goto(c, l)
        BY <3>1 DEF Handle, RejectInvalid,
                PersistRunningOperation, LocalAdapter, PersistSafeOperation,
                SaltDispatchFails, SaltDispatch, PutRunningSaltOperation,
                FinishSaltOperation, DeleteSaltRecovery, IdempotencyPut,
                Return, process, PCs, Executing
      <4> QED  BY <4>1 DEF Goto, TypeOK
    <3>2. CASE Reply(c)
      BY <3>2 DEF Reply, TypeOK, process
    <3>3. ASSUME NEW q \in Keys, NEW h \in Hashes, IdempotencyBegin(c, q, h)
          PROVE  /\ up' = up
                 /\ \A d \in Calls \ {c} : key'[d] = key[d] /\ pc'[d] = pc[d]
      BY <3>3 DEF IdempotencyBegin, AnswerExisting, Return, Goto, TypeOK, process
    <3> QED  BY <1>3, <3>1, <3>2, <3>3
  <2>2. CASE PutRunningSaltOperation(c)
    <3>1. key' = key /\ pc'[c] = "polling"
      BY <2>2 DEF PutRunningSaltOperation, Goto, TypeOK
    <3>2. k # key[c] => recov'[k] = recov[k]
      BY <2>2 DEF PutRunningSaltOperation, TypeOK
    <3> QED  BY <2>1, <3>1, <3>2 DEF Driven
  <2>3. CASE DeleteSaltRecovery(c)
    <3>1. k # key[c] /\ recov[k] # 0
      BY <2>3 DEF DeleteSaltRecovery, TypeOK
    <3> QED  BY <2>1, <3>1 DEF Driven
  <2>4. CASE FinishSaltOperation(c)
    <3>1. recov' = recov /\ key' = key /\ pc'[c] = "finishing"
      BY <2>4 DEF FinishSaltOperation, Return, Goto, TypeOK
    <3> QED  BY <2>1, <3>1 DEF Driven
  <2>5. CASE recov' = recov /\ pc[c] \notin {"polling", "finishing"}
    BY <2>1, <2>5 DEF Driven
  <2> QED  BY <1>3, <2>2, <2>3, <2>4, <2>5
           DEF IdempotencyBegin, AnswerExisting, Handle, RejectInvalid,
               PersistRunningOperation, LocalAdapter, PersistSafeOperation,
               SaltDispatchFails, SaltDispatch, IdempotencyPut, Reply, journal
<1>4. CASE \/ \E c \in Calls : Disconnect(c)
           \/ \E q \in SaltKeys : \E n \in 1..exec[q] : MinionRuns(<<q, n>>)
           \/ UNCHANGED vars
  BY <1>1, <1>4 DEF Disconnect, MinionRuns, vars, journal, process, calls
<1> QED  BY <1>2, <1>3, <1>4 DEF Next

\* While the socket is open, a running Salt operation with a recovery record is
\* polled by a goroutine of this process. The hypothesis is needed: when both
\* the settling write and DeleteSaltRecovery fail, the record outlives its
\* goroutine until the next start.
THEOREM RecordedJobsDriven ==
  ASSUME ~JournalErrors
  PROVE  Spec => []RecordedJobIsDriven
<1>1. Init => Driven
  BY DEF Init, Driven
<1>2. BridgeInv /\ Driven /\ [Next]_vars => Driven'
  BY DrivenNext
<1>3. Driven => RecordedJobIsDriven
  BY DEF Driven, RecordedJobIsDriven
<1> QED  BY <1>1, <1>2, <1>3, BridgeInvariant, PTL DEF Spec

=============================================================================
