------------------------ MODULE OperationQueueProofs ------------------------
(***************************************************************************)
(* TLAPS proofs about OperationQueue: its type invariant and the exclusive *)
(* use of a target, for any number of operations, targets, nodes, workers  *)
(* and restarts, with store errors and cancellation.                       *)
(***************************************************************************)
EXTENDS OperationQueue, TLAPS

\* No two rows own one target: what the partial unique index keeps.
Index == OneActiveIndex(status, pend)

\* An operation id that was never inserted has no rows.
FreshIds == \A r \in Rows : opStatus[r[1]] = "none" => status[r] = "none"

\* A worker between claim and finish holds a running row of its own, and no
\* worker holds anything while Recover runs.
Holding ==
    /\ \A w \in Workers : pc[w] # "idle" => item[w] \in Rows
    /\ \A w \in Workers : Executing(w) => status[item[w]] = "running"
    /\ \A v, w \in Workers :
          v # w /\ Executing(v) /\ Executing(w) => item[v] # item[w]
    /\ phase = "recovering" => \A w \in Workers : pc[w] = "idle"

\* The inductive invariant behind ExclusiveTarget.
QueueInv == TypeOK /\ Index /\ FreshIds /\ Holding

\* recalculateOperation never yields a status outside the closed vocabulary.
LEMMA AggregateType == \A S : Aggregate(S) \in Terminal
  BY DEF Aggregate, Terminal

LEMMA RecalculatedType ==
  ASSUME TypeOK, NEW o \in Ops, NEW st, NEW pd
  PROVE  /\ Recalculated(o, st, pd) \in RowStatus
         /\ opStatus[o] # "none" => Recalculated(o, st, pd) # "none"
  BY AggregateType DEF Recalculated, RowStatus, Terminal, Live, TypeOK

\* A transaction that takes no new ownership cannot break the index.
LEMMA IndexShrinks ==
  ASSUME NEW st, NEW pd, NEW st2, NEW pd2,
         OneActiveIndex(st, pd),
         Owners(st2, pd2) \subseteq Owners(st, pd)
  PROVE  OneActiveIndex(st2, pd2)
  BY DEF OneActiveIndex

\* The initial database satisfies the invariant.
LEMMA InitInv == Init => QueueInv
<1> SUFFICES ASSUME Init PROVE QueueInv
  OBVIOUS
<1>1. TypeOK
  BY ConstantsAssumption DEF Init, TypeOK, RowStatus, Kinds
<1>2. Index
  BY DEF Init, Index, OneActiveIndex, Owners, Live
<1>3. FreshIds
  BY DEF Init, FreshIds
<1>4. Holding
  BY DEF Init, Holding, Executing
<1> QED  BY <1>1, <1>2, <1>3, <1>4 DEF QueueInv

\* Inserting the rows of a fresh operation.
LEMMA InsertInv ==
  ASSUME QueueInv, NEW o \in Ops, NEW k \in Kinds, NEW T \in SUBSET Targets,
         NEW st \in [Rows -> {"queued", "succeeded"}],
         NEW pd \in SUBSET Rows, NEW edges \in SUBSET (Rows \X Rows),
         InsertRows(o, k, {o} \X T, st, pd, edges)
  PROVE  QueueInv'
<1> USE DEF QueueInv
<1>1. status' = [r \in Rows |-> IF r \in {o} \X T THEN st[r] ELSE status[r]]
  BY DEF InsertRows
<1>2. \A r \in Rows : status[r] # "none" => status'[r] = status[r]
  BY <1>1 DEF InsertRows, FreshIds, Rows
<1>3. TypeOK'
  BY <1>1 DEF InsertRows, TypeOK, RowStatus, Live, Terminal, workVars, procVars
<1>4. Index'
  BY <1>1 DEF InsertRows, Index
<1>5. FreshIds'
  BY <1>1 DEF InsertRows, FreshIds, TypeOK, Rows
<1>6. Holding'
  BY <1>2 DEF InsertRows, Holding, Executing, workVars, procVars
<1> QED  BY <1>3, <1>4, <1>5, <1>6

LEMMA CreateInv == QueueInv /\ Create => QueueInv'
<1> SUFFICES ASSUME QueueInv, Create PROVE QueueInv'
  OBVIOUS
<1>1. PICK o \in Ops :
        \/ \E k \in ApiKinds, T \in SUBSET Targets : CreateOperation(o, k, T)
        \/ \E c \in Clients : CreateProfileApplyOperation(o, c)
        \/ \E old \in Ops : RetryFailedTargets(o, old)
        \/ \E old \in Ops : RetryProfileApplyTargets(o, old)
  BY DEF Create
<1> DEFINE queued == [r \in Rows |-> "queued"]
<1>q. queued \in [Rows -> {"queued", "succeeded"}]
  OBVIOUS
<1>2. CASE \E k \in ApiKinds, T \in SUBSET Targets : CreateOperation(o, k, T)
  <2>1. PICK k \in ApiKinds, T \in SUBSET Targets : CreateOperation(o, k, T)
    BY <1>2
  <2> DEFINE pd == IF k = "relay_config_apply" THEN {o} \X T ELSE {}
  <2>2. k \in Kinds /\ pd \subseteq Rows
    BY ConstantsAssumption DEF Kinds, Rows
  <2>3. InsertRows(o, k, {o} \X T, queued, pd, {})
    BY <2>1 DEF CreateOperation
  <2>4. {} \in SUBSET (Rows \X Rows) /\ pd \in SUBSET Rows
    BY <2>2
  <2> HIDE DEF pd, queued
  <2> QED  BY <2>2, <2>3, <2>4, <1>q, InsertInv
<1>3. CASE \E c \in Clients : CreateProfileApplyOperation(o, c)
  <2>1. PICK c \in Clients : CreateProfileApplyOperation(o, c)
    BY <1>3
  <2> DEFINE T == {c, Relay}
             edges == {<< <<o, Relay>>, <<o, c>> >>}
  <2>2. T \in SUBSET Targets /\ {o} \X T \subseteq Rows /\ edges \subseteq Rows \X Rows
    BY ConstantsAssumption DEF Rows
  <2>3. "apply" \in Kinds
    BY DEF Kinds
  <2>4. InsertRows(o, "apply", {o} \X T, queued, {o} \X T, edges)
    BY <2>1 DEF CreateProfileApplyOperation
  <2> HIDE DEF T, edges, queued
  <2> QED  BY <2>2, <2>3, <2>4, <1>q, InsertInv
<1>4. CASE \E old \in Ops : RetryFailedTargets(o, old)
  <2>1. PICK old \in Ops : RetryFailedTargets(o, old)
    BY <1>4
  <2> DEFINE T == {t \in Targets : status[<<old, t>>] \in {"failed", "partial"}}
             pd == IF kind[old] = "relay_config_apply" THEN {o} \X T ELSE {}
  <2>2. kind[old] \in Kinds /\ T \in SUBSET Targets /\ pd \subseteq Rows
    BY DEF QueueInv, TypeOK, Rows
  <2>3. InsertRows(o, kind[old], {o} \X T, queued, pd, {})
    BY <2>1 DEF RetryFailedTargets
  <2>4. {} \in SUBSET (Rows \X Rows) /\ pd \in SUBSET Rows
    BY <2>2
  <2> HIDE DEF T, pd, queued
  <2> QED  BY <2>2, <2>3, <2>4, <1>q, InsertInv
<1>5. CASE \E old \in Ops : RetryProfileApplyTargets(o, old)
  <2>1. PICK old \in Ops : RetryProfileApplyTargets(o, old)
    BY <1>5
  <2> DEFINE T == {r[2] : r \in RowsOf(old)}
             st == [r \in Rows |-> IF status[<<old, r[2]>>] = "succeeded"
                                   THEN "succeeded" ELSE "queued"]
             edges == {<< <<o, Relay>>, <<o, t>> >> : t \in T \ {Relay}}
  <2>2. T \in SUBSET Targets /\ {o} \X T \subseteq Rows
    BY DEF RowsOf, Rows
  <2>3. edges \subseteq Rows \X Rows
    BY <2>2, ConstantsAssumption DEF Rows
  <2>4. st \in [Rows -> {"queued", "succeeded"}]
    OBVIOUS
  <2>5. "apply" \in Kinds
    BY DEF Kinds
  <2>6. InsertRows(o, "apply", {o} \X T, st, {o} \X T, edges)
    BY <2>1 DEF RetryProfileApplyTargets
  <2> HIDE DEF T, st, edges
  <2> QED  BY <2>2, <2>3, <2>4, <2>5, <2>6, InsertInv
<1> QED  BY <1>1, <1>2, <1>3, <1>4, <1>5

\* A scheduler tick inserts fresh operations or only marks live rows.
LEMMA TickInv == QueueInv /\ Tick => QueueInv'
<1> SUFFICES ASSUME QueueInv, NEW E \in SUBSET Targets, NEW new,
                    EnqueueReconciles(E, new)
             PROVE  QueueInv'
  BY DEF Tick
<1> USE DEF QueueInv
<1> DEFINE busy == {r \in Rows : status[r] \in Live /\ r[2] \in E}
           free == E \ {r[2] : r \in busy}
           R    == {<<new[t], t>> : t \in free}
<1>1. status' = [r \in Rows |-> IF r \in R THEN "queued" ELSE status[r]]
  BY DEF EnqueueReconciles
<1>2. \A r \in Rows : r \in R => opStatus[r[1]] = "none" /\ opStatus'[r[1]] = "queued"
  BY DEF EnqueueReconciles, TypeOK, Rows
<1>3. \A r \in Rows : status[r] # "none" => status'[r] = status[r]
  BY <1>1, <1>2 DEF FreshIds
<1>4. TypeOK'
  <2>1. opStatus' \in [Ops -> RowStatus] /\ kind' \in [Ops -> Kinds]
    BY DEF EnqueueReconciles, TypeOK, RowStatus, Live, Kinds
  <2>2. status' \in [Rows -> RowStatus] /\ rerun' \subseteq Rows
    BY <1>1 DEF EnqueueReconciles, TypeOK, RowStatus, Live
  <2> QED  BY <2>1, <2>2 DEF EnqueueReconciles, TypeOK, workVars, procVars
<1>5. Index'
  BY DEF EnqueueReconciles, Index
<1>6. FreshIds'
  <2>1. \A o \in Ops : opStatus[o] # "none" => opStatus'[o] # "none"
    BY DEF EnqueueReconciles
  <2> QED  BY <1>1, <1>2, <2>1 DEF FreshIds, Rows
<1>7. Holding'
  BY <1>3 DEF EnqueueReconciles, Holding, Executing, workVars, procVars
<1> QED  BY <1>4, <1>5, <1>6, <1>7

\* Cancellation only ends queued rows, which no worker holds.
LEMMA CancelInv ==
  ASSUME QueueInv, NEW o \in Ops, CancelOperation(o)
  PROVE  QueueInv'
<1> USE DEF QueueInv
<1> DEFINE dropped == {r \in RowsOf(o) : status[r] = "queued"}
           st == [r \in Rows |-> IF r \in dropped THEN "cancelled" ELSE status[r]]
           pd == IF dropped # {} THEN pend \ RowsOf(o) ELSE pend
<1>1. status' = st /\ pend' = pd
  BY DEF CancelOperation
<1>2. opStatus' = [opStatus EXCEPT ![o] = Recalculated(o, st, pd)]
  BY DEF CancelOperation
<1>3. opStatus[o] # "none"
  BY DEF CancelOperation, Live
<1>4. Recalculated(o, st, pd) \in RowStatus /\ Recalculated(o, st, pd) # "none"
  BY <1>3, RecalculatedType
<1>5. TypeOK'
  BY <1>1, <1>2, <1>4 DEF CancelOperation, TypeOK, RowStatus, Terminal, workVars, procVars
<1>6. Owners(st, pd) \subseteq Owners(status, pend)
  BY DEF Owners, Live
<1>7. Index'
  BY <1>1, <1>6, IndexShrinks DEF Index
<1>8. FreshIds'
  BY <1>1, <1>2, <1>3, <1>4 DEF FreshIds, TypeOK, Rows
<1>9. Holding'
  BY <1>1 DEF CancelOperation, Holding, Executing, workVars, procVars
<1> QED  BY <1>5, <1>7, <1>8, <1>9

\* So does discovery.
LEMMA DiscoverInv ==
  ASSUME QueueInv, NEW seen \in SUBSET Nodes, UpsertDiscoveredNodes(seen)
  PROVE  QueueInv'
<1> USE DEF QueueInv
<1> DEFINE lost == {r \in Rows : NodeOf[r[2]] \in (Nodes \ seen) \ archived}
           dropped == {r \in lost : status[r] = "queued" /\ r \notin bridge}
           st == [r \in Rows |-> IF r \in dropped THEN "cancelled" ELSE status[r]]
<1>1. status' = st /\ pend' = pend
  BY DEF UpsertDiscoveredNodes
<1>2. opStatus' = [o \in Ops |-> IF \E r \in dropped : r[1] = o
                                 THEN Recalculated(o, st, pend) ELSE opStatus[o]]
  BY DEF UpsertDiscoveredNodes
<1>3. \A o \in Ops : /\ Recalculated(o, st, pend) \in RowStatus
                     /\ opStatus[o] # "none" => Recalculated(o, st, pend) # "none"
  BY RecalculatedType
<1>4. TypeOK'
  BY <1>1, <1>2, <1>3 DEF UpsertDiscoveredNodes, TypeOK, RowStatus, Terminal, workVars, procVars
<1>5. Owners(st, pend) \subseteq Owners(status, pend)
  BY DEF Owners, Live
<1>6. Index'
  BY <1>1, <1>5, IndexShrinks DEF Index
<1>7. \A o \in Ops : opStatus[o] # "none" => opStatus'[o] # "none"
  BY <1>2, <1>3
<1>8. FreshIds'
  BY <1>1, <1>7 DEF FreshIds, Rows
<1>9. Holding'
  BY <1>1 DEF UpsertDiscoveredNodes, Holding, Executing, workVars, procVars
<1> QED  BY <1>4, <1>6, <1>8, <1>9

\* A claim takes a queued row, which nobody holds, to its one new holder.
LEMMA ClaimInv ==
  ASSUME QueueInv, NEW w \in Workers, NEW r \in Rows, ClaimOperationTarget(w, r)
  PROVE  QueueInv'
<1> USE DEF QueueInv
<1>1. r[1] \in Ops /\ status[r] = "queued" /\ status' = [status EXCEPT ![r] = "running"]
  BY DEF ClaimOperationTarget, Claimable, Rows
<1>2. TypeOK'
  BY <1>1 DEF ClaimOperationTarget, Goto, TypeOK, RowStatus, Live, procVars
<1>3. Owners(status', pend') \subseteq Owners(status, pend)
  BY <1>1 DEF ClaimOperationTarget, Owners, Live, TypeOK
<1>4. Index'
  BY <1>3, IndexShrinks DEF Index
<1>5. FreshIds'
  BY <1>1 DEF ClaimOperationTarget, FreshIds, TypeOK, Rows
<1>6. Holding'
  BY <1>1 DEF ClaimOperationTarget, Goto, Holding, Executing, TypeOK, procVars
<1> QED  BY <1>2, <1>4, <1>5, <1>6

LEMMA MetadataInv ==
  ASSUME QueueInv, NEW w \in Workers,
         SetBridgeOperationMetadata(w) \/ PinDesiredSnapshot(w)
  PROVE  QueueInv'
<1> USE DEF QueueInv
<1>1. item[w] \in Rows /\ item[w][2] \in Targets
  BY DEF SetBridgeOperationMetadata, PinDesiredSnapshot, Holding, Rows
<1>2. TypeOK'
  BY <1>1 DEF SetBridgeOperationMetadata, PinDesiredSnapshot, Goto, TypeOK,
              opVars, rowVars, workVars, procVars
<1>3. Index' /\ FreshIds'
  BY DEF SetBridgeOperationMetadata, PinDesiredSnapshot, Index, FreshIds, opVars, rowVars
<1>4. Holding'
  BY <1>1 DEF SetBridgeOperationMetadata, PinDesiredSnapshot, Goto, Holding, Executing,
              TypeOK, rowVars, workVars, procVars
<1> QED  BY <1>2, <1>3, <1>4

\* Finishing ends the worker's own row and queued dependents only.
LEMMA FinishInv ==
  ASSUME QueueInv, NEW w \in Workers, NEW s \in Terminal, FinishOperationTarget(w, s)
  PROVE  QueueInv'
<1> USE DEF QueueInv
<1> DEFINE r  == item[w]
           o  == r[1]
           st == [x \in Rows |->
                    IF x = r THEN s
                    ELSE IF s # "succeeded" /\ <<x, r>> \in dep /\ status[x] = "queued"
                         THEN "failed" ELSE status[x]]
           pd == IF \E x \in RowsOf(o) : st[x] \in {"partial", "failed", "cancelled"}
                 THEN pend \ RowsOf(o) ELSE pend
<1>1. Executing(w) /\ r \in Rows /\ o \in Ops /\ status[r] = "running"
  BY DEF FinishOperationTarget, StepOutcome, Executing, Holding, Rows
<1>2. status' = st /\ pend' = pd
  BY DEF FinishOperationTarget
<1>3. opStatus' = [opStatus EXCEPT ![o] = Recalculated(o, st, pd)]
  BY DEF FinishOperationTarget
<1>4. /\ item' = [item EXCEPT ![w] = r]
      /\ \/ pc' = [pc EXCEPT ![w] = "finalize"]
         \/ pc' = [pc EXCEPT ![w] = "rerun"]
  BY DEF FinishOperationTarget, Goto
<1>5. UNCHANGED <<kind, cancel, finalized, rerun, bridge, dep, desired, archived, procVars>>
  BY DEF FinishOperationTarget
<1>6. opStatus[o] # "none"
  BY <1>1 DEF FreshIds
<1>7. Recalculated(o, st, pd) \in RowStatus /\ Recalculated(o, st, pd) # "none"
  BY <1>1, <1>6, RecalculatedType
<1>8. \A x \in Rows : status[x] = "none" => st[x] = "none"
  BY <1>1
<1>9. TypeOK'
  <2>1. st \in [Rows -> RowStatus] /\ pd \subseteq Rows
    BY DEF TypeOK, RowStatus, Terminal
  <2> HIDE DEF st, pd
  <2> QED  BY <2>1, <1>1, <1>2, <1>3, <1>4, <1>5, <1>7 DEF TypeOK, procVars
<1>10. Owners(st, pd) \subseteq Owners(status, pend)
  <2>1. \A x \in Rows : st[x] \in Live => status[x] \in Live
    BY <1>1 DEF Live, Terminal
  <2>2. pd \subseteq pend
    OBVIOUS
  <2> HIDE DEF st, pd
  <2> QED  BY <2>1, <2>2 DEF Owners
<1>11. Index'
  <2> HIDE DEF st, pd
  <2> QED  BY <1>2, <1>10, IndexShrinks DEF Index
<1>12. FreshIds'
  <2> HIDE DEF st, pd
  <2> QED  BY <1>1, <1>2, <1>3, <1>7, <1>8 DEF FreshIds, TypeOK, Rows
<1>13. \A x \in Rows : x # r /\ status[x] = "running" => st[x] = "running"
  OBVIOUS
<1>14. Holding'
  <2> HIDE DEF st, pd
  <2> QED  BY <1>1, <1>2, <1>4, <1>5, <1>13 DEF Holding, Executing, TypeOK, procVars
<1> QED  BY <1>9, <1>11, <1>12, <1>14

\* A finalizer only releases ownership; FinalizeRelaxed leaves the rows alone.
LEMMA FinalizerInv ==
  ASSUME QueueInv, NEW o \in Ops,
         Finalize(o) \/ FinalizeRelaxed(o) \/ FailGovernanceFinalization(o)
  PROVE  /\ status' = status /\ pend' \subseteq pend
         /\ opStatus' \in [Ops -> RowStatus]
         /\ \A x \in Ops : opStatus[x] # "none" => opStatus'[x] # "none"
         /\ kind' = kind /\ cancel' = cancel /\ rerun' = rerun
         /\ bridge' = bridge /\ dep' = dep /\ archived' = archived
         /\ finalized' \subseteq Ops /\ desired' \subseteq Targets
<1> USE DEF QueueInv
<1>1. \A x \in RowsOf(o) : x[2] \in Targets
  BY DEF RowsOf, Rows
<1>2. CASE Finalize(o)
  <2>1. opStatus[o] # "none"
    BY <1>2 DEF Finalize, AllSucceededAndOwned
  <2>2. /\ Recalculated(o, status, pend \ RowsOf(o)) \in RowStatus
        /\ Recalculated(o, status, pend \ RowsOf(o)) # "none"
    BY <2>1, RecalculatedType
  <2> QED  BY <1>1, <1>2, <2>2 DEF Finalize, TypeOK
<1>3. CASE FinalizeRelaxed(o)
  BY <1>1, <1>3 DEF FinalizeRelaxed, TypeOK, rowVars
<1>4. CASE FailGovernanceFinalization(o)
  BY <1>4 DEF FailGovernanceFinalization, TypeOK, RowStatus, Terminal
<1> QED  BY <1>2, <1>3, <1>4

\* What a step that keeps the rows and only releases ownership preserves.
LEMMA ReleaseInv ==
  ASSUME QueueInv, status' = status, pend' \subseteq pend,
         \A x \in Ops : opStatus[x] # "none" => opStatus'[x] # "none"
  PROVE  Index' /\ FreshIds'
<1>1. Owners(status', pend') \subseteq Owners(status, pend)
  BY DEF Owners
<1>2. Index'
  BY <1>1, IndexShrinks DEF QueueInv, Index
<1>3. FreshIds'
  BY DEF QueueInv, FreshIds, Rows
<1> QED  BY <1>2, <1>3

LEMMA FinalizeStepInv ==
  ASSUME QueueInv, NEW w \in Workers, FinalizeGovernanceOperation(w)
  PROVE  QueueInv'
<1> USE DEF QueueInv
<1> DEFINE o == item[w][1]
<1>1. pc[w] = "finalize" /\ item[w] \in Rows /\ o \in Ops
  BY DEF FinalizeGovernanceOperation, Holding, Rows
<1>2. \/ pc' = [pc EXCEPT ![w] = "rerun"] /\ item' = [item EXCEPT ![w] = item[w]]
      \/ pc' = [pc EXCEPT ![w] = "idle"] /\ item' = [item EXCEPT ![w] = NoRow]
  BY DEF FinalizeGovernanceOperation, Goto
<1>3. /\ status' = status /\ pend' \subseteq pend
      /\ opStatus' \in [Ops -> RowStatus]
      /\ \A x \in Ops : opStatus[x] # "none" => opStatus'[x] # "none"
      /\ kind' = kind /\ cancel' = cancel /\ rerun' = rerun
      /\ bridge' = bridge /\ dep' = dep /\ archived' = archived
      /\ finalized' \subseteq Ops /\ desired' \subseteq Targets
  <2>1. CASE Finalize(o) \/ FinalizeRelaxed(o) \/ FailGovernanceFinalization(o)
    BY <1>1, <2>1, FinalizerInv
  <2>2. CASE UNCHANGED <<opVars, rowVars, desired, archived>>
    BY <2>2 DEF TypeOK, opVars, rowVars
  <2> QED  BY <2>1, <2>2 DEF FinalizeGovernanceOperation
<1>4. UNCHANGED procVars
  BY DEF FinalizeGovernanceOperation
<1>5. TypeOK'
  BY <1>1, <1>2, <1>3, <1>4 DEF TypeOK, procVars
<1>6. Index' /\ FreshIds'
  BY <1>3, ReleaseInv
<1>7. Holding'
  BY <1>1, <1>2, <1>3, <1>4 DEF Holding, Executing, TypeOK, procVars
<1> QED  BY <1>5, <1>6, <1>7

\* The coalesced rerun is inserted only for a target that nobody owns.
LEMMA RerunInv ==
  ASSUME QueueInv, NEW w \in Workers, NEW o \in Ops, NEW e \in BOOLEAN,
         EnqueuePendingRerun(w, o, e)
  PROVE  QueueInv'
<1> USE DEF QueueInv
<1> DEFINE t == item[w][2]
<1>1. item[w] \in Rows /\ t \in Targets /\ <<o, t>> \in Rows
  BY DEF EnqueuePendingRerun, Holding, Rows
<1>2. pc' = [pc EXCEPT ![w] = "idle"] /\ item' = [item EXCEPT ![w] = NoRow]
  BY DEF EnqueuePendingRerun, Goto
<1>3. /\ UNCHANGED <<cancel, finalized, pend, bridge, dep, desired, archived, procVars>>
      /\ rerun' \subseteq Rows
  BY DEF EnqueuePendingRerun, TypeOK
<1>4. CASE UNCHANGED <<status, opStatus, kind>>
  BY <1>1, <1>2, <1>3, <1>4 DEF TypeOK, Index, FreshIds, Holding, Executing, procVars
<1>5. CASE /\ opStatus[o] = "none"
           /\ ~\E x \in Owners(status, pend) : x[2] = t
           /\ status' = [status EXCEPT ![<<o, t>>] = "queued"]
           /\ opStatus' = [opStatus EXCEPT ![o] = "queued"]
           /\ kind' = [kind EXCEPT ![o] = "reconcile"]
  <2>1. status[<<o, t>>] = "none"
    BY <1>1, <1>5 DEF FreshIds
  <2>2. TypeOK'
    BY <1>1, <1>2, <1>3, <1>5 DEF TypeOK, RowStatus, Live, Kinds, procVars
  <2>3. Owners(status', pend') \subseteq Owners(status, pend) \cup {<<o, t>>}
    BY <1>1, <1>3, <1>5 DEF Owners, TypeOK
  <2>4. Index'
    BY <2>3, <1>5 DEF Index, OneActiveIndex
  <2>5. FreshIds'
    BY <1>1, <1>5 DEF FreshIds, TypeOK, Rows
  <2>6. Holding'
    BY <1>1, <1>2, <1>3, <1>5, <2>1 DEF Holding, Executing, TypeOK, procVars
  <2> QED  BY <2>2, <2>4, <2>5, <2>6
<1> QED  BY <1>4, <1>5 DEF EnqueuePendingRerun

\* Losing the worker state, to a store error or a crash, loses no row.
LEMMA LossInv ==
  ASSUME QueueInv, (\E w \in Workers : StrandStep(w)) \/ Crash
  PROVE  QueueInv'
<1> USE DEF QueueInv
<1>1. UNCHANGED <<opVars, rowVars, desired, archived>>
  BY DEF StrandStep, Crash
<1>2. Index' /\ FreshIds'
  BY <1>1 DEF Index, FreshIds, opVars, rowVars
<1>3. TypeOK' /\ Holding'
  <2>1. CASE Crash
    BY <1>1, <2>1, ConstantsAssumption
       DEF Crash, TypeOK, Holding, Executing, opVars, rowVars
  <2>2. ASSUME NEW w \in Workers, StrandStep(w) PROVE TypeOK' /\ Holding'
    BY <1>1, <2>2 DEF StrandStep, Goto, TypeOK, Holding, Executing, opVars, rowVars, procVars
  <2> QED  BY <2>1, <2>2
<1> QED  BY <1>2, <1>3

\* Recover runs while no worker holds a row, so requeueing takes nothing away.
LEMMA RequeueInv ==
  ASSUME QueueInv, NEW r \in Rows, RequeueRunningOperationTarget(r)
  PROVE  QueueInv'
<1> USE DEF QueueInv
<1> DEFINE o   == r[1]
           end == Archived(r[2]) /\ r \notin bridge
           st  == [status EXCEPT ![r] = IF end THEN "cancelled" ELSE "queued"]
<1>1. o \in Ops /\ status[r] = "running" /\ opStatus[o] # "none"
  BY DEF RequeueRunningOperationTarget, FreshIds, Rows
<1>2. status' = st /\ pend' = pend /\ rerun' \subseteq Rows
  BY DEF RequeueRunningOperationTarget, TypeOK
<1>3. Recalculated(o, st, pend) \in RowStatus /\ Recalculated(o, st, pend) # "none"
  BY <1>1, RecalculatedType
<1>4. /\ opStatus' \in [Ops -> RowStatus]
      /\ \A x \in Ops : opStatus[x] # "none" => opStatus'[x] # "none"
  <2> HIDE DEF st, end
  <2>1. \E v \in RowStatus \ {"none"} : opStatus' = [opStatus EXCEPT ![o] = v]
    <3>1. /\ "running" \in RowStatus \ {"none"} /\ "queued" \in RowStatus \ {"none"}
      BY DEF RowStatus, Live
    <3>2. opStatus' = [opStatus EXCEPT ![o] =
                         IF end THEN Recalculated(o, st, pend)
                         ELSE IF \E x \in RowsOf(o) : st[x] = "running"
                              THEN "running" ELSE "queued"]
      BY DEF RequeueRunningOperationTarget, st, end
    <3> QED  BY <3>1, <3>2, <1>3
  <2> QED  BY <2>1, <1>1 DEF TypeOK
<1>5. UNCHANGED <<kind, cancel, finalized, bridge, dep, desired, archived, workVars, procVars>>
  BY DEF RequeueRunningOperationTarget
<1>6. st \in [Rows -> RowStatus]
  BY DEF TypeOK, RowStatus, Live, Terminal
<1>7. TypeOK'
  <2> HIDE DEF st, end
  <2> QED  BY <1>2, <1>4, <1>5, <1>6 DEF TypeOK, workVars, procVars
<1>8. Owners(st, pend) \subseteq Owners(status, pend)
  BY <1>1 DEF Owners, Live, TypeOK
<1>9. Index'
  BY <1>2, <1>8, IndexShrinks DEF Index
<1>10. FreshIds'
  <2>1. \A x \in Rows : status[x] = "none" => st[x] = "none"
    BY <1>1 DEF TypeOK
  <2> HIDE DEF st, end
  <2> QED  BY <2>1, <1>2, <1>4 DEF FreshIds, Rows
<1>11. Holding'
  BY <1>5 DEF RequeueRunningOperationTarget, Holding, Executing, workVars, procVars
<1> QED  BY <1>7, <1>9, <1>10, <1>11

LEMMA RecoveryInv == QueueInv /\ Recovery => QueueInv'
<1> SUFFICES ASSUME QueueInv, Recovery PROVE QueueInv'
  OBVIOUS
<1> USE DEF QueueInv
<1>1. CASE \E r \in Rows : RequeueRunningOperationTarget(r)
  BY <1>1, RequeueInv
<1>2. ASSUME NEW o \in Ops, RecoverFinalization(o) PROVE QueueInv'
  <2>1. Finalize(o) \/ FinalizeRelaxed(o) \/ FailGovernanceFinalization(o)
    BY <1>2 DEF RecoverFinalization
  <2>2. UNCHANGED <<workVars, procVars>>
    BY <1>2 DEF RecoverFinalization
  <2>3. /\ status' = status /\ pend' \subseteq pend
        /\ \A x \in Ops : opStatus[x] # "none" => opStatus'[x] # "none"
    BY <2>1, FinalizerInv
  <2>4. TypeOK'
    BY <2>1, <2>2, FinalizerInv DEF TypeOK, workVars, procVars
  <2>5. Index' /\ FreshIds'
    BY <2>3, ReleaseInv
  <2>6. Holding'
    BY <2>2, <2>3 DEF Holding, Executing, workVars, procVars
  <2> QED  BY <2>4, <2>5, <2>6
<1>3. CASE StartServing
  BY <1>3 DEF StartServing, TypeOK, Index, FreshIds, Holding, Executing,
              opVars, rowVars, workVars
<1> QED  BY <1>1, <1>2, <1>3 DEF Recovery

LEMMA NextInv == QueueInv /\ [Next]_vars => QueueInv'
<1> SUFFICES ASSUME QueueInv, [Next]_vars PROVE QueueInv'
  OBVIOUS
<1>1. CASE UNCHANGED vars
  BY <1>1 DEF QueueInv, TypeOK, Index, FreshIds, Holding, Executing,
              vars, opVars, rowVars, workVars, procVars
<1>2. CASE Create
  BY <1>2, CreateInv
<1>3. CASE Tick
  BY <1>3, TickInv
<1>4. CASE \E o \in Ops : CancelOperation(o)
  BY <1>4, CancelInv
<1>5. CASE \E seen \in SUBSET Nodes : UpsertDiscoveredNodes(seen)
  BY <1>5, DiscoverInv
<1>6. CASE \E w \in Workers, r \in Rows : ClaimOperationTarget(w, r)
  BY <1>6, ClaimInv
<1>7. CASE \E w \in Workers : WorkerStep(w)
  BY <1>7, MetadataInv, FinishInv, FinalizeStepInv, RerunInv DEF WorkerStep
<1>8. CASE (\E w \in Workers : StrandStep(w)) \/ Crash
  BY <1>8, LossInv
<1>9. CASE Recovery
  BY <1>9, RecoveryInv
<1> QED  BY <1>1, <1>2, <1>3, <1>4, <1>5, <1>6, <1>7, <1>8, <1>9 DEF Next

\* QueueInv is an invariant of the queue.
THEOREM QueueInvariant == Spec => []QueueInv
<1>1. Init => QueueInv
  BY InitInv
<1>2. QueueInv /\ [Next]_vars => QueueInv'
  BY NextInv
<1> QED  BY <1>1, <1>2, PTL DEF Spec

\* Every table column and worker register keeps its type, for any instance.
THEOREM QueueTypeCorrect == Spec => []TypeOK
<1>1. QueueInv => TypeOK
  BY DEF QueueInv
<1> QED  BY <1>1, QueueInvariant, PTL

\* Two workers never drive the same target, and no worker drives a target that
\* another operation's finalization owns (Worker.loop, the claim transaction and
\* operation_targets_one_active_idx), for any number of workers and restarts.
THEOREM TargetExclusive == Spec => []ExclusiveTarget
<1>1. QueueInv => ExclusiveTarget
  <2> SUFFICES ASSUME QueueInv, NEW w \in Workers, Executing(w)
               PROVE  /\ \A v \in Workers \ {w} : Executing(v) => item[v][2] # item[w][2]
                      /\ \A r \in pend : r[2] = item[w][2] => r = item[w]
    BY DEF ExclusiveTarget
  <2>1. \A v \in Workers : Executing(v) => item[v] \in Owners(status, pend)
    BY DEF QueueInv, Holding, Executing, Owners, Live
  <2>2. pend \subseteq Owners(status, pend)
    BY DEF QueueInv, TypeOK, Owners
  <2>3. \A v \in Workers \ {w} : Executing(v) => item[v] # item[w]
    BY DEF QueueInv, Holding
  <2> QED  BY <2>1, <2>2, <2>3 DEF QueueInv, Index, OneActiveIndex
<1> QED  BY <1>1, QueueInvariant, PTL

=============================================================================
