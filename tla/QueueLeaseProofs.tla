-------------------------- MODULE QueueLeaseProofs --------------------------
(***************************************************************************)
(* TLAPS proof that OperationQueue implements TargetLease, for any number  *)
(* of operations, targets, nodes, workers and restarts.  Every transaction *)
(* of the queue is one of three steps of the lease: rows are inserted (a   *)
(* grant), a row is claimed (it is driven), or rows and workers let go.    *)
(***************************************************************************)
EXTENDS OperationQueueProofs

\* Only inserted rows wait for a finalizer.
PendInserted == \A r \in pend : status[r] # "none"

LeaseInv == QueueInv /\ PendInserted

Held == Owners(status, pend)
Past == {r \in Rows : status[r] # "none"} \ Held

\* No row is inserted, none takes a target and no worker takes a row.
LetsGo ==
    /\ \A r \in Rows : status[r] = "none" <=> status'[r] = "none"
    /\ \A r \in Rows : status'[r] \in Live => status[r] \in Live
    /\ pend' \subseteq pend
    /\ Driven' \subseteq Driven

\* The rows G of fresh operations are inserted and take their targets.
Inserts(G) ==
    /\ G \subseteq Rows
    /\ \A g \in G : opStatus[g[1]] = "none" /\ status'[g] # "none"
    /\ \A r \in Rows \ G : status'[r] = status[r]
    /\ Owners(status', pend') = Owners(status, pend) \cup G
    /\ pend \subseteq pend' /\ pend' \subseteq pend \cup G
    /\ Driven' = Driven

\* What a worker drives is held, and every row that was inserted has an operation.
LEMMA HeldFacts ==
  ASSUME LeaseInv
  PROVE  /\ Driven \subseteq Held
         /\ Held \subseteq Rows
         /\ \A r \in Held \cup Past : r \in Rows /\ status[r] # "none" /\ opStatus[r[1]] # "none"
<1> USE DEF LeaseInv, QueueInv
<1>1. Driven \subseteq Held
  BY DEF Driven, Held, Owners, Holding, Executing, Live
<1>2. Held \subseteq Rows
  BY DEF Held, Owners
<1>3. \A r \in Held : status[r] # "none"
  BY DEF Held, Owners, PendInserted, Live
<1> QED  BY <1>1, <1>2, <1>3 DEF Past, FreshIds, Rows

\* A step that lets go releases in the lease.
LEMMA LetsGoReleases ==
  ASSUME LeaseInv, QueueInv', LetsGo
  PROVE  Lease!LeaseNext /\ LeaseInv'
<1>1. PendInserted'
  BY DEF LeaseInv, QueueInv, PendInserted, LetsGo, TypeOK
<1>2. LeaseInv'
  BY <1>1 DEF LeaseInv
<1>3. Driven' \subseteq Held' /\ Held' \subseteq Held /\ Held \subseteq Rows
  <2>1. Driven' \subseteq Held'
    BY DEF QueueInv, Driven, Held, Owners, Holding, Executing, Live
  <2>2. Held' \subseteq Held
    BY DEF LetsGo, Held, Owners
  <2> QED  BY <2>1, <2>2, HeldFacts
<1>4. PICK stop \in SUBSET Driven : stop = Driven \ Driven'
  OBVIOUS
<1>5. PICK R \in SUBSET Held : R = Held \ Held'
  OBVIOUS
<1>6. R \cap (Driven \ stop) = {} /\ Driven' = Driven \ stop /\ Held' = Held \ R
  BY <1>3, <1>4, <1>5 DEF LetsGo
<1>7. Past' = Past \cup R
  <2>1. \A r \in Rows : status[r] # "none" <=> status'[r] # "none"
    BY DEF LetsGo
  <2>2. \A r \in R : r \in Rows /\ status[r] # "none"
    BY HeldFacts
  <2> QED  BY <1>3, <1>5, <2>1, <2>2 DEF Past
<1>8. Lease!Release(stop, R)
  BY <1>6, <1>7 DEF Lease!Release, Past, Held
<1> QED  BY <1>2, <1>8 DEF Lease!LeaseNext, Held

\* Inserting the rows of fresh operations is a grant.
LEMMA InsertsGrants ==
  ASSUME LeaseInv, QueueInv', NEW G, Inserts(G)
  PROVE  Lease!LeaseNext /\ LeaseInv'
<1>1. PendInserted'
  BY DEF LeaseInv, QueueInv, PendInserted, Inserts, TypeOK
<1>2. \A g \in G : g \notin Held \cup Past /\ status[g] = "none"
  BY HeldFacts DEF Inserts, LeaseInv, QueueInv, FreshIds
<1>3. \A g \in G, s \in Held \cup Past : g[1] # s[1]
  BY HeldFacts DEF Inserts
<1>4. \A r, s \in Held \cup G : r[2] = s[2] => r = s
  BY DEF QueueInv, Index, OneActiveIndex, Inserts, Held
<1>5. \A g \in G, s \in Held : g[2] # s[2]
  BY <1>2, <1>4
<1>6. Held' = Held \cup G
  BY DEF Inserts, Held
<1>7. Past' = Past
  <2>1. \A r \in Rows : r \in Past' <=> r \in Past
    BY <1>2, <1>6 DEF Past, Inserts
  <2> QED  BY <2>1 DEF Past
<1>8. G \in SUBSET ((Ops \X Targets) \ (Held \cup Past))
  BY <1>2 DEF Inserts, Rows
<1>9. Lease!Grant(G)
  BY <1>3, <1>4, <1>5, <1>6, <1>7 DEF Lease!Grant, Past, Held, Inserts
<1> QED  BY <1>1, <1>8, <1>9 DEF LeaseInv, Lease!LeaseNext, Lease!Steps, Past, Held

\* A claim drives a row that was held and that nobody drove.
LEMMA ClaimDrives ==
  ASSUME LeaseInv, QueueInv', NEW w \in Workers, NEW r \in Rows, ClaimOperationTarget(w, r)
  PROVE  Lease!LeaseNext /\ LeaseInv'
<1> USE DEF LeaseInv, QueueInv
<1>1. /\ status[r] = "queued" /\ status' = [status EXCEPT ![r] = "running"]
      /\ pend' = pend /\ pc[w] = "idle"
      /\ pc' = [pc EXCEPT ![w] = "claimed"] /\ item' = [item EXCEPT ![w] = r]
  BY DEF ClaimOperationTarget, Claimable, Goto
<1>2. PendInserted'
  BY <1>1 DEF PendInserted, TypeOK
<1>3. r \in Held /\ r \notin Driven
  BY <1>1 DEF Held, Owners, Live, Driven, Holding
<1>4. \A x \in Rows :
        /\ status'[x] \in Live <=> status[x] \in Live
        /\ status'[x] = "none" <=> status[x] = "none"
  BY <1>1 DEF TypeOK, Live
<1>5. Held' = Held /\ Past' = Past
  <2>1. \A x \in Rows : x \in Held' <=> x \in Held
    BY <1>1, <1>4 DEF Held, Owners
  <2>2. Held' \subseteq Rows /\ Held \subseteq Rows
    BY DEF Held, Owners
  <2>3. \A x \in Rows : x \in Past' <=> x \in Past
    BY <1>4, <2>1 DEF Past
  <2>4. Past' \subseteq Rows /\ Past \subseteq Rows
    BY DEF Past
  <2> QED  BY <2>1, <2>2, <2>3, <2>4
<1>6. Driven' = Driven \cup {r}
  BY <1>1 DEF Driven, Executing, TypeOK
<1>7. Lease!Drive(r)
  BY <1>3, <1>5, <1>6 DEF Lease!Drive, Held, Past
<1> QED  BY <1>2, <1>3, <1>7 DEF Lease!LeaseNext, Held

\* The insert shared by the four ways to create an operation.
LEMMA InsertRowsInserts ==
  ASSUME LeaseInv, NEW o \in Ops, NEW k, NEW G \in SUBSET Rows, NEW st, NEW pd, NEW edges,
         InsertRows(o, k, G, st, pd, edges),
         pd \subseteq G,
         \A r \in G : r[1] = o /\ (st[r] = "queued" \/ (st[r] = "succeeded" /\ r \in pd))
  PROVE  Inserts(G)
<1>1. status' = [r \in Rows |-> IF r \in G THEN st[r] ELSE status[r]] /\ pend' = pend \cup pd
  BY DEF InsertRows
<1>2. G \subseteq Rows /\ \A g \in G : opStatus[g[1]] = "none"
  BY DEF InsertRows, Rows
<1>3. \A r \in Rows : r \in Owners(status', pend') <=> r \in Owners(status, pend) \cup G
  <2>1. \A r \in G : status'[r] \in Live \/ r \in pend'
    BY <1>1, <1>2 DEF Live
  <2>2. \A r \in Rows \ G : status'[r] = status[r] /\ (r \in pend' <=> r \in pend)
    BY <1>1
  <2> QED  BY <1>2, <2>1, <2>2 DEF Owners
<1>4. Owners(status', pend') = Owners(status, pend) \cup G
  BY <1>2, <1>3 DEF Owners
<1>5. Driven' = Driven
  BY DEF InsertRows, Driven, Executing, workVars
<1> QED  BY <1>1, <1>2, <1>4, <1>5 DEF Inserts

LEMMA CreateInserts ==
  ASSUME LeaseInv, Create
  PROVE  \E G : Inserts(G)
<1>1. PICK o \in Ops :
        \/ \E k \in ApiKinds, T \in SUBSET Targets : CreateOperation(o, k, T)
        \/ \E c \in Clients : CreateProfileApplyOperation(o, c)
        \/ \E old \in Ops : RetryFailedTargets(o, old)
        \/ \E old \in Ops : RetryProfileApplyTargets(o, old)
  BY DEF Create
<1> DEFINE queued == [r \in Rows |-> "queued"]
<1>q. \A T \in SUBSET Targets : \A r \in {o} \X T : r \in Rows /\ r[1] = o /\ queued[r] = "queued"
  BY DEF Rows
<1>2. ASSUME NEW k \in ApiKinds, NEW T \in SUBSET Targets, CreateOperation(o, k, T)
      PROVE  \E G : Inserts(G)
  <2> DEFINE pd == IF k = "relay_config_apply" THEN {o} \X T ELSE {}
  <2>1. InsertRows(o, k, {o} \X T, queued, pd, {}) /\ pd \subseteq {o} \X T
    BY <1>2 DEF CreateOperation
  <2> HIDE DEF pd, queued
  <2>2. PICK G : G = {o} \X T
    OBVIOUS
  <2>3. G \in SUBSET Rows /\ \A r \in G : r[1] = o /\ queued[r] = "queued"
    BY <1>q, <2>1, <2>2
  <2>4. Inserts(G)
    BY <2>1, <2>2, <2>3, InsertRowsInserts
  <2> QED  BY <2>4
<1>3. ASSUME NEW c \in Clients, CreateProfileApplyOperation(o, c)
      PROVE  \E G : Inserts(G)
  <2> DEFINE T == {c, Relay}
             edges == {<< <<o, Relay>>, <<o, c>> >>}
  <2>1. T \in SUBSET Targets /\ InsertRows(o, "apply", {o} \X T, queued, {o} \X T, edges)
    BY <1>3, ConstantsAssumption DEF CreateProfileApplyOperation
  <2> HIDE DEF T, edges, queued
  <2>2. PICK G : G = {o} \X T
    OBVIOUS
  <2>3. G \in SUBSET Rows /\ \A r \in G : r[1] = o /\ queued[r] = "queued"
    BY <1>q, <2>1, <2>2
  <2>4. Inserts(G)
    BY <2>1, <2>2, <2>3, InsertRowsInserts
  <2> QED  BY <2>4
<1>4. ASSUME NEW old \in Ops, RetryFailedTargets(o, old)
      PROVE  \E G : Inserts(G)
  <2> DEFINE T == {t \in Targets : status[<<old, t>>] \in {"failed", "partial"}}
             pd == IF kind[old] = "relay_config_apply" THEN {o} \X T ELSE {}
  <2>1. /\ InsertRows(o, kind[old], {o} \X T, queued, pd, {})
        /\ pd \subseteq {o} \X T /\ T \in SUBSET Targets
    BY <1>4 DEF RetryFailedTargets
  <2> HIDE DEF T, pd, queued
  <2>2. PICK G : G = {o} \X T
    OBVIOUS
  <2>3. G \in SUBSET Rows /\ \A r \in G : r[1] = o /\ queued[r] = "queued"
    BY <1>q, <2>1, <2>2
  <2>4. Inserts(G)
    BY <2>1, <2>2, <2>3, InsertRowsInserts
  <2> QED  BY <2>4
<1>5. ASSUME NEW old \in Ops, RetryProfileApplyTargets(o, old)
      PROVE  \E G : Inserts(G)
  <2> DEFINE T == {r[2] : r \in RowsOf(old)}
             st == [r \in Rows |-> IF status[<<old, r[2]>>] = "succeeded"
                                   THEN "succeeded" ELSE "queued"]
             edges == {<< <<o, Relay>>, <<o, t>> >> : t \in T \ {Relay}}
  <2>1. T \in SUBSET Targets
    BY DEF RowsOf, Rows
  <2>2. \A r \in {o} \X T : r \in Rows /\ r[1] = o /\ st[r] \in {"queued", "succeeded"}
    BY <2>1 DEF Rows
  <2>3. InsertRows(o, "apply", {o} \X T, st, {o} \X T, edges)
    BY <1>5 DEF RetryProfileApplyTargets
  <2> HIDE DEF T, st, edges
  <2>4. PICK G : G = {o} \X T
    OBVIOUS
  <2>5. Inserts(G)
    BY <2>2, <2>3, <2>4, InsertRowsInserts
  <2> QED  BY <2>5
<1> QED  BY <1>1, <1>2, <1>3, <1>4, <1>5

\* A scheduler tick inserts one row for every free target, or none.
LEMMA TickInserts ==
  ASSUME LeaseInv, Tick
  PROVE  \E G : Inserts(G)
<1>1. PICK E \in SUBSET Targets : \E new : EnqueueReconciles(E, new)
  BY DEF Tick
<1>2. PICK new : EnqueueReconciles(E, new)
  BY <1>1
<1> DEFINE free == E \ {r[2] : r \in {x \in Rows : status[x] \in Live /\ x[2] \in E}}
<1>3. PICK G : G = {<<new[t], t>> : t \in free}
  OBVIOUS
<1>4. G \subseteq Rows /\ \A g \in G : opStatus[g[1]] = "none"
  BY <1>2, <1>3 DEF EnqueueReconciles, Rows
<1>5. status' = [r \in Rows |-> IF r \in G THEN "queued" ELSE status[r]] /\ pend' = pend
  BY <1>2, <1>3 DEF EnqueueReconciles
<1>6. \A r \in Rows : r \in Owners(status', pend') <=> r \in Owners(status, pend) \cup G
  BY <1>4, <1>5 DEF Owners, Live
<1>7. Owners(status', pend') = Owners(status, pend) \cup G
  BY <1>4, <1>6 DEF Owners
<1>8. Driven' = Driven
  BY <1>2 DEF EnqueueReconciles, Driven, Executing, workVars
<1> QED  BY <1>4, <1>5, <1>7, <1>8 DEF Inserts

\* The coalesced rerun inserts one row or none; its worker drives nothing.
LEMMA RerunInserts ==
  ASSUME LeaseInv, NEW w \in Workers, NEW o \in Ops, NEW e \in BOOLEAN,
         EnqueuePendingRerun(w, o, e)
  PROVE  \E G : Inserts(G)
<1> USE DEF LeaseInv, QueueInv
<1> DEFINE t == item[w][2]
<1>1. item[w] \in Rows /\ <<o, t>> \in Rows
  BY DEF EnqueuePendingRerun, Holding, Rows
<1>2. pend' = pend
  BY DEF EnqueuePendingRerun
<1>3. Driven' = Driven
  <2>1. /\ pc[w] = "rerun" /\ pc' = [pc EXCEPT ![w] = "idle"]
        /\ item' = [item EXCEPT ![w] = NoRow]
    BY DEF EnqueuePendingRerun, Goto
  <2>2. \A v \in Workers : /\ Executing(v)' <=> Executing(v)
                           /\ Executing(v) => item'[v] = item[v]
    BY <2>1 DEF Executing, TypeOK
  <2> QED  BY <2>2 DEF Driven
<1>4. CASE status' = status
  <2>1. Inserts({})
    BY <1>2, <1>3, <1>4 DEF Inserts, Owners
  <2> QED  BY <2>1
<1>5. CASE opStatus[o] = "none" /\ status' = [status EXCEPT ![<<o, t>>] = "queued"]
  <2>1. PICK G : G = {<<o, t>>}
    OBVIOUS
  <2>2. \A r \in Rows : status'[r] = IF r \in G THEN "queued" ELSE status[r]
    BY <1>1, <1>5, <2>1 DEF TypeOK
  <2>3. \A r \in Rows : r \in Owners(status', pend') <=> r \in Owners(status, pend) \cup G
    BY <1>2, <2>2 DEF Owners, Live
  <2>4. G \subseteq Rows /\ \A g \in G : opStatus[g[1]] = "none"
    BY <1>1, <1>5, <2>1
  <2>5. Owners(status', pend') = Owners(status, pend) \cup G
    BY <2>3, <2>4 DEF Owners
  <2> QED  BY <1>2, <1>3, <2>2, <2>4, <2>5 DEF Inserts
<1> QED  BY <1>4, <1>5 DEF EnqueuePendingRerun

\* Cancellation, discovery and requeueing end or requeue rows; workers keep theirs.
LEMMA DropLetsGo ==
  ASSUME LeaseInv,
         \/ \E o \in Ops : CancelOperation(o)
         \/ \E seen \in SUBSET Nodes : UpsertDiscoveredNodes(seen)
         \/ \E r \in Rows : RequeueRunningOperationTarget(r)
  PROVE  LetsGo
<1> USE DEF LeaseInv, QueueInv
<1>1. Driven' = Driven
  <2>1. UNCHANGED workVars
    BY DEF CancelOperation, UpsertDiscoveredNodes, RequeueRunningOperationTarget
  <2> QED  BY <2>1 DEF Driven, Executing, workVars
<1>2. ASSUME NEW o \in Ops, CancelOperation(o) PROVE LetsGo
  BY <1>1, <1>2 DEF CancelOperation, LetsGo, Live
<1>3. ASSUME NEW seen \in SUBSET Nodes, UpsertDiscoveredNodes(seen) PROVE LetsGo
  BY <1>1, <1>3 DEF UpsertDiscoveredNodes, LetsGo, Live
<1>4. ASSUME NEW r \in Rows, RequeueRunningOperationTarget(r) PROVE LetsGo
  <2>1. /\ status[r] = "running" /\ pend' = pend
        /\ \E s \in {"cancelled", "queued"} : status' = [status EXCEPT ![r] = s]
    BY <1>4 DEF RequeueRunningOperationTarget
  <2> QED  BY <1>1, <2>1 DEF LetsGo, Live, TypeOK
<1> QED  BY <1>2, <1>3, <1>4

\* A worker that stores Bridge metadata or pins a snapshot keeps the row it drives.
LEMMA MetadataLetsGo ==
  ASSUME LeaseInv, NEW w \in Workers,
         SetBridgeOperationMetadata(w) \/ PinDesiredSnapshot(w)
  PROVE  LetsGo
<1> USE DEF LeaseInv, QueueInv
<1>1. status' = status /\ pend' = pend
  BY DEF SetBridgeOperationMetadata, PinDesiredSnapshot, rowVars
<1>2. \A v \in Workers : (Executing(v)' <=> Executing(v)) /\ item'[v] = item[v]
  BY DEF SetBridgeOperationMetadata, PinDesiredSnapshot, Goto, Executing, TypeOK, workVars
<1>3. Driven' = Driven
  BY <1>2 DEF Driven
<1> QED  BY <1>1, <1>3 DEF LetsGo

\* The end of a step ends its row and its queued dependents, and frees the worker.
LEMMA FinishLetsGo ==
  ASSUME LeaseInv, NEW w \in Workers, NEW s \in Terminal, FinishOperationTarget(w, s)
  PROVE  LetsGo
<1> USE DEF LeaseInv, QueueInv
<1> DEFINE r  == item[w]
           st == [x \in Rows |->
                    IF x = r THEN s
                    ELSE IF s # "succeeded" /\ <<x, r>> \in dep /\ status[x] = "queued"
                         THEN "failed" ELSE status[x]]
<1>1. status' = st /\ pend' \subseteq pend /\ status[r] = "running"
  BY DEF FinishOperationTarget
<1>2. /\ \A x \in Rows : status[x] = "none" <=> st[x] = "none"
      /\ \A x \in Rows : st[x] \in Live => status[x] \in Live
  BY <1>1 DEF Live, Terminal
<1>3. Driven' \subseteq Driven
  <2>1. /\ item' = [item EXCEPT ![w] = item[w]]
        /\ pc' = [pc EXCEPT ![w] = "finalize"] \/ pc' = [pc EXCEPT ![w] = "rerun"]
    BY DEF FinishOperationTarget, Goto
  <2>2. \A v \in Workers : (Executing(v)' => Executing(v)) /\ item'[v] = item[v]
    BY <2>1 DEF Executing, TypeOK
  <2> QED  BY <2>2 DEF Driven
<1> HIDE DEF st
<1> QED  BY <1>1, <1>2, <1>3 DEF LetsGo

\* A finalizer touches no row status and only gives up pending ownership.
LEMMA FinalizeLetsGo ==
  ASSUME LeaseInv,
         \/ \E w \in Workers : FinalizeGovernanceOperation(w)
         \/ \E o \in Ops : RecoverFinalization(o)
  PROVE  LetsGo
<1> USE DEF LeaseInv, QueueInv
<1>1. ASSUME NEW w \in Workers, FinalizeGovernanceOperation(w) PROVE LetsGo
  <2>1. pc[w] = "finalize" /\ item[w][1] \in Ops
    BY <1>1 DEF FinalizeGovernanceOperation, Holding, Rows
  <2>2. status' = status /\ pend' \subseteq pend
    <3>1. CASE UNCHANGED <<opVars, rowVars, desired, archived>>
      BY <3>1 DEF rowVars
    <3> QED  BY <1>1, <2>1, <3>1, FinalizerInv DEF FinalizeGovernanceOperation
  <2>3. \A v \in Workers : Executing(v)' => Executing(v) /\ item'[v] = item[v]
    BY <1>1, <2>1 DEF FinalizeGovernanceOperation, Goto, Executing, TypeOK
  <2>4. Driven' \subseteq Driven
    BY <2>3 DEF Driven
  <2> QED  BY <2>2, <2>4 DEF LetsGo
<1>2. ASSUME NEW o \in Ops, RecoverFinalization(o) PROVE LetsGo
  <2>1. status' = status /\ pend' \subseteq pend
    BY <1>2, FinalizerInv DEF RecoverFinalization
  <2>2. Driven' = Driven
    BY <1>2 DEF RecoverFinalization, Driven, Executing, workVars
  <2> QED  BY <2>1, <2>2 DEF LetsGo
<1> QED  BY <1>1, <1>2

\* A store error or a stop loses workers, never rows; serving again changes neither.
LEMMA LossLetsGo ==
  ASSUME LeaseInv, (\E w \in Workers : StrandStep(w)) \/ Crash \/ StartServing
  PROVE  LetsGo
<1> USE DEF LeaseInv, QueueInv
<1>1. status' = status /\ pend' = pend
  BY DEF StrandStep, Crash, StartServing, rowVars
<1>2. \A v \in Workers : Executing(v)' => Executing(v) /\ item'[v] = item[v]
  <2>1. ASSUME NEW w \in Workers, StrandStep(w)
        PROVE  \A v \in Workers : Executing(v)' => Executing(v) /\ item'[v] = item[v]
    BY <2>1 DEF StrandStep, Goto, Executing, TypeOK
  <2>2. CASE Crash
    BY <2>2 DEF Crash, Executing
  <2>3. CASE StartServing
    BY <2>3 DEF StartServing, Executing, workVars
  <2> QED  BY <2>1, <2>2, <2>3
<1>3. Driven' \subseteq Driven
  BY <1>2 DEF Driven
<1> QED  BY <1>1, <1>3 DEF LetsGo

\* Every transaction of the queue is a step of the lease or invisible to it.
LEMMA LeaseStep ==
  ASSUME LeaseInv, QueueInv', [Next]_vars
  PROVE  [Lease!LeaseNext]_(Lease!leaseVars) /\ LeaseInv'
<1>1. CASE UNCHANGED vars
  BY <1>1 DEF LeaseInv, PendInserted, Lease!leaseVars, Owners, Driven, Executing,
              vars, rowVars, workVars
<1>2. CASE \E G : Inserts(G)
  BY <1>2, InsertsGrants
<1>3. CASE LetsGo
  BY <1>3, LetsGoReleases
<1>4. CASE \E w \in Workers, r \in Rows : ClaimOperationTarget(w, r)
  BY <1>4, ClaimDrives
<1>5. CASE Create \/ Tick
  BY <1>2, <1>5, CreateInserts, TickInserts
<1>6. CASE \E w \in Workers : WorkerStep(w)
  <2>1. PICK w \in Workers : WorkerStep(w)
    BY <1>6
  <2>2. ASSUME NEW o \in Ops, NEW e \in BOOLEAN, EnqueuePendingRerun(w, o, e)
        PROVE  \E G : Inserts(G)
    BY <2>2, RerunInserts
  <2> QED  BY <1>2, <1>3, <2>1, <2>2, MetadataLetsGo, FinishLetsGo, FinalizeLetsGo DEF WorkerStep
<1>7. CASE Recovery
  BY <1>3, <1>7, DropLetsGo, FinalizeLetsGo, LossLetsGo DEF Recovery
<1> QED  BY <1>1, <1>3, <1>4, <1>5, <1>6, <1>7, DropLetsGo, LossLetsGo DEF Next

\* The queue implements the lease of targets for any instance: whatever is
\* created, retried, cancelled, archived, stopped and recovered, a target passes
\* from one operation to the next only when the first has let go of it for good
\* (operation_targets_one_active_idx, ClaimOperationTarget, the finalizers).
THEOREM QueueImplementsLease == Spec => ImplementsLease
<1>1. Init => Lease!LeaseInit /\ LeaseInv
  <2> SUFFICES ASSUME Init PROVE Lease!LeaseInit /\ LeaseInv
    OBVIOUS
  <2>1. LeaseInv
    BY InitInv DEF Init, LeaseInv, PendInserted
  <2>2. Lease!LeaseInit
    BY DEF Init, Lease!LeaseInit, Owners, Live, Driven, Executing
  <2> QED  BY <2>1, <2>2
<1>2. LeaseInv /\ QueueInv' /\ [Next]_vars => [Lease!LeaseNext]_(Lease!leaseVars) /\ LeaseInv'
  BY LeaseStep
<1>3. LeaseInv => QueueInv
  BY DEF LeaseInv
<1> QED  BY <1>1, <1>2, <1>3, QueueInvariant, PTL DEF Spec, ImplementsLease, Lease!LeaseSpec
=============================================================================
