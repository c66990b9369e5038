------------------------- MODULE QueueOutcomeProofs -------------------------
(***************************************************************************)
(* TLAPS proofs about what OperationQueue reports and in which order it    *)
(* runs: dependencies first, an operation open exactly while it owns a     *)
(* target, an honest outcome, and archived nodes drained. They hold for    *)
(* any number of operations, targets, nodes, workers and restarts.         *)
(***************************************************************************)
EXTENDS OperationQueueProofs

-----------------------------------------------------------------------------
(* The inductive invariant: facts about edges and rows ... *)

\* depends_on_target_id joins the relay step to a client step of its operation.
DepShape ==
    \A r, d \in Rows : <<r, d>> \in dep =>
        /\ r[1] = d[1] /\ r[2] = Relay /\ d[2] # Relay
        /\ status[r] # "none" /\ status[d] # "none"

\* A Profile Apply has a relay row, and every other row is its dependency.
ApplyEdges ==
    \A o \in Ops : kind[o] = "apply" =>
        /\ status[<<o, Relay>>] # "none"
        /\ \A t \in Targets \ {Relay} :
              status[<<o, t>>] # "none" => << <<o, Relay>>, <<o, t>> >> \in dep

\* Governed operations touch targets of the local node alone, which discovery
\* never archives.
GovernedLocal ==
    \A r \in Rows :
        Governed(kind[r[1]]) /\ status[r] # "none" => NodeOf[r[2]] = NoNode

\* A worker about to finalize holds a row of an operation whose rows all ended.
FinalizeReady ==
    \A w \in Workers : pc[w] = "finalize" =>
        /\ status[item[w]] # "none"
        /\ \A x \in RowsOf(item[w][1]) : status[x] \in Terminal

(* ... and facts about one operation o *)

HasRows(o) == opStatus[o] # "none" => RowsOf(o) # {}

OpenIffOwned(o) ==
    opStatus[o] # "none" =>
        (opStatus[o] \in Live <=> RowsOf(o) \cap Owners(status, pend) # {})

\* Only a governed operation that is not finalized and none of whose rows went
\* wrong is owned by a finalizer.
PendClean(o) ==
    \A r \in Rows : r[1] = o /\ r \in pend =>
        /\ status[r] # "none" /\ Governed(kind[o]) /\ o \notin finalized
        /\ \A x \in RowsOf(o) : status[x] \notin {"partial", "failed", "cancelled"}

\* An open governed operation none of whose rows went wrong is owned whole, so
\* its last row cannot close it: only its finalizer can.
GovernedOwned(o) ==
    /\ Governed(kind[o]) /\ opStatus[o] \in Live
    /\ \A x \in RowsOf(o) : status[x] \in Live \cup {"succeeded"}
    => RowsOf(o) \subseteq pend

\* What the status a of a closed operation of kind k says of the statuses S of
\* its rows; fin: whether the operation was finalized.
Tells(a, S, k, fin) ==
    /\ a = "succeeded" => S = {"succeeded"} /\ (Governed(k) => fin)
    /\ a = "cancelled" => S = {"cancelled"}
    /\ a = "failed" =>
          \/ "failed" \in S /\ S \cap {"succeeded", "partial"} = {}
          \/ Governed(k) /\ S = {"succeeded"} /\ ~fin
    /\ a = "partial" => S \notin {{"succeeded"}, {"failed"}, {"cancelled"}}

Honest(o) ==
    opStatus[o] \in Terminal =>
        Tells(opStatus[o], {status[r] : r \in RowsOf(o)}, kind[o], o \in finalized)

OpInv(o) ==
    /\ HasRows(o)
    /\ OpenIffOwned(o)
    /\ PendClean(o)
    /\ GovernedOwned(o)
    /\ o \in finalized => opStatus[o] # "none"
    /\ Honest(o)

\* The inductive invariant, on top of QueueInv.
OutcomeInv ==
    /\ ArchivedNodeDrained
    /\ DepShape
    /\ ApplyEdges
    /\ DependencyOrder
    /\ GovernedLocal
    /\ FinalizeReady
    /\ \A o \in Ops : OpInv(o)

-----------------------------------------------------------------------------
(* Lemmas about single operations *)

\* Nothing that OpInv(o) speaks of changed.
SameOp(o) ==
    /\ opStatus'[o] = opStatus[o] /\ kind'[o] = kind[o]
    /\ o \in finalized' <=> o \in finalized
    /\ \A r \in Rows : r[1] = o =>
          /\ status'[r] = status[r]
          /\ r \in pend' <=> r \in pend

\* The rows of an operation only age: none appears, none leaves a terminal
\* status, no edge or ownership is added.
Ages ==
    /\ kind' = kind /\ dep' = dep /\ pend' \subseteq pend /\ bridge \subseteq bridge'
    /\ \A x \in Rows :
          /\ status'[x] = "none" <=> status[x] = "none"
          /\ status[x] \in Terminal => status'[x] = status[x]

\* A row that went wrong takes the finalizer's ownership with it; otherwise the
\* ownership is kept.
Settles(o) ==
    IF \E x \in Rows : x[1] = o /\ status'[x] \in {"partial", "failed", "cancelled"}
    THEN \A r \in Rows : r[1] = o => r \notin pend'
    ELSE \A r \in Rows : r[1] = o => (r \in pend' <=> r \in pend)

LEMMA FrameOp ==
  ASSUME NEW o \in Ops, OpInv(o), SameOp(o)
  PROVE  OpInv(o)'
<1>1. RowsOf(o)' = RowsOf(o) /\ \A r \in RowsOf(o) : status'[r] = status[r]
  BY DEF RowsOf, SameOp
<1>2. \A r \in RowsOf(o) : r \in Owners(status, pend)' <=> r \in Owners(status, pend)
  BY DEF RowsOf, SameOp, Owners
<1>3. {status[r] : r \in RowsOf(o)}' = {status[r] : r \in RowsOf(o)}
  BY <1>1
<1>4. HasRows(o)' /\ OpenIffOwned(o)'
  BY <1>1, <1>2 DEF OpInv, HasRows, OpenIffOwned, SameOp
<1>5. PendClean(o)' /\ GovernedOwned(o)'
  <2>1. PendClean(o) /\ GovernedOwned(o)
    BY DEF OpInv
  <2>2. \A r \in RowsOf(o) : r \in Rows /\ r[1] = o
    BY DEF RowsOf
  <2>3. PendClean(o)'
    BY <1>1, <2>1 DEF PendClean, SameOp
  <2>4. GovernedOwned(o)'
    BY <1>1, <2>1, <2>2 DEF GovernedOwned, SameOp
  <2> QED  BY <2>3, <2>4
<1>6. Honest(o)'
  <2> DEFINE S == {status[r] : r \in RowsOf(o)}
  <2>1. S' = S
    BY <1>3
  <2>2. opStatus[o] \in Terminal => Tells(opStatus[o], S, kind[o], o \in finalized)
    BY DEF OpInv, Honest
  <2> HIDE DEF S
  <2>3. (opStatus[o] \in Terminal => Tells(opStatus[o], S, kind[o], o \in finalized))'
    BY <2>1, <2>2 DEF Tells, SameOp
  <2> QED  BY <2>3 DEF Honest, S
<1> QED  BY <1>4, <1>5, <1>6 DEF OpInv, SameOp

\* What recalculateOperation's aggregate says of the rows it was computed from.
LEMMA AggregateTells ==
  ASSUME NEW S \in SUBSET Terminal, S # {}
  PROVE  /\ Aggregate(S) = "succeeded" => S = {"succeeded"}
         /\ Aggregate(S) = "cancelled" => S = {"cancelled"}
         /\ Aggregate(S) = "failed" => "failed" \in S /\ S \cap {"succeeded", "partial"} = {}
         /\ Aggregate(S) = "partial" => S \notin {{"succeeded"}, {"failed"}, {"cancelled"}}
  BY DEF Aggregate, Terminal

\* A step on the rows of an open operation that ends with recalculateOperation,
\* or that leaves a live row, keeps its invariant.
LEMMA StepOpInv ==
  ASSUME QueueInv, QueueInv', NEW o \in Ops, OpInv(o), Ages, Settles(o),
         opStatus[o] \in Live, o \in finalized' <=> o \in finalized,
         \/ opStatus'[o] = Recalculated(o, status', pend')
         \/ opStatus'[o] \in Live /\ \E r \in Rows : r[1] = o /\ status'[r] \in Live
  PROVE  OpInv(o)'
<1> DEFINE mine == {r \in Rows : r[1] = o /\ status'[r] # "none"}
           S == {status'[r] : r \in mine}
           own == Owners(status', pend')
<1>1. RowsOf(o) = mine /\ RowsOf(o)' = mine /\ mine # {}
  BY DEF RowsOf, Ages, OpInv, HasRows, Live
<1>2. \A r \in mine : r \in Rows /\ r[1] = o /\ status'[r] \in Live \cup Terminal
  BY DEF QueueInv, TypeOK, RowStatus
<1>3. ASSUME mine \cap own = {}
      PROVE  opStatus'[o] = Aggregate(S) /\ S \in SUBSET Terminal /\ S # {}
  <2>1. S \in SUBSET Terminal /\ S # {}
    BY <1>1, <1>2, <1>3 DEF Owners
  <2>2. opStatus'[o] = Recalculated(o, status', pend')
    BY <1>3 DEF Owners, Live
  <2> QED  BY <2>1, <2>2, <1>3 DEF Recalculated
<1>4. ASSUME mine \cap own # {}
      PROVE  opStatus'[o] \in Live
  BY <1>4 DEF Recalculated
<1>5. opStatus'[o] \in Live <=> mine \cap own # {}
  BY <1>3, <1>4, AggregateType DEF Live, Terminal
<1>6. HasRows(o)' /\ OpenIffOwned(o)'
  <2> HIDE DEF mine, own
  <2> QED  BY <1>1, <1>5 DEF HasRows, OpenIffOwned, own
<1>7. \A x \in Rows : status'[x] \in Live \cup {"succeeded"}
                        => status[x] \in Live \cup {"succeeded"}
  BY DEF Ages, QueueInv, TypeOK, RowStatus, Live, Terminal
<1>8. PendClean(o)'
  <2> SUFFICES ASSUME NEW r \in Rows, r[1] = o, r \in pend'
               PROVE  /\ status'[r] # "none" /\ Governed(kind'[o]) /\ o \notin finalized'
                      /\ \A x \in mine : status'[x] \notin {"partial", "failed", "cancelled"}
    BY <1>1 DEF PendClean
  <2>1. \A x \in mine : status'[x] \notin {"partial", "failed", "cancelled"}
    BY DEF Settles
  <2>2. r \in pend
    BY DEF Ages
  <2> QED  BY <2>1, <2>2 DEF OpInv, PendClean, Ages
<1>9. ASSUME Governed(kind[o]), \A x \in mine : status'[x] \in Live \cup {"succeeded"}
      PROVE  mine \subseteq pend'
  <2>1. mine \subseteq pend
    BY <1>1, <1>2, <1>7, <1>9 DEF OpInv, GovernedOwned
  <2>2. \A x \in Rows : x[1] = o => status'[x] \notin {"partial", "failed", "cancelled"}
    BY <1>9 DEF Live
  <2> QED  BY <2>1, <2>2, <1>2 DEF Settles
<1>10. GovernedOwned(o)'
  BY <1>1, <1>9 DEF GovernedOwned, Ages
<1>11. Honest(o)'
  <2> SUFFICES ASSUME opStatus'[o] \in Terminal
               PROVE  Tells(opStatus'[o], S, kind[o], o \in finalized')
    <3>1. kind'[o] = kind[o]
      BY DEF Ages
    <3>2. {status[r] : r \in RowsOf(o)}' = S
      BY <1>1
    <3> HIDE DEF Tells, S
    <3> QED  BY <3>1, <3>2 DEF Honest
  <2>1. mine \cap own = {}
    BY <1>4 DEF Live, Terminal
  <2>2. opStatus'[o] = Aggregate(S) /\ S \in SUBSET Terminal /\ S # {}
    BY <1>3, <2>1
  <2>3. ASSUME Governed(kind[o]), S = {"succeeded"} PROVE FALSE
    <3>1. mine \subseteq pend'
      BY <1>9, <2>3
    <3> QED  BY <3>1, <1>1, <1>2, <2>1 DEF Owners
  <2> HIDE DEF S
  <2> QED  BY <2>2, <2>3, AggregateTells DEF Tells
<1>12. o \in finalized' => opStatus'[o] # "none"
  BY <1>3, <1>4, AggregateType DEF Live, Terminal
<1> QED  BY <1>6, <1>8, <1>10, <1>11, <1>12 DEF OpInv

-----------------------------------------------------------------------------
(* Lemmas about the whole queue *)

\* Ageing rows keep the shape of the edges and the locality of governed rows.
LEMMA AgesShape ==
  ASSUME QueueInv, OutcomeInv, Ages
  PROVE  DepShape' /\ ApplyEdges' /\ GovernedLocal'
<1>1. DepShape'
  BY DEF OutcomeInv, DepShape, Ages
<1>2. ApplyEdges'
  <2>1. \A o \in Ops, t \in Targets : <<o, t>> \in Rows
    BY DEF Rows
  <2> QED  BY <2>1, ConstantsAssumption DEF OutcomeInv, ApplyEdges, Ages
<1>3. GovernedLocal'
  BY DEF OutcomeInv, GovernedLocal, Ages
<1> QED  BY <1>1, <1>2, <1>3

\* A worker that stays at its finalizer stays ready.
LEMMA AgesReady ==
  ASSUME QueueInv, OutcomeInv, Ages,
         \A w \in Workers : pc'[w] = "finalize" => pc[w] = "finalize" /\ item'[w] = item[w]
  PROVE  FinalizeReady'
<1> SUFFICES ASSUME NEW w \in Workers, pc'[w] = "finalize"
             PROVE  /\ status'[item[w]] # "none"
                    /\ \A x \in RowsOf(item[w][1])' : status'[x] \in Terminal
  BY DEF FinalizeReady
<1>1. item[w] \in Rows /\ status[item[w]] # "none"
  BY DEF QueueInv, Holding, OutcomeInv, FinalizeReady
<1>2. \A x \in RowsOf(item[w][1]) : x \in Rows /\ status[x] \in Terminal
  BY DEF OutcomeInv, FinalizeReady, RowsOf
<1>3. RowsOf(item[w][1])' = RowsOf(item[w][1])
  BY DEF RowsOf, Ages
<1> QED  BY <1>1, <1>2, <1>3 DEF Ages

\* Rows that only age and never enter a status that needs its dependency.
LEMMA AgesOrder ==
  ASSUME QueueInv, QueueInv', OutcomeInv, Ages,
         \A x \in Rows : status'[x] # status[x] =>
             \/ status'[x] = "cancelled"
             \/ status[x] = "running" /\ status'[x] = "queued"
  PROVE  DependencyOrder'
  BY DEF OutcomeInv, DependencyOrder, Ages, QueueInv, TypeOK, RowStatus, Live, Terminal

\* Inserting the rows R of fresh operations.
LEMMA InsertOutcome ==
  ASSUME QueueInv, QueueInv', OutcomeInv,
         NEW R \in SUBSET Rows, NEW st \in [Rows -> {"queued", "succeeded"}],
         \A r \in R : opStatus[r[1]] = "none" /\ opStatus'[r[1]] = "queued",
         \A o \in Ops : (\A r \in R : r[1] # o) =>
             opStatus'[o] = opStatus[o] /\ kind'[o] = kind[o],
         status' = [r \in Rows |-> IF r \in R THEN st[r] ELSE status[r]],
         \A r \in Rows : r \in pend' <=> r \in pend \/ (r \in R /\ Governed(kind'[r[1]])),
         \A r, d \in Rows : <<r, d>> \in dep' <=>
             \/ <<r, d>> \in dep
             \/ /\ r \in R /\ d \in R /\ kind'[r[1]] = "apply"
                /\ r[1] = d[1] /\ r[2] = Relay /\ d[2] # Relay,
         \A r \in R :
             /\ ~Archived(r[2])
             /\ IF Governed(kind'[r[1]]) THEN NodeOf[r[2]] = NoNode ELSE st[r] = "queued"
             /\ kind'[r[1]] = "apply" =>
                   <<r[1], Relay>> \in R /\ st[<<r[1], Relay>>] = "queued",
         finalized' = finalized, bridge' = bridge, archived' = archived,
         \A w \in Workers : pc'[w] = "finalize" => pc[w] = "finalize" /\ item'[w] = item[w]
  PROVE  OutcomeInv'
<1> USE DEF QueueInv
<1>1. \A r \in Rows : r[1] \in Ops /\ r[2] \in Targets /\ r = <<r[1], r[2]>>
  BY DEF Rows
<1>2. \A r \in Rows : r \in R => status[r] = "none" /\ status'[r] \in {"queued", "succeeded"}
  BY DEF FreshIds
<1>3. \A r \in Rows : status[r] # "none" => /\ \A x \in R : x[1] # r[1]
                                            /\ status'[r] = status[r]
                                            /\ kind'[r[1]] = kind[r[1]]
  BY <1>1, <1>2 DEF FreshIds
<1>4. \A r \in Rows : status'[r] # "none" => status[r] # "none" \/ r \in R
  OBVIOUS
<1>5. ArchivedNodeDrained'
  BY <1>3, <1>4 DEF OutcomeInv, ArchivedNodeDrained, Archived
<1>6. DepShape'
  BY <1>1, <1>2, <1>3 DEF OutcomeInv, DepShape
<1>7. ApplyEdges'
  <2> SUFFICES ASSUME NEW o \in Ops, kind'[o] = "apply"
               PROVE  /\ status'[<<o, Relay>>] # "none"
                      /\ \A t \in Targets \ {Relay} :
                            status'[<<o, t>>] # "none" => << <<o, Relay>>, <<o, t>> >> \in dep'
    BY DEF ApplyEdges
  <2>1. \A t \in Targets : <<o, t>> \in Rows /\ <<o, t>>[1] = o /\ <<o, t>>[2] = t
    BY DEF Rows
  <2>2. Relay \in Targets
    BY ConstantsAssumption
  <2>3. CASE \E r \in R : r[1] = o
    <3>1. <<o, Relay>> \in R
      BY <2>3
    <3>2. \A t \in Targets : status[<<o, t>>] = "none"
      BY <2>1, <2>3 DEF FreshIds
    <3>3. \A t \in Targets : status'[<<o, t>>] # "none" => <<o, t>> \in R
      BY <3>2, <2>1
    <3> QED  BY <3>1, <3>3, <2>1, <2>2, <1>2
  <2>4. CASE \A r \in R : r[1] # o
    <3>1. kind[o] = "apply" /\ \A t \in Targets : status'[<<o, t>>] = status[<<o, t>>]
      BY <2>1, <2>4
    <3> QED  BY <3>1, <2>1, <2>2 DEF OutcomeInv, ApplyEdges
  <2> QED  BY <2>3, <2>4
<1>8. DependencyOrder'
  <2> SUFFICES ASSUME NEW r \in Rows, NEW d \in Rows, <<r, d>> \in dep'
               PROVE  /\ status'[r] \in {"running", "succeeded", "partial"} => status'[d] = "succeeded"
                      /\ status'[d] \in {"partial", "failed"} => status'[r] \notin Live
    BY DEF DependencyOrder
  <2>1. CASE <<r, d>> \in dep
    BY <2>1, <1>3 DEF OutcomeInv, DepShape, DependencyOrder
  <2>2. CASE r \in R /\ d \in R /\ kind'[r[1]] = "apply" /\ r[2] = Relay
    <3>1. status'[r] = "queued"
      BY <2>2, <1>1
    <3> QED  BY <2>2, <3>1, <1>2
  <2> QED  BY <2>1, <2>2
<1>9. GovernedLocal'
  BY <1>3, <1>4 DEF OutcomeInv, GovernedLocal
<1>10. FinalizeReady'
  <2> SUFFICES ASSUME NEW w \in Workers, pc'[w] = "finalize"
               PROVE  /\ status'[item[w]] # "none"
                      /\ \A x \in RowsOf(item[w][1])' : status'[x] \in Terminal
    BY DEF FinalizeReady
  <2>1. item[w] \in Rows /\ status[item[w]] # "none"
    BY DEF Holding, OutcomeInv, FinalizeReady
  <2>2. \A x \in RowsOf(item[w][1]) : status[x] \in Terminal
    BY DEF OutcomeInv, FinalizeReady
  <2>3. \A x \in Rows : x[1] = item[w][1] => status'[x] = status[x]
    BY <2>1, <1>3
  <2> QED  BY <2>1, <2>2, <2>3 DEF RowsOf
<1>11. ASSUME NEW o \in Ops, \A r \in R : r[1] # o PROVE OpInv(o)'
  <2>1. SameOp(o)
    BY <1>11 DEF SameOp
  <2> QED  BY <2>1, FrameOp DEF OutcomeInv
<1>12. ASSUME NEW q \in R PROVE OpInv(q[1])'
  <2> DEFINE o == q[1]
  <2>1. o \in Ops /\ opStatus[o] = "none" /\ opStatus'[o] = "queued"
    BY <1>1
  <2>2. o \notin finalized
    BY <2>1 DEF OutcomeInv, OpInv
  <2>3. \A r \in Rows : r[1] = o => status[r] = "none" /\ r \notin pend
    BY <2>1 DEF FreshIds, OutcomeInv, OpInv, PendClean
  <2>4. /\ RowsOf(o)' \subseteq R /\ q \in RowsOf(o)'
        /\ \A r \in RowsOf(o)' : r \in Rows /\ r[1] = o /\ status'[r] \in {"queued", "succeeded"}
    BY <2>3, <1>2 DEF RowsOf
  <2>5. q \in Owners(status', pend')
    BY DEF Owners, Live
  <2> HIDE DEF o
  <2>6. HasRows(o)' /\ OpenIffOwned(o)'
    BY <2>1, <2>4, <2>5 DEF HasRows, OpenIffOwned, Live
  <2>7. PendClean(o)'
    BY <2>2, <2>3, <2>4, <1>2 DEF PendClean
  <2>8. GovernedOwned(o)'
    BY <2>4 DEF GovernedOwned
  <2>9. Honest(o)'
    BY <2>1 DEF Honest, Terminal
  <2>10. (o \in finalized => opStatus[o] # "none")'
    BY <2>1
  <2>11. OpInv(o)'
    BY <2>6, <2>7, <2>8, <2>9, <2>10 DEF OpInv
  <2> QED  BY <2>11 DEF o
<1>13. \A o \in Ops : OpInv(o)'
  BY <1>11, <1>12
<1> QED  BY <1>5, <1>6, <1>7, <1>8, <1>9, <1>10, <1>13 DEF OutcomeInv

-----------------------------------------------------------------------------
(* One lemma per group of actions *)

LEMMA InsertRowsOutcome ==
  ASSUME QueueInv, QueueInv', OutcomeInv,
         NEW o \in Ops, NEW k \in Kinds, NEW T \in SUBSET Targets,
         NEW st \in [Rows -> {"queued", "succeeded"}],
         NEW pd, pd = IF Governed(k) THEN {o} \X T ELSE {},
         NEW edges,
         edges = IF k = "apply" THEN {<< <<o, Relay>>, <<o, t>> >> : t \in T \ {Relay}} ELSE {},
         InsertRows(o, k, {o} \X T, st, pd, edges), T # {},
         \A t \in T : IF Governed(k) THEN NodeOf[t] = NoNode ELSE st[<<o, t>>] = "queued",
         k = "apply" => Relay \in T /\ st[<<o, Relay>>] = "queued"
  PROVE  OutcomeInv'
<1> DEFINE R == {o} \X T
<1>1. /\ R \in SUBSET Rows
      /\ \A r \in R : r[1] = o /\ r[2] \in T /\ r = <<o, r[2]>>
      /\ \A t \in T : <<o, t>> \in R /\ <<o, t>>[1] = o /\ <<o, t>>[2] = t
      /\ R # {}
  <2>1. R \in SUBSET Rows
    BY DEF Rows
  <2>2. \A r \in R : r[1] = o /\ r[2] \in T /\ r = <<o, r[2]>>
    OBVIOUS
  <2>3. \A t \in T : <<o, t>> \in R /\ <<o, t>>[1] = o /\ <<o, t>>[2] = t
    OBVIOUS
  <2> QED  BY <2>1, <2>2, <2>3
<1>2. /\ status' = [r \in Rows |-> IF r \in R THEN st[r] ELSE status[r]]
      /\ pend' = pend \cup pd /\ dep' = dep \cup edges
      /\ opStatus[o] = "none" /\ opStatus' = [opStatus EXCEPT ![o] = "queued"]
      /\ kind' = [kind EXCEPT ![o] = k]
      /\ \A r \in R : ~Archived(r[2])
  BY DEF InsertRows
<1>3. /\ finalized' = finalized /\ bridge' = bridge /\ archived' = archived
      /\ \A w \in Workers : pc'[w] = "finalize" => pc[w] = "finalize" /\ item'[w] = item[w]
  BY DEF InsertRows, workVars
<1> HIDE DEF R
<1>4. opStatus'[o] = "queued" /\ kind'[o] = k
  BY <1>2 DEF QueueInv, TypeOK
<1>5. \A r \in R : opStatus[r[1]] = "none" /\ opStatus'[r[1]] = "queued"
  BY <1>1, <1>2, <1>4
<1>6. \A x \in Ops : (\A r \in R : r[1] # x) => opStatus'[x] = opStatus[x] /\ kind'[x] = kind[x]
  BY <1>1, <1>2 DEF QueueInv, TypeOK
<1>7. \A r \in Rows : r \in pend' <=> r \in pend \/ (r \in R /\ Governed(kind'[r[1]]))
  BY <1>1, <1>2, <1>4 DEF R
<1>8. \A r, d \in Rows : <<r, d>> \in dep' <=>
             \/ <<r, d>> \in dep
             \/ /\ r \in R /\ d \in R /\ kind'[r[1]] = "apply"
                /\ r[1] = d[1] /\ r[2] = Relay /\ d[2] # Relay
  <2> SUFFICES ASSUME NEW r \in Rows, NEW d \in Rows
               PROVE  <<r, d>> \in edges <=>
                         /\ r \in R /\ d \in R /\ kind'[r[1]] = "apply"
                         /\ r[1] = d[1] /\ r[2] = Relay /\ d[2] # Relay
    BY <1>2
  <2>1. CASE k # "apply"
    BY <2>1, <1>1, <1>4
  <2>2. CASE k = "apply"
    <3>1. <<r, d>> \in edges <=> \E t \in T \ {Relay} : r = <<o, Relay>> /\ d = <<o, t>>
      BY <2>2
    <3> QED  BY <3>1, <2>2, <1>1, <1>4
  <2> QED  BY <2>1, <2>2
<1>9. \A r \in R :
             /\ ~Archived(r[2])
             /\ IF Governed(kind'[r[1]]) THEN NodeOf[r[2]] = NoNode ELSE st[r] = "queued"
             /\ kind'[r[1]] = "apply" =>
                   <<r[1], Relay>> \in R /\ st[<<r[1], Relay>>] = "queued"
  BY <1>1, <1>2, <1>4
<1>10. /\ R \in SUBSET Rows
       /\ status' = [r \in Rows |-> IF r \in R THEN st[r] ELSE status[r]]
       /\ finalized' = finalized /\ bridge' = bridge /\ archived' = archived
  BY <1>1, <1>2, <1>3
<1>11. \A w \in Workers : pc'[w] = "finalize" => pc[w] = "finalize" /\ item'[w] = item[w]
  BY <1>3
<1> QED  BY <1>5, <1>6, <1>7, <1>8, <1>9, <1>10, <1>11, InsertOutcome

LEMMA CreateOutcome ==
  ASSUME QueueInv, QueueInv', OutcomeInv, Create
  PROVE  OutcomeInv'
<1>1. PICK o \in Ops :
        \/ \E k \in ApiKinds, T \in SUBSET Targets : CreateOperation(o, k, T)
        \/ \E c \in Clients : CreateProfileApplyOperation(o, c)
        \/ \E old \in Ops : RetryFailedTargets(o, old)
        \/ \E old \in Ops : RetryProfileApplyTargets(o, old)
  BY DEF Create
<1> DEFINE queued == [r \in Rows |-> "queued"]
<1>q. /\ queued \in [Rows -> {"queued", "succeeded"}]
      /\ \A t \in Targets : queued[<<o, t>>] = "queued"
  BY DEF Rows
<1>r. Relay \in Targets /\ NodeOf[Relay] = NoNode
  BY ConstantsAssumption
<1>2. ASSUME NEW k \in ApiKinds, NEW T \in SUBSET Targets, CreateOperation(o, k, T)
      PROVE  OutcomeInv'
  <2> DEFINE pd == IF k = "relay_config_apply" THEN {o} \X T ELSE {}
  <2>1. k \in Kinds /\ k # "apply"
    BY ConstantsAssumption DEF Kinds
  <2>2. pd = (IF Governed(k) THEN {o} \X T ELSE {})
    BY <2>1 DEF Governed
  <2>3. InsertRows(o, k, {o} \X T, queued, pd, {}) /\ T # {}
    BY <1>2 DEF CreateOperation
  <2>4. \A t \in T : IF Governed(k) THEN NodeOf[t] = NoNode ELSE queued[<<o, t>>] = "queued"
    BY <1>2, <2>1, <1>q, <1>r DEF CreateOperation, Governed
  <2> HIDE DEF pd, queued
  <2> QED  BY <2>1, <2>2, <2>3, <2>4, <1>q, InsertRowsOutcome
<1>3. ASSUME NEW c \in Clients, CreateProfileApplyOperation(o, c)
      PROVE  OutcomeInv'
  <2> DEFINE T == {c, Relay}
             edges == {<< <<o, Relay>>, <<o, c>> >>}
  <2>1. T \in SUBSET Targets /\ T # {} /\ Relay \in T /\ c # Relay
    BY ConstantsAssumption
  <2>2. \A t \in T : NodeOf[t] = NoNode
    BY ConstantsAssumption
  <2>3. "apply" \in Kinds /\ Governed("apply")
    BY DEF Kinds, Governed
  <2>4. edges = {<< <<o, Relay>>, <<o, t>> >> : t \in T \ {Relay}}
    BY <2>1
  <2>5. InsertRows(o, "apply", {o} \X T, queued, {o} \X T, edges)
    BY <1>3 DEF CreateProfileApplyOperation
  <2> HIDE DEF T, edges, queued
  <2> QED  BY <2>1, <2>2, <2>3, <2>4, <2>5, <1>q, InsertRowsOutcome
<1>4. ASSUME NEW old \in Ops, RetryFailedTargets(o, old)
      PROVE  OutcomeInv'
  <2> DEFINE T == {t \in Targets : status[<<old, t>>] \in {"failed", "partial"}}
             k == kind[old]
             pd == IF k = "relay_config_apply" THEN {o} \X T ELSE {}
  <2>1. k \in Kinds /\ k # "apply" /\ T \in SUBSET Targets /\ T # {}
    BY <1>4 DEF QueueInv, TypeOK, RetryFailedTargets
  <2>2. pd = (IF Governed(k) THEN {o} \X T ELSE {})
    BY <2>1 DEF Governed
  <2>3. InsertRows(o, k, {o} \X T, queued, pd, {})
    BY <1>4 DEF RetryFailedTargets
  <2>4. \A t \in T : Governed(k) => NodeOf[t] = NoNode
    BY DEF OutcomeInv, GovernedLocal, Rows
  <2>5. \A t \in T : IF Governed(k) THEN NodeOf[t] = NoNode ELSE queued[<<o, t>>] = "queued"
    BY <2>4, <1>q
  <2> HIDE DEF T, k, pd, queued
  <2> QED  BY <2>1, <2>2, <2>3, <2>5, <1>q, InsertRowsOutcome
<1>5. ASSUME NEW old \in Ops, RetryProfileApplyTargets(o, old)
      PROVE  OutcomeInv'
  <2> DEFINE T == {r[2] : r \in RowsOf(old)}
             st == [r \in Rows |-> IF status[<<old, r[2]>>] = "succeeded"
                                   THEN "succeeded" ELSE "queued"]
             edges == {<< <<o, Relay>>, <<o, t>> >> : t \in T \ {Relay}}
  <2>1. T \in SUBSET Targets /\ \A t \in Targets : t \in T <=> status[<<old, t>>] # "none"
    BY DEF RowsOf, Rows
  <2>2. "apply" \in Kinds /\ Governed("apply")
    BY DEF Kinds, Governed
  <2>3. InsertRows(o, "apply", {o} \X T, st, {o} \X T, edges)
    BY <1>5 DEF RetryProfileApplyTargets
  <2>4. kind[old] = "apply" /\ \E t \in T : status[<<old, t>>] \in {"failed", "partial"}
    BY <1>5 DEF RetryProfileApplyTargets
  <2>5. st \in [Rows -> {"queued", "succeeded"}]
    OBVIOUS
  <2>6. Relay \in T
    BY <2>1, <2>4, <1>r DEF OutcomeInv, ApplyEdges
  <2>7. \A t \in T : NodeOf[t] = NoNode
    <3> SUFFICES ASSUME NEW t \in T PROVE NodeOf[t] = NoNode
      OBVIOUS
    <3>1. <<old, t>> \in Rows /\ <<old, t>>[1] = old /\ <<old, t>>[2] = t
      BY <2>1 DEF Rows
    <3> HIDE DEF T
    <3> QED  BY <3>1, <2>1, <2>2, <2>4 DEF OutcomeInv, GovernedLocal
  \* Had the relay step succeeded, so would every step it depends on.
  <2>8. status[<<old, Relay>>] # "succeeded"
    <3> SUFFICES ASSUME status[<<old, Relay>>] = "succeeded" PROVE FALSE
      OBVIOUS
    <3>1. PICK t \in T : status[<<old, t>>] \in {"failed", "partial"}
      BY <2>4
    <3>2. t # Relay /\ t \in Targets /\ status[<<old, t>>] # "none"
      BY <3>1, <2>1
    <3>3. << <<old, Relay>>, <<old, t>> >> \in dep
      BY <3>2, <2>4 DEF OutcomeInv, ApplyEdges
    <3>4. <<old, Relay>> \in Rows /\ <<old, t>> \in Rows
      BY <3>2, <1>r DEF Rows
    <3> QED  BY <3>1, <3>3, <3>4 DEF OutcomeInv, DependencyOrder
  <2>9. st[<<o, Relay>>] = "queued"
    BY <2>8, <1>r DEF Rows
  <2>10. T # {}
    BY <2>6
  <2> HIDE DEF T, st
  <2> QED  BY <2>1, <2>2, <2>3, <2>5, <2>6, <2>7, <2>9, <2>10, InsertRowsOutcome
<1> QED  BY <1>1, <1>2, <1>3, <1>4, <1>5

\* Reconcile operations, of a scheduler tick or of a coalesced rerun.
LEMMA ReconcileOutcome ==
  ASSUME QueueInv, QueueInv', OutcomeInv, NEW R \in SUBSET Rows,
         \A r \in R : /\ opStatus[r[1]] = "none" /\ opStatus'[r[1]] = "queued"
                      /\ kind'[r[1]] = "reconcile" /\ ~Archived(r[2]),
         \A o \in Ops : (\A r \in R : r[1] # o) =>
             opStatus'[o] = opStatus[o] /\ kind'[o] = kind[o],
         status' = [r \in Rows |-> IF r \in R THEN "queued" ELSE status[r]],
         UNCHANGED <<pend, dep, finalized, bridge, archived>>,
         \A w \in Workers : pc'[w] = "finalize" => pc[w] = "finalize" /\ item'[w] = item[w]
  PROVE  OutcomeInv'
<1> DEFINE st == [r \in Rows |-> "queued"]
<1>1. st \in [Rows -> {"queued", "succeeded"}] /\ \A r \in R : st[r] = "queued"
  OBVIOUS
<1>2. status' = [r \in Rows |-> IF r \in R THEN st[r] ELSE status[r]]
  OBVIOUS
<1>3. ~Governed("reconcile")
  BY DEF Governed
<1> HIDE DEF st
<1>4. \A r \in R : opStatus[r[1]] = "none" /\ opStatus'[r[1]] = "queued"
  OBVIOUS
<1>5. \A r \in Rows : r \in pend' <=> r \in pend \/ (r \in R /\ Governed(kind'[r[1]]))
  BY <1>3
<1>6. \A r, d \in Rows : <<r, d>> \in dep' <=>
             \/ <<r, d>> \in dep
             \/ /\ r \in R /\ d \in R /\ kind'[r[1]] = "apply"
                /\ r[1] = d[1] /\ r[2] = Relay /\ d[2] # Relay
  OBVIOUS
<1>7. \A r \in R :
             /\ ~Archived(r[2])
             /\ IF Governed(kind'[r[1]]) THEN NodeOf[r[2]] = NoNode ELSE st[r] = "queued"
             /\ kind'[r[1]] = "apply" =>
                   <<r[1], Relay>> \in R /\ st[<<r[1], Relay>>] = "queued"
  BY <1>1, <1>3
<1>8. finalized' = finalized /\ bridge' = bridge /\ archived' = archived
  OBVIOUS
<1> QED  BY <1>1, <1>2, <1>4, <1>5, <1>6, <1>7, <1>8, InsertOutcome

LEMMA TickOutcome ==
  ASSUME QueueInv, QueueInv', OutcomeInv, Tick
  PROVE  OutcomeInv'
<1> SUFFICES ASSUME NEW E \in SUBSET Targets, NEW new, EnqueueReconciles(E, new)
             PROVE  OutcomeInv'
  BY DEF Tick
<1> DEFINE busy == {r \in Rows : status[r] \in Live /\ r[2] \in E}
           free == E \ {r[2] : r \in busy}
           R    == {<<new[t], t>> : t \in free}
<1>1. /\ free \subseteq Targets
      /\ \A t \in free : new[t] \in Ops /\ opStatus[new[t]] = "none" /\ ~Archived(t)
  BY DEF EnqueueReconciles, Eligible
<1>2. /\ opStatus' = [o \in Ops |-> IF \E t \in free : new[t] = o
                                    THEN "queued" ELSE opStatus[o]]
      /\ kind' = [o \in Ops |-> IF \E t \in free : new[t] = o
                                THEN "reconcile" ELSE kind[o]]
      /\ status' = [r \in Rows |-> IF r \in R THEN "queued" ELSE status[r]]
  BY DEF EnqueueReconciles
<1>3. UNCHANGED <<pend, dep, finalized, bridge, archived, workVars>>
  BY DEF EnqueueReconciles
<1> HIDE DEF free
<1>4. R \in SUBSET Rows
  BY <1>1 DEF Rows
<1>5. \A r \in R : /\ opStatus[r[1]] = "none" /\ opStatus'[r[1]] = "queued"
                   /\ kind'[r[1]] = "reconcile" /\ ~Archived(r[2])
  BY <1>1, <1>2
<1>6. \A o \in Ops : (\A r \in R : r[1] # o) =>
             opStatus'[o] = opStatus[o] /\ kind'[o] = kind[o]
  <2> SUFFICES ASSUME NEW o \in Ops, \A r \in R : r[1] # o
               PROVE  opStatus'[o] = opStatus[o] /\ kind'[o] = kind[o]
    OBVIOUS
  <2>1. \A t \in free : <<new[t], t>> \in R /\ <<new[t], t>>[1] = new[t]
    OBVIOUS
  <2> HIDE DEF R
  <2> QED  BY <2>1, <1>2
<1>7. \A w \in Workers : pc'[w] = "finalize" => pc[w] = "finalize" /\ item'[w] = item[w]
  BY <1>3 DEF workVars
<1>8. UNCHANGED <<pend, dep, finalized, bridge, archived>>
  BY <1>3
<1> HIDE DEF R
<1> QED  BY <1>2, <1>4, <1>5, <1>6, <1>7, <1>8, ReconcileOutcome

\* What a step that changes no row, operation or ownership preserves.
LEMMA QuietOutcome ==
  ASSUME QueueInv, QueueInv', OutcomeInv,
         UNCHANGED <<opStatus, kind, finalized, status, pend, dep, archived>>,
         bridge \subseteq bridge',
         \A w \in Workers : pc'[w] = "finalize" => pc[w] = "finalize" /\ item'[w] = item[w]
  PROVE  OutcomeInv'
<1>1. Ages
  BY DEF Ages
<1>2. DepShape' /\ ApplyEdges' /\ GovernedLocal' /\ FinalizeReady'
  BY <1>1, AgesShape, AgesReady
<1>3. DependencyOrder' /\ ArchivedNodeDrained'
  BY DEF OutcomeInv, DependencyOrder, ArchivedNodeDrained, Archived
<1>4. \A o \in Ops : OpInv(o)'
  BY FrameOp DEF SameOp, OutcomeInv
<1> QED  BY <1>2, <1>3, <1>4 DEF OutcomeInv

LEMMA RerunOutcome ==
  ASSUME QueueInv, QueueInv', OutcomeInv,
         NEW w \in Workers, NEW o \in Ops, NEW e \in BOOLEAN, EnqueuePendingRerun(w, o, e)
  PROVE  OutcomeInv'
<1> DEFINE t == item[w][2]
           R == {<<o, t>>}
<1>1. t \in Targets /\ R \in SUBSET Rows /\ \A r \in R : r[1] = o /\ r[2] = t
  BY DEF EnqueuePendingRerun, QueueInv, Holding, Rows
<1>2. UNCHANGED <<pend, dep, finalized, bridge, archived>>
  BY DEF EnqueuePendingRerun
<1>3. \A v \in Workers : pc'[v] = "finalize" => pc[v] = "finalize" /\ item'[v] = item[v]
  BY DEF EnqueuePendingRerun, Goto, QueueInv, TypeOK
<1>4. CASE UNCHANGED <<status, opStatus, kind>>
  BY <1>2, <1>3, <1>4, QuietOutcome
<1>5. CASE /\ opStatus[o] = "none" /\ ~Archived(t)
           /\ status' = [status EXCEPT ![<<o, t>>] = "queued"]
           /\ opStatus' = [opStatus EXCEPT ![o] = "queued"]
           /\ kind' = [kind EXCEPT ![o] = "reconcile"]
  <2>1. status' = [r \in Rows |-> IF r \in R THEN "queued" ELSE status[r]]
    BY <1>1, <1>5 DEF QueueInv, TypeOK
  <2>2. \A r \in R : /\ opStatus[r[1]] = "none" /\ opStatus'[r[1]] = "queued"
                     /\ kind'[r[1]] = "reconcile" /\ ~Archived(r[2])
    BY <1>1, <1>5 DEF QueueInv, TypeOK
  <2>3. \A x \in Ops : (\A r \in R : r[1] # x) =>
             opStatus'[x] = opStatus[x] /\ kind'[x] = kind[x]
    BY <1>1, <1>5 DEF QueueInv, TypeOK
  <2> HIDE DEF R, t
  <2> QED  BY <1>1, <1>2, <1>3, <2>1, <2>2, <2>3, ReconcileOutcome
<1> QED  BY <1>4, <1>5 DEF EnqueuePendingRerun

\* Where ownership is not touched and no row of the operation can go wrong, or
\* the operation has no finalizer, Settles holds.
LEMMA UntouchedSettles ==
  ASSUME QueueInv, NEW o \in Ops, OpInv(o),
         \A r \in Rows : r[1] = o => (r \in pend' <=> r \in pend),
         \/ ~Governed(kind[o])
         \/ \A x \in Rows : /\ x[1] = o
                            /\ status'[x] \in {"partial", "failed", "cancelled"}
                            => status[x] \in {"partial", "failed", "cancelled"}
  PROVE  Settles(o)
<1>1. CASE ~Governed(kind[o])
  BY <1>1 DEF Settles, OpInv, PendClean
<1>2. CASE \A x \in Rows : /\ x[1] = o
                           /\ status'[x] \in {"partial", "failed", "cancelled"}
                           => status[x] \in {"partial", "failed", "cancelled"}
  <2> SUFFICES ASSUME NEW x \in Rows, x[1] = o,
                      status'[x] \in {"partial", "failed", "cancelled"},
                      NEW r \in Rows, r[1] = o, r \in pend
               PROVE  FALSE
    BY DEF Settles
  <2>1. x \in RowsOf(o) /\ status[x] \in {"partial", "failed", "cancelled"}
    BY <1>2 DEF RowsOf
  <2> QED  BY <2>1 DEF OpInv, PendClean
<1> QED  BY <1>1, <1>2

LEMMA CancelOutcome ==
  ASSUME QueueInv, QueueInv', OutcomeInv, NEW o \in Ops, CancelOperation(o)
  PROVE  OutcomeInv'
<1> USE DEF QueueInv
<1> DEFINE dropped == {r \in RowsOf(o) : status[r] = "queued"}
<1>1. /\ status' = [r \in Rows |-> IF r \in dropped THEN "cancelled" ELSE status[r]]
      /\ pend' = IF dropped # {} THEN pend \ RowsOf(o) ELSE pend
      /\ opStatus' = [opStatus EXCEPT ![o] = Recalculated(o, status', pend')]
      /\ opStatus[o] \in Live
      /\ UNCHANGED <<kind, finalized, bridge, dep, archived, workVars>>
  BY DEF CancelOperation
<1>2. \A r \in dropped : r \in Rows /\ r[1] = o /\ status[r] = "queued"
  BY DEF RowsOf
<1>3. Ages
  BY <1>1, <1>2 DEF Ages, Terminal
<1>4. DependencyOrder'
  <2>1. \A x \in Rows : status'[x] # status[x] => status'[x] = "cancelled"
    BY <1>1
  <2> HIDE DEF dropped
  <2> QED  BY <2>1, <1>3, AgesOrder
<1>5. ArchivedNodeDrained'
  BY <1>1 DEF OutcomeInv, ArchivedNodeDrained, Archived
<1>6. FinalizeReady'
  BY <1>1, <1>3, AgesReady DEF workVars
<1>7. ASSUME NEW x \in Ops, x # o PROVE OpInv(x)'
  <2>1. SameOp(x)
    BY <1>1, <1>2, <1>7 DEF SameOp, RowsOf, TypeOK
  <2> QED  BY <2>1, FrameOp DEF OutcomeInv
<1>8. OpInv(o)'
  <2>1. Settles(o)
    <3>1. CASE dropped # {}
      <4>1. \A r \in Rows : r[1] = o => r \notin pend'
        BY <1>1, <3>1 DEF OutcomeInv, OpInv, PendClean, RowsOf
      <4>2. \E x \in Rows : x[1] = o /\ status'[x] = "cancelled"
        BY <1>1, <1>2, <3>1
      <4> QED  BY <4>1, <4>2 DEF Settles
    <3>2. CASE dropped = {}
      <4>1. pend' = pend /\ \A x \in Rows : status'[x] = status[x]
        BY <1>1, <3>2
      <4> QED  BY <4>1, UntouchedSettles DEF OutcomeInv
    <3> QED  BY <3>1, <3>2
  <2>2. opStatus'[o] = Recalculated(o, status', pend')
    BY <1>1 DEF TypeOK
  <2> HIDE DEF dropped
  <2> QED  BY <1>1, <1>3, <2>1, <2>2, StepOpInv DEF OutcomeInv
<1> QED  BY <1>3, <1>4, <1>5, <1>6, <1>7, <1>8, AgesShape DEF OutcomeInv

LEMMA DiscoverOutcome ==
  ASSUME QueueInv, QueueInv', OutcomeInv,
         NEW seen \in SUBSET Nodes, UpsertDiscoveredNodes(seen)
  PROVE  OutcomeInv'
<1> USE DEF QueueInv
<1> DEFINE lost == {r \in Rows : NodeOf[r[2]] \in (Nodes \ seen) \ archived}
           dropped == {r \in lost : status[r] = "queued" /\ r \notin bridge}
<1>1. /\ status' = [r \in Rows |-> IF r \in dropped THEN "cancelled" ELSE status[r]]
      /\ opStatus' = [o \in Ops |-> IF \E r \in dropped : r[1] = o
                                    THEN Recalculated(o, status', pend') ELSE opStatus[o]]
      /\ archived' = Nodes \ seen
      /\ UNCHANGED <<kind, finalized, pend, bridge, dep, workVars>>
  BY DEF UpsertDiscoveredNodes
<1>2. \A r \in dropped : /\ r \in Rows /\ r[1] \in Ops /\ status[r] = "queued"
                         /\ NodeOf[r[2]] # NoNode
  BY ConstantsAssumption DEF Rows
<1>3. Ages
  BY <1>1, <1>2 DEF Ages, Terminal
<1>4. DependencyOrder'
  <2>1. \A x \in Rows : status'[x] # status[x] => status'[x] = "cancelled"
    BY <1>1
  <2> HIDE DEF dropped
  <2> QED  BY <2>1, <1>3, AgesOrder
<1>5. ArchivedNodeDrained'
  <2> SUFFICES ASSUME NEW r \in Rows, status'[r] = "queued", NodeOf[r[2]] \in Nodes \ seen
               PROVE  r \in bridge
    BY <1>1 DEF ArchivedNodeDrained, Archived
  <2>1. r \notin dropped /\ status[r] = "queued"
    BY <1>1
  <2> QED  BY <2>1 DEF OutcomeInv, ArchivedNodeDrained, Archived
<1>6. FinalizeReady'
  BY <1>1, <1>3, AgesReady DEF workVars
<1>7. ASSUME NEW o \in Ops, \A r \in dropped : r[1] # o PROVE OpInv(o)'
  <2>1. SameOp(o)
    BY <1>1, <1>7 DEF SameOp
  <2> QED  BY <2>1, FrameOp DEF OutcomeInv
<1>8. ASSUME NEW q \in dropped PROVE OpInv(q[1])'
  <2> DEFINE o == q[1]
  <2>1. o \in Ops /\ q \in RowsOf(o) /\ q \in Owners(status, pend)
    BY <1>2 DEF RowsOf, Owners, Live
  <2>2. opStatus[o] \in Live
    BY <2>1 DEF OutcomeInv, OpInv, OpenIffOwned, FreshIds, RowsOf
  <2>3. ~Governed(kind[o])
    BY <1>2 DEF OutcomeInv, GovernedLocal
  <2>4. opStatus'[o] = Recalculated(o, status', pend')
    BY <1>1, <2>1
  <2> HIDE DEF o, dropped
  <2>5. Settles(o)
    BY <1>1, <2>1, <2>3, UntouchedSettles DEF OutcomeInv
  <2>6. OpInv(o)'
    BY <1>1, <1>3, <2>1, <2>2, <2>4, <2>5, StepOpInv DEF OutcomeInv
  <2> QED  BY <2>6 DEF o
<1>9. \A o \in Ops : OpInv(o)'
  BY <1>7, <1>8
<1> QED  BY <1>3, <1>4, <1>5, <1>6, <1>9, AgesShape DEF OutcomeInv

LEMMA ClaimOutcome ==
  ASSUME QueueInv, QueueInv', OutcomeInv,
         NEW w \in Workers, NEW r \in Rows, ClaimOperationTarget(w, r)
  PROVE  OutcomeInv'
<1> USE DEF QueueInv
<1> DEFINE o == r[1]
<1>1. /\ o \in Ops /\ status[r] = "queued"
      /\ status' = [status EXCEPT ![r] = "running"]
      /\ opStatus' = [opStatus EXCEPT ![o] = "running"]
      /\ \A d \in Rows : <<r, d>> \in dep => status[d] = "succeeded"
      /\ UNCHANGED <<kind, finalized, pend, bridge, dep, archived>>
  BY DEF ClaimOperationTarget, Claimable, Rows
<1>2. \A v \in Workers : pc'[v] = "finalize" => pc[v] = "finalize" /\ item'[v] = item[v]
  BY DEF ClaimOperationTarget, Goto, TypeOK
<1>3. Ages
  BY <1>1 DEF Ages, Terminal, TypeOK
<1>4. DependencyOrder'
  BY <1>1 DEF OutcomeInv, DependencyOrder, TypeOK, Live
<1>5. ArchivedNodeDrained'
  BY <1>1 DEF OutcomeInv, ArchivedNodeDrained, Archived, TypeOK
<1>6. FinalizeReady'
  BY <1>2, <1>3, AgesReady
<1>7. ASSUME NEW x \in Ops, x # o PROVE OpInv(x)'
  <2>1. SameOp(x)
    BY <1>1, <1>7 DEF SameOp, TypeOK
  <2> QED  BY <2>1, FrameOp DEF OutcomeInv
<1>8. OpInv(o)'
  <2>1. r \in RowsOf(o) /\ r \in Owners(status, pend)
    BY <1>1 DEF RowsOf, Owners, Live
  <2>2. opStatus[o] \in Live
    BY <1>1, <2>1 DEF OutcomeInv, OpInv, OpenIffOwned, FreshIds
  <2>3. Settles(o)
    <3>1. \A x \in Rows : /\ x[1] = o
                          /\ status'[x] \in {"partial", "failed", "cancelled"}
                          => status[x] \in {"partial", "failed", "cancelled"}
      BY <1>1 DEF TypeOK
    <3> HIDE DEF o
    <3> QED  BY <1>1, <3>1, UntouchedSettles DEF OutcomeInv
  <2>4. opStatus'[o] \in Live /\ \E x \in Rows : x[1] = o /\ status'[x] \in Live
    BY <1>1 DEF TypeOK, Live
  <2> HIDE DEF o
  <2> QED  BY <1>1, <1>3, <2>2, <2>3, <2>4, StepOpInv DEF OutcomeInv
<1> QED  BY <1>3, <1>4, <1>5, <1>6, <1>7, <1>8, AgesShape DEF OutcomeInv

LEMMA MetadataOutcome ==
  ASSUME QueueInv, QueueInv', OutcomeInv, NEW w \in Workers,
         SetBridgeOperationMetadata(w) \/ PinDesiredSnapshot(w)
  PROVE  OutcomeInv'
<1>1. /\ UNCHANGED <<opStatus, kind, finalized, status, pend, dep, archived>>
      /\ bridge \subseteq bridge'
  BY DEF SetBridgeOperationMetadata, PinDesiredSnapshot, opVars, rowVars
<1>2. \A v \in Workers : pc'[v] = "finalize" => pc[v] = "finalize" /\ item'[v] = item[v]
  BY DEF SetBridgeOperationMetadata, PinDesiredSnapshot, Goto, QueueInv, TypeOK, workVars
<1> QED  BY <1>1, <1>2, QuietOutcome

LEMMA LossOutcome ==
  ASSUME QueueInv, QueueInv', OutcomeInv, (\E w \in Workers : StrandStep(w)) \/ Crash
  PROVE  OutcomeInv'
<1>1. UNCHANGED <<opStatus, kind, finalized, status, pend, dep, archived, bridge>>
  BY DEF StrandStep, Crash, opVars, rowVars
<1>2. \A v \in Workers : pc'[v] = "finalize" => pc[v] = "finalize" /\ item'[v] = item[v]
  BY DEF StrandStep, Crash, Goto, QueueInv, TypeOK
<1> QED  BY <1>1, <1>2, QuietOutcome

LEMMA FinishOutcome ==
  ASSUME QueueInv, QueueInv', OutcomeInv,
         NEW w \in Workers, NEW s \in Terminal, FinishOperationTarget(w, s)
  PROVE  OutcomeInv'
<1> USE DEF QueueInv
<1>0. PICK r \in Rows : r = item[w]
  BY DEF FinishOperationTarget, StepOutcome, Holding
<1> DEFINE o == r[1]
           Failed(x) == s # "succeeded" /\ <<x, r>> \in dep /\ status[x] = "queued"
           Bad == {"partial", "failed", "cancelled"}
<1>1. r \in Rows /\ o \in Ops /\ status[r] = "running"
  BY <1>0 DEF FinishOperationTarget, Rows
<1>2. status' = [x \in Rows |-> IF x = r THEN s ELSE IF Failed(x) THEN "failed" ELSE status[x]]
  BY <1>0 DEF FinishOperationTarget
<1>3. pend' = IF \E x \in RowsOf(o) : status'[x] \in Bad THEN pend \ RowsOf(o) ELSE pend
  BY <1>0 DEF FinishOperationTarget
<1>4. /\ opStatus' = [opStatus EXCEPT ![o] = Recalculated(o, status', pend')]
      /\ UNCHANGED <<kind, finalized, bridge, dep, archived>>
  BY <1>0 DEF FinishOperationTarget
<1>5. /\ item' = [item EXCEPT ![w] = r]
      /\ \/ pc' = [pc EXCEPT ![w] = "rerun"]
         \/ /\ pc' = [pc EXCEPT ![w] = "finalize"]
            /\ \A x \in RowsOf(o) : status'[x] \in Terminal
  BY <1>0 DEF FinishOperationTarget, Goto
<1>6. \A x \in Rows : Failed(x) => x[1] = o /\ x[2] = Relay /\ r[2] # Relay
  BY <1>1 DEF OutcomeInv, DepShape
<1>7. \A x \in Rows : status'[x] = IF x = r THEN s ELSE IF Failed(x) THEN "failed" ELSE status[x]
  BY <1>2
<1>8. Ages
  <2>1. pend' \subseteq pend
    BY <1>3
  <2> QED  BY <1>1, <1>4, <1>7, <2>1 DEF Ages, Terminal
<1>9. DependencyOrder'
  <2> SUFFICES ASSUME NEW x \in Rows, NEW d \in Rows, <<x, d>> \in dep
               PROVE  /\ status'[x] \in {"running", "succeeded", "partial"} => status'[d] = "succeeded"
                      /\ status'[d] \in {"partial", "failed"} => status'[x] \notin Live
    BY <1>4 DEF DependencyOrder
  <2>1. /\ status[x] \in {"running", "succeeded", "partial"} => status[d] = "succeeded"
        /\ status[d] \in {"partial", "failed"} => status[x] \notin Live
        /\ x[2] = Relay /\ d[2] # Relay
    BY DEF OutcomeInv, DependencyOrder, DepShape
  <2>2. CASE d = r
    BY <2>1, <2>2, <1>1, <1>7 DEF Live, TypeOK, RowStatus, Terminal
  <2>3. CASE d # r
    <3>1. status'[d] = status[d]
      BY <2>1, <2>3, <1>6, <1>7
    <3> QED  BY <3>1, <2>1, <1>1, <1>7 DEF Live, Terminal
  <2> QED  BY <2>2, <2>3
<1>10. ArchivedNodeDrained'
  BY <1>4, <1>7 DEF OutcomeInv, ArchivedNodeDrained, Archived, Terminal
<1>11. FinalizeReady'
  <2>1. RowsOf(o)' = RowsOf(o)
    BY <1>8 DEF RowsOf, Ages
  <2>2. \A v \in Workers \ {w} : pc'[v] = pc[v] /\ item'[v] = item[v]
    BY <1>5 DEF TypeOK
  <2>3. pc'[w] = "finalize" => \A x \in RowsOf(o)' : status'[x] \in Terminal
    BY <1>5, <2>1 DEF TypeOK
  <2>4. item'[w] = r /\ status'[r] # "none"
    BY <1>1, <1>5, <1>7 DEF TypeOK, Terminal
  <2>5. ASSUME NEW v \in Workers \ {w}, pc[v] = "finalize", NEW q \in Rows, q = item[v]
        PROVE  /\ status'[q] # "none"
               /\ \A x \in RowsOf(q[1])' : status'[x] \in Terminal
    <3>1. status[q] # "none" /\ \A x \in RowsOf(q[1]) : x \in Rows /\ status[x] \in Terminal
      BY <2>5 DEF OutcomeInv, FinalizeReady, RowsOf
    <3>2. RowsOf(q[1])' = RowsOf(q[1])
      BY <1>8 DEF RowsOf, Ages
    <3> QED  BY <3>1, <3>2, <1>8 DEF Ages
  <2>6. ASSUME NEW v \in Workers, pc'[v] = "finalize", NEW q \in Rows, q = item'[v]
        PROVE  /\ status'[q] # "none"
               /\ \A x \in RowsOf(q[1])' : status'[x] \in Terminal
    <3>1. CASE v = w
      BY <3>1, <2>3, <2>4, <2>6
    <3>2. CASE v # w
      BY <3>2, <2>2, <2>5, <2>6
    <3> QED  BY <3>1, <3>2
  <2>7. \A v \in Workers : pc'[v] = "finalize" => item'[v] \in Rows
    BY DEF Holding
  <2> SUFFICES ASSUME NEW v \in Workers, pc'[v] = "finalize"
               PROVE  (/\ status[item[v]] # "none"
                       /\ \A x \in RowsOf(item[v][1]) : status[x] \in Terminal)'
    BY DEF FinalizeReady
  <2>8. PICK q \in Rows : q = item'[v]
    BY <2>7
  <2> QED  BY <2>6, <2>8 DEF RowsOf
<1>12. ASSUME NEW x \in Ops, x # o PROVE OpInv(x)'
  <2>1. SameOp(x)
    BY <1>1, <1>3, <1>4, <1>6, <1>7, <1>12 DEF SameOp, RowsOf, TypeOK
  <2> QED  BY <2>1, FrameOp DEF OutcomeInv
<1>13. OpInv(o)'
  <2>1. r \in RowsOf(o) /\ r \in Owners(status, pend)
    BY <1>1 DEF RowsOf, Owners, Live
  <2>2. opStatus[o] \in Live
    BY <1>1, <2>1 DEF OutcomeInv, OpInv, OpenIffOwned, FreshIds
  <2>3. Settles(o)
    <3>1. \A x \in Rows : x[1] = o /\ status'[x] \in Bad => x \in RowsOf(o)
      BY <1>8 DEF Ages, RowsOf
    <3>2. \A x \in Rows : x[1] = o /\ x \in pend => x \in RowsOf(o)
      BY <1>1 DEF OutcomeInv, OpInv, PendClean, RowsOf
    <3>3. \A x \in RowsOf(o) : x \in Rows /\ x[1] = o
      BY DEF RowsOf
    <3> QED  BY <1>3, <3>1, <3>2, <3>3 DEF Settles
  <2>4. opStatus'[o] = Recalculated(o, status', pend')
    BY <1>1, <1>4 DEF TypeOK
  <2> HIDE DEF o
  <2> QED  BY <1>1, <1>4, <1>8, <2>2, <2>3, <2>4, StepOpInv DEF OutcomeInv
<1> QED  BY <1>8, <1>9, <1>10, <1>11, <1>12, <1>13, AgesShape DEF OutcomeInv

\* A finalizer closes its operation as succeeded when it publishes, and as
\* failed, over rows that all succeeded, when it refuses.
LEMMA FinalizerOutcome ==
  ASSUME QueueInv, QueueInv', OutcomeInv, NEW o \in Ops,
         \/ Finalize(o)
         \/ FinalizeRelaxed(o)
         \/ /\ FailGovernanceFinalization(o)
            /\ \A x \in RowsOf(o) : status[x] \in Terminal,
         \A w \in Workers : pc'[w] = "finalize" => pc[w] = "finalize" /\ item'[w] = item[w]
  PROVE  OutcomeInv'
<1> USE DEF QueueInv
<1>1. /\ UNCHANGED <<kind, status, bridge, dep, archived>>
      /\ pend' \subseteq pend
  BY DEF Finalize, FinalizeRelaxed, FailGovernanceFinalization, rowVars
<1>2. Ages
  BY <1>1 DEF Ages
<1>3. DepShape' /\ ApplyEdges' /\ GovernedLocal' /\ FinalizeReady'
  BY <1>2, AgesShape, AgesReady
<1>4. DependencyOrder' /\ ArchivedNodeDrained'
  BY <1>1 DEF OutcomeInv, DependencyOrder, ArchivedNodeDrained, Archived
<1>5. \A r \in RowsOf(o) : r \in Rows /\ r[1] = o /\ status[r] # "none"
  BY DEF RowsOf
<1>6. ASSUME NEW x \in Ops, x # o PROVE OpInv(x)'
  <2>1. SameOp(x)
    BY <1>5, <1>6 DEF SameOp, Finalize, FinalizeRelaxed, FailGovernanceFinalization, TypeOK, rowVars
  <2> QED  BY <2>1, FrameOp DEF OutcomeInv
<1>7. OpInv(o)'
  <2> DEFINE S == {status[r] : r \in RowsOf(o)}
  <2>1. OpInv(o) /\ HasRows(o) /\ OpenIffOwned(o) /\ PendClean(o) /\ Honest(o)
    BY DEF OutcomeInv, OpInv
  <2>2. RowsOf(o)' = RowsOf(o) /\ S' = S
    BY <1>1 DEF RowsOf
  <2>3. CASE FinalizeRelaxed(o)
    <3>1. /\ opStatus' = opStatus /\ pend' = pend /\ opStatus[o] = "partial"
          /\ RowsOf(o) \cap pend = {}
      BY <2>3 DEF FinalizeRelaxed, ClientOnly, rowVars
    <3>2. HasRows(o)' /\ OpenIffOwned(o)'
      BY <1>1, <2>1, <2>2, <3>1 DEF HasRows, OpenIffOwned
    <3>3. PendClean(o)'
      <4>1. \A r \in Rows : r[1] = o => r \notin pend
        BY <2>1, <3>1 DEF PendClean, RowsOf
      <4> QED  BY <3>1, <4>1 DEF PendClean
    <3>4. GovernedOwned(o)'
      BY <3>1 DEF GovernedOwned, Live
    <3>5. Honest(o)'
      <4>1. Tells("partial", S, kind[o], o \in finalized)
        BY <2>1, <3>1 DEF Honest, Terminal
      <4> HIDE DEF S
      <4>2. Tells("partial", S', kind'[o], (o \in finalized)')
        BY <4>1, <2>2 DEF Tells
      <4> QED  BY <4>2, <3>1 DEF Honest, S
    <3> QED  BY <3>1, <3>2, <3>3, <3>4, <3>5 DEF OpInv
  <2>4. CASE Finalize(o) \/ FailGovernanceFinalization(o)
    <3>1. /\ opStatus[o] = "running" /\ pend' = pend \ RowsOf(o)
          /\ RowsOf(o) # {}
      BY <2>1, <2>4 DEF Finalize, AllSucceededAndOwned, FailGovernanceFinalization, HasRows
    <3>2. \A r \in RowsOf(o) : status[r] = "succeeded"
      <4>1. CASE Finalize(o)
        BY <4>1 DEF Finalize, AllSucceededAndOwned
      <4>2. CASE FailGovernanceFinalization(o) /\ ~Finalize(o)
        <5>1. \A x \in RowsOf(o) : status[x] \in Terminal
          BY <4>2, <3>1 DEF FinalizeRelaxed, ClientOnly
        <5>2. PICK r \in RowsOf(o) : r \in pend
          BY <4>2 DEF FailGovernanceFinalization
        <5> QED  BY <5>1, <5>2, <1>5, <2>1 DEF PendClean, Terminal
      <4> QED  BY <2>4, <4>1, <4>2
    <3>3. S = {"succeeded"}
      BY <3>1, <3>2
    <3>4. RowsOf(o) \cap Owners(status', pend') = {}
      BY <1>1, <3>1, <3>2 DEF Owners, Live
    <3>5. \A r \in Rows : r[1] = o => r \notin pend'
      BY <2>1, <3>1 DEF PendClean, RowsOf
    <3>6. /\ opStatus'[o] \in Terminal
          /\ Tells(opStatus'[o], S, kind[o], o \in finalized')
      <4>1. CASE Finalize(o)
        <5>1. opStatus'[o] = Recalculated(o, status, pend \ RowsOf(o)) /\ o \in finalized'
          BY <4>1 DEF Finalize, TypeOK
        <5>2. RowsOf(o) \cap Owners(status, pend \ RowsOf(o)) = {}
          BY <1>1, <3>1, <3>4
        <5>3. Recalculated(o, status, pend \ RowsOf(o)) = Aggregate(S)
          BY <5>2 DEF Recalculated, RowsOf
        <5>4. Aggregate(S) = "succeeded"
          BY <3>3 DEF Aggregate
        <5> HIDE DEF S
        <5> QED  BY <5>1, <5>3, <5>4, <3>3 DEF Tells, Terminal
      <4>2. CASE FailGovernanceFinalization(o)
        <5>1. opStatus'[o] = "failed" /\ finalized' = finalized
          BY <4>2 DEF FailGovernanceFinalization, TypeOK
        <5>2. Governed(kind[o]) /\ o \notin finalized
          BY <4>2, <1>5, <2>1 DEF FailGovernanceFinalization, PendClean
        <5> HIDE DEF S
        <5> QED  BY <5>1, <5>2, <3>3 DEF Tells, Terminal
      <4> QED  BY <2>4, <4>1, <4>2
    <3>7. opStatus'[o] # "none" /\ opStatus'[o] \notin Live
      BY <3>6 DEF Terminal, Live
    <3>8. HasRows(o)' /\ OpenIffOwned(o)'
      BY <2>2, <3>1, <3>4, <3>7 DEF HasRows, OpenIffOwned
    <3>9. PendClean(o)' /\ GovernedOwned(o)'
      BY <3>5, <3>7 DEF PendClean, GovernedOwned
    <3>10. Honest(o)'
      <4> HIDE DEF S
      <4>1. Tells(opStatus'[o], S', kind'[o], (o \in finalized)')
        BY <3>6, <2>2, <1>1
      <4> QED  BY <4>1 DEF Honest, S
    <3> QED  BY <3>7, <3>8, <3>9, <3>10 DEF OpInv
  <2> QED  BY <2>3, <2>4
<1> QED  BY <1>3, <1>4, <1>6, <1>7 DEF OutcomeInv

LEMMA FinalizeStepOutcome ==
  ASSUME QueueInv, QueueInv', OutcomeInv,
         NEW w \in Workers, FinalizeGovernanceOperation(w)
  PROVE  OutcomeInv'
<1>0. PICK r \in Rows : r = item[w]
  BY DEF FinalizeGovernanceOperation, QueueInv, Holding
<1> DEFINE o == r[1]
<1>1. o \in Ops /\ pc[w] = "finalize"
  BY DEF FinalizeGovernanceOperation, Rows
<1>2. \A v \in Workers : pc'[v] = "finalize" => pc[v] = "finalize" /\ item'[v] = item[v]
  BY DEF FinalizeGovernanceOperation, Goto, QueueInv, TypeOK
<1>3. \A x \in RowsOf(o) : status[x] \in Terminal
  BY <1>0, <1>1 DEF OutcomeInv, FinalizeReady
<1>4. \/ Finalize(o) \/ FinalizeRelaxed(o) \/ FailGovernanceFinalization(o)
      \/ UNCHANGED <<opVars, rowVars, desired, archived>>
  BY <1>0 DEF FinalizeGovernanceOperation
<1> HIDE DEF o
<1>5. CASE UNCHANGED <<opVars, rowVars, desired, archived>>
  BY <1>2, <1>5, QuietOutcome DEF opVars, rowVars
<1> QED  BY <1>1, <1>2, <1>3, <1>4, <1>5, FinalizerOutcome

LEMMA RequeueOutcome ==
  ASSUME QueueInv, QueueInv', OutcomeInv, NEW r \in Rows, RequeueRunningOperationTarget(r)
  PROVE  OutcomeInv'
<1> USE DEF QueueInv
<1> DEFINE o   == r[1]
           end == Archived(r[2]) /\ r \notin bridge
<1>1. /\ o \in Ops /\ status[r] = "running"
      /\ status' = [status EXCEPT ![r] = IF end THEN "cancelled" ELSE "queued"]
      /\ UNCHANGED <<kind, finalized, pend, bridge, dep, archived, workVars>>
  BY DEF RequeueRunningOperationTarget, Rows
<1>2. opStatus' = [opStatus EXCEPT ![o] =
                     IF end THEN Recalculated(o, status', pend')
                     ELSE IF \E x \in RowsOf(o) : status'[x] = "running"
                          THEN "running" ELSE "queued"]
  BY DEF RequeueRunningOperationTarget
<1>3. \A x \in Rows : status'[x] = IF x = r THEN IF end THEN "cancelled" ELSE "queued"
                                   ELSE status[x]
  BY <1>1 DEF TypeOK
<1>4. Ages
  BY <1>1, <1>3 DEF Ages, Terminal
<1>5. DependencyOrder'
  <2>1. \A x \in Rows : status'[x] # status[x] =>
            \/ status'[x] = "cancelled"
            \/ status[x] = "running" /\ status'[x] = "queued"
    BY <1>1, <1>3
  <2> QED  BY <1>4, <2>1, AgesOrder
<1>6. ArchivedNodeDrained'
  BY <1>1, <1>3 DEF OutcomeInv, ArchivedNodeDrained, Archived
<1>7. FinalizeReady'
  BY <1>1, <1>4, AgesReady DEF workVars
<1>8. ASSUME NEW x \in Ops, x # o PROVE OpInv(x)'
  <2>1. SameOp(x)
    BY <1>1, <1>2, <1>3, <1>8 DEF SameOp, TypeOK
  <2> QED  BY <2>1, FrameOp DEF OutcomeInv
<1>9. OpInv(o)'
  <2>1. r \in RowsOf(o) /\ r \in Owners(status, pend)
    BY <1>1 DEF RowsOf, Owners, Live
  <2>2. opStatus[o] \in Live
    BY <1>1, <2>1 DEF OutcomeInv, OpInv, OpenIffOwned, FreshIds
  <2>3. end => ~Governed(kind[o])
    BY <1>1, ConstantsAssumption DEF OutcomeInv, GovernedLocal, Archived, TypeOK
  <2>4. ~end => \A x \in Rows : /\ x[1] = o
                                /\ status'[x] \in {"partial", "failed", "cancelled"}
                                => status[x] \in {"partial", "failed", "cancelled"}
    BY <1>1, <1>3
  <2>5. \/ opStatus'[o] = Recalculated(o, status', pend')
        \/ opStatus'[o] \in Live /\ \E x \in Rows : x[1] = o /\ status'[x] \in Live
    <3>1. CASE end
      BY <3>1, <1>1, <1>2 DEF TypeOK
    <3>2. CASE ~end
      <4>1. opStatus'[o] \in {"running", "queued"}
        BY <3>2, <1>1, <1>2 DEF TypeOK
      <4>2. status'[r] = "queued"
        BY <3>2, <1>3
      <4> QED  BY <4>1, <4>2 DEF Live
    <3> QED  BY <3>1, <3>2
  <2> HIDE DEF o, end
  <2>6. Settles(o)
    BY <1>1, <2>3, <2>4, UntouchedSettles DEF OutcomeInv
  <2> QED  BY <1>1, <1>4, <2>2, <2>5, <2>6, StepOpInv DEF OutcomeInv
<1> QED  BY <1>4, <1>5, <1>6, <1>7, <1>8, <1>9, AgesShape DEF OutcomeInv

LEMMA RecoveryOutcome ==
  ASSUME QueueInv, QueueInv', OutcomeInv, Recovery
  PROVE  OutcomeInv'
<1>1. CASE \E r \in Rows : RequeueRunningOperationTarget(r)
  BY <1>1, RequeueOutcome
<1>2. ASSUME NEW o \in Ops, RecoverFinalization(o) PROVE OutcomeInv'
  <2>1. /\ Finalize(o) \/ FailGovernanceFinalization(o)
        /\ \A x \in RowsOf(o) : status[x] \in Terminal
        /\ UNCHANGED workVars
    BY <1>2 DEF RecoverFinalization, PendingFinalization, Terminal
  <2> QED  BY <2>1, FinalizerOutcome DEF workVars
<1>3. CASE StartServing
  BY <1>3, QuietOutcome DEF StartServing, opVars, rowVars, workVars
<1> QED  BY <1>1, <1>2, <1>3 DEF Recovery

LEMMA InitOutcome == Init => OutcomeInv
<1> SUFFICES ASSUME Init PROVE OutcomeInv
  OBVIOUS
<1>1. ArchivedNodeDrained /\ DependencyOrder /\ DepShape /\ GovernedLocal
  BY DEF Init, ArchivedNodeDrained, DependencyOrder, DepShape, GovernedLocal
<1>2. ApplyEdges /\ FinalizeReady
  BY DEF Init, ApplyEdges, FinalizeReady
<1>3. \A o \in Ops : OpInv(o)
  BY DEF Init, OpInv, HasRows, OpenIffOwned, PendClean, GovernedOwned, Honest, Live, Terminal
<1> QED  BY <1>1, <1>2, <1>3 DEF OutcomeInv

LEMMA NextOutcome == QueueInv /\ OutcomeInv /\ [Next]_vars => OutcomeInv'
<1> SUFFICES ASSUME QueueInv, OutcomeInv, [Next]_vars PROVE OutcomeInv'
  OBVIOUS
<1>0. QueueInv'
  BY NextInv
<1>1. CASE UNCHANGED vars
  BY <1>0, <1>1, QuietOutcome DEF vars, opVars, rowVars, workVars
<1>2. CASE Create
  BY <1>0, <1>2, CreateOutcome
<1>3. CASE Tick
  BY <1>0, <1>3, TickOutcome
<1>4. CASE \E o \in Ops : CancelOperation(o)
  BY <1>0, <1>4, CancelOutcome
<1>5. CASE \E seen \in SUBSET Nodes : UpsertDiscoveredNodes(seen)
  BY <1>0, <1>5, DiscoverOutcome
<1>6. CASE \E w \in Workers, r \in Rows : ClaimOperationTarget(w, r)
  BY <1>0, <1>6, ClaimOutcome
<1>7. CASE \E w \in Workers : WorkerStep(w)
  BY <1>0, <1>7, MetadataOutcome, FinishOutcome, FinalizeStepOutcome, RerunOutcome DEF WorkerStep
<1>8. CASE (\E w \in Workers : StrandStep(w)) \/ Crash
  BY <1>0, <1>8, LossOutcome
<1>9. CASE Recovery
  BY <1>0, <1>9, RecoveryOutcome
<1> QED  BY <1>1, <1>2, <1>3, <1>4, <1>5, <1>6, <1>7, <1>8, <1>9 DEF Next

-----------------------------------------------------------------------------
(* Theorems *)

\* OutcomeInv is an invariant of the queue.
THEOREM QueueOutcomes == Spec => []OutcomeInv
<1>1. Init => OutcomeInv
  BY InitOutcome
<1>2. QueueInv /\ OutcomeInv /\ [Next]_vars => OutcomeInv'
  BY NextOutcome
<1> QED  BY <1>1, <1>2, QueueInvariant, PTL DEF Spec

\* The relay step of a Profile Apply runs only on top of a succeeded client
\* step, through every cancellation, retry, requeue and restart, and a failed
\* client step leaves no live relay step (ClaimOperationTarget,
\* FinishOperationTarget, retryProfileApplyTargets).
THEOREM DependenciesFirst == Spec => []DependencyOrder
<1>1. OutcomeInv => DependencyOrder
  BY DEF OutcomeInv
<1> QED  BY <1>1, QueueOutcomes, PTL

\* An operation is open exactly while one of its steps is live or owned by a
\* finalizer: every transaction that ends a step also calls recalculateOperation,
\* and FailGovernanceFinalization never closes an operation over a live step.
THEOREM OpenExactlyWhileOwned == Spec => []OpenWhileOwned
<1>1. OutcomeInv => OpenWhileOwned
  BY DEF OutcomeInv, OpInv, OpenIffOwned, OpenWhileOwned
<1> QED  BY <1>1, QueueOutcomes, PTL

\* The status recalculateOperation or the finalizer gives a closed operation
\* agrees with what its steps did and with whether it was published.
THEOREM OutcomesHonest == Spec => []HonestOutcome
<1>1. OutcomeInv => HonestOutcome
  <2> SUFFICES ASSUME OutcomeInv, NEW o \in Ops, opStatus[o] \in Terminal
               PROVE  Tells(opStatus[o], {status[r] : r \in RowsOf(o)}, kind[o], o \in finalized)
    BY DEF HonestOutcome, Tells
  <2> QED  BY DEF OutcomeInv, OpInv, Honest
<1> QED  BY <1>1, QueueOutcomes, PTL

\* UpsertDiscoveredNodes, lockActiveTargets, Eligible and the requeue at
\* start-up together leave no undispatched step in the queue of an archived node.
THEOREM ArchivedNodesDrained == Spec => []ArchivedNodeDrained
<1>1. OutcomeInv => ArchivedNodeDrained
  BY DEF OutcomeInv
<1> QED  BY <1>1, QueueOutcomes, PTL

=============================================================================
