------------------------------ MODULE Telemetry ------------------------------
(***************************************************************************)
(* Counting the tool calls of an enforced relay (internal/store/           *)
(* telemetry.go).  The mcpm process numbers its observations from 1 in     *)
(* every boot and keeps the newest ones; a control operation asks for what *)
(* follows the cursor, and one transaction adds the batch to the daily     *)
(* aggregates and moves the cursors, one for each MCP server.  A batch     *)
(* with an observation that names no stored Profile revision is refused as *)
(* a whole.                                                                *)
(*                                                                         *)
(* Between reading the cursor, draining and ingesting, the relay may       *)
(* reboot, a configuration apply may restart it with other members or be   *)
(* finalized, and the control plane may stop, which requeues the           *)
(* operation.                                                              *)
(***************************************************************************)
EXTENDS Naturals, Sequences, FiniteSets, FiniteSetsExt

CONSTANTS
    Upstreams,      \* MCP servers of some relay configuration revision
    Limit,          \* observations in one drain
    Buffer,         \* observations the relay keeps
    TelBudgets      \* bounds: calls, applies, faults (reboots, stops, errors)

ASSUME TelemetryAssumption ==
    /\ Limit \in Nat \ {0} /\ Buffer \in Nat \ {0}
    /\ TelBudgets \subseteq [calls : Nat, applies : Nat, faults : Nat]

VARIABLES
    boot,       \* the boot of the relay process
    log,        \* the observations of this boot
    running,    \* members the relay was started with
    members,    \* members of the applied revision
    enforced,   \* relay_configuration_state.mode
    cursors,    \* relay_observation_cursors: boot 0 is ''
    tally,      \* observations in the aggregates, <<boot, sequence>>
    double,     \* history: observations that were added twice
    pull,       \* the relay_telemetry_pull operation
    telLeft     \* what is left of the bounds

telVars == <<boot, log, running, members, enforced, cursors, tally, double,
             pull, telLeft>>

\* What telemetry tells of an observation: its server, and whether the session
\* it was made in belongs to a Profile revision the database has.
Observations == [server : Upstreams, profiled : BOOLEAN]

NoCursor == [boot |-> 0, seq |-> 0]
NoPull   == [at |-> "idle"]

TelSpend(what) == /\ telLeft[what] > 0
                  /\ telLeft' = [telLeft EXCEPT ![what] = @ - 1]
-----------------------------------------------------------------------------
(* The relay and its configuration *)

\* What mcpm still holds after a cursor, at most Limit from the oldest on.
Drained(after) ==
    LET start == IF after.boot = boot THEN after.seq ELSE 0
        lost  == IF Len(log) > Buffer THEN Len(log) - Buffer ELSE 0
        first == Max({start, lost})
    IN  [boot |-> boot, first |-> first, next |-> Min({Len(log), first + Limit}),
         log |-> log]

\* A call in a session of a published Profile, or in a default session, which
\* mcpm observes under the nil UUID for the Profile and its revision.
ToolCall ==
    /\ TelSpend("calls")
    /\ \E s \in running, p \in BOOLEAN :
          log' = Append(log, [server |-> s, profiled |-> p])
    /\ UNCHANGED <<boot, running, members, enforced, cursors, tally, double, pull>>

Boots(set) == boot' = boot + 1 /\ log' = <<>> /\ running' = set

RelayReboots ==
    /\ TelSpend("faults")
    /\ Boots(running)
    /\ UNCHANGED <<members, enforced, cursors, tally, double, pull>>

\* A configuration apply restarts the relay with its members; the applied
\* revision follows when the operation is finalized.
ApplyReloads ==
    /\ running = members
    /\ TelSpend("applies")
    /\ \E set \in SUBSET Upstreams \ {members} : Boots(set)
    /\ UNCHANGED <<members, enforced, cursors, tally, double, pull>>

\* Other members can only be applied in compatibility mode.
ApplyFinalized ==
    /\ running # members
    /\ members' = running /\ enforced' = FALSE
    /\ UNCHANGED <<boot, log, running, cursors, tally, double, pull, telLeft>>

\* The finalization conflicts and reconcile takes the relay back.
ApplyTakenBack ==
    /\ running # members
    /\ Boots(members)
    /\ UNCHANGED <<members, enforced, cursors, tally, double, pull, telLeft>>

\* Enforcement of the applied configuration is a hot reload.
EnterEnforced ==
    /\ running = members /\ members # {} /\ ~enforced
    /\ enforced' = TRUE
    /\ UNCHANGED <<boot, log, running, members, cursors, tally, double, pull, telLeft>>
-----------------------------------------------------------------------------
(* The control operation *)

\* The mode is enforced; bad health and a pause only delay the next pull.
RelayGovernanceHealthy == enforced

\* enqueueTelemetryPull, every minute.  The control loop runs one at a time.
EnqueueTelemetryPull ==
    /\ RelayGovernanceHealthy /\ pull = NoPull
    /\ pull' = [at |-> "queued"]
    /\ UNCHANGED <<boot, log, running, members, enforced, cursors, tally, double, telLeft>>

\* RelayObservationCursor: the least of the members' cursors if all are of
\* one boot, nothing otherwise; with no member, any cursor there is.
RelayObservationCursor ==
    LET all == {cursors[s] : s \in members}
        any == {cursors[s] : s \in Upstreams} \ {NoCursor}
    IN  IF members = {} THEN IF any = {} THEN {NoCursor} ELSE any
        ELSE IF Cardinality({c.boot : c \in all}) = 1
          THEN {[boot |-> (CHOOSE c \in all : TRUE).boot, seq |-> Min({c.seq : c \in all})]}
          ELSE {NoCursor}

ReadCursor ==
    /\ pull.at = "queued"
    /\ \E c \in RelayObservationCursor : pull' = [at |-> "asking", after |-> c]
    /\ UNCHANGED <<boot, log, running, members, enforced, cursors, tally, double, telLeft>>

DrainRelayObservations ==
    /\ pull.at = "asking"
    /\ pull' = [at |-> "drained", batch |-> Drained(pull.after)]
    /\ UNCHANGED <<boot, log, running, members, enforced, cursors, tally, double, telLeft>>

\* Mutant: every observation of a batch is counted.
AllFresh(batch) == (batch.first + 1)..batch.next

\* An observation at or below the cursor of its server is a duplicate.
Fresh(batch) ==
    {i \in (batch.first + 1)..batch.next :
        LET c == cursors[batch.log[i].server]
        IN  ~(c.boot = batch.boot /\ i <= c.seq)}

\* Mutant: a batch that ends at a cursor conflicts, too.
OutrunOrEqual(batch) ==
    \E s \in members : cursors[s].boot = batch.boot /\ batch.next <= cursors[s].seq

\* A member's cursor is beyond the batch.
Outrun(batch) ==
    \E s \in members : cursors[s].boot = batch.boot /\ batch.next < cursors[s].seq

\* telemetryClientKindTx of an observation that is no duplicate: its Profile
\* revision is not in the database.  What the relay answers passes
\* validateObservationDrain, and a server of Upstreams is always known.
Unknown(batch) == \E i \in Fresh(batch) : ~batch.log[i].profiled

\* The applied servers and those the batch has observations of.
Tracked(batch) ==
    members \cup {batch.log[i].server : i \in (batch.first + 1)..batch.next}

\* Their cursors move to the end of the batch, unless they are further already.
Moved(batch) ==
    [s \in Upstreams |->
       IF s \notin Tracked(batch) \/ (cursors[s].boot = batch.boot /\ cursors[s].seq >= batch.next)
         THEN cursors[s] ELSE [boot |-> batch.boot, seq |-> batch.next]]

\* IngestRelayObservations: one transaction, or a conflict that rolls the whole
\* batch back and moves no cursor.
IngestRelayObservations ==
    /\ pull.at = "drained"
    /\ IF Outrun(pull.batch) \/ Unknown(pull.batch)
       THEN UNCHANGED <<cursors, tally, double>>
       ELSE LET new == {<<pull.batch.boot, i>> : i \in Fresh(pull.batch)}
            IN  /\ tally' = tally \cup new
                /\ double' = double \cup (new \cap tally)
                /\ cursors' = Moved(pull.batch)
    /\ pull' = [at |-> "ingested"]
    /\ UNCHANGED <<boot, log, running, members, enforced, telLeft>>

FinishPull ==
    /\ pull.at = "ingested"
    /\ pull' = NoPull
    /\ UNCHANGED <<boot, log, running, members, enforced, cursors, tally, double, telLeft>>

\* The Bridge or the relay does not answer: the operation fails.
PullFails ==
    /\ pull.at = "asking"
    /\ TelSpend("faults")
    /\ pull' = NoPull
    /\ UNCHANGED <<boot, log, running, members, enforced, cursors, tally, double>>

\* The control plane stops; RequeueRunningControlOperations at its start.
RequeuePull ==
    /\ pull.at \in {"asking", "drained", "ingested"}
    /\ TelSpend("faults")
    /\ pull' = [at |-> "queued"]
    /\ UNCHANGED <<boot, log, running, members, enforced, cursors, tally, double>>
-----------------------------------------------------------------------------
\* An enforced relay that has just started and of which nothing was counted.
TelInit ==
    /\ members \in SUBSET Upstreams \ {{}}
    /\ running = members /\ boot = 1 /\ log = <<>> /\ enforced = TRUE
    /\ cursors = [s \in Upstreams |-> NoCursor]
    /\ tally = {} /\ double = {}
    /\ pull = NoPull
    /\ telLeft \in TelBudgets

PullStep == ReadCursor \/ DrainRelayObservations \/ IngestRelayObservations \/ FinishPull

TelNext ==
    \/ ToolCall \/ RelayReboots \/ ApplyReloads \/ ApplyFinalized
    \/ ApplyTakenBack \/ EnterEnforced
    \/ EnqueueTelemetryPull \/ PullStep \/ PullFails \/ RequeuePull

\* The scheduler ticks every minute and the control loop goes on.
TelFairness == WF_telVars(EnqueueTelemetryPull) /\ WF_telVars(PullStep)

TelSpec == TelInit /\ [][TelNext]_telVars /\ TelFairness
-----------------------------------------------------------------------------
Buffered == {i \in 1..Len(log) : i + Buffer > Len(log)}

\* Types of the telemetry state.
TelTypeOK ==
    /\ running \subseteq Upstreams /\ members \subseteq Upstreams
    /\ log \in Seq(Observations)
    /\ cursors \in [Upstreams -> [boot : 0..boot, seq : Nat]]
    /\ pull.at \in {"idle", "queued", "asking", "drained", "ingested"}

\* No tool call enters the aggregates twice, although a stop after the
\* transaction runs the pull again and a lost cursor restarts at zero; and none
\* is skipped: what a pull will no longer ask for, of whatever server, is in the
\* aggregates or has left the relay's buffer.
CountedOnce ==
    /\ double = {}
    /\ \A c \in RelayObservationCursor, i \in Buffered :
         c.boot = boot /\ i <= c.seq => <<boot, i>> \in tally

\* A member that became one after the relay started has no cursor of this
\* boot, or an old one.  The pull starts over from there, and a batch that ends
\* before the cursor of another member is refused as a conflict, every time,
\* until newer calls push the old ones out of the relay's buffer.
Outgrown ==
    \E c \in RelayObservationCursor, s \in members :
        cursors[s].boot = boot /\ Drained(c).next < cursors[s].seq

\* The next batch has an observation of a default session, so the ingest refuses
\* it, every time, together with the calls of published Profiles beside it, until
\* newer calls push the observation out of the relay's buffer.
Unattributed == \E c \in RelayObservationCursor : Unknown(Drained(c))

\* While enforcement lasts, every observation the relay still holds is
\* counted in the end, whatever stops and reboots came before, unless the next
\* pull and every later one is refused: as Outgrown, or as Unattributed.
TelemetryCatchesUp ==
    <>[]enforced => <>[](\/ Outgrown \/ Unattributed
                        \/ \A i \in Buffered : <<boot, i>> \in tally)
=============================================================================
