---------------------------- MODULE ConfigMigration ----------------------------
(***************************************************************************)
(* toolhub-config-migrate: the import of a generation-1 configuration into *)
(* a fresh generation-2 database (internal/configmigration and             *)
(* internal/store/config_import.go, with the bootstrap calls of db.go and  *)
(* nodes.go).                                                              *)
(*                                                                         *)
(* The administrator reviews the fingerprint that a dry run reports and    *)
(* passes it to an apply, which reads the legacy database again, brings    *)
(* the destination to its baseline in several transactions, imports in one *)
(* and verifies the result.  An apply can stop anywhere and be repeated.   *)
(* The legacy installation may go on changing; the application of the      *)
(* destination runs only while the tool does not, as the guide demands.    *)
(***************************************************************************)
EXTENDS Naturals, Sequences, FiniteSets, SequencesExt

CONSTANTS
    LegacyIds,      \* MCP definitions of the legacy database, ordered numbers
    Compact,        \* their UUIDs, as the pieces that lengthen a suffix
    MaxName,        \* pieces in a name, 128 characters in the code
    Legacies,       \* legacy configurations: [servers, secrets, skills, sound]
    Drafts,         \* more of them, only to name their definitions
    Migrators,      \* invocations of the tool
    MigBudgets      \* bounds: edits of the legacy side, stops, uses of the destination

\* What a snapshot of the legacy database holds: its MCP definitions by id, the
\* version of every secret, the Skills, and whether the installation is the known one.
IsSnapshot(l) ==
    /\ DOMAIN l = {"servers", "secrets", "skills", "sound"}
    /\ DOMAIN l.servers \subseteq LegacyIds /\ IsFiniteSet(DOMAIN l.servers)
    /\ \A i \in DOMAIN l.servers :
         l.servers[i] \in [base : Seq(Nat), transport : {"http", "streamable-http", "stdio"},
                           desired : BOOLEAN]
    /\ l.secrets \in Seq(Nat) /\ l.skills \subseteq STRING /\ l.sound \in BOOLEAN

ASSUME MigrationAssumption ==
    /\ LegacyIds \subseteq Nat
    /\ \A i \in LegacyIds : Compact[i] \in Seq(Nat)
    /\ MaxName \in Nat /\ \A i \in LegacyIds : Len(Compact[i]) < MaxName
    /\ \A l \in Legacies \cup Drafts : IsSnapshot(l)
    /\ MigBudgets \subseteq [edits : Nat, stops : Nat, uses : Nat]

VARIABLES
    legacy,         \* the legacy database
    reviews,        \* fingerprints the administrator has recorded
    tool,           \* where each invocation is
    dest,           \* the destination database
    migLeft         \* what is left of the bounds

migVars == <<legacy, reviews, tool, dest, migLeft>>

Resting == [at |-> "idle"]
NoPlan  == [servers |-> <<>>]       \* no imported configuration

MigSpend(what) == /\ migLeft[what] > 0
                  /\ migLeft' = [migLeft EXCEPT ![what] = @ - 1]
-----------------------------------------------------------------------------
(* Prepare *)

\* normalizeMCPDefinition: one transport has a new name, a suffix of names, too.
Transport(t) == IF t = "streamable-http" THEN "http" ELSE t
Piece(t)     == IF Transport(t) = "http" THEN 0 ELSE 1

\* Order of strings: at the first difference, a prefix first.
Before(a, b) ==
    \E k \in 0..Len(a) :
        /\ k <= Len(b) /\ \A m \in 1..k : a[m] = b[m]
        /\ \/ k = Len(a) /\ k < Len(b)
           \/ k < Len(a) /\ k < Len(b) /\ a[k + 1] < b[k + 1]

\* Within a base name: what a client wants first, then by id.
Ahead(defs, i, j) ==
    \/ defs[i].desired /\ ~defs[j].desired
    \/ defs[i].desired = defs[j].desired /\ i < j

\* Mutant: the oldest definition keeps the name.
KeepsByAge(defs, i) ==
    \A j \in DOMAIN defs \ {i} : defs[j].base = defs[i].base => i < j

KeepsName(defs, i) ==
    \A j \in DOMAIN defs \ {i} : defs[j].base = defs[i].base => Ahead(defs, i, j)

SuffixedMCPName(base, suffix) ==
    SubSeq(base, 1, IF Len(base) + Len(suffix) > MaxName THEN MaxName - Len(suffix)
                    ELSE Len(base)) \o suffix

\* The candidates of a definition that lost its name, in order.
Candidates(def, i) ==
    [k \in 1..(Len(Compact[i]) + 1) |->
        SuffixedMCPName(def.base, <<Piece(def.transport)>> \o SubSeq(Compact[i], 1, k - 1))]

\* The definitions that lost their name, and how many of them are renamed before i.
Losers(defs) == {i \in DOMAIN defs : ~KeepsName(defs, i)}
Sooner(defs, i, j) ==
    \/ Before(defs[i].base, defs[j].base)
    \/ defs[i].base = defs[j].base /\ Ahead(defs, i, j)
Turn(defs, i) == Cardinality({j \in Losers(defs) : Sooner(defs, j, i)})

\* The first candidate of i that nobody uses; a definition without one gets no name.
Rename(defs, names, i) ==
    LET free == {k \in DOMAIN Candidates(defs[i], i) :
                   Candidates(defs[i], i)[k] \notin {names[j] : j \in DOMAIN names}}
    IN  IF free = {} THEN names
        ELSE [j \in DOMAIN names \cup {i} |->
                IF j = i THEN Candidates(defs[i], i)[Min(free)] ELSE names[j]]

\* assignMCPNames: those who keep their names first, then one loser after the other.
Assigned(defs) ==
    LET names[n \in 0..Cardinality(Losers(defs))] ==
          IF n = 0 THEN [i \in DOMAIN defs \ Losers(defs) |-> defs[i].base]
          ELSE Rename(defs, names[n - 1], CHOOSE i \in Losers(defs) : Turn(defs, i) = n - 1)
    IN  names
AssignMCPNames(defs) == Assigned(defs)[Cardinality(Losers(defs))]

\* The names of every configuration that can be met.
MCPNames == [defs \in {l.servers : l \in Legacies \cup Drafts} |-> AssignMCPNames(defs)]

\* What ReadSnapshot refuses before it looks at rows: a ledger, a table or a
\* state of the installation that is not the known one.
Readable(l) == l.sound

\* readLegacyMCPDesired, over all clients.
DesiredMembers(l) == {i \in DOMAIN l.servers : l.servers[i].desired}

\* Prepare, over one read-only snapshot of the source.  Broken references,
\* archives and keys end it like an unreadable source.
Prepare(l) ==
    LET names == MCPNames[l.servers]
    IN  [servers |-> [i \in DOMAIN names |->
                        [name |-> names[i], transport |-> Transport(l.servers[i].transport)]],
         relay   |-> DesiredMembers(l),
         skills  |-> l.skills,
         secrets |-> l.secrets,
         valid   |-> Readable(l) /\ DOMAIN names = DOMAIN l.servers]

\* sourceFingerprint leaves the secret values out.
SourceFingerprint(plan) == <<plan.servers, plan.relay, plan.skills>>
-----------------------------------------------------------------------------
(* The tool *)

To(p, next)  == tool' = [tool EXCEPT ![p] = next]
Ends(p, res) == To(p, [at |-> "done", plan |-> tool[p].plan, result |-> res])

\* Execute without --apply: the report is all there is.
DryRun(p) ==
    /\ tool[p] = Resting
    /\ LET plan == Prepare(legacy)
       IN  plan.valid /\ reviews' = reviews \cup {SourceFingerprint(plan)}
    /\ UNCHANGED <<legacy, tool, dest, migLeft>>

Reviewed(plan, expected) == SourceFingerprint(plan) = expected

\* Execute with --apply: the source is read and compared with the review.
StartApply(p, expected) ==
    /\ tool[p] = Resting
    /\ expected \in reviews
    /\ LET plan == Prepare(legacy)
       IN  /\ plan.valid /\ Reviewed(plan, expected)
           /\ To(p, [at |-> "migrate", plan |-> plan])
    /\ UNCHANGED <<legacy, reviews, dest, migLeft>>

\* Store.Migrate
Migrate(p) ==
    /\ tool[p].at = "migrate"
    /\ dest' = [dest EXCEPT !.schema = TRUE]
    /\ To(p, [tool[p] EXCEPT !.at = "preflight"])
    /\ UNCHANGED <<legacy, reviews, migLeft>>

\* Mutant: every destination must be empty.
NeedsEmptyDestination(p) ==
    /\ tool[p].at = "preflight"
    /\ IF ~dest.account /\ ~dest.baseline /\ dest.touched = {}
       THEN To(p, [tool[p] EXCEPT !.at = "check"])
       ELSE Ends(p, "failed")
    /\ UNCHANGED <<legacy, reviews, dest, migLeft>>

\* ConfigImportDestinationNeedsBootstrap: with an account nothing else is
\* looked at, without one everything must be empty.
NeedsBootstrap(p) ==
    /\ tool[p].at = "preflight"
    /\ CASE dest.account -> To(p, [tool[p] EXCEPT !.at = "import"])
         [] ~dest.account /\ ~dest.baseline /\ dest.touched = {} ->
              To(p, [tool[p] EXCEPT !.at = "check"])
         [] OTHER -> Ends(p, "failed")
    /\ UNCHANGED <<legacy, reviews, dest, migLeft>>

\* BootstrapAccount looks for an account ...
BootstrapCheck(p) ==
    /\ tool[p].at = "check"
    /\ To(p, [tool[p] EXCEPT !.at = IF dest.account THEN "environment" ELSE "account"])
    /\ UNCHANGED <<legacy, reviews, dest, migLeft>>

\* ... and inserts it, if it is still missing, with an audit event in any case.
BootstrapAccount(p) ==
    /\ tool[p].at = "account"
    /\ dest' = [dest EXCEPT !.account = TRUE, !.bootstraps = @ + 1]
    /\ To(p, [tool[p] EXCEPT !.at = "environment"])
    /\ UNCHANGED <<legacy, reviews, migLeft>>

\* BootstrapEnvironment: settings, the local node and its four targets.
BootstrapEnvironment(p) ==
    /\ tool[p].at = "environment"
    /\ dest' = [dest EXCEPT !.baseline = TRUE]
    /\ To(p, [tool[p] EXCEPT !.at = "import"])
    /\ UNCHANGED <<legacy, reviews, migLeft>>

\* validatePristineConfigImportDestination
Pristine ==
    /\ dest.account /\ dest.baseline /\ dest.bootstraps = 1
    /\ dest.touched = {} /\ dest.content = NoPlan

\* verifyConfigImportCore counts rows; a member that was exchanged is not seen.
CoreVerified == "rows" \notin dest.touched

\* The marker of an earlier import of the same source.
AlreadyImported(plan) ==
    /\ dest.content # NoPlan
    /\ dest.marker = SourceFingerprint(plan)
    /\ CoreVerified

\* validateConfigImportInput; that there is a Skill is all Prepare has not seen to.
ValidInput(plan) == plan.skills # {}

\* What the transaction leaves: all of the configuration with its marker.
ImportCommitted(plan) == [dest EXCEPT !.content = plan, !.marker = SourceFingerprint(plan)]

\* ImportLegacyConfig
ImportLegacyConfig(p) ==
    LET plan == tool[p].plan
    IN  /\ tool[p].at = "import"
        /\ \/ /\ ValidInput(plan) /\ AlreadyImported(plan)
              /\ To(p, [tool[p] EXCEPT !.at = "verify"])
              /\ UNCHANGED dest
           \/ /\ ValidInput(plan) /\ dest.content = NoPlan /\ Pristine
              /\ dest' = ImportCommitted(plan)
              /\ To(p, [tool[p] EXCEPT !.at = "verify"])
           \/ /\ ~ValidInput(plan) \/ (~AlreadyImported(plan) /\ ~Pristine)
              /\ Ends(p, "failed")
              /\ UNCHANGED dest
        /\ UNCHANGED <<legacy, reviews, migLeft>>

\* Mutant: operations in the destination are accepted.
AcceptedByCounts == CoreVerified

\* VerifyConfigImportAcceptance
Acceptance == CoreVerified /\ "work" \notin dest.touched

VerifyConfigImportAcceptance(p) ==
    /\ tool[p].at = "verify"
    /\ Ends(p, IF Acceptance THEN "imported" ELSE "failed")
    /\ UNCHANGED <<legacy, reviews, dest, migLeft>>

\* A call fails, the context is cancelled or the process is killed.
ToolStops(p) ==
    /\ tool[p].at \notin {"idle", "done"}
    /\ MigSpend("stops")
    /\ Ends(p, "failed")
    /\ UNCHANGED <<legacy, reviews, dest>>

\* The administrator reads the answer.
ReadAnswer(p) ==
    /\ tool[p].at = "done"
    /\ To(p, Resting)
    /\ UNCHANGED <<legacy, reviews, dest, migLeft>>
-----------------------------------------------------------------------------
(* Around the tool *)

LegacyEdit ==
    /\ MigSpend("edits")
    /\ \E l \in Legacies : legacy' = l
    /\ UNCHANGED <<reviews, tool, dest>>

RotateLegacySecret ==
    /\ MigSpend("edits")
    /\ \E i \in DOMAIN legacy.secrets : legacy' = [legacy EXCEPT !.secrets[i] = @ + 1]
    /\ UNCHANGED <<reviews, tool, dest>>

\* The destination's application starts (cmd/toolhub run) and is used: it
\* completes the baseline, and rows, background work or an exchanged relay
\* member are left behind.
ApplicationRuns ==
    /\ \A p \in Migrators : tool[p].at \in {"idle", "done"}
    /\ MigSpend("uses")
    /\ \E use \in {"rows", "work", "member"} :
         /\ use = "member" => dest.content # NoPlan
         /\ dest' = [dest EXCEPT !.schema = TRUE, !.account = TRUE, !.baseline = TRUE,
                                 !.bootstraps = IF dest.account THEN @ ELSE @ + 1,
                                 !.touched = @ \cup {use}]
    /\ UNCHANGED <<legacy, reviews, tool>>
-----------------------------------------------------------------------------
MigInit ==
    /\ migLeft \in MigBudgets
    /\ legacy \in Legacies \cup Drafts
    /\ reviews = {}
    /\ tool = [p \in Migrators |-> Resting]
    /\ dest = [schema |-> FALSE, account |-> FALSE, bootstraps |-> 0, baseline |-> FALSE,
               content |-> NoPlan, marker |-> <<>>, touched |-> {}]

ApplyStep(p) ==
    \/ Migrate(p) \/ NeedsBootstrap(p) \/ BootstrapCheck(p) \/ BootstrapAccount(p)
    \/ BootstrapEnvironment(p) \/ ImportLegacyConfig(p) \/ VerifyConfigImportAcceptance(p)
    \/ ReadAnswer(p)

MigNext ==
    \/ \E p \in Migrators : DryRun(p) \/ ApplyStep(p) \/ ToolStops(p)
    \/ \E p \in Migrators, expected \in reviews : StartApply(p, expected)
    \/ LegacyEdit \/ RotateLegacySecret \/ ApplicationRuns

\* The tool goes on, and the administrator reviews and applies again.
MigFairness ==
    /\ \A p \in Migrators : WF_migVars(ApplyStep(p))
    /\ WF_migVars(\E p \in Migrators : DryRun(p))
    /\ WF_migVars(\E p \in Migrators, expected \in reviews : StartApply(p, expected))

MigSpec == MigInit /\ [][MigNext]_migVars /\ MigFairness
-----------------------------------------------------------------------------
(* Properties *)

\* The variables keep their shape; the destination is brought up in the order
\* schema, account, baseline, configuration, and a marker is never without the
\* configuration it stands for.
MigTypeOK ==
    /\ legacy.sound \in BOOLEAN /\ DOMAIN legacy.servers \subseteq LegacyIds
    /\ \A p \in Migrators : tool[p].at \in {"idle", "migrate", "preflight", "check", "account",
                                            "environment", "import", "verify", "done"}
    /\ dest.account => dest.schema
    /\ dest.baseline => dest.account
    /\ dest.content # NoPlan => dest.baseline
    /\ (dest.content = NoPlan) = (dest.marker = <<>>)

\* Every definition gets a name of its own; of those with the same name one
\* that a client wants keeps it, and whoever is renamed still begins with its
\* name, cut only if the longest name is reached and by no more than the
\* longest suffix needs (assignMCPNames, suffixedMCPName).
NamesKept ==
    LET defs  == legacy.servers
        names == MCPNames[defs]
    IN  DOMAIN names = DOMAIN defs =>
        /\ \A i, j \in DOMAIN defs : names[i] = names[j] => i = j
        /\ \A i \in DOMAIN defs :
             \E j \in DOMAIN defs : /\ names[j] = defs[i].base /\ defs[j].base = defs[i].base
                                    /\ defs[i].desired => defs[j].desired
        /\ \A i \in DOMAIN defs :
             \E k \in 0..Len(defs[i].base) :
                 /\ IsPrefix(SubSeq(defs[i].base, 1, k), names[i])
                 /\ \/ k = Len(defs[i].base)
                    \/ Len(names[i]) = MaxName /\ MaxName <= k + Len(Compact[i]) + 1

\* What is imported, in one transaction with its marker, is what some dry run
\* had shown to the administrator, although the legacy side changed between the
\* review, the second read and the import.  An apply that reports success leaves
\* or finds the configuration it read, in a destination whose counted tables
\* hold nothing else (members of the relay are not counted), and a repeated
\* apply changes nothing.
SuccessIsTheReview ==
    [][/\ dest.content = NoPlan /\ dest'.content # NoPlan =>
              /\ dest'.marker = SourceFingerprint(dest'.content)
              /\ dest'.marker \in reviews
       /\ dest.content # NoPlan => dest'.content = dest.content
       /\ \A p \in Migrators :
            tool'[p].at = "done" /\ tool'[p].result = "imported" /\ tool[p].at = "verify" =>
              /\ SourceFingerprint(dest.content) = SourceFingerprint(tool[p].plan)
              /\ dest.touched \subseteq {"member"}]_migVars

\* The destination can no longer be imported into: it was used, a second
\* bootstrap left its audit event, or an apply stopped between the account
\* and the environment, which no later apply completes.
Wedged ==
    \/ dest.touched # {} \/ dest.bootstraps > 1
    \/ /\ dest.account /\ ~dest.baseline
       /\ \A p \in Migrators : tool[p].at \notin {"check", "account", "environment"}

\* An administrator who repeats the apply gets the configuration imported
\* from a source that can be, however often the tool stops: what a failed
\* apply leaves is a baseline the next one accepts, except when it is wedged.
RepeatedApplyImports ==
    []<>~(Prepare(legacy).valid /\ legacy.skills # {}) \/ <>(dest.content # NoPlan \/ Wedged)
=============================================================================
