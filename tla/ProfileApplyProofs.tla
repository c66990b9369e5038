-------------------------- MODULE ProfileApplyProofs --------------------------
(***************************************************************************)
(* What is applied is the revision that was confirmed, confirmations and   *)
(* bundles are used once, and no save overwrites what it has not read, for *)
(* every set of Profiles, Skills, targets, writers and bundles.            *)
(*                                                                         *)
(* The preflight reads a revision's number and its pins in two statements, *)
(* and forms, confirmations and operations outlive what they have read.    *)
(* The argument is about numbers: while a Profile has its row they only    *)
(* grow, so that what was read of a revision is good or outdated for ever  *)
(* (Current), and a purge waits for every confirmation (Confirmed).        *)
(***************************************************************************)
EXTENDS ProfileApply, SequenceTheorems, TLAPS

\* The shapes of rows, drafts, confirmations, operations and previews.
Row       == [rev : Nat \ {0}, archived : BOOLEAN, name : ProfileNames, pins : Pins, ready : BOOLEAN]
Draft     == [kind : {"edit", "refresh", "restore", "clone"}, id : ProfileIds, expected : Nat,
              seen : Row]
Shown     == [host : Hosts, rev : Nat \ {0}, pins : Pins]
Resolving == [at : {"revision", "bridge"}, id : ProfileIds, todo : SUBSET Hosts, shown : Seq(Shown)]
Between   == [at : {"pins"}, id : ProfileIds, todo : SUBSET Hosts, shown : Seq(Shown),
              rev : Nat \ {0}]
Token     == [id : ProfileIds, host : Hosts, rev : Nat \ {0}, pins : Pins, used : BOOLEAN,
              expired : BOOLEAN]
Apply     == [id : ProfileIds, rev : Nat \ {0}, tokens : SUBSET Nat,
              pins : UNION {[set -> Pins] : set \in SUBSET Hosts},
              state : [Hosts -> {"none", "queued", "landed", "failed"}]]
Snapshot  == [source : {"none"}]
             \cup [source : {"profile_apply"}, id : ProfileIds, rev : Nat \ {0}, pins : Pins]
             \cup [source : {"restore"}, pins : Pins]
Preview   == [parcel : Parcels, act : {"new", "rename", "update", "duplicate"},
              existing : SUBSET ProfileIds, used : BOOLEAN]

ProfType ==
    /\ current \in Pins
    /\ profiles \in [ProfileIds -> Row \cup {NoRow}]
    /\ revisions \in [ProfileIds -> Seq(Pins)]
    /\ writing \in [Writers -> Draft \cup {Idle}]
    /\ preflight \in Resolving \cup Between \cup {NoPreflight}
    /\ tokens \in Seq(Token)
    /\ applies \in Seq(Apply)
    /\ pinned \in [Hosts -> Snapshot]
    /\ parcelTokens \in Seq(Preview)
    /\ fingerprints \in [Parcels -> [id : ProfileIds \cup {"none"}, rev : Nat]]
    /\ brought \in [Parcels -> Nat]

\* The revision rows are those up to the row's own revision, which is the last.
Revised(p) ==
    /\ Len(revisions[p]) = profiles[p].rev
    /\ profiles[p].rev > 0 => p \in everUsed /\ revisions[p][profiles[p].rev] = profiles[p].pins

\* What was read of Profile id as its revision rev is still that, if the number is.
Current(id, rev, pins) ==
    /\ id \in everUsed
    /\ \/ id \in reborn \/ profiles[id].rev = 0 \/ rev < profiles[id].rev
       \/ rev = profiles[id].rev /\ pins = profiles[id].pins

\* Nothing is purged that a confirmation names.
Confirmed(id) == \E i \in DOMAIN tokens : tokens[i].id = id

\* The revision a stored request or snapshot names has its pins.
NamesRevision(id, rev, pins) ==
    /\ Confirmed(id)
    /\ id \in reborn \/ (rev <= profiles[id].rev /\ revisions[id][rev] = pins)

Forms == \A w \in Writers : writing[w] # Idle =>
    /\ writing[w].expected <= writing[w].seen.rev
    /\ Current(writing[w].id, writing[w].seen.rev, writing[w].seen.pins)

Previews ==
    /\ preflight.at = "bridge" => preflight.shown # <<>>
    /\ preflight.at \in {"revision", "pins", "bridge"} =>
         preflight.id \in everUsed /\ \A i \in DOMAIN preflight.shown :
             Current(preflight.id, preflight.shown[i].rev, preflight.shown[i].pins)
    /\ preflight.at = "pins" =>
         \/ preflight.id \in reborn \/ profiles[preflight.id].rev = 0
         \/ preflight.rev <= profiles[preflight.id].rev

Confirmation(i) == /\ profiles[tokens[i].id].rev > 0
                   /\ Current(tokens[i].id, tokens[i].rev, tokens[i].pins)

Confirmations == \A i \in DOMAIN tokens : Confirmation(i)

Operation(o) ==
    /\ \A t \in Hosts : applies[o].state[t] # "none" => t \in DOMAIN applies[o].pins
    /\ \A t \in DOMAIN applies[o].pins :
         NamesRevision(applies[o].id, applies[o].rev, applies[o].pins[t])
    /\ \A i \in applies[o].tokens : i \in DOMAIN tokens /\ tokens[i].used

Operations ==
    /\ \A o \in DOMAIN applies : Operation(o)
    /\ \A o, r \in DOMAIN applies : o # r => applies[o].tokens \cap applies[r].tokens = {}

Pinned(t) == pinned[t].source = "profile_apply" =>
    NamesRevision(pinned[t].id, pinned[t].rev, pinned[t].pins)

Snapshots == \A t \in Hosts : Pinned(t)

\* A bundle that was imported has a fingerprint, which keeps its Profile.
Bundle(b) ==
    /\ brought[b] = IF fingerprints[b].rev = 0 THEN 0 ELSE 1
    /\ fingerprints[b].rev > 0 => /\ fingerprints[b].id \in ProfileIds
                                  /\ fingerprints[b].rev <= profiles[fingerprints[b].id].rev

BundlesOnce == \A b \in Parcels : Bundle(b)

ProfInv == /\ ProfType /\ \A p \in ProfileIds : Revised(p)
           /\ Forms /\ Previews /\ Confirmations /\ Operations /\ Snapshots /\ BundlesOnce

-----------------------------------------------------------------------------
\* What a step may do to a Profile: nothing a reader of its revision sees, a new
\* revision, or a purge of one that nothing names.
Keeps(p) == /\ profiles'[p].rev = profiles[p].rev /\ profiles'[p].pins = profiles[p].pins
            /\ revisions'[p] = revisions[p]
Gains(p) == /\ profiles'[p].rev = profiles[p].rev + 1
            /\ revisions'[p] = Append(revisions[p], profiles'[p].pins)
            /\ p \in everUsed'
            /\ profiles[p].rev = 0 /\ p \in everUsed => p \in reborn'
Loses(p) == profiles'[p].rev = 0 /\ revisions'[p] = <<>> /\ Purgeable(p)

Evolves ==
    /\ profiles' \in [ProfileIds -> Row \cup {NoRow}]
    /\ revisions' \in [ProfileIds -> Seq(Pins)]
    /\ everUsed \subseteq everUsed' /\ reborn \subseteq reborn'
    /\ \A p \in ProfileIds : Keeps(p) \/ Gains(p) \/ Loses(p)

\* The effect of saveProfileTx, after its checks.
SavedRow(p, name, pins, ready) ==
    /\ profiles' = [profiles EXCEPT ![p] =
         [rev |-> @.rev + 1, archived |-> FALSE, name |-> name, pins |-> pins, ready |-> ready]]
    /\ revisions' = [revisions EXCEPT ![p] = Append(@, pins)]
    /\ everUsed' = everUsed \cup {p}
    /\ reborn' = IF profiles[p].rev = 0 /\ p \in everUsed THEN reborn \cup {p} ELSE reborn

\* Every row has a revision number, 0 for none.
LEMMA RowFacts ==
    ASSUME ProfType, NEW p \in ProfileIds
    PROVE  /\ profiles[p].rev \in Nat /\ profiles[p].pins \in Pins
           /\ profiles[p].rev > 0 => profiles[p] \in Row
           /\ revisions[p] \in Seq(Pins)
  <1>1. Nothing \in Pins
    BY ProfileAssumption DEF Nothing, Pins
  <1>2. NoRow.rev = 0 /\ NoRow.pins \in Pins
    BY <1>1 DEF NoRow
  <1>3. profiles[p] \in Row \/ profiles[p] = NoRow
    BY DEF ProfType
  <1>4. revisions[p] \in Seq(Pins)
    BY DEF ProfType
  <1> QED  BY <1>2, <1>3, <1>4 DEF Row

\* saveProfileTx gives its Profile a revision and leaves the others alone.
LEMMA SaveEvolves ==
    ASSUME ProfType, NEW p \in ProfileIds, NEW name \in ProfileNames, NEW pins \in Pins,
           NEW ready \in BOOLEAN, SavedRow(p, name, pins, ready)
    PROVE  Evolves /\ Gains(p) /\ \A q \in ProfileIds \ {p} : Keeps(q)
  <1> DEFINE row == [rev |-> profiles[p].rev + 1, archived |-> FALSE, name |-> name, pins |-> pins,
                     ready |-> ready]
  <1>1. row \in Row /\ row.rev = profiles[p].rev + 1 /\ row.pins = pins
    BY RowFacts DEF Row
  <1>2. profiles' = [profiles EXCEPT ![p] = row]
    BY DEF SavedRow
  <1> HIDE DEF row
  <1>3. profiles' \in [ProfileIds -> Row \cup {NoRow}]
    BY <1>1, <1>2 DEF ProfType
  <1>4. Append(revisions[p], pins) \in Seq(Pins)
    BY RowFacts
  <1>5. revisions' \in [ProfileIds -> Seq(Pins)]
    BY <1>4 DEF SavedRow, ProfType
  <1>6. profiles'[p] = row /\ revisions'[p] = Append(revisions[p], pins)
    BY <1>2 DEF ProfType, SavedRow
  <1>7. Gains(p)
    BY <1>1, <1>6 DEF Gains, SavedRow
  <1>8. \A q \in ProfileIds \ {p} : Keeps(q)
    BY <1>2 DEF Keeps, ProfType, SavedRow
  <1> QED  BY <1>3, <1>5, <1>7, <1>8 DEF Evolves, SavedRow

\* Steps that touch no Profile.
LEMMA StillEvolves ==
    ASSUME ProfType, UNCHANGED profileVars
    PROVE  Evolves
  BY DEF ProfType, Evolves, Keeps, profileVars

\* ArchiveProfile and PurgeProfile.
LEMMA RemoveEvolves ==
    ASSUME ProfType, NEW p \in ProfileIds, ArchiveProfile(p) \/ PurgeProfile(p)
    PROVE  Evolves
  <1>1. CASE ArchiveProfile(p)
    <2>1. profiles[p] \in Row
      BY <1>1, RowFacts DEF ArchiveProfile
    <2> DEFINE row == [profiles[p] EXCEPT !.archived = TRUE]
    <2>2. row \in Row /\ row.rev = profiles[p].rev /\ row.pins = profiles[p].pins
      BY <2>1 DEF Row
    <2>3. profiles' = [profiles EXCEPT ![p] = row] /\ UNCHANGED <<revisions, everUsed, reborn>>
      BY <1>1 DEF ArchiveProfile
    <2> HIDE DEF row
    <2> QED  BY <2>2, <2>3 DEF ProfType, Evolves, Keeps
  <1>2. CASE PurgeProfile(p)
    <2>1. NoRow.rev = 0
      BY DEF NoRow
    <2>2. \A q \in ProfileIds \ {p} : Keeps(q)
      BY <1>2 DEF PurgeProfile, Keeps, ProfType
    <2>3. Loses(p)
      BY <1>2, <2>1 DEF PurgeProfile, Loses, ProfType
    <2>4. profiles' \in [ProfileIds -> Row \cup {NoRow}] /\ revisions' \in [ProfileIds -> Seq(Pins)]
      BY <1>2 DEF PurgeProfile, ProfType
    <2> QED  BY <1>2, <2>2, <2>3, <2>4 DEF PurgeProfile, Evolves
  <1> QED  BY <1>1, <1>2

\* The revisions and the row stay in step.
LEMMA RevisedKept ==
    ASSUME ProfType, Evolves, NEW p \in ProfileIds, Revised(p)
    PROVE  Revised(p)'
  <1>1. revisions[p] \in Seq(Pins) /\ profiles[p].rev \in Nat
    BY RowFacts
  <1>2. CASE Keeps(p)
    BY <1>2 DEF Keeps, Revised, Evolves
  <1>3. CASE Loses(p)
    BY <1>3 DEF Loses, Revised
  <1>4. CASE Gains(p)
    <2>1. profiles'[p].pins \in Pins
      <3>1. profiles'[p] \in Row \/ profiles'[p] = NoRow
        BY DEF Evolves
      <3>2. NoRow.rev = 0
        BY DEF NoRow
      <3>3. profiles'[p].rev # 0
        BY <1>1, <1>4 DEF Gains
      <3> QED  BY <3>1, <3>2, <3>3 DEF Row
    <2> DEFINE new == profiles'[p].pins
    <2>2. revisions'[p] = Append(revisions[p], new) /\ profiles'[p].rev = Len(revisions[p]) + 1
      BY <1>4 DEF Gains, Revised
    <2> HIDE DEF new
    <2>3. Len(revisions'[p]) = profiles'[p].rev /\ revisions'[p][profiles'[p].rev] = new
      BY <1>1, <2>1, <2>2 DEF new
    <2> QED  BY <1>4, <2>3 DEF Gains, Revised, new
  <1> QED  BY <1>2, <1>3, <1>4 DEF Evolves

\* A reading that is good or outdated stays so.
LEMMA CurrentKept ==
    ASSUME ProfType, Evolves, NEW id \in ProfileIds, NEW rev \in Nat, NEW pins,
           Current(id, rev, pins)
    PROVE  Current(id, rev, pins)'
  BY RowFacts DEF Evolves, Current, Keeps, Gains, Loses

\* Drafts nobody saves stay good or outdated.
LEMMA FormsKept ==
    ASSUME ProfType, Forms, Evolves, UNCHANGED writing
    PROVE  Forms'
  <1> SUFFICES ASSUME NEW w \in Writers, writing[w] # Idle
               PROVE  /\ writing[w].expected <= writing[w].seen.rev
                      /\ Current(writing[w].id, writing[w].seen.rev, writing[w].seen.pins)'
    BY DEF Forms
  <1>1. writing[w] \in Draft
    BY DEF ProfType
  <1>2. PICK id \in ProfileIds, rev \in Nat, pins \in Pins :
          writing[w].id = id /\ writing[w].seen.rev = rev /\ writing[w].seen.pins = pins
    BY <1>1 DEF Draft, Row
  <1>3. Current(id, rev, pins)
    BY <1>2 DEF Forms
  <1>4. Current(id, rev, pins)'
    BY <1>3, CurrentKept
  <1>5. writing'[w] = writing[w]
    OBVIOUS
  <1>6. writing[w].expected <= writing[w].seen.rev
    BY DEF Forms
  <1> QED  BY <1>2, <1>4, <1>5, <1>6

\* What a preflight under way is made of.
LEMMA PreflightFacts ==
    ASSUME ProfType, preflight.at # "none"
    PROVE  /\ preflight \in Resolving \cup Between
           /\ preflight.id \in ProfileIds /\ preflight.todo \in SUBSET Hosts
           /\ preflight.shown \in Seq(Shown)
           /\ preflight.at = "pins" => preflight \in Between /\ preflight.rev \in Nat \ {0}
           /\ preflight.at \in {"revision", "bridge"} => preflight \in Resolving
  BY DEF ProfType, Resolving, Between, NoPreflight

\* So does what a preflight has read.
LEMMA PreviewsKept ==
    ASSUME ProfType, Previews, Evolves, UNCHANGED preflight
    PROVE  Previews'
  <1>1. CASE preflight.at \notin {"revision", "pins", "bridge"}
    BY <1>1 DEF Previews
  <1>2. CASE preflight.at \in {"revision", "pins", "bridge"}
    <2>1. PICK id \in ProfileIds : preflight.id = id
      BY <1>2, PreflightFacts
    <2>2. preflight'.id = id /\ preflight'.shown = preflight.shown /\ preflight'.at = preflight.at
          /\ preflight'.rev = preflight.rev
      BY <2>1
    <2>3. id \in everUsed'
      BY <1>2, <2>1 DEF Previews, Evolves
    <2>4. ASSUME NEW i \in DOMAIN preflight.shown
          PROVE  Current(id, preflight.shown[i].rev, preflight.shown[i].pins)'
      <3>1. preflight.shown[i] \in Shown
        BY <1>2, PreflightFacts
      <3>2. PICK rev \in Nat, pins \in Pins :
              preflight.shown[i].rev = rev /\ preflight.shown[i].pins = pins
        BY <3>1 DEF Shown
      <3>3. Current(id, rev, pins)
        BY <1>2, <2>1, <3>2 DEF Previews
      <3>4. Current(id, rev, pins)'
        BY <3>3, CurrentKept
      <3> QED  BY <3>2, <3>4
    <2>5. ASSUME preflight.at = "pins"
          PROVE  \/ id \in reborn' \/ profiles'[id].rev = 0
                 \/ preflight.rev <= profiles'[id].rev
      <3>1. preflight.rev \in Nat /\ profiles[id].rev \in Nat
        BY <2>5, PreflightFacts, RowFacts
      <3>2. id \in reborn \/ profiles[id].rev = 0 \/ preflight.rev <= profiles[id].rev
        BY <2>1, <2>5 DEF Previews
      <3>3. id \in everUsed
        BY <2>1, <2>5 DEF Previews
      <3> QED  BY <3>1, <3>2, <3>3 DEF Evolves, Keeps, Gains, Loses
    <2>6. preflight.at = "bridge" => preflight.shown # <<>>
      BY DEF Previews
    <2> QED  BY <2>2, <2>3, <2>4, <2>5, <2>6 DEF Previews
  <1> QED  BY <1>1, <1>2

\* Confirmations are only marked, and new ones added.
TokensGrow ==
    /\ tokens' \in Seq(Token) /\ Len(tokens) <= Len(tokens')
    /\ \A i \in DOMAIN tokens :
         /\ tokens'[i].id = tokens[i].id /\ tokens'[i].rev = tokens[i].rev
         /\ tokens'[i].pins = tokens[i].pins
         /\ tokens[i].used => tokens'[i].used

\* What a confirmation is made of.
LEMMA TokenFacts ==
    ASSUME ProfType, NEW i \in DOMAIN tokens
    PROVE  tokens[i] \in Token /\ tokens[i].id \in ProfileIds /\ tokens[i].rev \in Nat \ {0}
           /\ tokens[i].pins \in Pins /\ tokens[i].host \in Hosts
  <1>1. tokens[i] \in Token
    BY DEF ProfType
  <1> QED  BY <1>1 DEF Token

\* A Profile with a confirmation keeps its row.
LEMMA ConfirmationsKept ==
    ASSUME ProfType, Confirmations, Evolves, TokensGrow, NEW i \in DOMAIN tokens
    PROVE  Confirmation(i)'
  <1>1. PICK id \in ProfileIds, rev \in Nat, pins \in Pins :
          tokens[i].id = id /\ tokens[i].rev = rev /\ tokens[i].pins = pins
    BY TokenFacts
  <1>2. tokens'[i].id = id /\ tokens'[i].rev = rev /\ tokens'[i].pins = pins
    BY <1>1 DEF TokensGrow
  <1>3. Current(id, rev, pins) /\ profiles[id].rev > 0
    BY <1>1 DEF Confirmations, Confirmation
  <1>4. Current(id, rev, pins)'
    BY <1>3, CurrentKept
  <1>5. ~Loses(id)
    BY <1>1 DEF Loses, Purgeable
  <1>6. profiles'[id].rev > 0
    BY <1>3, <1>5, RowFacts DEF Evolves, Keeps, Gains
  <1> QED  BY <1>2, <1>4, <1>6 DEF Confirmation

\* A revision that a confirmed request names is never lost.
LEMMA NamedRevisionKept ==
    ASSUME ProfType, Confirmations, Evolves, TokensGrow, \A p \in ProfileIds : Revised(p),
           NEW id \in ProfileIds, NEW rev \in Nat \ {0}, NEW pins, NamesRevision(id, rev, pins)
    PROVE  NamesRevision(id, rev, pins)'
  <1>1. PICK i \in DOMAIN tokens : tokens[i].id = id
    BY DEF NamesRevision, Confirmed
  <1>2. i \in DOMAIN tokens' /\ tokens'[i].id = id
    BY <1>1 DEF ProfType, TokensGrow
  <1>3. Confirmed(id)'
    BY <1>2 DEF Confirmed
  <1>4. ~Loses(id)
    BY <1>1 DEF Loses, Purgeable
  <1>5. CASE id \in reborn
    BY <1>3, <1>5 DEF NamesRevision, Evolves
  <1>6. CASE Keeps(id)
    BY <1>3, <1>6 DEF NamesRevision, Keeps, Evolves
  <1>7. CASE Gains(id) /\ id \notin reborn
    <2>1. rev <= Len(revisions[id]) /\ revisions[id] \in Seq(Pins) /\ profiles[id].rev \in Nat
      BY <1>7, RowFacts DEF NamesRevision, Revised
    <2>2. Append(revisions[id], profiles'[id].pins)[rev] = revisions[id][rev]
      BY <2>1
    <2>3. rev <= profiles'[id].rev
      BY <2>1, <1>7 DEF NamesRevision, Gains
    <2> QED  BY <1>3, <1>7, <2>2, <2>3 DEF NamesRevision, Gains
  <1> QED  BY <1>4, <1>5, <1>6, <1>7 DEF Evolves

\* What an operation delivers, and the confirmations behind it.
LEMMA ApplyFacts ==
    ASSUME ProfType, NEW o \in DOMAIN applies
    PROVE  /\ applies[o] \in Apply /\ applies[o].id \in ProfileIds /\ applies[o].rev \in Nat \ {0}
           /\ applies[o].tokens \subseteq Nat
           /\ applies[o].state \in [Hosts -> {"none", "queued", "landed", "failed"}]
           /\ DOMAIN applies[o].pins \subseteq Hosts
           /\ \A t \in DOMAIN applies[o].pins : applies[o].pins[t] \in Pins
           /\ applies[o].pins \in [DOMAIN applies[o].pins -> Pins]
  <1>1. applies[o] \in Apply
    BY DEF ProfType
  <1>2. PICK set \in SUBSET Hosts : applies[o].pins \in [set -> Pins]
    BY <1>1 DEF Apply
  <1> QED  BY <1>1, <1>2 DEF Apply

\* An operation keeps naming a revision that exists.
LEMMA OperationKept ==
    ASSUME ProfType, Confirmations, Evolves, TokensGrow, \A p \in ProfileIds : Revised(p),
           NEW o \in DOMAIN applies, Operation(o),
           o \in DOMAIN applies', applies'[o].id = applies[o].id, applies'[o].rev = applies[o].rev,
           applies'[o].pins = applies[o].pins, applies'[o].tokens = applies[o].tokens,
           \A t \in Hosts : applies'[o].state[t] # "none" => applies[o].state[t] # "none"
    PROVE  Operation(o)'
  <1>1. PICK id \in ProfileIds, rev \in Nat \ {0} : applies[o].id = id /\ applies[o].rev = rev
    BY ApplyFacts
  <1>2. ASSUME NEW t \in DOMAIN applies[o].pins
        PROVE  NamesRevision(id, rev, applies[o].pins[t])'
    <2>1. PICK pins \in Pins : applies[o].pins[t] = pins
      BY ApplyFacts
    <2>2. NamesRevision(id, rev, pins)
      BY <1>1, <2>1 DEF Operation
    <2>3. NamesRevision(id, rev, pins)'
      BY <2>2, NamedRevisionKept
    <2> QED  BY <2>1, <2>3
  <1>3. ASSUME NEW i \in applies[o].tokens
        PROVE  i \in DOMAIN tokens' /\ tokens'[i].used
    BY <1>3 DEF Operation, TokensGrow, ProfType
  <1>4. \A t \in Hosts : applies'[o].state[t] # "none" => t \in DOMAIN applies'[o].pins
    BY DEF Operation
  <1> QED  BY <1>1, <1>2, <1>3, <1>4 DEF Operation

\* So do all operations.
LEMMA OperationsKept ==
    ASSUME ProfType, Confirmations, Evolves, TokensGrow, \A p \in ProfileIds : Revised(p),
           Operations, UNCHANGED applies
    PROVE  Operations'
  <1>1. ASSUME NEW o \in DOMAIN applies  PROVE  Operation(o)'
    BY <1>1, OperationKept DEF Operations
  <1> QED  BY <1>1 DEF Operations

\* A desired snapshot keeps naming a revision that exists.
LEMMA SnapshotKept ==
    ASSUME ProfType, Confirmations, Evolves, TokensGrow, \A p \in ProfileIds : Revised(p),
           Snapshots, NEW t \in Hosts, pinned'[t] = pinned[t]
    PROVE  Pinned(t)'
  <1>1. CASE pinned[t].source = "profile_apply"
    <2>1. pinned[t] \in Snapshot
      BY DEF ProfType
    <2>2. PICK id \in ProfileIds, rev \in Nat \ {0}, pins \in Pins :
            pinned[t].id = id /\ pinned[t].rev = rev /\ pinned[t].pins = pins
      BY <1>1, <2>1 DEF Snapshot
    <2>3. NamesRevision(id, rev, pins)
      BY <1>1, <2>2 DEF Snapshots, Pinned
    <2>4. NamesRevision(id, rev, pins)'
      BY <2>3, NamedRevisionKept
    <2> QED  BY <2>2, <2>4 DEF Pinned
  <1>2. CASE pinned[t].source # "profile_apply"
    BY <1>2 DEF Pinned
  <1> QED  BY <1>1, <1>2

\* So do all snapshots.
LEMMA SnapshotsKept ==
    ASSUME ProfType, Confirmations, Evolves, TokensGrow, \A p \in ProfileIds : Revised(p),
           Snapshots, UNCHANGED pinned
    PROVE  Snapshots'
  BY SnapshotKept DEF Snapshots

\* The Profile a bundle made keeps its revision.
LEMMA BundleKept ==
    ASSUME ProfType, Evolves, BundlesOnce, NEW b \in Parcels,
           fingerprints'[b] = fingerprints[b], brought'[b] = brought[b]
    PROVE  Bundle(b)'
  <1>1. CASE fingerprints[b].rev = 0
    BY <1>1 DEF BundlesOnce, Bundle
  <1>2. CASE fingerprints[b].rev # 0
    <2>1. PICK id \in ProfileIds, rev \in Nat : fingerprints[b].id = id /\ fingerprints[b].rev = rev
      <3>1. fingerprints[b].rev \in Nat
        BY DEF ProfType
      <3> QED  BY <1>2, <3>1 DEF BundlesOnce, Bundle
    <2>2. rev <= profiles[id].rev /\ profiles[id].rev \in Nat
      BY <1>2, <2>1, RowFacts DEF BundlesOnce, Bundle
    <2>3. ~Loses(id)
      BY <2>1 DEF Loses, Purgeable
    <2>4. rev <= profiles'[id].rev
      BY <2>2, <2>3 DEF Evolves, Keeps, Gains
    <2> QED  BY <1>2, <2>1, <2>4 DEF BundlesOnce, Bundle
  <1> QED  BY <1>1, <1>2

\* So do all bundles.
LEMMA BundlesKept ==
    ASSUME ProfType, Evolves, BundlesOnce, UNCHANGED <<fingerprints, brought>>
    PROVE  BundlesOnce'
  BY BundleKept DEF BundlesOnce

-----------------------------------------------------------------------------
\* Forms and bundles apart, a step on Profiles alone keeps everything.
LEMMA EvolvedInv ==
    ASSUME ProfInv, Evolves, UNCHANGED applyVars
    PROVE  /\ \A p \in ProfileIds : Revised(p)'
           /\ Previews' /\ Confirmations' /\ Operations' /\ Snapshots'
  <1>1. TokensGrow
    BY DEF ProfInv, ProfType, TokensGrow, applyVars
  <1>2. Confirmations'
    BY <1>1, ConfirmationsKept DEF ProfInv, Confirmations, applyVars
  <1> QED  BY <1>1, <1>2, RevisedKept, PreviewsKept, OperationsKept, SnapshotsKept
           DEF ProfInv, applyVars

\* The Library: ImportSkill and UpdateSkillTags.
LEMMA LibraryInv ==
    ASSUME ProfInv, NEW s \in Catalog, ImportSkill(s) \/ UpdateSkillTags(s)
    PROVE  ProfInv'
  <1>1. current' \in Pins
    <2>1. current \in Pins
      BY DEF ProfInv, ProfType
    <2>2. CASE ImportSkill(s)
      BY <2>1, <2>2, ProfileAssumption DEF ImportSkill, Pins
    <2>3. CASE UpdateSkillTags(s)
      BY <2>1, <2>3 DEF UpdateSkillTags
    <2> QED  BY <2>2, <2>3
  <1>2. UNCHANGED <<profileVars, writing, applyVars, parcelVars>>
    BY DEF ImportSkill, UpdateSkillTags
  <1> QED  BY <1>1, <1>2 DEF ProfInv, ProfType, Revised, Forms, Previews, Confirmations,
             Confirmation, Operations, Operation, Snapshots, Pinned, BundlesOnce, Bundle, Current,
             NamesRevision, Confirmed, profileVars, applyVars, parcelVars

\* A writer reads a Profile or gives up.
LEMMA ReaderInv ==
    ASSUME ProfInv, NEW w \in Writers,
           GiveUp(w) \/ \E p \in ProfileIds : ReadProfile(w, p)
    PROVE  ProfInv'
  <1>1. UNCHANGED <<libraryVars, profileVars, applyVars, parcelVars>>
    BY DEF GiveUp, ReadProfile
  <1>2. Evolves
    BY <1>1, StillEvolves DEF ProfInv
  <1>3. /\ writing' \in [Writers -> Draft \cup {Idle}]
        /\ \A v \in Writers \ {w} : writing'[v] = writing[v]
        /\ writing'[w] # Idle =>
             /\ writing'[w].expected <= writing'[w].seen.rev
             /\ writing'[w].id \in everUsed /\ writing'[w].seen.rev = profiles[writing'[w].id].rev
             /\ writing'[w].seen.pins = profiles[writing'[w].id].pins
    <2>1. CASE GiveUp(w)
      BY <2>1 DEF GiveUp, ProfInv, ProfType
    <2>2. ASSUME NEW p \in ProfileIds, ReadProfile(w, p)
          PROVE  <1>3!1 /\ <1>3!2 /\ <1>3!3
      <3>1. PICK kind \in {"edit", "refresh", "restore", "clone"}, expected \in 1..profiles[p].rev :
              writing' = [writing EXCEPT ![w] =
                [kind |-> kind, id |-> p, expected |-> expected, seen |-> profiles[p]]]
        BY <2>2 DEF ReadProfile
      <3>2. profiles[p] \in Row /\ profiles[p].rev \in Nat /\ p \in everUsed
        BY <2>2, RowFacts DEF ReadProfile, ProfInv, Revised
      <3> DEFINE draft == [kind |-> kind, id |-> p, expected |-> expected, seen |-> profiles[p]]
      <3>3. draft \in Draft /\ draft.expected <= draft.seen.rev /\ draft.id = p
            /\ draft.seen = profiles[p]
        BY <3>1, <3>2 DEF Draft
      <3> HIDE DEF draft
      <3>4. writing' = [writing EXCEPT ![w] = draft]
        BY <3>1 DEF draft
      <3> QED  BY <3>2, <3>3, <3>4 DEF ProfInv, ProfType
    <2> QED  BY <2>1, <2>2
  <1>4. Forms'
    <2>1. ASSUME NEW v \in Writers \ {w}, writing[v] # Idle
          PROVE  writing'[v].expected <= writing'[v].seen.rev
                 /\ Current(writing[v].id, writing[v].seen.rev, writing[v].seen.pins)'
      BY <1>1, <1>3, <2>1 DEF ProfInv, Forms, Current, profileVars
    <2>2. writing'[w] # Idle => writing'[w].expected <= writing'[w].seen.rev
                 /\ Current(writing[w].id, writing[w].seen.rev, writing[w].seen.pins)'
      BY <1>1, <1>3 DEF Current, profileVars
    <2> QED  BY <1>3, <2>1, <2>2 DEF Forms
  <1>5. ProfType'
    BY <1>1, <1>3 DEF ProfInv, ProfType, libraryVars, profileVars, applyVars, parcelVars
  <1> QED  BY <1>1, <1>2, <1>4, <1>5, EvolvedInv, BundlesKept DEF ProfInv, parcelVars

\* What a form, a refresh, a restore or a clone saves.
LEMMA DraftSaved ==
    ASSUME ProfInv, NEW w \in Writers,
           SaveProfile(w) \/ RefreshProfile(w) \/ RestoreArchivedProfile(w) \/ CloneProfile(w)
    PROVE  /\ writing[w] \in Draft
           /\ writing' = [writing EXCEPT ![w] = Idle]
           /\ UNCHANGED <<libraryVars, applyVars, parcelVars, profLeft>>
           /\ \E p \in ProfileIds, name \in ProfileNames, pins \in Pins, ready \in BOOLEAN :
                /\ p = writing[w].id \/ p \notin everUsed
                /\ profiles[p].rev > 0 => writing[w].expected = profiles[p].rev
                /\ SavedRow(p, name, pins, ready)
  <1>1. writing[w] \in Draft
    <2>1. Idle.kind = "idle"
      BY DEF Idle
    <2>2. writing[w] # Idle
      BY <2>1 DEF SaveProfile, RefreshProfile, RestoreArchivedProfile, CloneProfile
    <2> QED  BY <2>2 DEF ProfInv, ProfType
  <1>2. writing[w].id \in ProfileIds /\ writing[w].seen \in Row
    BY <1>1 DEF Draft
  <1>3. CASE SaveProfile(w)
    BY <1>1, <1>2, <1>3 DEF SaveProfile, SavedFrom, SaveProfileTx, RevisionMatches, SavedRow
  <1>4. CASE RefreshProfile(w)
    <2> DEFINE seen == writing[w].seen
               pins == [s \in Catalog |-> IF seen.pins[s] = 0 THEN 0 ELSE current[s]]
               new  == [seen EXCEPT !.pins = pins]
    <2>1. current \in Pins
      BY DEF ProfInv, ProfType
    <2>2. pins \in Pins
      BY <2>1, ProfileAssumption DEF Pins
    <2>3. new.name \in ProfileNames /\ new.pins = pins /\ new.ready \in BOOLEAN
      BY <1>2 DEF Row
    <2>4. SavedFrom(w, writing[w].id, new, FALSE)
      BY <1>4 DEF RefreshProfile
    <2> HIDE DEF new, pins
    <2> QED  BY <1>1, <1>2, <2>2, <2>3, <2>4 DEF SavedFrom, SaveProfileTx, RevisionMatches, SavedRow
  <1>5. CASE RestoreArchivedProfile(w)
    BY <1>1, <1>2, <1>5
    DEF RestoreArchivedProfile, SavedFrom, SaveProfileTx, RevisionMatches, SavedRow, Row
  <1>6. CASE CloneProfile(w)
    <2>1. PICK p \in NewIds, name \in ProfileNames :
            SavedFrom(w, p, [writing[w].seen EXCEPT !.name = name], FALSE)
      BY <1>6 DEF CloneProfile
    <2> DEFINE new == [writing[w].seen EXCEPT !.name = name]
    <2>2. new.name = name /\ new.pins \in Pins /\ new.ready \in BOOLEAN
      BY <1>2 DEF Row
    <2>3. p \in ProfileIds /\ p \notin everUsed
      BY DEF NewIds
    <2> HIDE DEF new
    <2>4. SavedFrom(w, p, new, FALSE)
      BY <2>1 DEF new
    <2> QED  BY <1>1, <2>2, <2>3, <2>4 DEF SavedFrom, SaveProfileTx, RevisionMatches, SavedRow
  <1> QED  BY <1>3, <1>4, <1>5, <1>6

\* SaveProfile, RefreshProfile, RestoreArchivedProfile and CloneProfile.
LEMMA WriterInv ==
    ASSUME ProfInv, NEW w \in Writers,
           SaveProfile(w) \/ RefreshProfile(w) \/ RestoreArchivedProfile(w) \/ CloneProfile(w)
    PROVE  ProfInv'
  <1>1. PICK p \in ProfileIds, name \in ProfileNames, pins \in Pins, ready \in BOOLEAN :
          SavedRow(p, name, pins, ready)
    BY DraftSaved
  <1>2. Evolves
    BY <1>1, SaveEvolves DEF ProfInv
  <1>3. writing' = [writing EXCEPT ![w] = Idle] /\ UNCHANGED <<libraryVars, applyVars, parcelVars>>
    BY DraftSaved
  <1>4. Forms'
    <2> SUFFICES ASSUME NEW v \in Writers, writing'[v] # Idle
                 PROVE  writing'[v].expected <= writing'[v].seen.rev
                        /\ Current(writing[v].id, writing[v].seen.rev, writing[v].seen.pins)'
      BY DEF Forms
    <2>1. writing'[v] = writing[v] /\ writing[v] \in Draft
      BY <1>3 DEF ProfInv, ProfType
    <2>2. PICK id \in ProfileIds, rev \in Nat, new \in Pins :
            writing[v].id = id /\ writing[v].seen.rev = rev /\ writing[v].seen.pins = new
      BY <2>1 DEF Draft, Row
    <2>3. Current(id, rev, new) /\ writing[v].expected <= writing[v].seen.rev
      BY <2>1, <2>2 DEF ProfInv, Forms
    <2>4. Current(id, rev, new)'
      BY <1>2, <2>3, CurrentKept DEF ProfInv
    <2> QED  BY <2>1, <2>2, <2>3, <2>4
  <1>5. ProfType'
    BY <1>2, <1>3 DEF Evolves, ProfInv, ProfType, libraryVars, applyVars, parcelVars
  <1> QED  BY <1>2, <1>3, <1>4, <1>5, EvolvedInv, BundlesKept DEF ProfInv, parcelVars

\* A new Profile, an archived or a purged one.
LEMMA ProfileInv ==
    ASSUME ProfInv,
           \/ CreateProfile \/ \E t \in Hosts : AdoptRestoredTarget(t)
           \/ \E p \in ProfileIds : ArchiveProfile(p) \/ PurgeProfile(p)
    PROVE  ProfInv'
  <1>1. UNCHANGED <<libraryVars, writing, applyVars, parcelVars>>
    BY DEF CreateProfile, AdoptRestoredTarget, ArchiveProfile, PurgeProfile
  <1>2. Evolves
    <2>1. CASE CreateProfile
      BY <2>1, SaveEvolves DEF ProfInv, CreateProfile, SaveProfileTx, SavedRow, NewIds
    <2>2. ASSUME NEW t \in Hosts, AdoptRestoredTarget(t)
          PROVE  Evolves
      <3>1. pinned[t] \in Snapshot
        BY DEF ProfInv, ProfType
      <3>2. pinned[t].pins \in Pins
        BY <2>2, <3>1 DEF Snapshot, AdoptRestoredTarget
      <3> QED  BY <2>2, <3>2, SaveEvolves
               DEF ProfInv, AdoptRestoredTarget, SaveProfileTx, SavedRow, NewIds
    <2>3. ASSUME NEW p \in ProfileIds, ArchiveProfile(p) \/ PurgeProfile(p)
          PROVE  Evolves
      BY <2>3, RemoveEvolves DEF ProfInv
    <2> QED  BY <2>1, <2>2, <2>3
  <1>3. ProfType'
    BY <1>1, <1>2 DEF Evolves, ProfInv, ProfType, libraryVars, applyVars, parcelVars
  <1> QED  BY <1>1, <1>2, <1>3, EvolvedInv, FormsKept, BundlesKept DEF ProfInv, parcelVars

\* A preflight goes on: only what it has read changes.
LEMMA PreflightKeeps ==
    ASSUME ProfInv, UNCHANGED <<libraryVars, profileVars, writing, tokens, applies, pinned, parcelVars>>,
           preflight' \in Resolving \cup Between \cup {NoPreflight}, Previews'
    PROVE  ProfInv'
  BY DEF ProfInv, ProfType, Revised, Forms, Confirmations, Confirmation, Operations, Operation,
         Snapshots, Pinned, BundlesOnce, Bundle, Current, NamesRevision, Confirmed, libraryVars,
         profileVars, parcelVars

\* ProfilePreflight, ResolveProfileManifest in its two statements, and a refusal.
LEMMA PreflightInv ==
    ASSUME ProfInv,
           \/ \E p \in ProfileIds, set \in SUBSET Hosts : ProfilePreflight(p, set)
           \/ ResolveRevision \/ ResolvePins \/ PreflightFails
    PROVE  ProfInv'
  <1> USE DEF ProfInv
  <1>0. UNCHANGED <<libraryVars, profileVars, writing, tokens, applies, pinned, parcelVars>>
    BY DEF ProfilePreflight, ResolveRevision, ResolvePins, PreflightFails
  <1>1. CASE preflight' = NoPreflight
    BY <1>0, <1>1, PreflightKeeps DEF Previews, NoPreflight
  <1>2. ASSUME NEW p \in ProfileIds, NEW set \in SUBSET Hosts, ProfilePreflight(p, set)
        PROVE  ProfInv'
    <2>1. preflight' = [at |-> "revision", id |-> p, todo |-> set, shown |-> <<>>]
      BY <1>2 DEF ProfilePreflight
    <2>2. p \in everUsed'
      BY <1>0, <1>2, RowFacts DEF ProfilePreflight, Revised, profileVars
    <2>3. preflight' \in Resolving
      BY <2>1 DEF Resolving
    <2>4. Previews'
      BY <2>1, <2>2 DEF Previews
    <2> QED  BY <1>0, <2>3, <2>4, PreflightKeeps
  <1>3. CASE ResolveRevision /\ preflight' # NoPreflight
    <2> DEFINE row == profiles[preflight.id]
    <2>1. /\ preflight.at = "revision" /\ row.rev # 0
          /\ preflight' = [at |-> "pins", id |-> preflight.id, todo |-> preflight.todo,
                           shown |-> preflight.shown, rev |-> row.rev]
      BY <1>3 DEF ResolveRevision
    <2>2. /\ preflight.id \in ProfileIds /\ preflight.todo \in SUBSET Hosts
          /\ preflight.shown \in Seq(Shown)
      BY <2>1, PreflightFacts
    <2>3. row.rev \in Nat
      BY <2>2, RowFacts
    <2>4. preflight' \in Between
      BY <2>1, <2>2, <2>3 DEF Between
    <2>5. Previews'
      <3>1. /\ preflight'.at = "pins" /\ preflight'.id = preflight.id
            /\ preflight'.shown = preflight.shown /\ preflight'.rev = row.rev
        BY <2>1
      <3>2. preflight.id \in everUsed' /\ profiles' = profiles
        BY <1>0, <2>1 DEF Previews, profileVars
      <3>3. ASSUME NEW i \in DOMAIN preflight.shown
            PROVE  Current(preflight.id, preflight.shown[i].rev, preflight.shown[i].pins)'
        BY <1>0, <2>1, <3>1 DEF Previews, Current, profileVars
      <3> QED  BY <2>3, <3>1, <3>2, <3>3 DEF Previews
    <2> QED  BY <1>0, <2>4, <2>5, PreflightKeeps
  <1>4. CASE ResolvePins
    <2>1. PICK t \in preflight.todo :
            preflight' = [at |-> IF preflight.todo \ {t} = {} THEN "bridge" ELSE "revision",
                          id |-> preflight.id, todo |-> preflight.todo \ {t},
                          shown |-> Append(preflight.shown,
                            [host |-> t, rev |-> preflight.rev, pins |-> profiles[preflight.id].pins])]
      BY <1>4 DEF ResolvePins
    <2> DEFINE new == [host |-> t, rev |-> preflight.rev, pins |-> profiles[preflight.id].pins]
               id  == preflight.id
    <2>2. preflight.at = "pins"
      BY <1>4 DEF ResolvePins
    <2>3. /\ id \in ProfileIds /\ preflight.todo \in SUBSET Hosts
          /\ preflight.shown \in Seq(Shown) /\ preflight.rev \in Nat \ {0}
      BY <2>2, PreflightFacts
    <2>4. profiles[id].pins \in Pins /\ profiles[id].rev \in Nat
      BY <2>3, RowFacts
    <2>5. new \in Shown /\ new.rev = preflight.rev /\ new.pins = profiles[id].pins
      BY <2>3, <2>4 DEF Shown
    <2>6. Current(id, preflight.rev, profiles[id].pins)
      BY <2>2, <2>3, <2>4 DEF Previews, Current
    <2> HIDE DEF new
    <2>7. /\ preflight'.id = id /\ preflight'.shown = Append(preflight.shown, new)
          /\ preflight'.at \in {"bridge", "revision"} /\ preflight'.todo = preflight.todo \ {t}
          /\ preflight' = [at |-> preflight'.at, id |-> preflight'.id, todo |-> preflight'.todo,
                           shown |-> preflight'.shown]
      BY <2>1 DEF new
    <2>8. Append(preflight.shown, new) \in Seq(Shown) /\ Append(preflight.shown, new) # <<>>
      BY <2>3, <2>5
    <2>9. preflight' \in Resolving
      BY <2>3, <2>7, <2>8 DEF Resolving
    <2>10. Previews'
      <3>1. id \in everUsed'
        BY <1>0, <2>2 DEF Previews, profileVars
      <3>2. ASSUME NEW i \in DOMAIN preflight'.shown
            PROVE  Current(id, preflight'.shown[i].rev, preflight'.shown[i].pins)
        <4>1. CASE i = Len(preflight.shown) + 1
          <5>1. preflight'.shown[i] = new
            BY <2>3, <2>5, <2>7, <4>1
          <5> QED  BY <2>5, <2>6, <5>1
        <4>2. CASE i # Len(preflight.shown) + 1
          <5>1. i \in DOMAIN preflight.shown /\ preflight'.shown[i] = preflight.shown[i]
            BY <2>3, <2>5, <2>7, <4>2
          <5> QED  BY <2>2, <5>1 DEF Previews
        <4> QED  BY <4>1, <4>2
      <3>3. UNCHANGED <<profiles, everUsed, reborn>>
        BY <1>0 DEF profileVars
      <3> QED  BY <2>7, <2>8, <3>1, <3>2, <3>3 DEF Previews, Current
    <2> QED  BY <1>0, <2>9, <2>10, PreflightKeeps
  <1>5. CASE PreflightFails
    BY <1>1, <1>5 DEF PreflightFails
  <1> QED  BY <1>1, <1>2, <1>3, <1>4, <1>5

\* A confirmation is stored.
LEMMA ConfirmInv ==
    ASSUME ProfInv, CreatePreflightConfirmation
    PROVE  ProfInv'
  <1> DEFINE first == Head(preflight.shown)
             new == [id |-> preflight.id, host |-> first.host, rev |-> first.rev,
                     pins |-> first.pins, used |-> FALSE, expired |-> FALSE]
             id == preflight.id
  <1>1. /\ preflight.at = "bridge" /\ profiles[id].rev > 0 /\ tokens' = Append(tokens, new)
        /\ UNCHANGED <<libraryVars, profileVars, writing, applies, pinned, parcelVars>>
    BY DEF CreatePreflightConfirmation
  <1>2. /\ preflight \in Resolving /\ id \in ProfileIds /\ preflight.todo \in SUBSET Hosts
        /\ preflight.shown \in Seq(Shown) /\ preflight.shown # <<>>
    BY <1>1, PreflightFacts DEF ProfInv, Previews
  <1>3. first = preflight.shown[1] /\ first \in Shown /\ 1 \in DOMAIN preflight.shown
    BY <1>2
  <1>4. Current(id, first.rev, first.pins)
    BY <1>1, <1>3 DEF ProfInv, Previews
  <1>5. new \in Token /\ new.id = id /\ new.rev = first.rev /\ new.pins = first.pins
    BY <1>2, <1>3 DEF Token, Shown
  <1> HIDE DEF new, first
  <1>6. Evolves
    BY <1>1, StillEvolves DEF ProfInv
  <1>7. /\ tokens' \in Seq(Token) /\ DOMAIN tokens' = 1..(Len(tokens) + 1)
        /\ tokens'[Len(tokens) + 1] = new
        /\ DOMAIN tokens = 1..Len(tokens) /\ \A i \in DOMAIN tokens : tokens'[i] = tokens[i]
        /\ Len(tokens') = Len(tokens) + 1 /\ Len(tokens) \in Nat
    BY <1>1, <1>5 DEF ProfInv, ProfType
  <1>8. TokensGrow
    BY <1>7 DEF TokensGrow
  <1>9. PICK n : n = Len(tokens) + 1
    OBVIOUS
  <1>10. Confirmations'
    <2>1. \A i \in DOMAIN tokens : Confirmation(i)'
      BY <1>6, <1>8, ConfirmationsKept DEF ProfInv
    <2>2. Confirmation(n)'
      BY <1>1, <1>4, <1>5, <1>7, <1>9 DEF Confirmation, Current, profileVars
    <2> QED  BY <1>7, <1>9, <2>1, <2>2 DEF Confirmations
  <1>11. preflight' \in Resolving \cup {NoPreflight} /\ Previews'
    <2>1. CASE preflight' = NoPreflight
      BY <2>1 DEF NoPreflight, Previews
    <2>2. CASE Len(preflight.shown) # 1 /\ preflight' = [preflight EXCEPT !.shown = Tail(@)]
      <3>1. /\ preflight'.at = "bridge" /\ preflight'.id = id /\ preflight'.shown = Tail(preflight.shown)
            /\ preflight'.todo = preflight.todo
            /\ preflight' = [at |-> preflight'.at, id |-> preflight'.id, todo |-> preflight'.todo,
                             shown |-> preflight'.shown]
        BY <1>1, <1>2, <2>2 DEF Resolving
      <3>2. /\ Tail(preflight.shown) \in Seq(Shown) /\ Tail(preflight.shown) # <<>>
            /\ \A i \in DOMAIN Tail(preflight.shown) :
                 i + 1 \in DOMAIN preflight.shown
                 /\ Tail(preflight.shown)[i] = preflight.shown[i + 1]
        <4>1. Len(preflight.shown) \in Nat \ {0, 1}
          BY <1>2, <2>2, EmptySeq
        <4>2. /\ Tail(preflight.shown) \in Seq(Shown)
              /\ Len(Tail(preflight.shown)) = Len(preflight.shown) - 1
              /\ \A i \in 1 .. Len(Tail(preflight.shown)) :
                   Tail(preflight.shown)[i] = preflight.shown[i + 1]
          BY <1>2, HeadTailProperties
        <4>3. Tail(preflight.shown) # <<>>
          <5>1. Len(Tail(preflight.shown)) # 0
            BY <4>1, <4>2
          <5>2. <<>> \in Seq(Shown) /\ Len(<<>>) = 0
            BY EmptySeq
          <5> QED  BY <5>1, <5>2
        <4>4. DOMAIN Tail(preflight.shown) = 1..Len(Tail(preflight.shown))
              /\ DOMAIN preflight.shown = 1..Len(preflight.shown)
          BY <1>2, <4>2, LenProperties
        <4> QED  BY <4>1, <4>2, <4>3, <4>4
      <3>3. preflight' \in Resolving
        BY <1>2, <3>1, <3>2 DEF Resolving
      <3>4. \A i \in DOMAIN preflight'.shown :
              Current(id, preflight'.shown[i].rev, preflight'.shown[i].pins)
        BY <1>1, <3>1, <3>2 DEF ProfInv, Previews
      <3>5. id \in everUsed'
        BY <1>1 DEF ProfInv, Previews, profileVars
      <3>6. Previews'
        BY <1>1, <3>1, <3>2, <3>4, <3>5 DEF Previews, Current, profileVars
      <3> QED  BY <3>3, <3>6
    <2> QED  BY <2>1, <2>2 DEF CreatePreflightConfirmation
  <1>12. ProfType'
    BY <1>1, <1>7, <1>11 DEF ProfInv, ProfType, libraryVars, profileVars, parcelVars
  <1>13. \A p \in ProfileIds : Revised(p)'
    BY <1>6, RevisedKept DEF ProfInv
  <1>14. Forms' /\ BundlesOnce'
    BY <1>1, <1>6, FormsKept, BundlesKept DEF ProfInv, parcelVars
  <1>15. Operations' /\ Snapshots'
    BY <1>1, <1>6, <1>8, OperationsKept, SnapshotsKept DEF ProfInv
  <1> QED  BY <1>10, <1>11, <1>12, <1>13, <1>14, <1>15 DEF ProfInv

\* A step on the confirmations, operations or snapshots alone.
LEMMA ApplySideInv ==
    ASSUME ProfInv, TokensGrow,
           UNCHANGED <<libraryVars, profileVars, writing, preflight, parcelVars>>,
           DOMAIN tokens' = DOMAIN tokens, applies' \in Seq(Apply), pinned' \in [Hosts -> Snapshot],
           Operations', Snapshots'
    PROVE  ProfInv'
  <1>1. Evolves
    BY StillEvolves DEF ProfInv
  <1>2. Confirmations'
    BY <1>1, ConfirmationsKept DEF ProfInv, Confirmations
  <1>3. ProfType'
    BY DEF ProfInv, ProfType, TokensGrow, libraryVars, profileVars, parcelVars
  <1> QED  BY <1>1, <1>2, <1>3, RevisedKept, FormsKept, PreviewsKept, BundlesKept
           DEF ProfInv, parcelVars

\* A confirmation expires.
LEMMA ExpireInv ==
    ASSUME ProfInv, NEW i \in DOMAIN tokens, TokenExpires(i)
    PROVE  ProfInv'
  <1> DEFINE new == [tokens[i] EXCEPT !.expired = TRUE]
  <1>1. tokens' = [tokens EXCEPT ![i] = new]
        /\ UNCHANGED <<libraryVars, profileVars, writing, preflight, applies, pinned, parcelVars>>
    BY DEF TokenExpires
  <1>2. tokens[i] \in Token
    BY TokenFacts DEF ProfInv
  <1>3. new \in Token /\ new.id = tokens[i].id /\ new.rev = tokens[i].rev /\ new.pins = tokens[i].pins
        /\ new.used = tokens[i].used
    BY <1>2 DEF Token
  <1> HIDE DEF new
  <1>4. tokens \in Seq(Token) /\ DOMAIN tokens = 1..Len(tokens) /\ Len(tokens) \in Nat
    BY DEF ProfInv, ProfType
  <1>5. /\ tokens' \in Seq(Token) /\ Len(tokens') = Len(tokens)
        /\ \A j \in DOMAIN tokens : tokens'[j] = IF j = i THEN new ELSE tokens[j]
    BY <1>1, <1>3, <1>4, ExceptSeq
  <1>6. TokensGrow /\ DOMAIN tokens' = DOMAIN tokens
    BY <1>1, <1>3, <1>4, <1>5 DEF TokensGrow
  <1>7. Evolves
    BY <1>1, StillEvolves DEF ProfInv
  <1>8. Operations' /\ Snapshots'
    BY <1>1, <1>6, <1>7, OperationsKept, SnapshotsKept DEF ProfInv
  <1> QED  BY <1>1, <1>6, <1>8, ApplySideInv DEF ProfInv, ProfType

\* A target's state moves.
LEMMA TargetMoves ==
    ASSUME ProfInv, NEW o \in DOMAIN applies, NEW t \in Hosts, NEW to \in {"landed", "failed"},
           applies[o].state[t] = "queued", applies' = [applies EXCEPT ![o].state[t] = to],
           UNCHANGED <<libraryVars, profileVars, writing, preflight, tokens, parcelVars>>
    PROVE  applies' \in Seq(Apply) /\ Operations'
  <1> DEFINE new == [applies[o] EXCEPT !.state[t] = to]
  <1>1. applies[o] \in Apply /\ applies[o].state \in [Hosts -> {"none", "queued", "landed", "failed"}]
    BY ApplyFacts DEF ProfInv
  <1>2. /\ new \in Apply /\ new.id = applies[o].id /\ new.rev = applies[o].rev
        /\ new.pins = applies[o].pins /\ new.tokens = applies[o].tokens
        /\ \A h \in Hosts : new.state[h] # "none" => applies[o].state[h] # "none"
    BY <1>1 DEF Apply
  <1>3. applies' = [applies EXCEPT ![o] = new]
    OBVIOUS
  <1> HIDE DEF new
  <1>4. applies \in Seq(Apply) /\ DOMAIN applies = 1..Len(applies) /\ Len(applies) \in Nat
    BY DEF ProfInv, ProfType
  <1>5. /\ applies' \in Seq(Apply) /\ Len(applies') = Len(applies)
        /\ \A r \in DOMAIN applies : applies'[r] = IF r = o THEN new ELSE applies[r]
    BY <1>2, <1>3, <1>4, ExceptSeq
  <1>6. DOMAIN applies' = DOMAIN applies
    BY <1>4, <1>5
  <1>7. Evolves /\ TokensGrow
    BY StillEvolves DEF ProfInv, ProfType, TokensGrow
  <1>8. ASSUME NEW r \in DOMAIN applies
        PROVE  Operation(r)'
    BY <1>2, <1>5, <1>6, <1>7, OperationKept DEF ProfInv, Operations
  <1>9. \A r \in DOMAIN applies : applies'[r].tokens = applies[r].tokens
    BY <1>2, <1>5
  <1> QED  BY <1>5, <1>6, <1>8, <1>9 DEF ProfInv, Operations

\* A target lands or fails.
LEMMA TargetInv ==
    ASSUME ProfInv, NEW o \in DOMAIN applies, NEW t \in Hosts, TargetLands(o, t) \/ TargetFails(o, t)
    PROVE  ProfInv'
  <1>1. UNCHANGED <<libraryVars, profileVars, writing, preflight, tokens, parcelVars>>
    BY DEF TargetLands, TargetFails
  <1>2. Evolves /\ TokensGrow
    BY <1>1, StillEvolves DEF ProfInv, ProfType, TokensGrow
  <1>3. applies' \in Seq(Apply) /\ Operations'
    BY <1>1, TargetMoves DEF TargetLands, TargetFails
  <1>4. CASE TargetFails(o, t)
    <2>1. Snapshots' /\ pinned' \in [Hosts -> Snapshot]
      BY <1>2, <1>4, SnapshotsKept DEF TargetFails, ProfInv, ProfType
    <2> QED  BY <1>1, <1>2, <1>3, <2>1, ApplySideInv
  <1>5. CASE TargetLands(o, t)
    <2> DEFINE new == [source |-> "profile_apply", id |-> applies[o].id, rev |-> applies[o].rev,
                       pins |-> applies[o].pins[t]]
    <2>1. t \in DOMAIN applies[o].pins
      BY <1>5 DEF TargetLands, ProfInv, Operations, Operation
    <2>2. NamesRevision(applies[o].id, applies[o].rev, applies[o].pins[t])
      BY <2>1 DEF ProfInv, Operations, Operation
    <2>3. PICK id \in ProfileIds, rev \in Nat \ {0}, pins \in Pins :
            applies[o].id = id /\ applies[o].rev = rev /\ applies[o].pins[t] = pins
      BY <2>1, ApplyFacts DEF ProfInv
    <2>4. new \in Snapshot /\ new.source = "profile_apply" /\ new.id = id /\ new.rev = rev
          /\ new.pins = pins
      BY <2>3 DEF Snapshot
    <2> HIDE DEF new
    <2>5. pinned' = [pinned EXCEPT ![t] = new]
      BY <1>5 DEF TargetLands, new
    <2>6. pinned' \in [Hosts -> Snapshot] /\ pinned'[t] = new
          /\ \A h \in Hosts \ {t} : pinned'[h] = pinned[h]
      BY <2>4, <2>5 DEF ProfInv, ProfType
    <2>7. NamesRevision(id, rev, pins)'
      BY <1>2, <2>2, <2>3, NamedRevisionKept DEF ProfInv
    <2>8. Pinned(t)'
      BY <2>4, <2>6, <2>7 DEF Pinned
    <2>9. \A h \in Hosts \ {t} : Pinned(h)'
      BY <1>2, <2>6, SnapshotKept DEF ProfInv
    <2>10. Snapshots'
      BY <2>8, <2>9 DEF Snapshots
    <2> QED  BY <1>1, <1>2, <1>3, <2>6, <2>10, ApplySideInv
  <1> QED  BY <1>4, <1>5

\* A restore replaces a desired snapshot.
LEMMA RestoreInv ==
    ASSUME ProfInv, NEW t \in Hosts, TargetRestored(t)
    PROVE  ProfInv'
  <1>1. UNCHANGED <<libraryVars, profileVars, writing, preflight, tokens, applies, parcelVars>>
    BY DEF TargetRestored
  <1>2. Evolves /\ TokensGrow
    BY <1>1, StillEvolves DEF ProfInv, ProfType, TokensGrow
  <1> DEFINE new == [source |-> "restore", pins |-> pinned[t].pins]
  <1>3. pinned[t] \in Snapshot
    BY DEF ProfInv, ProfType
  <1>4. pinned[t].pins \in Pins
    BY <1>3 DEF Snapshot, TargetRestored
  <1>5. new \in Snapshot /\ new.source # "profile_apply"
    BY <1>4 DEF Snapshot
  <1> HIDE DEF new
  <1>6. pinned' = [pinned EXCEPT ![t] = new]
    BY DEF TargetRestored, new
  <1>7. pinned' \in [Hosts -> Snapshot] /\ pinned'[t] = new
        /\ \A h \in Hosts \ {t} : pinned'[h] = pinned[h]
    BY <1>5, <1>6 DEF ProfInv, ProfType
  <1>8. Pinned(t)'
    BY <1>5, <1>7 DEF Pinned
  <1>9. \A h \in Hosts \ {t} : Pinned(h)'
    BY <1>2, <1>7, SnapshotKept DEF ProfInv
  <1>10. Snapshots'
    BY <1>8, <1>9 DEF Snapshots
  <1>11. Operations' /\ applies' \in Seq(Apply)
    BY <1>1, <1>2, OperationsKept DEF ProfInv, ProfType
  <1> QED  BY <1>1, <1>2, <1>7, <1>10, <1>11, ApplySideInv

\* A new operation joins the others.
LEMMA OperationAdded ==
    ASSUME ProfInv, NEW new \in Apply, applies' = Append(applies, new), TokensGrow,
           DOMAIN tokens' = DOMAIN tokens,
           UNCHANGED <<libraryVars, profileVars, writing, preflight, pinned, parcelVars>>,
           \A t \in Hosts : new.state[t] # "none" => t \in DOMAIN new.pins,
           \A t \in DOMAIN new.pins : NamesRevision(new.id, new.rev, new.pins[t]),
           \A i \in new.tokens : i \in DOMAIN tokens /\ ~tokens[i].used /\ tokens'[i].used
    PROVE  ProfInv'
  <1>1. applies \in Seq(Apply) /\ DOMAIN applies = 1..Len(applies) /\ Len(applies) \in Nat
    BY DEF ProfInv, ProfType
  <1>2. PICK n \in Nat : n = Len(applies) + 1
    BY <1>1
  <1>3. /\ applies' \in Seq(Apply) /\ DOMAIN applies' = DOMAIN applies \cup {n} /\ n \notin DOMAIN applies
        /\ applies'[n] = new /\ \A o \in DOMAIN applies : applies'[o] = applies[o]
    BY <1>1, <1>2
  <1>4. Evolves
    BY StillEvolves DEF ProfInv
  <1>5. \A o \in DOMAIN applies : Operation(o)'
    BY <1>3, <1>4, OperationKept DEF ProfInv, Operations
  <1>6. Operation(n)'
    <2>1. ASSUME NEW t \in DOMAIN new.pins
          PROVE  NamesRevision(new.id, new.rev, new.pins[t])'
      <3>1. new.id \in ProfileIds /\ new.rev \in Nat \ {0}
        BY DEF Apply
      <3> QED  BY <1>4, <3>1, NamedRevisionKept DEF ProfInv
    <2> QED  BY <1>3, <2>1 DEF Operation
  <1>7. ASSUME NEW o \in DOMAIN applies
        PROVE  applies[o].tokens \cap new.tokens = {}
    BY DEF ProfInv, Operations, Operation
  <1>8. Operations'
    BY <1>3, <1>5, <1>6, <1>7 DEF ProfInv, Operations
  <1>9. Snapshots' /\ pinned' \in [Hosts -> Snapshot]
    BY <1>4, SnapshotsKept DEF ProfInv, ProfType
  <1> QED  BY <1>3, <1>8, <1>9, ApplySideInv

\* CreateProfileSkillApplyOperation: valid confirmations hold the pins of the current revision.
LEMMA ApplyInv ==
    ASSUME ProfInv, NEW p \in ProfileIds, NEW set \in SUBSET DOMAIN tokens,
           CreateProfileSkillApplyOperation(p, set)
    PROVE  ProfInv'
  <1> DEFINE hosts   == {tokens[i].host : i \in set}
             want(t) == CHOOSE i \in set : tokens[i].host = t
             pins    == [t \in hosts |-> tokens[want(t)].pins]
             state   == [t \in Hosts |-> IF t \in hosts THEN "queued" ELSE "none"]
             new     == [id |-> p, rev |-> profiles[p].rev, tokens |-> set, pins |-> pins,
                         state |-> state]
  <1>1. /\ profiles[p].rev > 0
        /\ \A i \in set : TokenValid(i, p)
        /\ applies' = Append(applies, new)
        /\ tokens' = [i \in DOMAIN tokens |->
             IF i \in set THEN [tokens[i] EXCEPT !.used = TRUE] ELSE tokens[i]]
        /\ UNCHANGED <<libraryVars, profileVars, writing, preflight, pinned, parcelVars>>
    BY DEF CreateProfileSkillApplyOperation
  <1>2. tokens \in Seq(Token) /\ DOMAIN tokens = 1..Len(tokens) /\ Len(tokens) \in Nat
    BY DEF ProfInv, ProfType
  <1>3. \A i \in DOMAIN tokens : tokens[i] \in Token /\ tokens[i].pins \in Pins /\ tokens[i].host \in Hosts
    BY TokenFacts DEF ProfInv
  <1>4. TokensGrow /\ DOMAIN tokens' = DOMAIN tokens /\ \A i \in set : tokens'[i].used
    <2>1. ASSUME NEW i \in DOMAIN tokens
          PROVE  /\ tokens'[i] \in Token /\ tokens'[i].id = tokens[i].id
                 /\ tokens'[i].rev = tokens[i].rev /\ tokens'[i].pins = tokens[i].pins
                 /\ tokens[i].used => tokens'[i].used
                 /\ i \in set => tokens'[i].used
      <3> DEFINE used == [tokens[i] EXCEPT !.used = TRUE]
      <3>1. used \in Token /\ used.id = tokens[i].id /\ used.rev = tokens[i].rev
            /\ used.pins = tokens[i].pins /\ used.used = TRUE
        BY <1>3 DEF Token
      <3>2. tokens'[i] = IF i \in set THEN used ELSE tokens[i]
        BY <1>1
      <3> HIDE DEF used
      <3> QED  BY <1>3, <3>1, <3>2
    <2>2. DOMAIN tokens' = 1..Len(tokens)
      BY <1>1, <1>2
    <2>3. tokens' \in [1..Len(tokens) -> Token]
      BY <1>1, <1>2, <2>1, <2>2
    <2>4. tokens' \in Seq(Token)
      BY <1>2, <2>3, SeqDef
    <2>5. Len(tokens') = Len(tokens)
      BY <1>2, <2>2, <2>4, LenProperties
    <2> QED  BY <1>2, <2>1, <2>2, <2>4, <2>5 DEF TokensGrow
  <1>5. \A t \in hosts : want(t) \in set /\ tokens[want(t)].host = t
    OBVIOUS
  <1>6. hosts \subseteq Hosts /\ pins \in [hosts -> Pins]
    <2>1. \A t \in hosts : tokens[want(t)].pins \in Pins
      BY <1>3, <1>5
    <2> HIDE DEF want
    <2> QED  BY <1>3, <2>1
  <1>7. profiles[p].rev \in Nat \ {0} /\ set \in SUBSET Nat
    BY <1>1, <1>2, RowFacts DEF ProfInv
  <1>8. state \in [Hosts -> {"none", "queued", "landed", "failed"}]
        /\ \A t \in Hosts : state[t] # "none" => t \in hosts
    OBVIOUS
  <1>9. \A t \in hosts : NamesRevision(p, profiles[p].rev, pins[t])
    <2> SUFFICES ASSUME NEW t \in hosts
                 PROVE  NamesRevision(p, profiles[p].rev, pins[t])
      OBVIOUS
    <2>1. PICK i \in set : i = want(t)
      BY <1>5
    <2>2. pins[t] = tokens[i].pins
      BY <2>1
    <2>3. tokens[i].id = p /\ tokens[i].rev = profiles[p].rev
      BY <1>1 DEF TokenValid
    <2>4. Current(p, profiles[p].rev, tokens[i].pins)
      BY <2>3 DEF ProfInv, Confirmations, Confirmation
    <2>5. p \in reborn \/ tokens[i].pins = profiles[p].pins
      BY <1>1, <1>7, <2>4 DEF Current
    <2>6. revisions[p][profiles[p].rev] = profiles[p].pins
      BY <1>1 DEF ProfInv, Revised
    <2>7. Confirmed(p)
      BY <2>3 DEF Confirmed
    <2> HIDE DEF pins
    <2> QED  BY <1>7, <2>2, <2>5, <2>6, <2>7 DEF NamesRevision
  <1> HIDE DEF hosts, pins, state
  <1>10. new \in Apply
    <2>1. pins \in UNION {[s -> Pins] : s \in SUBSET Hosts}
      BY <1>6
    <2> QED  BY <1>7, <1>8, <2>1 DEF Apply
  <1>11. DOMAIN pins = hosts
    BY <1>6
  <1>12. /\ new.id = p /\ new.rev = profiles[p].rev /\ new.tokens = set /\ new.pins = pins
         /\ new.state = state
    OBVIOUS
  <1> HIDE DEF new
  <1>13. \A i \in new.tokens : i \in DOMAIN tokens /\ ~tokens[i].used /\ tokens'[i].used
    BY <1>1, <1>4, <1>12 DEF TokenValid
  <1>14. \A t \in Hosts : new.state[t] # "none" => t \in DOMAIN new.pins
    BY <1>8, <1>11, <1>12
  <1>15. \A t \in DOMAIN new.pins : NamesRevision(new.id, new.rev, new.pins[t])
    BY <1>9, <1>11, <1>12
  <1> QED  BY <1>1, <1>4, <1>10, <1>13, <1>14, <1>15, OperationAdded

\* RetryFailedTargets: the failed targets with the pins they had.
LEMMA RetryInv ==
    ASSUME ProfInv, NEW o \in DOMAIN applies, RetryFailedTargets(o)
    PROVE  ProfInv'
  <1> DEFINE failed == {t \in Hosts : applies[o].state[t] = "failed"}
             pins   == [t \in failed |-> applies[o].pins[t]]
             state  == [t \in Hosts |-> IF t \in failed THEN "queued" ELSE "none"]
             new    == [applies[o] EXCEPT !.tokens = {}, !.pins = pins, !.state = state]
  <1>1. /\ applies' = Append(applies, new)
        /\ UNCHANGED <<libraryVars, profileVars, writing, preflight, tokens, pinned, parcelVars>>
    BY DEF RetryFailedTargets
  <1>2. applies[o] \in Apply
    BY ApplyFacts DEF ProfInv
  <1>3. \A t \in failed : t \in DOMAIN applies[o].pins
    BY DEF ProfInv, Operations, Operation
  <1>4. pins \in [failed -> Pins] /\ \A t \in failed : pins[t] = applies[o].pins[t]
    BY <1>3, ApplyFacts DEF ProfInv
  <1>5. pins \in UNION {[s -> Pins] : s \in SUBSET Hosts}
    BY <1>4
  <1>6. state \in [Hosts -> {"none", "queued", "landed", "failed"}]
        /\ \A t \in Hosts : state[t] # "none" => t \in failed
    OBVIOUS
  <1> HIDE DEF failed, pins, state
  <1>7. new \in Apply /\ new.id = applies[o].id /\ new.rev = applies[o].rev /\ new.tokens = {}
        /\ new.pins = pins /\ new.state = state
    BY <1>2, <1>5, <1>6 DEF Apply
  <1> HIDE DEF new
  <1>8. TokensGrow
    BY <1>1 DEF ProfInv, ProfType, TokensGrow
  <1>9. \A t \in DOMAIN new.pins : NamesRevision(new.id, new.rev, new.pins[t])
    BY <1>3, <1>4, <1>7 DEF ProfInv, Operations, Operation
  <1>10. \A t \in Hosts : new.state[t] # "none" => t \in DOMAIN new.pins
    BY <1>4, <1>6, <1>7
  <1> QED  BY <1>1, <1>7, <1>8, <1>9, <1>10, OperationAdded

\* A step on the previews of bundles alone.
LEMMA PreviewOnly ==
    ASSUME ProfInv, parcelTokens' \in Seq(Preview),
           UNCHANGED <<libraryVars, profileVars, writing, applyVars, fingerprints, brought>>
    PROVE  ProfInv'
  BY DEF ProfInv, ProfType, Revised, Forms, Previews, Confirmations, Confirmation, Operations,
         Operation, Snapshots, Pinned, BundlesOnce, Bundle, Current, NamesRevision, Confirmed,
         libraryVars, profileVars, applyVars

\* PreviewProfileBundle.
LEMMA PreviewInv ==
    ASSUME ProfInv, NEW b \in Parcels, PreviewProfileBundle(b)
    PROVE  ProfInv'
  <1>1. PICK act \in {"new", "rename", "update", "duplicate"}, known \in SUBSET ProfileIds :
          parcelTokens' = Append(parcelTokens,
            [parcel |-> b, act |-> act, existing |-> known, used |-> FALSE])
    <2>1. fingerprints[b].rev > 0 => fingerprints[b].id \in ProfileIds
      BY DEF ProfInv, BundlesOnce, Bundle
    <2> QED  BY <2>1 DEF PreviewProfileBundle
  <1>2. [parcel |-> b, act |-> act, existing |-> known, used |-> FALSE] \in Preview
    BY DEF Preview
  <1>3. parcelTokens' \in Seq(Preview)
    BY <1>1, <1>2 DEF ProfInv, ProfType
  <1> QED  BY <1>3, PreviewOnly DEF PreviewProfileBundle

\* A preview is marked as used.
LEMMA PreviewUsed ==
    ASSUME ProfInv, NEW i \in DOMAIN parcelTokens,
           parcelTokens' = [parcelTokens EXCEPT ![i].used = TRUE]
    PROVE  parcelTokens' \in Seq(Preview)
  <1>1. parcelTokens \in Seq(Preview) /\ i \in 1..Len(parcelTokens) /\ parcelTokens[i] \in Preview
    BY DEF ProfInv, ProfType
  <1> DEFINE new == [parcelTokens[i] EXCEPT !.used = TRUE]
  <1>2. new \in Preview
    BY <1>1 DEF Preview
  <1>3. parcelTokens' = [parcelTokens EXCEPT ![i] = new]
    OBVIOUS
  <1> HIDE DEF new
  <1>4. [parcelTokens EXCEPT ![i] = new] \in Seq(Preview)
    BY <1>1, <1>2, ExceptSeq
  <1> QED  BY <1>3, <1>4

\* A bundle is saved under its fingerprint.
LEMMA ParcelInv ==
    ASSUME ProfInv, NEW i \in DOMAIN parcelTokens, NEW p \in ProfileIds, NEW name \in ProfileNames,
           NEW expected, NEW ready \in BOOLEAN, ParcelSaved(i, p, name, expected, ready)
    PROVE  ProfInv'
  <1>1. PICK b \in Parcels : parcelTokens[i].parcel = b
    <2>1. parcelTokens[i] \in Preview
      BY DEF ProfInv, ProfType
    <2> QED  BY <2>1 DEF Preview
  <1>2. b.pins \in Pins
    BY ProfileAssumption DEF Pins
  <1>3. /\ fingerprints[b].rev = 0 /\ SavedRow(p, name, b.pins, ready)
        /\ fingerprints' = [fingerprints EXCEPT ![b] = [id |-> p, rev |-> profiles'[p].rev]]
        /\ brought' = [brought EXCEPT ![b] = @ + 1]
        /\ parcelTokens' = [parcelTokens EXCEPT ![i].used = TRUE]
        /\ current' = [s \in Catalog |-> IF current[s] = 0 THEN b.pins[s] ELSE current[s]]
        /\ UNCHANGED <<writing, applyVars>>
    BY <1>1 DEF ParcelSaved, FingerprintFree, Imported, SaveProfileTx, SavedRow
  <1>4. Evolves /\ Gains(p)
    BY <1>2, <1>3, SaveEvolves DEF ProfInv
  <1>5. profiles'[p].rev \in Nat /\ profiles'[p].rev > 0
    BY <1>4, RowFacts DEF ProfInv, Gains
  <1> DEFINE print == [id |-> p, rev |-> profiles'[p].rev]
  <1>6. print \in [id : ProfileIds \cup {"none"}, rev : Nat] /\ print.id = p
        /\ print.rev = profiles'[p].rev
    BY <1>5
  <1> HIDE DEF print
  <1>7. fingerprints' = [fingerprints EXCEPT ![b] = print]
    BY <1>3 DEF print
  <1>8. /\ fingerprints' \in [Parcels -> [id : ProfileIds \cup {"none"}, rev : Nat]]
        /\ fingerprints'[b] = print /\ \A c \in Parcels \ {b} : fingerprints'[c] = fingerprints[c]
    BY <1>6, <1>7 DEF ProfInv, ProfType
  <1>9. brought[b] = 0
    BY <1>3 DEF ProfInv, BundlesOnce, Bundle
  <1>10. /\ brought' \in [Parcels -> Nat] /\ brought'[b] = 1
         /\ \A c \in Parcels \ {b} : brought'[c] = brought[c]
    BY <1>3, <1>9 DEF ProfInv, ProfType
  <1>11. current' \in Pins
    <2>1. current \in Pins
      BY DEF ProfInv, ProfType
    <2> QED  BY <1>2, <1>3, <2>1 DEF Pins
  <1>12. ProfType'
    BY <1>3, <1>4, <1>8, <1>10, <1>11, PreviewUsed DEF ProfInv, ProfType, Evolves, applyVars
  <1>13. Bundle(b)'
    BY <1>5, <1>6, <1>8, <1>10 DEF Bundle
  <1>14. \A c \in Parcels \ {b} : Bundle(c)'
    BY <1>4, <1>8, <1>10, BundleKept DEF ProfInv
  <1>15. BundlesOnce'
    BY <1>13, <1>14 DEF BundlesOnce
  <1>16. Forms'
    BY <1>3, <1>4, FormsKept DEF ProfInv
  <1> QED  BY <1>3, <1>4, <1>12, <1>15, <1>16, EvolvedInv DEF ProfInv

\* ImportProfileBundle in its three forms.
LEMMA BundleInv ==
    ASSUME ProfInv, NEW i \in DOMAIN parcelTokens,
           ImportAsNew(i) \/ ImportOverExisting(i) \/ ConfirmDuplicate(i)
    PROVE  ProfInv'
  <1>1. CASE ImportAsNew(i)
    BY <1>1, ParcelInv DEF ImportAsNew, NewIds
  <1>2. CASE ImportOverExisting(i)
    <2>1. parcelTokens[i] \in Preview
      BY DEF ProfInv, ProfType
    <2>2. PICK p \in parcelTokens[i].existing :
            /\ profiles[p].rev > 0
            /\ ParcelSaved(i, p, profiles[p].name, profiles[p].rev, profiles[p].ready)
      BY <1>2 DEF ImportOverExisting
    <2>3. p \in ProfileIds
      BY <2>1 DEF Preview
    <2>4. profiles[p] \in Row
      BY <2>2, <2>3, RowFacts DEF ProfInv
    <2>5. PICK name \in ProfileNames, rev \in Nat, ready \in BOOLEAN :
            profiles[p].name = name /\ profiles[p].rev = rev /\ profiles[p].ready = ready
      BY <2>4 DEF Row
    <2>6. ParcelSaved(i, p, name, rev, ready)
      BY <2>2, <2>5
    <2> QED  BY <2>3, <2>6, ParcelInv
  <1>3. CASE ConfirmDuplicate(i)
    BY <1>3, PreviewUsed, PreviewOnly DEF ConfirmDuplicate
  <1> QED  BY <1>1, <1>2, <1>3

\* No step disturbs ProfInv.
LEMMA ProfNextInv ==
    ASSUME ProfInv, [ProfNext]_profVars
    PROVE  ProfInv'
  <1>1. CASE UNCHANGED profVars
    BY <1>1 DEF ProfInv, ProfType, Revised, Forms, Previews, Confirmations, Confirmation, Operations,
         Operation, Snapshots, Pinned, BundlesOnce, Bundle, Current, NamesRevision, Confirmed,
         profVars, libraryVars, profileVars, applyVars, parcelVars
  <1> QED
    BY <1>1, LibraryInv, ReaderInv, WriterInv, ProfileInv, PreflightInv, ConfirmInv, ExpireInv,
       TargetInv, RestoreInv, ApplyInv, RetryInv, PreviewInv, BundleInv
    DEF ProfNext

\* The first Profile is well formed.
LEMMA ProfInitInv ==
    ASSUME ProfInit
    PROVE  ProfInv
  <1> DEFINE p    == First(ProfileIds)
             s    == First(Catalog)
             pins == [Nothing EXCEPT ![s] = 1]
             row  == [rev |-> 1, archived |-> FALSE, name |-> First(ProfileNames), pins |-> pins,
                      ready |-> TRUE]
  <1>1. p \in ProfileIds /\ s \in Catalog /\ First(ProfileNames) \in ProfileNames
    BY ProfileAssumption DEF First
  <1>2. pins \in Pins
    BY <1>1, ProfileAssumption DEF Pins, Nothing
  <1>3. row \in Row /\ row.rev = 1 /\ row.pins = pins
    BY <1>1, <1>2 DEF Row
  <1>4. /\ current = pins /\ everUsed = {p}
        /\ profiles = [q \in ProfileIds |-> IF q = p THEN row ELSE NoRow]
        /\ revisions = [q \in ProfileIds |-> IF q = p THEN <<pins>> ELSE <<>>]
    BY DEF ProfInit
  <1>5. <<pins>> \in Seq(Pins) /\ Len(<<pins>>) = 1 /\ <<pins>>[1] = pins
    BY <1>2
  <1>6. NoRow.rev = 0
    BY DEF NoRow
  <1> HIDE DEF p, s, pins, row
  <1>7. \A q \in ProfileIds : Revised(q)
    BY <1>1, <1>3, <1>4, <1>5, <1>6 DEF Revised
  <1>8. ProfType
    <2>1. <<>> \in Seq(Pins) /\ <<>> \in Seq(Token) /\ <<>> \in Seq(Apply) /\ <<>> \in Seq(Preview)
      BY EmptySeq
    <2>2. current \in Pins /\ profiles \in [ProfileIds -> Row \cup {NoRow}]
          /\ revisions \in [ProfileIds -> Seq(Pins)]
      BY <1>2, <1>3, <1>4, <1>5, <2>1
    <2>3. /\ writing \in [Writers -> Draft \cup {Idle}]
          /\ preflight \in Resolving \cup Between \cup {NoPreflight}
          /\ tokens \in Seq(Token) /\ applies \in Seq(Apply) /\ parcelTokens \in Seq(Preview)
      BY <2>1 DEF ProfInit
    <2>4. /\ pinned \in [Hosts -> Snapshot]
          /\ fingerprints \in [Parcels -> [id : ProfileIds \cup {"none"}, rev : Nat]]
          /\ brought \in [Parcels -> Nat]
      BY DEF ProfInit, Snapshot
    <2> QED  BY <2>2, <2>3, <2>4 DEF ProfType
  <1>9. DOMAIN tokens = {} /\ DOMAIN applies = {} /\ preflight.at = "none"
    BY DEF ProfInit, NoPreflight
  <1>10. Forms /\ BundlesOnce /\ Snapshots
    BY DEF ProfInit, Forms, BundlesOnce, Bundle, Snapshots, Pinned
  <1> QED  BY <1>7, <1>8, <1>9, <1>10 DEF ProfInv, Previews, Confirmations, Operations

\* What Profiles, confirmations, operations and bundles rely on, in every state.
THEOREM ProfilesInvariant == ProfSpec => []ProfInv
  <1>1. ProfInit => ProfInv
    BY ProfInitInv
  <1>2. ProfInv /\ [ProfNext]_profVars => ProfInv'
    BY ProfNextInv
  <1> QED  BY <1>1, <1>2, PTL DEF ProfSpec

\* The operation an apply creates (CreateProfileSkillApplyOperation) and the desired
\* snapshots it leaves (PinDesiredSnapshot) hold the pins of the revision they name,
\* for any number of Profiles, writers, targets, saves, purges and retries.
THEOREM AppliesDeliverRevisions == ProfSpec => []AppliedIsTheRevision
  <1>1. ProfInv => AppliedIsTheRevision
    BY DEF ProfInv, Operations, Operation, Snapshots, Pinned, NamesRevision, AppliedIsTheRevision
  <1> QED  BY <1>1, ProfilesInvariant, PTL

\* A preflight confirmation is behind one operation (it is marked in the transaction
\* that uses it) and a bundle makes one revision (the key of
\* bundle_import_fingerprints), whose Profile is never purged.
THEOREM ConfirmationsUsedOnce == ProfSpec => []ConfirmedOnce
  <1>1. ProfInv => ConfirmedOnce
    BY DEF ProfInv, ProfType, Operations, BundlesOnce, Bundle, ConfirmedOnce
  <1> QED  BY <1>1, ProfilesInvariant, PTL

\* The save of a draft replaces the revision the draft was made from.
LEMMA DraftReplacesWhatItRead ==
    ASSUME ProfInv, [ProfNext]_profVars, NEW w \in Writers, NEW p \in ProfileIds,
           writing[w] # Idle, writing'[w] = Idle, profiles[p].rev > 0,
           profiles'[p].rev = profiles[p].rev + 1
    PROVE  p \in reborn \/ writing[w].seen.pins = profiles[p].pins
  <1>1. profiles[p].rev \in Nat /\ writing \in [Writers -> Draft \cup {Idle}]
    BY RowFacts DEF ProfInv, ProfType
  <1>2. ~UNCHANGED writing /\ ~UNCHANGED profiles
    BY <1>1
  <1>3. PICK v \in Writers :
          SaveProfile(v) \/ RefreshProfile(v) \/ RestoreArchivedProfile(v) \/ CloneProfile(v)
    BY <1>2 DEF ProfNext, ImportSkill, UpdateSkillTags, ReadProfile, GiveUp, CreateProfile,
         AdoptRestoredTarget, TargetRestored, ArchiveProfile, PurgeProfile, ProfilePreflight,
         ResolveRevision, ResolvePins, CreatePreflightConfirmation, PreflightFails, TokenExpires,
         CreateProfileSkillApplyOperation, RetryFailedTargets, TargetLands, TargetFails,
         PreviewProfileBundle, ImportAsNew, ImportOverExisting, ConfirmDuplicate, ParcelSaved,
         profVars, profileVars
  <1>4. v = w
    BY <1>1, <1>3, DraftSaved
  <1>5. PICK q \in ProfileIds, name \in ProfileNames, pins \in Pins, ready \in BOOLEAN :
          /\ q = writing[w].id \/ q \notin everUsed
          /\ profiles[q].rev > 0 => writing[w].expected = profiles[q].rev
          /\ SavedRow(q, name, pins, ready)
    BY <1>3, <1>4, DraftSaved
  <1>6. p = q
    <2>1. \A r \in ProfileIds \ {q} : Keeps(r)
      BY <1>5, SaveEvolves DEF ProfInv
    <2> QED  BY <1>1, <2>1 DEF Keeps
  <1>7. p \in everUsed
    BY DEF ProfInv, Revised
  <1>8. p = writing[w].id /\ writing[w].expected = profiles[p].rev
    BY <1>5, <1>6, <1>7
  <1>9. writing[w].expected <= writing[w].seen.rev
        /\ Current(p, writing[w].seen.rev, writing[w].seen.pins)
    BY <1>8 DEF ProfInv, Forms
  <1>10. writing[w].seen.rev \in Nat
    BY <1>1 DEF Draft, Row
  <1> QED  BY <1>1, <1>8, <1>9, <1>10 DEF Current

\* A form, a refresh or a restore that is saved replaces the revision it was computed
\* from: saveProfileTx compares the revision the caller read, and numbers only grow
\* until a purge.
THEOREM SavesLoseNoUpdate == ProfSpec => NoLostUpdate
  <1>1. ProfInv /\ [ProfNext]_profVars =>
          [\A w \in Writers, p \in ProfileIds :
             writing[w] # Idle /\ writing'[w] = Idle /\ profiles[p].rev > 0
               /\ profiles'[p].rev = profiles[p].rev + 1
             => p \in reborn \/ writing[w].seen.pins = profiles[p].pins]_profVars
    BY DraftReplacesWhatItRead
  <1> QED  BY <1>1, ProfilesInvariant, PTL DEF ProfSpec, NoLostUpdate
=============================================================================
