----------------------------- MODULE ProfileApply -----------------------------
(***************************************************************************)
(* Profiles, their revisions, and how one reaches the client targets       *)
(* (internal/store/profiles.go, snapshots.go, bundles.go and their HTTP    *)
(* handlers).                                                              *)
(*                                                                         *)
(* A Profile pins Skill versions; every save makes a new revision.  Forms, *)
(* refreshes, clones and restores read the Profile in one statement and    *)
(* save it in another.  A preflight reads the revision number and the pins *)
(* of each target in two statements, asks the Bridge, and issues one-use   *)
(* tokens; an apply turns tokens into one operation, whose targets land or *)
(* fail on their own.  Bundles are imported on a preview that may be old.  *)
(***************************************************************************)
EXTENDS Naturals, Sequences, FiniteSets

CONSTANTS
    ProfileIds,     \* identities of Profiles
    ProfileNames,
    Catalog,        \* Skills
    MaxVersion,     \* bound: versions of a Skill
    Hosts,          \* client targets of the Profile's client kind
    LocalHost,      \* the local one
    Parcels,        \* Profile Bundles: [name, pins, kind]
    Writers,        \* requests that read a Profile and then save it
    ProfBudgets     \* bounds: edits, library, preflights, parcels, retries, faults

ASSUME ProfileAssumption ==
    /\ LocalHost \in Hosts
    /\ MaxVersion \in Nat \ {0}
    /\ ProfileIds # {} /\ ProfileNames # {} /\ Catalog # {}
    /\ Parcels \subseteq [name : ProfileNames, pins : [Catalog -> 0..MaxVersion],
                          kind : {"standard", "secrets"}]
    /\ ProfBudgets \subseteq [edits : Nat, library : Nat, preflights : Nat,
                              parcels : Nat, retries : Nat, faults : Nat]

VARIABLES
    current,        \* skills.current_version_id, 0 before the Skill exists
    held,           \* versions of each Skill in the Library
    required,       \* Skills tagged required
    profiles,       \* profiles: rev 0 is no row
    revisions,      \* profile_revisions: the pins of each
    writing,        \* what each writer has read and means to save
    preflight,      \* the preflight being answered
    tokens,         \* preflight_confirmations
    applies,        \* apply operations
    pinned,         \* the desired snapshot of each target
    parcelTokens,   \* bundle_import_confirmations
    fingerprints,   \* bundle_import_fingerprints: the Profile, rev of each
    brought,        \* history: revisions each bundle made
    everUsed,       \* history: ids that had a row once
    reborn,         \* history: ids that got a row again after a purge
    profLeft        \* what is left of the bounds

libraryVars == <<current, held, required>>
profileVars == <<profiles, revisions, everUsed, reborn>>
applyVars   == <<preflight, tokens, applies, pinned>>
parcelVars  == <<parcelTokens, fingerprints, brought>>
profVars    == <<libraryVars, profileVars, writing, applyVars, parcelVars, profLeft>>

Pins    == [Catalog -> 0..MaxVersion]
Nothing == [s \in Catalog |-> 0]
Members(pins) == {s \in Catalog : pins[s] # 0}
NoRow   == [rev |-> 0, archived |-> FALSE, pins |-> Nothing]
Idle    == [kind |-> "idle"]

ProfSpend(what) == /\ profLeft[what] > 0
                   /\ profLeft' = [profLeft EXCEPT ![what] = @ - 1]
-----------------------------------------------------------------------------
(* The Library *)

\* ImportSkill: the package becomes the current version of its Skill.
ImportSkill(s) ==
    /\ ProfSpend("library")
    /\ \E v \in 1..MaxVersion :
         /\ current' = [current EXCEPT ![s] = v]
         /\ held' = [held EXCEPT ![s] = @ \cup {v}]
    /\ UNCHANGED <<required, profileVars, writing, applyVars, parcelVars>>

UpdateSkillTags(s) ==
    /\ current[s] # 0
    /\ ProfSpend("library")
    /\ required' = (required \ {s}) \cup ({s} \ required)
    /\ UNCHANGED <<current, held, profileVars, writing, applyVars, parcelVars>>
-----------------------------------------------------------------------------
(* Saving a Profile *)

\* Mutant: the last writer wins.
RevisionIgnored(p, expected) == TRUE

\* Only a row that exists is compared with the revision the caller read.
RevisionMatches(p, expected) == profiles[p].rev > 0 => expected = profiles[p].rev

NameFree(p, name) ==
    \A q \in ProfileIds \ {p} : profiles[q].rev > 0 => profiles[q].name # name

\* resolveProfilePinsTx, validateRequiredSkillsTx over the Library's versions.
PinsResolve(pins, versions) ==
    /\ \A s \in Members(pins) : pins[s] \in versions[s]
    /\ required \subseteq Members(pins)

\* saveProfileTx: the next revision becomes current and archiving is undone.
SaveProfileTx(p, new, expected, restore, versions) ==
    /\ RevisionMatches(p, expected)
    /\ profiles[p].archived => restore
    /\ NameFree(p, new.name) /\ PinsResolve(new.pins, versions)
    /\ profiles' = [profiles EXCEPT ![p] =
         [rev |-> @.rev + 1, archived |-> FALSE, name |-> new.name, pins |-> new.pins,
          ready |-> new.ready]]
    /\ revisions' = [revisions EXCEPT ![p] = Append(@, new.pins)]
    /\ everUsed' = everUsed \cup {p}
    /\ reborn' = IF profiles[p].rev = 0 /\ p \in everUsed THEN reborn \cup {p} ELSE reborn

NewIds == ProfileIds \ everUsed

\* A request reads the Profile: a form shown to the operator, a refresh, a
\* restore of an archived Profile or a clone.
ReadProfile(w, p) ==
    /\ writing[w] = Idle
    /\ ProfSpend("edits")
    /\ profiles[p].rev > 0
    /\ \E kind \in {"edit", "refresh", "restore", "clone"}, expected \in 1..profiles[p].rev :
         /\ kind = "edit" => expected = profiles[p].rev
         /\ writing' = [writing EXCEPT ![w] =
              [kind |-> kind, id |-> p, expected |-> expected, seen |-> profiles[p]]]
    /\ UNCHANGED <<libraryVars, profileVars, applyVars, parcelVars>>

SavedFrom(w, p, new, restore) ==
    /\ SaveProfileTx(p, new, writing[w].expected, restore, held)
    /\ writing' = [writing EXCEPT ![w] = Idle]
    /\ UNCHANGED <<libraryVars, applyVars, parcelVars, profLeft>>

\* SaveProfile: a form comes back with other members, versions or name.  A
\* form whose Profile has been purged meanwhile creates it again.
SaveProfile(w) ==
    /\ writing[w].kind = "edit"
    /\ \E name \in ProfileNames, pins \in Pins :
         SavedFrom(w, writing[w].id, [name |-> name, pins |-> pins, ready |-> TRUE], FALSE)

\* The same members at their current versions.
RefreshProfile(w) ==
    /\ writing[w].kind = "refresh"
    /\ LET seen == writing[w].seen
           pins == [s \in Catalog |-> IF seen.pins[s] = 0 THEN 0 ELSE current[s]]
       IN  SavedFrom(w, writing[w].id, [seen EXCEPT !.pins = pins], FALSE)

RestoreArchivedProfile(w) ==
    /\ writing[w].kind = "restore"
    /\ SavedFrom(w, writing[w].id, writing[w].seen, TRUE)

CloneProfile(w) ==
    /\ writing[w].kind = "clone"
    /\ \E p \in NewIds, name \in ProfileNames :
         SavedFrom(w, p, [writing[w].seen EXCEPT !.name = name], FALSE)

\* The save is refused, or the operator leaves the form.
GiveUp(w) ==
    /\ writing[w] # Idle
    /\ writing' = [writing EXCEPT ![w] = Idle]
    /\ UNCHANGED <<libraryVars, profileVars, applyVars, parcelVars, profLeft>>

CreateProfile ==
    /\ ProfSpend("edits")
    /\ \E p \in NewIds, name \in ProfileNames, pins \in Pins :
         SaveProfileTx(p, [name |-> name, pins |-> pins, ready |-> TRUE], 0, FALSE, held)
    /\ UNCHANGED <<libraryVars, writing, applyVars, parcelVars>>

\* AdoptRestoredTarget: a Profile of what a restore pinned; its client kind
\* is unknown until the operator edits it.
AdoptRestoredTarget(t) ==
    /\ pinned[t].source = "restore"
    /\ ProfSpend("edits")
    /\ \E p \in NewIds, name \in ProfileNames :
         SaveProfileTx(p, [name |-> name, pins |-> pinned[t].pins, ready |-> FALSE], 0, FALSE, held)
    /\ UNCHANGED <<libraryVars, writing, applyVars, parcelVars>>

\* ArchiveProfile, and DeleteProfile with the revision it has just read.
ArchiveProfile(p) ==
    /\ profiles[p].rev > 0 /\ ~profiles[p].archived
    /\ ProfSpend("edits")
    /\ profiles' = [profiles EXCEPT ![p].archived = TRUE]
    /\ UNCHANGED <<libraryVars, revisions, everUsed, reborn, writing, applyVars, parcelVars>>

\* A confirmation of the Profile refuses the purge even when it is consumed
\* and expired: the query lets it pass and the foreign key does not.
Purgeable(p) ==
    /\ profiles[p].archived
    /\ \A t \in Hosts : ~(pinned[t].source = "profile_apply" /\ pinned[t].id = p)
    /\ \A i \in DOMAIN tokens : tokens[i].id # p
    /\ \A b \in Parcels : fingerprints[b].id # p
    /\ \A o \in DOMAIN applies : applies[o].id = p => "queued" \notin {applies[o].state[t] : t \in Hosts}

\* Mutant: the revision rows stay behind.
PurgeRowOnly(p) ==
    /\ Purgeable(p)
    /\ profiles' = [profiles EXCEPT ![p] = NoRow]
    /\ UNCHANGED <<libraryVars, revisions, everUsed, reborn, writing, applyVars, parcelVars, profLeft>>

PurgeProfile(p) ==
    /\ Purgeable(p)
    /\ profiles' = [profiles EXCEPT ![p] = NoRow]
    /\ revisions' = [revisions EXCEPT ![p] = <<>>]
    /\ UNCHANGED <<libraryVars, everUsed, reborn, writing, applyVars, parcelVars, profLeft>>
-----------------------------------------------------------------------------
(* Preflight and apply *)

NoPreflight == [at |-> "none"]

ProfilePreflight(p, set) ==
    /\ preflight = NoPreflight
    /\ LocalHost \in set /\ profiles[p].rev > 0 /\ profiles[p].ready
    /\ ProfSpend("preflights")
    /\ preflight' = [at |-> "revision", id |-> p, todo |-> set, shown |-> <<>>]
    /\ UNCHANGED <<libraryVars, profileVars, writing, tokens, applies, pinned, parcelVars>>

\* ResolveProfileManifest of the next target: the Profile ...
ResolveRevision ==
    /\ preflight.at = "revision"
    /\ LET row == profiles[preflight.id]
       IN  preflight' = IF row.rev = 0 \/ row.archived THEN NoPreflight
                        ELSE [at |-> "pins", id |-> preflight.id, todo |-> preflight.todo,
                              shown |-> preflight.shown, rev |-> row.rev]
    /\ UNCHANGED <<libraryVars, profileVars, writing, tokens, applies, pinned, parcelVars, profLeft>>

\* ... and the pins of what is then its current revision.
ResolvePins ==
    /\ preflight.at = "pins"
    /\ \E t \in preflight.todo :
         LET rest == preflight.todo \ {t}
         IN  preflight' =
               [at |-> IF rest = {} THEN "bridge" ELSE "revision", id |-> preflight.id,
                todo |-> rest,
                shown |-> Append(preflight.shown,
                            [host |-> t, rev |-> preflight.rev, pins |-> profiles[preflight.id].pins])]
    /\ UNCHANGED <<libraryVars, profileVars, writing, tokens, applies, pinned, parcelVars, profLeft>>

\* The Bridge answers for the next target and CreatePreflightConfirmation
\* stores the token, if the Profile still has a row.
CreatePreflightConfirmation ==
    /\ preflight.at = "bridge"
    /\ profiles[preflight.id].rev > 0
    /\ LET shown == Head(preflight.shown)
       IN  tokens' = Append(tokens, [id |-> preflight.id, host |-> shown.host, rev |-> shown.rev,
                                     pins |-> shown.pins, used |-> FALSE, expired |-> FALSE])
    /\ preflight' = IF Len(preflight.shown) = 1 THEN NoPreflight
                    ELSE [preflight EXCEPT !.shown = Tail(@)]
    /\ UNCHANGED <<libraryVars, profileVars, writing, applies, pinned, parcelVars, profLeft>>

\* An inspection, a target or the foreign key refuses; tokens issued stay.
PreflightFails ==
    /\ preflight.at = "bridge"
    /\ profiles[preflight.id].rev = 0 \/ profLeft.faults > 0
    /\ profLeft' = IF profiles[preflight.id].rev = 0 THEN profLeft
                   ELSE [profLeft EXCEPT !.faults = @ - 1]
    /\ preflight' = NoPreflight
    /\ UNCHANGED <<libraryVars, profileVars, writing, tokens, applies, pinned, parcelVars>>

TokenExpires(i) ==
    /\ ~tokens[i].expired
    /\ ProfSpend("faults")
    /\ tokens' = [tokens EXCEPT ![i].expired = TRUE]
    /\ UNCHANGED <<libraryVars, profileVars, writing, preflight, applies, pinned, parcelVars>>

Queued(t) == \E o \in DOMAIN applies : applies[o].state[t] = "queued"

\* Mutants: a used token is good again; any revision of the Profile will do.
TokenValidAgain(i, p) ==
    ~tokens[i].expired /\ tokens[i].id = p /\ tokens[i].rev = profiles[p].rev
TokenValidForProfile(i, p) ==
    ~tokens[i].used /\ ~tokens[i].expired /\ tokens[i].id = p

\* A confirmation that an apply of Profile p may still use.
TokenValid(i, p) ==
    /\ ~tokens[i].used /\ ~tokens[i].expired
    /\ tokens[i].id = p /\ tokens[i].rev = profiles[p].rev

\* CreateProfileSkillApplyOperation.  The idempotency key of a repeated
\* request is looked up after the tokens, which are used by then.
CreateProfileSkillApplyOperation(p, set) ==
    LET hosts   == {tokens[i].host : i \in set}
        want(t) == CHOOSE i \in set : tokens[i].host = t
    IN  /\ profiles[p].rev > 0 /\ ~profiles[p].archived /\ profiles[p].ready
        /\ \A i \in set : TokenValid(i, p)
        /\ Cardinality(hosts) = Cardinality(set) /\ LocalHost \in hosts
        /\ \A t \in hosts : ~Queued(t)
        /\ applies' = Append(applies,
             [id |-> p, rev |-> profiles[p].rev, tokens |-> set,
              pins |-> [t \in hosts |-> tokens[want(t)].pins],
              state |-> [t \in Hosts |-> IF t \in hosts THEN "queued" ELSE "none"]])
        /\ tokens' = [i \in DOMAIN tokens |->
             IF i \in set THEN [tokens[i] EXCEPT !.used = TRUE] ELSE tokens[i]]
        /\ UNCHANGED <<libraryVars, profileVars, writing, preflight, pinned, parcelVars, profLeft>>

\* RetryFailedTargets: the failed targets with the requests they had.
RetryFailedTargets(o) ==
    LET failed == {t \in Hosts : applies[o].state[t] = "failed"}
    IN  /\ failed # {} /\ \A t \in failed : ~Queued(t)
        /\ ProfSpend("retries")
        /\ applies' = Append(applies,
             [applies[o] EXCEPT !.tokens = {}, !.pins = [t \in failed |-> @[t]],
                !.state = [t \in Hosts |-> IF t \in failed THEN "queued" ELSE "none"]])
        /\ UNCHANGED <<libraryVars, profileVars, writing, preflight, tokens, pinned, parcelVars>>

\* The target commits and PinDesiredSnapshot records it (module SkillRoot has
\* the commit itself).
TargetLands(o, t) ==
    /\ applies[o].state[t] = "queued"
    /\ applies' = [applies EXCEPT ![o].state[t] = "landed"]
    /\ pinned' = [pinned EXCEPT ![t] =
         [source |-> "profile_apply", id |-> applies[o].id, rev |-> applies[o].rev,
          pins |-> applies[o].pins[t]]]
    /\ UNCHANGED <<libraryVars, profileVars, writing, preflight, tokens, parcelVars, profLeft>>

TargetFails(o, t) ==
    /\ applies[o].state[t] = "queued"
    /\ ProfSpend("faults")
    /\ applies' = [applies EXCEPT ![o].state[t] = "failed"]
    /\ UNCHANGED <<libraryVars, profileVars, writing, preflight, tokens, pinned, parcelVars>>

\* A restore pins the manifest of a backup, which no Profile is the source of.
TargetRestored(t) ==
    /\ pinned[t].source = "profile_apply"
    /\ ~Queued(t)
    /\ ProfSpend("faults")
    /\ pinned' = [pinned EXCEPT ![t] = [source |-> "restore", pins |-> pinned[t].pins]]
    /\ UNCHANGED <<libraryVars, profileVars, writing, preflight, tokens, applies, parcelVars>>
-----------------------------------------------------------------------------
(* Bundles *)

\* PreviewProfileBundle: what the bundle would do, decided now.
PreviewProfileBundle(b) ==
    LET named == {p \in ProfileIds : profiles[p].rev > 0 /\ profiles[p].name = b.name}
        known == IF fingerprints[b].rev > 0 THEN {fingerprints[b].id} ELSE named
        same  == \E p \in named : profiles[p].pins = b.pins
        act   == IF fingerprints[b].rev > 0 THEN "duplicate"
                 ELSE IF named = {} THEN "new"
                 ELSE IF ~same THEN "rename"
                 ELSE IF b.kind = "standard" THEN "duplicate" ELSE "update"
    IN  /\ ProfSpend("parcels")
        /\ parcelTokens' = Append(parcelTokens,
             [parcel |-> b, act |-> act, existing |-> known, used |-> FALSE])
        /\ UNCHANGED <<libraryVars, profileVars, writing, applyVars, fingerprints, brought>>

\* importSkillTx without advancing: only a new Skill gets a current version.
Imported(b) ==
    /\ held' = [s \in Catalog |-> IF b.pins[s] = 0 THEN held[s] ELSE held[s] \cup {b.pins[s]}]
    /\ current' = [s \in Catalog |-> IF current[s] = 0 THEN b.pins[s] ELSE current[s]]
    /\ UNCHANGED required

\* The primary key of bundle_import_fingerprints.
FingerprintFree(b) == fingerprints[b].rev = 0

ParcelSaved(i, p, name, expected, ready) ==
    LET b == parcelTokens[i].parcel
    IN  /\ ~parcelTokens[i].used
        /\ FingerprintFree(b)
        /\ Imported(b)
        /\ SaveProfileTx(p, [name |-> name, pins |-> b.pins, ready |-> ready], expected, FALSE, held')
        /\ fingerprints' = [fingerprints EXCEPT ![b] = [id |-> p, rev |-> profiles'[p].rev]]
        /\ brought' = [brought EXCEPT ![b] = @ + 1]
        /\ parcelTokens' = [parcelTokens EXCEPT ![i].used = TRUE]
        /\ UNCHANGED <<writing, applyVars, profLeft>>

\* ImportProfileBundle of a bundle that was new, or under another name.
ImportAsNew(i) ==
    LET b == parcelTokens[i].parcel
    IN  /\ parcelTokens[i].act \in {"new", "rename", "update"}
        /\ \E p \in NewIds, name \in ProfileNames :
             /\ parcelTokens[i].act # "new" => name # b.name
             /\ ParcelSaved(i, p, name, 0, FALSE)

\* ... over the Profile of its name, whatever that holds by now.
ImportOverExisting(i) ==
    /\ parcelTokens[i].act = "update"
    /\ \E p \in parcelTokens[i].existing :
         /\ profiles[p].rev > 0 /\ profiles[p].name = parcelTokens[i].parcel.name
         /\ ParcelSaved(i, p, profiles[p].name, profiles[p].rev, profiles[p].ready)

\* ... or of a duplicate, which only uses the token.
ConfirmDuplicate(i) ==
    /\ parcelTokens[i].act = "duplicate" /\ ~parcelTokens[i].used
    /\ parcelTokens' = [parcelTokens EXCEPT ![i].used = TRUE]
    /\ UNCHANGED <<libraryVars, profileVars, writing, applyVars, fingerprints, brought, profLeft>>
-----------------------------------------------------------------------------
\* One Profile at its first revision, of the current version of one Skill.
First(set) == CHOOSE x \in set : TRUE

ProfInit ==
    LET p    == First(ProfileIds)
        s    == First(Catalog)
        pins == [Nothing EXCEPT ![s] = 1]
    IN    /\ current = pins
          /\ held = [k \in Catalog |-> IF k = s THEN {1} ELSE {}]
          /\ required = {}
          /\ profiles = [q \in ProfileIds |-> IF q = p
               THEN [rev |-> 1, archived |-> FALSE, name |-> First(ProfileNames), pins |-> pins,
                     ready |-> TRUE]
               ELSE NoRow]
          /\ revisions = [q \in ProfileIds |-> IF q = p THEN <<pins>> ELSE <<>>]
          /\ everUsed = {p} /\ reborn = {}
          /\ writing = [w \in Writers |-> Idle]
          /\ preflight = NoPreflight /\ tokens = <<>> /\ applies = <<>>
          /\ pinned = [t \in Hosts |-> [source |-> "none"]]
          /\ parcelTokens = <<>>
          /\ fingerprints = [b \in Parcels |-> [id |-> "none", rev |-> 0]]
          /\ brought = [b \in Parcels |-> 0]
          /\ profLeft \in ProfBudgets

ProfNext ==
    \/ \E s \in Catalog : ImportSkill(s) \/ UpdateSkillTags(s)
    \/ \E w \in Writers : \/ \E p \in ProfileIds : ReadProfile(w, p)
                          \/ SaveProfile(w) \/ RefreshProfile(w) \/ GiveUp(w)
                          \/ RestoreArchivedProfile(w) \/ CloneProfile(w)
    \/ CreateProfile
    \/ \E t \in Hosts : AdoptRestoredTarget(t) \/ TargetRestored(t)
    \/ \E p \in ProfileIds : ArchiveProfile(p) \/ PurgeProfile(p)
    \/ \E p \in ProfileIds, set \in SUBSET Hosts : ProfilePreflight(p, set)
    \/ ResolveRevision \/ ResolvePins \/ CreatePreflightConfirmation \/ PreflightFails
    \/ \E i \in DOMAIN tokens : TokenExpires(i)
    \/ \E p \in ProfileIds, set \in SUBSET DOMAIN tokens :
         CreateProfileSkillApplyOperation(p, set)
    \/ \E o \in DOMAIN applies : \/ RetryFailedTargets(o)
                                 \/ \E t \in Hosts : TargetLands(o, t) \/ TargetFails(o, t)
    \/ \E b \in Parcels : PreviewProfileBundle(b)
    \/ \E i \in DOMAIN parcelTokens : \/ ImportAsNew(i) \/ ImportOverExisting(i)
                                      \/ ConfirmDuplicate(i)

ProfSpec == ProfInit /\ [][ProfNext]_profVars
-----------------------------------------------------------------------------
\* Types, and a Profile's row is its newest revision.
ProfTypeOK ==
    /\ \A s \in Catalog : held[s] \subseteq 1..MaxVersion /\ current[s] \in held[s] \cup {0}
    /\ required \subseteq Catalog
    /\ \A p \in ProfileIds : profiles[p].rev > 0 =>
         /\ Len(revisions[p]) = profiles[p].rev
         /\ revisions[p][profiles[p].rev] = profiles[p].pins
    /\ \A i \in DOMAIN tokens : tokens[i].host \in Hosts /\ tokens[i].pins \in Pins

\* An operation delivers exactly the pins of the Profile revision it names,
\* that revision still exists, and so does the one every desired snapshot of
\* an apply names: although the preflight read number and pins apart, saves,
\* archives and purges ran meanwhile, and retries come later.  (A Profile
\* created again under a purged id starts over at revision 1.)
AppliedIsTheRevision ==
    LET Names(x, pins) == x.id \notin reborn =>
            x.rev <= profiles[x.id].rev /\ revisions[x.id][x.rev] = pins
    IN  /\ \A o \in DOMAIN applies : \A t \in DOMAIN applies[o].pins :
             Names(applies[o], applies[o].pins[t])
        /\ \A t \in Hosts : pinned[t].source = "profile_apply" => Names(pinned[t], pinned[t].pins)

\* What was confirmed once is done once.  No confirmation is behind two
\* operations, however often an unanswered apply is sent again; a bundle makes at
\* most one revision, although two previews may both have found it new, and the
\* Profile it made is never purged.
ConfirmedOnce ==
    /\ \A o, r \in DOMAIN applies : o # r => applies[o].tokens \cap applies[r].tokens = {}
    /\ \A b \in Parcels : brought[b] > 0 =>
         brought[b] = 1 /\ fingerprints[b].rev <= profiles[fingerprints[b].id].rev

\* A form, a refresh or a restore never overwrites a revision it has not
\* read: the revision it replaces is the one it was computed from.
NoLostUpdate ==
    [][\A w \in Writers, p \in ProfileIds :
         writing[w] # Idle /\ writing'[w] = Idle /\ profiles[p].rev > 0
           /\ profiles'[p].rev = profiles[p].rev + 1
         => p \in reborn \/ writing[w].seen.pins = profiles[p].pins]_profVars
=============================================================================
