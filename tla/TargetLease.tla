---------------------------- MODULE TargetLease ----------------------------
(***************************************************************************)
(* What the operation queue promises about targets, without its tables,    *)
(* workers and restarts.  A step is the wish of one holder to change one   *)
(* target.  It gets the target when it is created, together with the other *)
(* steps of its holder, may be driven several times, and gives the target  *)
(* back once, for good, while nobody drives it.  At no time do two steps   *)
(* hold one target.                                                        *)
(***************************************************************************)
CONSTANTS
    Holders,    \* operations
    Targets     \* what they change

VARIABLES
    held,       \* steps that hold their target
    past,       \* steps that have given it back
    driven      \* steps somebody is driving

leaseVars == <<held, past, driven>>

Steps == Holders \X Targets

LeaseInit == held = {} /\ past = {} /\ driven = {}

\* New holders get the targets of all their steps, or nothing.
Grant(G) ==
    /\ \A g \in G, s \in held \cup past : g[1] # s[1]
    /\ \A g \in G, s \in held : g[2] # s[2]
    /\ \A g, h \in G : g[2] = h[2] => g = h
    /\ held' = held \cup G
    /\ UNCHANGED <<past, driven>>

\* One more step is driven; its target is its own.
Drive(s) ==
    /\ s \in held \ driven
    /\ driven' = driven \cup {s}
    /\ UNCHANGED <<held, past>>

\* Some steps are no longer driven, and some that are not give their target back.
Release(stop, R) ==
    /\ R \cap (driven \ stop) = {}
    /\ driven' = driven \ stop
    /\ held' = held \ R
    /\ past' = past \cup R

LeaseNext ==
    \/ \E G \in SUBSET (Steps \ (held \cup past)) : Grant(G)
    \/ \E s \in held : Drive(s)
    \/ \E stop \in SUBSET driven, R \in SUBSET held : Release(stop, R)

LeaseSpec == LeaseInit /\ [][LeaseNext]_leaseVars
=============================================================================
