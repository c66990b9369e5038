--------------------------- MODULE MCBridgeReplay ---------------------------
(***************************************************************************)
(* Bounds for the model checking of BridgeReplay.  In a calm behaviour the *)
(* Bridge stays up, the control plane stops MaxCrashes times and a replay  *)
(* has the same body; in the others either process stops, the control      *)
(* plane once.                                                             *)
(***************************************************************************)
EXTENDS BridgeReplay

CONSTANTS local, salt, h2

VARIABLE calm

\* Every key is a request to the one target of its kind.
MCTargetOf == [k \in Keys |-> IF k \in SaltKeys THEN salt ELSE local]

WithinBounds ==
    IF calm THEN restarts' = 0 /\ \A c \in Calls : hash'[c] # h2
    ELSE crashes' <= 1

MCInit == ReplayInit /\ calm \in BOOLEAN
MCNext == ReplayNext /\ WithinBounds /\ UNCHANGED calm

MCSpec == MCInit /\ [][MCNext]_<<allVars, calm>>

MCFairSpec == MCSpec /\ ReplayFairness
=============================================================================
