------------------------------ MODULE MCBridge ------------------------------
(* Bounds for the model checking of Bridge.                                *)
EXTENDS Bridge, TLC

CONSTANTS local, salt

\* Every key is a request to the one target of its kind.
MCTargetOf == [k \in Keys |-> IF k \in SaltKeys THEN salt ELSE local]

Symmetry == Permutations(Calls)
=============================================================================
