-------------------------- MODULE MCOperationQueue --------------------------
EXTENDS OperationQueue, TLC
CONSTANTS client, node, salt
MCNodeOf == [t \in Targets |-> IF t = salt THEN node ELSE NoNode]
Symmetry == Permutations(Ops) \cup Permutations(Workers)
=============================================================================
