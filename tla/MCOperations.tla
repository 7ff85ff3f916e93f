---------------------------- MODULE MCOperations ----------------------------
(* Instances of Operations for TLC. *)
EXTENDS Operations, TLC

CONSTANTS owner, root, ta, tb, tc

Owner == [r \in Request |-> owner]
OneCaller == [t \in {ta} |-> owner]
TwoAdmins == [t \in {tb, tc} |-> root]

Interchangeable == Permutations({tb, tc})
=============================================================================
