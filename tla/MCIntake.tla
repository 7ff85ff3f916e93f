------------------------------ MODULE MCIntake ------------------------------
(* Instances of Intake for TLC. *)
EXTENDS Intake, TLC

Interchangeable == Permutations(Notification) \cup Permutations(Hash)
                   \cup Permutations(Client)
=============================================================================
