---------------------------- MODULE MCSnapshots ----------------------------
(* Instances of Snapshots for TLC. *)
EXTENDS Snapshots, TLC

(* The runs are interchangeable. *)
MCRunSymmetry == Permutations(Runs)

(* With a jailer every call is made; without one, where the calls meet at  *)
(* the shared socket too, the runs and the delete.                         *)
MCSettings ==
    {[jailed |-> TRUE, calls |-> Calls], [jailed |-> FALSE, calls |-> Runs \cup Deletes]}

MCUnjailed == {[jailed |-> FALSE, calls |-> Calls]}
=============================================================================
