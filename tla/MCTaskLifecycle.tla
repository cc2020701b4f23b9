-------------------------- MODULE MCTaskLifecycle --------------------------
(* Small instances of TaskLifecycle for TLC. *)
EXTENDS TaskLifecycle, TLC

\* TAP names that never clash, and one name for every task.
OwnTap    == [t \in Task |-> t]
SharedTap == [t \in Task |-> "tap"]

TaskSymmetry    == Permutations(Task)
DeleterSymmetry == Permutations(Deleter)
=============================================================================
