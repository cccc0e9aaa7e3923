-------------------------- MODULE MCTaskSupervisor --------------------------
(* Small instances of TaskSupervisor for TLC.  Tasks are interchangeable.  *)
EXTENDS TaskSupervisor, TLC

Symmetric == Permutations(Task)
=============================================================================
