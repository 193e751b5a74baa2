---------------------------- MODULE MCHostWorker ----------------------------
(* One host, two task slots: enough for every pair of overlapping actions. *)
EXTENDS HostWorker, TLC
CONSTANTS h1, t1, t2

MCHosts == {h1}
MCTasks == {t1, t2}
Symmetry == Permutations(MCTasks)

(* The verdict an idle slot still shows is written over by its next task and *)
(* read by nobody: states that differ in it alone are explored once.         *)
OpenRows == [t \in Tasks |-> IF pc[t] = "idle" THEN "none" ELSE row[t]]
View == <<dbVars, hostVars, taskVars, OpenRows, orphans, pc, faults, clean>>
=============================================================================
