---------------------------- MODULE MCHostControl ----------------------------
EXTENDS HostControl, TLC
CONSTANTS h1, t1, t2, a1, a2

MCHosts == {h1}
MCTasks == {t1, t2}
OneTask == {t1}
NoHandlers == {}
OneHandler == {a1}
TaskSymmetry == Permutations(MCTasks)

(* The verdict an idle slot still shows is written over by its next task and *)
(* read by nobody: states that differ in it alone are explored once.         *)
OpenRows == [t \in Tasks |-> IF pc[t] = "idle" THEN "none" ELSE row[t]]
View == <<dbVars, hostVars, taskVars, OpenRows, orphans, pc, faults, clean, ctlVars>>

(* Nothing is under way.                                                     *)
Still ==
    /\ thost = [t \in Tasks |-> NoHost]
    /\ kind = [t \in Tasks |-> NoKind]
    /\ row = [t \in Tasks |-> "none"]
    /\ orphans = {}
    /\ pc = [t \in Tasks |-> "idle"]
    /\ faults = 0
    /\ user = [h \in Hosts |-> "active"]
    /\ req = [a \in Handlers |-> NoReq]
    /\ phase = "idle" /\ todo = {} /\ look = [h \in Hosts |-> "none"]
    /\ scan = [h \in Hosts |-> "none"]
    /\ ops = 0

(* A host long after its creation: it runs, it was stopped (and its user is  *)
(* late), it was stopped and unbound, or its container was removed and it    *)
(* failed.                                                                   *)
Aged(s, b, c, g, late) ==
    /\ overdue = [h \in Hosts |-> late]
    /\ status = [h \in Hosts |-> s]
    /\ bound = [h \in Hosts |-> b]
    /\ container = [h \in Hosts |-> c]
    /\ config = [h \in Hosts |-> g]
    /\ clean = [h \in Hosts |-> TRUE]
    /\ Still

RunningInit == Aged("running", TRUE, "running", TRUE, FALSE)
StoppedInit == Aged("stopped", TRUE, "stopped", FALSE, TRUE)
UnboundInit == Aged("stopped", FALSE, "stopped", FALSE, FALSE)
FailedInit  == Aged("failed", TRUE, "absent", FALSE, FALSE)

AnyInit == ControlInit \/ RunningInit \/ StoppedInit \/ UnboundInit

AnySpec      == AnyInit /\ [][ControlNext]_allVars
UpSpec       == RunningInit /\ [][ControlNext]_allVars
FairUpSpec   == UpSpec /\ Fairness
FairDownSpec == (RunningInit \/ FailedInit) /\ [][ControlNext]_allVars /\ Fairness
=============================================================================
