------------------------- MODULE HostControlProofs -------------------------
(***************************************************************************)
(* What HostWorker promises for any number of hosts, task slots and        *)
(* faults: its types, and the two agreements between hosts.status and      *)
(* docker.  And the control plane does to a host only what HostWorker      *)
(* leaves open to its callers, so whatever is proved of HostWorker holds of*)
(* the whole control plane, for any number of hosts, tasks, requests and   *)
(* faults.                                                                 *)
(***************************************************************************)
EXTENDS HostControl, TLAPS

-----------------------------------------------------------------------------
(* HostWorker.                                                             *)

(* The types of HostWorker: every step of the callers, of the worker and   *)
(* of the faults keeps each variable in its set, and a slot has a host     *)
(* exactly while a goroutine uses it.                                      *)
THEOREM Typing == Spec => []TypeOK
<1> USE DEF HasRow, Halted, HostStatus, ContainerState, Up, Kinds, NoKind, TaskStatus,
        CreateSteps, StartSteps, StopSteps, RebuildSteps, PrepareSteps, ActionSteps,
        ReportSteps, Steps, Open
<1>1. Init => TypeOK
  BY WorkerAssumption DEF Init, TypeOK
<1>2. TypeOK /\ [Next]_vars => TypeOK'
  <2> SUFFICES ASSUME TypeOK, [Next]_vars PROVE TypeOK'
    OBVIOUS
  <2> USE WorkerAssumption DEF Goto, Disturb, Fault, dbVars, hostVars, taskVars, rowVars
  <2>1. ASSUME NEW t \in Tasks, NEW p \in Steps \ {"idle"}, NEW q \in Steps \ {"idle"}, Look(t, p, q)
        PROVE  TypeOK'
    BY <2>1 DEF TypeOK, Look
  <2>2. ASSUME NEW t \in Tasks, NEW p \in Steps \ {"idle"}, NEW q \in Steps \ {"idle"},
               NEW c \in ContainerState, SetContainer(t, p, q, c)
        PROVE  TypeOK'
    BY <2>2 DEF TypeOK, SetContainer
  <2>3. ASSUME NEW t \in Tasks, NEW p \in Steps \ {"idle"}, NEW q \in Steps \ {"idle"},
               NEW b \in BOOLEAN, SetConfig(t, p, q, b)
        PROVE  TypeOK'
    BY <2>3 DEF TypeOK, SetConfig
  <2>4. ASSUME NEW t \in Tasks, NEW h \in Hosts, NEW k \in Kinds, QueueHostAction(t, h, k)
        PROVE  TypeOK'
    BY <2>4 DEF TypeOK, QueueHostAction
  <2>5. ASSUME NEW t \in Tasks, Dispatch(t)  PROVE  TypeOK'
    BY <2>5 DEF TypeOK, Dispatch, FirstStep
  <2>6. ASSUME NEW t \in Tasks, ActionStep(t)  PROVE  TypeOK'
    <3>1. CASE Validate(t)
      BY <3>1, <2>1 DEF Validate
    <3>2. CASE Exists(t)
      BY <3>2, <2>1 DEF Exists
    <3>3. CASE StartGateway(t)
      BY <3>3, <2>1, <2>3 DEF StartGateway
    <3>4. CASE DockerStart(t)
      BY <3>4, <2>1, <2>2 DEF DockerStart, Started
    <3>5. CASE WaitForSSH(t)
      BY <3>5, <2>1 DEF WaitForSSH
    <3>6. CASE RemoveOld(t)
      BY <3>6, <2>2 DEF RemoveOld
    <3>7. CASE CreateGateway(t)
      BY <3>7, <2>1, <2>3 DEF CreateGateway
    <3>8. CASE DockerCreate(t)
      BY <3>8, <2>1, <2>2 DEF DockerCreate
    <3>9. CASE DockerStartCreated(t)
      BY <3>9, <2>1, <2>2 DEF DockerStartCreated, Started
    <3>10. CASE WaitForSSHCreated(t)
      BY <3>10, <2>1 DEF WaitForSSHCreated, AfterCreate
    <3>11. CASE UndoGateway(t)
      BY <3>11, <2>3 DEF UndoGateway
    <3>12. CASE DockerStop(t)
      BY <3>12, <2>1, <2>2 DEF DockerStop, AfterStop, Stopped, TypeOK
    <3>13. CASE StopCleanup(t)
      BY <3>13, <2>3 DEF StopCleanup, AfterStop
    <3>14. CASE RebuildRemove(t)
      BY <3>14, <2>2 DEF RebuildRemove
    <3>15. CASE RebuildCleanup(t)
      BY <3>15, <2>3 DEF RebuildCleanup
    <3>16. CASE CheckRunning(t)
      BY <3>16, <2>1 DEF CheckRunning
    <3>17. CASE Reapply(t)
      BY <3>17, <2>1 DEF Reapply
    <3> QED
      BY <2>6, <3>1, <3>2, <3>3, <3>4, <3>5, <3>6, <3>7, <3>8, <3>9, <3>10, <3>11,
         <3>12, <3>13, <3>14, <3>15, <3>16, <3>17 DEF ActionStep
  <2>7. ASSUME NEW t \in Tasks, ErrStop(t) \/ ErrHost(t) \/ OkHost(t) \/ FinishTask(t)
        PROVE  TypeOK'
    <3>1. CASE ErrStop(t)
      BY <3>1 DEF ErrStop, SetContainer, Stopped, TypeOK
    <3>2. CASE ErrHost(t)
      BY <3>2 DEF ErrHost, SetStatus, TypeOK
    <3>3. CASE OkHost(t)
      BY <3>3 DEF OkHost, SetStatus, TypeOK
    <3>4. CASE FinishTask(t)
      BY <3>4 DEF FinishTask, Leave, Verdict, TypeOK
    <3> QED
      BY <2>7, <3>1, <3>2, <3>3, <3>4
  <2>8. ASSUME NEW t \in Tasks, TaskFault(t)  PROVE  TypeOK'
    <3>1. CASE CommandFails(t)
      BY <3>1 DEF CommandFails, MayFail, OnError, Undoing, TypeOK
    <3>2. CASE ErrStopFails(t)
      BY <3>2 DEF ErrStopFails, TypeOK
    <3>3. CASE StatusWriteLost(t)
      BY <3>3 DEF StatusWriteLost, TypeOK
    <3>4. CASE RowWriteLost(t)
      BY <3>4 DEF RowWriteLost, FirstStep, Leave, TypeOK
    <3>5. CASE Panic(t)
      BY <3>5 DEF Panic, Undoing, TypeOK
    <3>6. CASE DispatchLost(t)
      BY <3>6 DEF DispatchLost, Leave, TypeOK
    <3>7. CASE ClientTimeout(t)
      BY <3>7 DEF ClientTimeout, Undoing, Leave, TypeOK
    <3>8. CASE InspectMisread(t)
      BY <3>8 DEF InspectMisread, AfterStop, TypeOK
    <3> QED
      BY <2>8, <3>1, <3>2, <3>3, <3>4, <3>5, <3>6, <3>7, <3>8 DEF TaskFault
  <2>9. ASSUME Restart  PROVE  TypeOK'
    BY <2>9 DEF Restart, Undoing, Quiet, TypeOK
  <2>10. ASSUME NEW h \in Hosts, ContainerLost(h) \/ ContainerDies(h) \/ DockerRetries(h)
         PROVE  TypeOK'
    <3>1. CASE ContainerLost(h)
      BY <3>1 DEF ContainerLost, TypeOK
    <3>2. CASE ContainerDies(h)
      BY <3>2 DEF ContainerDies, TypeOK
    <3>3. CASE DockerRetries(h)
      BY <3>3 DEF DockerRetries, TypeOK
    <3> QED
      BY <2>10, <3>1, <3>2, <3>3
  <2>11. ASSUME (\E t \in Tasks : MarkStale(t)) \/ (\E h \in Hosts : MarkStaleOrphans(h))
         PROVE  TypeOK'
    BY <2>11 DEF MarkStale, MarkStaleOrphans, TypeOK
  <2>12. ASSUME NEW h \in Hosts,
                \/ QueueRefused(h) \/ InsertHost(h) \/ UpsertExisting(h)
                \/ RemoveContainer(h) \/ DeleteRow(h) \/ RecordDrift(h)
                \/ \E b \in BOOLEAN : SetBinding(h, b)
         PROVE  TypeOK'
    <3>1. CASE QueueRefused(h)
      BY <3>1 DEF QueueRefused, TypeOK
    <3>2. CASE InsertHost(h) \/ UpsertExisting(h)
      BY <3>2 DEF InsertHost, UpsertExisting, TypeOK
    <3>3. CASE RemoveContainer(h)
      BY <3>3 DEF RemoveContainer, TypeOK
    <3>4. CASE RecordDrift(h)
      BY <3>4 DEF RecordDrift, SetStatus, Quiet, TypeOK
    <3>5. CASE \E b \in BOOLEAN : SetBinding(h, b)
      BY <3>5 DEF SetBinding, TypeOK
    <3>6. CASE DeleteRow(h)
      BY <3>6 DEF DeleteRow, TypeOK
    <3> QED
      BY <2>12, <3>1, <3>2, <3>3, <3>4, <3>5, <3>6
  <2>13. ASSUME CallerFails  PROVE  TypeOK'
    BY <2>13 DEF CallerFails, TypeOK
  <2>14. ASSUME UNCHANGED vars  PROVE  TypeOK'
    <3>1. /\ UNCHANGED <<status, bound, container, config, thost, kind, row, orphans>>
          /\ UNCHANGED <<pc, faults, clean>>
      BY <2>14 DEF vars
    <3> QED
      BY <3>1 DEF TypeOK
  <2>15. CASE Next
    <3>1. ASSUME NEW t \in Tasks, WorkerStep(t) \/ TaskFault(t) \/ MarkStale(t)
          PROVE  TypeOK'
      BY <3>1, <2>5, <2>6, <2>7, <2>8, <2>11 DEF WorkerStep
    <3>2. ASSUME Caller  PROVE  TypeOK'
      BY <3>2, <2>4, <2>12, <2>13 DEF Caller
    <3> QED
      BY <2>15, <3>1, <3>2, <2>9, <2>10, <2>11 DEF Next
  <2> QED
    BY <2>14, <2>15
<1>3. QED
  BY <1>1, <1>2, PTL DEF Spec

-----------------------------------------------------------------------------
(* The inductive invariant behind HaltedIsDown and RunningIsUp.  Four      *)
(* lemmas say what is left to show for a step of one task, for a step of   *)
(* no task, for a task that leaves and for a new task.                     *)

(* A goroutine past "idle" works on a host: the slot is never empty then. *)
LEMMA HostOfTask ==
  ASSUME TypeOK, NEW t \in Tasks, pc[t] # "idle"
  PROVE  thost[t] \in Hosts
BY WorkerAssumption DEF TypeOK

(* A step of task t that touches nothing but t and its host.               *)
TaskOnly(t, h) ==
    /\ thost' = thost /\ kind' = kind
    /\ \E p \in Steps \ {"idle"} : pc' = [pc EXCEPT ![t] = p]
    /\ \A g \in Hosts : clean'[g] => clean[g]
    /\ \A g \in Hosts \ {h} : /\ status'[g] = status[g]
                              /\ container'[g] = container[g]
                              /\ config'[g] = config[g]

(* After a step of t it is enough to know again what t knows: the other    *)
(* hosts did not change, and a clean host has no other task.               *)
LEMMA TaskStep ==
  ASSUME TypeOK, Agreement, NEW t \in Tasks, NEW h \in Hosts, thost[t] = h,
         TaskOnly(t, h), KindAt(t)', clean'[h] => Knows(t, h)'
  PROVE  Agreement'
<1>1. ASSUME NEW u \in Tasks  PROVE  KindAt(u)'
  <2>1. CASE u = t
    BY <2>1
  <2>2. CASE u # t
    BY <2>2, <1>1 DEF TypeOK, Agreement, TaskOnly, KindAt
  <2> QED
    BY <2>1, <2>2
<1>2. ASSUME NEW g \in Hosts, clean'[g]
      PROVE  /\ Quiet(g)' => Agree(g)'
             /\ \A u \in Tasks : thost'[u] = g => Knows(u, g)'
             /\ \A u, v \in Tasks : thost'[u] = g /\ thost'[v] = g => u = v
  <2>1. /\ clean[g] /\ thost' = thost /\ kind' = kind
        /\ \A u \in Tasks \ {t} : pc'[u] = pc[u]
    BY <1>2 DEF TaskOnly, TypeOK
  <2>2. \A u, v \in Tasks : thost[u] = g /\ thost[v] = g => u = v
    BY <2>1 DEF Agreement
  <2>3. CASE g = h
    BY <2>1, <2>2, <2>3, <1>2 DEF Quiet
  <2>4. CASE g # h
    <3>1. status'[g] = status[g] /\ container'[g] = container[g] /\ config'[g] = config[g]
      BY <2>4 DEF TaskOnly
    <3>2. Quiet(g)' => Agree(g)'
      BY <2>1, <3>1 DEF Agreement, Quiet, Agree
    <3>3. ASSUME NEW u \in Tasks, thost'[u] = g  PROVE  Knows(u, g)'
      <4>1. Knows(u, g) /\ u # t
        BY <3>3, <2>1, <2>4 DEF Agreement
      <4> QED
        BY <4>1, <2>1, <3>1 DEF Knows, Agree
    <3> QED
      BY <2>1, <2>2, <3>2, <3>3
  <2> QED
    BY <2>3, <2>4
<1> QED
  BY <1>1, <1>2 DEF Agreement

(* A step no task makes: what it does to a host must not contradict what   *)
(* the tasks of that host know.                                            *)
LEMMA WorldStep ==
  ASSUME TypeOK, Agreement, thost' = thost, kind' = kind, pc' = pc,
         \A h \in Hosts : clean'[h] =>
            /\ clean[h]
            /\ Quiet(h) /\ Agree(h) => Agree(h)'
            /\ \A t \in Tasks : thost[t] = h /\ Knows(t, h) => Knows(t, h)'
  PROVE  Agreement'
<1>1. \A t \in Tasks : KindAt(t)'
  BY DEF Agreement, KindAt
<1>2. ASSUME NEW h \in Hosts, clean'[h]
      PROVE  /\ Quiet(h)' => Agree(h)'
             /\ \A t \in Tasks : thost'[t] = h => Knows(t, h)'
             /\ \A t, u \in Tasks : thost'[t] = h /\ thost'[u] = h => t = u
  BY <1>2 DEF Agreement, Quiet
<1> QED
  BY <1>1, <1>2 DEF Agreement

(* The goroutine of t ends and leaves an agreeing host behind.             *)
LEMMA LeaveStep ==
  ASSUME TypeOK, Agreement, NEW t \in Tasks, NEW h \in Hosts, thost[t] = h,
         thost' = [thost EXCEPT ![t] = NoHost],
         kind' = [kind EXCEPT ![t] = NoKind],
         pc' = [pc EXCEPT ![t] = "idle"],
         \A g \in Hosts : clean'[g] => clean[g],
         \A g \in Hosts \ {h} : /\ status'[g] = status[g]
                                /\ container'[g] = container[g]
                                /\ config'[g] = config[g],
         clean'[h] => Agree(h)'
  PROVE  Agreement'
<1>1. ASSUME NEW u \in Tasks  PROVE  KindAt(u)'
  <2>1. CASE u = t
    BY <2>1 DEF TypeOK, KindAt, StartSteps, RebuildSteps, PrepareSteps, StopSteps, CreateSteps
  <2>2. CASE u # t
    BY <2>2, <1>1 DEF TypeOK, Agreement, KindAt
  <2> QED
    BY <2>1, <2>2
<1>2. ASSUME NEW g \in Hosts, clean'[g]
      PROVE  /\ Quiet(g)' => Agree(g)'
             /\ \A u \in Tasks : thost'[u] = g => Knows(u, g)'
             /\ \A u, v \in Tasks : thost'[u] = g /\ thost'[v] = g => u = v
  <2>1. \A u, v \in Tasks : thost[u] = g /\ thost[v] = g => u = v
    BY <1>2 DEF Agreement
  <2>2. /\ clean[g] /\ NoHost # g
        /\ thost'[t] = NoHost
        /\ \A u \in Tasks \ {t} : pc'[u] = pc[u] /\ thost'[u] = thost[u] /\ kind'[u] = kind[u]
    BY <1>2, WorkerAssumption DEF TypeOK
  <2>3. CASE g = h
    BY <2>1, <2>2, <2>3, <1>2
  <2>4. CASE g # h
    <3>1. status'[g] = status[g] /\ container'[g] = container[g] /\ config'[g] = config[g]
      BY <2>4
    <3>2. Quiet(g)' => Agree(g)'
      BY <2>2, <2>4, <3>1, <1>2 DEF Agreement, Quiet, Agree
    <3>3. ASSUME NEW u \in Tasks, thost'[u] = g  PROVE  Knows(u, g)'
      <4>1. Knows(u, g) /\ u # t
        BY <3>3, <2>2, <2>4 DEF Agreement
      <4> QED
        BY <4>1, <2>2, <3>1 DEF Knows, Agree
    <3> QED
      BY <2>1, <2>2, <3>2, <3>3
  <2> QED
    BY <2>3, <2>4
<1> QED
  BY <1>1, <1>2 DEF Agreement

(* What a step of task t at host h has to establish.                       *)
Moves(t, h) == TaskOnly(t, h) /\ KindAt(t)' /\ (clean'[h] => Knows(t, h)')

(* Every command of an action, and every failure the goroutine survives,   *)
(* leaves the task with what its next step relies on: the heart of the     *)
(* argument, one case per function of worker.go.                           *)
LEMMA TaskMoves ==
  ASSUME TypeOK, TypeOK', Agreement, NEW t \in Tasks, NEW h \in Hosts, thost[t] = h,
         \/ Dispatch(t) \/ Validate(t) \/ Exists(t) \/ StartGateway(t)
         \/ DockerStart(t) \/ WaitForSSH(t) \/ RemoveOld(t)
         \/ CreateGateway(t) \/ DockerCreate(t) \/ DockerStartCreated(t)
         \/ WaitForSSHCreated(t) \/ UndoGateway(t) \/ DockerStop(t)
         \/ StopCleanup(t) \/ RebuildRemove(t) \/ RebuildCleanup(t)
         \/ CheckRunning(t) \/ Reapply(t) \/ ErrStop(t) \/ ErrHost(t)
         \/ OkHost(t) \/ CommandFails(t) \/ InspectMisread(t)
         \/ ErrStopFails(t) \/ StatusWriteLost(t) \/ Panic(t)
  PROVE  Moves(t, h)
<1> USE DEF Moves, TaskOnly, KindAt, Knows, Agree, Goto, Disturb, Fault,
        dbVars, hostVars, taskVars, rowVars, HasRow, Halted, Up, Kinds, NoKind,
        CreateSteps, StartSteps, StopSteps, RebuildSteps, PrepareSteps, ActionSteps,
        ReportSteps, Steps
<1>1. /\ status \in [Hosts -> HostStatus] /\ container \in [Hosts -> ContainerState]
      /\ config \in [Hosts -> BOOLEAN] /\ clean \in [Hosts -> BOOLEAN]
      /\ pc \in [Tasks -> Steps] /\ kind \in [Tasks -> Kinds \cup {NoKind}]
      /\ KindAt(t) /\ (clean[h] => Knows(t, h))
  BY DEF TypeOK, Agreement
<1>2. CASE Dispatch(t)
  BY <1>1, <1>2 DEF Dispatch, FirstStep
<1>3. CASE Validate(t)
  BY <1>1, <1>3 DEF Validate, Look
<1>4. CASE Exists(t)
  BY <1>1, <1>4 DEF Exists, Look
<1>5. CASE StartGateway(t)
  BY <1>1, <1>5 DEF StartGateway, Look, SetConfig
<1>6. CASE DockerStart(t)
  BY <1>1, <1>6 DEF DockerStart, Look, SetContainer, Started
<1>7. CASE WaitForSSH(t)
  BY <1>1, <1>7 DEF WaitForSSH, Look
<1>8. CASE RemoveOld(t)
  BY <1>1, <1>8 DEF RemoveOld, SetContainer
<1>9. CASE CreateGateway(t)
  BY <1>1, <1>9 DEF CreateGateway, Look, SetConfig
<1>10. CASE DockerCreate(t)
  BY <1>1, <1>10 DEF DockerCreate, Look, SetContainer
<1>11. CASE DockerStartCreated(t)
  BY <1>1, <1>11 DEF DockerStartCreated, Look, SetContainer, Started
<1>12. CASE WaitForSSHCreated(t)
  BY <1>1, <1>12 DEF WaitForSSHCreated, Look, AfterCreate
<1>13. CASE UndoGateway(t)
  BY <1>1, <1>13 DEF UndoGateway, SetConfig
<1>14. CASE DockerStop(t)
  BY <1>1, <1>14 DEF DockerStop, Look, SetContainer, AfterStop, Stopped
<1>15. CASE StopCleanup(t)
  BY <1>1, <1>15 DEF StopCleanup, SetConfig, AfterStop
<1>16. CASE RebuildRemove(t)
  BY <1>1, <1>16 DEF RebuildRemove, SetContainer
<1>17. CASE RebuildCleanup(t)
  BY <1>1, <1>17 DEF RebuildCleanup, SetConfig
<1>18. CASE CheckRunning(t)
  BY <1>1, <1>18 DEF CheckRunning, Look
<1>19. CASE Reapply(t)
  BY <1>1, <1>19 DEF Reapply, Look
<1>20. CASE ErrStop(t)
  BY <1>1, <1>20 DEF ErrStop, SetContainer, Stopped
<1>21. CASE ErrHost(t)
  BY <1>1, <1>21 DEF ErrHost, SetStatus
<1>22. CASE OkHost(t)
  BY <1>1, <1>22 DEF OkHost, SetStatus
<1>23. CASE CommandFails(t)
  BY <1>1, <1>23 DEF CommandFails, MayFail, OnError, Undoing
<1>24. CASE ErrStopFails(t)
  BY <1>1, <1>24 DEF ErrStopFails
<1>25. CASE StatusWriteLost(t)
  BY <1>1, <1>25 DEF StatusWriteLost
<1>26. CASE Panic(t)
  BY <1>1, <1>26 DEF Panic, Undoing
<1>27. CASE InspectMisread(t)
  <2>1. pc[t] \in {"exists", "rm", "rmold", "stop"}
    BY <1>27 DEF InspectMisread
  <2>2. CASE pc[t] = "exists"
    BY <1>1, <1>27, <2>2 DEF InspectMisread
  <2>3. CASE pc[t] = "rm"
    BY <1>1, <1>27, <2>3 DEF InspectMisread
  <2>4. CASE pc[t] = "rmold"
    BY <1>1, <1>27, <2>4 DEF InspectMisread
  <2>5. CASE pc[t] = "stop"
    BY <1>1, <1>27, <2>5 DEF InspectMisread, AfterStop
  <2> QED
    BY <2>1, <2>2, <2>3, <2>4, <2>5
<1> QED
  BY <1>2, <1>3, <1>4, <1>5, <1>6, <1>7, <1>8, <1>9, <1>10, <1>11, <1>12, <1>13, <1>14,
     <1>15, <1>16, <1>17, <1>18, <1>19, <1>20, <1>21, <1>22, <1>23, <1>24, <1>25, <1>26, <1>27

(* Execute and the dispatcher as a whole, with the ways a goroutine ends:  *)
(* the last row write, a lost one, a lost dispatch, a cancelled context.   *)
LEMMA WorkerKeepsAgreement ==
  ASSUME TypeOK, TypeOK', Agreement, NEW t \in Tasks, WorkerStep(t) \/ TaskFault(t)
  PROVE  Agreement'
<1>1. pc[t] # "idle"
  BY DEF WorkerStep, TaskFault, Dispatch, ActionStep, Validate, Exists, StartGateway,
     DockerStart, WaitForSSH, RemoveOld, CreateGateway, DockerCreate, DockerStartCreated,
     WaitForSSHCreated, UndoGateway, DockerStop, StopCleanup, RebuildRemove, RebuildCleanup,
     CheckRunning, Reapply, ErrStop, ErrHost, OkHost, FinishTask, CommandFails, InspectMisread,
     ErrStopFails, StatusWriteLost, RowWriteLost, Panic, DispatchLost, ClientTimeout, Look, SetContainer,
     SetConfig, MayFail, ActionSteps, CreateSteps, StartSteps, StopSteps, RebuildSteps,
     PrepareSteps, ReportSteps
<1>h. PICK h \in Hosts : thost[t] = h
  BY <1>1, HostOfTask
<1>2. KindAt(t) /\ (clean[h] => Knows(t, h))
  BY <1>h DEF Agreement
<1>3. CASE \/ WorkerStep(t) /\ ~FinishTask(t)
           \/ CommandFails(t) \/ InspectMisread(t) \/ ErrStopFails(t)
           \/ StatusWriteLost(t) \/ Panic(t)
  <2>1. Moves(t, h)
    BY <1>2, <1>3, <1>h, TaskMoves DEF WorkerStep, ActionStep
  <2> QED
    BY <2>1, <1>2, <1>h, TaskStep DEF Moves
<1>4. CASE FinishTask(t)
  <2>1. clean'[h] => Agree(h)'
    BY <1>2, <1>4, <1>h DEF FinishTask, Knows, Agree, Halted, Up, dbVars, hostVars,
       PrepareSteps
  <2> QED
    BY <2>1, <1>2, <1>4, <1>h, LeaveStep
       DEF FinishTask, Leave, Goto, dbVars, hostVars
<1>5. CASE RowWriteLost(t)
  <2>1. CASE pc[t] = "queued" /\ ~Remote /\ Goto(t, FirstStep(kind[t])) /\ UNCHANGED <<taskVars, rowVars>>
    <3>1. Moves(t, h)
      BY <2>1, <1>2, <1>5, <1>h
         DEF RowWriteLost, FirstStep, Goto, Fault, dbVars, hostVars, taskVars, TypeOK, Moves,
             TaskOnly, KindAt, Knows, Agree, Kinds, Steps, ActionSteps, CreateSteps,
             StartSteps, StopSteps, RebuildSteps, PrepareSteps
    <3> QED
      BY <3>1, <1>2, <1>h, TaskStep DEF Moves
  <2>2. CASE pc[t] \in {"errrow", "okrow", "queued"} /\ Leave(t, row[t])
    <3>1. clean'[h] => Agree(h)'
      BY <1>2, <1>5, <2>2, <1>h DEF RowWriteLost, Knows, Agree, Halted, Up, dbVars, hostVars,
         PrepareSteps
    <3> QED
      BY <3>1, <1>2, <1>5, <2>2, <1>h, LeaveStep
         DEF RowWriteLost, Leave, Goto, dbVars, hostVars
  <2> QED
    BY <2>1, <2>2, <1>5 DEF RowWriteLost
<1>6. CASE DispatchLost(t)
  <2>1. clean'[h] => Agree(h)'
    BY <1>2, <1>6, <1>h DEF DispatchLost, Knows, Agree, dbVars, hostVars
  <2> QED
    BY <2>1, <1>2, <1>6, <1>h, LeaveStep
       DEF DispatchLost, Leave, Goto, dbVars, hostVars
<1>7. CASE ClientTimeout(t)
  <2>1. ~clean'[h] /\ (\A g \in Hosts : clean'[g] => clean[g])
    BY <1>2, <1>7, <1>h DEF ClientTimeout, Disturb, TypeOK
  <2>2. \A g \in Hosts \ {h} : status'[g] = status[g] /\ container'[g] = container[g]
                               /\ config'[g] = config[g]
    BY <1>7, <1>h DEF ClientTimeout, dbVars, TypeOK
  <2> QED
    BY <2>1, <2>2, <1>2, <1>7, <1>h, LeaveStep DEF ClientTimeout, Leave, Goto
<1> QED
  BY <1>3, <1>4, <1>5, <1>6, <1>7 DEF TaskFault

(* What docker, operators and callers do to a container or a host row.     *)
LEMMA WorldKeepsAgreement ==
  ASSUME TypeOK, TypeOK', Agreement, NEW h \in Hosts,
         \/ ContainerLost(h) \/ ContainerDies(h) \/ DockerRetries(h)
         \/ InsertHost(h) \/ UpsertExisting(h) \/ DeleteRow(h)
         \/ RemoveContainer(h) \/ RecordDrift(h)
  PROVE  Agreement'
<1> USE DEF Disturb, SetStatus, Fault, dbVars, hostVars, taskVars, rowVars, HasRow, Halted,
        Up, Agree, Knows
<1>1. thost' = thost /\ kind' = kind /\ pc' = pc
  BY DEF ContainerLost, ContainerDies, DockerRetries, InsertHost, UpsertExisting, DeleteRow,
     RemoveContainer, RecordDrift
<1>2. ASSUME NEW g \in Hosts, clean'[g]
      PROVE  /\ clean[g]
             /\ Quiet(g) /\ Agree(g) => Agree(g)'
             /\ \A t \in Tasks : thost[t] = g /\ Knows(t, g) => Knows(t, g)'
  <2>0. /\ status \in [Hosts -> HostStatus] /\ container \in [Hosts -> ContainerState]
        /\ config \in [Hosts -> BOOLEAN] /\ clean \in [Hosts -> BOOLEAN]
    BY DEF TypeOK
  <2>1. CASE ContainerLost(h)
    BY <2>0, <2>1, <1>1, <1>2 DEF ContainerLost
  <2>2. CASE ContainerDies(h)
    BY <2>0, <2>2, <1>1, <1>2 DEF ContainerDies
  <2>3. CASE DockerRetries(h)
    BY <2>0, <2>3, <1>1, <1>2 DEF DockerRetries
  <2>4. CASE InsertHost(h)
    BY <2>0, <2>4, <1>1, <1>2 DEF InsertHost
  <2>5. CASE UpsertExisting(h)
    BY <2>0, <2>5, <1>1, <1>2 DEF UpsertExisting
  <2>6. CASE DeleteRow(h)
    BY <2>0, <2>6, <1>1, <1>2 DEF DeleteRow
  <2>7. CASE RemoveContainer(h)
    BY <2>0, <2>7, <1>1, <1>2 DEF RemoveContainer
  <2>8. CASE RecordDrift(h)
    BY <2>0, <2>8, <1>1, <1>2 DEF RecordDrift, Quiet
  <2> QED
    BY <2>1, <2>2, <2>3, <2>4, <2>5, <2>6, <2>7, <2>8
<1> QED
  BY <1>1, <1>2, WorldStep

(* The steps that change neither a host nor a task.                        *)
LEMMA StillKeepsAgreement ==
  ASSUME Agreement, UNCHANGED <<status, container, config, thost, kind, pc, clean>>
  PROVE  Agreement'
BY DEF Agreement, KindAt, Knows, Agree, Quiet

(* A new task finds an agreeing host, or makes the host unclean because    *)
(* another task is still at work there.                                    *)
LEMMA QueueKeepsAgreement ==
  ASSUME TypeOK, TypeOK', Agreement,
         NEW t \in Tasks, NEW h \in Hosts, NEW k \in Kinds, QueueHostAction(t, h, k)
  PROVE  Agreement'
<1>1. /\ pc[t] = "idle" /\ thost[t] = NoHost
      /\ UNCHANGED <<status, container, config>>
      /\ thost'[t] = h /\ kind'[t] = k /\ pc'[t] = "queued"
      /\ \A u \in Tasks \ {t} : thost'[u] = thost[u] /\ kind'[u] = kind[u] /\ pc'[u] = pc[u]
      /\ clean' = [clean EXCEPT ![h] = @ /\ Quiet(h)]
  BY DEF QueueHostAction, TypeOK, Goto, Disturb, dbVars, hostVars
<1>2. ASSUME NEW u \in Tasks  PROVE  KindAt(u)'
  <2>1. CASE u = t
    BY <1>1, <2>1 DEF KindAt, CreateSteps, StartSteps, StopSteps, RebuildSteps, PrepareSteps
  <2>2. CASE u # t
    BY <1>1, <1>2, <2>2 DEF KindAt, Agreement
  <2> QED
    BY <2>1, <2>2
<1>3. ASSUME NEW g \in Hosts, clean'[g]
      PROVE  /\ Quiet(g)' => Agree(g)'
             /\ \A u \in Tasks : thost'[u] = g => Knows(u, g)'
             /\ \A u, v \in Tasks : thost'[u] = g /\ thost'[v] = g => u = v
  <2>1. clean[g] /\ (g = h => Quiet(h))
    BY <1>1, <1>3 DEF TypeOK
  <2>2. CASE g = h
    <3>1. Agree(g)' /\ \A u \in Tasks : thost'[u] = g => u = t
      BY <1>1, <2>1, <2>2 DEF Agreement, Agree, Quiet
    <3>2. Knows(t, g)'
      BY <1>1, <3>1 DEF Knows
    <3> QED
      BY <3>1, <3>2
  <2>3. CASE g # h
    <3>1. \A u \in Tasks : thost'[u] = g => u # t /\ thost[u] = g
      BY <1>1, <2>3
    <3>2. Quiet(g)' => Agree(g)'
      BY <1>1, <2>1, <3>1, <2>3, WorkerAssumption DEF Agreement, Agree, Quiet
    <3>3. ASSUME NEW u \in Tasks, thost'[u] = g  PROVE  Knows(u, g)'
      <4>1. Knows(u, g) /\ u # t
        BY <2>1, <3>1, <3>3 DEF Agreement
      <4> QED
        BY <4>1, <1>1 DEF Knows, Agree
    <3> QED
      BY <2>1, <3>1, <3>2, <3>3 DEF Agreement
  <2> QED
    BY <2>2, <2>3
<1> QED
  BY <1>2, <1>3 DEF Agreement

(* A restart of the control plane: hosts that had a task are no longer     *)
(* clean, and the others are as they were.                                 *)
LEMMA RestartKeepsAgreement ==
  ASSUME TypeOK, Agreement, Restart  PROVE  Agreement'
<1>1. \A t \in Tasks : thost'[t] = NoHost /\ pc'[t] = "idle"
  BY DEF Restart
<1>2. \A t \in Tasks : KindAt(t)'
  BY <1>1 DEF KindAt, CreateSteps, StartSteps, StopSteps, RebuildSteps, PrepareSteps
<1>3. ASSUME NEW h \in Hosts, clean'[h]  PROVE  Agree(h)'
  <2>1. clean[h] /\ Quiet(h) /\ status' = status /\ container' = container
    BY <1>3 DEF Restart, dbVars
  <2>2. config'[h] = config[h]
    BY <2>1 DEF Restart, Quiet, TypeOK
  <2> QED
    BY <2>1, <2>2 DEF Agreement, Agree
<1> QED
  BY <1>1, <1>2, <1>3, WorkerAssumption DEF Agreement

(* At every step of its task a clean host looks the way the step relies on *)
(* (Agreement): the inductive invariant of the worker.                     *)
THEOREM AgreementInvariant == Spec => []Agreement
<1>1. Init => Agreement
  BY WorkerAssumption DEF Init, Agreement, KindAt, Quiet, Agree, Halted, CreateSteps,
     StartSteps, StopSteps, RebuildSteps, PrepareSteps
<1>2. TypeOK /\ TypeOK' /\ Agreement /\ [Next]_vars => Agreement'
  <2> SUFFICES ASSUME TypeOK, TypeOK', Agreement, [Next]_vars  PROVE  Agreement'
    OBVIOUS
  <2>1. CASE \E t \in Tasks : WorkerStep(t) \/ TaskFault(t)
    BY <2>1, WorkerKeepsAgreement
  <2>2. CASE \E t \in Tasks : MarkStale(t)
    BY <2>2, StillKeepsAgreement DEF MarkStale, dbVars, hostVars, taskVars
  <2>3. CASE \E h \in Hosts : ContainerLost(h) \/ ContainerDies(h) \/ DockerRetries(h)
    BY <2>3, WorldKeepsAgreement
  <2>4. CASE \E h \in Hosts : MarkStaleOrphans(h) \/ QueueRefused(h)
    BY <2>4, StillKeepsAgreement DEF MarkStaleOrphans, QueueRefused, dbVars, hostVars, taskVars
  <2>5. CASE Restart
    BY <2>5, RestartKeepsAgreement
  <2>6. CASE \E t \in Tasks, h \in Hosts, k \in Kinds : QueueHostAction(t, h, k)
    BY <2>6, QueueKeepsAgreement
  <2>7. CASE \E h \in Hosts : \/ InsertHost(h) \/ UpsertExisting(h) \/ RemoveContainer(h)
                              \/ DeleteRow(h) \/ RecordDrift(h)
    BY <2>7, WorldKeepsAgreement
  <2>8. CASE \E h \in Hosts, b \in BOOLEAN : SetBinding(h, b)
    BY <2>8, StillKeepsAgreement DEF SetBinding, hostVars, taskVars
  <2>9. CASE CallerFails
    BY <2>9, StillKeepsAgreement DEF CallerFails, dbVars, hostVars, taskVars
  <2>10. CASE UNCHANGED vars
    BY <2>10, StillKeepsAgreement DEF vars, dbVars, hostVars, taskVars
  <2>11. CASE Caller
    BY <2>11, <2>4, <2>6, <2>7, <2>8, <2>9 DEF Caller
  <2> QED
    BY <2>1, <2>2, <2>3, <2>4, <2>5, <2>10, <2>11 DEF Next
<1>3. QED
  BY <1>1, <1>2, Typing, PTL DEF Spec

(* A quiet, clean host that the database calls stopped or failed has no    *)
(* container up.                                                           *)
THEOREM HaltedHostsAreDown == Spec => []HaltedIsDown
<1>1. Agreement => HaltedIsDown
  BY DEF Agreement, Agree, HaltedIsDown
<1>2. QED
  BY <1>1, AgreementInvariant, PTL

(* A quiet, clean host that the database calls running has its container   *)
(* running behind a config.json.                                           *)
THEOREM RunningHostsAreUp == Spec => []RunningIsUp
<1>1. Agreement => RunningIsUp
  BY DEF Agreement, Agree, RunningIsUp
<1>2. QED
  BY <1>1, AgreementInvariant, PTL

-----------------------------------------------------------------------------
(* HostControl.                                                            *)

(* What a request does at once: queue a task, fail to, or delete a row.     *)
LEMMA RequestsRefine == ASSUME Requests PROVE [Next]_vars
<1>1. CASE \E t \in Tasks, h \in Hosts, k \in Kinds : QueueHostAction(t, h, k)
  BY <1>1 DEF Next, Caller
<1>2. CASE (\E h \in Hosts : QueueRefused(h) \/ DeleteRow(h)) \/ CallerFails
  BY <1>2 DEF Next, Caller
<1> QED
  BY <1>1, <1>2 DEF Requests, Request, Bootstrap, RequestRefused, QueueFails, CreateCheck, DeleteUser,
     DeleteCheck, BindCheck, Accept, SetUserStatus, SetExpiry, TimePasses, Kinds

(* What a handler does after its check: the target it checked is a host, so *)
(* its writes are those HostWorker allows, whatever the check now says.     *)
LEMMA HandlingRefines ==
  ASSUME CtlTypeOK, NEW a \in Handlers, Handling(a) PROVE [Next]_vars
<1>1. req[a] # NoReq
  BY DEF Handling, CreateUpsert, CreateBind, CreateQueue, DeleteRemove, DeleteHost, BindWrite,
     Serves
<1>2. Target(a) \in Hosts
  BY <1>1 DEF CtlTypeOK, Target
<1> HIDE DEF Target
<1>3. CASE \E t \in Tasks : QueueHostAction(t, Target(a), "create")
  BY <1>2, <1>3 DEF Next, Caller, Kinds
<1>4. CASE \E b \in BOOLEAN : SetBinding(Target(a), b)
  BY <1>2, <1>4 DEF Next, Caller
<1>5. CASE \/ InsertHost(Target(a)) \/ UpsertExisting(Target(a)) \/ RemoveContainer(Target(a))
           \/ DeleteRow(Target(a)) \/ CallerFails
  BY <1>2, <1>5 DEF Next, Caller
<1>6. CASE UNCHANGED vars
  BY <1>6
<1> QED
  BY <1>3, <1>4, <1>5, <1>6 DEF Handling, CreateUpsert, CreateBind, CreateQueue,
     DeleteRemove, DeleteHost, BindWrite

(* What the scanner and the reconciler do.                                  *)
LEMMA JobsRefine ==
  ASSUME (\E h \in Hosts : Scanning(h)) \/ ReconRound \/ ReconStale PROVE [Next]_vars
<1>1. CASE \E t \in Tasks, h \in Hosts, k \in Kinds : QueueHostAction(t, h, k)
  BY <1>1 DEF Next, Caller
<1>2. CASE \/ \E h \in Hosts : QueueRefused(h) \/ RecordDrift(h)
           \/ CallerFails
  BY <1>2 DEF Next, Caller
<1>3. CASE ReconStale
  BY <1>3 DEF ReconStale, Next
<1>4. CASE \E h \in Hosts : Scanning(h)
  BY <1>1, <1>2, <1>4 DEF Scanning, ScanList, ScanMark, Scanned, ScanStop, ScanNothing, ScanRefused, QueueFails, Kinds
<1>5. CASE ReconRound
  BY <1>1, <1>2, <1>5 DEF ReconRound, ReconBegin, ReconAdvance, ReconLook, ReconInspect,
     ReconInspectFails, ReconAct, ReconRecent, ReconPrepare, ReconStart, ReconRefused,
     QueueFails, ReconDrift, ReconGone, Kinds
<1> QED
  BY <1>3, <1>4, <1>5

(* The types of the control plane's own state: requests, the reconciler's  *)
(* list and what it saw, the scanner's list and the accounts.              *)
THEOREM ControlStateTyping == ControlSpec => []CtlTypeOK
<1> USE ControlAssumption DEF UserStatus, Phases, ReqSteps, ctlVars, reconVars, Operator
<1>1. ControlInit => CtlTypeOK
  BY DEF ControlInit, CtlTypeOK
<1>2. CtlTypeOK /\ [ControlNext]_allVars => CtlTypeOK'
  <2> SUFFICES ASSUME CtlTypeOK, [ControlNext]_allVars  PROVE  CtlTypeOK'
    OBVIOUS
  <2>1. CASE UNCHANGED ctlVars
    BY <2>1 DEF CtlTypeOK
  <2>2. CASE Requests
    <3>1. ASSUME NEW h \in Hosts, NEW step \in ReqSteps, Accept(h, step)  PROVE  CtlTypeOK'
      BY <3>1 DEF Accept, CtlTypeOK
    <3>2. CASE \E h \in Hosts, b \in BOOLEAN : CreateCheck(h) \/ DeleteCheck(h, b) \/ BindCheck(h, b)
      BY <3>1, <3>2 DEF CreateCheck, DeleteCheck, BindCheck
    <3>3. CASE \E h \in Hosts : \/ RequestRefused(h) \/ DeleteUser(h)
                                \/ \E t \in Tasks, k \in Kinds : Request(t, h, k)
      BY <3>3 DEF RequestRefused, DeleteUser, Request, CtlTypeOK
    <3>4. CASE \E h \in Hosts : \/ \E s \in UserStatus : SetUserStatus(h, s)
                                \/ SetExpiry(h) \/ TimePasses(h)
      <4>1. CASE \E h \in Hosts, s \in UserStatus : SetUserStatus(h, s)
        BY <4>1 DEF SetUserStatus, CtlTypeOK
      <4>2. CASE \E h \in Hosts : SetExpiry(h)
        BY <4>2 DEF SetExpiry, CtlTypeOK
      <4>3. CASE \E h \in Hosts : TimePasses(h)
        BY <4>3 DEF TimePasses, CtlTypeOK
      <4> QED
        BY <3>4, <4>1, <4>2, <4>3
    <3> QED
      BY <2>2, <3>2, <3>3, <3>4 DEF Requests, Bootstrap, Kinds
  <2>3. CASE \E a \in Handlers : Handling(a)
    <3>1. PICK a \in Handlers : Handling(a)
      BY <2>3
    <3>2. req[a] # NoReq /\ Target(a) \in Hosts
      BY <3>1 DEF Handling, CreateUpsert, CreateBind, CreateQueue, DeleteRemove, DeleteHost,
         BindWrite, Serves, Target, CtlTypeOK
    <3>3. /\ \/ Reply(a)
             \/ \E step \in ReqSteps : Proceed(a, step)
          /\ UNCHANGED <<user, overdue, phase, todo, look, scan, ops>>
      BY <3>1 DEF Handling, CreateUpsert, CreateBind, CreateQueue, DeleteRemove, DeleteHost,
         BindWrite
    <3> QED
      BY <3>2, <3>3 DEF Reply, Proceed, CtlTypeOK
  <2>4. CASE \E h \in Hosts : Scanning(h)
    BY <2>4 DEF Scanning, ScanList, ScanMark, Scanned, ScanStop, ScanNothing, ScanRefused, CtlTypeOK
  <2>5. CASE ReconRound
    <3>1. CASE ReconBegin \/ ReconAdvance
      BY <3>1 DEF ReconBegin, ReconAdvance, InStatus, CtlTypeOK
    <3>2. CASE \E h \in Hosts : ReconLook(h) \/ ReconAct(h)
      BY <3>2 DEF ReconLook, ReconInspect, ReconInspectFails, ReconAct, ReconRecent,
         ReconPrepare, ReconStart, ReconRefused, ReconDrift, ReconGone, Seen, Done, CtlTypeOK
    <3> QED
      BY <2>5, <3>1, <3>2 DEF ReconRound
  <2>6. CASE ControlRestart
    BY <2>6 DEF ControlRestart, CtlTypeOK
  <2> QED
    BY <2>1, <2>2, <2>3, <2>4, <2>5, <2>6 DEF ControlNext, Execution, ReconStale, allVars
<1> QED
  BY <1>1, <1>2, PTL DEF ControlSpec

(* Every step of a handler, of the reconciler, of the scanner and of a     *)
(* restart is one HostWorker allows its callers, or leaves the execution   *)
(* side alone.                                                             *)
THEOREM ControlTakesWorkerSteps == ControlSpec => WorkerSteps
<1>1. CtlTypeOK /\ [ControlNext]_allVars => [Next]_vars
  <2> SUFFICES ASSUME CtlTypeOK, [ControlNext]_allVars  PROVE  [Next]_vars
    OBVIOUS
  <2>1. CASE Execution
    BY <2>1 DEF Execution, Next
  <2>2. CASE ControlRestart
    BY <2>2 DEF ControlRestart, Next
  <2>3. CASE UNCHANGED allVars
    BY <2>3 DEF allVars
  <2> QED
    BY <2>1, <2>2, <2>3, RequestsRefine, HandlingRefines, JobsRefine DEF ControlNext
<1> QED
  BY <1>1, ControlStateTyping, PTL DEF ControlSpec, WorkerSteps

(* The control plane implements HostWorker.                                *)
THEOREM ControlRefinesWorker == ControlSpec => Spec
<1>1. ControlInit => Init
  BY DEF ControlInit
<1> QED
  BY <1>1, ControlTakesWorkerSteps, PTL DEF ControlSpec, Spec, WorkerSteps

(* The types of the whole control plane.                                   *)
THEOREM ControlTyping == ControlSpec => []ControlTypeOK
BY ControlStateTyping, ControlRefinesWorker, Typing, PTL DEF ControlTypeOK

(* With the handlers and the two jobs around it the worker still keeps the *)
(* database and docker in agreement on every clean, quiet host.            *)
THEOREM ControlKeepsAgreement == ControlSpec => [](HaltedIsDown /\ RunningIsUp)
BY ControlRefinesWorker, HaltedHostsAreDown, RunningHostsAreUp, PTL
=============================================================================
