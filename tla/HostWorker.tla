----------------------------- MODULE HostWorker -----------------------------
(***************************************************************************)
(* The execution side of a host action: the task row a caller creates, the *)
(* goroutine that QueueHostAction starts, the dispatcher that writes the   *)
(* row, and the worker that drives docker, the sing-box config directory   *)
(* and hosts.status one external command at a time.                        *)
(*                                                                         *)
(* No lock covers a host: every task interleaves with every other one      *)
(* between two commands.  The callers are left open here (anyone may queue *)
(* any action, bind, unbind or delete at any moment); HostControl closes   *)
(* them with the handlers, the reconciler and the expiry scanner.          *)
(*                                                                         *)
(* A task slot is reused once its goroutine is gone, so Tasks bounds how   *)
(* many tasks live at a time and not how many there are over a behaviour.  *)
(* A row that loses its goroutine while it is pending or running leaves    *)
(* the slot and is remembered in orphans, by its host.                     *)
(***************************************************************************)
EXTENDS Naturals

CONSTANTS
    Hosts,      \* host ids; an id is a uuid, so it is never used twice
    Tasks,      \* task slots
    NoHost,     \* the host of a slot no goroutine uses
    MaxFaults,  \* how many commands, writes or processes may fail
    Remote      \* TRUE: host-agent behind a socket; FALSE: HOST_AGENT_MODE=embedded

ASSUME WorkerAssumption ==
    /\ NoHost \notin Hosts
    /\ MaxFaults \in Nat
    /\ Remote \in BOOLEAN

VARIABLES
    status,     \* hosts.status; "none" before the row exists, "gone" after its deletion
    bound,      \* is there a usable host_egress_bindings row
    container,  \* what docker knows of cloudproxy-<host>
    config,     \* is <DATA_DIR>/gateway/<host>/config.json in place
    thost,      \* request.HostID of a running goroutine
    kind,       \* request.Action
    row,        \* tasks.status
    orphans,    \* hosts with a pending or running row that no goroutine will end
    pc,         \* the next step of the goroutine
    faults,     \* faults so far
    clean       \* history: nothing on the list of Disturb below befell the host

dbVars   == <<status, bound>>
hostVars == <<container, config>>
taskVars == <<thost, kind>>
rowVars  == <<row, orphans>>
vars     == <<dbVars, hostVars, taskVars, rowVars, pc, faults, clean>>

-----------------------------------------------------------------------------
HostStatus     == {"none", "pending", "running", "stopped", "failed", "gone"}
HasRow         == {"pending", "running", "stopped", "failed"}
Halted         == {"stopped", "failed"}
ContainerState == {"absent", "stopped", "looping", "running"}
Up             == {"looping", "running"}
Kinds          == {"create", "start", "stop", "rebuild", "prepare"}
NoKind         == "none"
TaskStatus     == {"none", "pending", "running", "succeeded", "failed"}

\* The steps of startHost, createHost, stopHost, rebuildHost and
\* prepareExistingHost, then those of Execute and of the dispatcher.
CreateSteps  == {"rm", "gateway", "create", "cstart", "cssh", "undo"}
StartSteps   == {"exists", "sgateway", "sstart", "sssh"}
StopSteps    == {"stop", "stopclean"}
RebuildSteps == {"rmold", "rbclean", "rssh"}
PrepareSteps == {"check", "reapply"}
ActionSteps  == {"validate"} \cup CreateSteps \cup StartSteps \cup StopSteps
                  \cup RebuildSteps \cup PrepareSteps
ReportSteps  == {"errstop", "errhost", "errrow", "okhost", "okrow"}
Steps        == {"idle", "queued"} \cup ActionSteps \cup ReportSteps

Quiet(h) == \A t \in Tasks : thost[t] # h

Goto(t, p) == pc' = [pc EXCEPT ![t] = p]

Fault == faults < MaxFaults /\ faults' = faults + 1

\* What the DB and the machine may disagree about a host for: overlapping
\* tasks, a goroutine that died in the middle of its steps, a docker stop or a
\* status write whose error the code drops, a stop that takes an error of docker
\* inspect for a missing container, and a change made behind the worker's back.
Disturb(h, why) == clean' = [clean EXCEPT ![h] = @ /\ ~why]

-----------------------------------------------------------------------------
Init ==
    /\ status = [h \in Hosts |-> "none"]
    /\ bound = [h \in Hosts |-> FALSE]
    /\ container = [h \in Hosts |-> "absent"]
    /\ config = [h \in Hosts |-> FALSE]
    /\ thost = [t \in Tasks |-> NoHost]
    /\ kind = [t \in Tasks |-> NoKind]
    /\ row = [t \in Tasks |-> "none"]
    /\ orphans = {}
    /\ pc = [t \in Tasks |-> "idle"]
    /\ faults = 0
    /\ clean = [h \in Hosts |-> TRUE]

\* QueueHostAction: the row, then `go Dispatch`.  Nothing looks at the other
\* tasks of the host or at the status of its owner.
QueueHostAction(t, h, k) ==
    /\ pc[t] = "idle"
    /\ status[h] \in HasRow
    /\ thost' = [thost EXCEPT ![t] = h]
    /\ kind' = [kind EXCEPT ![t] = k]
    /\ row' = [row EXCEPT ![t] = "pending"]
    /\ Goto(t, "queued")
    /\ Disturb(h, ~Quiet(h))
    /\ UNCHANGED <<dbVars, hostVars, orphans, faults>>

\* The owner has no entry_password: the row is already written when the call
\* is refused, and no goroutine will ever touch it.
QueueRefused(h) ==
    /\ status[h] \in HasRow
    /\ Fault
    /\ orphans' = orphans \cup {h}
    /\ UNCHANGED <<dbVars, hostVars, taskVars, row, pc, clean>>

FirstStep(k) == CASE k = "create"  -> "rm"
                  [] k = "stop"    -> "stop"
                  [] k = "prepare" -> "check"
                  [] OTHER         -> "validate"

Dispatch(t) ==
    /\ pc[t] = "queued"
    /\ row' = [row EXCEPT ![t] = "running"]
    /\ Goto(t, FirstStep(kind[t]))
    /\ UNCHANGED <<dbVars, hostVars, taskVars, orphans, faults, clean>>

\* A step that only looks at the world and moves on.
Look(t, from, to) ==
    /\ pc[t] = from
    /\ Goto(t, to)
    /\ UNCHANGED <<dbVars, hostVars, taskVars, rowVars, faults, clean>>

SetContainer(t, from, to, c) ==
    /\ pc[t] = from
    /\ Goto(t, to)
    /\ container' = [container EXCEPT ![thost[t]] = c]
    /\ UNCHANGED <<dbVars, config, taskVars, rowVars, faults, clean>>

SetConfig(t, from, to, b) ==
    /\ pc[t] = from
    /\ Goto(t, to)
    /\ config' = [config EXCEPT ![thost[t]] = b]
    /\ UNCHANGED <<dbVars, container, taskVars, rowVars, faults, clean>>

\* docker stop on a container that is not running changes nothing.
Stopped(c) == IF c \in Up THEN "stopped" ELSE c

\* docker start brings the container up; its entrypoint exits without a
\* config.json, and the restart policy unless-stopped tries it again.
Started(h) == IF container[h] = "running" \/ config[h] THEN "running" ELSE "looping"

-----------------------------------------------------------------------------
(* startHost and rebuildHost first require a valid egress binding.         *)

Validate(t) ==
    Look(t, "validate", IF ~bound[thost[t]] THEN "errstop"
                        ELSE IF kind[t] = "start" THEN "exists" ELSE "stop")

\* Not the code: starting a host whose container is gone is an error.
ExistsOrFails(t) ==
    Look(t, "exists", IF container[thost[t]] = "absent" THEN "errstop" ELSE "sgateway")

Exists(t) ==
    Look(t, "exists", IF container[thost[t]] = "absent" THEN "rm" ELSE "sgateway")

StartGateway(t) ==
    /\ pc[t] = "sgateway"
    /\ IF bound[thost[t]] THEN SetConfig(t, "sgateway", "sstart", TRUE)
                          ELSE Look(t, "sgateway", "errstop")

DockerStart(t) ==
    /\ pc[t] = "sstart"
    /\ IF container[thost[t]] = "absent"
       THEN Look(t, "sstart", "errstop")
       ELSE SetContainer(t, "sstart", "sssh", Started(thost[t]))

\* The last wait of startHost and of rebuildHost.
WaitForSSH(t) ==
    \E p \in {"sssh", "rssh"} :
        Look(t, p, IF container[thost[t]] = "running" THEN "okhost" ELSE "errstop")

-----------------------------------------------------------------------------
(* createHost, called by an action of its own, by startHost for a missing  *)
(* container and by rebuildHost.  From the moment the gateway is prepared, *)
(* an error runs the deferred CleanupHost ("undo").                        *)

RemoveOld(t) == SetContainer(t, "rm", "gateway", "absent")

\* Not the code: the container is created before its config.json is written.
CreateWithoutGateway(t) ==
    /\ pc[t] = "gateway"
    /\ Look(t, "gateway", IF bound[thost[t]] THEN "create" ELSE "errstop")

CreateGateway(t) ==
    /\ pc[t] = "gateway"
    /\ IF bound[thost[t]] THEN SetConfig(t, "gateway", "create", TRUE)
                          ELSE Look(t, "gateway", "errstop")

DockerCreate(t) ==
    /\ pc[t] = "create"
    /\ IF container[thost[t]] = "absent"
       THEN SetContainer(t, "create", "cstart", "stopped")
       ELSE Look(t, "create", "undo")

DockerStartCreated(t) ==
    /\ pc[t] = "cstart"
    /\ IF container[thost[t]] = "absent"
       THEN Look(t, "cstart", "undo")
       ELSE SetContainer(t, "cstart", "cssh", Started(thost[t]))

AfterCreate(k) == CASE k = "start"   -> "sgateway"
                    [] k = "rebuild" -> "rssh"
                    [] OTHER         -> "okhost"

WaitForSSHCreated(t) ==
    Look(t, "cssh", IF container[thost[t]] = "running"
                    THEN AfterCreate(kind[t]) ELSE "undo")

UndoGateway(t) == SetConfig(t, "undo", "errstop", FALSE)

-----------------------------------------------------------------------------
(* stopHost, and rebuildHost around it.                                    *)

\* Not the code: a rebuild that ends with the removal of the old container.
AfterStopOnly(k) == "okhost"
AfterStop(k) == IF k = "rebuild" THEN "rmold" ELSE "okhost"

DockerStop(t) ==
    /\ pc[t] = "stop"
    /\ IF container[thost[t]] = "absent"
       THEN Look(t, "stop", AfterStop(kind[t]))
       ELSE SetContainer(t, "stop", "stopclean", Stopped(container[thost[t]]))

StopCleanup(t) == SetConfig(t, "stopclean", AfterStop(kind[t]), FALSE)

RebuildRemove(t)  == SetContainer(t, "rmold", "rbclean", "absent")
RebuildCleanup(t) == SetConfig(t, "rbclean", "rm", FALSE)

-----------------------------------------------------------------------------
(* prepareExistingHost: the container must run; docker also calls one that *)
(* waits for its next restart running.                                     *)

CheckRunning(t) ==
    /\ pc[t] = "check"
    /\ \/ container[thost[t]] \in Up /\ Look(t, "check", "reapply")
       \/ container[thost[t]] # "running" /\ Look(t, "check", "errstop")

Reapply(t) == Look(t, "reapply", IF bound[thost[t]] THEN "okhost" ELSE "errstop")

-----------------------------------------------------------------------------
(* The end of Execute and of Dispatch.                                     *)

\* UPDATE hosts ... WHERE id: nothing happens without the row.
SetStatus(h, s) == status' = [status EXCEPT ![h] = IF @ \in HasRow THEN s ELSE @]

ErrStop(t) == SetContainer(t, "errstop", "errhost", Stopped(container[thost[t]]))

ErrHost(t) ==
    /\ pc[t] = "errhost"
    /\ SetStatus(thost[t], "failed")
    /\ Goto(t, "errrow")
    /\ UNCHANGED <<bound, hostVars, taskVars, rowVars, faults, clean>>

\* actionToHostStatus: a prepare leaves hosts.status alone.
OkHost(t) ==
    /\ pc[t] = "okhost"
    /\ CASE kind[t] = "prepare" -> UNCHANGED status
         [] kind[t] = "stop"    -> SetStatus(thost[t], "stopped")
         [] OTHER               -> SetStatus(thost[t], "running")
    /\ Goto(t, "okrow")
    /\ UNCHANGED <<bound, hostVars, taskVars, rowVars, faults, clean>>

Open == {"pending", "running"}

\* Not the code: the goroutine ends and its slot is not given back.
LeaveKeepingSlot(t, r) ==
    /\ kind' = [kind EXCEPT ![t] = NoKind]
    /\ Goto(t, "idle")
    /\ row' = [row EXCEPT ![t] = IF r \in Open THEN "none" ELSE r]
    /\ UNCHANGED <<thost, orphans>>

\* The goroutine ends and the row has the status r.
Leave(t, r) ==
    /\ thost' = [thost EXCEPT ![t] = NoHost]
    /\ kind' = [kind EXCEPT ![t] = NoKind]
    /\ Goto(t, "idle")
    /\ row' = [row EXCEPT ![t] = IF r \in Open THEN "none" ELSE r]
    /\ orphans' = IF r \in Open THEN orphans \cup {thost[t]} ELSE orphans

Verdict(p) == IF p = "okrow" THEN "succeeded" ELSE "failed"

\* UpdateTaskStatus is unconditional: it also overwrites 'stale_timeout'.
FinishTask(t) ==
    /\ pc[t] \in {"errrow", "okrow"}
    /\ Leave(t, Verdict(pc[t]))
    /\ UNCHANGED <<dbVars, hostVars, faults, clean>>

-----------------------------------------------------------------------------
(* What goes wrong.                                                        *)

Undoing  == {"create", "cstart", "cssh", "undo"}   \* gatewayPrepared
MayFail  == ActionSteps \ {"undo", "stopclean"}
\* Not the code: an error is reported without the docker stop before it.
OnErrorUnstopped(p) == IF p \in Undoing THEN "undo" ELSE "errhost"
OnError(p) == IF p \in Undoing THEN "undo" ELSE "errstop"

\* A docker command, a query or a file operation returns an error.
CommandFails(t) ==
    /\ pc[t] \in MayFail
    /\ Fault
    /\ Goto(t, OnError(pc[t]))
    /\ UNCHANGED <<dbVars, hostVars, taskVars, rowVars, clean>>

\* containerExists takes every error exit of docker inspect for a missing
\* container: stopHost then reports success, and the others go on without it.
InspectMisread(t) ==
    /\ Fault
    /\ \/ pc[t] = "exists" /\ Goto(t, "rm")
       \/ pc[t] = "rm"     /\ Goto(t, "gateway")
       \/ pc[t] = "rmold"  /\ Goto(t, "rbclean")
       \/ pc[t] = "stop"   /\ Goto(t, AfterStop(kind[t]))
    /\ Disturb(thost[t], kind[t] = "stop")
    /\ UNCHANGED <<dbVars, hostVars, taskVars, rowVars>>

\* Execute drops the error of its own docker stop.
ErrStopFails(t) ==
    /\ pc[t] = "errstop"
    /\ Fault
    /\ Goto(t, "errhost")
    /\ Disturb(thost[t], TRUE)
    /\ UNCHANGED <<dbVars, hostVars, taskVars, rowVars>>

\* Execute drops the error of UpdateHostStatus.
StatusWriteLost(t) ==
    /\ pc[t] \in {"errhost", "okhost"}
    /\ Fault
    /\ Goto(t, IF pc[t] = "okhost" THEN "okrow" ELSE "errrow")
    /\ Disturb(thost[t], TRUE)
    /\ UNCHANGED <<dbVars, hostVars, taskVars, rowVars>>

\* The dispatcher only logs the error of UpdateTaskStatus, except that
\* host-agent gives up when it cannot write 'running'.
RowWriteLost(t) ==
    /\ Fault
    /\ \/ /\ pc[t] = "queued" /\ ~Remote
          /\ Goto(t, FirstStep(kind[t]))
          /\ UNCHANGED <<taskVars, rowVars>>
       \/ /\ pc[t] \in {"errrow", "okrow"} \cup (IF Remote THEN {"queued"} ELSE {})
          /\ Leave(t, row[t])
    /\ UNCHANGED <<dbVars, hostVars, clean>>

\* A panic inside an action: deferred calls run, docker stop does not.
Panic(t) ==
    /\ pc[t] \in ActionSteps
    /\ Fault
    /\ config' = [config EXCEPT ![thost[t]] = @ /\ pc[t] \notin Undoing]
    /\ Goto(t, "errhost")
    /\ Disturb(thost[t], TRUE)
    /\ UNCHANGED <<dbVars, container, taskVars, rowVars>>

\* host-agent cannot be reached: the row stays pending.
DispatchLost(t) ==
    /\ Remote /\ pc[t] = "queued"
    /\ Fault
    /\ Leave(t, row[t])
    /\ UNCHANGED <<dbVars, hostVars, clean>>

\* The client's 30 s are over: the agent's context is cancelled, so neither
\* docker stop nor the two writes happen; only CleanupHost ignores the context.
ClientTimeout(t) ==
    /\ Remote /\ pc[t] \in ActionSteps \cup ReportSteps
    /\ Fault
    /\ config' = [config EXCEPT ![thost[t]] = @ /\ pc[t] \notin Undoing]
    /\ Disturb(thost[t], TRUE)
    /\ Leave(t, row[t])
    /\ UNCHANGED <<dbVars, container>>

\* The control plane restarts: every goroutine is gone.  host-agent survives,
\* sees its connections close and runs the deferred cleanups.
Restart ==
    /\ Fault
    /\ config' = [h \in Hosts |-> config[h] /\ ~(Remote /\ \E t \in Tasks :
                                     thost[t] = h /\ pc[t] \in Undoing)]
    /\ clean' = [h \in Hosts |-> clean[h] /\ Quiet(h)]
    /\ thost' = [t \in Tasks |-> NoHost]
    /\ kind' = [t \in Tasks |-> NoKind]
    /\ pc' = [t \in Tasks |-> "idle"]
    /\ row' = [t \in Tasks |-> IF row[t] \in Open THEN "none" ELSE row[t]]
    /\ orphans' = orphans \cup {h \in Hosts : \E t \in Tasks : thost[t] = h /\ row[t] \in Open}
    /\ UNCHANGED <<dbVars, container>>

\* Somebody stops or removes the container without the control plane.
ContainerLost(h) ==
    /\ container[h] \in Up
    /\ Fault
    /\ \E c \in {"stopped", "absent"} : container' = [container EXCEPT ![h] = c]
    /\ Disturb(h, TRUE)
    /\ UNCHANGED <<dbVars, config, taskVars, rowVars, pc>>

\* The container dies; docker restarts it, and it reads its config again.
ContainerDies(h) ==
    /\ container[h] = "running" /\ ~config[h]
    /\ Fault
    /\ container' = [container EXCEPT ![h] = "looping"]
    /\ UNCHANGED <<dbVars, config, taskVars, rowVars, pc, clean>>

DockerRetries(h) ==
    /\ container[h] = "looping" /\ config[h]
    /\ container' = [container EXCEPT ![h] = "running"]
    /\ UNCHANGED <<dbVars, config, taskVars, rowVars, pc, faults, clean>>

\* MarkStaleTasks judges a row by its age alone; a live task is hit when its
\* commands take ten minutes without a progress report.
MarkStale(t) ==
    /\ row[t] \in Open
    /\ row' = [row EXCEPT ![t] = "failed"]
    /\ UNCHANGED <<dbVars, hostVars, taskVars, orphans, pc, faults, clean>>

MarkStaleOrphans(h) ==
    /\ h \in orphans
    /\ orphans' = orphans \ {h}
    /\ UNCHANGED <<dbVars, hostVars, taskVars, row, pc, faults, clean>>

-----------------------------------------------------------------------------
(* What the callers do to the tables and to docker.                        *)

InsertHost(h) ==
    /\ status[h] = "none"
    /\ status' = [status EXCEPT ![h] = "pending"]
    /\ UNCHANGED <<bound, hostVars, taskVars, rowVars, pc, faults, clean>>

\* The ON CONFLICT branch of UpsertHost: whatever the host was doing.
UpsertExisting(h) ==
    /\ status[h] \in HasRow
    /\ status' = [status EXCEPT ![h] = "pending"]
    /\ UNCHANGED <<bound, hostVars, taskVars, rowVars, pc, faults, clean>>

SetBinding(h, b) ==
    /\ status[h] \in HasRow /\ bound[h] # b
    /\ bound' = [bound EXCEPT ![h] = b]
    /\ UNCHANGED <<status, hostVars, taskVars, rowVars, pc, faults, clean>>

\* docker rm -f from the delete handler.
RemoveContainer(h) ==
    /\ container' = [container EXCEPT ![h] = "absent"]
    /\ Disturb(h, TRUE)
    /\ UNCHANGED <<dbVars, config, taskVars, rowVars, pc, faults>>

\* A command of a caller fails.
CallerFails ==
    /\ Fault
    /\ UNCHANGED <<dbVars, hostVars, taskVars, rowVars, pc, clean>>

\* DeleteHost, or the cascade of DeleteUser.
DeleteRow(h) ==
    /\ status[h] \in HasRow
    /\ status' = [status EXCEPT ![h] = "gone"]
    /\ bound' = [bound EXCEPT ![h] = FALSE]
    /\ UNCHANGED <<hostVars, taskVars, rowVars, pc, faults, clean>>

\* recordHostDrift writes 'stopped' on what an earlier inspect said.
RecordDrift(h) ==
    /\ status[h] \in HasRow
    /\ SetStatus(h, "stopped")
    /\ Disturb(h, ~Quiet(h) \/ container[h] \in Up)
    /\ UNCHANGED <<bound, hostVars, taskVars, rowVars, pc, faults>>

-----------------------------------------------------------------------------
ActionStep(t) ==
    \/ Validate(t) \/ Exists(t) \/ StartGateway(t) \/ DockerStart(t) \/ WaitForSSH(t)
    \/ RemoveOld(t) \/ CreateGateway(t) \/ DockerCreate(t) \/ DockerStartCreated(t)
    \/ WaitForSSHCreated(t) \/ UndoGateway(t)
    \/ DockerStop(t) \/ StopCleanup(t) \/ RebuildRemove(t) \/ RebuildCleanup(t)
    \/ CheckRunning(t) \/ Reapply(t)

WorkerStep(t) ==
    Dispatch(t) \/ ActionStep(t) \/ ErrStop(t) \/ ErrHost(t) \/ OkHost(t) \/ FinishTask(t)

TaskFault(t) ==
    \/ CommandFails(t) \/ InspectMisread(t) \/ ErrStopFails(t)
    \/ StatusWriteLost(t) \/ RowWriteLost(t)
    \/ Panic(t) \/ DispatchLost(t) \/ ClientTimeout(t)

Caller ==
    \/ \E t \in Tasks, h \in Hosts, k \in Kinds : QueueHostAction(t, h, k)
    \/ \E h \in Hosts : \/ QueueRefused(h) \/ InsertHost(h) \/ UpsertExisting(h)
                        \/ RemoveContainer(h) \/ DeleteRow(h) \/ RecordDrift(h)
    \/ \E h \in Hosts, b \in BOOLEAN : SetBinding(h, b)
    \/ CallerFails

Next ==
    \/ \E t \in Tasks : WorkerStep(t) \/ TaskFault(t) \/ MarkStale(t)
    \/ \E h \in Hosts : \/ ContainerLost(h) \/ ContainerDies(h) \/ DockerRetries(h)
                        \/ MarkStaleOrphans(h)
    \/ Restart
    \/ Caller

Spec == Init /\ [][Next]_vars

-----------------------------------------------------------------------------
(* Types: a slot names a host exactly while a goroutine uses it.           *)
TypeOK ==
    /\ status \in [Hosts -> HostStatus]
    /\ bound \in [Hosts -> BOOLEAN]
    /\ container \in [Hosts -> ContainerState]
    /\ config \in [Hosts -> BOOLEAN]
    /\ thost \in [Tasks -> Hosts \cup {NoHost}]
    /\ kind \in [Tasks -> Kinds \cup {NoKind}]
    /\ row \in [Tasks -> TaskStatus]
    /\ orphans \subseteq Hosts
    /\ pc \in [Tasks -> Steps]
    /\ faults \in 0..MaxFaults
    /\ clean \in [Hosts -> BOOLEAN]
    /\ \A t \in Tasks : (thost[t] = NoHost) <=> (pc[t] = "idle")

(* A host the database calls stopped or failed has no container up, once   *)
(* its tasks are over and unless its tasks overlapped, one was lost midway *)
(* or an error the code drops hit it: stopHost and the docker stop of      *)
(* Execute's error path precede the status they justify.                   *)
HaltedIsDown ==
    \A h \in Hosts : clean[h] /\ Quiet(h) /\ status[h] \in Halted => container[h] \notin Up

(* Under the same conditions a host the database calls running has its     *)
(* container up, behind a config.json: no step between the last wait for   *)
(* SSH and the status takes either away.                                   *)
RunningIsUp ==
    \A h \in Hosts :
        clean[h] /\ Quiet(h) /\ status[h] = "running" => container[h] = "running" /\ config[h]

-----------------------------------------------------------------------------
(* Why the two hold: what is known of a clean host at each step of the one *)
(* task it may have.                                                       *)

Agree(h) ==
    /\ status[h] \in Halted => container[h] \notin Up
    /\ status[h] = "running" => container[h] = "running" /\ config[h]

KindAt(t) ==
    LET p == pc[t]
        k == kind[t]
    IN  /\ p # "idle" => k \in Kinds
        /\ p = "validate" => k \in {"start", "rebuild"}
        /\ p \in CreateSteps => k \in {"create", "start", "rebuild"}
        /\ p \in StartSteps => k = "start"
        /\ p \in RebuildSteps => k = "rebuild"
        /\ p \in PrepareSteps => k = "prepare"
        /\ p \in StopSteps => k \in {"stop", "rebuild"}

Knows(t, h) ==
    LET p == pc[t]
        k == kind[t]
    IN  /\ p \in {"queued"} \cup PrepareSteps => Agree(h)
        /\ p \in {"create", "cstart", "cssh", "rssh", "sstart", "sssh"} => config[h]
        /\ p \in {"stopclean", "errhost", "errrow"} => container[h] \notin Up
        /\ p = "errrow" => status[h] # "running"
        /\ p \in {"okhost", "okrow"} =>
             \/ k = "prepare" /\ Agree(h)
             \/ k = "stop" /\ container[h] \notin Up
                           /\ (p = "okrow" => status[h] # "running")
             \/ k \in {"create", "start", "rebuild"} /\ container[h] = "running" /\ config[h]
                           /\ (p = "okrow" => status[h] \notin Halted)

(* At every step of its task the docker state of a clean host is what that *)
(* step relies on, and it is the only task: the inductive form of the two  *)
(* properties above.                                                       *)
Agreement ==
    /\ \A t \in Tasks : KindAt(t)
    /\ \A h \in Hosts : clean[h] =>
         /\ Quiet(h) => Agree(h)
         /\ \A t \in Tasks : thost[t] = h => Knows(t, h)
         /\ \A t, u \in Tasks : thost[t] = h /\ thost[u] = h => t = u
=============================================================================
