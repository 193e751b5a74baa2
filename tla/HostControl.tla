----------------------------- MODULE HostControl -----------------------------
(***************************************************************************)
(* The control plane around HostWorker: the admin and bootstrap handlers,  *)
(* the expiry scanner, the reconciler and a restart of the process.  Each  *)
(* of them reads a row or asks docker, and acts on the answer in a later   *)
(* step; between the two everybody else runs.                              *)
(*                                                                         *)
(* A user owns one host at a time, so the owner's account is kept per      *)
(* host.  MaxOps bounds the requests of operators and users, HostWorker's  *)
(* MaxFaults the faults; reconciler and scanner run for ever.              *)
(***************************************************************************)
EXTENDS HostWorker

CONSTANTS
    Handlers,   \* HTTP requests being served that have passed their check
    NoReq,      \* a handler slot that serves nothing
    MaxOps      \* requests of operators and users

ReqSteps == {"create_upsert", "create_bind", "create_queue",
             "delete_rm", "delete_row", "bind_write", "unbind_write"}

ASSUME ControlAssumption == MaxOps \in Nat /\ NoReq \notin Hosts \X ReqSteps

VARIABLES
    user,       \* users.status of the owner
    overdue,    \* expires_at <= now
    req,        \* handler slot -> <<host, what it does next>>
    phase,      \* what the reconciler goes through next
    todo,       \* hosts its last query returned and it has not looked at
    look,       \* host -> what its last inspect said, until it acts on it
    scan,       \* what the scanner does about the owner: "none", "due" or "marked"
    ops

ctlVars   == <<user, overdue, req, phase, todo, look, scan, ops>>
reconVars == <<phase, todo, look>>
allVars   == <<vars, ctlVars>>

UserStatus == {"active", "expired", "disabled"}
Phases     == {"idle", "running", "failed", "stale"}

ControlInit ==
    /\ Init
    /\ user = [h \in Hosts |-> "active"]
    /\ overdue = [h \in Hosts |-> FALSE]
    /\ req = [a \in Handlers |-> NoReq]
    /\ phase = "idle" /\ todo = {} /\ look = [h \in Hosts |-> "none"]
    /\ scan = [h \in Hosts |-> "none"]
    /\ ops = 0

Operator == ops < MaxOps /\ ops' = ops + 1

-----------------------------------------------------------------------------
(* Requests that queue an action at once: lifecycleAction, hosts.go, the   *)
(* user's own rebuild; and the bootstrap of an active user.                *)

Request(t, h, k) ==
    /\ Operator
    /\ QueueHostAction(t, h, k)
    /\ UNCHANGED <<user, overdue, req, reconVars, scan>>

Bootstrap(t, h) ==
    /\ user[h] = "active"
    /\ Request(t, h, "start")

\* QueueHostAction returns an error: it failed before the row was written, or
\* refused after it.  A request, the reconciler and the scanner all meet it.
QueueFails(h) ==
    \/ QueueRefused(h)
    \/ CallerFails

RequestRefused(h) ==
    /\ Operator
    /\ QueueFails(h)
    /\ UNCHANGED <<user, overdue, req, reconVars, scan>>

-----------------------------------------------------------------------------
(* Requests that check first and write later.                              *)

Accept(h, step) ==
    /\ Operator
    /\ \E a \in Handlers : req[a] = NoReq /\ req' = [req EXCEPT ![a] = <<h, step>>]
    /\ UNCHANGED <<vars, user, overdue, reconVars, scan>>

Serves(a, step) == req[a] # NoReq /\ req[a][2] = step
Target(a)       == req[a][1]
Proceed(a, step) == req' = [req EXCEPT ![a] = <<Target(a), step>>]
Reply(a)         == req' = [req EXCEPT ![a] = NoReq]

\* POST /hosts: refused while the user has a host.
CreateCheck(h) == status[h] = "none" /\ Accept(h, "create_upsert")

\* The insert, or its ON CONFLICT branch when another request was faster; once
\* that one's host is gone again, the insert is of a host with another id.
CreateUpsert(a) ==
    /\ Serves(a, "create_upsert")
    /\ \/ InsertHost(Target(a)) /\ Proceed(a, "create_bind")
       \/ UpsertExisting(Target(a)) /\ Proceed(a, "create_bind")
       \/ status[Target(a)] = "gone" /\ Reply(a) /\ UNCHANGED vars
    /\ UNCHANGED <<user, overdue, reconVars, scan, ops>>

\* UNIQUE(host_id, egress_ip_id) refuses the same address twice, not a second
\* one; the foreign key refuses a host that is gone.
CreateBind(a) ==
    /\ Serves(a, "create_bind")
    /\ \/ SetBinding(Target(a), TRUE) /\ Proceed(a, "create_queue")
       \/ bound[Target(a)] /\ UNCHANGED vars /\ Proceed(a, "create_queue")
       \/ /\ status[Target(a)] \notin HasRow \/ bound[Target(a)]
          /\ Reply(a) /\ UNCHANGED vars
    /\ UNCHANGED <<user, overdue, reconVars, scan, ops>>

CreateQueue(a) ==
    /\ Serves(a, "create_queue")
    /\ Reply(a)
    /\ \/ \E t \in Tasks : QueueHostAction(t, Target(a), "create")
       \/ status[Target(a)] \notin HasRow /\ UNCHANGED vars
    /\ UNCHANGED <<user, overdue, reconVars, scan, ops>>

\* DELETE /hosts: a running host only with force; then docker rm -f, then the
\* rows.  Tasks of the host and its config directory are not looked at.
DeleteCheck(h, force) ==
    /\ status[h] \in HasRow
    /\ force \/ status[h] # "running"
    /\ Accept(h, "delete_rm")

DeleteRemove(a) ==
    /\ Serves(a, "delete_rm")
    /\ \/ RemoveContainer(Target(a))
       \/ CallerFails
    /\ Proceed(a, "delete_row")
    /\ UNCHANGED <<user, overdue, reconVars, scan, ops>>

DeleteHost(a) ==
    /\ Serves(a, "delete_row")
    /\ IF status[Target(a)] \in HasRow THEN DeleteRow(Target(a)) ELSE UNCHANGED vars
    /\ Reply(a)
    /\ UNCHANGED <<user, overdue, reconVars, scan, ops>>

\* DELETE /users cascades to the host row and leaves docker alone.
DeleteUser(h) ==
    /\ Operator
    /\ DeleteRow(h)
    /\ UNCHANGED <<user, overdue, req, reconVars, scan>>

\* Bindings change only while the host is not running: checked, then written.
BindCheck(h, b) ==
    /\ status[h] \in HasRow \ {"running"}
    /\ bound[h] # b
    /\ Accept(h, IF b THEN "bind_write" ELSE "unbind_write")

BindWrite(a) ==
    \E b \in BOOLEAN :
        /\ Serves(a, IF b THEN "bind_write" ELSE "unbind_write")
        /\ IF status[Target(a)] \in HasRow /\ bound[Target(a)] # b
           THEN SetBinding(Target(a), b) ELSE UNCHANGED vars
        /\ Reply(a)
        /\ UNCHANGED <<user, overdue, reconVars, scan, ops>>

-----------------------------------------------------------------------------
(* Accounts.                                                               *)

SetUserStatus(h, s) ==
    /\ Operator
    /\ s \in {"active", "disabled"} /\ user[h] # s
    /\ user' = [user EXCEPT ![h] = s]
    /\ UNCHANGED <<vars, overdue, req, reconVars, scan>>

SetExpiry(h) ==
    /\ Operator
    /\ overdue[h]
    /\ overdue' = [overdue EXCEPT ![h] = FALSE]
    /\ UNCHANGED <<vars, user, req, reconVars, scan>>

TimePasses(h) ==
    /\ Operator
    /\ ~overdue[h]
    /\ overdue' = [overdue EXCEPT ![h] = TRUE]
    /\ UNCHANGED <<vars, user, req, reconVars, scan>>

-----------------------------------------------------------------------------
(* The expiry scanner: first the list, then each account on it, whatever   *)
(* has become of it, then its running hosts.                               *)

ScanList(h) ==
    /\ overdue[h] /\ user[h] = "active"
    /\ scan[h] = "none"
    /\ scan' = [scan EXCEPT ![h] = "due"]
    /\ UNCHANGED <<vars, user, overdue, req, reconVars, ops>>

\* Not the code: the scanner writes hosts.status itself.
ScanMarkHalting(h) ==
    /\ scan[h] = "due"
    /\ user' = [user EXCEPT ![h] = "expired"]
    /\ scan' = [scan EXCEPT ![h] = "marked"]
    /\ SetStatus(h, "stopped")
    /\ UNCHANGED <<bound, hostVars, taskVars, rowVars, pc, faults, clean,
                   overdue, req, reconVars, ops>>

ScanMark(h) ==
    /\ scan[h] = "due"
    /\ user' = [user EXCEPT ![h] = "expired"]
    /\ scan' = [scan EXCEPT ![h] = "marked"]
    /\ UNCHANGED <<vars, overdue, req, reconVars, ops>>

Scanned(h) == scan' = [scan EXCEPT ![h] = "none"]

ScanStop(t, h) ==
    /\ scan[h] = "marked" /\ status[h] = "running"
    /\ QueueHostAction(t, h, "stop")
    /\ Scanned(h)
    /\ UNCHANGED <<user, overdue, req, reconVars, ops>>

ScanNothing(h) ==
    /\ scan[h] = "marked" /\ status[h] # "running"
    /\ Scanned(h)
    /\ UNCHANGED <<vars, user, overdue, req, reconVars, ops>>

ScanRefused(h) ==
    /\ scan[h] = "marked" /\ status[h] = "running"
    /\ QueueFails(h)
    /\ Scanned(h)
    /\ UNCHANGED <<user, overdue, req, reconVars, ops>>

-----------------------------------------------------------------------------
(* The reconciler: the hosts the database calls running, then the failed   *)
(* ones, then the rows nobody finished.                                    *)

Seen(h, what) == look' = [look EXCEPT ![h] = what]
Done(h)       == todo' = todo \ {h} /\ Seen(h, "none")

InStatus(s) == {h \in Hosts : status[h] = s}

ReconBegin ==
    /\ phase = "idle"
    /\ phase' = "running" /\ todo' = InStatus("running")
    /\ UNCHANGED <<vars, user, overdue, req, look, scan, ops>>

\* Not the code: a round that ends before the rows nobody finished.
ReconAdvanceEarly ==
    /\ todo = {}
    /\ \/ phase = "running" /\ phase' = "failed" /\ todo' = InStatus("failed")
       \/ phase = "failed" /\ phase' = "idle" /\ UNCHANGED todo
    /\ UNCHANGED <<vars, user, overdue, req, look, scan, ops>>

\* Not the code: a round that does not query the failed hosts.
ReconAdvanceRunning ==
    /\ todo = {}
    /\ \/ phase = "running" /\ phase' = "stale" /\ UNCHANGED todo
       \/ phase = "stale" /\ phase' = "idle" /\ UNCHANGED todo
    /\ UNCHANGED <<vars, user, overdue, req, look, scan, ops>>

ReconAdvance ==
    /\ todo = {}
    /\ \/ phase = "running" /\ phase' = "failed" /\ todo' = InStatus("failed")
       \/ phase = "failed" /\ phase' = "stale" /\ UNCHANGED todo
       \/ phase = "stale" /\ phase' = "idle" /\ UNCHANGED todo
    /\ UNCHANGED <<vars, user, overdue, req, look, scan, ops>>

\* Not the code: any answer of docker inspect counts as running.
ReconInspectUp(h) ==
    /\ phase = "running" /\ h \in todo /\ look[h] = "none"
    /\ Seen(h, "up")
    /\ UNCHANGED <<vars, user, overdue, req, phase, todo, scan, ops>>

ReconInspect(h) ==
    /\ phase = "running" /\ h \in todo /\ look[h] = "none"
    /\ \/ container[h] \in Up /\ Seen(h, "up")
       \/ container[h] # "running" /\ Seen(h, "down")
    /\ UNCHANGED <<vars, user, overdue, req, phase, todo, scan, ops>>

\* host-agent cannot be reached, and the host is left for the next round; or
\* docker inspect fails, and its error counts as "no such container".
ReconInspectFails(h) ==
    /\ phase = "running" /\ h \in todo /\ look[h] = "none"
    /\ CallerFails
    /\ \/ Remote /\ Done(h)
       \/ Seen(h, "down") /\ UNCHANGED todo
    /\ UNCHANGED <<user, overdue, req, phase, scan, ops>>

\* Prepared less than five minutes ago.
ReconRecent(h) ==
    /\ look[h] = "up"
    /\ Done(h)
    /\ UNCHANGED <<vars, user, overdue, req, phase, scan, ops>>

ReconPrepare(t, h) ==
    /\ look[h] = "up"
    /\ QueueHostAction(t, h, "prepare")
    /\ Done(h)
    /\ UNCHANGED <<user, overdue, req, phase, scan, ops>>

\* A running host that looked down is started, and so is every failed one.
ToStart(h) == h \in todo /\ (look[h] = "down" \/ phase = "failed")

ReconStart(t, h) ==
    /\ ToStart(h)
    /\ QueueHostAction(t, h, "start")
    /\ Done(h)
    /\ UNCHANGED <<user, overdue, req, phase, scan, ops>>

\* The queue returns an error; only a host that looked down is then written off.
ReconRefused(h) ==
    /\ look[h] = "up" \/ ToStart(h)
    /\ QueueFails(h)
    /\ IF look[h] = "down" THEN Seen(h, "drift") /\ UNCHANGED todo ELSE Done(h)
    /\ UNCHANGED <<user, overdue, req, phase, scan, ops>>

\* recordHostDrift, with nothing to write when the row went away meanwhile.
ReconDrift(h) ==
    /\ look[h] = "drift"
    /\ IF status[h] \in HasRow THEN RecordDrift(h) ELSE UNCHANGED vars
    /\ Done(h)
    /\ UNCHANGED <<user, overdue, req, phase, scan, ops>>

ReconGone(h) ==
    /\ look[h] = "up" \/ ToStart(h)
    /\ status[h] \notin HasRow
    /\ Done(h)
    /\ UNCHANGED <<vars, user, overdue, req, phase, scan, ops>>

ReconStale ==
    /\ phase = "stale"
    /\ (\E t \in Tasks : MarkStale(t)) \/ (\E h \in Hosts : MarkStaleOrphans(h))
    /\ UNCHANGED ctlVars

-----------------------------------------------------------------------------
(* The process dies with its handlers and its jobs, and reconciles first.  *)
ControlRestart ==
    /\ Restart
    /\ req' = [a \in Handlers |-> NoReq]
    /\ phase' = "idle" /\ todo' = {} /\ look' = [h \in Hosts |-> "none"]
    /\ scan' = [h \in Hosts |-> "none"]
    /\ UNCHANGED <<user, overdue, ops>>

Execution ==
    /\ \/ \E t \in Tasks : WorkerStep(t) \/ TaskFault(t)
       \/ \E h \in Hosts : ContainerLost(h) \/ ContainerDies(h) \/ DockerRetries(h)
    /\ UNCHANGED ctlVars

Requests ==
    \/ \E t \in Tasks, h \in Hosts, k \in {"start", "stop", "rebuild"} : Request(t, h, k)
    \/ \E t \in Tasks, h \in Hosts : Bootstrap(t, h)
    \/ \E h \in Hosts : RequestRefused(h) \/ CreateCheck(h) \/ DeleteUser(h)
    \/ \E h \in Hosts, b \in BOOLEAN : DeleteCheck(h, b) \/ BindCheck(h, b)
    \/ \E h \in Hosts : \/ \E s \in UserStatus : SetUserStatus(h, s)
                        \/ SetExpiry(h) \/ TimePasses(h)

Handling(a) ==
    \/ CreateUpsert(a) \/ CreateBind(a) \/ CreateQueue(a)
    \/ DeleteRemove(a) \/ DeleteHost(a) \/ BindWrite(a)

Scanning(h) ==
    \/ ScanList(h) \/ ScanMark(h) \/ ScanNothing(h) \/ ScanRefused(h)
    \/ \E t \in Tasks : ScanStop(t, h)

ReconLook(h) == ReconInspect(h) \/ ReconInspectFails(h)

ReconAct(h) ==
    \/ ReconRecent(h) \/ ReconDrift(h) \/ ReconGone(h) \/ ReconRefused(h)
    \/ \E t \in Tasks : ReconPrepare(t, h) \/ ReconStart(t, h)

ReconRound == ReconBegin \/ ReconAdvance \/ \E h \in Hosts : ReconLook(h) \/ ReconAct(h)

ControlNext ==
    \/ Execution
    \/ Requests
    \/ \E a \in Handlers : Handling(a)
    \/ \E h \in Hosts : Scanning(h)
    \/ ReconRound
    \/ ReconStale
    \/ ControlRestart

ControlSpec == ControlInit /\ [][ControlNext]_allVars

\* Every goroutine that can go on does: the worker's commands end (each wait
\* has a timeout), handlers answer, and the two jobs are started by tickers.  A
\* row without a goroutine grows older until a round of the reconciler
\* finds it past the threshold.
Fairness ==
    /\ \A t \in Tasks : WF_allVars(WorkerStep(t) /\ UNCHANGED ctlVars)
    /\ \A a \in Handlers : WF_allVars(Handling(a))
    /\ WF_allVars(\E h \in Hosts : Scanning(h))
    /\ WF_allVars(ReconRound)
    /\ \A h \in Hosts : SF_allVars(phase = "stale" /\ MarkStaleOrphans(h) /\ UNCHANGED ctlVars)

FairSpec == ControlSpec /\ Fairness

-----------------------------------------------------------------------------
CtlTypeOK ==
    /\ user \in [Hosts -> UserStatus]
    /\ overdue \in [Hosts -> BOOLEAN]
    /\ req \in [Handlers -> (Hosts \X ReqSteps) \cup {NoReq}]
    /\ phase \in Phases
    /\ todo \subseteq Hosts
    /\ look \in [Hosts -> {"none", "up", "down", "drift"}]
    /\ scan \in [Hosts -> {"none", "due", "marked"}]
    /\ ops \in 0..MaxOps

(* Types of the worker's state and of the control plane's own.             *)
ControlTypeOK == TypeOK /\ CtlTypeOK

(* To the worker's state the handlers, the reconciler, the scanner and a   *)
(* restart do only what HostWorker leaves open to its callers: together    *)
(* with ControlInit => Init this is ControlSpec => Spec.                   *)
WorkerSteps == [][Next]_vars

(* Every task row ends: by its own goroutine, or, when that is gone or was *)
(* never started, by a later round of the reconciler.                      *)
TaskSettles ==
    /\ \A t \in Tasks : row[t] \in Open ~> row[t] \notin Open
    /\ \A h \in Hosts : h \in orphans ~> h \notin orphans

(* A host the database calls running whose container is down does not stay *)
(* so: the reconciler starts it again, or gives up and says so.            *)
Lost(h) == status[h] = "running" /\ container[h] \notin Up

LostContainerNoticed == \A h \in Hosts : Lost(h) ~> ~Lost(h)

(* A failed host is not forgotten: the reconciler queues a start for it as *)
(* long as it is failed, whatever made it fail.                            *)
FailedIsRetried ==
    \A h \in Hosts : status[h] = "failed" ~>
        \/ status[h] # "failed"
        \/ \E t \in Tasks : thost[t] = h /\ kind[t] = "start"

(* A failed host comes back: it has a container that works again, unless   *)
(* somebody halts it, deletes it or takes its address away.  It needs the  *)
(* retries of the reconciler not to overlap: two of them may go on for     *)
(* ever removing each other's container.                                   *)
FailedRecovers ==
    \A h \in Hosts : status[h] = "failed" ~>
        \/ status[h] = "running" /\ container[h] = "running"
        \/ status[h] \in {"stopped", "gone"} \/ ~bound[h]

-----------------------------------------------------------------------------
(* A promise of the documents that a race breaks.                          *)

(* The expiry of a user stops the host for good (README.md, feature list). *)
ExpiredHostStops ==
    \A h \in Hosts : user[h] = "expired" ~> [](container[h] \notin Up)
=============================================================================
