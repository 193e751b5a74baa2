------------------------------ MODULE HostPages ------------------------------
(***************************************************************************)
(* The pages of one host: the administrator's list and detail page and the *)
(* user's detail page, with the buttons that what was last fetched shows,  *)
(* the dialogs for deletion, rebuild, upgrade and creation, and the desk-  *)
(* top's start and restart.  Requests are answered late, to whatever the   *)
(* page has become; a page that is left drops the answers.                 *)
(*                                                                         *)
(* What the server does with an accepted action is HostControl's and       *)
(* HostWorker's subject: here a task ends in some way.                     *)
(***************************************************************************)
EXTENDS Integers, Sequences, FiniteSets

CONSTANTS
    MaxRequests, \* bound: requests of the pages
    MaxPageViews \* bound: pages opened

ASSUME PagesAssumption == {MaxRequests, MaxPageViews} \subseteq Nat

VARIABLES
    host,     \* status of the host, "gone" once deleted
    alive,    \* is its container running
    vnc,      \* is its desktop running
    tasks,    \* tasks of the host and of one that is created, in order
    view,     \* the page: "list", "detail", "portal" or "none"
    seen,     \* what the page fetched last
    flights,  \* requests without an answer
    confirm,  \* the delete dialog: "no", "plain" or "force"
    upgrade,  \* the upgrade dialog
    rebuild,  \* the rebuild dialog and its mode
    create,   \* the dialog of a new host
    requests, views

pagesVars == <<host, alive, vnc, tasks, view, seen, flights, confirm, upgrade, rebuild, create, requests, views>>

Statuses  == {"running", "stopped", "failed"}
NoRebuild == [open |-> FALSE, mode |-> "preserve"]
NoUpgrade == [open |-> FALSE, task |-> 0, layers |-> 0]
NoCreate  == [open |-> FALSE, task |-> 0, keys |-> 0]
Kinds     == {"start", "stop", "preserve", "factory", "upgrade", "create"}
Ended(t)  == tasks[t].is \in {"succeeded", "failed"}

\* A request: the mutation hook that sent it, what it asks, whether it forces and
\* whether the user was told so; how far the server is; as a history, whether the
\* host was at rest when the server checked a deletion.
Flight(hook, ask, force, warned) ==
    [hook |-> hook, ask |-> ask, force |-> force, warned |-> warned, is |-> "sent", idle |-> FALSE, task |-> 0]

Pending(hook) == \E f \in flights: f.hook = hook

SendRequest(hook, ask, force, warned) ==
    /\ ~Pending(hook)
    /\ requests < MaxRequests /\ requests' = requests + 1
    /\ flights' = flights \cup {Flight(hook, ask, force, warned)}

PagesInit ==
    /\ host \in Statuses /\ alive = (host = "running") /\ vnc = FALSE /\ tasks = <<>>
    /\ view = "none" /\ seen = [host |-> "gone", vnc |-> FALSE]
    /\ flights = {} /\ confirm = "no" /\ upgrade = NoUpgrade /\ rebuild = NoRebuild /\ create = NoCreate
    /\ requests = 0 /\ views = 0

-----------------------------------------------------------------------------
(* Pages and fetches.                                                      *)

serverVars == <<host, alive, vnc, tasks>>
dialogVars == <<confirm, upgrade, rebuild, create>>

OpenPage(p) ==
    /\ view = "none" /\ view' = p
    /\ views < MaxPageViews /\ views' = views + 1
    /\ UNCHANGED <<serverVars, dialogVars, seen, flights, requests>>

\* What was open is lost, and nobody waits for the answers.
LeavePage ==
    /\ view # "none" /\ view' = "none"
    /\ flights' = {[f EXCEPT !.hook = "nobody"] : f \in flights}
    /\ confirm' = "no" /\ upgrade' = NoUpgrade /\ rebuild' = NoRebuild /\ create' = NoCreate
    /\ UNCHANGED <<serverVars, seen, requests, views>>

PollHost ==
    /\ view # "none"
    /\ seen' = [host |-> host, vnc |-> vnc]
    /\ UNCHANGED <<serverVars, dialogVars, view, flights, requests, views>>

Idle == confirm = "no" /\ ~upgrade.open /\ ~rebuild.open /\ ~create.open

-----------------------------------------------------------------------------
(* Buttons.                                                                *)

buttonVars == <<serverVars, dialogVars, view, seen, views>>

\* The row's buttons: rebuilding asks for no confirmation there.
ListAction(kind) ==
    /\ view = "list" /\ Idle
    /\ kind \in CASE seen.host = "running" -> {"stop", "preserve"}
                  [] seen.host \in {"stopped", "failed"} -> {"start"}
                  [] OTHER -> {}
    /\ SendRequest("action", kind, FALSE, FALSE)
    /\ UNCHANGED buttonVars

\* The detail page's: one of start and stop.
DetailAction(kind) ==
    /\ view = "detail" /\ Idle /\ seen.host # "gone"
    /\ kind = IF seen.host = "running" THEN "stop" ELSE "start"
    /\ SendRequest("action", kind, FALSE, FALSE)
    /\ UNCHANGED buttonVars

\* can_start and can_restart come with the desktop's status; one request at a time.
DetailDesktop ==
    /\ view = "detail" /\ Idle /\ seen.host = "running"
    /\ SendRequest("desktop", IF seen.vnc THEN "restart vnc" ELSE "start vnc", FALSE, FALSE)
    /\ UNCHANGED buttonVars

PortalDesktop ==
    /\ view = "portal" /\ Idle /\ seen.host = "running"
    /\ SendRequest("desktop", IF seen.vnc THEN "restart vnc" ELSE "start vnc", FALSE, FALSE)
    /\ UNCHANGED buttonVars

\* Behind a confirmation that closes at once.
PortalRebuild ==
    /\ view = "portal" /\ Idle /\ seen.host # "gone"
    /\ SendRequest("rebuild", "preserve", FALSE, FALSE)
    /\ UNCHANGED buttonVars

-----------------------------------------------------------------------------
(* Deletion: which dialog is shown is settled when it is opened.           *)

Asking == IF seen.host = "running" THEN "force" ELSE "plain"

ListDelete ==
    /\ view = "list" /\ Idle /\ seen.host # "gone"
    /\ confirm' = Asking
    /\ UNCHANGED <<serverVars, view, seen, flights, upgrade, rebuild, create, requests, views>>

DetailDelete ==
    /\ view = "detail" /\ Idle /\ seen.host # "gone" /\ ~Pending("delete")
    /\ confirm' = Asking
    /\ UNCHANGED <<serverVars, view, seen, flights, upgrade, rebuild, create, requests, views>>

CancelDelete ==
    /\ confirm # "no" /\ confirm' = "no"
    /\ UNCHANGED <<serverVars, view, seen, flights, upgrade, rebuild, create, requests, views>>

\* Not the code: forced as the host is by now.
ConfirmDeleteAsSeen ==
    /\ confirm # "no" /\ confirm' = "no"
    /\ SendRequest("delete", "delete", seen.host = "running", confirm = "force")
    /\ UNCHANGED <<serverVars, view, seen, upgrade, rebuild, create, views>>

ConfirmDelete ==
    /\ confirm # "no" /\ confirm' = "no"
    /\ SendRequest("delete", "delete", confirm = "force", confirm = "force")
    /\ UNCHANGED <<serverVars, view, seen, upgrade, rebuild, create, views>>

-----------------------------------------------------------------------------
(* Rebuild dialog: the mode stays chosen; success closes it, whoever has   *)
(* opened it again.                                                        *)

OpenRebuild ==
    /\ view = "detail" /\ Idle /\ seen.host # "gone" /\ ~Pending("action")
    /\ rebuild' = [rebuild EXCEPT !.open = TRUE]
    /\ UNCHANGED <<serverVars, view, seen, flights, confirm, upgrade, create, requests, views>>

ChooseMode(mode) ==
    /\ rebuild.open /\ rebuild' = [rebuild EXCEPT !.mode = mode]
    /\ UNCHANGED <<serverVars, view, seen, flights, confirm, upgrade, create, requests, views>>

CloseRebuild ==
    /\ rebuild.open /\ rebuild' = [rebuild EXCEPT !.open = FALSE]
    /\ UNCHANGED <<serverVars, view, seen, flights, confirm, upgrade, create, requests, views>>

HandleRebuild ==
    /\ rebuild.open
    /\ SendRequest("rebuild", rebuild.mode, FALSE, FALSE)
    /\ UNCHANGED buttonVars

-----------------------------------------------------------------------------
(* Upgrade dialog: it becomes the progress of its task.                    *)

OpenUpgrade ==
    /\ view = "detail" /\ Idle /\ seen.host # "gone" /\ ~Pending("action")
    /\ upgrade' = [upgrade EXCEPT !.open = TRUE]
    /\ UNCHANGED <<serverVars, view, seen, flights, confirm, rebuild, create, requests, views>>

ConfirmUpgrade ==
    /\ upgrade.open /\ upgrade.task = 0
    /\ SendRequest("action", "upgrade", FALSE, FALSE)
    /\ UNCHANGED buttonVars

\* Closed by its cross or, when the task has ended, by its button.
CloseUpgrade ==
    /\ upgrade.open
    /\ upgrade' = NoUpgrade
    /\ UNCHANGED <<serverVars, view, seen, flights, confirm, rebuild, create, requests, views>>

\* A progress event of task t, of this host or another's.
UpgradeProgress(t) ==
    /\ view = "detail" /\ t = upgrade.task
    /\ upgrade' = [upgrade EXCEPT !.layers = t]
    /\ UNCHANGED <<serverVars, view, seen, flights, confirm, rebuild, create, requests, views>>

-----------------------------------------------------------------------------
(* Creation.  The only answer that carries the password is the creation's. *)

OpenCreate ==
    /\ view = "list" /\ Idle
    /\ create' = [create EXCEPT !.open = TRUE]
    /\ UNCHANGED <<serverVars, view, seen, flights, confirm, upgrade, rebuild, requests, views>>

SubmitCreate ==
    /\ create.open /\ create.task = 0
    /\ SendRequest("create", "create", FALSE, FALSE)
    /\ UNCHANGED buttonVars

\* Not the code: closed at any time.
CloseCreateAnyTime ==
    /\ create.open
    /\ create' = NoCreate
    /\ UNCHANGED <<serverVars, view, seen, flights, confirm, upgrade, rebuild, requests, views>>

\* Not while the task it tracks has not ended.
CloseCreate ==
    /\ create.open
    /\ create.task # 0 => Ended(create.task)
    /\ create' = NoCreate
    /\ UNCHANGED <<serverVars, view, seen, flights, confirm, upgrade, rebuild, requests, views>>

-----------------------------------------------------------------------------
(* The server, and the answers.                                            *)

Answered(f, is, task) == flights' = (flights \ {f}) \cup {[f EXCEPT !.is = is, !.task = task]}
GoesOn(f, is, idle)   == flights' = (flights \ {f}) \cup {[f EXCEPT !.is = is, !.idle = idle]}

consoleVars == <<view, seen, confirm, upgrade, rebuild, create, requests, views>>

QueueTask(f) ==
    /\ f.is = "sent" /\ f.ask \in Kinds
    /\ f.ask # "create" => host # "gone"
    /\ tasks' = Append(tasks, [kind |-> f.ask, is |-> "queued"])
    /\ Answered(f, "done", Len(tasks) + 1)
    /\ UNCHANGED <<host, alive, vnc, consoleVars>>

\* A deletion, under no lock.  A running host is deleted only by force, ...
CheckDelete(f) ==
    /\ f.is = "sent" /\ f.ask = "delete" /\ host # "gone"
    /\ f.force \/ host # "running"
    /\ GoesOn(f, "checked", host # "running")
    /\ UNCHANGED <<serverVars, consoleVars>>

\* ... its container, running or not, is removed, or the failure to is ignored, ...
RemoveContainer(f) ==
    /\ f.is = "checked"
    /\ \/ alive' = FALSE /\ vnc' = FALSE
       \/ UNCHANGED <<alive, vnc>>
    /\ GoesOn(f, "removed", FALSE)
    /\ UNCHANGED <<host, tasks, consoleVars>>

\* ... and its row, whatever has become of it.
DeleteRow(f) ==
    /\ f.is = "removed"
    /\ host' = "gone"
    /\ Answered(f, "done", 0)
    /\ UNCHANGED <<alive, vnc, tasks, consoleVars>>

StartDesktop(f) ==
    /\ f.is = "sent" /\ f.ask \in {"start vnc", "restart vnc"} /\ host = "running" /\ alive
    /\ vnc' = TRUE
    /\ Answered(f, "done", 0)
    /\ UNCHANGED <<host, alive, tasks, consoleVars>>

\* Refused, or failed at the row that is deleted.
Refuse(f) ==
    /\ f.is \in {"sent", "removed"}
    /\ Answered(f, "refused", 0)
    /\ UNCHANGED <<serverVars, consoleVars>>

TaskEnds(t, is) ==
    /\ ~Ended(t)
    /\ tasks' = [tasks EXCEPT ![t].is = is]
    /\ host' = CASE host = "gone" \/ tasks[t].kind = "create" -> host
                 [] is = "failed" -> "failed"
                 [] tasks[t].kind = "stop" -> "stopped"
                 [] OTHER -> "running"
    /\ alive' \in CASE host = "gone" \/ tasks[t].kind = "create" -> {alive}
                    [] is = "failed" -> BOOLEAN
                    [] OTHER -> {host' = "running"}
    /\ vnc' = (vnc /\ host' = "running")
    /\ UNCHANGED <<flights, consoleVars>>

PageAnswered(f) ==
    /\ f.is \in {"done", "refused"} /\ ~(f.hook = "delete" /\ f.is = "done" /\ view = "detail")
    /\ flights' = flights \ {f}
    /\ upgrade' = IF f.hook = "action" /\ f.ask = "upgrade" /\ f.is = "done"
                  THEN [upgrade EXCEPT !.task = f.task] ELSE upgrade
    /\ create'  = IF f.hook = "create" /\ f.is = "done"
                  THEN [create EXCEPT !.task = f.task, !.keys = f.task] ELSE create
    /\ rebuild' = IF f.hook = "rebuild" /\ f.is = "done" THEN [rebuild EXCEPT !.open = FALSE] ELSE rebuild
    /\ confirm' = IF f.hook = "delete" THEN "no" ELSE confirm
    /\ UNCHANGED <<serverVars, view, seen, requests, views>>

\* The detail page of a host that is no more: the console is loaded anew.
DeletedOnDetail(f) ==
    /\ f.hook = "delete" /\ f.is = "done" /\ view = "detail"
    /\ view' = "list"
    /\ seen' = [host |-> "gone", vnc |-> FALSE]
    /\ flights' = {[g EXCEPT !.hook = "nobody"] : g \in flights \ {f}}
    /\ confirm' = "no" /\ upgrade' = NoUpgrade /\ rebuild' = NoRebuild /\ create' = NoCreate
    /\ UNCHANGED <<serverVars, requests, views>>

-----------------------------------------------------------------------------
PagesNext ==
    \/ \E p \in {"list", "detail", "portal"}: OpenPage(p)
    \/ LeavePage \/ PollHost
    \/ \E kind \in {"start", "stop", "preserve"}: ListAction(kind) \/ DetailAction(kind)
    \/ DetailDesktop \/ PortalDesktop \/ PortalRebuild
    \/ ListDelete \/ DetailDelete \/ CancelDelete \/ ConfirmDelete
    \/ OpenRebuild \/ \E mode \in {"preserve", "factory"}: ChooseMode(mode)
    \/ CloseRebuild \/ HandleRebuild
    \/ OpenUpgrade \/ ConfirmUpgrade \/ CloseUpgrade
    \/ OpenCreate \/ SubmitCreate \/ CloseCreate
    \/ \E f \in flights: QueueTask(f) \/ CheckDelete(f) \/ RemoveContainer(f) \/ DeleteRow(f)
                        \/ StartDesktop(f) \/ Refuse(f) \/ PageAnswered(f) \/ DeletedOnDetail(f)
    \/ \E t \in DOMAIN tasks: \/ UpgradeProgress(t)
                              \/ \E is \in {"succeeded", "failed"}: TaskEnds(t, is)

PagesSpec == PagesInit /\ [][PagesNext]_pagesVars

-----------------------------------------------------------------------------
(* Types of all variables.                                                 *)
PagesTypeOK ==
    /\ host \in Statuses \cup {"gone"} /\ alive \in BOOLEAN /\ vnc \in BOOLEAN
    /\ tasks \in Seq([kind: Kinds, is: {"queued", "succeeded", "failed"}])
    /\ view \in {"list", "detail", "portal", "none"}
    /\ seen \in [host: Statuses \cup {"gone"}, vnc: BOOLEAN]
    /\ flights \subseteq
          [hook: {"action", "desktop", "rebuild", "delete", "create", "nobody"},
           ask: Kinds \cup {"delete", "start vnc", "restart vnc"},
           force: BOOLEAN, warned: BOOLEAN, is: {"sent", "checked", "removed", "done", "refused"},
           idle: BOOLEAN, task: 0..Len(tasks)]
    /\ confirm \in {"no", "plain", "force"} /\ rebuild \in [open: BOOLEAN, mode: {"preserve", "factory"}]
    /\ upgrade \in [open: BOOLEAN, task: 0..Len(tasks), layers: 0..Len(tasks)]
    /\ create \in [open: BOOLEAN, task: 0..Len(tasks), keys: 0..Len(tasks)]
    /\ requests \in 0..MaxRequests /\ views \in 0..MaxPageViews

(* A deletion takes a running container away only if its dialog has said   *)
(* that the host is running, whatever polls came between opening the       *)
(* dialog and confirming it, or if the host was at rest when the server    *)
(* checked and has been started since: nothing holds it between the two.   *)
DeletedAsWarned ==
    [][(alive /\ ~alive' /\ tasks' = tasks)
          => \E f \in flights: f.ask = "delete" /\ f.is = "checked" /\ (f.warned \/ f.idle)]_pagesVars

(* The password that came with a new host is not dropped before the task   *)
(* that creates the host has ended, while the page stays.                  *)
PasswordKept ==
    [][(create.keys # 0 /\ create'.keys = 0 /\ view' = view) => Ended(create.keys)]_pagesVars
=============================================================================
