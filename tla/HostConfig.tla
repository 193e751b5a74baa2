------------------------------ MODULE HostConfig ------------------------------
(***************************************************************************)
(* The configuration section of a host's page: the change of the egress    *)
(* binding, in two requests, and the editors of the resource limits and of *)
(* the mounts, each with a draft of its own, while polls bring what others *)
(* have changed.                                                           *)
(***************************************************************************)
EXTENDS Integers, FiniteSets

CONSTANTS
    Ips,       \* egress addresses that are free, or bound to this host
    Contents,  \* what an editor can hold
    Nothing,
    MaxClicks, \* bound: changes and saves of this page
    MaxOthers  \* bound: changes by others

ASSUME ConfigAssumption ==
    /\ Nothing \notin Ips /\ Nothing \notin Contents
    /\ {MaxClicks, MaxOthers} \subseteq Nat

VARIABLES
    up,        \* server: is the host running
    bound,     \* server: its egress address, or Nothing
    content,   \* server: per editor
    got,       \* what the page has fetched of the three
    section,   \* is the section unfolded
    selected,  \* the address chosen in the binding's list
    change,    \* where the change is: "no", "unbinding", "unbound" or "binding"
    target,    \* the address it will bind
    listening, \* is the component that started it still mounted
    abandoned, \* a change ended, or was left, between its two requests (history)
    editor,    \* per editor: open, draft, request under way
    typed,     \* what the user last chose there, Nothing if nothing is owed to him (history)
    clicks, others

configVars == <<up, bound, content, got, section, selected, change, target, listening, abandoned, editor, typed,
                clicks, others>>

Editors == {"limits", "mounts"}
Closed  == [open |-> FALSE, draft |-> Nothing, sent |-> Nothing, is |-> "no"]
Server  == [up |-> up, bound |-> bound, content |-> content]

\* MountManager keeps the rows it was mounted with.
Unfolded(view) == [open |-> TRUE, draft |-> view.content["mounts"], sent |-> Nothing, is |-> "no"]

ConfigInit ==
    /\ up \in BOOLEAN /\ bound \in Ips
    /\ content \in [Editors -> Contents]
    /\ got = Server
    /\ section = TRUE /\ selected = Nothing /\ change = "no" /\ target = Nothing /\ listening = FALSE /\ abandoned = FALSE
    /\ editor = [e \in Editors |-> IF e = "limits" THEN Closed ELSE Unfolded(got)]
    /\ typed = [e \in Editors |-> Nothing]
    /\ clicks = 0 /\ others = 0

Click == clicks < MaxClicks /\ clicks' = clicks + 1

-----------------------------------------------------------------------------
(* The page.  What folding leaves under way has ended before the section   *)
(* is used again.                                                          *)

\* Not the code: a draft follows what is fetched.
PollFillsDrafts ==
    /\ got' = Server
    /\ editor' = [e \in Editors |-> [editor[e] EXCEPT !.draft = IF @ = Nothing THEN @ ELSE content[e]]]
    /\ UNCHANGED <<up, bound, content, section, selected, change, target, listening, abandoned, typed, clicks, others>>

PollConfig ==
    /\ got' = Server
    /\ UNCHANGED <<up, bound, content, section, selected, change, target, listening, abandoned, editor, typed, clicks,
                   others>>

\* Folding unmounts the binding's and the mounts' components: their state is lost,
\* what they have sent is not.
Fold ==
    /\ section /\ section' = FALSE
    /\ selected' = Nothing
    /\ listening' = FALSE
    /\ abandoned' = (abandoned \/ change \in {"unbinding", "unbound"})
    /\ editor' = [editor EXCEPT !["mounts"] = [Closed EXCEPT !.sent = editor["mounts"].sent,
                                                            !.is = editor["mounts"].is]]
    /\ typed' = [typed EXCEPT !["mounts"] = Nothing]
    /\ UNCHANGED <<up, bound, content, got, change, target, clicks, others>>

Unfold ==
    /\ ~section /\ editor["mounts"].is = "no" /\ change = "no" /\ section' = TRUE
    /\ editor' = [editor EXCEPT !["mounts"] = Unfolded(got)]
    /\ UNCHANGED <<up, bound, content, got, selected, change, target, listening, abandoned, typed, clicks, others>>

-----------------------------------------------------------------------------
(* The binding.                                                            *)

bindingVars == <<up, content, got, section, editor, typed, others>>

\* Addresses of the list: the free ones that the page does not know as bound.
SelectIp(ip) ==
    /\ section /\ ~got.up /\ ip # got.bound
    /\ selected' = ip
    /\ UNCHANGED <<bindingVars, bound, change, target, listening, abandoned, clicks>>

\* Without a current binding the button does nothing.
HandleChange ==
    /\ section /\ ~got.up /\ selected # Nothing /\ change = "no"
    /\ got.bound # Nothing
    /\ Click
    /\ change' = "unbinding" /\ target' = selected /\ listening' = TRUE
    /\ UNCHANGED <<bindingVars, bound, selected, abandoned>>

\* admin_bindings.go: the binding it names is there and the host is not running.
Unbind ==
    /\ change = "unbinding" /\ ~up /\ bound = got.bound /\ bound # Nothing
    /\ bound' = Nothing /\ change' = "unbound"
    /\ UNCHANGED <<bindingVars, selected, target, listening, abandoned, clicks>>

\* Or its answer is lost, after it was done or before.
UnbindFails ==
    /\ change \in {"unbinding", "unbound"} /\ change' = "no"
    /\ abandoned' = (abandoned \/ change = "unbound")
    /\ UNCHANGED <<bindingVars, bound, selected, target, listening, clicks>>

\* Not the code: the second request waits for another click.
BindByHand ==
    /\ change = "unbound" /\ listening /\ change' = "no"
    /\ UNCHANGED <<bindingVars, bound, selected, target, listening, abandoned, clicks>>

\* The callback of the first request sends the second, if it is still called.
BindNext ==
    /\ change = "unbound" /\ listening /\ change' = "binding"
    /\ UNCHANGED <<bindingVars, bound, selected, target, listening, abandoned, clicks>>

Bind ==
    /\ change = "binding" /\ ~up /\ bound = Nothing
    /\ bound' = target /\ change' = "no" /\ selected' = Nothing
    /\ UNCHANGED <<bindingVars, target, listening, abandoned, clicks>>

\* The host has been started, the address taken, the request lost.
BindFails ==
    /\ change = "binding" /\ change' = "no"
    /\ abandoned' = TRUE
    /\ UNCHANGED <<bindingVars, bound, selected, target, listening, clicks>>

-----------------------------------------------------------------------------
(* The editors.                                                            *)

editorVars == <<up, bound, got, section, selected, change, target, listening, abandoned, others>>

\* Limits may be edited while the host runs.
EditLimits ==
    /\ section /\ ~editor["limits"].open
    /\ editor' = [editor EXCEPT !["limits"].open = TRUE, !["limits"].draft = got.content["limits"]]
    /\ UNCHANGED <<editorVars, content, typed, clicks>>

CancelLimits ==
    /\ section /\ editor["limits"].open
    /\ editor' = [editor EXCEPT !["limits"].open = FALSE]
    /\ typed' = [typed EXCEPT !["limits"] = Nothing]
    /\ UNCHANGED <<editorVars, content, clicks>>

Editable(e) == section /\ editor[e].open /\ (e = "mounts" => ~got.up)

Type(e, c) ==
    /\ Editable(e) /\ c # editor[e].draft
    /\ editor' = [editor EXCEPT ![e].draft = c]
    /\ typed' = [typed EXCEPT ![e] = c]
    /\ UNCHANGED <<editorVars, content, clicks>>

SaveLimits ==
    /\ Editable("limits") /\ editor["limits"].is = "no"
    /\ Click
    /\ editor' = [editor EXCEPT !["limits"].is = "sent", !["limits"].sent = editor["limits"].draft]
    /\ UNCHANGED <<editorVars, content, typed>>

\* The button is there when the draft differs from what was fetched.
SaveMounts ==
    /\ Editable("mounts") /\ editor["mounts"].is = "no"
    /\ editor["mounts"].draft # got.content["mounts"]
    /\ Click
    /\ editor' = [editor EXCEPT !["mounts"].is = "sent", !["mounts"].sent = editor["mounts"].draft]
    /\ UNCHANGED <<editorVars, content, typed>>

\* The server takes new mounts of a host that has been started meanwhile, too.
SaveServed(e) ==
    /\ editor[e].is = "sent"
    /\ content' = [content EXCEPT ![e] = editor[e].sent]
    /\ editor' = [editor EXCEPT ![e].is = "done"]
    /\ UNCHANGED <<editorVars, typed, clicks>>

\* Success closes the editor of limits, and gives the mounts' the rows that were
\* sent, whatever was typed meanwhile.
Saved(e) ==
    LET s == [editor[e] EXCEPT !.is = "no", !.sent = Nothing]
    IN  IF e = "limits" THEN [s EXCEPT !.open = FALSE]
        ELSE IF section THEN [s EXCEPT !.draft = editor[e].sent]
        ELSE s

SaveSucceeds(e) ==
    /\ editor[e].is = "done"
    /\ editor' = [editor EXCEPT ![e] = Saved(e)]
    /\ typed' = [typed EXCEPT ![e] = Nothing]
    /\ UNCHANGED <<editorVars, content, clicks>>

SaveFails(e) ==
    /\ editor[e].is # "no"
    /\ editor' = [editor EXCEPT ![e].is = "no", ![e].sent = Nothing]
    /\ UNCHANGED <<editorVars, content, typed, clicks>>

-----------------------------------------------------------------------------
(* Other consoles, and the worker that starts and stops the host.          *)

OthersChange ==
    /\ others < MaxOthers /\ others' = others + 1
    /\ \/ up' = ~up /\ UNCHANGED <<bound, content>>
       \/ bound # Nothing /\ \E ip \in Ips: bound' = ip /\ UNCHANGED <<up, content>>
       \/ \E e \in Editors, c \in Contents: content' = [content EXCEPT ![e] = c] /\ UNCHANGED <<up, bound>>
    /\ UNCHANGED <<got, section, selected, change, target, listening, abandoned, editor, typed, clicks>>

ConfigNext ==
    \/ PollConfig \/ Fold \/ Unfold
    \/ \E ip \in Ips: SelectIp(ip)
    \/ HandleChange \/ Unbind \/ UnbindFails \/ BindNext \/ Bind \/ BindFails
    \/ EditLimits \/ CancelLimits \/ SaveLimits \/ SaveMounts
    \/ \E e \in Editors: \/ SaveServed(e) \/ SaveSucceeds(e) \/ SaveFails(e)
                         \/ \E c \in Contents: Type(e, c)
    \/ OthersChange

ConfigSpec == ConfigInit /\ [][ConfigNext]_configVars

-----------------------------------------------------------------------------
(* Types of all variables.                                                 *)
ConfigTypeOK ==
    /\ up \in BOOLEAN /\ bound \in Ips \cup {Nothing} /\ content \in [Editors -> Contents]
    /\ got \in [up: BOOLEAN, bound: Ips \cup {Nothing}, content: [Editors -> Contents]]
    /\ section \in BOOLEAN /\ selected \in Ips \cup {Nothing} /\ target \in Ips \cup {Nothing}
    /\ change \in {"no", "unbinding", "unbound", "binding"} /\ abandoned \in BOOLEAN
    /\ listening \in BOOLEAN
    /\ editor \in [Editors -> [open: BOOLEAN, draft: Contents \cup {Nothing}, sent: Contents \cup {Nothing},
                               is: {"no", "sent", "done"}]]
    /\ typed \in [Editors -> Contents \cup {Nothing}]
    /\ clicks \in 0..MaxClicks /\ others \in 0..MaxOthers

(* A host is without an egress address only between the two requests of a  *)
(* change, or after a change that failed or was left between them.         *)
BoundAfterChange == bound = Nothing => change \in {"unbound", "binding"} \/ abandoned

(* What the user has typed stays in the editor until he saves or drops it: *)
(* polls, others' changes and failed saves do not touch it.                *)
TypedKept == \A e \in Editors: typed[e] # Nothing => editor[e].draft = typed[e]
=============================================================================
