------------------------------ MODULE BypassTab ------------------------------
(***************************************************************************)
(* The bypass section of a host's page: rules and preset bindings, shown   *)
(* as they were last fetched; the Apply button, enabled while what is      *)
(* shown differs from a baseline; the dialog that sends an apply and       *)
(* follows its task; the drawer that edits one rule, and the confirmation  *)
(* of short keywords.                                                      *)
(*                                                                         *)
(* A rule is its value.  The presets are the forced ones.  What a snapshot *)
(* does in the container is BypassSnapshot's subject.                      *)
(***************************************************************************)
EXTENDS Integers, Sequences, FiniteSets

CONSTANTS
    Rules, Presets,
    Short,      \* the keywords among the rules with fewer than 4 characters
    NoRule,
    MaxEdits,   \* bound: requests for an edit
    MaxApplies, \* bound: applies
    MaxVisits   \* bound: times the tab is opened

ASSUME TabAssumption ==
    /\ Rules \cap Presets = {} /\ Short \subseteq Rules /\ NoRule \notin Rules \cup Presets
    /\ {MaxEdits, MaxApplies, MaxVisits} \subseteq Nat

VARIABLES
    stored,   \* in the database: rules and bound presets
    live,     \* content of the last apply whose task succeeded
    applies,  \* the applies sent, in order
    asked,    \* edits under way
    shown,    \* what the rule and binding queries hold
    loaded,   \* per query: "no", "failed" or "data"
    baseline, \* a set of entries, or NoRule while the tab is not shown or loads
    preview,  \* is handleApply waiting for its preview
    dialog,   \* apply-progress-dialog.tsx
    timers,   \* the 500 ms timers that will close it
    drawer,   \* bypass-rule-drawer.tsx and risky-keyword-confirm.tsx
    tab,      \* is the tab on the screen, and did its first load bind presets
    ticked,   \* short keywords acknowledged while they were shown (history)
    edits, openings

tabVars == <<stored, live, applies, asked, shown, loaded, baseline, preview, dialog, timers,
             drawer, tab, ticked, edits, openings>>

Entries  == Rules \cup Presets
NoDialog == [open |-> FALSE, apply |-> 0, task |-> 0, failed |-> FALSE, done |-> FALSE, calm |-> TRUE]
NoDrawer == [open |-> FALSE, rule |-> NoRule, saving |-> FALSE, confirm |-> NoRule, ack |-> FALSE]

AllLoaded  == \A part \in DOMAIN loaded: loaded[part] # "no"
Dirty   == baseline # {NoRule} /\ shown # baseline
Page    == tab.shown /\ ~dialog.open /\ ~drawer.open

\* An edit request: "add", "drop" or "put" (a new value for a rule).
Edit(op, old, new, confirm) == [op |-> op, old |-> old, new |-> new, confirm |-> confirm, drawer |-> FALSE]
ByDrawer(e) == [e EXCEPT !.drawer = TRUE]

SendEdits(es) ==
    /\ edits < MaxEdits /\ edits' = edits + 1
    /\ asked' = asked \cup es

TabInit ==
    /\ stored = Presets /\ live = Presets
    /\ applies = <<>> /\ asked = {} /\ shown = {}
    /\ loaded = [part \in {"rules", "bindings"} |-> "no"]
    /\ baseline = {NoRule} /\ preview = FALSE
    /\ dialog = NoDialog /\ timers = 0 /\ drawer = NoDrawer
    /\ tab = [shown |-> FALSE, bound |-> FALSE]
    /\ ticked = {} /\ edits = 0 /\ openings = 0

-----------------------------------------------------------------------------
(* Effects that run whenever what is shown changes.                        *)

\* The baseline is what is shown once all has been fetched for the first time.
Baseline(view, ld) ==
    baseline' = IF baseline = {NoRule} /\ \A part \in DOMAIN ld: ld[part] # "no" THEN view ELSE baseline

\* The first bindings that arrive: forced presets they lack are bound.
AutoBind(view, ld) ==
    IF ~tab.bound /\ ld["bindings"] = "data"
    THEN /\ tab' = [shown |-> TRUE, bound |-> TRUE]
         /\ asked' = asked \cup {Edit("add", NoRule, p, FALSE) : p \in Presets \ view}
    ELSE tab' = [tab EXCEPT !.shown = TRUE] /\ UNCHANGED asked

\* The queries keep their data, the tab nothing.
OpenTab ==
    /\ ~tab.shown
    /\ openings < MaxVisits /\ openings' = openings + 1
    /\ Baseline(shown, loaded) /\ AutoBind(shown, loaded)
    /\ UNCHANGED <<stored, live, applies, shown, loaded, preview, dialog, timers, drawer, ticked, edits>>

LeaveTab ==
    /\ tab.shown
    /\ tab' = [shown |-> FALSE, bound |-> FALSE]
    /\ baseline' = {NoRule} /\ preview' = FALSE
    /\ dialog' = NoDialog /\ timers' = 0 /\ drawer' = NoDrawer
    /\ UNCHANGED <<stored, live, applies, asked, shown, loaded, ticked, edits, openings>>

Of(part) == IF part = "rules" THEN Rules ELSE Presets

FetchArrives(part) ==
    LET view == (shown \ Of(part)) \cup (stored \cap Of(part))
        ld   == [loaded EXCEPT ![part] = "data"]
    IN  /\ tab.shown
        /\ shown' = view /\ loaded' = ld
        /\ Baseline(view, ld) /\ AutoBind(view, ld)
        /\ UNCHANGED <<stored, live, applies, preview, dialog, timers, drawer, ticked, edits, openings>>

\* isFetched holds of a query that failed, too.
TabFetchFails(part) ==
    LET ld == [loaded EXCEPT ![part] = "failed"]
    IN  /\ tab.shown /\ loaded[part] = "no"
        /\ loaded' = ld
        /\ Baseline(shown, ld)
        /\ UNCHANGED <<stored, live, applies, asked, shown, preview, dialog, timers, drawer, tab,
                       ticked, edits, openings>>

-----------------------------------------------------------------------------
(* Edits from the page.                                                    *)

tabRest == <<stored, live, applies, shown, loaded, baseline, preview, dialog, timers, tab, ticked, openings>>

DeleteRule(r) ==
    /\ Page /\ r \in shown \cap Rules
    /\ SendEdits({Edit("drop", r, NoRule, FALSE)})
    /\ UNCHANGED <<tabRest, drawer>>

DeletePreset(p) ==
    /\ Page /\ p \in shown \cap Presets
    /\ SendEdits({Edit("drop", p, NoRule, FALSE)})
    /\ UNCHANGED <<tabRest, drawer>>

\* The rules of a file, all at once, each confirmed.
ImportRules(rs) ==
    /\ Page /\ rs # {}
    /\ \A e \in asked: e.op # "add" \/ e.drawer
    /\ SendEdits({Edit("add", NoRule, r, TRUE) : r \in rs})
    /\ ticked' = ticked \cup (rs \cap Short)
    /\ UNCHANGED <<stored, live, applies, shown, loaded, baseline, preview, dialog, timers, drawer, tab, openings>>

ExecuteRestore ==
    /\ Page
    /\ SendEdits({Edit("drop", r, NoRule, FALSE) : r \in shown \cap Rules}
            \cup IF loaded["bindings"] = "data"
                 THEN {Edit("add", NoRule, p, FALSE) : p \in Presets \ shown} ELSE {})
    /\ UNCHANGED <<tabRest, drawer>>

-----------------------------------------------------------------------------
(* The drawer.  Its buttons are disabled while it saves; a click outside   *)
(* closes it all the same.                                                 *)

drawerVars == <<stored, live, applies, shown, loaded, baseline, preview, dialog, timers, tab, openings>>

OpenDrawer(r) ==
    /\ Page /\ r \in (shown \cap Rules) \cup {NoRule}
    /\ drawer' = [drawer EXCEPT !.open = TRUE, !.rule = r]
    /\ UNCHANGED <<drawerVars, asked, ticked, edits>>

CloseDrawer ==
    /\ drawer.open /\ drawer.confirm = NoRule
    /\ drawer' = [drawer EXCEPT !.open = FALSE]
    /\ UNCHANGED <<drawerVars, asked, ticked, edits>>

SubmitPayload(value, confirm) ==
    SendEdits({ByDrawer(IF drawer.rule = NoRule THEN Edit("add", NoRule, value, confirm)
                                         ELSE Edit("put", drawer.rule, value, confirm))})

\* Not the code: what was ticked for one keyword stays ticked for the next.
OnSubmitTicked(value) ==
    /\ drawer.open /\ ~drawer.saving /\ drawer.confirm = NoRule
    /\ IF value \in Short
       THEN drawer' = [drawer EXCEPT !.confirm = value] /\ UNCHANGED <<asked, edits>>
       ELSE drawer' = [drawer EXCEPT !.saving = TRUE] /\ SubmitPayload(value, FALSE)
    /\ UNCHANGED <<drawerVars, ticked>>

\* A short keyword waits for its confirmation; other values are sent.
OnSubmit(value) ==
    /\ drawer.open /\ ~drawer.saving /\ drawer.confirm = NoRule
    /\ IF value \in Short
       THEN drawer' = [drawer EXCEPT !.confirm = value, !.ack = FALSE] /\ UNCHANGED <<asked, edits>>
       ELSE drawer' = [drawer EXCEPT !.saving = TRUE] /\ SubmitPayload(value, FALSE)
    /\ UNCHANGED <<drawerVars, ticked>>

TickAck ==
    /\ drawer.confirm # NoRule
    /\ drawer' = [drawer EXCEPT !.ack = TRUE]
    /\ ticked' = ticked \cup {drawer.confirm}
    /\ UNCHANGED <<drawerVars, asked, edits>>

ConfirmRisky ==
    /\ drawer.confirm # NoRule /\ drawer.ack
    /\ SubmitPayload(drawer.confirm, TRUE)
    /\ drawer' = [drawer EXCEPT !.confirm = NoRule, !.saving = TRUE]
    /\ UNCHANGED <<drawerVars, ticked>>

CancelRisky ==
    /\ drawer.confirm # NoRule
    /\ drawer' = [drawer EXCEPT !.confirm = NoRule]
    /\ UNCHANGED <<drawerVars, asked, ticked, edits>>

-----------------------------------------------------------------------------
(* The server's handlers for edits (admin_bypass_rules.go).                *)

\* A short keyword must come confirmed; a value is there once.
Accepts(e) ==
    /\ e.new \in Short => e.confirm
    /\ e.old # NoRule => e.old \in stored
    /\ e.new # NoRule => e.new \notin stored

\* The answer reaches the drawer that asked, as it is now; it may be lost.
AnswerDrawer(e, told) ==
    drawer' = IF ~e.drawer \/ ~drawer.saving THEN drawer
              ELSE [drawer EXCEPT !.saving = FALSE, !.open = @ /\ ~told]

ApplyEdit(e) ==
    /\ e \in asked /\ Accepts(e)
    /\ asked' = asked \ {e}
    /\ stored' = (stored \ {e.old}) \cup ({e.new} \ {NoRule})
    /\ dialog' = [dialog EXCEPT !.calm = ~dialog.open]
    /\ \E told \in BOOLEAN: AnswerDrawer(e, told)
    /\ UNCHANGED <<live, applies, shown, loaded, baseline, preview, timers, tab, ticked, edits, openings>>

RefuseEdit(e) ==
    /\ e \in asked
    /\ asked' = asked \ {e}
    /\ AnswerDrawer(e, FALSE)
    /\ UNCHANGED <<tabRest, edits>>

-----------------------------------------------------------------------------
(* Apply.                                                                  *)

HandleApply ==
    /\ Page /\ Dirty /\ ~preview
    /\ preview' = TRUE
    /\ UNCHANGED <<stored, live, applies, asked, shown, loaded, baseline, dialog, timers, drawer, tab,
                   ticked, edits, openings>>

applyVars == <<stored, asked, shown, loaded, tab, ticked, edits, openings>>

\* The dialog opens, over whatever is on the page by now, and sends its apply.
PreviewArrives ==
    /\ preview /\ preview' = FALSE
    /\ Len(applies) < MaxApplies
    /\ applies' = Append(applies, [content |-> {}, is |-> "sent", told |-> FALSE])
    /\ dialog' = [dialog EXCEPT !.open = TRUE, !.calm = TRUE, !.apply = Len(applies) + 1]
    /\ UNCHANGED <<applyVars, live, baseline, timers, drawer>>

PreviewFails ==
    /\ preview /\ preview' = FALSE
    /\ UNCHANGED <<applyVars, live, applies, baseline, dialog, timers, drawer>>

\* The handler renders what is stored; its task is queued, or ("alone") queueing
\* fails and it answers without one, or it fails.
TakeSnapshot(n) ==
    /\ applies[n].is = "sent"
    /\ \E is \in {"running", "alone", "refused"}:
          applies' = [applies EXCEPT ![n].is = is, ![n].content = stored]
    /\ UNCHANGED <<applyVars, live, baseline, preview, dialog, timers, drawer>>

\* mutate's callbacks: only for the opening that sent it.
AnswerApply(n) ==
    /\ applies[n].is # "sent" /\ ~applies[n].told
    /\ applies' = [applies EXCEPT ![n].told = TRUE]
    /\ dialog' = IF dialog.apply # n THEN dialog
                 ELSE IF applies[n].is = "refused" THEN [dialog EXCEPT !.failed = TRUE]
                 ELSE IF applies[n].is = "alone" THEN dialog ELSE [dialog EXCEPT !.task = n]
    /\ UNCHANGED <<applyVars, live, baseline, preview, timers, drawer>>

WorkerEnds(n, is) ==
    /\ applies[n].is = "running"
    /\ applies' = [applies EXCEPT ![n].is = is]
    /\ live' = IF is = "succeeded" THEN applies[n].content ELSE live
    /\ UNCHANGED <<applyVars, baseline, preview, dialog, timers, drawer>>

Tracked(is) == dialog.task # 0 /\ applies[dialog.task].is = is

\* Not the code: at every poll.
PollSucceededAgain ==
    /\ Tracked("succeeded")
    /\ dialog' = [dialog EXCEPT !.done = TRUE]
    /\ baseline' = shown
    /\ timers' = timers + 1
    /\ UNCHANGED <<applyVars, live, applies, preview, drawer>>

\* markApplied, once per opening; the dialog will close.
PollSucceeded ==
    /\ Tracked("succeeded") /\ ~dialog.done
    /\ dialog' = [dialog EXCEPT !.done = TRUE]
    /\ baseline' = shown
    /\ timers' = timers + 1
    /\ UNCHANGED <<applyVars, live, applies, preview, drawer>>

PollFailed ==
    /\ Tracked("failed") /\ ~dialog.failed
    /\ dialog' = [dialog EXCEPT !.failed = TRUE]
    /\ UNCHANGED <<applyVars, live, applies, baseline, preview, timers, drawer>>

\* Not the code: closing hides the dialog and keeps what it knows.
HideDialog == dialog' = [dialog EXCEPT !.open = FALSE]

\* The effect on closing: the mutation is reset, the task forgotten.
ResetDialog == dialog' = NoDialog

CloseDialog ==
    /\ dialog.open
    /\ ResetDialog
    /\ UNCHANGED <<applyVars, live, applies, baseline, preview, timers, drawer>>

\* It is not cleared on closing: it closes the dialog that is open by then.
TimerFires ==
    /\ timers > 0 /\ timers' = timers - 1
    /\ ResetDialog
    /\ UNCHANGED <<applyVars, live, applies, baseline, preview, drawer>>

-----------------------------------------------------------------------------
TabNext ==
    \/ OpenTab \/ LeaveTab
    \/ \E part \in DOMAIN loaded: FetchArrives(part) \/ TabFetchFails(part)
    \/ \E r \in Rules: DeleteRule(r) \/ OnSubmit(r)
    \/ \E p \in Presets: DeletePreset(p)
    \/ \E rs \in SUBSET Rules: ImportRules(rs)
    \/ ExecuteRestore
    \/ \E r \in Rules \cup {NoRule}: OpenDrawer(r)
    \/ CloseDrawer \/ TickAck \/ ConfirmRisky \/ CancelRisky
    \/ \E e \in asked: ApplyEdit(e) \/ RefuseEdit(e)
    \/ HandleApply \/ PreviewArrives \/ PreviewFails
    \/ \E n \in DOMAIN applies: \/ TakeSnapshot(n) \/ AnswerApply(n)
                                \/ \E is \in {"succeeded", "failed"}: WorkerEnds(n, is)
    \/ PollSucceeded \/ PollFailed \/ CloseDialog \/ TimerFires

TabSpec == TabInit /\ [][TabNext]_tabVars

-----------------------------------------------------------------------------
(* Types of all variables.                                                 *)
TabTypeOK ==
    /\ stored \subseteq Entries /\ live \subseteq Entries /\ shown \subseteq Entries
    /\ applies \in Seq([content: SUBSET Entries, told: BOOLEAN,
                        is: {"sent", "running", "alone", "refused", "succeeded", "failed"}])
    /\ Len(applies) <= MaxApplies
    /\ asked \subseteq [op: {"add", "drop", "put"}, old: Entries \cup {NoRule}, new: Entries \cup {NoRule},
                        confirm: BOOLEAN, drawer: BOOLEAN]
    /\ loaded \in [{"rules", "bindings"} -> {"no", "failed", "data"}]
    /\ baseline \subseteq Entries \/ baseline = {NoRule}
    /\ preview \in BOOLEAN /\ timers \in 0..MaxApplies
    /\ dialog \in [open: BOOLEAN, apply: 0..Len(applies), task: 0..Len(applies), failed: BOOLEAN,
                   done: BOOLEAN, calm: BOOLEAN]
    /\ drawer \in [open: BOOLEAN, rule: Rules \cup {NoRule}, saving: BOOLEAN, confirm: Short \cup {NoRule},
                   ack: BOOLEAN]
    /\ tab \in [shown: BOOLEAN, bound: BOOLEAN]
    /\ ticked \subseteq Short /\ edits \in 0..MaxEdits /\ openings \in 0..MaxVisits

(* A short keyword is in the database only when somebody has acknowledged  *)
(* that very keyword, or imported it from a file.                          *)
ShortAcknowledged == stored \cap Short \subseteq ticked

(* When the tab marks what it shows as applied, a task has brought exactly *)
(* that live, if no edit reached the server while the dialog was open and  *)
(* what is shown is what is stored.                                        *)
MarksWhatRuns ==
    [][baseline' \notin {baseline, {NoRule}} /\ dialog.open /\ dialog.calm /\ shown = stored
          => \E n \in DOMAIN applies: applies[n].is = "succeeded" /\ applies[n].content = baseline'
                                      /\ n = dialog.apply]_tabVars
=============================================================================
