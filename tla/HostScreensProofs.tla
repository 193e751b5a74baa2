-------------------------- MODULE HostScreensProofs --------------------------
(***************************************************************************)
(* Proofs about the screens of one host, each for itself: the bypass       *)
(* section, the pages, the configuration section, the fields of paths; and *)
(* about the four together.  They hold for any rules, presets, addresses,  *)
(* contents and paths, and any number of edits, applies, visits, requests, *)
(* page views, clicks and rows.                                            *)
(***************************************************************************)
EXTENDS MCHostScreens, FilterProofs, TLAPS

-----------------------------------------------------------------------------
(***************************************************************************)
(* BypassTab: no short keyword slips through, what is marked runs.         *)
(***************************************************************************)
USE DEF Entries

-----------------------------------------------------------------------------
(* Entries: NoRule is none, wherever entries go.                           *)

Requests == [op: {"add", "drop", "put"}, old: Entries \cup {NoRule}, new: Entries \cup {NoRule},
             confirm: BOOLEAN, drawer: BOOLEAN]
Drawers  == [open: BOOLEAN, rule: Rules \cup {NoRule}, saving: BOOLEAN, confirm: Short \cup {NoRule},
             ack: BOOLEAN]

EntriesOK ==
    /\ stored \subseteq Entries /\ shown \subseteq Entries
    /\ asked \subseteq Requests
    /\ drawer \in Drawers

-----------------------------------------------------------------------------
(* Short keywords.  What is asked for, confirmed, was acknowledged; so was *)
(* what a ticked confirmation shows.                                       *)

Acknowledged(e) == e.new \in Short /\ e.confirm => e.new \in ticked

Acks ==
    /\ EntriesOK
    /\ ShortAcknowledged
    /\ \A e \in asked: Acknowledged(e)
    /\ drawer.confirm # NoRule /\ drawer.ack => drawer.confirm \in ticked

\* More is asked for, and nothing of it is a short keyword that nobody acknowledged.
LEMMA AsksMore ==
    ASSUME Acks, NEW es, es \subseteq Requests, asked' \subseteq asked \cup es,
           stored' = stored, drawer' = drawer, shown' \subseteq Entries, ticked \subseteq ticked',
           \A e \in es: e.new \in Short /\ e.confirm => e.new \in ticked'
    PROVE  Acks'
BY DEF Acks, EntriesOK, ShortAcknowledged, Acknowledged

LEMMA AsksAcknowledged ==
    ASSUME Acks,
           \/ OpenTab \/ (\E part \in DOMAIN loaded: FetchArrives(part))
           \/ (\E r \in Rules: DeleteRule(r)) \/ (\E p \in Presets: DeletePreset(p))
           \/ (\E rs \in SUBSET Rules: ImportRules(rs)) \/ ExecuteRestore
    PROVE  Acks'
<1>2. shown \subseteq Entries /\ stored \subseteq Entries
  BY DEF Acks, EntriesOK
<1> DEFINE Adds(S)     == {Edit("add", NoRule, p, FALSE): p \in S}
           Drops(S)    == {Edit("drop", x, NoRule, FALSE): x \in S}
           Imports(rs) == {Edit("add", NoRule, r, TRUE): r \in rs}
<1>3. ASSUME NEW S \in SUBSET Entries
      PROVE  Adds(S) \subseteq Requests /\ \A e \in Adds(S): ~e.confirm
  <2>1. \A x \in S: /\ Edit("add", NoRule, x, FALSE) \in Requests
                    /\ Edit("add", NoRule, x, FALSE).confirm = FALSE
    BY DEF Edit, Requests
  <2> QED
    BY <2>1
<1>4. ASSUME NEW S \in SUBSET Entries
      PROVE  Drops(S) \subseteq Requests /\ \A e \in Drops(S): ~e.confirm
  <2>1. \A x \in S: /\ Edit("drop", x, NoRule, FALSE) \in Requests
                    /\ Edit("drop", x, NoRule, FALSE).confirm = FALSE
    BY DEF Edit, Requests
  <2> QED
    BY <2>1
<1>5. ASSUME NEW rs \in SUBSET Rules
      PROVE  Imports(rs) \subseteq Requests /\ \A e \in Imports(rs): e.new \in rs
  <2>1. \A x \in rs: /\ Edit("add", NoRule, x, TRUE) \in Requests
                     /\ Edit("add", NoRule, x, TRUE).new = x
    BY DEF Edit, Requests
  <2> QED
    BY <2>1
<1>6. CASE OpenTab \/ \E part \in DOMAIN loaded: FetchArrives(part)
  <2>1. UNCHANGED <<stored, drawer, ticked>> /\ shown' \subseteq Entries
    BY <1>2, <1>6 DEF OpenTab, FetchArrives, Of
  <2>2. PICK S \in SUBSET Presets: asked' \subseteq asked \cup Adds(S)
    <3>1. CASE OpenTab
      BY <3>1 DEF OpenTab, AutoBind
    <3>2. CASE \E part \in DOMAIN loaded: FetchArrives(part)
      BY <3>2 DEF FetchArrives, AutoBind
    <3> QED
      BY <1>6, <3>1, <3>2
  <2> HIDE DEF Adds
  <2> QED
    BY <1>3, <2>1, <2>2, AsksMore
<1>7. CASE (\E r \in Rules: DeleteRule(r)) \/ (\E p \in Presets: DeletePreset(p))
  <2>1. UNCHANGED <<stored, drawer, ticked, shown>>
    BY <1>7 DEF DeleteRule, DeletePreset, tabRest
  <2>2. PICK x \in Entries: asked' = asked \cup {Edit("drop", x, NoRule, FALSE)}
    BY <1>7 DEF DeleteRule, DeletePreset, SendEdits
  <2>3. asked' = asked \cup Drops({x})
    BY <2>2
  <2> HIDE DEF Drops
  <2> QED
    BY <1>2, <1>4, <2>1, <2>3, {x} \in SUBSET Entries, AsksMore
<1>8. CASE \E rs \in SUBSET Rules: ImportRules(rs)
  <2>1. PICK rs \in SUBSET Rules: ImportRules(rs)
    BY <1>8
  <2>2. /\ UNCHANGED <<stored, drawer, shown>>
        /\ asked' = asked \cup Imports(rs)
        /\ ticked' = ticked \cup (rs \cap Short)
    BY <2>1 DEF ImportRules, SendEdits
  <2> HIDE DEF Imports
  <2> QED
    BY <1>2, <1>5, <2>2, AsksMore
<1>9. CASE ExecuteRestore
  <2>1. UNCHANGED <<stored, drawer, ticked, shown>>
    BY <1>9 DEF ExecuteRestore, tabRest
  <2>2. asked' \subseteq asked \cup (Drops(shown \cap Rules) \cup Adds(Presets \ shown))
    BY <1>9 DEF ExecuteRestore, SendEdits
  <2>3. shown \cap Rules \in SUBSET Entries /\ Presets \ shown \in SUBSET Entries
    OBVIOUS
  <2> DEFINE es == Drops(shown \cap Rules) \cup Adds(Presets \ shown)
  <2> HIDE DEF Adds, Drops
  <2>4. es \subseteq Requests /\ \A e \in es: ~e.confirm
    BY <1>3, <1>4, <2>3
  <2> HIDE DEF es
  <2>5. asked' \subseteq asked \cup es
    BY <2>2 DEF es
  <2> QED
    BY <1>2, <2>1, <2>4, <2>5, AsksMore
<1> QED
  BY <1>6, <1>7, <1>8, <1>9

LEMMA Submitting ==
    ASSUME EntriesOK, NEW value \in Rules, NEW heed \in BOOLEAN, SubmitPayload(value, heed)
    PROVE  \E e \in Requests: asked' = asked \cup {e} /\ e.new = value
<1>1. drawer.rule \in Entries \cup {NoRule}
  BY DEF EntriesOK, Drawers
<1>2. CASE drawer.rule = NoRule
  <2> DEFINE e == ByDrawer(Edit("add", NoRule, value, heed))
  <2>1. asked' = asked \cup {e}
    BY <1>2 DEF SubmitPayload, SendEdits
  <2>2. e \in Requests /\ e.new = value
    BY DEF Edit, ByDrawer, Requests
  <2> QED
    BY <2>1, <2>2
<1>3. CASE drawer.rule # NoRule
  <2> DEFINE e == ByDrawer(Edit("put", drawer.rule, value, heed))
  <2>1. asked' = asked \cup {e}
    BY <1>3 DEF SubmitPayload, SendEdits
  <2>2. e \in Requests /\ e.new = value
    BY <1>1 DEF Edit, ByDrawer, Requests
  <2> QED
    BY <2>1, <2>2
<1> QED
  BY <1>2, <1>3

\* The drawer and its confirmation.
LEMMA DrawerAcknowledged ==
    ASSUME Acks,
           \/ (\E r \in Rules \cup {NoRule}: OpenDrawer(r)) \/ (\E r \in Rules: OnSubmit(r))
           \/ CloseDrawer \/ TickAck \/ ConfirmRisky \/ CancelRisky
    PROVE  Acks'
<1> USE TabAssumption DEF Acks, EntriesOK, ShortAcknowledged, Acknowledged, drawerVars
<1>1. CASE \E r \in Rules \cup {NoRule}: OpenDrawer(r)
  BY <1>1 DEF OpenDrawer, Drawers
<1>2. CASE \E r \in Rules: OnSubmit(r)
  <2>1. PICK r \in Rules: OnSubmit(r)
    BY <1>2
  <2>2. CASE r \in Short
    BY <2>1, <2>2 DEF OnSubmit, Drawers
  <2>3. CASE r \notin Short
    <3>1. \E e \in Requests: asked' = asked \cup {e} /\ e.new = r
      <4>1. SubmitPayload(r, FALSE)
        BY <2>1, <2>3 DEF OnSubmit
      <4> QED
        BY <4>1, Submitting
    <3>2. drawer' \in Drawers /\ drawer'.confirm = drawer.confirm /\ drawer'.ack = drawer.ack
      BY <2>1, <2>3 DEF OnSubmit, Drawers
    <3> QED
      BY <2>1, <2>3, <3>1, <3>2 DEF OnSubmit
  <2> QED
    BY <2>2, <2>3
<1>3. CASE CloseDrawer
  BY <1>3 DEF CloseDrawer, Drawers
<1>4. CASE TickAck
  BY <1>4 DEF TickAck, Drawers
<1>5. CASE ConfirmRisky
  <2>1. \E e \in Requests: asked' = asked \cup {e} /\ e.new = drawer.confirm
    <3>1. drawer.confirm \in Rules /\ SubmitPayload(drawer.confirm, TRUE)
      BY <1>5 DEF ConfirmRisky, Drawers
    <3> QED
      BY <3>1, Submitting
  <2>2. drawer' \in Drawers /\ drawer'.confirm = NoRule
    BY <1>5 DEF ConfirmRisky, Drawers
  <2> QED
    BY <1>5, <2>1, <2>2 DEF ConfirmRisky
<1>6. CASE CancelRisky
  BY <1>6 DEF CancelRisky, Drawers
<1> QED
  BY <1>1, <1>2, <1>3, <1>4, <1>5, <1>6

\* The server's answers.
LEMMA AnswersAcknowledged ==
    ASSUME Acks, NEW e \in asked, ApplyEdit(e) \/ RefuseEdit(e)
    PROVE  Acks'
<1> USE TabAssumption DEF Acks, EntriesOK, ShortAcknowledged, Acknowledged, tabRest
<1>1. e \in Requests
  OBVIOUS
<1>2. /\ drawer' \in Drawers
      /\ drawer'.confirm = drawer.confirm /\ drawer'.ack = drawer.ack
  <2>1. \E told \in BOOLEAN: AnswerDrawer(e, told)
    BY DEF ApplyEdit, RefuseEdit
  <2> QED
    BY <2>1 DEF AnswerDrawer, Drawers
<1>3. CASE ApplyEdit(e)
  BY <1>1, <1>2, <1>3 DEF ApplyEdit, Accepts, Requests
<1>4. CASE RefuseEdit(e)
  BY <1>2, <1>4 DEF RefuseEdit
<1> QED
  BY <1>3, <1>4

LEMMA AcksInvariant == TabSpec => []Acks
<1>1. TabInit => Acks
  BY TabAssumption DEF TabInit, NoDrawer, Acks, EntriesOK, Drawers, ShortAcknowledged, Acknowledged
<1>2. Acks /\ [TabNext]_tabVars => Acks'
  <2> SUFFICES ASSUME Acks, [TabNext]_tabVars PROVE Acks'
    OBVIOUS
  <2>1. CASE \/ OpenTab \/ (\E part \in DOMAIN loaded: FetchArrives(part))
             \/ (\E r \in Rules: DeleteRule(r)) \/ (\E p \in Presets: DeletePreset(p))
             \/ (\E rs \in SUBSET Rules: ImportRules(rs)) \/ ExecuteRestore
    BY <2>1, AsksAcknowledged
  <2>2. CASE \/ (\E r \in Rules \cup {NoRule}: OpenDrawer(r)) \/ (\E r \in Rules: OnSubmit(r))
             \/ CloseDrawer \/ TickAck \/ ConfirmRisky \/ CancelRisky
    BY <2>2, DrawerAcknowledged
  <2>3. CASE \E e \in asked: ApplyEdit(e) \/ RefuseEdit(e)
    BY <2>3, AnswersAcknowledged
  <2>4. CASE LeaveTab
    BY <2>4, TabAssumption DEF LeaveTab, NoDrawer, Drawers, Acks, EntriesOK, ShortAcknowledged, Acknowledged
  <2>5. CASE \/ (\E part \in DOMAIN loaded: TabFetchFails(part))
             \/ HandleApply \/ PreviewArrives \/ PreviewFails
             \/ (\E n \in DOMAIN applies: \/ TakeSnapshot(n) \/ AnswerApply(n)
                                          \/ \E is \in {"succeeded", "failed"}: WorkerEnds(n, is))
             \/ PollSucceeded \/ PollFailed \/ CloseDialog \/ TimerFires \/ UNCHANGED tabVars
    <3>1. UNCHANGED <<stored, shown, asked, drawer, ticked>>
      BY <2>5 DEF TabFetchFails, HandleApply, PreviewArrives, PreviewFails, TakeSnapshot, AnswerApply, WorkerEnds,
                  PollSucceeded, PollFailed, CloseDialog, TimerFires, applyVars, tabVars
    <3> QED
      BY <3>1 DEF Acks, EntriesOK, ShortAcknowledged, Acknowledged
  <2> QED
    BY <2>1, <2>2, <2>3, <2>4, <2>5 DEF TabNext
<1> QED
  BY <1>1, <1>2, PTL DEF TabSpec

(* A short keyword is in the database only when somebody has acknowledged  *)
(* that very keyword: the confirmation of risky-keyword-confirm.tsx and    *)
(* the check of admin_bypass_rules.go leave no way around, in whatever     *)
(* order drawers are opened, closed and answered.                          *)
THEOREM KeywordsAcknowledged == TabSpec => []ShortAcknowledged
BY AcksInvariant, PTL DEF Acks

-----------------------------------------------------------------------------
(* Applies.  What the dialog follows is the apply it has sent; that was    *)
(* rendered from what is still stored, as long as no edit arrived.         *)

ApplyStates == {"sent", "running", "alone", "refused", "succeeded", "failed"}
Applies  == [content: SUBSET Entries, told: BOOLEAN, is: ApplyStates]
Dialogs  == [open: BOOLEAN, apply: Nat, task: Nat, failed: BOOLEAN, done: BOOLEAN, calm: BOOLEAN]

AppliesOK == applies \in Seq(Applies) /\ dialog \in Dialogs /\ preview \in BOOLEAN

Follows ==
    /\ AppliesOK
    /\ dialog.apply \in 0..Len(applies) /\ dialog.task \in {0, dialog.apply}
    /\ preview => ~dialog.open /\ baseline # {NoRule}
    /\ dialog.open => baseline # {NoRule}
    /\ ~dialog.open => dialog.apply = 0
    /\ dialog.open /\ dialog.calm /\ dialog.apply # 0 /\ applies[dialog.apply].is # "sent"
          => applies[dialog.apply].content = stored

Whole == EntriesOK /\ Follows

\* Steps that leave applies and dialog alone.
LEMMA FollowsRests ==
    ASSUME Follows, UNCHANGED <<stored, applies, dialog>>,
           preview' \in BOOLEAN, preview' => preview \/ (~dialog.open /\ baseline # {NoRule}),
           baseline # {NoRule} => baseline' # {NoRule}
    PROVE  Follows'
BY DEF Follows, AppliesOK

\* The baseline is set once after a load, to what is shown.
LEMMA PageFollows ==
    ASSUME Whole,
           \/ OpenTab \/ (\E part \in DOMAIN loaded: FetchArrives(part) \/ TabFetchFails(part))
    PROVE  Follows' /\ (baseline # {NoRule} => baseline' = baseline)
<1>1. UNCHANGED <<stored, applies, dialog, preview>> /\ (baseline # {NoRule} => baseline' = baseline)
  BY DEF OpenTab, FetchArrives, TabFetchFails, Baseline
<1> QED
  BY <1>1, FollowsRests DEF Whole, Follows, AppliesOK

LEMMA LeavingFollows ==
    ASSUME Whole, LeaveTab \/ CloseDialog \/ TimerFires
    PROVE  Follows'
<1>1. /\ dialog' = NoDialog /\ applies' = applies
      /\ preview' = FALSE \/ UNCHANGED <<preview, baseline>>
  <2>1. CASE LeaveTab
    BY <2>1 DEF LeaveTab
  <2>2. CASE CloseDialog
    BY <2>2 DEF CloseDialog, ResetDialog, applyVars
  <2>3. CASE TimerFires
    BY <2>3 DEF TimerFires, ResetDialog, applyVars
  <2> QED
    BY <2>1, <2>2, <2>3
<1>2. NoDialog \in Dialogs /\ NoDialog.apply = 0 /\ NoDialog.task = 0 /\ ~NoDialog.open
  BY DEF NoDialog, Dialogs
<1>3. 0 \in 0..Len(applies)
  BY DEF Whole, Follows, AppliesOK
<1>4. preview' \in BOOLEAN
  <2>1. preview \in BOOLEAN
    BY DEF Whole, Follows, AppliesOK
  <2> QED
    BY <1>1, <2>1, Zenon
<1>5. preview' => ~dialog'.open /\ baseline' # {NoRule}
  <2>1. preview => baseline # {NoRule}
    BY DEF Whole, Follows
  <2> QED
    BY <1>1, <1>2, <2>1, Zenon
<1> QED
  BY <1>1, <1>2, <1>3, <1>4, <1>5 DEF Whole, Follows, AppliesOK

LEMMA EditFollows ==
    ASSUME Whole, NEW e \in asked, ApplyEdit(e)
    PROVE  Follows'
<1> DEFINE d == [dialog EXCEPT !.calm = ~dialog.open]
<1>1. dialog' = d /\ UNCHANGED <<applies, preview, baseline>>
  BY DEF ApplyEdit
<1>2. d \in Dialogs /\ d.open = dialog.open /\ d.apply = dialog.apply /\ d.task = dialog.task
      /\ d.calm = ~dialog.open
  BY DEF Whole, Follows, AppliesOK, Dialogs
<1> QED
  BY <1>1, <1>2 DEF Whole, Follows, AppliesOK

LEMMA SendFollows ==
    ASSUME Whole, PreviewArrives
    PROVE  Follows'
<1> DEFINE n == Len(applies) + 1
           a == [content |-> {}, is |-> "sent", told |-> FALSE]
           d == [dialog EXCEPT !.open = TRUE, !.calm = TRUE, !.apply = n]
<1>1. applies \in Seq(Applies) /\ Len(applies) \in Nat /\ dialog \in Dialogs
  BY DEF Whole, Follows, AppliesOK
<1>2. dialog' = d /\ applies' = Append(applies, a) /\ UNCHANGED <<baseline, stored>> /\ preview /\ preview' = FALSE
  BY DEF PreviewArrives, applyVars
<1>3. a \in Applies
  BY DEF Applies, ApplyStates
<1>4. applies' \in Seq(Applies) /\ Len(applies') = n /\ applies'[n] = a
  BY <1>1, <1>2, <1>3
<1>5. dialog.task = 0 /\ baseline # {NoRule}
  <2>1. ~dialog.open /\ baseline # {NoRule}
    BY <1>2, Zenon DEF Whole, Follows
  <2> QED
    BY <2>1 DEF Whole, Follows
<1>6. d \in Dialogs /\ d.apply = n /\ d.task = dialog.task /\ d.open = TRUE
  <2>1. n \in Nat
    BY <1>1
  <2> HIDE DEF n
  <2> QED
    BY <1>1, <2>1 DEF Dialogs
<1>7. a.is = "sent" /\ n \in 0..n /\ n # 0
  BY <1>1
<1> HIDE DEF n, a, d
<1>8. AppliesOK'
  BY <1>2, <1>4, <1>6 DEF AppliesOK
<1>9. dialog'.apply \in 0..Len(applies') /\ dialog'.task \in {0, dialog'.apply}
  BY <1>2, <1>4, <1>5, <1>6, <1>7
<1>10. baseline' # {NoRule} /\ dialog'.open = TRUE /\ preview' = FALSE /\ applies'[dialog'.apply].is = "sent"
  BY <1>2, <1>4, <1>5, <1>6, <1>7
<1> QED
  BY <1>8, <1>9, <1>10 DEF Follows

\* One apply moves on: rendered from what is stored, answered, ended.
LEMMA MovesFollow ==
    ASSUME Whole, NEW n \in DOMAIN applies,
           TakeSnapshot(n) \/ AnswerApply(n) \/ \E is \in {"succeeded", "failed"}: WorkerEnds(n, is)
    PROVE  Follows'
<1>1. applies \in Seq(Applies) /\ dialog \in Dialogs /\ n \in 1..Len(applies) /\ applies[n] \in Applies
      /\ stored \in SUBSET Entries
  BY DEF Whole, Follows, AppliesOK, EntriesOK
<1>2. UNCHANGED <<stored, preview, baseline>>
  BY DEF TakeSnapshot, AnswerApply, WorkerEnds, applyVars
<1>3. PICK a \in Applies: /\ applies' = [applies EXCEPT ![n] = a]
                          /\ \/ a.content = stored
                             \/ a.content = applies[n].content /\ applies[n].is # "sent"
  <2>1. CASE TakeSnapshot(n)
    <3>1. PICK is \in ApplyStates: applies' = [applies EXCEPT ![n].is = is, ![n].content = stored]
      BY <2>1 DEF TakeSnapshot, ApplyStates
    <3> DEFINE a == [applies[n] EXCEPT !.is = is, !.content = stored]
    <3>2. a \in Applies /\ a.content = stored
      BY <1>1 DEF Applies
    <3>3. applies' = [applies EXCEPT ![n] = a]
      BY <1>1, <3>1
    <3> QED
      BY <3>2, <3>3
  <2>2. CASE AnswerApply(n)
    <3> DEFINE a == [applies[n] EXCEPT !.told = TRUE]
    <3>1. a \in Applies /\ a.content = applies[n].content
      BY <1>1 DEF Applies
    <3>2. applies' = [applies EXCEPT ![n] = a] /\ applies[n].is # "sent"
      BY <2>2 DEF AnswerApply
    <3> QED
      BY <3>1, <3>2
  <2>3. CASE \E is \in {"succeeded", "failed"}: WorkerEnds(n, is)
    <3>1. PICK is \in {"succeeded", "failed"}: WorkerEnds(n, is)
      BY <2>3
    <3> DEFINE a == [applies[n] EXCEPT !.is = is]
    <3>2. a \in Applies /\ a.content = applies[n].content
      BY <1>1 DEF Applies, ApplyStates
    <3>3. applies' = [applies EXCEPT ![n] = a] /\ applies[n].is # "sent"
      BY <3>1 DEF WorkerEnds
    <3> QED
      BY <3>2, <3>3
  <2> QED
    BY <2>1, <2>2, <2>3
<1>4. /\ applies' \in Seq(Applies) /\ Len(applies') = Len(applies)
      /\ applies'[n] = a /\ \A m \in 1..Len(applies): m # n => applies'[m] = applies[m]
  BY <1>1, <1>3
<1>5. /\ dialog' \in Dialogs
      /\ dialog'.open = dialog.open /\ dialog'.calm = dialog.calm /\ dialog'.apply = dialog.apply
      /\ dialog'.task \in {dialog.task, dialog.apply}
  <2>1. CASE AnswerApply(n)
    BY <1>1, <2>1 DEF AnswerApply, Dialogs
  <2>2. CASE dialog' = dialog
    BY <1>1, <2>2
  <2> QED
    BY <2>1, <2>2 DEF TakeSnapshot, WorkerEnds
<1>6. dialog.open /\ dialog.calm /\ dialog.apply # 0 /\ applies'[dialog.apply].is # "sent"
         => applies'[dialog.apply].content = stored
  <2>1. dialog.apply \in 0..Len(applies)
    BY DEF Whole, Follows
  <2> QED
    BY <1>1, <1>3, <1>4, <2>1 DEF Whole, Follows
<1> QED
  BY <1>2, <1>4, <1>5, <1>6 DEF Whole, Follows, AppliesOK

LEMMA PollsFollow ==
    ASSUME Whole, PollSucceeded \/ PollFailed
    PROVE  Follows'
<1>1. /\ dialog \in Dialogs /\ UNCHANGED <<applies, stored, preview>>
      /\ dialog.apply # 0 /\ dialog.open
  BY DEF PollSucceeded, PollFailed, Tracked, applyVars, Whole, Follows, AppliesOK
<1>2. baseline' # {NoRule}
  BY <1>1, TabAssumption DEF PollSucceeded, PollFailed, Whole, EntriesOK, Follows
<1>3. /\ dialog' \in Dialogs
      /\ dialog'.open = dialog.open /\ dialog'.calm = dialog.calm
      /\ dialog'.apply = dialog.apply /\ dialog'.task = dialog.task
  BY <1>1 DEF PollSucceeded, PollFailed, Dialogs
<1> QED
  BY <1>1, <1>2, <1>3 DEF Whole, Follows, AppliesOK

\* A step that marks what is shown marks what an apply has brought.
Marked ==
    baseline' \notin {baseline, {NoRule}} /\ dialog.open /\ dialog.calm /\ shown = stored
        => \E n \in DOMAIN applies: applies[n].is = "succeeded" /\ applies[n].content = baseline'
                                    /\ n = dialog.apply

LEMMA WholeKeeps ==
    /\ TabInit => Whole
    /\ Whole /\ Acks' /\ [TabNext]_tabVars => Whole' /\ [Marked]_tabVars
<1>1. TabInit => Whole
  <2> SUFFICES ASSUME TabInit PROVE Whole
    OBVIOUS
  <2>1. EntriesOK
    BY TabAssumption DEF TabInit, NoDrawer, EntriesOK, Drawers
  <2>2. NoDialog \in Dialogs /\ NoDialog.apply = 0 /\ NoDialog.task = 0 /\ ~NoDialog.open
    BY DEF NoDialog, Dialogs
  <2>3. applies \in Seq(Applies) /\ Len(applies) = 0
    BY DEF TabInit
  <2>4. Follows
    <3>1. dialog = NoDialog /\ preview = FALSE /\ 0 \in 0..0
      BY DEF TabInit
    <3> QED
      BY <2>2, <2>3, <3>1 DEF Follows, AppliesOK
  <2> QED
    BY <2>1, <2>4 DEF Whole
<1>2. Whole /\ Acks' /\ [TabNext]_tabVars => Whole' /\ [Marked]_tabVars
  <2> SUFFICES ASSUME Whole, Acks', [TabNext]_tabVars PROVE Follows' /\ Marked
    BY DEF Whole, Acks
  <2> USE DEF Marked
  <2>1. CASE \/ OpenTab \/ (\E part \in DOMAIN loaded: FetchArrives(part) \/ TabFetchFails(part))
    BY <2>1, PageFollows DEF Whole, Follows
  <2>2. CASE LeaveTab \/ CloseDialog \/ TimerFires
    <3>1. baseline' \in {baseline, {NoRule}}
      BY <2>2 DEF LeaveTab, CloseDialog, TimerFires
    <3> QED
      BY <2>2, <3>1, LeavingFollows
  <2>3. CASE \E e \in asked: ApplyEdit(e)
    BY <2>3, EditFollows DEF ApplyEdit
  <2>4. CASE PreviewArrives
    BY <2>4, SendFollows DEF PreviewArrives
  <2>5. CASE \E n \in DOMAIN applies: \/ TakeSnapshot(n) \/ AnswerApply(n)
                                     \/ \E is \in {"succeeded", "failed"}: WorkerEnds(n, is)
    BY <2>5, MovesFollow DEF TakeSnapshot, AnswerApply, WorkerEnds
  <2>6. CASE PollFailed
    BY <2>6, PollsFollow DEF PollFailed
  <2>7. CASE PollSucceeded
    <3>1. dialog.task \in DOMAIN applies /\ applies[dialog.task].is = "succeeded" /\ dialog.task = dialog.apply
      BY <2>7 DEF PollSucceeded, Tracked, Whole, Follows, AppliesOK
    <3>2. baseline' = shown
      BY <2>7 DEF PollSucceeded
    <3> QED
      BY <2>7, <3>1, <3>2, PollsFollow DEF Whole, Follows
  <2>8. CASE HandleApply
    BY <2>8, FollowsRests DEF HandleApply, Page, Dirty, Whole
  <2>9. CASE \/ (\E r \in Rules: DeleteRule(r) \/ OnSubmit(r)) \/ (\E p \in Presets: DeletePreset(p))
             \/ (\E rs \in SUBSET Rules: ImportRules(rs)) \/ ExecuteRestore
             \/ (\E r \in Rules \cup {NoRule}: OpenDrawer(r)) \/ CloseDrawer \/ TickAck \/ ConfirmRisky
             \/ CancelRisky \/ (\E e \in asked: RefuseEdit(e)) \/ UNCHANGED tabVars
    <3>1. UNCHANGED <<stored, applies, dialog, baseline, preview>>
      BY <2>9 DEF DeleteRule, OnSubmit, DeletePreset, ImportRules, ExecuteRestore, OpenDrawer, CloseDrawer, TickAck,
                  ConfirmRisky, CancelRisky, RefuseEdit, tabRest, drawerVars, tabVars
    <3> QED
      BY <3>1 DEF Whole, Follows, AppliesOK
  <2>10. CASE PreviewFails
    <3>1. UNCHANGED <<stored, applies, dialog, baseline>> /\ preview' = FALSE
      BY <2>10 DEF PreviewFails, applyVars
    <3> QED
      BY <3>1 DEF Whole, Follows, AppliesOK
  <2> QED
    BY <2>1, <2>2, <2>3, <2>4, <2>5, <2>6, <2>7, <2>8, <2>9, <2>10 DEF TabNext
<1> QED
  BY <1>1, <1>2

(* When the tab marks what it shows as applied, a task has brought exactly *)
(* that live, if no edit reached the server while the dialog was open and  *)
(* what is shown is what is stored: polls, answers to earlier openings and *)
(* the timers of apply-progress-dialog.tsx cannot mark another apply.      *)
THEOREM MarkedRuns == TabSpec => MarksWhatRuns
<1>1. TabInit => Whole
  BY WholeKeeps
<1>2. Whole /\ Acks' /\ [TabNext]_tabVars => Whole' /\ [Marked]_tabVars
  BY WholeKeeps
<1>3. TabSpec => []Acks
  BY AcksInvariant
<1> QED
  BY <1>1, <1>2, <1>3, PTL DEF TabSpec, MarksWhatRuns, Marked

-----------------------------------------------------------------------------
(* Types.  There is a timer for an apply at most: a dialog that has not    *)
(* set one has an apply of its own.                                        *)

Awaited == IF dialog.open /\ ~dialog.done THEN 1 ELSE 0

Counted ==
    /\ Len(applies) <= MaxApplies
    /\ timers \in Nat /\ timers + Awaited <= Len(applies)

Paged ==
    /\ live \subseteq Entries /\ ticked \subseteq Short
    /\ loaded \in [{"rules", "bindings"} -> {"no", "failed", "data"}]
    /\ baseline \subseteq Entries \/ baseline = {NoRule}
    /\ tab \in [shown: BOOLEAN, bound: BOOLEAN]
    /\ edits \in 0..MaxEdits /\ openings \in 0..MaxVisits

LEMMA CountedKept ==
    ASSUME Whole, Counted, [TabNext]_tabVars
    PROVE  Counted'
<1>1. applies \in Seq(Applies) /\ Len(applies) \in Nat /\ dialog \in Dialogs
  BY DEF Whole, Follows, AppliesOK
<1>2. Awaited \in {0, 1} /\ timers \in Nat /\ timers + Awaited <= Len(applies) /\ Len(applies) <= MaxApplies
  BY DEF Counted, Awaited
<1>3. MaxApplies \in Nat
  BY TabAssumption
<1>4. CASE LeaveTab \/ CloseDialog \/ TimerFires
  <2>1. Awaited' = 0
    BY <1>4 DEF LeaveTab, CloseDialog, TimerFires, ResetDialog, NoDialog, Awaited
  <2>2. applies' = applies /\ timers' \in Nat /\ timers' <= timers
    BY <1>2, <1>4 DEF LeaveTab, CloseDialog, TimerFires, applyVars
  <2> QED
    BY <1>1, <1>2, <2>1, <2>2 DEF Counted
<1>5. CASE PreviewArrives
  <2>1. ~dialog.open /\ timers' = timers /\ Len(applies) < MaxApplies
    BY <1>5 DEF PreviewArrives, Whole, Follows, applyVars
  <2>2. Awaited = 0 /\ Awaited' \in {0, 1}
    BY <2>1 DEF Awaited
  <2>3. Len(applies') = Len(applies) + 1
    BY <1>1, <1>5 DEF PreviewArrives
  <2> QED
    BY <1>1, <1>2, <1>3, <2>1, <2>2, <2>3 DEF Counted
<1>6. CASE PollSucceeded
  <2>1. dialog.open /\ ~dialog.done /\ timers' = timers + 1 /\ applies' = applies /\ dialog' = [dialog EXCEPT !.done = TRUE]
    BY <1>6 DEF PollSucceeded, Tracked, Whole, Follows, applyVars
  <2>2. dialog'.done
    BY <1>1, <2>1 DEF Dialogs
  <2>3. Awaited = 1 /\ Awaited' = 0
    BY <2>1, <2>2 DEF Awaited
  <2> QED
    BY <1>1, <1>2, <2>1, <2>3 DEF Counted
<1>7. ASSUME Len(applies') = Len(applies), timers' = timers, dialog'.open = dialog.open, dialog'.done = dialog.done
      PROVE  Counted'
  <2>1. Awaited' = Awaited
    BY <1>7 DEF Awaited
  <2> QED
    BY <1>2, <1>7, <2>1 DEF Counted
<1>8. CASE \E n \in DOMAIN applies: \/ TakeSnapshot(n) \/ AnswerApply(n)
                                   \/ \E is \in {"succeeded", "failed"}: WorkerEnds(n, is)
  <2>1. PICK n \in DOMAIN applies: \/ TakeSnapshot(n) \/ AnswerApply(n)
                                   \/ \E is \in {"succeeded", "failed"}: WorkerEnds(n, is)
    BY <1>8
  <2>2. Len(applies') = Len(applies) /\ timers' = timers
    BY <1>1, <2>1 DEF TakeSnapshot, AnswerApply, WorkerEnds, applyVars
  <2>3. dialog'.open = dialog.open /\ dialog'.done = dialog.done
    BY <1>1, <2>1 DEF TakeSnapshot, AnswerApply, WorkerEnds, applyVars, Dialogs
  <2> QED
    BY <1>7, <2>2, <2>3
<1>9. CASE PollFailed
  BY <1>1, <1>7, <1>9 DEF PollFailed, applyVars, Dialogs
<1>10. CASE \E e \in asked: ApplyEdit(e)
  BY <1>1, <1>7, <1>10 DEF ApplyEdit, Dialogs
<1>11. CASE \/ OpenTab \/ (\E part \in DOMAIN loaded: FetchArrives(part) \/ TabFetchFails(part))
            \/ (\E r \in Rules: DeleteRule(r) \/ OnSubmit(r)) \/ (\E p \in Presets: DeletePreset(p))
            \/ (\E rs \in SUBSET Rules: ImportRules(rs)) \/ ExecuteRestore
            \/ (\E r \in Rules \cup {NoRule}: OpenDrawer(r)) \/ CloseDrawer \/ TickAck \/ ConfirmRisky
            \/ CancelRisky \/ (\E e \in asked: RefuseEdit(e)) \/ HandleApply \/ PreviewFails \/ UNCHANGED tabVars
  <2>1. UNCHANGED <<applies, timers, dialog>>
    BY <1>11 DEF OpenTab, FetchArrives, TabFetchFails, DeleteRule, OnSubmit, DeletePreset, ImportRules, ExecuteRestore,
                 OpenDrawer, CloseDrawer, TickAck, ConfirmRisky, CancelRisky, RefuseEdit, HandleApply, PreviewFails,
                 tabRest, drawerVars, applyVars, tabVars
  <2> QED
    BY <1>7, <2>1
<1> QED
  BY <1>4, <1>5, <1>6, <1>8, <1>9, <1>10, <1>11 DEF TabNext

LEMMA PagedKept ==
    ASSUME Whole, Paged, Counted, [TabNext]_tabVars
    PROVE  Paged'
<1>1. /\ stored \subseteq Entries /\ shown \subseteq Entries /\ drawer \in Drawers
      /\ applies \in Seq(Applies) /\ DOMAIN loaded = {"rules", "bindings"}
  BY DEF Whole, EntriesOK, Follows, AppliesOK, Paged
<1>2. MaxEdits \in Nat /\ MaxVisits \in Nat /\ Short \subseteq Rules
  BY TabAssumption
<1>3. ASSUME NEW held, held \subseteq Entries, NEW ld, Baseline(held, ld)
      PROVE  baseline' \subseteq Entries \/ baseline' = {NoRule}
  BY <1>3 DEF Baseline, Paged
<1>4. ASSUME NEW held, NEW ld, AutoBind(held, ld) PROVE tab' \in [shown: BOOLEAN, bound: BOOLEAN]
  <2>1. tab' = [shown |-> TRUE, bound |-> TRUE] \/ tab' = [tab EXCEPT !.shown = TRUE]
    BY <1>4, Zenon DEF AutoBind
  <2>2. tab \in [shown: BOOLEAN, bound: BOOLEAN]
    BY DEF Paged
  <2>3. CASE tab' = [tab EXCEPT !.shown = TRUE]
    BY <2>2, <2>3
  <2>4. CASE tab' = [shown |-> TRUE, bound |-> TRUE]
    BY <2>4
  <2> QED
    BY <2>1, <2>3, <2>4
<1>5. CASE OpenTab
  <2>1. Baseline(shown, loaded) /\ AutoBind(shown, loaded) /\ UNCHANGED <<live, ticked, loaded, edits>>
    BY <1>5 DEF OpenTab
  <2>2. openings' \in 0..MaxVisits
    BY <1>2, <1>5 DEF OpenTab, Paged
  <2> QED
    BY <1>1, <1>3, <1>4, <2>1, <2>2 DEF Paged
<1>6. ASSUME NEW part \in DOMAIN loaded, FetchArrives(part) PROVE Paged'
  <2> DEFINE held == (shown \ Of(part)) \cup (stored \cap Of(part))
             ld   == [loaded EXCEPT ![part] = "data"]
  <2>1. Baseline(held, ld) /\ AutoBind(held, ld) /\ UNCHANGED <<live, ticked, edits, openings>> /\ loaded' = ld
    BY <1>6 DEF FetchArrives
  <2>2. held \subseteq Entries /\ ld \in [{"rules", "bindings"} -> {"no", "failed", "data"}]
    BY <1>1 DEF Paged
  <2> HIDE DEF held, ld
  <2> QED
    BY <1>3, <1>4, <2>1, <2>2 DEF Paged
<1>7. ASSUME NEW part \in DOMAIN loaded, TabFetchFails(part) PROVE Paged'
  <2> DEFINE ld == [loaded EXCEPT ![part] = "failed"]
  <2>1. Baseline(shown, ld) /\ UNCHANGED <<live, ticked, tab, edits, openings>> /\ loaded' = ld
    BY <1>7 DEF TabFetchFails
  <2>2. ld \in [{"rules", "bindings"} -> {"no", "failed", "data"}]
    BY <1>1 DEF Paged
  <2> HIDE DEF ld
  <2> QED
    BY <1>1, <1>3, <2>1, <2>2 DEF Paged
<1>8. CASE LeaveTab
  BY <1>8 DEF LeaveTab, Paged
<1>9. CASE PollSucceeded
  BY <1>1, <1>9 DEF PollSucceeded, applyVars, Paged
<1>10. CASE \E n \in DOMAIN applies: \E is \in {"succeeded", "failed"}: WorkerEnds(n, is)
  <2>1. PICK n \in DOMAIN applies, is \in {"succeeded", "failed"}: WorkerEnds(n, is)
    BY <1>10
  <2>2. applies[n] \in Applies
    BY <1>1
  <2>3. live' \subseteq Entries
    BY <2>1, <2>2 DEF WorkerEnds, Applies, Paged
  <2> QED
    BY <2>1, <2>3 DEF WorkerEnds, applyVars, Paged
<1>11. ASSUME NEW es, SendEdits(es) PROVE edits' \in 0..MaxEdits
  BY <1>2, <1>11 DEF SendEdits, Paged
<1>12. CASE \E rs \in SUBSET Rules: ImportRules(rs)
  BY <1>11, <1>12 DEF ImportRules, Paged
<1>13. CASE TickAck
  BY <1>1, <1>2, <1>13, TabAssumption DEF TickAck, drawerVars, Drawers, Paged
<1>14. CASE \/ (\E r \in Rules: DeleteRule(r) \/ OnSubmit(r)) \/ (\E p \in Presets: DeletePreset(p))
            \/ ExecuteRestore \/ ConfirmRisky
  <2>1. UNCHANGED <<live, ticked, loaded, baseline, tab, openings>>
    BY <1>14 DEF DeleteRule, OnSubmit, DeletePreset, ExecuteRestore, ConfirmRisky, tabRest, drawerVars
  <2>2. edits' \in 0..MaxEdits
    BY <1>11, <1>14 DEF DeleteRule, OnSubmit, DeletePreset, ExecuteRestore, ConfirmRisky, SubmitPayload, Paged
  <2> QED
    BY <2>1, <2>2 DEF Paged
<1>15. CASE \/ (\E r \in Rules \cup {NoRule}: OpenDrawer(r)) \/ CloseDrawer \/ CancelRisky
            \/ (\E e \in asked: ApplyEdit(e) \/ RefuseEdit(e))
            \/ HandleApply \/ PreviewArrives \/ PreviewFails \/ PollFailed \/ CloseDialog \/ TimerFires
            \/ (\E n \in DOMAIN applies: TakeSnapshot(n) \/ AnswerApply(n)) \/ UNCHANGED tabVars
  <2>1. UNCHANGED <<live, ticked, loaded, baseline, tab, edits, openings>>
    BY <1>15 DEF OpenDrawer, CloseDrawer, CancelRisky, ApplyEdit, RefuseEdit, HandleApply, PreviewArrives, PreviewFails,
                 PollFailed, CloseDialog, TimerFires, TakeSnapshot, AnswerApply, tabRest, drawerVars, applyVars, tabVars
  <2> QED
    BY <2>1 DEF Paged
<1> QED
  BY <1>5, <1>6, <1>7, <1>8, <1>9, <1>10, <1>12, <1>13, <1>14, <1>15 DEF TabNext

LEMMA TabStarts == TabInit => Counted /\ Paged
<1> SUFFICES ASSUME TabInit PROVE Counted /\ Paged
  OBVIOUS
<1>1. MaxEdits \in Nat /\ MaxVisits \in Nat /\ MaxApplies \in Nat
  BY TabAssumption
<1>2. Counted
  BY <1>1 DEF TabInit, NoDialog, Awaited, Counted
<1>3. Paged
  BY <1>1 DEF TabInit, Paged
<1> QED
  BY <1>2, <1>3

LEMMA TabShown == Whole /\ Counted /\ Paged => TabTypeOK
<1> SUFFICES ASSUME Whole, Counted, Paged PROVE TabTypeOK
  OBVIOUS
<1>1. EntriesOK /\ Follows
  BY DEF Whole
<1>2. applies \in Seq(Applies) /\ Len(applies) \in Nat /\ preview \in BOOLEAN
  BY <1>1 DEF Follows, AppliesOK
<1>3. timers \in 0..MaxApplies
  BY <1>2, TabAssumption DEF Counted, Awaited
<1>4. dialog \in [open: BOOLEAN, apply: 0..Len(applies), task: 0..Len(applies), failed: BOOLEAN,
                  done: BOOLEAN, calm: BOOLEAN]
  <2>1. dialog \in Dialogs /\ dialog.apply \in 0..Len(applies) /\ dialog.task \in 0..Len(applies)
    BY <1>1, <1>2 DEF Follows, AppliesOK
  <2> QED
    BY <2>1 DEF Dialogs
<1>5. Len(applies) <= MaxApplies
  BY DEF Counted
<1> QED
  BY <1>1, <1>2, <1>3, <1>4, <1>5 DEF TabTypeOK, EntriesOK, Requests, Drawers, Applies, ApplyStates, Paged

(* Types of all variables: applies and dialogs refer to applies there are, *)
(* and no more timers run than applies were sent.                          *)
THEOREM TabTyping == TabSpec => []TabTypeOK
<1>1. TabInit => Whole /\ Counted /\ Paged
  BY WholeKeeps, TabStarts
<1>2. (Whole /\ Counted /\ Paged) /\ Acks' /\ [TabNext]_tabVars => (Whole /\ Counted /\ Paged)'
  BY WholeKeeps, CountedKept, PagedKept
<1>3. TabSpec => []Acks
  BY AcksInvariant
<1>4. Whole /\ Counted /\ Paged => TabTypeOK
  BY TabShown
<1> QED
  BY <1>1, <1>2, <1>3, <1>4, PTL DEF TabSpec

HIDE DEF Entries

-----------------------------------------------------------------------------
(***************************************************************************)
(* HostPages: deletion as warned, the password of the task followed.       *)
(***************************************************************************)
USE DEF Kinds

Hooks   == {"action", "desktop", "rebuild", "delete", "create", "nobody"}
Asks    == Kinds \cup {"delete", "start vnc", "restart vnc"}
Phases  == {"sent", "checked", "removed", "done", "refused"}
Flights == [hook: Hooks, ask: Asks, force: BOOLEAN, warned: BOOLEAN, is: Phases, idle: BOOLEAN, task: Nat]
Tasks   == [kind: Kinds, is: {"queued", "succeeded", "failed"}]
Creates == [open: BOOLEAN, task: Nat, keys: Nat]

\* A deletion is forced only with a warning, it gets beyond the check by force or with
\* the host at rest, and the answer to a creation names a task.
Honest(f) ==
    /\ f.ask = "delete" /\ f.force => f.warned
    /\ f.is \in {"checked", "removed"} => f.ask = "delete"
    /\ f.is = "checked" => f.force \/ f.idle
    /\ f.hook = "create" => f.ask = "create"
    /\ f.hook = "create" /\ f.is = "done" => f.task # 0

\* The password in the creation's dialog came with the task that it tracks.
Promised ==
    /\ tasks \in Seq(Tasks)
    /\ flights \subseteq Flights /\ \A f \in flights: Honest(f)
    /\ create \in Creates /\ (create.keys # 0 => create.keys = create.task)

Modes == rebuild \in [open: BOOLEAN, mode: {"preserve", "factory"}]

-----------------------------------------------------------------------------
(* Steps that leave the creation's dialog and the tasks alone.             *)

LEMMA FlightsPromise ==
    ASSUME Promised, tasks' = tasks, create' = create,
           \A f \in flights' \ flights: f \in Flights /\ Honest(f)
    PROVE  Promised'
BY DEF Promised, Honest

LEMMA RequestPromises ==
    ASSUME Promised, NEW hook \in Hooks \ {"create", "nobody"}, NEW ask \in Asks, NEW force \in BOOLEAN,
           SendRequest(hook, ask, force, force), tasks' = tasks, create' = create
    PROVE  Promised'
<1> DEFINE f == Flight(hook, ask, force, force)
<1>1. f \in Flights /\ Honest(f)
  BY DEF Flight, Flights, Phases, Honest
<1>2. flights' = flights \cup {f}
  BY DEF SendRequest
<1> HIDE DEF f
<1> QED
  BY <1>1, <1>2, FlightsPromise

LEMMA ButtonsPromise ==
    ASSUME Promised, Modes,
           \/ (\E kind \in {"start", "stop", "preserve"}: ListAction(kind) \/ DetailAction(kind))
           \/ DetailDesktop \/ PortalDesktop \/ PortalRebuild
           \/ ConfirmUpgrade \/ HandleRebuild \/ ConfirmDelete
    PROVE  Promised'
<1>1. tasks' = tasks /\ create' = create
  BY DEF ListAction, DetailAction, DetailDesktop, PortalDesktop, PortalRebuild, ConfirmUpgrade, HandleRebuild,
         ConfirmDelete, buttonVars, serverVars, dialogVars
<1>2. CASE \E kind \in {"start", "stop", "preserve"}: ListAction(kind) \/ DetailAction(kind)
  <2>1. PICK kind \in {"start", "stop", "preserve"}: SendRequest("action", kind, FALSE, FALSE)
    BY <1>2 DEF ListAction, DetailAction
  <2> QED
    BY <1>1, <2>1, RequestPromises DEF Hooks, Asks
<1>3. CASE DetailDesktop \/ PortalDesktop
  <2>1. PICK ask \in {"start vnc", "restart vnc"}: SendRequest("desktop", ask, FALSE, FALSE)
    BY <1>3 DEF DetailDesktop, PortalDesktop
  <2> QED
    BY <1>1, <2>1, RequestPromises DEF Hooks, Asks
<1>4. CASE PortalRebuild
  <2>1. SendRequest("rebuild", "preserve", FALSE, FALSE)
    BY <1>4 DEF PortalRebuild
  <2> QED
    BY <1>1, <2>1, RequestPromises DEF Hooks, Asks
<1>5. CASE ConfirmUpgrade
  <2>1. SendRequest("action", "upgrade", FALSE, FALSE)
    BY <1>5 DEF ConfirmUpgrade
  <2> QED
    BY <1>1, <2>1, RequestPromises DEF Hooks, Asks
<1>6. CASE HandleRebuild
  <2>1. SendRequest("rebuild", rebuild.mode, FALSE, FALSE) /\ rebuild.mode \in {"preserve", "factory"}
    BY <1>6 DEF HandleRebuild, Modes
  <2> QED
    BY <1>1, <2>1, RequestPromises DEF Hooks, Asks
<1>7. CASE ConfirmDelete
  <2>1. PICK force \in BOOLEAN: SendRequest("delete", "delete", force, force)
    BY <1>7 DEF ConfirmDelete
  <2> QED
    BY <1>1, <2>1, RequestPromises DEF Hooks, Asks
<1> QED
  BY <1>2, <1>3, <1>4, <1>5, <1>6, <1>7

-----------------------------------------------------------------------------
(* The server, and the answers.                                            *)

LEMMA AnswersPromise ==
    ASSUME Promised, NEW f \in flights,
           NEW is \in {"done", "refused"}, NEW task \in Nat, Answered(f, is, task),
           f.ask = "create" /\ is = "done" => task # 0,
           tasks' \in Seq(Tasks), create' = create
    PROVE  Promised'
<1> DEFINE g == [f EXCEPT !.is = is, !.task = task]
<1>1. f \in Flights /\ Honest(f)
  BY DEF Promised
<1>2. g \in Flights
  BY <1>1 DEF Flights, Phases
<1>3. g.hook = f.hook /\ g.ask = f.ask /\ g.force = f.force /\ g.warned = f.warned /\ g.is = is /\ g.task = task
  BY <1>1 DEF Flights
<1>4. Honest(g)
  BY <1>1, <1>3 DEF Honest
<1>5. flights' = (flights \ {f}) \cup {g}
  BY DEF Answered
<1> HIDE DEF g
<1>6. flights' \subseteq Flights /\ \A h \in flights': Honest(h)
  BY <1>2, <1>4, <1>5 DEF Promised
<1> QED
  BY <1>6 DEF Promised, Honest

LEMMA DeletionPromises ==
    ASSUME Promised, NEW f \in flights, f.ask = "delete",
           NEW is \in {"checked", "removed"}, NEW idle \in BOOLEAN, GoesOn(f, is, idle),
           is = "checked" => f.force \/ idle,
           tasks' = tasks, create' = create
    PROVE  Promised'
<1> DEFINE g == [f EXCEPT !.is = is, !.idle = idle]
<1>1. f \in Flights /\ Honest(f)
  BY DEF Promised
<1>2. g \in Flights
  BY <1>1 DEF Flights, Phases
<1>3. g.hook = f.hook /\ g.ask = f.ask /\ g.force = f.force /\ g.warned = f.warned /\ g.is = is /\ g.idle = idle
  BY <1>1 DEF Flights
<1>4. Honest(g)
  BY <1>1, <1>3 DEF Honest
<1>5. flights' = (flights \ {f}) \cup {g}
  BY DEF GoesOn
<1> HIDE DEF g
<1> QED
  BY <1>2, <1>4, <1>5, FlightsPromise

LEMMA ServerPromises ==
    ASSUME Promised, NEW f \in flights,
           QueueTask(f) \/ CheckDelete(f) \/ RemoveContainer(f) \/ DeleteRow(f) \/ StartDesktop(f) \/ Refuse(f)
    PROVE  Promised'
<1>1. tasks \in Seq(Tasks) /\ f \in Flights
  BY DEF Promised
<1>2. CASE QueueTask(f)
  <2>1. f.ask \in Kinds /\ tasks' = Append(tasks, [kind |-> f.ask, is |-> "queued"]) /\ create' = create
    BY <1>2 DEF QueueTask, consoleVars
  <2>2. [kind |-> f.ask, is |-> "queued"] \in Tasks
    BY <2>1 DEF Tasks
  <2>3. tasks' \in Seq(Tasks) /\ Len(tasks) + 1 \in Nat \ {0}
    BY <1>1, <2>1, <2>2
  <2>4. Answered(f, "done", Len(tasks) + 1)
    BY <1>2 DEF QueueTask
  <2> QED
    BY <2>1, <2>3, <2>4, AnswersPromise
<1>3. CASE DeleteRow(f) \/ StartDesktop(f)
  <2>1. Answered(f, "done", 0) /\ tasks' = tasks /\ create' = create /\ f.ask # "create"
    BY <1>3 DEF DeleteRow, StartDesktop, consoleVars, Promised, Honest
  <2> QED
    BY <1>1, <2>1, AnswersPromise
<1>4. CASE Refuse(f)
  <2>1. Answered(f, "refused", 0) /\ tasks' = tasks /\ create' = create
    BY <1>4 DEF Refuse, consoleVars, serverVars
  <2> QED
    BY <1>1, <2>1, AnswersPromise
<1>5. CASE CheckDelete(f)
  <2>1. f.ask = "delete" /\ (f.force \/ host # "running") /\ GoesOn(f, "checked", host # "running")
    BY <1>5 DEF CheckDelete
  <2> QED
    BY <1>5, <2>1, DeletionPromises DEF CheckDelete, serverVars, consoleVars
<1>6. CASE RemoveContainer(f)
  <2>1. f.ask = "delete" /\ GoesOn(f, "removed", FALSE)
    BY <1>6 DEF RemoveContainer, Promised, Honest
  <2> QED
    BY <1>6, <2>1, DeletionPromises DEF RemoveContainer, consoleVars
<1> QED
  BY <1>2, <1>3, <1>4, <1>5, <1>6

\* A page that is left keeps no dialog, and its requests belong to nobody.
LEMMA LeavingPromises ==
    ASSUME Promised, NEW some \in SUBSET flights, flights' = {[g EXCEPT !.hook = "nobody"] : g \in some},
           tasks' = tasks, create' = NoCreate
    PROVE  Promised'
<1>1. ASSUME NEW h \in flights' PROVE h \in Flights /\ Honest(h)
  <2>1. PICK g \in some: h = [g EXCEPT !.hook = "nobody"]
    BY <1>1
  <2>2. g \in Flights /\ Honest(g)
    BY DEF Promised
  <2>3. h \in Flights /\ h.hook = "nobody" /\ h.ask = g.ask /\ h.force = g.force /\ h.warned = g.warned
        /\ h.is = g.is /\ h.idle = g.idle
    BY <2>1, <2>2 DEF Flights, Hooks
  <2> QED
    BY <2>2, <2>3 DEF Honest
<1>2. create' \in Creates /\ create'.keys = 0
  BY DEF NoCreate, Creates
<1> QED
  BY <1>1, <1>2 DEF Promised, Honest

LEMMA PageAnswerPromises ==
    ASSUME Promised, NEW f \in flights, PageAnswered(f)
    PROVE  Promised'
<1>1. f \in Flights /\ Honest(f) /\ create \in Creates /\ tasks' = tasks /\ flights' = flights \ {f}
  BY DEF Promised, PageAnswered, serverVars
<1>2. create' \in Creates /\ (create'.keys # 0 => create'.keys = create'.task)
  <2>1. CASE f.hook = "create" /\ f.is = "done"
    <3>1. create' = [create EXCEPT !.task = f.task, !.keys = f.task] /\ f.task \in Nat
      BY <1>1, <2>1 DEF PageAnswered, Flights
    <3> QED
      BY <1>1, <3>1 DEF Creates
  <2>2. CASE ~(f.hook = "create" /\ f.is = "done")
    BY <2>2 DEF PageAnswered, Promised
  <2> QED
    BY <2>1, <2>2
<1> QED
  BY <1>1, <1>2 DEF Promised, Honest
-----------------------------------------------------------------------------
(* Every step.                                                             *)

LEMMA DialogsPromise ==
    ASSUME Promised,
           OpenCreate \/ SubmitCreate \/ CloseCreate
    PROVE  Promised'
<1>1. create \in Creates /\ tasks' = tasks
  BY DEF Promised, OpenCreate, SubmitCreate, CloseCreate, serverVars, buttonVars
<1>2. CASE OpenCreate
  <2>1. create' = [create EXCEPT !.open = TRUE] /\ flights' = flights
    BY <1>2 DEF OpenCreate
  <2>2. create' \in Creates /\ create'.keys = create.keys /\ create'.task = create.task
    BY <1>1, <2>1 DEF Creates
  <2> QED
    BY <1>1, <2>1, <2>2 DEF Promised, Honest
<1>3. CASE SubmitCreate
  <2> DEFINE g == Flight("create", "create", FALSE, FALSE)
  <2>1. g \in Flights /\ Honest(g)
    BY DEF Flight, Flights, Phases, Hooks, Asks, Honest
  <2>2. flights' = flights \cup {g} /\ create' = create
    BY <1>3 DEF SubmitCreate, SendRequest, buttonVars, dialogVars
  <2> HIDE DEF g
  <2> QED
    BY <1>1, <2>1, <2>2, FlightsPromise
<1>4. CASE CloseCreate
  <2>1. create' \in Creates /\ create'.keys = 0 /\ flights' = flights
    BY <1>4 DEF CloseCreate, NoCreate, Creates
  <2> QED
    BY <1>1, <2>1 DEF Promised, Honest
<1> QED
  BY <1>2, <1>3, <1>4

LEMMA TaskEndPromises ==
    ASSUME Promised, NEW t \in DOMAIN tasks, NEW is \in {"succeeded", "failed"}, TaskEnds(t, is)
    PROVE  Promised'
<1>1. tasks \in Seq(Tasks) /\ tasks' = [tasks EXCEPT ![t].is = is] /\ flights' = flights /\ create' = create
  BY DEF Promised, TaskEnds, consoleVars
<1>2. tasks[t] \in Tasks
  BY <1>1
<1>3. [tasks[t] EXCEPT !.is = is] \in Tasks
  BY <1>2 DEF Tasks
<1>4. tasks' \in Seq(Tasks)
  BY <1>1, <1>3
<1> QED
  BY <1>1, <1>4 DEF Promised, Honest

\* What keeps the requests, the tasks and the creation's dialog.
Apart ==
    \/ \E p \in {"list", "detail", "portal"}: OpenPage(p)
    \/ PollHost \/ ListDelete \/ DetailDelete \/ CancelDelete
    \/ OpenRebuild \/ CloseRebuild \/ \E mode \in {"preserve", "factory"}: ChooseMode(mode)
    \/ OpenUpgrade \/ CloseUpgrade \/ \E t \in DOMAIN tasks: UpgradeProgress(t)
    \/ UNCHANGED pagesVars

LEMMA ApartKeeps ==
    ASSUME Apart
    PROVE  UNCHANGED <<tasks, flights, create>>
BY DEF Apart, OpenPage, PollHost, ListDelete, DetailDelete, CancelDelete, OpenRebuild, CloseRebuild, ChooseMode,
       OpenUpgrade, CloseUpgrade, UpgradeProgress, pagesVars, serverVars, dialogVars

LEMMA ModesKept ==
    ASSUME Modes, [PagesNext]_pagesVars
    PROVE  Modes'
<1>1. \/ rebuild' = rebuild
      \/ rebuild' = NoRebuild
      \/ \E open \in BOOLEAN: rebuild' = [rebuild EXCEPT !.open = open]
      \/ \E mode \in {"preserve", "factory"}: rebuild' = [rebuild EXCEPT !.mode = mode]
  <2>1. CASE \E f \in flights: PageAnswered(f)
    BY <2>1 DEF PageAnswered
  <2>2. CASE ~ \E f \in flights: PageAnswered(f)
    BY <2>2 DEF PagesNext, OpenPage, LeavePage, PollHost, ListAction, DetailAction, DetailDesktop, PortalDesktop,
         PortalRebuild, ListDelete, DetailDelete, CancelDelete, ConfirmDelete, OpenRebuild, ChooseMode, CloseRebuild,
         HandleRebuild, OpenUpgrade, ConfirmUpgrade, CloseUpgrade, OpenCreate, SubmitCreate, CloseCreate, QueueTask,
         CheckDelete, RemoveContainer, DeleteRow, StartDesktop, Refuse,
         DeletedOnDetail, UpgradeProgress, TaskEnds, pagesVars,
         serverVars, dialogVars, buttonVars, consoleVars
  <2> QED
    BY <2>1, <2>2
<1>2. NoRebuild \in [open: BOOLEAN, mode: {"preserve", "factory"}]
  BY DEF NoRebuild
<1> QED
  BY <1>1, <1>2 DEF Modes

LEMMA PromisesKept ==
    ASSUME Promised, Modes, [PagesNext]_pagesVars
    PROVE  Promised'
<1>1. CASE Apart
  BY <1>1, ApartKeeps, FlightsPromise
<1>2. CASE LeavePage
  BY <1>2, LeavingPromises DEF LeavePage, serverVars
<1>3. CASE \E f \in flights: DeletedOnDetail(f)
  <2>1. PICK f \in flights: DeletedOnDetail(f)
    BY <1>3
  <2> QED
    BY <2>1, LeavingPromises DEF DeletedOnDetail, serverVars
<1>4. CASE OpenCreate \/ SubmitCreate \/ CloseCreate
  BY <1>4, DialogsPromise
<1>5. CASE \/ (\E kind \in {"start", "stop", "preserve"}: ListAction(kind) \/ DetailAction(kind))
           \/ DetailDesktop \/ PortalDesktop \/ PortalRebuild
           \/ ConfirmUpgrade \/ HandleRebuild \/ ConfirmDelete
  BY <1>5, ButtonsPromise
<1>6. CASE \E f \in flights: \/ QueueTask(f) \/ CheckDelete(f) \/ RemoveContainer(f) \/ DeleteRow(f)
                             \/ StartDesktop(f) \/ Refuse(f)
  BY <1>6, ServerPromises
<1>7. CASE \E f \in flights: PageAnswered(f)
  BY <1>7, PageAnswerPromises
<1>8. CASE \E t \in DOMAIN tasks: \E is \in {"succeeded", "failed"}: TaskEnds(t, is)
  BY <1>8, TaskEndPromises
<1> QED
  BY <1>1, <1>2, <1>3, <1>4, <1>5, <1>6, <1>7, <1>8 DEF PagesNext, Apart

LEMMA PromisesInvariant == PagesSpec => [](Promised /\ Modes)
<1>1. PagesInit => Promised /\ Modes
  <2> SUFFICES ASSUME PagesInit PROVE Promised /\ Modes
    OBVIOUS
  <2>1. tasks \in Seq(Tasks) /\ flights = {}
    BY DEF PagesInit
  <2>2. create \in Creates /\ create.keys = 0 /\ Modes
    BY DEF PagesInit, NoCreate, NoRebuild, Creates, Modes
  <2> QED
    BY <2>1, <2>2 DEF Promised
<1>2. (Promised /\ Modes) /\ [PagesNext]_pagesVars => (Promised /\ Modes)'
  BY PromisesKept, ModesKept
<1> QED
  BY <1>1, <1>2, PTL DEF PagesSpec

-----------------------------------------------------------------------------
(* A deletion takes a running container away only with a warning that it   *)
(* runs, or when the host was at rest as the server checked and has been   *)
(* started since, however many requests, polls and deletions there are.    *)
THEOREM WarnedDeletion == PagesSpec => DeletedAsWarned
<1>1. ASSUME Promised, Modes, [PagesNext]_pagesVars, alive, ~alive', tasks' = tasks
      PROVE  \E f \in flights: f.ask = "delete" /\ f.is = "checked" /\ (f.warned \/ f.idle)
  <2>1. PICK f \in flights: RemoveContainer(f)
    <3>1. alive' # alive
      BY <1>1
    <3>2. ASSUME NEW t \in DOMAIN tasks, NEW is \in {"succeeded", "failed"}, TaskEnds(t, is) PROVE FALSE
      <4>1. tasks \in Seq(Tasks) /\ tasks[t].is # is /\ tasks' = [tasks EXCEPT ![t].is = is]
        BY <1>1, <3>2 DEF TaskEnds, Ended, Promised
      <4>2. tasks[t] \in Tasks /\ tasks'[t] = [tasks[t] EXCEPT !.is = is]
        BY <4>1
      <4>3. tasks'[t].is = is
        BY <4>2 DEF Tasks
      <4> QED
        BY <1>1, <4>1, <4>3
    <3> QED
      BY <1>1, <3>1, <3>2 DEF PagesNext, OpenPage, LeavePage, PollHost, ListAction, DetailAction, DetailDesktop,
         PortalDesktop, PortalRebuild, ListDelete, DetailDelete, CancelDelete, ConfirmDelete, OpenRebuild, ChooseMode,
         CloseRebuild, HandleRebuild, OpenUpgrade, ConfirmUpgrade, CloseUpgrade, OpenCreate, SubmitCreate, CloseCreate,
         QueueTask, CheckDelete, DeleteRow, StartDesktop, Refuse, PageAnswered, DeletedOnDetail, UpgradeProgress,
         pagesVars, serverVars, dialogVars, buttonVars, consoleVars
  <2>2. f.is = "checked" /\ Honest(f)
    BY <1>1, <2>1 DEF RemoveContainer, Promised
  <2>3. f.ask = "delete" /\ (f.warned \/ f.idle)
    BY <2>2 DEF Honest
  <2> QED
    BY <2>2, <2>3
<1>2. Promised /\ Modes /\ [PagesNext]_pagesVars
        => [(alive /\ ~alive' /\ tasks' = tasks)
              => \E f \in flights: f.ask = "delete" /\ f.is = "checked" /\ (f.warned \/ f.idle)]_pagesVars
  BY <1>1
<1> QED
  BY <1>2, PromisesInvariant, PTL DEF PagesSpec, DeletedAsWarned

(* The password of a new host outlives every poll, answer and dialog until *)
(* the task that creates the host has ended or the page is left.           *)
THEOREM PasswordHeld == PagesSpec => PasswordKept
<1>1. ASSUME Promised, Modes, [PagesNext]_pagesVars, create.keys # 0, create'.keys = 0, view' = view
      PROVE  Ended(create.keys)
  <2>1. create \in Creates /\ create.keys = create.task
    BY <1>1 DEF Promised
  <2>2. create' # create
    BY <1>1
  <2>3. ASSUME NEW f \in flights, PageAnswered(f) PROVE FALSE
    <3>1. f.hook = "create" /\ f.is = "done" /\ create' = [create EXCEPT !.task = f.task, !.keys = f.task]
      BY <2>2, <2>3 DEF PageAnswered
    <3>2. f \in Flights /\ f.task # 0
      BY <1>1, <3>1 DEF Promised, Honest
    <3>3. create'.keys = f.task
      BY <2>1, <3>1 DEF Creates
    <3> QED
      BY <1>1, <3>2, <3>3
  <2>4. ~OpenCreate
    <3> SUFFICES ASSUME OpenCreate PROVE FALSE
      OBVIOUS
    <3>1. create' = [create EXCEPT !.open = TRUE]
      BY DEF OpenCreate
    <3>2. create'.keys = create.keys
      BY <2>1, <3>1 DEF Creates
    <3> QED
      BY <1>1, <3>2
  <2>5. ASSUME NEW f \in flights, DeletedOnDetail(f) PROVE FALSE
    BY <1>1, <2>5 DEF DeletedOnDetail
  <2>6. ~LeavePage
    BY <1>1 DEF LeavePage
  <2>7. CloseCreate
    BY <1>1, <2>2, <2>3, <2>4, <2>5, <2>6 DEF PagesNext, OpenPage, PollHost, ListAction, DetailAction, DetailDesktop,
         PortalDesktop, PortalRebuild, ListDelete, DetailDelete, CancelDelete, ConfirmDelete, OpenRebuild, ChooseMode,
         CloseRebuild, HandleRebuild, OpenUpgrade, ConfirmUpgrade, CloseUpgrade, SubmitCreate,
         QueueTask, CheckDelete, RemoveContainer, DeleteRow, StartDesktop, Refuse, UpgradeProgress, TaskEnds, pagesVars,
         serverVars, dialogVars, buttonVars, consoleVars
  <2> QED
    BY <1>1, <2>1, <2>7 DEF CloseCreate
<1>2. Promised /\ Modes /\ [PagesNext]_pagesVars
        => [(create.keys # 0 /\ create'.keys = 0 /\ view' = view) => Ended(create.keys)]_pagesVars
  BY <1>1
<1> QED
  BY <1>2, PromisesInvariant, PTL DEF PagesSpec, PasswordKept

-----------------------------------------------------------------------------
(* Types.  Requests and dialogs name tasks there are.                      *)

Upgrades(n) == [open: BOOLEAN, task: 0..n, layers: 0..n]

Refers ==
    /\ \A f \in flights: f.task \in 0..Len(tasks)
    /\ upgrade \in Upgrades(Len(tasks)) /\ create.task \in 0..Len(tasks)

Screens ==
    /\ host \in Statuses \cup {"gone"} /\ alive \in BOOLEAN /\ vnc \in BOOLEAN
    /\ view \in {"list", "detail", "portal", "none"}
    /\ seen \in [host: Statuses \cup {"gone"}, vnc: BOOLEAN]
    /\ confirm \in {"no", "plain", "force"}
    /\ requests \in 0..MaxRequests /\ views \in 0..MaxPageViews

\* Tasks are only added.
LEMMA RefersGrows ==
    ASSUME Promised, Refers, Len(tasks') \in {Len(tasks), Len(tasks) + 1},
           \A f \in flights': f.task \in 0..Len(tasks'),
           upgrade' \in Upgrades(Len(tasks')) \/ upgrade' \in {upgrade, NoUpgrade},
           create' \in {create, NoCreate} \/ create'.task \in 0..Len(tasks')
    PROVE  Refers'
<1>1. Len(tasks) \in Nat
  BY DEF Promised
<1>2. 0..Len(tasks) \subseteq 0..Len(tasks') /\ 0 \in 0..Len(tasks')
  BY <1>1
<1>3. upgrade \in Upgrades(Len(tasks')) /\ NoUpgrade \in Upgrades(Len(tasks'))
  BY <1>2 DEF Refers, Upgrades, NoUpgrade
<1>4. create.task \in 0..Len(tasks') /\ NoCreate.task \in 0..Len(tasks')
  BY <1>2 DEF Refers, NoCreate
<1> QED
  BY <1>3, <1>4 DEF Refers

LEMMA PagesRefer ==
    ASSUME Promised, Refers, Apart
    PROVE  Refers'
<1>1. UNCHANGED <<tasks, flights, create>>
  BY ApartKeeps
<1>2. upgrade' \in Upgrades(Len(tasks)) \/ upgrade' \in {upgrade, NoUpgrade}
  <2>1. CASE OpenUpgrade
    BY <2>1 DEF OpenUpgrade, Refers, Upgrades
  <2>2. CASE \E t \in DOMAIN tasks: UpgradeProgress(t)
    <3>1. PICK t \in DOMAIN tasks: UpgradeProgress(t)
      BY <2>2
    <3>2. t \in 0..Len(tasks)
      BY <3>1 DEF Promised
    <3> QED
      BY <3>1, <3>2 DEF UpgradeProgress, Refers, Upgrades
  <2>3. CASE CloseUpgrade
    BY <2>3 DEF CloseUpgrade
  <2>4. CASE ~OpenUpgrade /\ ~CloseUpgrade /\ ~ \E t \in DOMAIN tasks: UpgradeProgress(t)
    BY <2>4 DEF Apart, OpenPage, PollHost, ListDelete, DetailDelete, CancelDelete, OpenRebuild, CloseRebuild, ChooseMode,
                pagesVars, dialogVars
  <2> QED
    BY <2>1, <2>2, <2>3, <2>4
<1> QED
  BY <1>1, <1>2, RefersGrows DEF Refers, Promised

LEMMA SendsRefer ==
    ASSUME Promised, Refers,
           \/ (\E kind \in {"start", "stop", "preserve"}: ListAction(kind) \/ DetailAction(kind))
           \/ DetailDesktop \/ PortalDesktop \/ PortalRebuild
           \/ ConfirmUpgrade \/ HandleRebuild \/ ConfirmDelete \/ SubmitCreate
    PROVE  Refers'
<1>1. UNCHANGED <<tasks, upgrade, create>>
  BY DEF ListAction, DetailAction, DetailDesktop, PortalDesktop, PortalRebuild, ConfirmUpgrade, HandleRebuild,
         ConfirmDelete, SubmitCreate, buttonVars, serverVars, dialogVars
<1>2. \E hook, ask, force, warned: SendRequest(hook, ask, force, warned)
  BY DEF ListAction, DetailAction, DetailDesktop, PortalDesktop, PortalRebuild, ConfirmUpgrade, HandleRebuild,
         ConfirmDelete, SubmitCreate
<1>3. PICK hook, ask, force, warned: SendRequest(hook, ask, force, warned)
  BY <1>2
<1> DEFINE f == Flight(hook, ask, force, warned)
<1>4. flights' = flights \cup {f}
  BY <1>3 DEF SendRequest
<1>5. f.task = 0
  BY DEF Flight
<1>6. 0 \in 0..Len(tasks)
  BY DEF Promised
<1> HIDE DEF f
<1> QED
  BY <1>1, <1>4, <1>5, <1>6, RefersGrows DEF Refers, Promised

LEMMA AnswersRefer ==
    ASSUME Promised, Refers, NEW f \in flights,
           QueueTask(f) \/ CheckDelete(f) \/ RemoveContainer(f) \/ DeleteRow(f) \/ StartDesktop(f) \/ Refuse(f)
    PROVE  Refers'
<1>1. tasks \in Seq(Tasks) /\ Len(tasks) \in Nat /\ f \in Flights
  BY DEF Promised
<1>2. UNCHANGED <<upgrade, create>>
  BY DEF QueueTask, CheckDelete, RemoveContainer, DeleteRow, StartDesktop, Refuse, consoleVars
<1>3. \/ tasks' = tasks /\ \E is: Answered(f, is, 0)
      \/ tasks' = tasks /\ \E is, idle: GoesOn(f, is, idle)
      \/ /\ f.ask \in Kinds /\ tasks' = Append(tasks, [kind |-> f.ask, is |-> "queued"])
         /\ Answered(f, "done", Len(tasks) + 1)
  BY DEF QueueTask, CheckDelete, RemoveContainer, DeleteRow, StartDesktop, Refuse, serverVars
<1>4. ASSUME NEW is, NEW n, Answered(f, is, n)
      PROVE  \E g: flights' = (flights \ {f}) \cup {g} /\ g.task = n
  <2> DEFINE g == [f EXCEPT !.is = is, !.task = n]
  <2>1. g.task = n
    BY <1>1 DEF Flights
  <2>2. flights' = (flights \ {f}) \cup {g}
    BY <1>4 DEF Answered
  <2> HIDE DEF g
  <2> QED
    BY <2>1, <2>2
<1>5. CASE tasks' = tasks /\ \E is: Answered(f, is, 0)
  <2>1. PICK g: flights' = (flights \ {f}) \cup {g} /\ g.task = 0
    BY <1>4, <1>5
  <2>2. \A h \in flights': h.task \in 0..Len(tasks)
    BY <1>1, <2>1 DEF Refers
  <2> QED
    BY <1>2, <1>5, <2>2, RefersGrows
<1>6. CASE /\ f.ask \in Kinds /\ tasks' = Append(tasks, [kind |-> f.ask, is |-> "queued"])
           /\ Answered(f, "done", Len(tasks) + 1)
  <2>1. PICK g: flights' = (flights \ {f}) \cup {g} /\ g.task = Len(tasks) + 1
    BY <1>4, <1>6
  <2>2. [kind |-> f.ask, is |-> "queued"] \in Tasks
    BY <1>6 DEF Tasks
  <2>3. Len(tasks') = Len(tasks) + 1
    BY <1>1, <1>6, <2>2
  <2>4. \A h \in flights': h.task \in 0..Len(tasks')
    BY <1>1, <2>1, <2>3 DEF Refers
  <2> QED
    BY <1>2, <2>3, <2>4, RefersGrows
<1>7. CASE tasks' = tasks /\ \E is, idle: GoesOn(f, is, idle)
  <2>1. PICK is, idle: GoesOn(f, is, idle)
    BY <1>7
  <2> DEFINE g == [f EXCEPT !.is = is, !.idle = idle]
  <2>2. g.task = f.task
    BY <1>1 DEF Flights
  <2>3. flights' = (flights \ {f}) \cup {g}
    BY <2>1 DEF GoesOn
  <2> HIDE DEF g
  <2>4. \A h \in flights': h.task \in 0..Len(tasks)
    BY <2>2, <2>3 DEF Refers
  <2> QED
    BY <1>2, <1>7, <2>4, RefersGrows
<1> QED
  BY <1>3, <1>5, <1>6, <1>7

LEMMA LeavingRefers ==
    ASSUME Promised, Refers, LeavePage \/ \E f \in flights: DeletedOnDetail(f)
    PROVE  Refers'
<1>1. upgrade' = NoUpgrade /\ create' = NoCreate /\ tasks' = tasks
  BY DEF LeavePage, DeletedOnDetail, serverVars
<1>2. \E some \in SUBSET flights: flights' = {[g EXCEPT !.hook = "nobody"] : g \in some}
  <2>1. CASE LeavePage
    BY <2>1 DEF LeavePage
  <2>2. CASE \E f \in flights: DeletedOnDetail(f)
    <3>1. PICK f \in flights: DeletedOnDetail(f)
      BY <2>2
    <3>2. flights \ {f} \in SUBSET flights
      OBVIOUS
    <3> QED
      BY <3>1, <3>2 DEF DeletedOnDetail
  <2> QED
    BY <2>1, <2>2
<1>3. ASSUME NEW h \in flights' PROVE h.task \in 0..Len(tasks)
  <2>1. PICK g \in flights: h = [g EXCEPT !.hook = "nobody"]
    BY <1>2
  <2>2. g \in Flights
    BY DEF Promised
  <2>3. h.task = g.task
    BY <2>1, <2>2 DEF Flights
  <2> QED
    BY <2>3 DEF Refers
<1> QED
  BY <1>1, <1>3, RefersGrows

LEMMA ArrivalRefers ==
    ASSUME Promised, Refers, NEW f \in flights, PageAnswered(f)
    PROVE  Refers'
<1>1. tasks' = tasks /\ flights' = flights \ {f} /\ f.task \in 0..Len(tasks) /\ create \in Creates
  BY DEF PageAnswered, serverVars, Refers, Promised
<1>2. upgrade' \in Upgrades(Len(tasks))
  <2>1. upgrade \in Upgrades(Len(tasks))
    BY DEF Refers
  <2>2. [upgrade EXCEPT !.task = f.task] \in Upgrades(Len(tasks))
    BY <1>1, <2>1 DEF Upgrades
  <2> QED
    BY <2>1, <2>2 DEF PageAnswered
<1>3. create' = create \/ create'.task \in 0..Len(tasks)
  <2>1. [create EXCEPT !.task = f.task, !.keys = f.task].task = f.task
    BY <1>1 DEF Creates
  <2>2. create' = create \/ create' = [create EXCEPT !.task = f.task, !.keys = f.task]
    BY DEF PageAnswered
  <2> QED
    BY <1>1, <2>1, <2>2
<1> QED
  BY <1>1, <1>2, <1>3, RefersGrows DEF Refers

LEMMA RefersKept ==
    ASSUME Promised, Modes, Refers, [PagesNext]_pagesVars
    PROVE  Refers'
<1>1. CASE \E t \in DOMAIN tasks: \E is \in {"succeeded", "failed"}: TaskEnds(t, is)
  <2>1. Len(tasks') = Len(tasks) /\ UNCHANGED <<flights, upgrade, create>>
    BY <1>1 DEF TaskEnds, consoleVars, Promised
  <2> QED
    BY <2>1, RefersGrows DEF Refers
<1>2. CASE OpenCreate
  <2>1. create' = [create EXCEPT !.open = TRUE] /\ create \in Creates /\ UNCHANGED <<tasks, flights, upgrade>>
    BY <1>2 DEF OpenCreate, serverVars, Promised
  <2>2. create'.task = create.task
    BY <2>1 DEF Creates
  <2> QED
    BY <2>1, <2>2, RefersGrows DEF Refers
<1>3. CASE CloseCreate
  <2>1. create' = NoCreate /\ UNCHANGED <<tasks, flights, upgrade>>
    BY <1>3 DEF CloseCreate, serverVars
  <2> QED
    BY <2>1, RefersGrows DEF Refers
<1> QED
  BY <1>1, <1>2, <1>3, PagesRefer, SendsRefer, AnswersRefer, LeavingRefers, ArrivalRefers DEF PagesNext, Apart

LEMMA ScreensKept ==
    ASSUME Promised, Screens, [PagesNext]_pagesVars
    PROVE  Screens'
<1>1. MaxRequests \in Nat /\ MaxPageViews \in Nat
  BY PagesAssumption
<1>2. \/ UNCHANGED <<requests, views>>
      \/ views' = views /\ requests < MaxRequests /\ requests' = requests + 1
      \/ requests' = requests /\ views < MaxPageViews /\ views' = views + 1
  BY DEF PagesNext, OpenPage, LeavePage, PollHost, ListAction, DetailAction, DetailDesktop, PortalDesktop,
         PortalRebuild, ListDelete, DetailDelete, CancelDelete, ConfirmDelete, OpenRebuild, ChooseMode, CloseRebuild,
         HandleRebuild, OpenUpgrade, ConfirmUpgrade, CloseUpgrade, OpenCreate, SubmitCreate, CloseCreate, QueueTask,
         CheckDelete, RemoveContainer, DeleteRow, StartDesktop, Refuse,
         PageAnswered, DeletedOnDetail, UpgradeProgress, TaskEnds, pagesVars,
         serverVars, dialogVars, buttonVars, consoleVars, SendRequest
<1>3. requests' \in 0..MaxRequests /\ views' \in 0..MaxPageViews
  BY <1>1, <1>2 DEF Screens
<1>4. confirm' \in {"no", "plain", "force"} /\ view' \in {"list", "detail", "portal", "none"}
  BY DEF Screens, PagesNext, OpenPage, LeavePage, PollHost, ListAction, DetailAction, DetailDesktop, PortalDesktop,
         PortalRebuild, ListDelete, DetailDelete, CancelDelete, ConfirmDelete, OpenRebuild, ChooseMode, CloseRebuild,
         HandleRebuild, OpenUpgrade, ConfirmUpgrade, CloseUpgrade, OpenCreate, SubmitCreate, CloseCreate, QueueTask,
         CheckDelete, RemoveContainer, DeleteRow, StartDesktop, Refuse,
         PageAnswered, DeletedOnDetail, UpgradeProgress, TaskEnds, pagesVars,
         serverVars, dialogVars, buttonVars, consoleVars, Asking
<1>5. seen' \in [host: Statuses \cup {"gone"}, vnc: BOOLEAN]
  <2>1. \/ seen' = seen \/ seen' = [host |-> host, vnc |-> vnc] \/ seen' = [host |-> "gone", vnc |-> FALSE]
    BY DEF PagesNext, OpenPage, LeavePage, PollHost, ListAction, DetailAction, DetailDesktop, PortalDesktop,
         PortalRebuild, ListDelete, DetailDelete, CancelDelete, ConfirmDelete, OpenRebuild, ChooseMode, CloseRebuild,
         HandleRebuild, OpenUpgrade, ConfirmUpgrade, CloseUpgrade, OpenCreate, SubmitCreate, CloseCreate, QueueTask,
         CheckDelete, RemoveContainer, DeleteRow, StartDesktop, Refuse,
         PageAnswered, DeletedOnDetail, UpgradeProgress, TaskEnds, pagesVars,
         serverVars, dialogVars, buttonVars, consoleVars
  <2>2. host \in Statuses \cup {"gone"} /\ vnc \in BOOLEAN
    BY DEF Screens
  <2>3. CASE seen' = seen
    BY <2>3 DEF Screens
  <2>4. CASE seen' = [host |-> host, vnc |-> vnc]
    BY <2>2, <2>4
  <2>5. CASE seen' = [host |-> "gone", vnc |-> FALSE]
    BY <2>5
  <2> QED
    BY <2>1, <2>3, <2>4, <2>5
<1>6. host' \in Statuses \cup {"gone"} /\ alive' \in BOOLEAN /\ vnc' \in BOOLEAN
  <2>1. CASE \E t \in DOMAIN tasks: \E is \in {"succeeded", "failed"}: TaskEnds(t, is)
    <3>1. PICK t \in DOMAIN tasks, is \in {"succeeded", "failed"}: TaskEnds(t, is)
      BY <2>1
    <3>2. host' \in {host, "failed", "stopped", "running"}
      BY <3>1 DEF TaskEnds
    <3>3. vnc' = (vnc /\ host' = "running")
      BY <3>1 DEF TaskEnds
    <3>4. vnc' \in BOOLEAN
      BY <3>3, Zenon
    <3>5. alive' \in BOOLEAN
      <4>1. alive' \in {alive} \/ alive' \in BOOLEAN \/ alive' \in {host' = "running"}
        BY <3>1 DEF TaskEnds
      <4>2. alive' \in {alive} => alive' \in BOOLEAN
        BY DEF Screens
      <4>3. alive' \in {host' = "running"} => alive' \in BOOLEAN
        BY Zenon
      <4> QED
        BY <4>1, <4>2, <4>3
    <3> QED
      BY <3>2, <3>4, <3>5 DEF Statuses, Screens
  <2>2. CASE \E f \in flights: RemoveContainer(f) \/ DeleteRow(f) \/ StartDesktop(f)
    BY <2>2 DEF RemoveContainer, DeleteRow, StartDesktop, Screens
  <2>3. CASE UNCHANGED <<host, alive, vnc>>
    BY <2>3 DEF Screens
  <2> QED
    BY <2>1, <2>2, <2>3 DEF PagesNext, OpenPage, LeavePage, PollHost, ListAction, DetailAction, DetailDesktop,
         PortalDesktop, PortalRebuild, ListDelete, DetailDelete, CancelDelete, ConfirmDelete, OpenRebuild, ChooseMode,
         CloseRebuild, HandleRebuild, OpenUpgrade, ConfirmUpgrade, CloseUpgrade, OpenCreate, SubmitCreate, CloseCreate,
         QueueTask, CheckDelete, Refuse, PageAnswered, DeletedOnDetail, UpgradeProgress, pagesVars,
         serverVars, dialogVars, buttonVars, consoleVars
<1> QED
  BY <1>3, <1>4, <1>5, <1>6 DEF Screens

LEMMA PagesStart == PagesInit => Promised /\ Modes /\ Refers /\ Screens
<1> SUFFICES ASSUME PagesInit PROVE Promised /\ Modes /\ Refers /\ Screens
  OBVIOUS
<1>1. tasks \in Seq(Tasks) /\ Len(tasks) = 0 /\ flights = {}
  BY DEF PagesInit
<1>2. create \in Creates /\ create.keys = 0 /\ create.task = 0 /\ Modes
  BY DEF PagesInit, NoCreate, NoRebuild, Creates, Modes
<1>3. Promised
  BY <1>1, <1>2 DEF Promised
<1>4. upgrade \in Upgrades(0)
  BY DEF PagesInit, NoUpgrade, Upgrades
<1>5. Refers
  BY <1>1, <1>2, <1>4 DEF Refers
<1>6. MaxRequests \in Nat /\ MaxPageViews \in Nat
  BY PagesAssumption
<1>7. Screens
  <2>1. seen \in [host: Statuses \cup {"gone"}, vnc: BOOLEAN]
    <3>1. seen = [host |-> "gone", vnc |-> FALSE]
      BY DEF PagesInit
    <3> QED
      BY <3>1
  <2>2. requests \in 0..MaxRequests /\ views \in 0..MaxPageViews
    BY <1>6 DEF PagesInit
  <2>3. host \in Statuses /\ alive \in BOOLEAN /\ vnc = FALSE /\ view = "none" /\ confirm = "no"
    BY DEF PagesInit
  <2> QED
    BY <2>1, <2>2, <2>3 DEF Screens
<1> QED
  BY <1>2, <1>3, <1>5, <1>7

LEMMA PagesShown == Promised /\ Modes /\ Refers /\ Screens => PagesTypeOK
<1> SUFFICES ASSUME Promised, Modes, Refers, Screens PROVE PagesTypeOK
  OBVIOUS
<1>1. \A f \in flights: f \in [hook: Hooks, ask: Asks, force: BOOLEAN, warned: BOOLEAN, is: Phases, idle: BOOLEAN,
                               task: 0..Len(tasks)]
  <2> SUFFICES ASSUME NEW f \in flights
               PROVE  f \in [hook: Hooks, ask: Asks, force: BOOLEAN, warned: BOOLEAN, is: Phases, idle: BOOLEAN,
                             task: 0..Len(tasks)]
    OBVIOUS
  <2>1. f \in Flights /\ f.task \in 0..Len(tasks)
    BY DEF Promised, Refers
  <2> QED
    BY <2>1 DEF Flights
<1>2. create \in [open: BOOLEAN, task: 0..Len(tasks), keys: 0..Len(tasks)]
  <2>1. create \in Creates /\ create.task \in 0..Len(tasks) /\ create.keys \in 0..Len(tasks)
    <3>1. create \in Creates /\ (create.keys # 0 => create.keys = create.task) /\ create.task \in 0..Len(tasks)
      BY DEF Promised, Refers
    <3>2. 0 \in 0..Len(tasks)
      BY <3>1 DEF Promised
    <3> QED
      BY <3>1, <3>2
  <2> QED
    BY <2>1 DEF Creates
<1> QED
  BY <1>1, <1>2 DEF PagesTypeOK, Promised, Modes, Refers, Screens, Tasks, Hooks, Asks, Phases, Upgrades

(* Types of all variables: the requests and dialogs of the pages name      *)
(* tasks there are.                                                        *)
THEOREM PagesTyping == PagesSpec => []PagesTypeOK
<1>1. PagesInit => Promised /\ Modes /\ Refers /\ Screens
  BY PagesStart
<1>2. (Promised /\ Modes /\ Refers /\ Screens) /\ [PagesNext]_pagesVars => (Promised /\ Modes /\ Refers /\ Screens)'
  BY PromisesKept, ModesKept, RefersKept, ScreensKept
<1>3. Promised /\ Modes /\ Refers /\ Screens => PagesTypeOK
  BY PagesShown
<1> QED
  BY <1>1, <1>2, <1>3, PTL DEF PagesSpec

HIDE DEF Kinds

-----------------------------------------------------------------------------
(***************************************************************************)
(* HostConfig: an address after a change, what was typed is kept.          *)
(***************************************************************************)
USE DEF Editors, Closed, Server, Unfolded, Click, bindingVars, editorVars

-----------------------------------------------------------------------------
(* Types.  What is served was sent, and what is sent was in an open editor. *)

EditorStates == [open: BOOLEAN, draft: Contents \cup {Nothing}, sent: Contents \cup {Nothing},
                 is: {"no", "sent", "done"}]

Sound(s) == (s.open => s.draft \in Contents) /\ (s.is # "no" => s.sent \in Contents)
Drafts   == \A e \in Editors: Sound(editor[e])
Typed    == ConfigTypeOK /\ Drafts

\* A step on the editors alone: it is enough to look at the state of the one it changes.
LEMMA OneEditor ==
    ASSUME Typed, NEW e \in Editors, NEW s \in EditorStates, Sound(s),
           editor' = [editor EXCEPT ![e] = s]
    PROVE  editor' \in [Editors -> EditorStates] /\ Drafts'
<1>1. editor \in [Editors -> EditorStates]
  BY DEF Typed, ConfigTypeOK, EditorStates
<1> QED
  BY <1>1 DEF Typed, Drafts

LEMMA AnEditor ==
    ASSUME Typed, NEW e \in Editors
    PROVE  /\ editor[e] \in EditorStates
           /\ editor[e] = [open |-> editor[e].open, draft |-> editor[e].draft, sent |-> editor[e].sent,
                           is |-> editor[e].is]
           /\ Sound(editor[e])
<1>1. editor \in [Editors -> EditorStates]
  BY DEF Typed, ConfigTypeOK, EditorStates
<1> QED
  BY <1>1 DEF Typed, Drafts, EditorStates

LEMMA PageTyping ==
    ASSUME Typed, PollConfig \/ Fold \/ Unfold \/ OthersChange
    PROVE  Typed'
<1>1. CASE PollConfig
  BY <1>1 DEF Typed, ConfigTypeOK, Drafts, PollConfig
<1>2. CASE Fold
  <2> DEFINE s == [Closed EXCEPT !.sent = editor["mounts"].sent, !.is = editor["mounts"].is]
  <2>1. editor' = [editor EXCEPT !["mounts"] = s]
    BY <1>2 DEF Fold
  <2>2. s \in EditorStates /\ Sound(s)
    BY AnEditor, "mounts" \in Editors DEF EditorStates, Sound
  <2>3. editor' \in [Editors -> EditorStates] /\ Drafts'
    BY <2>1, <2>2, OneEditor
  <2> QED
    BY <1>2, <2>3 DEF Typed, ConfigTypeOK, EditorStates, Fold
<1>3. CASE Unfold
  <2> DEFINE s == [open |-> TRUE, draft |-> got.content["mounts"], sent |-> Nothing, is |-> "no"]
  <2>1. editor' = [editor EXCEPT !["mounts"] = s]
    BY <1>3 DEF Unfold
  <2>2. s \in EditorStates /\ Sound(s)
    BY DEF Typed, ConfigTypeOK, EditorStates, Sound
  <2>3. editor' \in [Editors -> EditorStates] /\ Drafts'
    BY <2>1, <2>2, OneEditor
  <2> QED
    BY <1>3, <2>3 DEF Typed, ConfigTypeOK, EditorStates, Unfold
<1>4. CASE OthersChange
  <2>1. Drafts'
    BY <1>4 DEF Typed, Drafts, Sound, OthersChange
  <2>2. up' \in BOOLEAN /\ bound' \in Ips \cup {Nothing} /\ content' \in [Editors -> Contents]
    <3>1. CASE up' = ~up /\ UNCHANGED <<bound, content>>
      BY <3>1 DEF Typed, ConfigTypeOK
    <3>2. CASE bound # Nothing /\ \E ip \in Ips: bound' = ip /\ UNCHANGED <<up, content>>
      BY <3>2 DEF Typed, ConfigTypeOK
    <3>3. CASE \E e \in Editors, c \in Contents: content' = [content EXCEPT ![e] = c] /\ UNCHANGED <<up, bound>>
      BY <3>3 DEF Typed, ConfigTypeOK
    <3> QED
      BY <1>4, <3>1, <3>2, <3>3 DEF OthersChange
  <2>3. others' \in 0..MaxOthers
    BY <1>4, ConfigAssumption DEF Typed, ConfigTypeOK, OthersChange
  <2> QED
    BY <1>4, <2>1, <2>2, <2>3 DEF Typed, ConfigTypeOK, OthersChange
<1> QED
  BY <1>1, <1>2, <1>3, <1>4

LEMMA BindingTyping ==
    ASSUME Typed,
           \/ \E ip \in Ips: SelectIp(ip)
           \/ HandleChange \/ Unbind \/ UnbindFails \/ BindNext \/ Bind \/ BindFails
    PROVE  Typed'
<1>1. CASE \E ip \in Ips: SelectIp(ip)
  BY <1>1 DEF Typed, ConfigTypeOK, Drafts, SelectIp
<1>2. CASE HandleChange
  BY <1>2, ConfigAssumption DEF Typed, ConfigTypeOK, Drafts, HandleChange
<1>3. CASE Unbind \/ UnbindFails
  BY <1>3 DEF Typed, ConfigTypeOK, Drafts, Unbind, UnbindFails
<1>4. CASE BindNext \/ Bind \/ BindFails
  BY <1>4 DEF Typed, ConfigTypeOK, Drafts, BindNext, Bind, BindFails
<1> QED
  BY <1>1, <1>2, <1>3, <1>4

LEMMA EditorTyping ==
    ASSUME Typed, NEW e \in Editors,
           \/ EditLimits \/ CancelLimits \/ SaveLimits \/ SaveMounts
           \/ SaveServed(e) \/ SaveSucceeds(e) \/ SaveFails(e)
           \/ \E c \in Contents: Type(e, c)
    PROVE  Typed'
<1> USE AnEditor, OneEditor DEF Sound
<1>1. CASE EditLimits
  <2> DEFINE s == [editor["limits"] EXCEPT !.open = TRUE, !.draft = got.content["limits"]]
  <2>1. editor' = [editor EXCEPT !["limits"] = s]
    BY <1>1 DEF EditLimits
  <2>2. s \in EditorStates /\ Sound(s)
    BY DEF Typed, ConfigTypeOK, EditorStates
  <2>3. editor' \in [Editors -> EditorStates] /\ Drafts'
    BY <2>1, <2>2
  <2> QED
    BY <1>1, <2>3 DEF Typed, ConfigTypeOK, EditorStates, EditLimits
<1>2. CASE CancelLimits
  <2> DEFINE s == [editor["limits"] EXCEPT !.open = FALSE]
  <2>1. editor' = [editor EXCEPT !["limits"] = s]
    BY <1>2, "limits" \in Editors DEF CancelLimits
  <2>2. s \in EditorStates /\ Sound(s)
    BY <1>2, "limits" \in Editors DEF Typed, ConfigTypeOK, EditorStates, CancelLimits
  <2>3. editor' \in [Editors -> EditorStates] /\ Drafts'
    BY <2>1, <2>2, "limits" \in Editors, OneEditor
  <2> QED
    BY <1>2, <2>3, ConfigAssumption DEF Typed, ConfigTypeOK, EditorStates, CancelLimits
<1>3. CASE SaveLimits
  <2> DEFINE s == [editor["limits"] EXCEPT !.is = "sent", !.sent = editor["limits"].draft]
  <2>1. editor' = [editor EXCEPT !["limits"] = s]
    BY <1>3, "limits" \in Editors DEF SaveLimits, Editable
  <2>2. s \in EditorStates /\ Sound(s)
    BY <1>3, "limits" \in Editors DEF Typed, ConfigTypeOK, EditorStates, SaveLimits, Editable
  <2>3. editor' \in [Editors -> EditorStates] /\ Drafts'
    BY <2>1, <2>2, "limits" \in Editors, OneEditor
  <2> QED
    BY <1>3, <2>3, ConfigAssumption DEF Typed, ConfigTypeOK, EditorStates, SaveLimits, Editable
<1>4. CASE SaveMounts
  <2> DEFINE s == [editor["mounts"] EXCEPT !.is = "sent", !.sent = editor["mounts"].draft]
  <2>1. editor' = [editor EXCEPT !["mounts"] = s]
    BY <1>4, "mounts" \in Editors DEF SaveMounts, Editable
  <2>2. s \in EditorStates /\ Sound(s)
    BY <1>4, "mounts" \in Editors DEF Typed, ConfigTypeOK, EditorStates, SaveMounts, Editable
  <2>3. editor' \in [Editors -> EditorStates] /\ Drafts'
    BY <2>1, <2>2, "mounts" \in Editors, OneEditor
  <2> QED
    BY <1>4, <2>3, ConfigAssumption DEF Typed, ConfigTypeOK, EditorStates, SaveMounts, Editable
<1>5. CASE SaveServed(e)
  <2> DEFINE s == [editor[e] EXCEPT !.is = "done"]
  <2>1. editor' = [editor EXCEPT ![e] = s]
    BY <1>5, e \in Editors DEF SaveServed
  <2>2. s \in EditorStates /\ Sound(s)
    BY <1>5, e \in Editors DEF Typed, ConfigTypeOK, EditorStates, SaveServed
  <2>3. editor' \in [Editors -> EditorStates] /\ Drafts'
    BY <2>1, <2>2, e \in Editors, OneEditor
  <2> QED
    BY <1>5, <2>3, ConfigAssumption DEF Typed, ConfigTypeOK, EditorStates, SaveServed
<1>6. CASE SaveSucceeds(e)
  <2>1. editor[e] \in EditorStates /\ editor[e].sent \in Contents
    BY <1>6, AnEditor DEF SaveSucceeds, Sound
  <2>2. editor' = [editor EXCEPT ![e] = Saved(e)]
    BY <1>6 DEF SaveSucceeds
  <2>3. Saved(e) \in EditorStates /\ Sound(Saved(e))
    BY <2>1 DEF Saved, EditorStates
  <2>4. editor' \in [Editors -> EditorStates] /\ Drafts'
    BY <2>2, <2>3, OneEditor
  <2> QED
    BY <1>6, <2>4, ConfigAssumption DEF Typed, ConfigTypeOK, EditorStates, SaveSucceeds
<1>7. CASE SaveFails(e)
  <2> DEFINE s == [editor[e] EXCEPT !.is = "no", !.sent = Nothing]
  <2>1. editor' = [editor EXCEPT ![e] = s]
    BY <1>7, e \in Editors DEF SaveFails
  <2>2. s \in EditorStates /\ Sound(s)
    BY <1>7, e \in Editors DEF Typed, ConfigTypeOK, EditorStates, SaveFails
  <2>3. editor' \in [Editors -> EditorStates] /\ Drafts'
    BY <2>1, <2>2, e \in Editors, OneEditor
  <2> QED
    BY <1>7, <2>3, ConfigAssumption DEF Typed, ConfigTypeOK, EditorStates, SaveFails
<1>8. CASE \E c \in Contents: Type(e, c)
  <2> PICK c \in Contents: Type(e, c)
    BY <1>8
  <2> DEFINE s == [editor[e] EXCEPT !.draft = c]
  <2>1. editor' = [editor EXCEPT ![e] = s]
    BY e \in Editors DEF Type
  <2>2. s \in EditorStates /\ Sound(s)
    BY e \in Editors DEF Typed, ConfigTypeOK, EditorStates, Type
  <2>3. editor' \in [Editors -> EditorStates] /\ Drafts'
    BY <2>1, <2>2, e \in Editors, OneEditor
  <2> QED
    BY <2>3, ConfigAssumption DEF Typed, ConfigTypeOK, EditorStates, Type
<1> QED
  BY <1>1, <1>2, <1>3, <1>4, <1>5, <1>6, <1>7, <1>8

(* The values of all the section's variables have their types, and what an *)
(* open editor holds, or has sent, is a content: it is never saved empty.  *)
THEOREM ConfigTyping == ConfigSpec => [](ConfigTypeOK /\ Drafts)
<1>1. ConfigInit => Typed
  <2> SUFFICES ASSUME ConfigInit PROVE Typed
    OBVIOUS
  <2>1. ConfigTypeOK
    <3>1. got \in [up: BOOLEAN, bound: Ips \cup {Nothing}, content: [Editors -> Contents]]
      <4>1. got = [up |-> up, bound |-> bound, content |-> content]
        BY DEF ConfigInit
      <4>2. up \in BOOLEAN /\ bound \in Ips /\ content \in [Editors -> Contents]
        BY DEF ConfigInit
      <4> QED
        BY <4>1, <4>2
    <3>2. editor \in [Editors -> EditorStates]
      <4>1. editor = [e \in Editors |-> IF e = "limits" THEN Closed ELSE Unfolded(got)]
        BY DEF ConfigInit
      <4>2. Closed \in EditorStates
        BY DEF EditorStates
      <4>3. Unfolded(got) \in EditorStates
        BY <3>1 DEF EditorStates
      <4> QED
        BY <4>1, <4>2, <4>3
    <3>3. typed \in [Editors -> Contents \cup {Nothing}]
      BY DEF ConfigInit
    <3>4. clicks \in 0..MaxClicks /\ others \in 0..MaxOthers
      BY ConfigAssumption DEF ConfigInit
    <3>5. /\ up \in BOOLEAN /\ bound \in Ips \cup {Nothing} /\ content \in [Editors -> Contents]
          /\ section \in BOOLEAN /\ selected \in Ips \cup {Nothing} /\ target \in Ips \cup {Nothing}
          /\ change \in {"no", "unbinding", "unbound", "binding"} /\ abandoned \in BOOLEAN
          /\ listening \in BOOLEAN
      BY DEF ConfigInit
    <3> QED
      BY <3>1, <3>2, <3>3, <3>4, <3>5 DEF ConfigTypeOK, EditorStates
  <2>2. Drafts
    BY DEF ConfigInit, Drafts, Sound
  <2> QED
    BY <2>1, <2>2 DEF Typed
<1>2. Typed /\ [ConfigNext]_configVars => Typed'
  <2> SUFFICES ASSUME Typed, [ConfigNext]_configVars PROVE Typed'
    OBVIOUS
  <2>1. CASE PollConfig \/ Fold \/ Unfold \/ OthersChange
    BY <2>1, PageTyping
  <2>2. CASE \/ \E ip \in Ips: SelectIp(ip)
             \/ HandleChange \/ Unbind \/ UnbindFails \/ BindNext \/ Bind \/ BindFails
    BY <2>2, BindingTyping
  <2>3. CASE EditLimits \/ CancelLimits \/ SaveLimits \/ SaveMounts
    BY <2>3, "limits" \in Editors, EditorTyping
  <2>4. CASE \E e \in Editors: \/ SaveServed(e) \/ SaveSucceeds(e) \/ SaveFails(e)
                               \/ \E c \in Contents: Type(e, c)
    BY <2>4, EditorTyping
  <2>5. CASE UNCHANGED configVars
    BY <2>5 DEF configVars, Typed, ConfigTypeOK, Drafts, Sound
  <2> QED
    BY <2>1, <2>2, <2>3, <2>4, <2>5 DEF ConfigNext
<1> QED
  BY <1>1, <1>2, PTL DEF ConfigSpec, Typed

-----------------------------------------------------------------------------
(* The binding.  A change binds an address, because only one of the list   *)
(* can be selected.                                                        *)

Chosen == selected \in Ips \cup {Nothing} /\ (change # "no" => target \in Ips)

(* A host is without an egress address only between the two requests of a  *)
(* change, or after a change that failed or was left between them: the two *)
(* requests of egress-binding-manager.tsx are the only way to take the     *)
(* address away.                                                           *)
THEOREM HostBound == ConfigSpec => []BoundAfterChange
<1> DEFINE Inv == BoundAfterChange /\ Chosen
<1>1. ConfigInit => Inv
  BY ConfigAssumption DEF ConfigInit, BoundAfterChange, Chosen
<1>2. Inv /\ [ConfigNext]_configVars => Inv'
  <2> SUFFICES ASSUME Inv, [ConfigNext]_configVars PROVE Inv'
    OBVIOUS
  <2> USE DEF BoundAfterChange, Chosen
  <2>1. CASE PollConfig \/ Unfold \/ OthersChange
    BY <2>1, ConfigAssumption DEF PollConfig, Unfold, OthersChange
  <2>2. CASE Fold
    BY <2>2 DEF Fold
  <2>3. CASE \E ip \in Ips: SelectIp(ip)
    BY <2>3 DEF SelectIp
  <2>4. CASE HandleChange
    BY <2>4 DEF HandleChange
  <2>5. CASE Unbind \/ UnbindFails
    BY <2>5 DEF Unbind, UnbindFails
  <2>6. CASE BindNext \/ BindFails
    BY <2>6 DEF BindNext, BindFails
  <2>7. CASE Bind
    BY <2>7, ConfigAssumption DEF Bind
  <2>8. CASE EditLimits \/ CancelLimits \/ SaveLimits \/ SaveMounts
    BY <2>8 DEF EditLimits, CancelLimits, SaveLimits, SaveMounts
  <2>9. CASE \E e \in Editors: \/ SaveServed(e) \/ SaveSucceeds(e) \/ SaveFails(e)
                               \/ \E c \in Contents: Type(e, c)
    BY <2>9 DEF SaveServed, SaveSucceeds, SaveFails, Type
  <2>10. CASE UNCHANGED configVars
    BY <2>10 DEF configVars
  <2> QED
    BY <2>1, <2>2, <2>3, <2>4, <2>5, <2>6, <2>7, <2>8, <2>9, <2>10 DEF ConfigNext
<1> QED
  BY <1>1, <1>2, PTL DEF ConfigSpec

-----------------------------------------------------------------------------
(* The editors.  A draft is dropped with the editor that holds it.         *)

Kept == /\ TypedKept
        /\ ~section => typed["mounts"] = Nothing
        /\ ~editor["limits"].open => typed["limits"] = Nothing

LEMMA EditsKeep ==
    ASSUME Typed, Kept, NEW e \in Editors,
           \/ EditLimits \/ CancelLimits \/ SaveLimits \/ SaveMounts
           \/ SaveServed(e) \/ SaveSucceeds(e) \/ SaveFails(e)
           \/ \E c \in Contents: Type(e, c)
    PROVE  Kept'
<1>1. editor \in [Editors -> EditorStates] /\ typed \in [Editors -> Contents \cup {Nothing}]
  BY DEF Typed, ConfigTypeOK, EditorStates
<1> USE <1>1 DEF Kept, TypedKept, EditorStates
<1>2. CASE EditLimits
  BY <1>2 DEF EditLimits
<1>3. CASE CancelLimits
  BY <1>3 DEF CancelLimits
<1>4. CASE SaveLimits
  BY <1>4 DEF SaveLimits
<1>5. CASE SaveMounts
  BY <1>5 DEF SaveMounts
<1>6. CASE SaveServed(e)
  BY <1>6 DEF SaveServed
<1>7. CASE SaveSucceeds(e)
  BY <1>7 DEF SaveSucceeds, Saved
<1>8. CASE SaveFails(e)
  BY <1>8 DEF SaveFails
<1>9. CASE \E c \in Contents: Type(e, c)
  BY <1>9 DEF Type, Editable
<1> QED
  BY <1>2, <1>3, <1>4, <1>5, <1>6, <1>7, <1>8, <1>9

(* What the user has typed stays in its editor until he saves or drops it: *)
(* the drafts of mount-manager.tsx and resource-limits-selector.tsx are    *)
(* states of their own, which polls, changes by others and failed saves do *)
(* not touch.                                                              *)
THEOREM TypingKept == ConfigSpec => []TypedKept
<1>1. ConfigInit => Kept
  BY DEF ConfigInit, Kept, TypedKept
<1>2. Typed /\ Kept /\ [ConfigNext]_configVars => Kept'
  <2> SUFFICES ASSUME Typed, Kept, [ConfigNext]_configVars PROVE Kept'
    OBVIOUS
  <2>1. editor \in [Editors -> EditorStates] /\ typed \in [Editors -> Contents \cup {Nothing}]
    BY DEF Typed, ConfigTypeOK, EditorStates
  <2>2. CASE PollConfig \/ OthersChange
    BY <2>2 DEF PollConfig, OthersChange, Kept, TypedKept
  <2>3. CASE Fold
    BY <2>1, <2>3 DEF Fold, Kept, TypedKept, EditorStates
  <2>4. CASE Unfold
    BY <2>1, <2>4 DEF Unfold, Kept, TypedKept, EditorStates
  <2>5. CASE \E ip \in Ips: SelectIp(ip)
    BY <2>5 DEF SelectIp, Kept, TypedKept
  <2>6. CASE HandleChange \/ Unbind \/ UnbindFails \/ BindNext \/ Bind \/ BindFails
    BY <2>6 DEF HandleChange, Unbind, UnbindFails, BindNext, Bind, BindFails, Kept, TypedKept
  <2>7. CASE EditLimits \/ CancelLimits \/ SaveLimits \/ SaveMounts
    BY <2>7, "limits" \in Editors, EditsKeep
  <2>8. CASE \E e \in Editors: \/ SaveServed(e) \/ SaveSucceeds(e) \/ SaveFails(e)
                               \/ \E c \in Contents: Type(e, c)
    BY <2>8, EditsKeep
  <2>9. CASE UNCHANGED configVars
    BY <2>9 DEF configVars, Kept, TypedKept
  <2> QED
    BY <2>2, <2>3, <2>4, <2>5, <2>6, <2>7, <2>8, <2>9 DEF ConfigNext
<1>3. ConfigSpec => []Typed
  BY ConfigTyping, PTL DEF Typed
<1> QED
  BY <1>1, <1>2, <1>3, PTL DEF ConfigSpec, Kept

-----------------------------------------------------------------------------
(***************************************************************************)
(* PathChooser: what is picked is what a save sends.                       *)
(***************************************************************************)

\* Paths and rows have their fields; of a path's directories nothing is asked.
Placed(p)   == \E d: \E r \in {"/", "", Drive}, b \in BOOLEAN: p = Path(r, d, b)
Row(s, t, p) == [source |-> s, target |-> t, picked |-> p]

\* What was picked is what the row mounts.
RowOK(r) ==
    /\ \E s, t, p: r = Row(s, t, p) /\ Placed(s) /\ Placed(t) /\ Placed(p)
    /\ r.picked = Empty \/ r.source = ToDockerMountPath(r.picked)
MountOK(m) ==
    \E s, t: /\ m = [source |-> s, target |-> t] /\ Placed(s) /\ Placed(t)
             /\ s.root = "/" /\ t.root = "/"
RowsOK(rs)   == \E S: rs \in Seq(S) /\ \A r \in S: RowOK(r)
MountsOK(ms) == \E S: ms \in Seq(S) /\ \A m \in S: MountOK(m)

PathInv ==
    /\ form \in {"manager", "create", "browser"}
    /\ RowsOK(rows) /\ Len(rows) <= MaxRows
    /\ sent # NoMounts => MountsOK(sent) /\ Len(sent) <= MaxRows
    /\ blurred \subseteq DOMAIN rows /\ opened \subseteq DOMAIN rows
    /\ chooser \in DOMAIN rows \cup {0} /\ Placed(at)
    /\ Placed(browsing) /\ browsing.root = "/"
    /\ steps \in 0..MaxSteps

LEMMA PathPlaced ==
    ASSUME NEW r \in {"/", "", Drive}, NEW d, NEW b \in BOOLEAN
    PROVE  Placed(Path(r, d, b))
  BY DEF Placed

LEMMA PlacedFacts ==
    ASSUME NEW p, Placed(p)
    PROVE  p = Path(p.root, p.dirs, p.slash) /\ p.root \in {"/", "", Drive} /\ p.slash \in BOOLEAN
<1>1. PICK d: \E r \in {"/", "", Drive}, b \in BOOLEAN: p = Path(r, d, b)
  BY DEF Placed
<1>2. PICK r \in {"/", "", Drive}, b \in BOOLEAN: p = Path(r, d, b)
  BY <1>1
<1>3. p.root = r /\ p.dirs = d /\ p.slash = b
  BY <1>2 DEF Path
<1> QED
  BY <1>2, <1>3

LEMMA Ends == Placed(Empty) /\ Placed(Top) /\ Empty.root = "" /\ Top.root = "/"
<1>1. Placed(Empty) /\ Placed(Top)
  BY PathPlaced DEF Empty, Top
<1>2. Empty.root = "" /\ Top.root = "/"
  BY DEF Empty, Top, Path
<1> QED
  BY <1>1, <1>2

\* Wherever a path leads, it has its fields.
LEMMA Moves ==
    ASSUME NEW p, Placed(p)
    PROVE  /\ Placed(ToDockerMountPath(p)) /\ Placed(GetParentPath(p)) /\ Placed(ResolveInitialPath(p))
           /\ \A c \in Breadcrumbs(p): Placed(c)
           /\ \A n: Placed(Path(p.root, Append(p.dirs, n), FALSE)) /\ Placed(Path("/", Append(p.dirs, n), FALSE))
           /\ Placed(GetQueryAndFilter(p).query)
           /\ p.root = "/" => \A c \in Breadcrumbs(p): c.root = "/"
<1>1. p.root \in {"/", "", Drive} /\ p.slash \in BOOLEAN
  BY PlacedFacts
<1>2. Placed(ToDockerMountPath(p))
  BY <1>1, PathPlaced DEF ToDockerMountPath
<1>3. Placed(GetParentPath(p))
  BY <1>1, PathPlaced, Ends DEF GetParentPath
<1>5. Placed(ResolveInitialPath(p))
  BY <1>1, PathPlaced, Ends DEF ResolveInitialPath
<1>6. ASSUME NEW c \in Breadcrumbs(p) PROVE Placed(c) /\ (p.root = "/" => c.root = "/")
  <2>1. CASE IsWindowsPath(p)
    <3>1. PICK d: c = Path(Drive, d, TRUE)
      BY <1>6, <2>1 DEF Breadcrumbs
    <3>2. p.root # "/"
      BY <2>1, PathAssumption DEF IsWindowsPath
    <3>3. Placed(c)
      BY <3>1, PathPlaced
    <3> QED
      BY <3>2, <3>3
  <2>2. CASE ~IsWindowsPath(p)
    <3>1. c = Top \/ \E d: c = Path("/", d, FALSE)
      BY <1>6, <2>2 DEF Breadcrumbs
    <3>2. CASE c = Top
      BY <3>2, Ends
    <3>3. CASE \E d: c = Path("/", d, FALSE)
      <4>1. PICK d: c = Path("/", d, FALSE)
        BY <3>3
      <4>2. c.root = "/"
        BY <4>1 DEF Path
      <4> QED
        BY <4>1, <4>2, PathPlaced
    <3> QED
      BY <3>1, <3>2, <3>3
  <2> QED
    BY <2>1, <2>2
<1>7. Placed(GetQueryAndFilter(p).query)
  <2>1. GetQueryAndFilter(p).query \in {Path(p.root, p.dirs, TRUE), Path(p.root, Front(p.dirs), TRUE)}
    BY DEF GetQueryAndFilter
  <2> QED
    BY <1>1, <2>1, PathPlaced
<1> QED
  BY <1>1, <1>2, <1>3, <1>5, <1>6, <1>7, PathPlaced

LEMMA RowFacts ==
    /\ \A r: RowOK(r) => /\ r = Row(r.source, r.target, r.picked)
                         /\ Placed(r.source) /\ Placed(r.target) /\ Placed(r.picked)
                         /\ r.picked = Empty \/ r.source = ToDockerMountPath(r.picked)
    /\ \A s, t, p: /\ Row(s, t, p).source = s /\ Row(s, t, p).target = t /\ Row(s, t, p).picked = p
                   /\ (Placed(s) /\ Placed(t) /\ Placed(p) /\ (p = Empty \/ s = ToDockerMountPath(p))) => RowOK(Row(s, t, p))
    /\ RowOK(EmptyRow)
<1>1. \A s, t, p: Row(s, t, p).source = s /\ Row(s, t, p).target = t /\ Row(s, t, p).picked = p
  BY DEF Row
<1>2. ASSUME NEW r, RowOK(r)
      PROVE  /\ r = Row(r.source, r.target, r.picked)
             /\ Placed(r.source) /\ Placed(r.target) /\ Placed(r.picked)
             /\ r.picked = Empty \/ r.source = ToDockerMountPath(r.picked)
  BY <1>1, <1>2 DEF RowOK
<1>3. ASSUME NEW s, NEW t, NEW p, Placed(s), Placed(t), Placed(p), p = Empty \/ s = ToDockerMountPath(p)
      PROVE  RowOK(Row(s, t, p))
  BY <1>1, <1>3 DEF RowOK
<1>4. RowOK(EmptyRow)
  BY <1>3, Ends DEF EmptyRow, Row
<1> QED
  BY <1>1, <1>2, <1>3, <1>4

\* The rows, and what is done to one of them.
LEMMA RowsFacts ==
    ASSUME NEW rs, RowsOK(rs)
    PROVE  /\ Len(rs) \in Nat /\ DOMAIN rs = 1..Len(rs) /\ \A i \in DOMAIN rs: RowOK(rs[i])
           /\ RowsOK(Append(rs, EmptyRow)) /\ Len(Append(rs, EmptyRow)) = Len(rs) + 1
           /\ \A i \in DOMAIN rs: RowsOK(RemoveAt(rs, i)) /\ Len(RemoveAt(rs, i)) = Len(rs) - 1
           /\ \A i \in DOMAIN rs: \A r: RowOK(r) => /\ RowsOK([rs EXCEPT ![i] = r])
                                                    /\ DOMAIN [rs EXCEPT ![i] = r] = DOMAIN rs
                                                    /\ Len([rs EXCEPT ![i] = r]) = Len(rs)
<1>1. PICK S: rs \in Seq(S) /\ \A r \in S: RowOK(r)
  BY DEF RowsOK
<1>2. Len(rs) \in Nat /\ DOMAIN rs = 1..Len(rs) /\ \A i \in DOMAIN rs: RowOK(rs[i])
  BY <1>1
<1>3. RowsOK(Append(rs, EmptyRow)) /\ Len(Append(rs, EmptyRow)) = Len(rs) + 1
  <2> DEFINE T == S \cup {EmptyRow}
  <2>1. rs \in Seq(T) /\ EmptyRow \in T /\ \A r \in T: RowOK(r)
    BY <1>1, RowFacts
  <2>2. Append(rs, EmptyRow) \in Seq(T) /\ Len(Append(rs, EmptyRow)) = Len(rs) + 1
    BY <2>1
  <2> HIDE DEF T
  <2> QED
    BY <2>1, <2>2 DEF RowsOK
<1>4. ASSUME NEW i \in DOMAIN rs PROVE RowsOK(RemoveAt(rs, i)) /\ Len(RemoveAt(rs, i)) = Len(rs) - 1
  <2>1. i \in 1..Len(rs)
    BY <1>2
  <2>2. SubSeq(rs, 1, i - 1) \in Seq(S) /\ Len(SubSeq(rs, 1, i - 1)) = i - 1
    BY <1>1, <1>2, <2>1
  <2>3. SubSeq(rs, i + 1, Len(rs)) \in Seq(S) /\ Len(SubSeq(rs, i + 1, Len(rs))) = Len(rs) - i
    BY <1>1, <1>2, <2>1
  <2>4. RemoveAt(rs, i) \in Seq(S) /\ Len(RemoveAt(rs, i)) = (i - 1) + (Len(rs) - i)
    BY <2>2, <2>3 DEF RemoveAt
  <2> QED
    BY <1>1, <1>2, <2>1, <2>4 DEF RowsOK
<1>5. ASSUME NEW i \in DOMAIN rs, NEW r, RowOK(r)
      PROVE  /\ RowsOK([rs EXCEPT ![i] = r]) /\ DOMAIN [rs EXCEPT ![i] = r] = DOMAIN rs
             /\ Len([rs EXCEPT ![i] = r]) = Len(rs)
  <2> DEFINE T == S \cup {r}
  <2>1. rs \in Seq(T) /\ r \in T /\ \A q \in T: RowOK(q)
    BY <1>1, <1>5
  <2>2. [rs EXCEPT ![i] = r] \in Seq(T) /\ DOMAIN [rs EXCEPT ![i] = r] = DOMAIN rs /\ Len([rs EXCEPT ![i] = r]) = Len(rs)
    BY <2>1
  <2> HIDE DEF T
  <2> QED
    BY <2>1, <2>2 DEF RowsOK
<1> QED
  BY <1>2, <1>3, <1>4, <1>5

\* A row's source set.
LEMMA SourceKeeps ==
    ASSUME PathInv, NEW i \in DOMAIN rows, NEW p, NEW picked, Placed(p), Placed(picked),
           picked = Empty \/ p = ToDockerMountPath(picked), UpdateSource(i, p, picked)
    PROVE  RowsOK(rows') /\ Len(rows') = Len(rows) /\ DOMAIN rows' = DOMAIN rows
<1>1. RowOK(rows[i])
  BY RowsFacts DEF PathInv
<1> DEFINE t == IF rows[i].target = Empty THEN p ELSE rows[i].target
<1>2. Placed(t)
  BY <1>1, RowFacts
<1>3. rows' = [rows EXCEPT ![i] = Row(p, t, picked)]
  BY DEF UpdateSource, Row
<1> HIDE DEF t
<1>4. RowOK(Row(p, t, picked))
  BY <1>2, RowFacts
<1> QED
  BY <1>3, <1>4, RowsFacts DEF PathInv

LEMMA Bounds == MaxRows \in Nat /\ 1 <= MaxRows /\ MaxSteps \in Nat /\ Drive # "/"
<1>1. MaxRows \in Nat \ {0} /\ MaxSteps \in Nat /\ Drive \notin {"/", ""}
  BY PathAssumption
<1>4. MaxRows \in Nat \ {0}
  BY <1>1, Zenon
<1>2. MaxRows \in Nat /\ 1 <= MaxRows
  BY <1>4
<1>3. Drive # "/"
  BY <1>1
<1> QED
  BY <1>1, <1>2, <1>3

LEMMA TextsPlaced == \A t \in Texts: Placed(t)
<1> SUFFICES ASSUME NEW t \in Texts PROVE Placed(t)
  OBVIOUS
<1>1. t = [root |-> t.root, dirs |-> t.dirs, slash |-> t.slash] /\ t.root \in {"/", "", Drive} /\ t.slash \in BOOLEAN
  BY PathAssumption
<1>2. t = Path(t.root, t.dirs, t.slash)
  BY <1>1 DEF Path
<1> QED
  BY <1>1, <1>2, PathPlaced

LEMMA OneRow == RowsOK(<<EmptyRow>>) /\ Len(<<EmptyRow>>) = 1
<1> DEFINE S == {EmptyRow}
<1>1. <<EmptyRow>> \in Seq(S) /\ Len(<<EmptyRow>>) = 1
  OBVIOUS
<1>2. \A r \in S: RowOK(r)
  BY RowFacts
<1> HIDE DEF S
<1> QED
  BY <1>1, <1>2 DEF RowsOK

LEMMA PathAtFirst == PathInit => PathInv
<1> SUFFICES ASSUME PathInit PROVE PathInv
  OBVIOUS
<1>1. 0 \in 0..MaxSteps
  BY Bounds
<1> QED
  BY <1>1, OneRow, Bounds, Ends DEF PathInit, PathInv

\* A field typed in, a list opened, closed or picked from, and a clock that runs out.
LEMMA FieldsKeep ==
    ASSUME PathInv, NEW i \in DOMAIN rows,
           \/ HandleFocus(i) \/ HandleBlur(i) \/ OpenChooser(i)
           \/ \E t \in Texts: TypeSource(i, t) \/ TypeTarget(i, t)
           \/ \E n \in Offered(rows[i].source): HandleSelectEntry(i, n)
    PROVE  PathInv'
<1>1. RowOK(rows[i]) /\ Placed(rows[i].source)
  BY RowsFacts, RowFacts DEF PathInv
<1>2. \A t \in Texts: Placed(t)
  BY TextsPlaced
<1>3. ASSUME steps' = steps + 1, steps < MaxSteps PROVE steps' \in 0..MaxSteps
  BY <1>3, Bounds DEF PathInv
<1>4. CASE HandleFocus(i) \/ HandleBlur(i)
  BY <1>4 DEF HandleFocus, HandleBlur, InFront, PathInv
<1>5. CASE OpenChooser(i)
  BY <1>1, <1>3, <1>5, Moves DEF OpenChooser, Step, PathInv
<1>6. ASSUME NEW t \in Texts, TypeSource(i, t) PROVE PathInv'
  <2>1. RowsOK(rows') /\ Len(rows') = Len(rows) /\ DOMAIN rows' = DOMAIN rows
    BY <1>2, <1>6, SourceKeeps, Ends DEF TypeSource
  <2> QED
    BY <1>3, <1>6, <2>1 DEF TypeSource, InFront, Step, PathInv
<1>7. ASSUME NEW t \in Texts, TypeTarget(i, t) PROVE PathInv'
  <2>1. rows' = [rows EXCEPT ![i] = Row(rows[i].source, t, rows[i].picked)]
    <3>1. [rows[i] EXCEPT !.target = t] = Row(rows[i].source, t, rows[i].picked)
      BY <1>1, RowFacts DEF Row
    <3>2. rows' = [rows EXCEPT ![i] = [rows[i] EXCEPT !.target = t]]
      BY <1>7 DEF TypeTarget
    <3> QED
      BY <3>1, <3>2
  <2>2. RowOK(Row(rows[i].source, t, rows[i].picked))
    BY <1>1, <1>2, RowFacts
  <2>3. RowsOK(rows') /\ Len(rows') = Len(rows) /\ DOMAIN rows' = DOMAIN rows
    BY <2>1, <2>2, RowsFacts DEF PathInv
  <2> QED
    BY <1>3, <1>7, <2>3 DEF TypeTarget, InFront, Step, PathInv
<1>8. ASSUME NEW n \in Offered(rows[i].source), HandleSelectEntry(i, n) PROVE PathInv'
  <2> DEFINE q == GetQueryAndFilter(rows[i].source).query
  <2>1. Placed(Path(q.root, Append(q.dirs, n), FALSE))
    BY <1>1, Moves
  <2>2. UpdateSource(i, Path(q.root, Append(q.dirs, n), FALSE), Empty)
    BY <1>8 DEF HandleSelectEntry
  <2> HIDE DEF q
  <2>3. RowsOK(rows') /\ Len(rows') = Len(rows) /\ DOMAIN rows' = DOMAIN rows
    BY <2>1, <2>2, SourceKeeps, Ends
  <2> QED
    BY <1>3, <1>8, <2>3 DEF HandleSelectEntry, InFront, Step, PathInv
<1> QED
  BY <1>4, <1>5, <1>6, <1>7, <1>8

LEMMA RowsChange ==
    ASSUME PathInv, AddMountRow \/ \E i \in DOMAIN rows: RemoveMountRow(i)
    PROVE  PathInv'
<1>1. CASE AddMountRow
  <2>1. RowsOK(rows') /\ Len(rows') = Len(rows) + 1 /\ Len(rows) < MaxRows
    BY <1>1, RowsFacts DEF AddMountRow, PathInv
  <2>2. DOMAIN rows = 1..Len(rows) /\ DOMAIN rows' = 1..Len(rows') /\ Len(rows) \in Nat
    BY <2>1, RowsFacts DEF PathInv
  <2>3. DOMAIN rows \subseteq DOMAIN rows' /\ Len(rows') <= MaxRows
    BY <2>1, <2>2, Bounds
  <2> QED
    BY <1>1, <2>1, <2>3 DEF AddMountRow, InFront, PathInv
<1>2. ASSUME NEW i \in DOMAIN rows, RemoveMountRow(i) PROVE PathInv'
  <2>1. RowsOK(rows') /\ Len(rows') = Len(rows) - 1
    BY <1>2, RowsFacts DEF RemoveMountRow, PathInv
  <2>2. DOMAIN rows = 1..Len(rows) /\ DOMAIN rows' = 1..Len(rows') /\ Len(rows) \in Nat
    BY <2>1, RowsFacts DEF PathInv
  <2>3. DOMAIN rows \ {Len(rows)} \subseteq DOMAIN rows' /\ Len(rows') <= MaxRows
    BY <2>1, <2>2, Bounds DEF PathInv
  <2> QED
    BY <1>2, <2>1, <2>3 DEF RemoveMountRow, InFront, PathInv
<1> QED
  BY <1>1, <1>2

LEMMA ChooserKeeps ==
    ASSUME PathInv,
           \/ CloseChooser \/ Backspace \/ HandleSelect
           \/ \E n \in HostFiles(Folders, at): Enter(n)
           \/ \E c \in Breadcrumbs(at): GoTo(c)
    PROVE  PathInv'
<1>1. Placed(at)
  BY DEF PathInv
<1>2. CASE HandleSelect
  <2>1. chooser \in DOMAIN rows
    BY <1>2 DEF HandleSelect, Chooses, PathInv
  <2>2. RowsOK(rows') /\ Len(rows') = Len(rows) /\ DOMAIN rows' = DOMAIN rows
    BY <1>1, <1>2, <2>1, SourceKeeps, Moves DEF HandleSelect
  <2> QED
    BY <1>2, <2>2 DEF HandleSelect, Chooses, PathInv
<1>3. CASE CloseChooser
  BY <1>3 DEF CloseChooser, Chooses, PathInv
<1>4. CASE Backspace
  BY <1>1, <1>4, Moves DEF Backspace, Chooses, PathInv
<1>5. ASSUME NEW n \in HostFiles(Folders, at), Enter(n) PROVE PathInv'
  BY <1>1, <1>5, Moves DEF Enter, Chooses, PathInv
<1>6. ASSUME NEW c \in Breadcrumbs(at), GoTo(c) PROVE PathInv'
  BY <1>1, <1>6, Moves DEF GoTo, Chooses, PathInv
<1> QED
  BY <1>2, <1>3, <1>4, <1>5, <1>6

\* What is sent: rows with two absolute paths, and every one of them.
LEMMA Sends ==
    ASSUME PathInv, HandleSave
    PROVE  /\ MountsOK(sent') /\ Len(sent') <= MaxRows
           /\ \A i \in DOMAIN rows: rows[i].source.root = "/" /\ rows[i].target.root = "/"
                 => \E j \in DOMAIN sent': sent'[j] = Mount(rows[i])
<1> DEFINE K == {i \in DOMAIN rows: rows[i].source.root = "/" /\ rows[i].target.root = "/"}
<1>1. PICK S: rows \in Seq(S) /\ \A r \in S: RowOK(r)
  BY DEF PathInv, RowsOK
<1>2. ToSave \in Seq(S) /\ Len(ToSave) \in 0..Len(rows) /\ \E p: Places(ToSave, rows, K, Len(rows), p)
  BY <1>1, FilterPlaces, FilterShorter DEF ToSave
<1>3. PICK p: Places(ToSave, rows, K, Len(rows), p)
  BY <1>2
<1>4. Len(rows) \in Nat /\ DOMAIN rows = 1..Len(rows) /\ K \subseteq 1..Len(rows)
  BY <1>1
<1>5. \A j \in 1..Len(ToSave): ToSave[j] \in S /\ ToSave[j].source.root = "/" /\ ToSave[j].target.root = "/"
  BY <1>2, <1>3 DEF Places
<1>6. \A i \in K: \E j \in 1..Len(ToSave): ToSave[j] = rows[i]
  BY <1>3, <1>4 DEF Places
<1> DEFINE t == ToSave
<1>7. DOMAIN t = 1..Len(t) /\ Len(t) \in Nat
  BY <1>2
<1>8. sent' = [j \in 1..Len(t) |-> Mount(t[j])]
  BY <1>7 DEF HandleSave, MountsOf
<1> HIDE DEF t
<1> DEFINE T == {Mount(t[j]): j \in 1..Len(t)}
<1>9. sent' \in Seq(T) /\ Len(sent') = Len(t) /\ DOMAIN sent' = 1..Len(t)
  BY <1>7, <1>8
<1>10. \A m \in T: MountOK(m)
  <2> SUFFICES ASSUME NEW j \in 1..Len(t) PROVE MountOK(Mount(t[j]))
    OBVIOUS
  <2>1. RowOK(t[j]) /\ t[j].source.root = "/" /\ t[j].target.root = "/"
    BY <1>1, <1>5 DEF t
  <2>2. Placed(t[j].source) /\ Placed(t[j].target)
    BY <2>1, RowFacts
  <2> QED
    BY <2>1, <2>2 DEF MountOK, Mount
<1> HIDE DEF T
<1>11. MountsOK(sent')
  BY <1>9, <1>10 DEF MountsOK
<1>12. Len(sent') <= MaxRows
  BY <1>2, <1>4, <1>9, Bounds DEF PathInv, t
<1>13. ASSUME NEW i \in K PROVE \E j \in DOMAIN sent': sent'[j] = Mount(rows[i])
  <2>1. PICK j \in 1..Len(t): t[j] = rows[i]
    BY <1>6 DEF t
  <2> QED
    BY <1>8, <1>9, <2>1
<1> QED
  BY <1>11, <1>12, <1>13

LEMMA SavingKeeps ==
    ASSUME PathInv, HandleSave \/ RowsSaved \/ RowsNotSaved
    PROVE  PathInv'
<1>1. CASE HandleSave
  BY <1>1, Sends DEF HandleSave, InFront, PathInv
<1>2. CASE RowsNotSaved
  BY <1>2 DEF RowsNotSaved, PathInv
<1>3. CASE RowsSaved
  <2> DEFINE kept    == IF form = "create" THEN <<>> ELSE [i \in DOMAIN sent |-> RowOf(sent[i])]
             newRows == IF kept = <<>> THEN <<EmptyRow>> ELSE kept
  <2>1. /\ sent # NoMounts /\ sent' = NoMounts /\ rows' = newRows
        /\ opened' = opened \cap DOMAIN newRows /\ blurred' = blurred \cap DOMAIN newRows
        /\ IF form = "create" THEN chooser' = 0 /\ at' = at ELSE Follow(newRows)
        /\ UNCHANGED <<form, browsing, steps>>
    BY <1>3 DEF RowsSaved
  <2>2. RowsOK(newRows) /\ Len(newRows) <= MaxRows
    <3>1. CASE newRows = <<EmptyRow>>
      <4> HIDE DEF newRows
      <4> QED
        BY <3>1, OneRow, Bounds
    <3>2. CASE form # "create" /\ newRows = kept
      <4>1. PICK S: sent \in Seq(S) /\ \A m \in S: MountOK(m)
        BY <2>1 DEF PathInv, MountsOK
      <4> DEFINE T == {RowOf(m): m \in S}
      <4>2. kept = [i \in 1..Len(sent) |-> RowOf(sent[i])] /\ Len(sent) \in Nat /\ \A i \in 1..Len(sent): sent[i] \in S
        BY <3>2, <4>1
      <4>3. kept \in Seq(T) /\ Len(kept) = Len(sent)
        BY <4>2
      <4>4. \A r \in T: RowOK(r)
        <5> SUFFICES ASSUME NEW m \in S PROVE RowOK(RowOf(m))
          OBVIOUS
        <5>3. MountOK(m)
          BY <4>1
        <5>1. Placed(m.source) /\ Placed(m.target)
          BY <5>3 DEF MountOK
        <5>2. RowOf(m) = Row(m.source, m.target, Empty)
          BY DEF RowOf, Row
        <5>4. RowOK(Row(m.source, m.target, Empty))
          BY <5>1, RowFacts, Ends
        <5> QED
          BY <5>2, <5>4
      <4> HIDE DEF T, kept
      <4>5. RowsOK(kept)
        BY <4>3, <4>4 DEF RowsOK
      <4>6. Len(kept) <= MaxRows
        BY <2>1, <4>3 DEF PathInv
      <4> QED
        BY <3>2, <4>5, <4>6
    <3>3. newRows = <<EmptyRow>> \/ (form # "create" /\ newRows = kept)
      OBVIOUS
    <3> QED
      BY <3>1, <3>2, <3>3
  <2> HIDE DEF newRows
  <2>3. chooser' \in DOMAIN newRows \cup {0} /\ Placed(at')
    <3>1. CASE form = "create"
      BY <2>1, <3>1 DEF PathInv
    <3>2. CASE form # "create"
      <4>1. chooser' = IF chooser \in DOMAIN newRows THEN chooser ELSE 0
        BY <2>1, <3>2 DEF Follow
      <4>2. at' = at \/ (chooser \in DOMAIN newRows /\ at' = ResolveInitialPath(newRows[chooser].source))
        BY <2>1, <3>2 DEF Follow
      <4>3. CASE chooser \in DOMAIN newRows /\ at' = ResolveInitialPath(newRows[chooser].source)
        <5>1. Placed(newRows[chooser].source)
          BY <2>2, <4>3, RowsFacts, RowFacts
        <5> QED
          BY <4>1, <4>3, <5>1, Moves
      <4> QED
        BY <4>1, <4>2, <4>3 DEF PathInv
    <3> QED
      BY <3>1, <3>2
  <2> QED
    BY <2>1, <2>2, <2>3 DEF PathInv
<1> QED
  BY <1>1, <1>2, <1>3

LEMMA BrowsingKeeps ==
    ASSUME PathInv,
           \/ \E n \in HostFiles(Inside, browsing): Browse(Path("/", Append(browsing.dirs, n), FALSE))
           \/ \E c \in Breadcrumbs(browsing): Browse(c)
    PROVE  PathInv'
<1>1. Placed(browsing) /\ browsing.root = "/"
  BY DEF PathInv
<1>2. Placed(browsing') /\ browsing'.root = "/" /\ UNCHANGED <<form, rows, mounts, sent, opened, blurred, chooser, at, steps>>
  BY <1>1, Moves DEF Browse, Path
<1> QED
  BY <1>2 DEF PathInv

LEMMA PathStays == PathInv /\ [PathNext]_pathVars => PathInv'
<1> SUFFICES ASSUME PathInv, [PathNext]_pathVars PROVE PathInv'
  OBVIOUS
<1>1. CASE UNCHANGED pathVars
  BY <1>1 DEF pathVars, PathInv
<1>2. ASSUME NEW i \in blurred, BlurTimer(i) PROVE PathInv'
  BY <1>2 DEF BlurTimer, PathInv
<1>3. CASE PathNext
  BY <1>2, <1>3, FieldsKeep, RowsChange, ChooserKeeps, SavingKeeps, BrowsingKeeps DEF PathNext
<1> QED
  BY <1>1, <1>3

LEMMA PathShown == PathInv => PathTypeOK
<1> SUFFICES ASSUME PathInv PROVE PathTypeOK
  OBVIOUS
<1>1. \A i \in DOMAIN rows: IsPath(rows[i].source) /\ IsPath(rows[i].target) /\ IsPath(rows[i].picked)
  BY RowsFacts, RowFacts, PlacedFacts DEF PathInv, IsPath
<1>2. sent = NoMounts \/ \A i \in DOMAIN sent: sent[i].source.root = "/" /\ sent[i].target.root = "/"
  <2> SUFFICES ASSUME sent # NoMounts, NEW i \in DOMAIN sent PROVE sent[i].source.root = "/" /\ sent[i].target.root = "/"
    OBVIOUS
  <2>1. PICK S: sent \in Seq(S) /\ \A m \in S: MountOK(m)
    BY DEF PathInv, MountsOK
  <2>2. MountOK(sent[i])
    BY <2>1
  <2> QED
    BY <2>2 DEF MountOK
<1> QED
  BY <1>1, <1>2, PlacedFacts DEF PathInv, PathTypeOK, IsPath

\* A save sends what was picked.
LEMMA PickedSent ==
    ASSUME PathInv, [PathNext]_pathVars, sent = NoMounts, sent' # NoMounts, NEW i \in DOMAIN rows,
           rows[i].picked.root # "", rows[i].picked # Path(Drive, <<>>, FALSE), rows[i].target.root = "/"
    PROVE  \E j \in DOMAIN sent': sent'[j].source.dirs = Mounted(rows[i].picked) /\ sent'[j].target = rows[i].target
<1>1. HandleSave
  BY DEF PathNext, pathVars, AddMountRow, CloseChooser, Backspace, HandleSelect, RemoveMountRow, HandleFocus, HandleBlur,
         OpenChooser, TypeSource, TypeTarget, HandleSelectEntry, BlurTimer, Enter, GoTo, RowsSaved, RowsNotSaved,
         Browse, InFront, Chooses
<1>0. \A d, b: Path("/", d, b).root = "/" /\ Path("/", d, b).dirs = d
  BY DEF Path
<1> DEFINE p == rows[i].picked
<1>2. Placed(p) /\ rows[i].source = ToDockerMountPath(p)
  BY RowsFacts, RowFacts, Ends DEF PathInv
<1>3. rows[i].source.root = "/" /\ rows[i].source.dirs = Mounted(p)
  <2>1. p = Path(p.root, p.dirs, p.slash) /\ p.root \in {"/", Drive} /\ p.slash \in BOOLEAN
    BY <1>2, PlacedFacts
  <2>2. CASE IsWindowsPath(p)
    <3> DEFINE d == <<Letter>> \o p.dirs
    <3>1. rows[i].source = Path("/", d, p.slash) /\ p.root = Drive
      BY <1>2, <2>2 DEF ToDockerMountPath, IsWindowsPath
    <3>2. Mounted(p) = d
      BY <3>1 DEF Mounted
    <3> HIDE DEF d, p
    <3>3. rows[i].source = Path("/", d, p.slash)
      BY <3>1
    <3>4. Path("/", d, p.slash).root = "/" /\ Path("/", d, p.slash).dirs = d
      BY <1>0, Zenon
    <3>5. rows[i].source.root = "/" /\ rows[i].source.dirs = d
      BY <3>3, <3>4, Zenon
    <3> QED
      BY <3>2, <3>5
  <2>3. CASE ~IsWindowsPath(p)
    <3>1. p.root = "/"
      BY <2>1, <2>3 DEF IsWindowsPath
    <3>2. rows[i].source = p
      BY <1>2, <2>3 DEF ToDockerMountPath
    <3> QED
      BY <3>1, <3>2, Bounds DEF Mounted
  <2> QED
    BY <2>2, <2>3
<1>4. PICK j \in DOMAIN sent': sent'[j] = Mount(rows[i])
  BY <1>1, <1>3, Sends
<1>6. Mount(rows[i]).source = rows[i].source /\ Mount(rows[i]).target = rows[i].target
  BY DEF Mount
<1> HIDE DEF p
<1>5. sent'[j].source.dirs = Mounted(p) /\ sent'[j].target = rows[i].target
  BY <1>3, <1>4, <1>6
<1> USE DEF p
<1> QED
  BY <1>5

(* Types of all variables: rows and mounts have their fields, lists and    *)
(* choosers belong to rows there are.                                      *)
THEOREM PathTyping == PathSpec => []PathTypeOK
<1>1. PathInit => PathInv
  BY PathAtFirst
<1>2. PathInv /\ [PathNext]_pathVars => PathInv'
  BY PathStays
<1>3. PathInv => PathTypeOK
  BY PathShown
<1> QED
  BY <1>1, <1>2, <1>3, PTL DEF PathSpec

(* A directory picked in the chooser is mounted by the next save, wherever *)
(* the chooser went and whatever was done to the other rows.               *)
THEOREM PicksSent == PathSpec => PicksMounted
<1>1. PathInit => PathInv
  BY PathAtFirst
<1>2. PathInv /\ [PathNext]_pathVars => PathInv'
  BY PathStays
<1>3. PathInv /\ [PathNext]_pathVars
        => (sent = NoMounts /\ sent' # NoMounts =>
               \A i \in DOMAIN rows:
                   /\ rows[i].picked.root # "" /\ rows[i].picked # Path(Drive, <<>>, FALSE)
                   /\ rows[i].target.root = "/"
                   => \E j \in DOMAIN sent': /\ sent'[j].source.dirs = Mounted(rows[i].picked)
                                             /\ sent'[j].target = rows[i].target)
  BY PickedSent
<1> QED
  BY <1>1, <1>2, <1>3, PTL DEF PathSpec, PicksMounted

-----------------------------------------------------------------------------
(***************************************************************************)
(* The screens side by side: what holds of each holds of all.              *)
(***************************************************************************)

LEMMA EachScreen == HostScreensSpec => TabSpec /\ PagesSpec /\ ConfigSpec /\ PathSpec
<1>1. HostScreensInit => TabInit /\ PagesInit /\ ConfigInit /\ PathInit
  BY DEF HostScreensInit
<1>2. [HostScreensNext]_hostScreensVars
         => [TabNext]_tabVars /\ [PagesNext]_pagesVars /\ [ConfigNext]_configVars /\ [PathNext]_pathVars
  BY DEF HostScreensNext, hostScreensVars
<1> QED
  BY <1>1, <1>2, PTL DEF HostScreensSpec, TabSpec, PagesSpec, ConfigSpec, PathSpec

(* Types of all variables of the four screens, whatever the user does on   *)
(* one of them.                                                            *)
THEOREM HostScreensTyping == HostScreensSpec => []HostScreensTypeOK
BY EachScreen, TabTyping, PagesTyping, ConfigTyping, PathTyping, PTL DEF HostScreensTypeOK
=============================================================================
