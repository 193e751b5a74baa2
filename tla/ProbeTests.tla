------------------------------ MODULE ProbeTests ------------------------------
(***************************************************************************)
(* The list of egress addresses: tests of their proxies, each a stream of  *)
(* stages from the server, the results that the browser keeps, and the     *)
(* dialog that shows one.                                                  *)
(*                                                                         *)
(* A test is known by its number.  Its stream ends with a result or with an*)
(* error, breaks, or ends without a word.                                  *)
(***************************************************************************)
EXTENDS Integers, Sequences, FiniteSets

CONSTANTS
    Proxies,   \* egress addresses
    MaxTests,  \* bound: tests started
    MaxUpdates \* bound: configurations saved

ASSUME TestsAssumption == Proxies # {} /\ {MaxTests, MaxUpdates} \subseteq Nat

VARIABLES
    tests,    \* all tests: address, what became of the stream, what it has sent
    testing,  \* states of the hook: latest stage, result and is it running
    results,  \* testResults of the page, kept by the browser
    dialogIp, \* testDialogIpId: an address, or the empty set
    updates

testVars == <<tests, testing, results, dialogIp, updates>>

Untested == [stage |-> "none", result |-> 0, running |-> FALSE]
Newest(p) == CHOOSE t \in 0..Len(tests): /\ t # 0 => tests[t].ip = p
                                         /\ \A s \in DOMAIN tests: tests[s].ip = p => s <= t

DialogOpen == \E p \in dialogIp: ~testing[p].running /\ results[p] # 0

\* What the dialog shows of an address: the state's own result once there is one to
\* come no more, or the kept one.
DialogShows(p) == IF testing[p].stage \in {"done", "error"} THEN testing[p].result ELSE results[p]

TestsInit ==
    /\ tests = <<>> /\ testing = [p \in Proxies |-> Untested]
    /\ results = [p \in Proxies |-> 0]
    /\ dialogIp = {} /\ updates = 0

\* The effect on [states]: a result is kept where none is, whichever test has
\* changed the states.
KeepResults(states) ==
    results' = [p \in Proxies |->
                  IF states[p].stage = "done" /\ results[p] = 0 THEN states[p].result ELSE results[p]]

SetTesting(p, state) ==
    LET states == [testing EXCEPT ![p] = state]
    IN  testing' = states /\ KeepResults(states)

-----------------------------------------------------------------------------
(* The page.                                                               *)

Test(p) == [ip |-> p, is |-> "open", last |-> "asked"]

\* The tests when the streams of the addresses P are aborted or left behind.
Closed(P) ==
    [t \in DOMAIN tests |-> IF tests[t].ip \in P THEN [tests[t] EXCEPT !.is = "closed"] ELSE tests[t]]

StartTest(p) == tests' = Append(Closed({p}), Test(p))

\* handleTest: the address becomes the dialog's, which opens at the end.
HandleTest(p) ==
    /\ ~DialogOpen /\ Len(tests) < MaxTests
    /\ ~testing[p].running
    /\ dialogIp' = {p}
    /\ StartTest(p)
    /\ SetTesting(p, [stage |-> "pulling", result |-> 0, running |-> TRUE])
    /\ UNCHANGED updates

\* A click on the status of an address that has a result.
OpenResult(p) ==
    /\ ~DialogOpen /\ results[p] # 0 /\ ~testing[p].running
    /\ dialogIp' = {p}
    /\ UNCHANGED <<tests, testing, results, updates>>

CloseResult ==
    /\ DialogOpen /\ dialogIp' = {}
    /\ tests' = Closed(dialogIp)
    /\ LET states == [p \in Proxies |-> IF p \in dialogIp THEN [testing[p] EXCEPT !.running = FALSE]
                                                          ELSE testing[p]]
       IN  testing' = states /\ KeepResults(states)
    /\ UNCHANGED updates

\* The drawer has saved a configuration (ProxyForm): onUpdated drops the result.
UpdateProxy(p) ==
    /\ ~DialogOpen
    /\ updates < MaxUpdates /\ updates' = updates + 1
    /\ results' = [results EXCEPT ![p] = 0]
    /\ UNCHANGED <<tests, testing, dialogIp>>

\* The streams are left behind; the hook's states are gone, the results kept.
ReloadPage ==
    /\ testing # [p \in Proxies |-> Untested]
    /\ tests' = Closed(Proxies)
    /\ testing' = [p \in Proxies |-> Untested] /\ dialogIp' = {}
    /\ UNCHANGED <<results, updates>>

-----------------------------------------------------------------------------
(* The stream.                                                             *)

\* runProbeStream: stages, at last a result or an error.
SendStage(t, stage) ==
    /\ tests[t].is = "open" /\ tests[t].last \notin {"done", "error"}
    /\ tests' = [tests EXCEPT ![t].last = stage]
    /\ UNCHANGED <<testing, results, dialogIp, updates>>

\* An event, of which an error keeps the result that was there.
ReceiveStage(t) ==
    LET p == tests[t].ip
        last == tests[t].last
        ended == last \in {"done", "error"}
    IN  /\ tests[t].is = "open" /\ last # "asked"
        /\ tests' = [tests EXCEPT ![t].is = IF ended THEN "closed" ELSE "open"]
        /\ SetTesting(p, [stage |-> last, running |-> ~ended,
                          result |-> IF last = "done" THEN t ELSE testing[p].result])
        /\ UNCHANGED <<dialogIp, updates>>

\* Not the code: only a message that is shown.
BreakStreamQuietly(t) ==
    LET p == tests[t].ip
    IN  /\ tests[t].is = "open"
        /\ tests' = [tests EXCEPT ![t].is = "closed"]
        /\ SetTesting(p, [testing[p] EXCEPT !.stage = "error"])
        /\ UNCHANGED <<dialogIp, updates>>

\* Refused, or cut on the way.
BreakStream(t) ==
    LET p == tests[t].ip
    IN  /\ tests[t].is = "open"
        /\ tests' = [tests EXCEPT ![t].is = "closed"]
        /\ SetTesting(p, [testing[p] EXCEPT !.stage = "error", !.running = FALSE])
        /\ UNCHANGED <<dialogIp, updates>>

\* The body ends as it should, but no event that could be read was the last one:
\* the loop is left, and the state stays as it is.
EndStream(t) ==
    /\ tests[t].is = "open"
    /\ tests' = [tests EXCEPT ![t].is = "silent"]
    /\ UNCHANGED <<testing, results, dialogIp, updates>>

-----------------------------------------------------------------------------
TestsNext ==
    \/ \E p \in Proxies: HandleTest(p) \/ OpenResult(p) \/ UpdateProxy(p)
    \/ CloseResult \/ ReloadPage
    \/ \E t \in DOMAIN tests: \/ ReceiveStage(t) \/ BreakStream(t) \/ EndStream(t)
                              \/ \E stage \in {"starting", "error", "done"}: SendStage(t, stage)

TestsSpec == TestsInit /\ [][TestsNext]_testVars

-----------------------------------------------------------------------------
(* Types of all variables.                                                 *)
TestsTypeOK ==
    /\ tests \in Seq([ip: Proxies, is: {"open", "closed", "silent"},
                      last: {"asked", "starting", "error", "done"}])
    /\ Len(tests) <= MaxTests
    /\ testing \in [Proxies -> [stage: {"none", "pulling", "starting", "error", "done"},
                                result: 0..Len(tests), running: BOOLEAN]]
    /\ results \in [Proxies -> 0..Len(tests)]
    /\ dialogIp \subseteq Proxies /\ Cardinality(dialogIp) <= 1
    /\ updates \in 0..MaxUpdates

(* An address is shown as being tested exactly while the stream of its     *)
(* newest test is open, or after that stream has ended without a word: only*)
(* then is the row shown so for ever, and cannot be tested again before the*)
(* page is loaded again.  A result that the hook shows as done is that of  *)
(* the newest test, and what the list and the dialog show is always the    *)
(* result of a test of that very address.                                  *)
StateFollowsStream ==
    \A p \in Proxies:
        LET t == Newest(p)
        IN  /\ testing[p].running <=> t # 0 /\ tests[t].is \in {"open", "silent"}
            /\ testing[p].stage = "done" => testing[p].result = t
            /\ \A shown \in {DialogShows(p), results[p]} \ {0}: tests[shown].ip = p /\ tests[shown].last = "done"
=============================================================================
