--------------------------- MODULE DataScreensProofs ---------------------------
(***************************************************************************)
(* Proofs about the queries and mutations, the page of egress addresses and*)
(* the pages of users, for any bounds and any set of addresses, and at last*)
(* about all of them side by side.                                         *)
(***************************************************************************)
EXTENDS MCDataScreens, FiniteSetTheorems, TLAPS

-----------------------------------------------------------------------------
(* Tests of proxies.  Only the newest test of an address has an open       *)
(* stream, and results are those of tests that are done.                   *)

TestStages == {"asked", "starting", "error", "done"}
Streams    == {"open", "closed", "silent"}
TestRows   == [ip: Proxies, is: Streams, last: TestStages]
HookStages == {"none", "pulling", "starting", "error", "done"}
States(n)  == [stage: HookStages, result: 0..n, running: BOOLEAN]

\* t is the newest of the tests of p, or 0 and there is none.
NewestIs(list, p, t) ==
    /\ t \in 0..Len(list)
    /\ t # 0 => list[t].ip = p
    /\ \A s \in 1..Len(list): list[s].ip = p => s <= t

\* r is the result of a test of p.
ResultOf(list, p, r) == r = 0 \/ (r \in 1..Len(list) /\ list[r].ip = p /\ list[r].last = "done")

TestsTyped ==
    /\ tests \in Seq(TestRows) /\ Len(tests) <= MaxTests
    /\ testing \in [Proxies -> States(Len(tests))] /\ results \in [Proxies -> 0..Len(tests)]
    /\ dialogIp \subseteq Proxies /\ \A p, q \in dialogIp: p = q
    /\ updates \in 0..MaxUpdates

Follows(p) ==
    /\ ResultOf(tests, p, testing[p].result) /\ ResultOf(tests, p, results[p])
    /\ \E t: /\ NewestIs(tests, p, t)
             /\ \A s \in 1..Len(tests): tests[s].ip = p /\ tests[s].is # "closed" => s = t
             /\ testing[p].running <=> t # 0 /\ tests[t].is # "closed"
             /\ testing[p].stage = "done" => testing[p].result = t

TestsInv == TestsTyped /\ \A p \in Proxies: Follows(p)

LEMMA TestRowFacts ==
    ASSUME NEW list \in Seq(TestRows)
    PROVE  /\ Len(list) \in Nat /\ DOMAIN list = 1..Len(list)
           /\ \A t \in 1..Len(list): list[t] \in TestRows /\ list[t].ip \in Proxies /\ list[t].is \in Streams
                                     /\ list[t].last \in TestStages
<1>1. \A r \in TestRows: r.ip \in Proxies /\ r.is \in Streams /\ r.last \in TestStages
  BY DEF TestRows
<1>2. Len(list) \in Nat /\ DOMAIN list = 1..Len(list) /\ \A t \in 1..Len(list): list[t] \in TestRows
  OBVIOUS
<1> QED
  BY <1>1, <1>2

LEMMA NewestUnique ==
    ASSUME NEW list \in Seq(TestRows), NEW p, NEW t, NEW s, NewestIs(list, p, t), NewestIs(list, p, s)
    PROVE  t = s
BY DEF NewestIs

LEMMA NewestChosen ==
    ASSUME TestsTyped, NEW p, NEW t, NewestIs(tests, p, t)
    PROVE  Newest(p) = t
<1>1. DOMAIN tests = 1..Len(tests) /\ Len(tests) \in Nat
  BY DEF TestsTyped
<1>2. Newest(p) = CHOOSE s \in 0..Len(tests): NewestIs(tests, p, s)
  BY <1>1 DEF Newest, NewestIs
<1>3. t \in 0..Len(tests)
  BY DEF NewestIs
<1>4. NewestIs(tests, p, Newest(p))
  BY <1>2, <1>3
<1> QED
  BY <1>4, NewestUnique DEF TestsTyped

\* A list of the same tests, with some streams closed or further on.
Onward(old, new) ==
    /\ new \in Seq(TestRows) /\ Len(new) = Len(old)
    /\ \A t \in 1..Len(old): /\ new[t].ip = old[t].ip /\ (new[t].is # "closed" => old[t].is # "closed")
                             /\ old[t].last = "done" => new[t].last = "done"

LEMMA NewestStays ==
    ASSUME NEW old \in Seq(TestRows), NEW new, Onward(old, new), NEW p, NEW t
    PROVE  /\ NewestIs(old, p, t) => NewestIs(new, p, t)
           /\ ResultOf(old, p, t) => ResultOf(new, p, t)
BY DEF Onward, NewestIs, ResultOf

LEMMA KeepingKeeps ==
    ASSUME NEW list \in Seq(TestRows), NEW n \in Nat, n = Len(list),
           NEW states \in [Proxies -> States(n)],
           \A p \in Proxies: ResultOf(list, p, states[p].result) /\ ResultOf(list, p, results[p]),
           results \in [Proxies -> 0..n], KeepResults(states)
    PROVE  results' \in [Proxies -> 0..n] /\ \A p \in Proxies: ResultOf(list, p, results'[p])
BY DEF KeepResults, States

LEMMA TestsKeepOn ==
    ASSUME TestsInv, Onward(tests, tests'), UNCHANGED updates,
           testing' \in [Proxies -> States(Len(tests))], KeepResults(testing') \/ UNCHANGED results,
           dialogIp' \subseteq Proxies, \A p, q \in dialogIp': p = q,
           \A p \in Proxies: ResultOf(tests', p, testing'[p].result)
    PROVE  /\ TestsTyped'
           /\ \A p \in Proxies: ResultOf(tests', p, results'[p])
<1>1. Len(tests) \in Nat /\ Len(tests') = Len(tests) /\ tests' \in Seq(TestRows) /\ tests \in Seq(TestRows)
  BY DEF Onward, TestsInv, TestsTyped
<1>2. \A p \in Proxies: ResultOf(tests', p, results[p])
  BY <1>1, NewestStays DEF TestsInv, Follows
<1>3. results \in [Proxies -> 0..Len(tests)]
  BY DEF TestsInv, TestsTyped
<1>4. results' \in [Proxies -> 0..Len(tests)] /\ \A p \in Proxies: ResultOf(tests', p, results'[p])
  <2>1. CASE KeepResults(testing')
    BY <1>1, <1>2, <1>3, <2>1, KeepingKeeps
  <2>2. CASE UNCHANGED results
    BY <1>2, <1>3, <2>2
  <2> QED
    BY <2>1, <2>2
<1> QED
  BY <1>1, <1>4 DEF TestsInv, TestsTyped

LEMMA HandleTestKeeps ==
    ASSUME TestsInv, NEW p \in Proxies, HandleTest(p)
    PROVE  TestsInv'
<1> DEFINE L == [t \in DOMAIN tests |-> IF tests[t].ip \in {p} THEN [tests[t] EXCEPT !.is = "closed"] ELSE tests[t]]
           n == Len(tests)
           state == [stage |-> "pulling", result |-> 0, running |-> TRUE]
           states == [testing EXCEPT ![p] = state]
<1>1. /\ tests \in Seq(TestRows) /\ n \in Nat /\ n < MaxTests /\ MaxTests \in Nat /\ DOMAIN tests = 1..n
      /\ \A t \in 1..n: tests[t] \in TestRows
  BY TestRowFacts, TestsAssumption DEF TestsInv, TestsTyped, HandleTest
<1>2. /\ tests' = Append(L, Test(p)) /\ dialogIp' = {p} /\ testing' = states /\ KeepResults(states)
      /\ updates' = updates
  BY DEF HandleTest, StartTest, Closed, SetTesting
<1>3. \A t \in 1..n: /\ L[t] \in TestRows /\ L[t].ip = tests[t].ip /\ L[t].last = tests[t].last
                     /\ L[t].is # "closed" <=> tests[t].is # "closed" /\ tests[t].ip # p
  BY <1>1 DEF TestRows, Streams
<1>4. L \in Seq(TestRows) /\ Len(L) = n
  <2>1. L \in [1..n -> TestRows]
    BY <1>1, <1>3
  <2> QED
    BY <1>1, <2>1
<1>5. Test(p) \in TestRows /\ Test(p).ip = p /\ Test(p).is # "closed"
  BY DEF Test, TestRows, Streams, TestStages
<1> HIDE DEF L
<1>6. /\ tests' \in Seq(TestRows) /\ Len(tests') = n + 1 /\ tests'[n + 1] = Test(p)
      /\ \A t \in 1..n: tests'[t] = L[t]
  BY <1>1, <1>2, <1>4, <1>5
<1>7. testing \in [Proxies -> States(n)] /\ results \in [Proxies -> 0..n]
  BY DEF TestsInv, TestsTyped
<1>8. states \in [Proxies -> States(n + 1)]
  BY <1>1, <1>7 DEF States, HookStages
<1>9. \A q \in Proxies: \A r: ResultOf(tests, q, r) => ResultOf(tests', q, r)
  BY <1>1, <1>3, <1>6 DEF ResultOf
<1>10. \A q \in Proxies: ResultOf(tests', q, states[q].result) /\ ResultOf(tests', q, results[q])
  <2> SUFFICES ASSUME NEW q \in Proxies PROVE ResultOf(tests', q, states[q].result) /\ ResultOf(tests', q, results[q])
    OBVIOUS
  <2>1. ResultOf(tests', q, results[q])
    BY <1>9 DEF TestsInv, Follows
  <2>2. CASE q = p
    BY <1>7, <2>1, <2>2 DEF ResultOf
  <2>3. CASE q # p
    BY <1>7, <1>9, <2>1, <2>3 DEF TestsInv, Follows
  <2> QED
    BY <2>2, <2>3
<1>11. results' \in [Proxies -> 0..n + 1] /\ \A q \in Proxies: ResultOf(tests', q, results'[q])
  <2>1. results \in [Proxies -> 0..n + 1] /\ n + 1 \in Nat
    BY <1>1, <1>7
  <2> HIDE DEF states, n
  <2> QED
    BY <1>2, <1>6, <1>8, <1>10, <2>1, KeepingKeeps
<1>12. TestsTyped'
  BY <1>1, <1>2, <1>6, <1>8, <1>11 DEF TestsInv, TestsTyped
<1>13. ASSUME NEW q \in Proxies PROVE Follows(q)'
  <2>1. CASE q = p
    <3>1. NewestIs(tests', p, n + 1)
      BY <1>1, <1>5, <1>6 DEF NewestIs
    <3>2. \A s \in 1..n + 1: tests'[s].ip = p /\ tests'[s].is # "closed" => s = n + 1
      BY <1>1, <1>3, <1>6
    <3>3. testing'[p].running /\ testing'[p].stage = "pulling" /\ n + 1 # 0 /\ tests'[n + 1].is # "closed"
      BY <1>1, <1>2, <1>5, <1>6, <1>7
    <3> QED
      BY <1>2, <1>6, <1>10, <1>11, <2>1, <3>1, <3>2, <3>3 DEF Follows
  <2>2. CASE q # p
    <3>1. PICK t: /\ NewestIs(tests, q, t)
                  /\ \A s \in 1..n: tests[s].ip = q /\ tests[s].is # "closed" => s = t
                  /\ testing[q].running <=> t # 0 /\ tests[t].is # "closed"
                  /\ testing[q].stage = "done" => testing[q].result = t
      BY DEF TestsInv, Follows
    <3>2. NewestIs(tests', q, t)
      BY <1>1, <1>3, <1>5, <1>6, <2>2, <3>1 DEF NewestIs
    <3>3. \A s \in 1..n + 1: tests'[s].ip = q /\ tests'[s].is # "closed" => s = t
      BY <1>1, <1>3, <1>5, <1>6, <2>2, <3>1
    <3>4. testing'[q] = testing[q]
      BY <1>2, <1>7, <2>2
    <3>5. t # 0 => t \in 1..n /\ tests[t].ip = q
      BY <1>1, <3>1 DEF NewestIs
    <3>6. t # 0 => (tests'[t].is # "closed" <=> tests[t].is # "closed")
      BY <1>3, <1>6, <2>2, <3>5
    <3> QED
      BY <1>2, <1>6, <1>10, <1>11, <3>1, <3>2, <3>3, <3>4, <3>6 DEF Follows
  <2> QED
    BY <2>1, <2>2
<1> QED
  BY <1>12, <1>13 DEF TestsInv

\* A step that moves only the streams of some addresses, and their states.
LEMMA StreamsKeep ==
    ASSUME TestsInv, Onward(tests, tests'), TestsTyped',
           \A p \in Proxies: ResultOf(tests', p, testing'[p].result) /\ ResultOf(tests', p, results'[p]),
           \A p \in Proxies: \A t: NewestIs(tests, p, t) =>
              /\ testing'[p].running <=> t # 0 /\ tests'[t].is # "closed"
              /\ testing'[p].stage = "done" => testing'[p].result = t
    PROVE  TestsInv'
<1> SUFFICES ASSUME NEW p \in Proxies PROVE Follows(p)'
  BY DEF TestsInv
<1>1. PICK t: /\ NewestIs(tests, p, t)
              /\ \A s \in 1..Len(tests): tests[s].ip = p /\ tests[s].is # "closed" => s = t
  BY DEF TestsInv, Follows
<1>2. NewestIs(tests', p, t)
  BY <1>1, NewestStays DEF TestsInv, TestsTyped
<1>3. \A s \in 1..Len(tests'): tests'[s].ip = p /\ tests'[s].is # "closed" => s = t
  BY <1>1 DEF Onward
<1> QED
  BY <1>1, <1>2, <1>3 DEF Follows

LEMMA NewestFacts ==
    ASSUME TestsInv, NEW p \in Proxies, NEW t, NewestIs(tests, p, t)
    PROVE  /\ \A s \in 1..Len(tests): tests[s].ip = p /\ tests[s].is # "closed" => s = t
           /\ testing[p].running <=> t # 0 /\ tests[t].is # "closed"
           /\ testing[p].stage = "done" => testing[p].result = t
           /\ t # 0 => t \in 1..Len(tests) /\ tests[t].ip = p
<1>1. PICK u: /\ NewestIs(tests, p, u)
              /\ \A s \in 1..Len(tests): tests[s].ip = p /\ tests[s].is # "closed" => s = u
              /\ testing[p].running <=> u # 0 /\ tests[u].is # "closed"
              /\ testing[p].stage = "done" => testing[p].result = u
  BY DEF TestsInv, Follows
<1>2. u = t
  BY <1>1, NewestUnique DEF TestsInv, TestsTyped
<1> QED
  BY <1>1, <1>2 DEF NewestIs

\* A step for one open stream, t, whose address gets the state s.
LEMMA StreamKeeps ==
    ASSUME TestsInv, NEW t \in 1..Len(tests), tests[t].is # "closed", NEW is \in Streams, NEW s \in States(Len(tests)),
           tests' = [tests EXCEPT ![t].is = is], SetTesting(tests[t].ip, s),
           UNCHANGED <<dialogIp, updates>>, s.running <=> is # "closed", s.stage = "done" => s.result = t,
           ResultOf(tests, tests[t].ip, s.result)
    PROVE  TestsInv'
<1> DEFINE p == tests[t].ip
           states == [testing EXCEPT ![p] = s]
<1>1. tests \in Seq(TestRows) /\ testing \in [Proxies -> States(Len(tests))] /\ p \in Proxies
  BY TestRowFacts DEF TestsInv, TestsTyped
<1>2. testing' = states /\ KeepResults(states)
  BY DEF SetTesting
<1>3. Onward(tests, tests')
  <2>1. [tests[t] EXCEPT !.is = is] \in TestRows
    <3>1. tests[t] \in TestRows
      BY <1>1, TestRowFacts
    <3> QED
      BY <3>1 DEF TestRows
  <2>2. tests' \in Seq(TestRows) /\ Len(tests') = Len(tests)
    BY <1>1, <2>1
  <2>3. \A u \in 1..Len(tests): tests'[u] = IF u = t THEN [tests[t] EXCEPT !.is = is] ELSE tests[u]
    BY <1>1
  <2>4. \A u \in 1..Len(tests): /\ tests'[u].ip = tests[u].ip /\ tests'[u].last = tests[u].last
                                /\ tests'[u].is # "closed" => tests[u].is # "closed"
    BY <1>1, <2>3, TestRowFacts DEF TestRows
  <2> QED
    BY <2>2, <2>4 DEF Onward
<1>4. testing' \in [Proxies -> States(Len(tests))]
  BY <1>1, <1>2
<1>5. ASSUME NEW q \in Proxies PROVE ResultOf(tests', q, testing'[q].result)
  <2>1. ResultOf(tests, q, testing'[q].result)
    <3>1. CASE q = p
      BY <1>1, <1>2, <3>1
    <3>2. CASE q # p
      BY <1>1, <1>2, <3>2 DEF TestsInv, Follows
    <3> QED
      BY <3>1, <3>2
  <2> QED
    BY <1>1, <1>3, <2>1, NewestStays
<1>6. TestsTyped' /\ \A q \in Proxies: ResultOf(tests', q, results'[q])
  BY <1>2, <1>3, <1>4, <1>5, TestsKeepOn DEF TestsInv, TestsTyped
<1>7. ASSUME NEW q \in Proxies, NEW u, NewestIs(tests, q, u)
      PROVE  /\ testing'[q].running <=> u # 0 /\ tests'[u].is # "closed"
             /\ testing'[q].stage = "done" => testing'[q].result = u
  <2>1. CASE q = p
    <3>1. u = t /\ t # 0
      BY <1>7, <1>1, <2>1, NewestFacts, TestRowFacts
    <3>2. tests'[t].is = is
      BY <1>1, TestRowFacts DEF TestRows
    <3> QED
      BY <1>1, <1>2, <2>1, <3>1, <3>2
  <2>2. CASE q # p
    <3>1. testing'[q] = testing[q]
      BY <1>1, <1>2, <2>2
    <3>2. u # 0 => u # t /\ u \in 1..Len(tests)
      BY <1>7, <2>2, NewestFacts
    <3>3. u # 0 => tests'[u] = tests[u]
      BY <1>1, <3>2, TestRowFacts
    <3>4. /\ testing[q].running <=> u # 0 /\ tests[u].is # "closed"
          /\ testing[q].stage = "done" => testing[q].result = u
      BY <1>7, NewestFacts
    <3> QED
      BY <3>1, <3>3, <3>4
  <2> QED
    BY <2>1, <2>2
<1> QED
  BY <1>3, <1>5, <1>6, <1>7, StreamsKeep

\* A step that closes the streams of the addresses P, whose tests are not running then.
LEMMA ClosingKeeps ==
    ASSUME TestsInv, NEW P, UNCHANGED updates, dialogIp' = {},
           tests' = [t \in DOMAIN tests |-> IF tests[t].ip \in P THEN [tests[t] EXCEPT !.is = "closed"] ELSE tests[t]],
           testing' \in [Proxies -> States(Len(tests))], KeepResults(testing') \/ UNCHANGED results,
           \A p \in P \cap Proxies: /\ ~testing'[p].running
                                    /\ \/ testing'[p] = Untested
                                       \/ testing'[p].stage = testing[p].stage /\ testing'[p].result = testing[p].result,
           \A p \in Proxies \ P: testing'[p] = testing[p]
    PROVE  TestsInv'
<1>1. /\ tests \in Seq(TestRows) /\ testing \in [Proxies -> States(Len(tests))] /\ Len(tests) \in Nat
      /\ DOMAIN tests = 1..Len(tests)
      /\ \A t \in 1..Len(tests): tests[t] \in TestRows /\ tests[t].ip \in Proxies /\ tests[t].is \in Streams
  BY TestRowFacts DEF TestsInv, TestsTyped
<1>2. \A t \in 1..Len(tests): /\ tests'[t] \in TestRows /\ tests'[t].ip = tests[t].ip
                              /\ tests'[t].last = tests[t].last
                              /\ tests'[t].is # "closed" <=> tests[t].is # "closed" /\ tests[t].ip \notin P
  BY <1>1 DEF TestRows, Streams
<1>3. Onward(tests, tests')
  <2>1. tests' \in [1..Len(tests) -> TestRows]
    BY <1>1, <1>2
  <2>2. tests' \in Seq(TestRows) /\ Len(tests') = Len(tests)
    BY <1>1, <2>1
  <2> QED
    BY <1>2, <2>2 DEF Onward
<1>4. ASSUME NEW q \in Proxies PROVE ResultOf(tests', q, testing'[q].result)
  <2>1. ResultOf(tests, q, testing[q].result)
    BY DEF TestsInv, Follows
  <2>2. testing'[q].result \in {0, testing[q].result}
    BY DEF Untested
  <2> QED
    BY <1>1, <1>3, <2>1, <2>2, NewestStays DEF ResultOf
<1>5. TestsTyped' /\ \A q \in Proxies: ResultOf(tests', q, results'[q])
  BY <1>3, <1>4, TestsKeepOn
<1>6. ASSUME NEW q \in Proxies, NEW u, NewestIs(tests, q, u)
      PROVE  /\ testing'[q].running <=> u # 0 /\ tests'[u].is # "closed"
             /\ testing'[q].stage = "done" => testing'[q].result = u
  <2>1. u # 0 => u \in 1..Len(tests) /\ tests[u].ip = q
    BY <1>6, NewestFacts
  <2>2. CASE q \in P
    <3>1. ~testing'[q].running /\ (u # 0 => ~tests'[u].is # "closed")
      BY <1>2, <2>1, <2>2
    <3>2. testing'[q].stage = "done" => testing[q].stage = "done" /\ testing'[q].result = testing[q].result
      BY <2>2 DEF Untested
    <3> QED
      BY <1>6, <3>1, <3>2, NewestFacts
  <2>3. CASE q \notin P
    <3>1. testing'[q] = testing[q] /\ (u # 0 => (tests'[u].is # "closed" <=> tests[u].is # "closed"))
      BY <1>2, <2>1, <2>3
    <3> QED
      BY <1>6, <3>1, NewestFacts
  <2> QED
    BY <2>2, <2>3
<1> QED
  BY <1>3, <1>4, <1>5, <1>6, StreamsKeep

LEMMA PageKeepsTests ==
    ASSUME TestsInv,
           \/ \E p \in Proxies: OpenResult(p) \/ UpdateProxy(p)
           \/ CloseResult \/ ReloadPage
    PROVE  TestsInv'
<1>1. tests \in Seq(TestRows) /\ testing \in [Proxies -> States(Len(tests))] /\ Len(tests) \in Nat
  BY TestRowFacts DEF TestsInv, TestsTyped
<1>2. ASSUME NEW p \in Proxies, OpenResult(p) PROVE TestsInv'
  BY <1>2 DEF OpenResult, TestsInv, TestsTyped, Follows
<1>3. ASSUME NEW p \in Proxies, UpdateProxy(p) PROVE TestsInv'
  <2>1. UNCHANGED <<tests, testing, dialogIp>> /\ results' = [results EXCEPT ![p] = 0] /\ updates' \in 0..MaxUpdates
    BY <1>3, TestsAssumption DEF UpdateProxy, TestsInv, TestsTyped
  <2>2. results' \in [Proxies -> 0..Len(tests)] /\ \A q \in Proxies: results'[q] \in {0, results[q]}
    BY <1>1, <2>1 DEF TestsInv, TestsTyped
  <2>3. \A q \in Proxies: ResultOf(tests', q, results'[q])
    BY <2>1, <2>2 DEF TestsInv, Follows, ResultOf
  <2> QED
    BY <2>1, <2>2, <2>3 DEF TestsInv, TestsTyped, Follows
<1>4. CASE CloseResult
  <2> DEFINE states == [p \in Proxies |-> IF p \in dialogIp THEN [testing[p] EXCEPT !.running = FALSE] ELSE testing[p]]
  <2>1. /\ testing' = states /\ KeepResults(states) /\ dialogIp' = {} /\ updates' = updates
        /\ tests' = [t \in DOMAIN tests |-> IF tests[t].ip \in dialogIp THEN [tests[t] EXCEPT !.is = "closed"]
                                                                       ELSE tests[t]]
    BY <1>4 DEF CloseResult, Closed
  <2>2. \A p \in Proxies: states[p] \in States(Len(tests))
    BY <1>1 DEF States
  <2>3. states \in [Proxies -> States(Len(tests))]
    BY <2>2
  <2>4. \A p \in dialogIp \cap Proxies: /\ ~states[p].running
                                        /\ states[p].stage = testing[p].stage /\ states[p].result = testing[p].result
    BY <1>1 DEF States
  <2>5. \A p \in Proxies \ dialogIp: states[p] = testing[p]
    OBVIOUS
  <2> HIDE DEF states
  <2>6. /\ testing' \in [Proxies -> States(Len(tests))] /\ KeepResults(testing')
        /\ \A p \in dialogIp \cap Proxies: /\ ~testing'[p].running /\ testing'[p].stage = testing[p].stage
                                           /\ testing'[p].result = testing[p].result
        /\ \A p \in Proxies \ dialogIp: testing'[p] = testing[p]
    BY <2>1, <2>3, <2>4, <2>5
  <2> QED
    BY <2>1, <2>6, ClosingKeeps
<1>5. CASE ReloadPage
  <2>1. Untested \in States(Len(tests)) /\ ~Untested.running
    BY <1>1 DEF Untested, States, HookStages
  <2>2. /\ testing' = [p \in Proxies |-> Untested] /\ dialogIp' = {} /\ UNCHANGED <<results, updates>>
        /\ tests' = [t \in DOMAIN tests |-> IF tests[t].ip \in Proxies THEN [tests[t] EXCEPT !.is = "closed"] ELSE tests[t]]
    BY <1>5 DEF ReloadPage, Closed
  <2>3. /\ \A p \in Proxies \cap Proxies: ~testing'[p].running /\ testing'[p] = Untested
        /\ testing' \in [Proxies -> States(Len(tests))] /\ Proxies \ Proxies = {}
    BY <2>1, <2>2
  <2> QED
    BY <2>2, <2>3, ClosingKeeps
<1> QED
  BY <1>2, <1>3, <1>4, <1>5

\* A step that changes the row of one test, and nothing that is shown.
LEMMA RowKeeps ==
    ASSUME TestsInv, NEW t \in 1..Len(tests), NEW row \in TestRows, row.ip = tests[t].ip,
           row.is # "closed" <=> tests[t].is # "closed", tests[t].last = "done" => row.last = "done",
           tests' = [tests EXCEPT ![t] = row], UNCHANGED <<testing, results, dialogIp, updates>>
    PROVE  TestsInv'
<1>1. tests \in Seq(TestRows)
  BY DEF TestsInv, TestsTyped
<1>2. tests' \in Seq(TestRows) /\ Len(tests') = Len(tests)
  BY <1>1
<1>3. \A u \in 1..Len(tests): tests'[u] = IF u = t THEN row ELSE tests[u]
  BY <1>1
<1>4. \A u \in 1..Len(tests): /\ tests'[u].ip = tests[u].ip /\ (tests'[u].is # "closed" <=> tests[u].is # "closed")
                              /\ tests[u].last = "done" => tests'[u].last = "done"
  BY <1>3
<1>5. Onward(tests, tests')
  BY <1>2, <1>4 DEF Onward
<1>6. \A q \in Proxies: ResultOf(tests', q, testing'[q].result) /\ ResultOf(tests', q, results'[q])
  BY <1>1, <1>5, NewestStays DEF TestsInv, Follows
<1>7. TestsTyped'
  BY <1>2 DEF TestsInv, TestsTyped
<1>8. ASSUME NEW q \in Proxies, NEW u, NewestIs(tests, q, u)
      PROVE  /\ testing'[q].running <=> u # 0 /\ tests'[u].is # "closed"
             /\ testing'[q].stage = "done" => testing'[q].result = u
  BY <1>4, <1>8, NewestFacts
<1> QED
  BY <1>5, <1>6, <1>7, <1>8, StreamsKeep

LEMMA StreamKeepsTests ==
    ASSUME TestsInv, NEW t \in DOMAIN tests,
           \/ ReceiveStage(t) \/ BreakStream(t) \/ EndStream(t)
           \/ \E stage \in {"starting", "error", "done"}: SendStage(t, stage)
    PROVE  TestsInv'
<1>1. /\ tests \in Seq(TestRows) /\ testing \in [Proxies -> States(Len(tests))] /\ Len(tests) \in Nat
      /\ t \in 1..Len(tests) /\ tests[t] \in TestRows /\ tests[t].ip \in Proxies /\ tests[t].last \in TestStages
  BY TestRowFacts DEF TestsInv, TestsTyped
<1> DEFINE p == tests[t].ip
<1>2. testing[p] \in States(Len(tests)) /\ ResultOf(tests, p, testing[p].result)
  BY <1>1 DEF TestsInv, Follows
<1>3. CASE ReceiveStage(t)
  <2> DEFINE last == tests[t].last
             ended == last \in {"done", "error"}
             is == IF ended THEN "closed" ELSE "open"
             s == [stage |-> last, running |-> ~ended, result |-> IF last = "done" THEN t ELSE testing[p].result]
  <2>1. /\ tests[t].is # "closed" /\ last # "asked" /\ tests' = [tests EXCEPT ![t].is = is]
        /\ SetTesting(p, s) /\ UNCHANGED <<dialogIp, updates>>
    BY <1>3 DEF ReceiveStage
  <2>2. s \in States(Len(tests)) /\ is \in Streams
    BY <1>1, <1>2, <2>1 DEF States, HookStages, TestStages, Streams
  <2>3. ResultOf(tests, p, s.result)
    BY <1>1, <1>2 DEF ResultOf
  <2>4. (s.running <=> is # "closed") /\ (s.stage = "done" => s.result = t)
    OBVIOUS
  <2> HIDE DEF s, is
  <2> QED
    BY <1>1, <2>1, <2>2, <2>3, <2>4, StreamKeeps
<1>4. CASE BreakStream(t)
  <2> DEFINE s == [testing[p] EXCEPT !.stage = "error", !.running = FALSE]
  <2>1. /\ tests[t].is # "closed" /\ tests' = [tests EXCEPT ![t].is = "closed"]
        /\ SetTesting(p, s) /\ UNCHANGED <<dialogIp, updates>>
    BY <1>4 DEF BreakStream
  <2>2. s \in States(Len(tests)) /\ s.running = FALSE /\ s.stage = "error" /\ s.result = testing[p].result
    BY <1>2 DEF States, HookStages
  <2> HIDE DEF s
  <2> QED
    BY <1>1, <1>2, <2>1, <2>2, StreamKeeps DEF Streams
<1>5. ASSUME NEW stage \in {"starting", "error", "done"}, SendStage(t, stage) PROVE TestsInv'
  <2>1. /\ tests[t].last # "done" /\ tests' = [tests EXCEPT ![t] = [@ EXCEPT !.last = stage]]
        /\ UNCHANGED <<testing, results, dialogIp, updates>>
    BY <1>5 DEF SendStage
  <2>2. /\ [tests[t] EXCEPT !.last = stage] \in TestRows
        /\ [tests[t] EXCEPT !.last = stage].ip = tests[t].ip /\ [tests[t] EXCEPT !.last = stage].is = tests[t].is
    BY <1>1 DEF TestRows, TestStages
  <2> QED
    BY <1>1, <2>1, <2>2, RowKeeps
<1>6. CASE EndStream(t)
  <2>1. /\ tests[t].is = "open" /\ tests' = [tests EXCEPT ![t] = [@ EXCEPT !.is = "silent"]]
        /\ UNCHANGED <<testing, results, dialogIp, updates>>
    BY <1>6 DEF EndStream
  <2>2. /\ [tests[t] EXCEPT !.is = "silent"] \in TestRows
        /\ [tests[t] EXCEPT !.is = "silent"].ip = tests[t].ip /\ [tests[t] EXCEPT !.is = "silent"].is = "silent"
        /\ [tests[t] EXCEPT !.is = "silent"].last = tests[t].last
    BY <1>1 DEF TestRows, Streams
  <2> QED
    BY <1>1, <2>1, <2>2, RowKeeps
<1> QED
  BY <1>3, <1>4, <1>5, <1>6

LEMMA TestsAtFirst ==
    ASSUME TestsInit
    PROVE  TestsInv
<1>1. tests = <<>> /\ Len(<<>>) = 0 /\ <<>> \in Seq(TestRows)
  BY DEF TestsInit
<1>2. TestsTyped
  BY <1>1, TestsAssumption DEF TestsInit, TestsTyped, Untested, States, HookStages
<1>3. ASSUME NEW p \in Proxies PROVE Follows(p)
  <2>1. NewestIs(tests, p, 0)
    BY <1>1 DEF NewestIs
  <2> QED
    BY <1>1, <2>1 DEF TestsInit, Follows, ResultOf, Untested
<1> QED
  BY <1>2, <1>3 DEF TestsInv

LEMMA TestsStay ==
    ASSUME TestsInv, [TestsNext]_testVars
    PROVE  TestsInv'
<1>1. CASE UNCHANGED testVars
  BY <1>1 DEF testVars, TestsInv, TestsTyped, Follows
<1> QED
  BY <1>1, HandleTestKeeps, PageKeepsTests, StreamKeepsTests DEF TestsNext

LEMMA TestsShown == TestsInv => TestsTypeOK /\ StateFollowsStream
<1> SUFFICES ASSUME TestsInv PROVE TestsTypeOK /\ StateFollowsStream
  OBVIOUS
<1>1. TestsTypeOK
  <2>1. Cardinality(dialogIp) <= 1
    <3>1. CASE dialogIp = {}
      BY <3>1, FS_EmptySet
    <3>2. CASE dialogIp # {}
      <4>1. PICK p \in dialogIp: TRUE
        BY <3>2
      <4>2. dialogIp = {p}
        BY DEF TestsInv, TestsTyped
      <4> QED
        BY <4>2, FS_Singleton
    <3> QED
      BY <3>1, <3>2
  <2> QED
    BY <2>1 DEF TestsInv, TestsTyped, TestsTypeOK, TestRows, Streams, TestStages, States, HookStages
<1>2. ASSUME NEW p \in Proxies
      PROVE  LET t == Newest(p)
             IN  /\ testing[p].running <=> t # 0 /\ tests[t].is \in {"open", "silent"}
                 /\ testing[p].stage = "done" => testing[p].result = t
                 /\ \A shown \in {DialogShows(p), results[p]} \ {0}: tests[shown].ip = p /\ tests[shown].last = "done"
  <2>1. PICK t: NewestIs(tests, p, t)
    BY DEF TestsInv, Follows
  <2>2. Newest(p) = t
    BY <2>1, NewestChosen DEF TestsInv
  <2>3. ResultOf(tests, p, testing[p].result) /\ ResultOf(tests, p, results[p])
    BY DEF TestsInv, Follows
  <2>4. \A shown \in {DialogShows(p), results[p]} \ {0}: tests[shown].ip = p /\ tests[shown].last = "done"
    BY <2>3 DEF DialogShows, ResultOf
  <2>5. t # 0 => (tests[t].is # "closed" <=> tests[t].is \in {"open", "silent"})
    BY <2>1, NewestFacts, TestRowFacts DEF TestsInv, TestsTyped, Streams
  <2> QED
    BY <2>1, <2>2, <2>4, <2>5, NewestFacts
<1> QED
  BY <1>1, <1>2 DEF StateFollowsStream

-----------------------------------------------------------------------------
(* The pages of users: the server's side.  A request writes its parts in   *)
(* order; a part it has written stays its own until a later request, or one*)
(* that was under way when it was sent, writes it.                         *)

PartNames == {"new account", "new key", "new row", "login", "entry", "key", "old row", "row", "pair",
              "named row", "account"}
Outcomes == {"writing", "failed", "answered", "heard", "lost"}
Requests == [kind: Kinds, row: Nat, left: Seq(PartNames), is: Outcomes, waits: BOOLEAN, beside: SUBSET Nat]

Going(n)     == asks[n].is \in {"writing", "answered"}
Reigns(n, p) == force[p] = n \/ force[p] > n \/ force[p] \in asks[n].beside

Remaining(n) ==
    LET parts == Parts[asks[n].kind]
        left  == asks[n].left
    IN  /\ Len(left) <= Len(parts)
        /\ \A i \in 1..Len(left): left[i] = parts[Len(parts) - Len(left) + i]

Written(n) ==
    LET parts == Parts[asks[n].kind]
    IN  \A j \in 1..Len(parts) - Len(asks[n].left): parts[j] \in Lasting => Reigns(n, parts[j])

Aware(n) == \A m \in 1..n - 1: Going(m) => m \in asks[n].beside

Ended(n) ==
    /\ asks[n].is \in {"answered", "heard"} => asks[n].left = <<>>
    /\ asks[n].is = "answered" /\ asks[n].kind # "delete" => asks[n].waits

ServerInv ==
    /\ asks \in Seq(Requests) /\ force \in [Lasting -> 0..Len(asks)]
    /\ \A n \in Sent: /\ asks[n].row \in 0..n - 1 /\ asks[n].beside \subseteq 1..n - 1
                      /\ Remaining(n) /\ Written(n) /\ Aware(n) /\ Ended(n)

LEMMA PartsFacts ==
    /\ Kinds = {"create", "rotate", "regenerate", "generate", "import", "paste", "dropKey", "delete"}
    /\ \A k \in Kinds: Parts[k] \in Seq(PartNames)
<1>1. Kinds = {"create", "rotate", "regenerate", "generate", "import", "paste", "dropKey", "delete"}
  BY DEF Kinds, Parts
<1>2. /\ Parts["create"] = <<"new account", "new key", "new row">> /\ Parts["rotate"] = <<"login">>
      /\ Parts["regenerate"] = <<"entry", "key", "old row", "row">> /\ Parts["generate"] = <<"pair">>
      /\ Parts["import"] = <<"pair">> /\ Parts["paste"] = <<"pair">>
      /\ Parts["dropKey"] = <<"named row">> /\ Parts["delete"] = <<"account">>
  BY DEF Parts
<1>3. /\ <<"new account", "new key", "new row">> \in Seq(PartNames) /\ <<"login">> \in Seq(PartNames)
      /\ <<"entry", "key", "old row", "row">> \in Seq(PartNames) /\ <<"pair">> \in Seq(PartNames)
      /\ <<"named row">> \in Seq(PartNames) /\ <<"account">> \in Seq(PartNames)
  BY DEF PartNames
<1> QED
  BY <1>1, <1>2, <1>3

LEMMA RequestFacts ==
    ASSUME asks \in Seq(Requests)
    PROVE  /\ Len(asks) \in Nat /\ DOMAIN asks = 1..Len(asks)
           /\ \A n \in Sent: /\ n \in Nat /\ asks[n] \in Requests /\ asks[n].kind \in Kinds /\ asks[n].row \in Nat
                             /\ asks[n].left \in Seq(PartNames) /\ asks[n].is \in Outcomes
                             /\ asks[n].waits \in BOOLEAN /\ asks[n].beside \subseteq Nat
                             /\ Parts[asks[n].kind] \in Seq(PartNames)
<1>1. Len(asks) \in Nat /\ DOMAIN asks = 1..Len(asks) /\ \A n \in Sent: n \in Nat /\ asks[n] \in Requests
  BY DEF Sent
<1>2. \A a \in Requests: /\ a.kind \in Kinds /\ a.row \in Nat /\ a.left \in Seq(PartNames) /\ a.is \in Outcomes
                         /\ a.waits \in BOOLEAN /\ a.beside \subseteq Nat
  BY DEF Requests
<1> QED
  BY <1>1, <1>2, PartsFacts

\* The same requests with the same work; none comes back to life.
SameWork ==
    /\ asks' \in Seq(Requests) /\ Len(asks') = Len(asks)
    /\ \A n \in Sent: /\ asks'[n].kind = asks[n].kind /\ asks'[n].row = asks[n].row
                      /\ asks'[n].left = asks[n].left /\ asks'[n].beside = asks[n].beside
                      /\ asks'[n].is \in {"writing", "answered"} => Going(n)

LEMMA SameWorkKeeps ==
    ASSUME ServerInv, SameWork, UNCHANGED force, \A n \in Sent: Ended(n)'
    PROVE  ServerInv'
<1>1. Len(asks) \in Nat /\ Sent' = Sent /\ Sent = 1..Len(asks)
  BY DEF ServerInv, SameWork, Sent
<1>2. ASSUME NEW n \in Sent
      PROVE  /\ asks'[n].row \in 0..n - 1 /\ asks'[n].beside \subseteq 1..n - 1
             /\ Remaining(n)' /\ Written(n)'
  BY <1>2 DEF ServerInv, SameWork, Remaining, Written, Reigns
<1>3. ASSUME NEW n \in Sent PROVE Aware(n)'
  <2> SUFFICES ASSUME NEW m \in 1..n - 1, Going(m)' PROVE m \in asks'[n].beside
    BY DEF Aware
  <2>1. m \in Sent
    BY <1>1
  <2>2. Going(m)
    BY <2>1 DEF SameWork, Going
  <2>3. m \in asks[n].beside
    BY <2>2 DEF ServerInv, Aware
  <2> QED
    BY <2>3 DEF SameWork
<1> QED
  BY <1>1, <1>2, <1>3 DEF ServerInv, SameWork

\* A new request.
LEMMA AskKeeps ==
    ASSUME ServerInv, NEW k \in Kinds, NEW r \in Rows, NEW waits \in BOOLEAN, Ask(k, r, waits), UNCHANGED force
    PROVE  /\ ServerInv' /\ Len(asks') = Len(asks) + 1
           /\ \A n \in Sent: asks'[n] = asks[n]
           /\ asks'[Len(asks) + 1].kind = k /\ asks'[Len(asks) + 1].waits = waits
           /\ asks'[Len(asks) + 1].is = "writing"
<1> DEFINE new == [kind |-> k, row |-> r, left |-> Parts[k], is |-> "writing", waits |-> waits, beside |-> Under]
<1>1. asks \in Seq(Requests) /\ Len(asks) \in Nat /\ Sent = 1..Len(asks) /\ asks' = Append(asks, new)
  BY RequestFacts DEF ServerInv, Ask, Sent
<1>0. PICK N: N = Len(asks) + 1
  OBVIOUS
<1>2. Under \subseteq 1..Len(asks) /\ r \in 0..Len(asks)
  BY <1>1 DEF Under, Rows, Sent
<1>3. new \in Requests
  BY <1>1, <1>2, PartsFacts DEF Requests, Outcomes
<1> HIDE DEF new
<1>4. /\ asks' \in Seq(Requests) /\ Len(asks') = N /\ asks'[N] = new /\ Sent' = 1..N
      /\ \A n \in Sent: asks'[n] = asks[n] /\ n # N
  BY <1>0, <1>1, <1>3 DEF Sent
<1>5. force' \in [Lasting -> 0..N]
  BY <1>0, <1>1 DEF ServerInv
<1>6. ASSUME NEW n \in Sent
      PROVE  /\ asks'[n].row \in 0..n - 1 /\ asks'[n].beside \subseteq 1..n - 1
             /\ Remaining(n)' /\ Written(n)' /\ Ended(n)'
  <2>1. asks'[n] = asks[n] /\ force' = force
    BY <1>4
  <2>2. Remaining(n) /\ Written(n) /\ Ended(n)
    BY DEF ServerInv
  <2>3. Remaining(n)' /\ Ended(n)'
    BY <2>1, <2>2 DEF Remaining, Ended
  <2>4. Written(n)'
    BY <2>1, <2>2 DEF Written, Reigns
  <2> QED
    BY <2>1, <2>3, <2>4 DEF ServerInv
<1>7. ASSUME NEW n \in Sent PROVE Aware(n)'
  <2> SUFFICES ASSUME NEW m \in 1..n - 1, Going(m)' PROVE m \in asks'[n].beside
    BY DEF Aware
  <2>1. m \in Sent
    BY <1>1
  <2> QED
    BY <1>4, <2>1 DEF ServerInv, Aware, Going
<1>8. /\ asks'[N].row \in 0..N - 1 /\ asks'[N].beside \subseteq 1..N - 1
      /\ Remaining(N)' /\ Written(N)' /\ Ended(N)'
  <2>1. /\ asks'[N].kind = k /\ asks'[N].row = r /\ asks'[N].left = Parts[k] /\ asks'[N].is = "writing"
        /\ asks'[N].beside = Under
    BY <1>4 DEF new
  <2>2. Len(Parts[k]) \in Nat /\ Len(Parts[k]) - Len(Parts[k]) = 0 /\ 0..N - 1 = 0..Len(asks) /\ 1..N - 1 = 1..Len(asks)
    BY <1>0, <1>1, PartsFacts
  <2>3. Remaining(N)'
    BY <2>1, <2>2 DEF Remaining
  <2>4. Written(N)'
    BY <2>1, <2>2 DEF Written
  <2> QED
    BY <1>2, <2>1, <2>2, <2>3, <2>4 DEF Ended
<1>10. Aware(N)'
  <2> SUFFICES ASSUME NEW m \in 1..N - 1, Going(m)' PROVE m \in asks'[N].beside
    BY DEF Aware
  <2>1. m \in Sent
    BY <1>0, <1>1
  <2> QED
    BY <1>4, <2>1 DEF new, Going, Under
<1>11. ASSUME NEW n \in Sent'
       PROVE  /\ asks'[n].row \in 0..n - 1 /\ asks'[n].beside \subseteq 1..n - 1
              /\ Remaining(n)' /\ Written(n)' /\ Aware(n)' /\ Ended(n)'
  <2>1. n \in Sent \/ n = N
    BY <1>0, <1>1, <1>4
  <2> QED
    BY <1>6, <1>7, <1>8, <1>10, <2>1
<1>12. ServerInv'
  BY <1>4, <1>5, <1>11 DEF ServerInv
<1> QED
  BY <1>0, <1>4, <1>12 DEF new

\* One part written.
LEMMA WriteKeeps ==
    ASSUME ServerInv, NEW n \in Sent, WritePart(n)
    PROVE  /\ ServerInv' /\ Len(asks') = Len(asks)
           /\ \A m \in Sent: /\ asks'[m].kind = asks[m].kind /\ asks'[m].is = asks[m].is
                             /\ asks'[m].waits = asks[m].waits
<1> DEFINE parts == Parts[asks[n].kind]
           left  == asks[n].left
           part  == Head(left)
<1>1. /\ asks \in Seq(Requests) /\ Len(asks) \in Nat /\ Sent = 1..Len(asks) /\ force \in [Lasting -> 0..Len(asks)]
      /\ left \in Seq(PartNames) /\ left # <<>> /\ asks[n].is = "writing" /\ parts \in Seq(PartNames)
      /\ asks[n] \in Requests
  BY RequestFacts DEF ServerInv, WritePart, Sent
<1>2. /\ asks' = [asks EXCEPT ![n].left = Tail(left)]
      /\ force' = [p \in Lasting |-> IF p \in Replaced(n, part) THEN n ELSE force[p]]
  BY DEF WritePart
<1>3. /\ Len(left) \in Nat \ {0} /\ Len(parts) \in Nat /\ Tail(left) \in Seq(PartNames) /\ Len(Tail(left)) = Len(left) - 1
      /\ part = left[1] /\ \A i \in 1..Len(left) - 1: Tail(left)[i] = left[i + 1]
  <2>1. left \in Seq(PartNames) /\ left # <<>> /\ parts \in Seq(PartNames)
    BY <1>1
  <2> HIDE DEF left, parts
  <2>2. Len(left) \in Nat /\ Len(parts) \in Nat /\ Len(left) # 0
    BY <2>1
  <2>3. Tail(left) \in Seq(PartNames) /\ Len(Tail(left)) = Len(left) - 1 /\ part = left[1]
    BY <2>1, <2>2
  <2>4. \A i \in 1..Len(left) - 1: Tail(left)[i] = left[i + 1]
    BY <2>1, <2>2
  <2> QED
    BY <2>2, <2>3, <2>4
<1>4. [asks[n] EXCEPT !.left = Tail(left)] \in Requests
  BY <1>1, <1>3 DEF Requests
<1>5. /\ asks' \in Seq(Requests) /\ Len(asks') = Len(asks) /\ Sent' = Sent
      /\ \A m \in Sent: asks'[m] = IF m = n THEN [asks[n] EXCEPT !.left = Tail(left)] ELSE asks[m]
  BY <1>1, <1>2, <1>4 DEF Sent
<1>6. \A m \in Sent: /\ asks'[m].kind = asks[m].kind /\ asks'[m].row = asks[m].row /\ asks'[m].is = asks[m].is
                     /\ asks'[m].waits = asks[m].waits /\ asks'[m].beside = asks[m].beside
                     /\ m # n => asks'[m].left = asks[m].left
                     /\ m = n => asks'[m].left = Tail(left)
  <2> DEFINE new == [asks[n] EXCEPT !.left = Tail(left)]
  <2>1. /\ new.kind = asks[n].kind /\ new.row = asks[n].row /\ new.is = asks[n].is
        /\ new.waits = asks[n].waits /\ new.beside = asks[n].beside /\ new.left = Tail(left)
    BY <1>1 DEF Requests
  <2>2. \A m \in Sent: asks'[m] = IF m = n THEN new ELSE asks[m]
    BY <1>5
  <2> HIDE DEF new
  <2> QED
    BY <2>1, <2>2
<1>7. force' \in [Lasting -> 0..Len(asks')] /\ \A p \in Lasting: force'[p] \in {n, force[p]}
  BY <1>1, <1>2, <1>5
<1>8. ASSUME NEW m \in Sent, NEW p \in Lasting, Reigns(m, p) PROVE Reigns(m, p)'
  <2>1. CASE force'[p] = force[p]
    BY <1>6, <1>8, <2>1 DEF Reigns
  <2>2. CASE force'[p] = n /\ n < m
    <3>1. Going(n) /\ n \in 1..m - 1
      BY <1>1, <2>2 DEF Going
    <3> QED
      BY <1>6, <2>2, <3>1 DEF ServerInv, Aware, Reigns
  <2>3. CASE force'[p] = n /\ ~(n < m)
    BY <1>1, <2>3 DEF Reigns
  <2> QED
    BY <1>7, <2>1, <2>2, <2>3
<1>9. ASSUME NEW m \in Sent, m # n PROVE Remaining(m)' /\ Written(m)' /\ Ended(m)'
  <2>0. /\ asks'[m].kind = asks[m].kind /\ asks'[m].is = asks[m].is /\ asks'[m].waits = asks[m].waits
        /\ asks'[m].left = asks[m].left
    BY <1>6, <1>9
  <2>1. Remaining(m)' /\ Ended(m)'
    <3>1. Remaining(m) /\ Ended(m)
      BY DEF ServerInv
    <3> QED
      BY <2>0, <3>1 DEF Remaining, Ended
  <2>2. Written(m)'
    BY <1>6, <1>8, <1>9 DEF ServerInv, Written
  <2> QED
    BY <2>1, <2>2
<1>10. Len(left) <= Len(parts) /\ \A i \in 1..Len(left): left[i] = parts[Len(parts) - Len(left) + i]
  BY DEF ServerInv, Remaining
<1>11. Remaining(n)'
  <2>0. \A i \in Nat: Len(parts) - Len(left) + (i + 1) = Len(parts) - Len(Tail(left)) + i
    <3>1. PICK c: c = Len(Tail(left))
      OBVIOUS
    <3>2. Len(parts) \in Nat /\ Len(left) \in Nat /\ c = Len(left) - 1
      BY <1>3, <3>1
    <3> HIDE DEF parts, left
    <3>3. \A i \in Nat: Len(parts) - Len(left) + (i + 1) = Len(parts) - c + i
      BY <3>2
    <3> QED
      BY <3>1, <3>3
  <2>1. Len(Tail(left)) <= Len(parts)
    BY <1>3, <1>10
  <2>2. ASSUME NEW i \in 1..Len(Tail(left)) PROVE Tail(left)[i] = parts[Len(parts) - Len(Tail(left)) + i]
    <3>1. i \in 1..Len(left) - 1 /\ i + 1 \in 1..Len(left)
      BY <1>3
    <3>2. Tail(left)[i] = parts[Len(parts) - Len(left) + (i + 1)]
      BY <1>3, <1>10, <3>1
    <3>3. i \in Nat
      BY <1>3
    <3> QED
      BY <2>0, <3>2, <3>3
  <2> QED
    BY <1>6, <2>1, <2>2 DEF Remaining
<1>12. Written(n)'
  <2>1. ASSUME NEW j \in 1..Len(parts) - Len(Tail(left)), NEW p \in Lasting, parts[j] = p PROVE Reigns(n, p)'
    <3>1. CASE j \in 1..Len(parts) - Len(left)
      BY <1>8, <2>1, <3>1 DEF ServerInv, Written
    <3>2. CASE j \notin 1..Len(parts) - Len(left)
      <4> HIDE DEF parts, left, part
      <4>1. /\ Len(parts) \in Nat /\ Len(left) \in Nat \ {0} /\ Len(Tail(left)) = Len(left) - 1
            /\ Len(left) <= Len(parts) /\ part = left[1]
        BY <1>3, <1>10
      <4>2. left[1] = parts[Len(parts) - Len(left) + 1]
        BY <1>10, <4>1
      <4>3. j = Len(parts) - Len(left) + 1
        BY <3>2, <4>1
      <4>4. part = p
        BY <2>1, <4>1, <4>2, <4>3
      <4>5. p \in Replaced(n, part)
        BY <4>4 DEF Replaced, Lasting
      <4> QED
        BY <1>2, <4>5 DEF Reigns
    <3> QED
      BY <3>1, <3>2
  <2>2. asks'[n].kind = asks[n].kind /\ asks'[n].left = Tail(left)
    BY <1>6
  <2> QED
    BY <2>1, <2>2 DEF Written
<1>13. Ended(n)'
  BY <1>1, <1>6 DEF Ended
<1>14. ASSUME NEW m \in Sent
       PROVE  asks'[m].row \in 0..m - 1 /\ asks'[m].beside \subseteq 1..m - 1 /\ Aware(m)'
  <2>1. asks'[m].row \in 0..m - 1 /\ asks'[m].beside \subseteq 1..m - 1
    BY <1>6 DEF ServerInv
  <2>2. ASSUME NEW i \in 1..m - 1, Going(i)' PROVE i \in asks'[m].beside
    <3>1. i \in Sent
      BY <1>1
    <3> QED
      BY <1>6, <2>2, <3>1 DEF ServerInv, Aware, Going
  <2> QED
    BY <2>1, <2>2 DEF Aware
<1> QED
  BY <1>5, <1>6, <1>7, <1>9, <1>11, <1>12, <1>13, <1>14 DEF ServerInv

-----------------------------------------------------------------------------
(* The pages of users: the screen.  What a dialog that is open holds was   *)
(* shown; a form asks for one thing at a time, and asks again only once    *)
(* what came of the request before was shown.                              *)

Waiting(n) == asks[n].waits /\ Going(n)

OnScreen == \A k \in Places: secret[k] # 0 /\ (k \in OwnDialog \/ dialog = k) => secret[k] \in seen

Reached == \A n \in Sent: asks[n].is = "heard" /\ asks[n].kind \in Secretive
                             => n \in seen \/ n = secret[Place(asks[n].kind)]

Single == \A n \in Sent: Waiting(n) /\ asks[n].kind \in {"create", "rotate"} =>
                            /\ secret[asks[n].kind] = 0 \/ secret[asks[n].kind] \in seen
                            /\ \A m \in Sent: Waiting(m) /\ asks[m].kind = asks[n].kind => m = n

ScreenTyped ==
    /\ userPage \in DOMAIN KindsOf /\ dialog \in KindsOf[userPage] \cup {"no"}
    /\ secret \in [Places -> 0..Len(asks)] /\ seen \subseteq Sent
    /\ \A k \in Places: secret[k] # 0 => Place(asks[secret[k]].kind) = k

ScreenInv == ScreenTyped /\ OnScreen /\ Reached /\ Single

UsersInv == ServerInv /\ ScreenInv

LEMMA PlaceFacts ==
    /\ Places = {"create", "rotate", "regenerate", "generate"} /\ OwnDialog = {"regenerate", "generate"}
    /\ Secretive = Places \cup {"import"} /\ Secretive \subseteq Kinds
    /\ \A k \in Secretive: Place(k) \in Places
    /\ \A k: Place(k) \in {"create", "rotate"} => k = Place(k)
    /\ \A k \in Kinds: k \notin Secretive => Place(k) \notin Places
BY PartsFacts DEF Places, OwnDialog, Secretive, Place

LEMMA PageFacts ==
    /\ DOMAIN KindsOf = {"users", "user", "portal"}
    /\ \A p \in DOMAIN KindsOf: KindsOf[p] \subseteq Kinds
BY PartsFacts DEF KindsOf, OfKeys, AddKeys

LEMMA ShownFacts ==
    ASSUME NEW d, NEW s
    PROVE  /\ \A k \in Places: s[k] # 0 /\ (k \in OwnDialog \/ d = k) => s[k] \in Shown(d, s)
           /\ \A x \in Shown(d, s): \E k \in Places: s[k] = x /\ x # 0 /\ (k \in OwnDialog \/ d = k)
BY DEF Shown

\* Steps that change no answer and no request but that some wait no more, fail or are lost.
LEMMA QuietKeeps ==
    ASSUME UsersInv, ServerInv', Len(asks') = Len(asks), UNCHANGED <<userPage, dialog, secret, seen>>,
           \A n \in Sent: /\ asks'[n].kind = asks[n].kind
                          /\ Waiting(n)' => Waiting(n)
                          /\ asks'[n].is = "heard" => asks[n].is = "heard"
    PROVE  UsersInv'
<1>1. Sent' = Sent
  BY DEF Sent
<1>2. ScreenTyped'
  <2>1. \A k \in Places: secret[k] # 0 => secret[k] \in Sent
    BY DEF UsersInv, ScreenInv, ScreenTyped, Sent
  <2> QED
    BY <1>1, <2>1 DEF UsersInv, ScreenInv, ScreenTyped
<1>3. OnScreen' /\ Reached'
  BY <1>1 DEF UsersInv, ScreenInv, OnScreen, Reached
<1>4. Single'
  <2> SUFFICES ASSUME NEW n \in Sent, Waiting(n)', asks'[n].kind \in {"create", "rotate"}
               PROVE  /\ secret'[asks'[n].kind] = 0 \/ secret'[asks'[n].kind] \in seen'
                      /\ \A m \in Sent: Waiting(m)' /\ asks'[m].kind = asks'[n].kind => m = n
    BY <1>1 DEF Single
  <2> QED
    BY DEF UsersInv, ScreenInv, Single
<1> QED
  BY <1>2, <1>3, <1>4 DEF UsersInv, ScreenInv

LEMMA ServerKeepsUsers ==
    ASSUME UsersInv, NEW n \in Sent, WritePart(n) \/ WriteFails(n) \/ WriteAnswer(n) \/ AnswerLost(n)
    PROVE  UsersInv'
<1>1. /\ asks \in Seq(Requests) /\ Len(asks) \in Nat /\ n \in 1..Len(asks) /\ DOMAIN asks = 1..Len(asks)
      /\ asks[n] \in Requests /\ Sent = 1..Len(asks)
  BY RequestFacts DEF UsersInv, ServerInv, Sent
<1>2. CASE WritePart(n)
  <2>1. /\ ServerInv' /\ Len(asks') = Len(asks)
        /\ \A m \in Sent: asks'[m].kind = asks[m].kind /\ asks'[m].is = asks[m].is /\ asks'[m].waits = asks[m].waits
    BY <1>2, WriteKeeps DEF UsersInv
  <2>2. UNCHANGED <<userPage, dialog, secret, seen>>
    BY <1>2 DEF WritePart
  <2> QED
    BY <2>1, <2>2, QuietKeeps DEF Waiting, Going
<1>3. ASSUME NEW is \in {"failed", "answered", "lost"}, asks' = [asks EXCEPT ![n].is = is], Going(n),
             is = "answered" => asks[n].waits /\ asks[n].left = <<>>,
             UNCHANGED <<userPage, dialog, secret, force, seen>>
      PROVE  UsersInv'
  <2> DEFINE new == [asks[n] EXCEPT !.is = is]
  <2>1. /\ new \in Requests /\ new.kind = asks[n].kind /\ new.row = asks[n].row /\ new.left = asks[n].left
        /\ new.waits = asks[n].waits /\ new.beside = asks[n].beside /\ new.is = is
    BY <1>1 DEF Requests, Outcomes
  <2> HIDE DEF new
  <2>2. /\ asks' \in Seq(Requests) /\ Len(asks') = Len(asks)
        /\ \A m \in Sent: asks'[m] = IF m = n THEN new ELSE asks[m]
    BY <1>1, <1>3, <2>1 DEF new
  <2>3. \A m \in Sent: /\ asks'[m].kind = asks[m].kind /\ asks'[m].row = asks[m].row /\ asks'[m].left = asks[m].left
                       /\ asks'[m].waits = asks[m].waits /\ asks'[m].beside = asks[m].beside
                       /\ m = n => asks'[m].is = is
                       /\ m # n => asks'[m].is = asks[m].is
    BY <2>1, <2>2
  <2>4. SameWork
    BY <1>3, <2>2, <2>3 DEF SameWork, Going
  <2>5. \A m \in Sent: Ended(m)'
    <3> SUFFICES ASSUME NEW m \in Sent PROVE Ended(m)'
      OBVIOUS
    <3>1. Ended(m)
      BY DEF UsersInv, ServerInv
    <3> QED
      BY <1>3, <2>3, <3>1 DEF Ended
  <2>6. ServerInv'
    BY <1>3, <2>4, <2>5, SameWorkKeeps DEF UsersInv
  <2>7. \A m \in Sent: Waiting(m)' => Waiting(m)
    BY <1>3, <2>3 DEF Waiting, Going
  <2> QED
    BY <1>3, <2>2, <2>3, <2>6, <2>7, QuietKeeps
<1>4. CASE WriteFails(n)
  BY <1>3, <1>4 DEF WriteFails, Going
<1>5. CASE WriteAnswer(n)
  <2>1. asks[n].is = "writing" /\ asks[n].left = <<>> /\ asks[n].waits \in BOOLEAN
        /\ UNCHANGED <<userPage, dialog, secret, force, seen>>
    BY <1>1, <1>5 DEF WriteAnswer, Requests
  <2>2. CASE asks[n].waits
    <3>1. asks' = [asks EXCEPT ![n].is = "answered"]
      BY <1>5, <2>2 DEF WriteAnswer
    <3> QED
      BY <1>3, <2>1, <2>2, <3>1 DEF Going
  <2>3. CASE ~asks[n].waits
    <3>1. asks' = [asks EXCEPT ![n].is = "lost"]
      BY <1>5, <2>3 DEF WriteAnswer
    <3> QED
      BY <1>3, <2>1, <3>1 DEF Going
  <2> QED
    BY <2>1, <2>2, <2>3
<1>6. CASE AnswerLost(n)
  BY <1>3, <1>6 DEF AnswerLost, Going
<1> QED
  BY <1>2, <1>4, <1>5, <1>6

\* A new request, from this page or from another console.
LEMMA AskKeepsScreen ==
    ASSUME UsersInv, NEW k \in Kinds, NEW r \in Rows, NEW waits \in BOOLEAN, Ask(k, r, waits),
           UNCHANGED <<userPage, secret, force, seen>>, dialog' \in {dialog, "no"},
           waits => ~Pending(k) /\ Shown(k, secret) = {}
    PROVE  UsersInv'
<1>0. PICK N: N = Len(asks) + 1
  OBVIOUS
<1>1. /\ ServerInv' /\ Len(asks') = N /\ Len(asks) \in Nat /\ Sent = 1..Len(asks) /\ Sent' = 1..N
      /\ \A n \in Sent: asks'[n] = asks[n]
      /\ asks'[N].kind = k /\ asks'[N].waits = waits /\ asks'[N].is = "writing"
  <2>1. /\ ServerInv' /\ Len(asks') = Len(asks) + 1 /\ \A n \in Sent: asks'[n] = asks[n]
        /\ asks'[Len(asks) + 1].kind = k /\ asks'[Len(asks) + 1].waits = waits
        /\ asks'[Len(asks) + 1].is = "writing"
    BY AskKeeps DEF UsersInv
  <2> QED
    BY <1>0, <2>1, RequestFacts DEF UsersInv, ServerInv, Sent
<1>2. \A n \in Sent': n \in Sent \/ n = N
  BY <1>0, <1>1
<1>3. ScreenTyped'
  <2>1. \A j \in Places: secret[j] \in 0..N /\ (secret[j] # 0 => secret[j] \in Sent)
    BY <1>0, <1>1 DEF UsersInv, ScreenInv, ScreenTyped
  <2>2. seen \subseteq 1..N
    BY <1>0, <1>1 DEF UsersInv, ScreenInv, ScreenTyped
  <2> QED
    BY <1>1, <2>1, <2>2 DEF UsersInv, ScreenInv, ScreenTyped
<1>4. OnScreen'
  BY PlaceFacts DEF UsersInv, ScreenInv, OnScreen
<1>5. Reached'
  BY <1>1, <1>2 DEF UsersInv, ScreenInv, Reached
<1>6. Single'
  <2> SUFFICES ASSUME NEW n \in Sent', Waiting(n)', asks'[n].kind \in {"create", "rotate"}
               PROVE  /\ secret[asks'[n].kind] = 0 \/ secret[asks'[n].kind] \in seen
                      /\ \A m \in Sent': Waiting(m)' /\ asks'[m].kind = asks'[n].kind => m = n
    BY DEF Single
  <2>1. ASSUME NEW i \in Sent PROVE Waiting(i)' <=> Waiting(i)
    BY <1>1 DEF Waiting, Going
  <2>2. ASSUME NEW i \in Sent, Waiting(i), asks[i].kind = k PROVE ~waits
    BY <2>2 DEF Waiting, Going, Pending
  <2>3. Waiting(N)' => waits
    BY <1>1 DEF Waiting
  <2>4. CASE n = N
    <3>1. waits /\ asks'[n].kind = k /\ k \in Places
      BY <1>1, <2>3, <2>4, PlaceFacts
    <3>2. secret[k] = 0
      BY <3>1, ShownFacts
    <3>3. \A m \in Sent': Waiting(m)' /\ asks'[m].kind = k => m = n
      BY <1>1, <1>2, <2>1, <2>2, <2>4, <3>1
    <3> QED
      BY <3>1, <3>2, <3>3
  <2>5. CASE n \in Sent
    <3>1. Waiting(n) /\ asks[n].kind = asks'[n].kind
      BY <1>1, <2>1, <2>5
    <3>2. /\ secret[asks[n].kind] = 0 \/ secret[asks[n].kind] \in seen
          /\ \A m \in Sent: Waiting(m) /\ asks[m].kind = asks[n].kind => m = n
      BY <2>5, <3>1 DEF UsersInv, ScreenInv, Single
    <3>3. ASSUME NEW m \in Sent', Waiting(m)', asks'[m].kind = asks'[n].kind PROVE m = n
      <4>1. CASE m \in Sent
        BY <1>1, <2>1, <3>1, <3>2, <3>3, <4>1
      <4>2. CASE m = N
        <5>1. waits /\ asks[n].kind = k
          BY <1>1, <2>3, <3>1, <3>3, <4>2
        <5> QED
          BY <2>2, <2>5, <3>1, <5>1
      <4> QED
        BY <1>2, <4>1, <4>2
    <3> QED
      BY <3>1, <3>2, <3>3
  <2> QED
    BY <1>2, <2>4, <2>5
<1> QED
  BY <1>1, <1>3, <1>4, <1>5, <1>6 DEF UsersInv, ScreenInv

LEMMA FormsKeepUsers ==
    ASSUME UsersInv,
           \/ HandleCreateUser \/ HandleRotate \/ HandleRegenerate \/ HandleDelete \/ HandleGenerateKey
           \/ \E k \in Kinds: HandlePasteKey(k) \/ \E r \in Rows: OthersAsk(k, r)
           \/ \E r \in Rows: HandleDropKey(r)
    PROVE  UsersInv'
<1>1. ASSUME NEW k \in Kinds, NEW r \in Rows, Submit(k, r), dialog' \in {dialog, "no"} PROVE UsersInv'
  BY <1>1, AskKeepsScreen DEF Submit
<1>2. ASSUME NEW k \in Kinds, NEW r \in Rows, OthersAsk(k, r) PROVE UsersInv'
  BY <1>2, AskKeepsScreen DEF OthersAsk
<1>3. 0 \in Rows
  BY DEF Rows
<1> QED
  BY <1>1, <1>2, <1>3, PartsFacts
     DEF HandleCreateUser, HandleRotate, HandleRegenerate, HandleDelete, HandleGenerateKey, HandlePasteKey,
         HandleDropKey

\* Steps that leave the requests alone, and show or drop what a dialog holds.
LEMMA DialogKeeps ==
    ASSUME UsersInv, UNCHANGED <<userPage, asks, force>>, dialog' \in KindsOf[userPage] \cup {"no"},
           seen \subseteq seen', seen' \subseteq seen \cup Shown(dialog', secret),
           secret' \in [Places -> 0..Len(asks)],
           \A k \in Places: \/ secret'[k] = secret[k]
                            \/ secret'[k] = 0 /\ secret[k] \in seen,
           \A k \in Places: secret'[k] # 0 /\ (k \in OwnDialog \/ dialog' = k) => secret'[k] \in seen'
    PROVE  UsersInv'
<1>1. Sent' = Sent /\ Sent = 1..Len(asks)
  BY DEF Sent
<1>2. ServerInv'
  <2>1. SameWork
    BY DEF UsersInv, ServerInv, SameWork, Going
  <2>2. \A n \in Sent: Ended(n)'
    BY DEF UsersInv, ServerInv, Ended
  <2> QED
    BY <2>1, <2>2, SameWorkKeeps DEF UsersInv
<1>3. ScreenTyped'
  <2>1. seen' \subseteq Sent
    <3>1. \A x \in Shown(dialog', secret): x \in Sent
      BY <1>1, ShownFacts DEF UsersInv, ScreenInv, ScreenTyped
    <3> QED
      BY <3>1 DEF UsersInv, ScreenInv, ScreenTyped
  <2>2. \A k \in Places: secret'[k] # 0 => Place(asks[secret'[k]].kind) = k
    BY DEF UsersInv, ScreenInv, ScreenTyped
  <2> QED
    BY <1>1, <2>1, <2>2 DEF UsersInv, ScreenInv, ScreenTyped
<1>4. OnScreen'
  BY DEF OnScreen
<1>5. Reached'
  <2> SUFFICES ASSUME NEW n \in Sent, asks[n].is = "heard", asks[n].kind \in Secretive
               PROVE  n \in seen' \/ n = secret'[Place(asks[n].kind)]
    BY <1>1 DEF Reached
  <2> QED
    BY PlaceFacts DEF UsersInv, ScreenInv, Reached
<1>6. Single'
  <2> SUFFICES ASSUME NEW n \in Sent, Waiting(n), asks[n].kind \in {"create", "rotate"}
               PROVE  /\ secret'[asks[n].kind] = 0 \/ secret'[asks[n].kind] \in seen'
                      /\ \A m \in Sent: Waiting(m) /\ asks[m].kind = asks[n].kind => m = n
    BY <1>1 DEF Single, Waiting, Going
  <2> QED
    BY PlaceFacts DEF UsersInv, ScreenInv, Single
<1> QED
  BY <1>2, <1>3, <1>4, <1>5, <1>6 DEF UsersInv, ScreenInv

LEMMA DialogsKeepUsers ==
    ASSUME UsersInv,
           \/ OpenCreate \/ OpenDelete \/ CloseCredentials \/ CloseCreatedKey
           \/ \E k \in Kinds: OpenUserMenu(k) \/ OpenKeyForm(k)
    PROVE  UsersInv'
<1>1. ASSUME NEW k, Open(k) PROVE UsersInv'
  <2>1. /\ dialog' = k /\ k \in KindsOf[userPage] /\ seen' = seen \cup Shown(k, secret)
        /\ UNCHANGED <<userPage, asks, secret, force>>
    BY <1>1 DEF Open
  <2>2. \A j \in Places: secret[j] # 0 /\ (j \in OwnDialog \/ dialog' = j) => secret[j] \in seen'
    BY <2>1, ShownFacts
  <2>3. secret' \in [Places -> 0..Len(asks)]
    BY <2>1 DEF UsersInv, ScreenInv, ScreenTyped
  <2> QED
    BY <2>1, <2>2, <2>3, DialogKeeps
<1>2. ASSUME NEW k \in OwnDialog, CloseShown(k) PROVE UsersInv'
  <2>1. /\ secret[k] # 0 /\ secret' = [secret EXCEPT ![k] = 0]
        /\ UNCHANGED <<userPage, dialog, asks, force, seen>>
    BY <1>2 DEF CloseShown
  <2>2. secret \in [Places -> 0..Len(asks)] /\ Len(asks) \in Nat /\ k \in Places
    BY RequestFacts, PlaceFacts DEF UsersInv, ServerInv, ScreenInv, ScreenTyped
  <2>3. /\ secret' \in [Places -> 0..Len(asks)]
        /\ \A j \in Places: IF j = k THEN secret'[j] = 0 ELSE secret'[j] = secret[j]
    BY <2>1, <2>2
  <2>4. secret[k] \in seen
    BY <2>1, <2>2 DEF UsersInv, ScreenInv, OnScreen
  <2>5. dialog' \in KindsOf[userPage] \cup {"no"}
    BY <2>1 DEF UsersInv, ScreenInv, ScreenTyped
  <2>6. \A j \in Places: secret'[j] # 0 /\ (j \in OwnDialog \/ dialog' = j) => secret'[j] \in seen'
    BY <2>1, <2>3 DEF UsersInv, ScreenInv, OnScreen
  <2> QED
    BY <2>1, <2>3, <2>4, <2>5, <2>6, DialogKeeps
<1> QED
  BY <1>1, <1>2, PlaceFacts DEF OpenCreate, OpenDelete, OpenUserMenu, OpenKeyForm, CloseCredentials, CloseCreatedKey

LEMMA CloseFormKeeps ==
    ASSUME UsersInv, CloseForm
    PROVE  UsersInv'
<1>1. /\ asks \in Seq(Requests) /\ Len(asks) \in Nat /\ Sent = 1..Len(asks) /\ DOMAIN asks = 1..Len(asks)
      /\ \A n \in Sent: asks[n] \in Requests
  BY RequestFacts DEF UsersInv, ServerInv, Sent
<1>2. /\ dialog' = "no" /\ UNCHANGED <<userPage, force, seen>>
      /\ secret' = [k \in Places |-> IF k = dialog THEN 0 ELSE secret[k]]
      /\ asks' = [n \in Sent |-> [asks[n] EXCEPT !.waits = @ /\ (dialog = "delete" => asks[n].kind # "delete")]]
  BY DEF CloseForm
<1>3. \A n \in Sent: /\ asks'[n] \in Requests /\ asks'[n].kind = asks[n].kind /\ asks'[n].row = asks[n].row
                     /\ asks'[n].left = asks[n].left /\ asks'[n].is = asks[n].is /\ asks'[n].beside = asks[n].beside
                     /\ asks'[n].waits <=> asks[n].waits /\ (dialog = "delete" => asks[n].kind # "delete")
  <2> SUFFICES ASSUME NEW n \in Sent
               PROVE  /\ asks'[n] \in Requests /\ asks'[n].kind = asks[n].kind /\ asks'[n].row = asks[n].row
                      /\ asks'[n].left = asks[n].left /\ asks'[n].is = asks[n].is /\ asks'[n].beside = asks[n].beside
                      /\ asks'[n].waits <=> asks[n].waits /\ (dialog = "delete" => asks[n].kind # "delete")
    OBVIOUS
  <2>1. PICK b \in BOOLEAN: b = (asks[n].waits /\ (dialog = "delete" => asks[n].kind # "delete"))
    OBVIOUS
  <2>2. asks'[n] = [asks[n] EXCEPT !.waits = b]
    BY <1>2, <2>1
  <2>3. /\ asks'[n] \in Requests /\ asks'[n].kind = asks[n].kind /\ asks'[n].row = asks[n].row
        /\ asks'[n].left = asks[n].left /\ asks'[n].is = asks[n].is /\ asks'[n].beside = asks[n].beside
        /\ asks'[n].waits = b
    BY <1>1, <2>2 DEF Requests
  <2> QED
    BY <2>1, <2>3
<1>4. asks' \in Seq(Requests) /\ Len(asks') = Len(asks)
  <2>1. asks' \in [1..Len(asks) -> Requests]
    BY <1>1, <1>2, <1>3
  <2> QED
    BY <1>1, <2>1
<1>5. SameWork
  BY <1>3, <1>4 DEF SameWork, Going
<1>6. \A n \in Sent: Ended(n)'
  <2> SUFFICES ASSUME NEW n \in Sent PROVE Ended(n)'
    OBVIOUS
  <2>1. Ended(n)
    BY DEF UsersInv, ServerInv
  <2> QED
    BY <1>3, <2>1 DEF Ended
<1>7. ServerInv'
  BY <1>2, <1>5, <1>6, SameWorkKeeps DEF UsersInv
<1>8. Sent' = Sent
  BY <1>4 DEF Sent
<1>9. \A k \in Places: /\ secret'[k] = IF k = dialog THEN 0 ELSE secret[k]
                       /\ k = dialog /\ secret[k] # 0 => secret[k] \in seen
  BY <1>2 DEF UsersInv, ScreenInv, OnScreen
<1>10. ScreenTyped'
  <2>1. secret' \in [Places -> 0..Len(asks)]
    BY <1>1, <1>2 DEF UsersInv, ScreenInv, ScreenTyped
  <2>2. \A k \in Places: secret'[k] # 0 => Place(asks'[secret'[k]].kind) = k
    BY <1>1, <1>3, <1>9 DEF UsersInv, ScreenInv, ScreenTyped
  <2> QED
    BY <1>2, <1>4, <1>8, <2>1, <2>2 DEF UsersInv, ScreenInv, ScreenTyped
<1>11. OnScreen'
  BY <1>2, <1>9, PlaceFacts DEF UsersInv, ScreenInv, OnScreen
<1>12. Reached'
  <2> SUFFICES ASSUME NEW n \in Sent, asks[n].is = "heard", asks[n].kind \in Secretive
               PROVE  n \in seen \/ n = secret'[Place(asks[n].kind)]
    BY <1>2, <1>3, <1>8 DEF Reached
  <2>1. n \in seen \/ n = secret[Place(asks[n].kind)]
    BY DEF UsersInv, ScreenInv, Reached
  <2>2. Place(asks[n].kind) \in Places /\ n # 0
    BY <1>1, PlaceFacts
  <2> QED
    BY <1>9, <2>1, <2>2
<1>13. Single'
  <2> SUFFICES ASSUME NEW n \in Sent, Waiting(n)', asks[n].kind \in {"create", "rotate"}
               PROVE  /\ secret'[asks[n].kind] = 0 \/ secret'[asks[n].kind] \in seen
                      /\ \A m \in Sent: Waiting(m)' /\ asks[m].kind = asks[n].kind => m = n
    <3>1. \A m \in Sent: asks'[m].kind = asks[m].kind
      BY <1>3
    <3> QED
      BY <1>2, <1>8, <3>1 DEF Single
  <2>1. \A m \in Sent: Waiting(m)' => Waiting(m)
    BY <1>3 DEF Waiting, Going
  <2>2. asks[n].kind \in Places
    BY PlaceFacts
  <2> QED
    BY <1>9, <2>1, <2>2 DEF UsersInv, ScreenInv, Single
<1> QED
  BY <1>7, <1>10, <1>11, <1>12, <1>13 DEF UsersInv, ScreenInv

\* The page is left, perhaps because its user is now deleted.
LEMMA GoToKeeps ==
    ASSUME UsersInv, NEW list \in Seq(Requests), Len(list) = Len(asks), NEW p \in DOMAIN KindsOf, GoTo(p, list),
           \A n \in Sent: /\ list[n].kind = asks[n].kind /\ list[n].row = asks[n].row /\ list[n].left = asks[n].left
                          /\ list[n].beside = asks[n].beside
                          /\ \/ list[n].is = asks[n].is
                             \/ list[n].is = "heard" /\ asks[n].is = "answered" /\ asks[n].kind = "delete"
    PROVE  UsersInv'
<1>1. /\ Len(asks) \in Nat /\ Sent = 1..Len(asks) /\ DOMAIN list = 1..Len(asks)
      /\ \A n \in Sent: list[n] \in Requests
  BY RequestFacts DEF UsersInv, ServerInv, Sent
<1>2. /\ userPage' = p /\ dialog' = "no" /\ secret' = [k \in Places |-> 0] /\ UNCHANGED <<force, seen>>
      /\ asks' = [n \in DOMAIN list |-> [list[n] EXCEPT
                    !.waits = FALSE,
                    !.is = IF \/ @ = "answered"
                              \/ @ = "heard" /\ list[n].kind \in Secretive /\ n \notin seen THEN "lost" ELSE @]]
  BY DEF GoTo
<1>3. \A n \in Sent: /\ asks'[n] \in Requests /\ asks'[n].kind = asks[n].kind /\ asks'[n].row = asks[n].row
                     /\ asks'[n].left = asks[n].left /\ asks'[n].beside = asks[n].beside /\ asks'[n].waits = FALSE
                     /\ asks'[n].is # "answered"
                     /\ asks'[n].is = "heard" => list[n].is = "heard" /\ (asks[n].kind \in Secretive => n \in seen)
                     /\ asks'[n].is = "writing" => list[n].is = "writing"
  <2> SUFFICES ASSUME NEW n \in Sent
               PROVE  /\ asks'[n] \in Requests /\ asks'[n].kind = asks[n].kind /\ asks'[n].row = asks[n].row
                      /\ asks'[n].left = asks[n].left /\ asks'[n].beside = asks[n].beside /\ asks'[n].waits = FALSE
                      /\ asks'[n].is # "answered"
                      /\ asks'[n].is = "heard" => list[n].is = "heard" /\ (asks[n].kind \in Secretive => n \in seen)
                      /\ asks'[n].is = "writing" => list[n].is = "writing"
    OBVIOUS
  <2>1. PICK is \in Outcomes: is = IF \/ list[n].is = "answered"
                                      \/ list[n].is = "heard" /\ list[n].kind \in Secretive /\ n \notin seen
                                   THEN "lost" ELSE list[n].is
    BY <1>1 DEF Requests, Outcomes
  <2>2. PICK r: r = [list[n] EXCEPT !.waits = FALSE]
    OBVIOUS
  <2>3. /\ r \in Requests /\ r.kind = list[n].kind /\ r.row = list[n].row
        /\ r.left = list[n].left /\ r.beside = list[n].beside /\ r.waits = FALSE
    <3>1. list[n] \in Requests
      BY <1>1
    <3> QED
      BY <2>2, <3>1 DEF Requests
  <2>4. asks'[n] = [list[n] EXCEPT !.waits = FALSE, !.is = is]
    BY <1>1, <1>2, <2>1
  <2>5. asks'[n] = [r EXCEPT !.is = is]
    BY <2>2, <2>4, Zenon
  <2>6. /\ asks'[n] \in Requests /\ asks'[n].kind = r.kind /\ asks'[n].row = r.row
        /\ asks'[n].left = r.left /\ asks'[n].is = is /\ asks'[n].beside = r.beside
        /\ asks'[n].waits = r.waits
    BY <2>1, <2>3, <2>5 DEF Requests
  <2> QED
    BY <2>1, <2>3, <2>6
<1>4. asks' \in Seq(Requests) /\ Len(asks') = Len(asks)
  <2>1. asks' \in [1..Len(asks) -> Requests]
    BY <1>1, <1>2, <1>3
  <2> QED
    BY <1>1, <2>1
<1>5. SameWork
  BY <1>3, <1>4 DEF SameWork, Going
<1>6. \A n \in Sent: Ended(n)'
  <2> SUFFICES ASSUME NEW n \in Sent PROVE Ended(n)'
    OBVIOUS
  <2>1. Ended(n)
    BY DEF UsersInv, ServerInv
  <2>2. asks'[n].is = "heard" => asks[n].is \in {"answered", "heard"}
    BY <1>3
  <2> QED
    BY <1>3, <2>1, <2>2 DEF Ended
<1>7. ServerInv'
  BY <1>2, <1>5, <1>6, SameWorkKeeps DEF UsersInv
<1>8. Sent' = Sent
  BY <1>4 DEF Sent
<1>9. \A k \in Places: secret'[k] = 0
  BY <1>2
<1>10. ScreenTyped'
  <2> DEFINE none == [k \in Places |-> 0]
  <2>0. 0 \in 0..Len(asks)
    BY <1>1
  <2>5. none \in [Places -> 0..Len(asks)]
    BY <2>0
  <2>6. secret' = none
    BY <1>2
  <2>1. secret' \in [Places -> 0..Len(asks)]
    BY <2>5, <2>6
  <2>2. seen' \subseteq Sent
    BY <1>2 DEF UsersInv, ScreenInv, ScreenTyped
  <2> QED
    BY <1>2, <1>4, <1>8, <1>9, <2>1, <2>2 DEF ScreenTyped
<1>11. OnScreen' /\ Reached' /\ Single'
  BY <1>2, <1>3, <1>8, <1>9 DEF OnScreen, Reached, Single, Waiting
<1> QED
  BY <1>7, <1>10, <1>11 DEF UsersInv, ScreenInv

\* A request whose answer has arrived.
LEMMA HeardList ==
    ASSUME UsersInv, NEW n \in Sent
    PROVE  LET list == [asks EXCEPT ![n].is = "heard"]
           IN  /\ list \in Seq(Requests) /\ Len(list) = Len(asks)
               /\ \A m \in Sent: /\ list[m].kind = asks[m].kind /\ list[m].row = asks[m].row
                                 /\ list[m].left = asks[m].left /\ list[m].beside = asks[m].beside
                                 /\ list[m].waits = asks[m].waits
                                 /\ m # n => list[m].is = asks[m].is
               /\ list[n].is = "heard"
<1> DEFINE list == [asks EXCEPT ![n].is = "heard"]
           new == [asks[n] EXCEPT !.is = "heard"]
<1>1. asks \in Seq(Requests) /\ Len(asks) \in Nat /\ Sent = 1..Len(asks) /\ asks[n] \in Requests
  BY RequestFacts DEF UsersInv, ServerInv, Sent
<1>2. /\ new \in Requests /\ new.kind = asks[n].kind /\ new.row = asks[n].row /\ new.left = asks[n].left
      /\ new.waits = asks[n].waits /\ new.beside = asks[n].beside /\ new.is = "heard"
  BY <1>1 DEF Requests, Outcomes
<1> HIDE DEF new
<1>3. /\ list \in Seq(Requests) /\ Len(list) = Len(asks)
      /\ \A m \in Sent: list[m] = IF m = n THEN new ELSE asks[m]
  BY <1>1, <1>2 DEF new
<1> HIDE DEF list
<1>4. /\ \A m \in Sent: /\ list[m].kind = asks[m].kind /\ list[m].row = asks[m].row
                        /\ list[m].left = asks[m].left /\ list[m].beside = asks[m].beside
                        /\ list[m].waits = asks[m].waits
                        /\ m # n => list[m].is = asks[m].is
      /\ list[n].is = "heard"
  BY <1>2, <1>3
<1> QED
  BY <1>3, <1>4 DEF list

LEMMA HearingServer ==
    ASSUME UsersInv, NEW n \in Sent, asks[n].is = "answered", asks' = [asks EXCEPT ![n].is = "heard"],
           UNCHANGED force
    PROVE  ServerInv' /\ Sent' = Sent
<1>1. /\ asks' \in Seq(Requests) /\ Len(asks') = Len(asks)
      /\ \A m \in Sent: /\ asks'[m].kind = asks[m].kind /\ asks'[m].row = asks[m].row
                        /\ asks'[m].left = asks[m].left /\ asks'[m].beside = asks[m].beside
                        /\ asks'[m].waits = asks[m].waits /\ (m # n => asks'[m].is = asks[m].is)
      /\ asks'[n].is = "heard"
  BY HeardList
<1>2. SameWork
  BY <1>1 DEF SameWork, Going
<1>3. \A m \in Sent: Ended(m)'
  <2> SUFFICES ASSUME NEW m \in Sent PROVE Ended(m)'
    OBVIOUS
  <2>1. Ended(m)
    BY DEF UsersInv, ServerInv
  <2> QED
    BY <1>1, <2>1 DEF Ended
<1> QED
  BY <1>1, <1>2, <1>3, SameWorkKeeps DEF UsersInv, Sent

LEMMA HearKeeps ==
    ASSUME UsersInv, NEW n \in Sent, Hear(n)
    PROVE  UsersInv'
<1> DEFINE k == asks[n].kind
<1>1. /\ asks \in Seq(Requests) /\ Len(asks) \in Nat /\ Sent = 1..Len(asks) /\ k \in Kinds /\ n \in 1..Len(asks)
  BY RequestFacts DEF UsersInv, ServerInv, Sent
<1>2. /\ asks[n].is = "answered" /\ k # "delete" /\ asks' = [asks EXCEPT ![n].is = "heard"]
      /\ secret' = [j \in Places |-> IF j = Place(k) THEN n ELSE secret[j]]
      /\ dialog' = (IF k = "regenerate" THEN "no" ELSE dialog)
      /\ seen' = seen \cup Shown(dialog', secret') /\ UNCHANGED <<userPage, force>>
  BY DEF Hear
<1>3. /\ Len(asks') = Len(asks)
      /\ \A m \in Sent: /\ asks'[m].kind = asks[m].kind /\ asks'[m].waits = asks[m].waits
                        /\ m # n => asks'[m].is = asks[m].is
      /\ asks'[n].is = "heard"
  BY <1>2, HeardList
<1>4. ServerInv' /\ Sent' = Sent
  BY <1>2, HearingServer
<1>5. Waiting(n)
  <2>1. Ended(n)
    BY DEF UsersInv, ServerInv
  <2> QED
    BY <1>2, <2>1 DEF Ended, Waiting, Going
<1>6. \A j \in Places: secret'[j] = IF j = Place(k) THEN n ELSE secret[j]
  BY <1>2
<1>7. \A j \in Places: secret[j] \in 0..Len(asks) /\ secret'[j] \in 0..Len(asks)
  BY <1>1, <1>6 DEF UsersInv, ScreenInv, ScreenTyped
<1>8. \A j \in Places: secret'[j] # 0 /\ (j \in OwnDialog \/ dialog' = j) => secret'[j] \in seen'
  BY <1>2, ShownFacts
<1>9. \* What the new answer replaces was shown.
      \A j \in Places: j = Place(k) /\ secret[j] # 0 => secret[j] \in seen
  <2> SUFFICES ASSUME NEW j \in Places, j = Place(k), secret[j] # 0 PROVE secret[j] \in seen
    OBVIOUS
  <2>1. CASE j \in OwnDialog
    BY <2>1 DEF UsersInv, ScreenInv, OnScreen
  <2>2. CASE j \notin OwnDialog
    <3>1. j = k /\ k \in {"create", "rotate"}
      BY <2>2, PlaceFacts
    <3> QED
      BY <1>5, <3>1 DEF UsersInv, ScreenInv, Single
  <2> QED
    BY <2>1, <2>2
<1>10. ScreenTyped'
  <2>1. seen' \subseteq Sent
    <3>1. \A x \in Shown(dialog', secret'): x \in Sent
      BY <1>1, <1>7, ShownFacts
    <3> QED
      BY <1>2, <3>1 DEF UsersInv, ScreenInv, ScreenTyped
  <2>2. secret' \in [Places -> 0..Len(asks)]
    BY <1>2, <1>7
  <2>3. \A j \in Places: secret'[j] # 0 => Place(asks'[secret'[j]].kind) = j
    <3> SUFFICES ASSUME NEW j \in Places, secret'[j] # 0 PROVE Place(asks'[secret'[j]].kind) = j
      OBVIOUS
    <3>1. CASE j = Place(k)
      BY <1>3, <1>6, <3>1
    <3>2. CASE j # Place(k)
      BY <1>1, <1>3, <1>6, <1>7, <3>2 DEF UsersInv, ScreenInv, ScreenTyped
    <3> QED
      BY <3>1, <3>2
  <2>4. dialog' \in KindsOf[userPage] \cup {"no"}
    BY <1>2 DEF UsersInv, ScreenInv, ScreenTyped
  <2> QED
    BY <1>2, <1>3, <1>4, <2>1, <2>2, <2>3, <2>4 DEF UsersInv, ScreenInv, ScreenTyped
<1>11. Reached'
  <2> SUFFICES ASSUME NEW m \in Sent, asks'[m].is = "heard", asks[m].kind \in Secretive
               PROVE  m \in seen' \/ m = secret'[Place(asks[m].kind)]
    <3>1. \A m \in Sent: asks'[m].kind = asks[m].kind
      BY <1>3
    <3> QED
      BY <1>4, <3>1 DEF Reached
  <2>1. Place(asks[m].kind) \in Places /\ m # 0
    BY <1>1, PlaceFacts
  <2>2. CASE m = n
    BY <1>6, <2>1, <2>2
  <2>3. CASE m # n
    <3>1. m \in seen \/ m = secret[Place(asks[m].kind)]
      BY <1>3, <2>3 DEF UsersInv, ScreenInv, Reached
    <3>2. CASE Place(asks[m].kind) = Place(k)
      BY <1>2, <1>9, <2>1, <3>1, <3>2
    <3>3. CASE Place(asks[m].kind) # Place(k)
      BY <1>2, <1>6, <2>1, <3>1, <3>3
    <3> QED
      BY <3>2, <3>3
  <2> QED
    BY <2>2, <2>3
<1>12. Single'
  <2>1. \A m \in Sent: /\ asks'[m].kind = asks[m].kind
                       /\ Waiting(m)' => m # n /\ Waiting(m)
    BY <1>3 DEF Waiting, Going
  <2> SUFFICES ASSUME NEW m \in Sent, Waiting(m)', asks[m].kind \in {"create", "rotate"}
               PROVE  /\ secret'[asks[m].kind] = 0 \/ secret'[asks[m].kind] \in seen'
                      /\ \A i \in Sent: Waiting(i)' /\ asks[i].kind = asks[m].kind => i = m
    BY <1>4, <2>1 DEF Single
  <2>2. /\ m # n /\ Waiting(m)
        /\ secret[asks[m].kind] = 0 \/ secret[asks[m].kind] \in seen
        /\ \A i \in Sent: Waiting(i) /\ asks[i].kind = asks[m].kind => i = m
    BY <2>1 DEF UsersInv, ScreenInv, Single
  <2>3. asks[m].kind # k
    BY <1>5, <2>2
  <2>4. asks[m].kind # Place(k) /\ asks[m].kind \in Places
    BY <2>3, PlaceFacts
  <2> QED
    BY <1>2, <1>6, <2>1, <2>2, <2>4
<1> QED
  BY <1>4, <1>8, <1>10, <1>11, <1>12 DEF UsersInv, ScreenInv, OnScreen

LEMMA HearDeletionKeeps ==
    ASSUME UsersInv, NEW n \in Sent, HearDeletion(n)
    PROVE  UsersInv'
<1> DEFINE list == [asks EXCEPT ![n].is = "heard"]
<1>1. /\ asks[n].is = "answered" /\ asks[n].kind = "delete"
      /\ IF userPage = "user" THEN GoTo("users", list)
         ELSE asks' = list /\ dialog' = "no" /\ UNCHANGED <<userPage, secret, force, seen>>
  BY DEF HearDeletion
<1>2. /\ list \in Seq(Requests) /\ Len(list) = Len(asks)
      /\ \A m \in Sent: /\ list[m].kind = asks[m].kind /\ list[m].row = asks[m].row /\ list[m].left = asks[m].left
                        /\ list[m].beside = asks[m].beside /\ list[m].waits = asks[m].waits
                        /\ m # n => list[m].is = asks[m].is
      /\ list[n].is = "heard"
  BY HeardList
<1>3. CASE userPage = "user"
  <2>1. GoTo("users", list) /\ "users" \in DOMAIN KindsOf
    BY <1>1, <1>3, PageFacts
  <2> HIDE DEF list
  <2> QED
    BY <1>1, <1>2, <2>1, GoToKeeps
<1>4. CASE userPage # "user"
  <2>1. asks' = list /\ dialog' = "no" /\ UNCHANGED <<userPage, secret, force, seen>>
    BY <1>1, <1>4
  <2>2. ServerInv' /\ Sent' = Sent
    BY <1>1, <2>1, HearingServer
  <2>3. \A m \in Sent: /\ asks'[m].kind = asks[m].kind
                       /\ Waiting(m)' => Waiting(m)
                       /\ asks'[m].is = "heard" => asks[m].is = "heard" \/ asks[m].kind = "delete"
    BY <1>1, <1>2, <2>1 DEF Waiting, Going
  <2>4. ScreenTyped'
    <3>1. \A j \in Places: secret[j] # 0 => secret[j] \in Sent
      BY DEF UsersInv, ScreenInv, ScreenTyped, Sent
    <3>2. \A j \in Places: secret[j] # 0 => Place(asks'[secret[j]].kind) = j
      BY <2>3, <3>1 DEF UsersInv, ScreenInv, ScreenTyped
    <3> QED
      BY <1>2, <2>1, <2>2, <3>2 DEF UsersInv, ScreenInv, ScreenTyped
  <2>5. OnScreen'
    BY <2>1, PlaceFacts DEF UsersInv, ScreenInv, OnScreen
  <2>6. Reached'
    BY <2>1, <2>2, <2>3, PlaceFacts DEF UsersInv, ScreenInv, Reached, Secretive, Places
  <2>7. Single'
    <3> SUFFICES ASSUME NEW m \in Sent, Waiting(m)', asks[m].kind \in {"create", "rotate"}
                 PROVE  /\ secret[asks[m].kind] = 0 \/ secret[asks[m].kind] \in seen
                        /\ \A i \in Sent: Waiting(i)' /\ asks[i].kind = asks[m].kind => i = m
      BY <2>1, <2>2, <2>3 DEF Single
    <3> QED
      BY <2>3 DEF UsersInv, ScreenInv, Single
  <2> QED
    BY <2>2, <2>4, <2>5, <2>6, <2>7 DEF UsersInv, ScreenInv
<1> QED
  BY <1>3, <1>4

LEMMA UsersAtFirst ==
    ASSUME UsersInit
    PROVE  UsersInv
<1>1. asks = <<>> /\ Len(<<>>) = 0 /\ <<>> \in Seq(Requests)
  BY DEF UsersInit
<1>2. Sent = {}
  BY <1>1 DEF Sent
<1>3. ServerInv
  BY <1>1, <1>2 DEF UsersInit, ServerInv
<1>4. ScreenInv
  BY <1>1, <1>2 DEF UsersInit, ScreenInv, ScreenTyped, OnScreen, Reached, Single
<1> QED
  BY <1>3, <1>4 DEF UsersInv

LEMMA UsersStay ==
    ASSUME UsersInv, [UsersNext]_userVars
    PROVE  UsersInv'
<1>1. CASE UNCHANGED userVars
  <2>1. UNCHANGED <<userPage, asks, force, dialog, seen, secret>>
    BY <1>1 DEF userVars
  <2>2. /\ dialog' \in KindsOf[userPage] \cup {"no"} /\ secret' \in [Places -> 0..Len(asks)]
        /\ \A k \in Places: secret'[k] # 0 /\ (k \in OwnDialog \/ dialog' = k) => secret'[k] \in seen'
    BY <2>1 DEF UsersInv, ScreenInv, ScreenTyped, OnScreen
  <2> QED
    BY <2>1, <2>2, DialogKeeps
<1>2. ASSUME NEW p \in DOMAIN KindsOf, LeavePage(p) PROVE UsersInv'
  <2>1. asks \in Seq(Requests) /\ GoTo(p, asks)
    BY <1>2 DEF LeavePage, UsersInv, ServerInv
  <2> QED
    BY <2>1, GoToKeeps
<1>3. ASSUME NEW n \in Sent, \/ WritePart(n) \/ WriteFails(n) \/ WriteAnswer(n)
                             \/ AnswerLost(n) \/ Hear(n) \/ HearDeletion(n)
      PROVE  UsersInv'
  BY <1>3, ServerKeepsUsers, HearKeeps, HearDeletionKeeps
<1> QED
  BY <1>1, <1>2, <1>3, FormsKeepUsers, DialogsKeepUsers, CloseFormKeeps DEF UsersNext

LEMMA UsersShown == UsersInv => UsersTypeOK /\ SecretsReach
<1> SUFFICES ASSUME UsersInv PROVE UsersTypeOK /\ SecretsReach
  OBVIOUS
<1>1. UsersTypeOK
  <2>1. \A n \in Sent: /\ asks[n].kind \in Kinds /\ asks[n].row \in 0..n - 1 /\ asks[n].beside \subseteq 1..n - 1
                       /\ asks[n].is \in {"writing", "failed", "answered", "heard", "lost"}
    BY RequestFacts DEF UsersInv, ServerInv, Outcomes
  <2>2. 0..Len(asks) = Sent \cup {0}
    BY RequestFacts DEF UsersInv, ServerInv, Sent
  <2> QED
    BY <2>1, <2>2 DEF UsersInv, ServerInv, ScreenInv, ScreenTyped, UsersTypeOK
<1>2. ASSUME NEW n \in Sent, asks[n].is = "heard", asks[n].kind \in Secretive
      PROVE  /\ n \in seen \/ n = secret[Place(asks[n].kind)]
             /\ \A p \in Lasting \cap {Parts[asks[n].kind][i]: i \in DOMAIN Parts[asks[n].kind]}: Reigns(n, p)
  <2> DEFINE parts == Parts[asks[n].kind]
  <2>1. parts \in Seq(PartNames) /\ DOMAIN parts = 1..Len(parts) /\ Len(parts) \in Nat
    BY RequestFacts DEF UsersInv, ServerInv
  <2>2. Ended(n) /\ Written(n)
    BY DEF UsersInv, ServerInv
  <2>3. asks[n].left = <<>> /\ Len(<<>>) = 0
    BY <1>2, <2>2 DEF Ended
  <2>4. ASSUME NEW i \in DOMAIN parts, parts[i] \in Lasting PROVE Reigns(n, parts[i])
    <3>1. i \in 1..Len(parts) - Len(asks[n].left)
      BY <2>1, <2>3
    <3> QED
      BY <2>2, <2>4, <3>1 DEF Written
  <2> QED
    BY <1>2, <2>4 DEF UsersInv, ScreenInv, Reached
<1> QED
  BY <1>1, <1>2 DEF SecretsReach, Reigns

-----------------------------------------------------------------------------
(* QueryCache: the hooks are facts to be looked up group by group; with    *)
(* them, what a mutation outdates is always on its way again.              *)

\* The mutations and the queries of a group of hooks: where they are mounted, and which
\* tables they write or read.
Within(h, pages, tables) == \A m \in h.mutations: m.on \subseteq pages /\ m.writes \subseteq tables
Named(h, names)          == /\ \A m \in h.mutations: m.name \in names
                            /\ \A m1, m2 \in h.mutations: m1.name = m2.name => m1 = m2

LEMMA MutationGroups ==
    \A m \in Mutations:
        \E h \in {HostMutationHooks, ClaudeHooks, BindingHooks, EgressHooks, UserHooks, KeyHooks, ImageHooks,
                  BypassHooks, BypassRuleHooks, BypassBindingHooks, PortalHooks}: m \in h.mutations
<1>1. \A m \in Mutations: \E h \in AllHooks: m \in h.mutations
  BY DEF Mutations
<1>2. \A h \in {HostListHooks, TaskHooks, EventHooks, StatsHook, PresetHook}: h.mutations = {}
  BY DEF HostListHooks, TaskHooks, EventHooks, StatsHook, PresetHook, Hooks
<1> QED
  BY <1>1, <1>2 DEF AllHooks

LEMMA GroupsWrite ==
    /\ Within(HostMutationHooks, {"hosts", "host"}, {"host", "binding", "task", "vnc"})
    /\ Within(ClaudeHooks, {"host"}, {"claude"})
    /\ Within(BindingHooks, {"host"}, {"binding", "home"})
    /\ Within(EgressHooks, {"egress"}, {"egress"})
    /\ Within(UserHooks, {"users", "user"}, {"user", "host", "key"})
    /\ Within(KeyHooks, {"user", "portal-host"}, {"key"})
    /\ Within(ImageHooks, {"dashboard"}, {"image"})
    /\ Within(BypassHooks, {"host"}, {"snapshot", "task", "audit"})
    /\ Within(BypassRuleHooks, {"host"}, {"rule", "audit"})
    /\ Within(BypassBindingHooks, {"host"}, {"preset-binding", "audit"})
    /\ Within(PortalHooks, {"portal-host"}, {"task", "vnc"})
<1>1. Within(HostMutationHooks, {"hosts", "host"}, {"host", "binding", "task", "vnc"})
  BY DEF Within, HostMutationHooks, Hooks, Mutation
<1>2. /\ Within(ClaudeHooks, {"host"}, {"claude"}) /\ Within(BindingHooks, {"host"}, {"binding", "home"})
      /\ Within(ImageHooks, {"dashboard"}, {"image"})
  BY DEF Within, ClaudeHooks, BindingHooks, ImageHooks, Hooks, Mutation
<1>3. Within(EgressHooks, {"egress"}, {"egress"}) /\ Within(UserHooks, {"users", "user"}, {"user", "host", "key"})
  BY DEF Within, EgressHooks, UserHooks, Hooks, Mutation
<1>4. Within(KeyHooks, {"user", "portal-host"}, {"key"}) /\ Within(PortalHooks, {"portal-host"}, {"task", "vnc"})
  BY DEF Within, KeyHooks, PortalHooks, Hooks, Mutation
<1>5. /\ Within(BypassHooks, {"host"}, {"snapshot", "task", "audit"})
      /\ Within(BypassRuleHooks, {"host"}, {"rule", "audit"})
      /\ Within(BypassBindingHooks, {"host"}, {"preset-binding", "audit"})
  BY DEF Within, BypassHooks, BypassRuleHooks, BypassBindingHooks, Hooks, Mutation
<1> QED
  BY <1>1, <1>2, <1>3, <1>4, <1>5

HostMutationNames == {"createHost", "updateHostMounts", "patchHostResources", "hostAction", "deleteHost",
                      "restartHostVNC", "startHostVNC"}
UserMutationNames == {"createUser", "regenerateCredentials", "updateUserStatus", "updateUserExpiry", "deleteUser"}

LEMMA GroupsNamed ==
    /\ Named(HostMutationHooks, HostMutationNames)
    /\ Named(ClaudeHooks, {"updateClaude"})
    /\ Named(BindingHooks, {"bindEgressIP", "unbindEgressIP", "importHostConfig"})
    /\ Named(EgressHooks, {"createEgressIP", "updateEgressIP", "deleteEgressIP", "testEgressIPSSE"})
    /\ Named(UserHooks, UserMutationNames)
    /\ Named(KeyHooks, {"adminCreateSSHKey", "adminDeleteSSHKey", "myCreateSSHKey", "myDeleteSSHKey"})
    /\ Named(ImageHooks, {"refreshImage"})
    /\ Named(BypassHooks, {"applyBypass"})
    /\ Named(BypassRuleHooks, {"createBypassRule", "updateBypassRule", "deleteBypassRule"})
    /\ Named(BypassBindingHooks, {"createBypassBinding", "deleteBypassBinding"})
    /\ Named(PortalHooks, {"rebuildHost", "restartMyHostVNC", "startMyHostVNC"})
<1>1. Named(HostMutationHooks, HostMutationNames)
  BY DEF Named, HostMutationNames, HostMutationHooks, Hooks, Mutation
<1>2. Named(ClaudeHooks, {"updateClaude"})
  BY DEF Named, ClaudeHooks, Hooks, Mutation
<1>11. Named(ImageHooks, {"refreshImage"})
  BY DEF Named, ImageHooks, Hooks, Mutation
<1>10. Named(PortalHooks, {"rebuildHost", "restartMyHostVNC", "startMyHostVNC"})
  BY DEF Named, PortalHooks, Hooks, Mutation
<1>7. Named(BindingHooks, {"bindEgressIP", "unbindEgressIP", "importHostConfig"})
  <2> DEFINE bind   == Mutation("bindEgressIP", {"host"}, {"binding"}, {<<"hosts">>, <<"egress-ips">>})
             unbind == Mutation("unbindEgressIP", {"host"}, {"binding"}, {<<"hosts">>, <<"egress-ips">>})
             import == Mutation("importHostConfig", {"host"}, {"home"}, {})
  <2>1. BindingHooks.mutations = {bind, unbind, import}
    BY DEF BindingHooks, Hooks
  <2>2. bind.name = "bindEgressIP" /\ unbind.name = "unbindEgressIP" /\ import.name = "importHostConfig"
    BY DEF Mutation
  <2> HIDE DEF bind, unbind, import
  <2> QED
    BY <2>1, <2>2 DEF Named
<1>3. Named(EgressHooks, {"createEgressIP", "updateEgressIP", "deleteEgressIP", "testEgressIPSSE"})
  BY DEF Named, EgressHooks, Hooks, Mutation
<1>4. Named(UserHooks, UserMutationNames)
  BY DEF Named, UserMutationNames, UserHooks, Hooks, Mutation
<1>5. Named(KeyHooks, {"adminCreateSSHKey", "adminDeleteSSHKey", "myCreateSSHKey", "myDeleteSSHKey"})
  BY DEF Named, KeyHooks, Hooks, Mutation
<1>6. Named(BypassHooks, {"applyBypass"})
  BY DEF Named, BypassHooks, Hooks, Mutation
<1>8. Named(BypassRuleHooks, {"createBypassRule", "updateBypassRule", "deleteBypassRule"})
  BY DEF Named, BypassRuleHooks, Hooks, Mutation
<1>9. Named(BypassBindingHooks, {"createBypassBinding", "deleteBypassBinding"})
  BY DEF Named, BypassBindingHooks, Hooks, Mutation
<1> QED
  BY <1>1, <1>2, <1>3, <1>4, <1>5, <1>6, <1>7, <1>8, <1>9, <1>10, <1>11

LEMMA NamesUnique == \A m1, m2 \in Mutations: m1.name = m2.name => m1 = m2
<1> SUFFICES ASSUME NEW m1 \in Mutations, NEW m2 \in Mutations, m1.name = m2.name PROVE m1 = m2
  OBVIOUS
<1> QED
  BY MutationGroups, GroupsNamed DEF Named, HostMutationNames, UserMutationNames

LEMMA Prefixing ==
    /\ \A key \in {<<"users">>, <<"users", "u">>, <<"admin", "ssh-keys", "u">>, <<"portal", "ssh-keys">>}: IsPrefix(key, key)
    /\ \A key \in {<<"egress-ips">>, <<"bypass", "effective", "h">>, <<"bypass", "rules", "h">>,
                   <<"bypass", "bindings", "h">>}: IsPrefix(key, key)
    /\ IsPrefix(<<"bypass", "audit-log", "h">>, <<"bypass", "audit-log", "h", "">>)
    /\ IsPrefix(<<"egress-ips">>, <<"egress-ips", "e">>) /\ IsPrefix(<<"users">>, <<"users", "u">>)
  BY DEF IsPrefix

\* A mutation of a page tells the query of this page, which no clock asks again, or is
\* listed as not repaired.
LEMMA HooksTell ==
    ASSUME NEW q \in Queries, q.polls # "yes", NEW m \in Mutations, m.on \cap q.on # {}, m.writes \cap q.reads # {}
    PROVE  (\E k \in m.tells: IsPrefix(k, q.key)) \/ <<m.name, q.key>> \in Unrepaired
<1>1. PICK g \in AllHooks: q \in g.queries
  BY DEF Queries
<1>2. g \notin {HostListHooks, HostMutationHooks, BindingHooks, EventHooks, ImageHooks}
  BY <1>1 DEF HostListHooks, HostMutationHooks, BindingHooks, EventHooks, ImageHooks, Hooks, Query
<1>3. CASE g = ClaudeHooks
  <2>1. q.key = <<"hosts", "h", "claude-info">> /\ q.on = {"host"} /\ q.reads = {"home"}
    BY <1>1, <1>3 DEF ClaudeHooks, Hooks, Query
  <2>2. m \in BindingHooks.mutations
    BY <2>1, MutationGroups, GroupsWrite DEF Within
  <2>3. m.name = "importHostConfig"
    BY <2>1, <2>2 DEF BindingHooks, Hooks, Mutation
  <2> QED
    BY <2>1, <2>3 DEF Unrepaired
<1>4. CASE g = EgressHooks
  <2>1. q.key \in {<<"egress-ips">>, <<"egress-ips", "e">>} /\ q.on \subseteq {"egress", "host", "hosts"} /\ q.reads = {"egress"}
    BY <1>1, <1>4 DEF EgressHooks, Hooks, Query
  <2>2. m \in EgressHooks.mutations
    BY <2>1, MutationGroups, GroupsWrite DEF Within
  <2>3. m.name = "testEgressIPSSE" \/ <<"egress-ips">> \in m.tells
    BY <2>2 DEF EgressHooks, Hooks, Mutation
  <2> QED
    BY <2>1, <2>3, Prefixing DEF Unrepaired
<1>5. CASE g = UserHooks
  <2>1. \/ q.key = <<"users">> /\ q.on = {"users", "hosts"} /\ q.reads = {"user"}
        \/ q.key = <<"users", "u">> /\ q.on = {"user"} /\ q.reads = {"user", "host"}
    BY <1>1, <1>5 DEF UserHooks, Hooks, Query
  <2>2. m \in UserHooks.mutations
    BY <2>1, MutationGroups, GroupsWrite DEF Within
  <2>3. <<"users">> \in m.tells \/ (m.on = {"user"} /\ <<"users", "u">> \in m.tells)
    BY <2>2 DEF UserHooks, Hooks, Mutation
  <2> QED
    BY <2>1, <2>3, Prefixing
<1>6. CASE g = KeyHooks
  <2>1. \/ q.key = <<"admin", "ssh-keys", "u">> /\ q.on = {"user"} /\ q.reads = {"key"}
        \/ q.key = <<"portal", "ssh-keys">> /\ q.on = {"portal-host"} /\ q.reads = {"key"}
    BY <1>1, <1>6 DEF KeyHooks, Hooks, Query
  <2>2. m \in UserHooks.mutations \/ m \in KeyHooks.mutations
    BY <2>1, MutationGroups, GroupsWrite DEF Within
  <2>3. CASE m \in UserHooks.mutations
    <3>1. q.key = <<"admin", "ssh-keys", "u">> /\ q.on = {"user"} /\ q.reads = {"key"}
      BY <2>1, <2>3, GroupsWrite DEF Within
    <3>2. m.name \in {"regenerateCredentials", "deleteUser"}
      BY <2>3, <3>1 DEF UserHooks, Hooks, Mutation
    <3> QED
      BY <3>1, <3>2 DEF Unrepaired
  <2>4. CASE m \in KeyHooks.mutations
    <3>1. \/ m.on = {"user"} /\ <<"admin", "ssh-keys", "u">> \in m.tells
          \/ m.on = {"portal-host"} /\ <<"portal", "ssh-keys">> \in m.tells
      BY <2>4 DEF KeyHooks, Hooks, Mutation
    <3> QED
      BY <2>1, <3>1, Prefixing
  <2> QED
    BY <2>2, <2>3, <2>4
<1>7. CASE g = TaskHooks
  <2>1. q.reads \in {{"task"}, {"progress"}} /\ q.on \subseteq {"tasks", "hosts", "host"} /\ (q.reads = {"task"} => q.polls = "yes")
    BY <1>1, <1>7 DEF TaskHooks, Hooks, Query
  <2> QED
    BY <2>1, MutationGroups, GroupsWrite DEF Within
<1>8. CASE g = StatsHook
  <2>1. q.on = {"dashboard"} /\ q.reads = {"user", "host", "egress"}
    BY <1>1, <1>8 DEF StatsHook, Hooks, Query
  <2> QED
    BY <2>1, MutationGroups, GroupsWrite DEF Within
<1>9. CASE g = BypassHooks
  <2>1. /\ q.on = {"host"}
        /\ \/ q.key = <<"bypass", "effective", "h">> /\ q.reads = {"rule", "preset-binding"}
           \/ q.key = <<"bypass", "audit-log", "h", "">> /\ q.reads = {"audit"}
           \/ q.key = <<"bypass", "consistency", "h">> /\ q.reads = {"container"}
    BY <1>1, <1>9 DEF BypassHooks, Hooks, Query, Keeping
  <2>2. m \in BypassHooks.mutations \/ m \in BypassRuleHooks.mutations \/ m \in BypassBindingHooks.mutations
    BY <2>1, MutationGroups, GroupsWrite DEF Within
  <2>3. CASE m \in BypassHooks.mutations
    <3>1. <<"bypass", "audit-log", "h">> \in m.tells
      BY <2>3 DEF BypassHooks, Hooks, Mutation
    <3>2. m.writes \subseteq {"snapshot", "task", "audit"}
      BY <2>3, GroupsWrite DEF Within
    <3>3. q.key = <<"bypass", "audit-log", "h", "">>
      BY <2>1, <3>2
    <3> QED
      BY <3>1, <3>3, Prefixing
  <2>4. CASE m \in BypassRuleHooks.mutations \/ m \in BypassBindingHooks.mutations
    <3>1. m.name \in {"createBypassRule", "updateBypassRule", "deleteBypassRule", "createBypassBinding", "deleteBypassBinding"}
      BY <2>4, GroupsNamed DEF Named
    <3>2. m.writes \subseteq {"rule", "preset-binding", "audit"}
      BY <2>4, GroupsWrite DEF Within
    <3>3. q.key \in {<<"bypass", "effective", "h">>, <<"bypass", "audit-log", "h", "">>}
      BY <2>1, <3>2
    <3> QED
      BY <3>1, <3>3 DEF Unrepaired
  <2> QED
    BY <2>2, <2>3, <2>4
<1>10. CASE g = BypassRuleHooks
  <2>1. q.key = <<"bypass", "rules", "h">> /\ q.on = {"host"} /\ q.reads = {"rule"}
    BY <1>1, <1>10 DEF BypassRuleHooks, Hooks, Query, Keeping
  <2>2. m \in BypassRuleHooks.mutations
    BY <2>1, MutationGroups, GroupsWrite DEF Within
  <2>3. <<"bypass", "rules", "h">> \in m.tells
    BY <2>2 DEF BypassRuleHooks, Hooks, Mutation
  <2> QED
    BY <2>1, <2>3, Prefixing
<1>11. CASE g = BypassBindingHooks
  <2>1. q.key = <<"bypass", "bindings", "h">> /\ q.on = {"host"} /\ q.reads = {"preset-binding"}
    BY <1>1, <1>11 DEF BypassBindingHooks, Hooks, Query, Keeping
  <2>2. m \in BypassBindingHooks.mutations
    BY <2>1, MutationGroups, GroupsWrite DEF Within
  <2>3. <<"bypass", "bindings", "h">> \in m.tells
    BY <2>2 DEF BypassBindingHooks, Hooks, Mutation
  <2> QED
    BY <2>1, <2>3, Prefixing
<1>12. CASE g = PresetHook
  <2>1. q.on = {"host"} /\ q.reads = {"preset"}
    BY <1>1, <1>12 DEF PresetHook, Hooks, Query, Keeping
  <2> QED
    BY <2>1, MutationGroups, GroupsWrite DEF Within
<1>13. CASE g = PortalHooks
  <2>1. q.on = {"portal-host"} /\ q.reads = {"host", "binding", "egress"}
    BY <1>1, <1>13 DEF PortalHooks, Hooks, Query
  <2> QED
    BY <2>1, MutationGroups, GroupsWrite DEF Within
<1> QED
  BY <1>2, <1>3, <1>4, <1>5, <1>6, <1>7, <1>8, <1>9, <1>10, <1>11, <1>12, <1>13 DEF AllHooks

\* What is lacking was written by a mutation of this page; and what was written, its
\* outcome told, is on its way, or asked for when the page is shown again.
Brings(m) ==
    \/ Repairing(m.name)
    \/ fetch.is = "none" /\ ~Mounted /\ invalid
    \/ <<m.name, query.key>> \in Unrepaired
WriterKnown == \A n \in lacks: \E m \in Beside: m.name = n /\ m.writes \cap query.reads # {}
OnItsWay    == query.polls # "yes" =>
                   \A m \in Beside: m.name \in lacks \ untold /\ sent[m.name] = "no" => Brings(m)
CacheInv    == CacheTypeOK /\ WriterKnown /\ OnItsWay

LEMMA FetchTyped ==
    ASSUME NEW S, NEW step \in {"none", "asked", "answered", "failed"}
    PROVE  Fetch(step) \in [is: {"none", "asked", "answered", "failed"}, lacks: SUBSET S]
  BY DEF Fetch

LEMMA CacheAtFirst == CacheInit => CacheInv
<1> SUFFICES ASSUME CacheInit PROVE CacheInv
  OBVIOUS
<1>1. visits \in 0..MaxPages /\ changes \in 0..MaxChanges /\ losses \in 0..MaxLosses
  BY CacheAssumption DEF CacheInit
<1>2. sent \in [Names -> {"no", "sent", "applied"}]
  BY DEF CacheInit
<1>3. lacks = {} /\ untold = {} /\ fetch = Fetch("none") /\ invalid = FALSE /\ query \in Queries /\ shownPage \in PageNames
  BY DEF CacheInit
<1>4. fetch \in [is: {"none", "asked", "answered", "failed"}, lacks: SUBSET lacks]
  BY <1>3 DEF Fetch
<1> QED
  BY <1>1, <1>2, <1>3, <1>4 DEF CacheInv, CacheTypeOK, WriterKnown, OnItsWay

LEMMA CacheShown == CacheInv => OwnWritesShown
  BY DEF CacheInv, OnItsWay, Brings, OwnWritesShown, Repairing

\* The same query keeps the same mutations.
LEMMA BesideKept == UNCHANGED query => Beside' = Beside /\ Names' = Names
  BY DEF Beside, Names

LEMMA BesideOnce == \A m1, m2 \in Beside: m1.name \in Names /\ (m1.name = m2.name => m1 = m2)
  BY NamesUnique DEF Beside, Names

LEMMA MutateKeeps ==
    ASSUME CacheInv, NEW m1 \in Beside, Mutate(m1)
    PROVE  CacheInv'
<1>1. Beside' = Beside /\ Names' = Names /\ UNCHANGED <<query, shownPage, lacks, fetch, invalid, untold>>
  BY BesideKept DEF Mutate
<1>2. sent' = [sent EXCEPT ![m1.name] = "sent"] /\ m1.name \in Names
  BY BesideOnce DEF Mutate
<1>3. CacheTypeOK'
  <2>1. changes' \in 0..MaxChanges
    BY CacheAssumption DEF CacheInv, CacheTypeOK, Mutate
  <2> QED
    BY <1>1, <1>2, <2>1 DEF CacheInv, CacheTypeOK, Mutate
<1>4. WriterKnown'
  BY <1>1 DEF CacheInv, WriterKnown
<1>5. OnItsWay'
  <2> SUFFICES ASSUME query.polls # "yes", NEW m \in Beside, m.name \in lacks \ untold, sent'[m.name] = "no"
               PROVE  Brings(m)'
    BY <1>1 DEF OnItsWay
  <2>1. sent[m.name] = "no"
    BY <1>2, BesideOnce DEF CacheInv, CacheTypeOK
  <2>2. Brings(m)
    BY <2>1 DEF CacheInv, OnItsWay
  <2> QED
    BY <1>1, <2>2 DEF Brings, Repairing, Mounted
<1> QED
  BY <1>3, <1>4, <1>5 DEF CacheInv

LEMMA ApplyKeeps ==
    ASSUME CacheInv, NEW m1 \in Beside, Apply(m1)
    PROVE  CacheInv'
<1>1. Beside' = Beside /\ Names' = Names /\ UNCHANGED <<query, shownPage, invalid, untold, visits, changes, losses>>
  BY BesideKept DEF Apply
<1>2. sent' = [sent EXCEPT ![m1.name] = "applied"] /\ m1.name \in Names
  BY BesideOnce DEF Apply
<1>3. /\ \/ m1.writes \cap query.reads # {} /\ lacks' = lacks \cup {m1.name}
         \/ lacks' = lacks
      /\ fetch' \in [is: {"none", "asked", "answered", "failed"}, lacks: SUBSET lacks']
      /\ fetch'.is = fetch.is /\ fetch'.lacks \subseteq fetch.lacks \cup {m1.name}
  <2>1. CASE m1.writes \cap query.reads # {}
    BY <2>1 DEF Apply, Outdate, CacheInv, CacheTypeOK
  <2>2. CASE m1.writes \cap query.reads = {}
    BY <2>2 DEF Apply, CacheInv, CacheTypeOK
  <2> QED
    BY <2>1, <2>2
<1>4. CacheTypeOK'
  BY <1>1, <1>2, <1>3 DEF CacheInv, CacheTypeOK
<1>5. WriterKnown'
  BY <1>1, <1>3 DEF CacheInv, WriterKnown
<1>6. OnItsWay'
  <2> SUFFICES ASSUME query.polls # "yes", NEW m \in Beside, m.name \in lacks' \ untold, sent'[m.name] = "no"
               PROVE  Brings(m)'
    BY <1>1 DEF OnItsWay
  <2>1. m.name # m1.name /\ sent[m.name] = "no"
    BY <1>2, BesideOnce DEF CacheInv, CacheTypeOK
  <2>2. Brings(m)
    BY <1>3, <2>1 DEF CacheInv, OnItsWay
  <2> QED
    BY <1>1, <1>3, <2>1, <2>2 DEF Brings, Repairing, Mounted
<1> QED
  BY <1>4, <1>5, <1>6 DEF CacheInv

LEMMA SucceedKeeps ==
    ASSUME CacheInv, NEW m1 \in Beside, Succeed(m1)
    PROVE  CacheInv'
<1>1. Beside' = Beside /\ Names' = Names /\ UNCHANGED <<query, shownPage, lacks, visits, changes, losses>>
  BY BesideKept DEF Succeed
<1>2. /\ sent' = [sent EXCEPT ![m1.name] = "no"] /\ m1.name \in Names
      /\ untold' = IF Mounted \/ Resting THEN untold \ {m1.name} ELSE untold \cup {m1.name}
  BY BesideOnce DEF Succeed
<1>3. /\ \/ fetch' = Fetch("asked") /\ invalid' = FALSE
         \/ ~Mounted /\ invalid' = TRUE /\ fetch' = fetch
         \/ ~Tells(m1) /\ UNCHANGED <<fetch, invalid>>
      /\ Tells(m1) /\ Mounted => fetch' = Fetch("asked")
  BY DEF Succeed, Invalidate
<1>4. CacheTypeOK'
  <2>1. fetch' \in [is: {"none", "asked", "answered", "failed"}, lacks: SUBSET lacks]
    BY <1>3, FetchTyped DEF CacheInv, CacheTypeOK
  <2>3. invalid' \in BOOLEAN
    BY <1>3 DEF CacheInv, CacheTypeOK
  <2>2. untold' \subseteq Names /\ sent' \in [Names -> {"no", "sent", "applied"}]
    BY <1>2 DEF CacheInv, CacheTypeOK
  <2> QED
    BY <1>1, <2>1, <2>2, <2>3 DEF CacheInv, CacheTypeOK
<1>5. WriterKnown'
  BY <1>1 DEF CacheInv, WriterKnown
<1>6. OnItsWay'
  <2> SUFFICES ASSUME query.polls # "yes", NEW m \in Beside, m.name \in lacks \ untold', sent'[m.name] = "no"
               PROVE  Brings(m)'
    BY <1>1 DEF OnItsWay
  <2>1. CASE fetch' = Fetch("asked")
    BY <2>1 DEF Brings, Repairing, Fetch
  <2>2. CASE m # m1 /\ fetch' # Fetch("asked")
    <3>1. m.name # m1.name
      BY <2>2, BesideOnce
    <3>2. Brings(m)
      BY <1>2, <3>1 DEF CacheInv, OnItsWay, CacheTypeOK
    <3> QED
      BY <1>1, <1>3, <2>2, <3>2 DEF Brings, Repairing, Mounted
  <2>3. CASE m = m1 /\ fetch' # Fetch("asked")
    <3>1. Mounted \/ Resting
      BY <1>2, <2>3
    <3>2. CASE Tells(m1)
      BY <1>1, <1>3, <2>3, <3>1, <3>2 DEF Brings, Repairing, Mounted, Resting, CacheInv, CacheTypeOK
    <3>3. CASE ~Tells(m1)
      <4>1. m1 \in Mutations /\ m1.on \cap query.on # {} /\ m1.writes \cap query.reads # {} /\ query \in Queries
        BY <2>3, BesideOnce DEF CacheInv, WriterKnown, Beside, CacheTypeOK
      <4> QED
        BY <1>1, <2>3, <3>3, <4>1, HooksTell DEF Brings, Tells
    <3> QED
      BY <3>2, <3>3
  <2> QED
    BY <2>1, <2>2, <2>3
<1> QED
  BY <1>4, <1>5, <1>6 DEF CacheInv

LEMMA FailKeeps ==
    ASSUME CacheInv, NEW m1 \in Beside, Fail(m1)
    PROVE  CacheInv'
<1>1. Beside' = Beside /\ Names' = Names /\ UNCHANGED <<query, shownPage, lacks, fetch, invalid, visits, changes>>
  BY BesideKept DEF Fail
<1>2. sent' = [sent EXCEPT ![m1.name] = "no"] /\ m1.name \in Names /\ untold' = untold \cup {m1.name}
  BY BesideOnce DEF Fail
<1>3. losses' \in 0..MaxLosses
  BY CacheAssumption DEF CacheInv, CacheTypeOK, Fail
<1>4. CacheTypeOK'
  BY <1>1, <1>2, <1>3 DEF CacheInv, CacheTypeOK
<1>5. WriterKnown'
  BY <1>1 DEF CacheInv, WriterKnown
<1>6. OnItsWay'
  <2> SUFFICES ASSUME query.polls # "yes", NEW m \in Beside, m.name \in lacks \ untold', sent'[m.name] = "no"
               PROVE  Brings(m)'
    BY <1>1 DEF OnItsWay
  <2>1. m.name # m1.name /\ sent[m.name] = "no"
    BY <1>2, BesideOnce DEF CacheInv, CacheTypeOK
  <2>2. Brings(m)
    BY <1>2, <2>1 DEF CacheInv, OnItsWay
  <2> QED
    BY <1>1, <2>2 DEF Brings, Repairing, Mounted
<1> QED
  BY <1>4, <1>5, <1>6 DEF CacheInv

\* Steps of the query alone.
LEMMA VisitKeeps ==
    ASSUME CacheInv, NEW p \in PageNames, Visit(p)
    PROVE  CacheInv'
<1>1. Beside' = Beside /\ Names' = Names /\ UNCHANGED <<query, lacks, sent, untold, changes, losses>> /\ shownPage' = p
  BY BesideKept DEF Visit
<1>2. PICK ask \in BOOLEAN, aged \in BOOLEAN:
          /\ ask = (p \in query.on /\ Resting /\ (aged \/ invalid))
          /\ fetch' = IF ask THEN Fetch("asked") ELSE fetch
          /\ invalid' = IF ask THEN FALSE ELSE invalid
  BY DEF Visit
<1>3. visits' \in 0..MaxPages
  BY CacheAssumption DEF CacheInv, CacheTypeOK, Visit
<1>4. CacheTypeOK'
  BY <1>1, <1>2, <1>3 DEF CacheInv, CacheTypeOK, Fetch
<1>5. WriterKnown'
  BY <1>1 DEF CacheInv, WriterKnown
<1>6. OnItsWay'
  <2> SUFFICES ASSUME query.polls # "yes", NEW m \in Beside, m.name \in lacks \ untold, sent[m.name] = "no"
               PROVE  Brings(m)'
    BY <1>1 DEF OnItsWay
  <2>1. Brings(m)
    BY DEF CacheInv, OnItsWay
  <2>2. CASE ask
    BY <1>2, <2>2 DEF Brings, Repairing, Fetch
  <2>3. CASE ~ask
    <3>1. UNCHANGED <<fetch, invalid>>
      BY <1>2, <2>3
    <3>2. fetch.is = "none" /\ invalid => p \notin query.on
      BY <1>2, <2>3 DEF Resting
    <3> QED
      BY <1>1, <2>1, <3>1, <3>2 DEF Brings, Repairing, Mounted
  <2> QED
    BY <2>2, <2>3
<1> QED
  BY <1>4, <1>5, <1>6 DEF CacheInv

LEMMA FetchingKeeps ==
    ASSUME CacheInv, Poll({"yes", "maybe"}) \/ ServerAnswers \/ AnswerArrives \/ FetchFails
    PROVE  CacheInv'
<1>1. Beside' = Beside /\ Names' = Names /\ UNCHANGED <<query, shownPage, sent, untold, visits, changes>>
  BY BesideKept DEF Poll, ServerAnswers, AnswerArrives, FetchFails
<1>2. losses' \in 0..MaxLosses
  BY CacheAssumption DEF CacheInv, CacheTypeOK, Poll, ServerAnswers, AnswerArrives, FetchFails
<1>3. \/ /\ lacks' = lacks /\ invalid' = invalid
         /\ \/ fetch' = Fetch("asked") \/ fetch' = Fetch("failed")
            \/ fetch' = Fetch("answered")
      \/ fetch.is = "answered" /\ lacks' = fetch.lacks /\ fetch' = Fetch("none") /\ invalid' = FALSE
  BY DEF Poll, ServerAnswers, AnswerArrives, FetchFails
<1>4. lacks' \subseteq lacks
  BY <1>3 DEF CacheInv, CacheTypeOK
<1>5. CacheTypeOK'
  <2>1. fetch' \in [is: {"none", "asked", "answered", "failed"}, lacks: SUBSET lacks']
    BY <1>3, FetchTyped
  <2>2. invalid' \in BOOLEAN
    BY <1>3 DEF CacheInv, CacheTypeOK
  <2> QED
    BY <1>1, <1>2, <1>4, <2>1, <2>2 DEF CacheInv, CacheTypeOK
<1>6. WriterKnown'
  BY <1>1, <1>4 DEF CacheInv, WriterKnown
<1>7. OnItsWay'
  <2> SUFFICES ASSUME query.polls # "yes", NEW m \in Beside, m.name \in lacks' \ untold, sent[m.name] = "no"
               PROVE  Brings(m)'
    BY <1>1 DEF OnItsWay
  <2>1. Brings(m)
    BY <1>4 DEF CacheInv, OnItsWay
  <2> QED
    BY <1>1, <1>3, <2>1 DEF Brings, Repairing, Fetch
<1> QED
  BY <1>5, <1>6, <1>7 DEF CacheInv

LEMMA CacheStays == CacheInv /\ [CacheNext]_cacheVars => CacheInv'
<1> SUFFICES ASSUME CacheInv, [CacheNext]_cacheVars PROVE CacheInv'
  OBVIOUS
<1>1. CASE UNCHANGED cacheVars
  BY <1>1, BesideKept DEF cacheVars, CacheInv, CacheTypeOK, WriterKnown, OnItsWay, Brings, Repairing, Mounted
<1>2. CASE CacheNext
  BY <1>2, MutateKeeps, ApplyKeeps, SucceedKeeps, FailKeeps, VisitKeeps, FetchingKeeps DEF CacheNext
<1> QED
  BY <1>1, <1>2

-----------------------------------------------------------------------------
(* ProxyForm: a form that was loaded and not touched keeps, through every  *)
(* conversion to a text and back, what it shows of what was loaded.        *)

Forms == [protocol: Protocols, transport: Transports, filled: SUBSET Fields, password: Passwords]

LEMMA FormOf ==
    ASSUME NEW p \in Protocols, NEW with \in Transports, NEW filled \in SUBSET Fields, NEW pwd \in Passwords
    PROVE  /\ Form(p, with, filled, pwd) \in Forms
           /\ Form(p, with, filled, pwd).protocol = p /\ Form(p, with, filled, pwd).transport = with
           /\ Form(p, with, filled, pwd).filled = filled /\ Form(p, with, filled, pwd).password = pwd
  BY DEF Form, Forms

LEMMA ConfigOf ==
    ASSUME NEW p \in Protocols, NEW with \in Transports, NEW keys \in SUBSET Keys, NEW pwd \in Passwords
    PROVE  /\ Config(p, with, keys, pwd) \in Configs
           /\ Config(p, with, keys, pwd).type = p /\ Config(p, with, keys, pwd).transport = with
           /\ Config(p, with, keys, pwd).keys = keys /\ Config(p, with, keys, pwd).password = pwd
  BY DEF Config, Configs

\* What a form sends: of its own fields, and what is preset.
LEMMA SentFacts ==
    ASSUME NEW f \in Forms
    PROVE  LET c == FormValuesToConfig(f)
           IN  /\ c \in Configs /\ c.type = f.protocol /\ c.transport = SentTransport(f) /\ c.password = SentPassword(f)
               /\ c.keys = SentKeys(f) \cup When("tls" \in f.filled /\ f.protocol \in TlsTypes, TlsKeys(f))
               /\ c.keys \subseteq f.filled \cup {"preset"}
<1> DEFINE keys == SentKeys(f) \cup When("tls" \in f.filled /\ f.protocol \in TlsTypes, TlsKeys(f))
<1>1. /\ f.protocol \in Protocols /\ f.transport \in Transports /\ f.filled \in SUBSET Fields /\ f.password \in Passwords
  BY DEF Forms
<1>2. SentTransport(f) \in Transports /\ SentPassword(f) \in Passwords
  BY <1>1 DEF SentTransport, SentPassword, Transports, Passwords
<1>3. keys \subseteq f.filled \cup {"preset"}
  BY DEF SentKeys, When, TlsKeys
<1>4. keys \in SUBSET Keys
  BY <1>1, <1>3 DEF Keys
<1>5. FormValuesToConfig(f) = Config(f.protocol, SentTransport(f), keys, SentPassword(f))
  BY DEF FormValuesToConfig
<1> HIDE DEF keys
<1>6. /\ FormValuesToConfig(f) \in Configs /\ FormValuesToConfig(f).type = f.protocol
      /\ FormValuesToConfig(f).transport = SentTransport(f) /\ FormValuesToConfig(f).password = SentPassword(f)
      /\ FormValuesToConfig(f).keys = keys
  BY <1>1, <1>2, <1>4, <1>5, ConfigOf
<1> QED
  BY <1>3, <1>6 DEF keys

\* What a configuration fills: the fields of its protocol.
LEMMA FilledFacts ==
    ASSUME NEW c \in Configs, NEW f \in Forms
    PROVE  LET g == ConfigToFormValues(c, f)
           IN  /\ g \in Forms /\ g.protocol = c.type /\ g.transport = c.transport /\ g.password = c.password
               /\ g.filled \subseteq c.keys \cup f.filled
               /\ c.keys \cap {"server", "username", "tls", "sni", "cert", "reality", "path", "service"} \subseteq g.filled
               /\ c.type \in UuidTypes => (c.keys \cap {"uuid"} \subseteq g.filled)
               /\ c.type = "vless" => (c.keys \cap {"flow"} \subseteq g.filled)
               /\ c.type = "shadowsocks" => (c.keys \cap {"method"} \subseteq g.filled)
<1> DEFINE filled ==
              (c.keys \cap ({"server", "username", "tls", "sni", "cert", "reality", "path", "service"}
                            \cup When(c.type \in UuidTypes, {"uuid"}) \cup When(c.type = "vless", {"flow"})
                            \cup When(c.type = "shadowsocks", {"method"})))
              \cup (f.filled \cap (When(c.type \notin UuidTypes, {"uuid"}) \cup When(c.type # "shadowsocks", {"method"})))
<1>1. /\ c.type \in Protocols /\ c.transport \in Transports /\ c.keys \in SUBSET Keys
      /\ c.password \in Passwords /\ f.filled \in SUBSET Fields
  BY DEF Configs, Forms
<1>2. filled \in SUBSET Fields
  BY <1>1 DEF When, Fields, Keys
<1>3. /\ filled \subseteq c.keys \cup f.filled
      /\ c.keys \cap {"server", "username", "tls", "sni", "cert", "reality", "path", "service"} \subseteq filled
      /\ c.type \in UuidTypes => (c.keys \cap {"uuid"} \subseteq filled)
      /\ c.type = "vless" => (c.keys \cap {"flow"} \subseteq filled)
      /\ c.type = "shadowsocks" => (c.keys \cap {"method"} \subseteq filled)
  BY DEF When
<1>4. ConfigToFormValues(c, f) = Form(c.type, c.transport, filled, c.password)
  BY DEF ConfigToFormValues
<1> HIDE DEF filled
<1> QED
  BY <1>1, <1>2, <1>3, <1>4, FormOf

LEMMA DefaultsTyped ==
    /\ ProxyDefaults \in Forms /\ ProxyDefaults.filled = {}
    /\ NoConfig \in Configs
<1>3. Form("socks", "", {}, "none") \in Forms /\ Form("socks", "", {}, "none").filled = {}
  BY DEF Form, Forms, Protocols, Transports, Passwords
<1>4. Config("socks", "", {}, "none") \in Configs
  BY DEF Config, Configs, Protocols, Transports, Passwords
<1> QED
  BY <1>3, <1>4 DEF ProxyDefaults, NoConfig

LEMMA MaskFacts ==
    ASSUME NEW c \in Configs
    PROVE  /\ Mask(c) \in Configs /\ Mask(c).type = c.type /\ Mask(c).transport = c.transport /\ Mask(c).keys = c.keys
           /\ Mask(c).password \in {"none", "mask"}
  BY DEF Mask, Configs, Passwords

LEMMA LoadedFacts ==
    ASSUME NEW c \in Configs
    PROVE  /\ Loaded(c) \in Forms /\ Loaded(c).protocol = c.type /\ Loaded(c).transport = c.transport
           /\ c.password \in {"none", "mask"} => Loaded(c).password = "none"
           /\ Loaded(c).filled = ConfigToFormValues(c, ProxyDefaults).filled
<1> DEFINE f == ConfigToFormValues(c, ProxyDefaults)
<1>1. f \in Forms /\ f.protocol = c.type /\ f.transport = c.transport /\ f.password = c.password
  BY FilledFacts, DefaultsTyped
<1>2. Loaded(c) = [f EXCEPT !.password = IF @ = "mask" THEN "none" ELSE @]
  BY DEF Loaded
<1> HIDE DEF f
<1>3. /\ Loaded(c) \in Forms /\ Loaded(c).protocol = f.protocol /\ Loaded(c).transport = f.transport
      /\ Loaded(c).filled = f.filled /\ Loaded(c).password = IF f.password = "mask" THEN "none" ELSE f.password
  BY <1>1, <1>2 DEF Forms, Passwords
<1> QED
  BY <1>1, <1>3 DEF f

LEMMA LinksTyped ==
    ASSUME NEW p \in Protocols \ {"http"}, NEW link \in ParsedLinks(p)
    PROVE  link \in Forms /\ link.protocol = p /\ link.password \in {"none", "new"}
<1>1. PICK with \in Transports, filled \in SUBSET LinkFields(p):
          link = Form(p, with, filled, IF p \in UuidTypes THEN "none" ELSE "new")
  <2>1. PICK with \in LinkTransports(p),
             filled \in {LinkFields(p) \cap {"server", "uuid", "method"}, LinkFields(p) \ {"reality"}, LinkFields(p)}:
                link = Form(p, with, filled, IF p \in UuidTypes THEN "none" ELSE "new")
    BY DEF ParsedLinks
  <2>2. with \in Transports /\ filled \in SUBSET LinkFields(p)
    BY DEF Transports, LinkTransports
  <2> QED
    BY <2>1, <2>2
<1>2. LinkFields(p) \subseteq Fields
  BY DEF LinkFields, Fields, Protocols
<1>3. (IF p \in UuidTypes THEN "none" ELSE "new") \in {"none", "new"} /\ {"none", "new"} \subseteq Passwords
  BY DEF Passwords
<1> QED
  BY <1>1, <1>2, <1>3, FormOf

\* The fields that decide what a form shows are among those it shows.
LEMMA ShownDecidesAll ==
    ASSUME NEW f \in Forms, "reality" \in f.filled => f.protocol = "vless"
    PROVE  FormValuesToConfig(f) = FormValuesToConfig([f EXCEPT !.filled = @ \cap ShownFields(f)])
<1> DEFINE g == [f EXCEPT !.filled = @ \cap ShownFields(f)]
<1>1. /\ g \in Forms /\ g.protocol = f.protocol /\ g.transport = f.transport /\ g.password = f.password
      /\ g.filled = f.filled \cap ShownFields(f)
  BY DEF Forms
<1> HIDE DEF g
<1>2. SentTransport(g) = SentTransport(f) /\ SentPassword(g) = SentPassword(f)
  BY <1>1 DEF SentTransport, SentPassword
<1>3. SentKeys(g) = SentKeys(f)
  <2>1. \A x: x \in SentKeys(f) => x \in ShownFields(f) \/ x = "preset"
    BY DEF SentKeys, ShownFields, When, SentTransport, TransportTypes
  <2> QED
    BY <1>1, <1>2, <2>1 DEF SentKeys, When
<1>4. CASE "tls" \in f.filled /\ f.protocol \in TlsTypes
  <2>1. "tls" \in ShownFields(f) /\ "tls" \in g.filled
    BY <1>1, <1>4 DEF ShownFields, When
  <2>2. {"sni"} \subseteq ShownFields(f) /\ (f.protocol = "vless" => "reality" \in ShownFields(f))
        /\ ("reality" \notin f.filled => "cert" \in ShownFields(f))
    BY <1>4 DEF ShownFields, When
  <2>3. "reality" \in g.filled <=> "reality" \in f.filled
    BY <1>1, <2>2
  <2>4. TlsKeys(g) = TlsKeys(f)
    BY <1>1, <2>2, <2>3 DEF TlsKeys
  <2> QED
    BY <1>1, <1>2, <1>3, <1>4, <2>1, <2>4 DEF FormValuesToConfig, g
<1>5. CASE ~("tls" \in f.filled /\ f.protocol \in TlsTypes)
  <2>1. ~("tls" \in g.filled /\ g.protocol \in TlsTypes)
    BY <1>1, <1>5
  <2> QED
    BY <1>1, <1>2, <1>3, <1>5, <2>1 DEF FormValuesToConfig, When, g
<1> QED
  BY <1>4, <1>5

\* Derived from what was fetched, without a change of the user: a form, and a text.
Bound(c) == c.keys \cap ShownFields(Loaded(c))
FormKeeps(f, c) ==
    /\ f.protocol = c.type /\ (c.type \in TransportTypes => f.transport = c.transport)
    /\ f.password = "none" /\ f.filled \subseteq c.keys /\ Bound(c) \subseteq f.filled
TextKeeps(g, c) ==
    /\ g.type = c.type /\ (c.type \in TransportTypes => g.transport = c.transport)
    /\ g.password = "none" /\ g.keys \subseteq c.keys \cup {"preset"} /\ Bound(c) \subseteq g.keys

Plain   == {c \in Configs: c.password # "mask"}
Savings == [op: {"create", "edit"}, touched: BOOLEAN, from: SUBSET Configs, met: SUBSET Configs,
            is: {"sent", "merged", "done"}, config: Plain]

\* Types, with at most one of what is kept as a set.
FormTyped ==
    /\ saved \in Configs /\ saved.password \in {"none", "old", "theirs"}
    /\ known \subseteq Configs /\ \A c \in known: c.password \in {"none", "mask"}
    /\ \A c, d \in known: c = d
    /\ sheet \in {"closed", "create", "edit"} /\ form \in Forms
    /\ json \in [shown: BOOLEAN, is: {"empty", "garbage", "config"}, config: Configs]
    /\ touched \in BOOLEAN
    /\ saving \subseteq Savings /\ \A r, q \in saving: r = q
    /\ \A r \in saving: r.is = "sent" => r.met = {}
    /\ typings \in 0..MaxTyped /\ saves \in 0..MaxSaves /\ editors \in 0..MaxEditors

\* An edit not touched shows what was fetched, and sends it.
ShownIsKnown ==
    sheet = "edit" /\ ~touched =>
        \A c \in known: FormKeeps(form, c) /\ (json.shown => TextKeeps(json.config, c))
SentWasKnown ==
    \A r \in saving: r.op = "edit" /\ ~r.touched =>
        \A c \in r.from: /\ TextKeeps([r.config EXCEPT !.password = "none"], c)
                         /\ r.is = "sent" => r.config.password = "none"
                         /\ r.is = "merged" => \A d \in r.met: r.config.password = d.password

FormInv == FormTyped /\ ShownIsKnown /\ SentWasKnown

LEMMA FewOf == ASSUME NEW S, \A x, y \in S: x = y PROVE Cardinality(S) <= 1
<1>1. CASE S = {}
  BY <1>1, FS_EmptySet
<1>2. CASE \E x \in S: TRUE
  <2>1. PICK x \in S: TRUE
    BY <1>2
  <2>2. S = {x}
    BY <2>1
  <2> QED
    BY <2>2, FS_Singleton
<1> QED
  BY <1>1, <1>2

LEMMA FormShown == FormInv => FormTypeOK /\ ShownDecides
<1> SUFFICES ASSUME FormInv PROVE FormTypeOK /\ ShownDecides
  OBVIOUS
<1>1. Cardinality(known) <= 1 /\ Cardinality(saving) <= 1
  BY FewOf DEF FormInv, FormTyped
<1>2. FormTypeOK
  BY <1>1 DEF FormInv, FormTyped, FormTypeOK, Forms, Savings, Plain
<1>3. ShownDecides
  BY ShownDecidesAll DEF FormInv, FormTyped, ShownDecides
<1> QED
  BY <1>2, <1>3

LEMMA LoadedKeeps ==
    ASSUME NEW c \in Configs, c.password \in {"none", "mask"}
    PROVE  FormKeeps(Loaded(c), c)
<1>1. /\ Loaded(c).filled \subseteq c.keys
      /\ c.keys \cap {"server", "username", "tls", "sni", "cert", "reality", "path", "service"} \subseteq Loaded(c).filled
      /\ c.type \in UuidTypes => (c.keys \cap {"uuid"} \subseteq Loaded(c).filled)
      /\ c.type = "vless" => (c.keys \cap {"flow"} \subseteq Loaded(c).filled)
      /\ c.type = "shadowsocks" => (c.keys \cap {"method"} \subseteq Loaded(c).filled)
  BY LoadedFacts, FilledFacts, DefaultsTyped
<1>2. Bound(c) \subseteq Loaded(c).filled
  BY <1>1, LoadedFacts DEF Bound, ShownFields, When
<1> QED
  BY <1>1, <1>2, LoadedFacts DEF FormKeeps

LEMMA LoadedTls ==
    ASSUME NEW c \in Configs
    PROVE  \A x \in {"tls", "reality"}: x \in Loaded(c).filled <=> x \in c.keys
  BY LoadedFacts, FilledFacts, DefaultsTyped

LEMMA TextOfKeeps ==
    ASSUME NEW c \in Configs, NEW f \in Forms, FormKeeps(f, c)
    PROVE  TextKeeps(FormValuesToConfig(f), c)
<1> DEFINE l == Loaded(c)
           g == FormValuesToConfig(f)
<1>1. /\ g.type = f.protocol /\ g.transport = SentTransport(f) /\ g.password = SentPassword(f)
      /\ g.keys = SentKeys(f) \cup When("tls" \in f.filled /\ f.protocol \in TlsTypes, TlsKeys(f))
      /\ g.keys \subseteq f.filled \cup {"preset"}
  BY SentFacts
<1>2. l.protocol = c.type /\ l.transport = c.transport
  BY LoadedFacts
<1>3. ASSUME NEW x \in Bound(c) PROVE x \in g.keys
  <2>1. x \in f.filled /\ x \in c.keys /\ x \in ShownFields(l)
    BY <1>3 DEF FormKeeps, Bound
  <2>2. CASE x \in SentKeys(f)
    BY <1>1, <2>2
  <2>3. CASE x \notin SentKeys(f)
    <3>1. c.type \in TlsTypes
      BY <1>2, <2>1, <2>3 DEF ShownFields, When, SentKeys, FormKeeps, SentTransport
    <3>2. x \in {"tls", "sni", "reality", "cert"}
      BY <1>2, <2>1, <2>3 DEF ShownFields, When, SentKeys, FormKeeps, SentTransport
    <3>3. "tls" \in f.filled
      <4>1. CASE x = "tls"
        BY <2>1, <4>1
      <4>2. CASE x # "tls"
        <5>1. "tls" \in l.filled
          BY <2>1, <3>2, <4>2 DEF ShownFields, When, LoginTypes, UuidTypes
        <5>2. "tls" \in c.keys /\ "tls" \in ShownFields(l)
          BY <1>2, <3>1, <5>1, LoadedKeeps, LoadedTls DEF ShownFields, When
        <5> QED
          BY <5>2 DEF FormKeeps, Bound
      <4> QED
        BY <4>1, <4>2
    <3>4. x \in TlsKeys(f)
      <4>1. CASE x = "cert"
        <5>1. "reality" \notin l.filled
          BY <2>1, <4>1 DEF ShownFields, When
        <5>2. "reality" \notin c.keys
          BY <5>1, LoadedTls
        <5> QED
          BY <2>1, <4>1, <5>2 DEF TlsKeys, FormKeeps
      <4>2. CASE x = "reality"
        BY <2>1, <4>2 DEF TlsKeys
      <4>3. CASE x = "sni" \/ x = "tls"
        BY <2>1, <4>3 DEF TlsKeys
      <4> QED
        BY <3>2, <4>1, <4>2, <4>3
    <3> QED
      BY <1>1, <3>1, <3>3, <3>4 DEF When, FormKeeps
  <2> QED
    BY <2>2, <2>3
<1>4. g.password = "none"
  BY <1>1 DEF FormKeeps, SentPassword
<1>5. c.type \in TransportTypes => g.transport = c.transport
  BY <1>1 DEF FormKeeps, SentTransport
<1> QED
  BY <1>1, <1>3, <1>4, <1>5 DEF FormKeeps, TextKeeps

LEMMA FormOfKeeps ==
    ASSUME NEW c \in Configs, NEW g \in Configs, NEW f \in Forms, TextKeeps(g, c), FormKeeps(f, c)
    PROVE  FormKeeps(ConfigToFormValues(g, f), c)
<1> DEFINE h == ConfigToFormValues(g, f)
<1>1. /\ h.protocol = g.type /\ h.transport = g.transport /\ h.password = g.password
      /\ h.filled \subseteq g.keys \cup f.filled
      /\ g.keys \cap {"server", "username", "tls", "sni", "cert", "reality", "path", "service"} \subseteq h.filled
      /\ g.type \in UuidTypes => (g.keys \cap {"uuid"} \subseteq h.filled)
      /\ g.type = "vless" => (g.keys \cap {"flow"} \subseteq h.filled)
      /\ g.type = "shadowsocks" => (g.keys \cap {"method"} \subseteq h.filled)
  BY FilledFacts
<1>2. Loaded(c).protocol = c.type
  BY LoadedFacts
<1> HIDE DEF h
<1>3. ASSUME NEW x \in Bound(c) PROVE x \in h.filled
  <2>1. x \in g.keys /\ x \in ShownFields(Loaded(c)) /\ g.type = c.type
    BY <1>3 DEF TextKeeps, Bound
  <2> QED
    BY <1>1, <1>2, <2>1 DEF ShownFields, When
<1>4. h.filled \subseteq c.keys
  <2>1. h.filled \subseteq c.keys \cup {"preset"}
    BY <1>1 DEF FormKeeps, TextKeeps
  <2>2. "preset" \notin h.filled
    BY FilledFacts DEF h, Forms, Fields
  <2> QED
    BY <2>1, <2>2
<1> QED
  BY <1>1, <1>3, <1>4 DEF FormKeeps, TextKeeps, h

LEMMA FormAtFirst == FormInit => FormInv
<1> SUFFICES ASSUME FormInit PROVE FormInv
  OBVIOUS
<1>1. PICK p \in Protocols \ {"http"}: \E link \in ParsedLinks(p):
          saved \in {Stored(FormValuesToConfig(link)), AsTyped(Stored(FormValuesToConfig(link)))}
  BY DEF FormInit
<1>7. PICK link \in ParsedLinks(p):
          saved \in {Stored(FormValuesToConfig(link)), AsTyped(Stored(FormValuesToConfig(link)))}
  BY <1>1
<1>2. FormValuesToConfig(link) \in Configs /\ FormValuesToConfig(link).password \in {"none", "new"}
  BY LinksTyped, SentFacts DEF SentPassword
<1>8. Stored(FormValuesToConfig(link)) \in Configs /\ Stored(FormValuesToConfig(link)).password \in {"none", "old"}
  BY <1>2 DEF Stored, Configs, Passwords
<1>3. saved \in Configs /\ saved.password \in {"none", "old", "theirs"}
  BY <1>7, <1>8 DEF AsTyped, Configs, Keys
<1>4. json \in [shown: BOOLEAN, is: {"empty", "garbage", "config"}, config: Configs]
  BY DefaultsTyped DEF FormInit, HideText
<1>5. typings \in 0..MaxTyped /\ saves \in 0..MaxSaves /\ editors \in 0..MaxEditors
  BY FormAssumption DEF FormInit
<1>6. /\ known = {} /\ sheet = "closed" /\ form \in Forms /\ touched = FALSE /\ saving = {}
  BY DefaultsTyped DEF FormInit
<1> QED
  BY <1>3, <1>4, <1>5, <1>6 DEF FormInv, FormTyped, ShownIsKnown, SentWasKnown

\* The form filled anew.
LEMMA ResetTyped ==
    ASSUME NEW f \in Forms, ResetForm(f)
    PROVE  /\ form' = f /\ touched' = FALSE /\ json'.shown = FALSE
           /\ json' \in [shown: BOOLEAN, is: {"empty", "garbage", "config"}, config: Configs]
  BY DefaultsTyped DEF ResetForm, HideText

\* Steps that neither send nor type nor save.
LEMMA OpenCreateKeeps == FormInv /\ OpenCreateDrawer => FormInv'
<1> SUFFICES ASSUME FormInv, OpenCreateDrawer PROVE FormInv'
  OBVIOUS
<1>1. editors' \in 0..MaxEditors
  BY FormAssumption DEF FormInv, FormTyped, OpenCreateDrawer
<1> QED
  BY <1>1 DEF FormInv, FormTyped, ShownIsKnown, SentWasKnown, OpenCreateDrawer, Bound

LEMMA OpenEditKeeps == FormInv /\ OpenEditDrawer => FormInv'
<1> SUFFICES ASSUME FormInv, OpenEditDrawer PROVE FormInv'
  OBVIOUS
<1>1. editors' \in 0..MaxEditors /\ sheet' = "edit" /\ UNCHANGED <<saved, known, saving, typings, saves>>
  BY FormAssumption DEF FormInv, FormTyped, OpenEditDrawer
<1>2. CASE known = {}
  <2>1. UNCHANGED <<form, json, touched>>
    BY <1>2 DEF OpenEditDrawer, KeepForm
  <2> QED
    BY <1>1, <1>2, <2>1 DEF FormInv, FormTyped, ShownIsKnown, SentWasKnown
<1>3. CASE known # {}
  <2>1. PICK c \in known: ResetForm(Loaded(c))
    BY <1>3 DEF OpenEditDrawer
  <2>2. c \in Configs /\ Loaded(c) \in Forms /\ FormKeeps(Loaded(c), c)
    BY LoadedFacts, LoadedKeeps DEF FormInv, FormTyped
  <2>3. /\ form' = Loaded(c) /\ touched' = FALSE /\ json'.shown = FALSE
        /\ json' \in [shown: BOOLEAN, is: {"empty", "garbage", "config"}, config: Configs]
    BY <2>1, <2>2, ResetTyped
  <2>4. FormTyped'
    BY <1>1, <2>2, <2>3 DEF FormInv, FormTyped
  <2>5. ShownIsKnown'
    BY <1>1, <2>2, <2>3 DEF FormInv, FormTyped, ShownIsKnown
  <2> QED
    BY <1>1, <2>4, <2>5 DEF FormInv, SentWasKnown
<1> QED
  BY <1>2, <1>3

\* A drawer that closes, alone or with the answer.
LEMMA ShutKeeps ==
    ASSUME FormInv, Shut, saving' \subseteq saving, UNCHANGED <<saved, known, typings, saves, editors>>
    PROVE  FormInv'
<1>1. /\ form' \in Forms /\ touched' \in BOOLEAN
      /\ json' \in [shown: BOOLEAN, is: {"empty", "garbage", "config"}, config: Configs]
  <2>1. CASE sheet = "edit"
    BY <2>1, DefaultsTyped, ResetTyped DEF Shut
  <2>2. CASE sheet # "edit"
    BY <2>2 DEF Shut, KeepForm, FormInv, FormTyped
  <2> QED
    BY <2>1, <2>2
<1>2. sheet' = "closed"
  BY DEF Shut
<1> QED
  BY <1>1, <1>2 DEF FormInv, FormTyped, ShownIsKnown, SentWasKnown

LEMMA FetchAddressKeeps == FormInv /\ FetchAddress => FormInv'
<1> SUFFICES ASSUME FormInv, FetchAddress PROVE FormInv'
  OBVIOUS
<1> DEFINE c == Mask(saved)
<1>1. known' = {c} /\ sheet = "edit" /\ UNCHANGED <<saved, sheet, saving, typings, saves, editors>>
  BY DEF FetchAddress
<1>2. c \in Configs /\ c.password \in {"none", "mask"}
  BY MaskFacts DEF FormInv, FormTyped
<1> HIDE DEF c
<1>3. CASE ResetForm(Loaded(Mask(saved)))
  <2>1. Loaded(c) \in Forms /\ FormKeeps(Loaded(c), c)
    BY <1>2, LoadedFacts, LoadedKeeps
  <2>2. /\ form' = Loaded(c) /\ touched' = FALSE /\ json'.shown = FALSE
        /\ json' \in [shown: BOOLEAN, is: {"empty", "garbage", "config"}, config: Configs]
    BY <1>3, <2>1, ResetTyped DEF c
  <2>3. FormTyped'
    BY <1>1, <1>2, <2>1, <2>2 DEF FormInv, FormTyped
  <2>4. ShownIsKnown'
    BY <1>1, <2>1, <2>2 DEF ShownIsKnown
  <2> QED
    BY <1>1, <2>3, <2>4 DEF FormInv, SentWasKnown
<1>4. CASE known' = known /\ KeepForm
  BY <1>1, <1>4 DEF KeepForm, FormInv, FormTyped, ShownIsKnown, SentWasKnown
<1> QED
  BY <1>3, <1>4 DEF FetchAddress

LEMMA TypingKeeps ==
    ASSUME FormInv, Typing, form' \in Forms,
           json' \in [shown: BOOLEAN, is: {"empty", "garbage", "config"}, config: Configs]
    PROVE  FormInv'
<1>1. typings' \in 0..MaxTyped /\ touched' = TRUE /\ UNCHANGED <<saved, known, sheet, saving, saves, editors>>
  BY FormAssumption DEF FormInv, FormTyped, Typing
<1> QED
  BY <1>1 DEF FormInv, FormTyped, ShownIsKnown, SentWasKnown

LEMMA FieldsKeep ==
    ASSUME FormInv,
           \/ \E p \in Protocols: ChooseProtocol(p)
           \/ \E with \in Transports: ChooseTransport(with)
           \/ \E field \in Fields: TypeField(field)
           \/ TypePassword
           \/ \E p \in Protocols \ {"http"}: \E link \in ParsedLinks(p): HandleImport(link)
    PROVE  FormInv'
<1>1. form \in Forms /\ json \in [shown: BOOLEAN, is: {"empty", "garbage", "config"}, config: Configs]
  BY DEF FormInv, FormTyped
<1>2. ASSUME NEW p \in Protocols, ChooseProtocol(p) PROVE FormInv'
  BY <1>1, <1>2, TypingKeeps DEF ChooseProtocol, Forms
<1>3. ASSUME NEW with \in Transports, ChooseTransport(with) PROVE FormInv'
  BY <1>1, <1>3, TypingKeeps DEF ChooseTransport, Forms
<1>4. ASSUME NEW field \in Fields, TypeField(field) PROVE FormInv'
  <2>1. form' \in Forms
    <3>1. PICK filled \in SUBSET Fields: form' = [form EXCEPT !.filled = filled]
      <4> DEFINE filled == IF field \notin form.filled THEN form.filled \cup {field}
                           ELSE IF field = "tls" THEN form.filled \ {"tls", "reality"} ELSE form.filled \ {field}
      <4>1. filled \in SUBSET Fields
        BY <1>1 DEF Forms
      <4>2. form' = [form EXCEPT !.filled = filled]
        BY <1>4 DEF TypeField
      <4> QED
        BY <4>1, <4>2
    <3> QED
      BY <1>1, <3>1 DEF Forms
  <2> QED
    BY <1>1, <1>4, <2>1, TypingKeeps DEF TypeField
<1>5. ASSUME TypePassword PROVE FormInv'
  <2>1. form' \in Forms
    BY <1>1, <1>5 DEF TypePassword, Forms, Passwords
  <2> QED
    BY <1>1, <1>5, <2>1, TypingKeeps DEF TypePassword
<1>6. ASSUME NEW p \in Protocols \ {"http"}, NEW link \in ParsedLinks(p), HandleImport(link) PROVE FormInv'
  <2>1. link \in Forms
    BY LinksTyped
  <2>2. form' \in Forms
    BY <1>1, <1>6, <2>1 DEF HandleImport, Forms
  <2> QED
    BY <1>1, <1>6, <2>2, TypingKeeps DEF HandleImport
<1> QED
  BY <1>2, <1>3, <1>4, <1>5, <1>6

LEMMA TextKeepsInv == FormInv /\ TypeJson => FormInv'
<1> SUFFICES ASSUME FormInv, TypeJson PROVE FormInv'
  OBVIOUS
<1>1. form \in Forms /\ json \in [shown: BOOLEAN, is: {"empty", "garbage", "config"}, config: Configs]
  BY DEF FormInv, FormTyped
<1>2. json' \in [shown: BOOLEAN, is: {"empty", "garbage", "config"}, config: Configs]
  <2>1. ASSUME NEW is \in {"empty", "garbage"}, json' = [json EXCEPT !.is = is]
        PROVE  json' \in [shown: BOOLEAN, is: {"empty", "garbage", "config"}, config: Configs]
    BY <1>1, <2>1
  <2>2. ASSUME NEW c \in Configs, json' = [json EXCEPT !.is = "config", !.config = c]
        PROVE  json' \in [shown: BOOLEAN, is: {"empty", "garbage", "config"}, config: Configs]
    BY <1>1, <2>2
  <2>3. ASSUME NEW t \in Protocols, json' = [json EXCEPT !.is = "config", !.config.type = t]
        PROVE  \E c \in Configs: json' = [json EXCEPT !.is = "config", !.config = c]
    <3>1. [json.config EXCEPT !.type = t] \in Configs
      BY <1>1 DEF Configs
    <3> QED
      BY <2>3, <3>1
  <2>4. ASSUME NEW pwd \in {"none", "new", "mask"}, json' = [json EXCEPT !.is = "config", !.config.password = pwd]
        PROVE  \E c \in Configs: json' = [json EXCEPT !.is = "config", !.config = c]
    <3>1. [json.config EXCEPT !.password = pwd] \in Configs
      BY <1>1 DEF Configs, Passwords
    <3> QED
      BY <2>4, <3>1
  <2>5. ASSUME NEW k \in {"extra", "uuid"},
               json' = [json EXCEPT !.is = "config", !.config.keys = IF k \in @ THEN @ \ {k} ELSE @ \cup {k}]
        PROVE  \E c \in Configs: json' = [json EXCEPT !.is = "config", !.config = c]
    <3> DEFINE keys == IF k \in json.config.keys THEN json.config.keys \ {k} ELSE json.config.keys \cup {k}
    <3>1. keys \in SUBSET Keys
      BY <1>1 DEF Configs, Keys, Fields
    <3>2. json' = [json EXCEPT !.is = "config", !.config = [json.config EXCEPT !.keys = keys]]
      BY <2>5
    <3> HIDE DEF keys
    <3>3. [json.config EXCEPT !.keys = keys] \in Configs
      BY <1>1, <3>1 DEF Configs
    <3> QED
      BY <3>2, <3>3
  <2> QED
    BY <2>1, <2>2, <2>3, <2>4, <2>5 DEF TypeJson
<1> QED
  BY <1>1, <1>2, TypingKeeps DEF TypeJson

LEMMA ToJsonKeeps == FormInv /\ SwitchToJson => FormInv'
<1> SUFFICES ASSUME FormInv, SwitchToJson PROVE FormInv'
  OBVIOUS
<1>1. /\ UNCHANGED <<saved, known, sheet, form, touched, saving, typings, saves, editors>>
      /\ json' = [shown |-> TRUE, is |-> "config", config |-> FormValuesToConfig(form)]
  BY DEF SwitchToJson
<1>2. form \in Forms /\ FormValuesToConfig(form) \in Configs /\ known \subseteq Configs
  BY SentFacts DEF FormInv, FormTyped
<1>3. FormTyped'
  BY <1>1, <1>2 DEF FormInv, FormTyped
<1>4. ShownIsKnown'
  <2>1. \A c \in known: FormKeeps(form, c) => TextKeeps(FormValuesToConfig(form), c)
    BY <1>2, TextOfKeeps
  <2> QED
    BY <1>1, <2>1 DEF FormInv, ShownIsKnown
<1> QED
  BY <1>1, <1>3, <1>4 DEF FormInv, SentWasKnown

LEMMA ToFormKeeps == FormInv /\ SwitchToForm => FormInv'
<1> SUFFICES ASSUME FormInv, SwitchToForm PROVE FormInv'
  OBVIOUS
<1>1. /\ UNCHANGED <<saved, known, sheet, touched, saving, typings, saves, editors>>
      /\ json.shown /\ json' = [json EXCEPT !.shown = FALSE]
      /\ form' = IF json.is = "config" THEN ConfigToFormValues(json.config, form) ELSE form
  BY DEF SwitchToForm
<1>2. /\ form \in Forms /\ known \subseteq Configs
      /\ json \in [shown: BOOLEAN, is: {"empty", "garbage", "config"}, config: Configs]
  BY DEF FormInv, FormTyped
<1>3. form' \in Forms /\ json'.shown = FALSE
  BY <1>1, <1>2, FilledFacts
<1>4. FormTyped'
  BY <1>1, <1>2, <1>3 DEF FormInv, FormTyped
<1>5. ShownIsKnown'
  <2>1. \A c \in known: FormKeeps(form, c) /\ TextKeeps(json.config, c) => FormKeeps(form', c)
    BY <1>1, <1>2, FormOfKeeps
  <2> QED
    BY <1>1, <1>3, <2>1 DEF FormInv, ShownIsKnown
<1> QED
  BY <1>1, <1>4, <1>5 DEF FormInv, SentWasKnown

LEMMA SubmitKeeps == FormInv /\ OnSubmitProxy => FormInv'
<1> SUFFICES ASSUME FormInv, OnSubmitProxy PROVE FormInv'
  OBVIOUS
<1> DEFINE c == IF json.shown THEN json.config ELSE FormValuesToConfig(form)
           sentOf == [c EXCEPT !.password = IF @ = "mask" THEN "none" ELSE @]
           r == [op |-> sheet, touched |-> touched, from |-> known, met |-> {}, is |-> "sent", config |-> sentOf]
<1>1. /\ UNCHANGED <<saved, known, sheet, form, json, touched, typings, editors>>
      /\ saving' = {r} /\ sheet \in {"create", "edit"} /\ saves' \in 0..MaxSaves
  BY FormAssumption DEF OnSubmitProxy, FormInv, FormTyped
<1>2. /\ form \in Forms /\ json.config \in Configs /\ known \subseteq Configs /\ touched \in BOOLEAN /\ json.shown \in BOOLEAN
  BY DEF FormInv, FormTyped
<1>3. c \in Configs
  BY <1>2, SentFacts
<1>4. /\ sentOf \in Configs /\ sentOf.type = c.type /\ sentOf.transport = c.transport /\ sentOf.keys = c.keys
      /\ sentOf.password = IF c.password = "mask" THEN "none" ELSE c.password
  BY <1>3 DEF Configs, Passwords
<1>5. ASSUME sheet = "edit", ~touched, NEW d \in known
      PROVE  TextKeeps([sentOf EXCEPT !.password = "none"], d) /\ sentOf.password = "none"
  <2>1. FormKeeps(form, d) /\ (json.shown => TextKeeps(json.config, d))
    BY <1>5 DEF FormInv, ShownIsKnown
  <2>2. TextKeeps(c, d)
    BY <1>2, <2>1, TextOfKeeps
  <2> HIDE DEF c, sentOf
  <2>3. sentOf.password = "none"
    BY <1>4, <2>2 DEF TextKeeps
  <2>4. [sentOf EXCEPT !.password = "none"] = sentOf
    BY <1>4, <2>3 DEF Configs
  <2>5. TextKeeps(sentOf, d)
    BY <1>4, <2>2, <2>3 DEF TextKeeps
  <2> QED
    BY <2>3, <2>4, <2>5
<1> HIDE DEF sentOf, c
<1>6. r \in Savings
  BY <1>1, <1>2, <1>4 DEF Savings, Plain
<1>7. FormTyped'
  BY <1>1, <1>6 DEF FormInv, FormTyped
<1>8. SentWasKnown'
  BY <1>1, <1>5 DEF SentWasKnown
<1> QED
  BY <1>1, <1>7, <1>8 DEF FormInv, ShownIsKnown

\* The server's side.
LEMMA SavingFacts ==
    ASSUME FormInv, NEW r \in saving
    PROVE  /\ r \in Savings /\ r.config \in Configs /\ r.config.password # "mask"
           /\ saved \in Configs /\ saved.password \in {"none", "old", "theirs"}
BY DEF FormInv, FormTyped, Savings, Plain

\* A request that goes on, and all else as it was.
LEMMA GoesOn ==
    ASSUME FormInv, NEW r \in saving, NEW q \in Savings, saving' = {q}, q.op = r.op, q.touched = r.touched,
           q.from = r.from, [q.config EXCEPT !.password = "none"] = [r.config EXCEPT !.password = "none"],
           q.is # "sent",
           q.is = "merged" /\ r.config.password = "none" => \A d \in q.met: q.config.password = d.password,
           q.is = "merged" => r.is = "sent",
           saved' \in Configs, saved'.password \in {"none", "old", "theirs"},
           UNCHANGED <<known, sheet, form, json, touched, typings, saves, editors>>
    PROVE  FormInv'
<1>1. FormTyped'
  BY DEF FormInv, FormTyped
<1>2. ASSUME q.op = "edit", ~q.touched, NEW c \in q.from
      PROVE  /\ TextKeeps([q.config EXCEPT !.password = "none"], c)
             /\ q.is = "merged" => \A d \in q.met: q.config.password = d.password
  BY <1>2 DEF FormInv, SentWasKnown
<1>3. SentWasKnown'
  BY <1>2 DEF SentWasKnown
<1> QED
  BY <1>1, <1>3 DEF FormInv, ShownIsKnown

LEMMA MergeKeeps ==
    ASSUME FormInv, NEW r \in saving, MergeSaved(r) \/ MergeFails(r)
    PROVE  FormInv'
<1> DEFINE c == MergeProxyPassword(r.config)
<1>1. /\ r.is = "sent" /\ UNCHANGED <<saved, known, sheet, form, json, touched, typings, saves, editors>>
      /\ r \in Savings /\ r.config \in Configs /\ r.config.password # "mask"
      /\ saved \in Configs /\ saved.password \in {"none", "old", "theirs"}
  BY SavingFacts DEF MergeSaved, MergeFails
<1>2. CASE MergeSaved(r)
  <2> DEFINE q == [r EXCEPT !.is = "merged", !.met = {saved}, !.config = c]
  <2>1. saving' = {q}
    BY <1>2 DEF MergeSaved
  <2>2. /\ c \in Plain /\ [c EXCEPT !.password = "none"] = [r.config EXCEPT !.password = "none"]
        /\ r.config.password = "none" => c.password = saved.password
    BY <1>1 DEF MergeProxyPassword, Plain, Configs, Passwords
  <2> HIDE DEF c
  <2>3. /\ q \in Savings /\ q.op = r.op /\ q.touched = r.touched /\ q.from = r.from /\ q.config = c
        /\ q.is = "merged" /\ q.met = {saved}
    BY <1>1, <2>2 DEF Savings
  <2> HIDE DEF q
  <2>4. \A d \in q.met: d = saved
    BY <2>3
  <2> QED
    BY <1>1, <2>1, <2>2, <2>3, <2>4, GoesOn
<1>3. CASE MergeFails(r)
  <2> DEFINE q == [r EXCEPT !.is = "merged"]
  <2>1. saving' = {q}
    BY <1>3 DEF MergeFails
  <2>2. /\ q \in Savings /\ q.op = r.op /\ q.touched = r.touched /\ q.from = r.from /\ q.config = r.config
        /\ q.is = "merged" /\ q.met = r.met
    BY <1>1 DEF Savings
  <2> HIDE DEF q
  <2>3. r.met = {}
    BY <1>1 DEF FormInv, FormTyped
  <2> QED
    BY <1>1, <2>1, <2>2, <2>3, GoesOn
<1> QED
  BY <1>2, <1>3

LEMMA AnswersKeep ==
    ASSUME FormInv, NEW r \in saving, UpdateAddress(r) \/ CreateAddress(r)
    PROVE  FormInv'
<1> DEFINE q == [r EXCEPT !.is = "done"]
<1>1. saving' = {q} /\ UNCHANGED <<known, sheet, form, json, touched, typings, saves, editors>>
  BY DEF UpdateAddress, CreateAddress, Answer
<1>2. /\ r \in Savings /\ r.config \in Configs /\ r.config.password # "mask"
      /\ saved \in Configs /\ saved.password \in {"none", "old", "theirs"}
  BY SavingFacts
<1>3. /\ q \in Savings /\ q.op = r.op /\ q.touched = r.touched /\ q.from = r.from /\ q.config = r.config
      /\ q.is = "done"
  BY <1>2 DEF Savings
<1>4. saved' \in Configs /\ saved'.password \in {"none", "old", "theirs"}
  BY <1>2 DEF UpdateAddress, CreateAddress, Stored, Configs, Passwords
<1> HIDE DEF q
<1> QED
  BY <1>1, <1>3, <1>4, GoesOn

LEMMA OthersKeep == FormInv /\ OthersSave => FormInv'
<1> SUFFICES ASSUME FormInv, OthersSave PROVE FormInv'
  OBVIOUS
<1> DEFINE f == [Loaded(Mask(saved)) EXCEPT !.password = "theirs"]
<1>1. f \in Forms /\ f.password = "theirs"
  BY MaskFacts, LoadedFacts DEF FormInv, FormTyped, Forms, Passwords
<1>2. saved' = FormValuesToConfig(f) /\ UNCHANGED <<known, sheet, form, json, touched, saving, typings, saves, editors>>
  BY DEF OthersSave
<1> HIDE DEF f
<1>3. saved' \in Configs /\ saved'.password \in {"none", "theirs"}
  BY <1>1, <1>2, SentFacts DEF SentPassword
<1> QED
  BY <1>2, <1>3 DEF FormInv, FormTyped, ShownIsKnown, SentWasKnown

LEMMA AnsweredKeeps ==
    ASSUME FormInv, SaveFailed \/ \E r \in saving: SaveAnswered(r)
    PROVE  FormInv'
<1>1. saving' = {} /\ UNCHANGED <<saved, known, typings, saves, editors>>
  BY DEF SaveFailed, SaveAnswered
<1>2. CASE UNCHANGED <<sheet, form, json, touched>>
  BY <1>1, <1>2 DEF FormInv, FormTyped, ShownIsKnown, SentWasKnown
<1>3. CASE Shut
  BY <1>1, <1>3, ShutKeeps
<1> QED
  BY <1>2, <1>3 DEF SaveFailed, SaveAnswered, KeepForm

LEMMA FormStays == FormInv /\ [FormNext]_formVars => FormInv'
<1> SUFFICES ASSUME FormInv, [FormNext]_formVars PROVE FormInv'
  OBVIOUS
<1>1. CASE UNCHANGED formVars
  BY <1>1 DEF formVars, FormInv, FormTyped, ShownIsKnown, SentWasKnown
<1>2. CASE FormNext
  <2>1. CASE CloseEditor
    BY <2>1, ShutKeeps DEF CloseEditor
  <2>2. CASE OpenCreateDrawer \/ OpenEditDrawer \/ FetchAddress \/ TypeJson \/ SwitchToJson \/ SwitchToForm \/ OnSubmitProxy
    BY <2>2, OpenCreateKeeps, OpenEditKeeps, FetchAddressKeeps, TextKeepsInv, ToJsonKeeps, ToFormKeeps, SubmitKeeps
  <2>3. CASE \/ \E p \in Protocols: ChooseProtocol(p)
             \/ \E with \in Transports: ChooseTransport(with)
             \/ \E field \in Fields: TypeField(field)
             \/ TypePassword
             \/ \E p \in Protocols \ {"http"}: \E link \in ParsedLinks(p): HandleImport(link)
    BY <2>3, FieldsKeep
  <2>4. CASE \E r \in saving: UpdateAddress(r) \/ CreateAddress(r)
    BY <2>4, AnswersKeep
  <2>6. CASE OthersSave \/ \E r \in saving: MergeSaved(r) \/ MergeFails(r)
    BY <2>6, MergeKeeps, OthersKeep
  <2>5. CASE SaveFailed \/ \E r \in saving: SaveAnswered(r)
    BY <2>5, AnsweredKeeps
  <2> QED
    BY <1>2, <2>1, <2>2, <2>3, <2>4, <2>5, <2>6 DEF FormNext
<1> QED
  BY <1>1, <1>2

UntouchedKeeps(r) ==
    (/\ r.op = "edit" /\ r.is = "merged" /\ \E q \in saving': q.is = "done"
     /\ ~r.touched /\ r.from = {Mask(saved)} /\ r.met = {saved})
       => /\ saved'.type = saved.type /\ saved'.password = saved.password
          /\ saved.type \in TransportTypes => saved'.transport = saved.transport
          /\ saved'.keys \subseteq saved.keys \cup {"preset"}
          /\ saved.keys \cap ShownFields(Loaded(saved)) \subseteq saved'.keys

LEMMA SavedByUpdate ==
    ASSUME FormInv, FormNext, NEW r \in saving, r.op = "edit", r.is = "merged", NEW q \in saving', q.is = "done"
    PROVE  UpdateAddress(r)
<1>1. saving' # {} /\ saving' # saving
  BY DEF FormInv, FormTyped
<1>2. \A p \in saving: p = r
  BY DEF FormInv, FormTyped
<1>3. ~(OpenCreateDrawer \/ OpenEditDrawer \/ CloseEditor \/ FetchAddress \/ TypePassword \/ TypeJson \/ SwitchToJson
        \/ SwitchToForm \/ OnSubmitProxy \/ SaveFailed \/ OthersSave)
  BY <1>1 DEF OthersSave, OpenCreateDrawer, OpenEditDrawer, CloseEditor, FetchAddress, TypePassword, TypeJson, SwitchToJson,
              SwitchToForm, OnSubmitProxy, SaveFailed, Typing
<1>4. /\ \A p \in Protocols: ~ChooseProtocol(p)
      /\ \A with \in Transports: ~ChooseTransport(with)
      /\ \A field \in Fields: ~TypeField(field)
      /\ \A p \in Protocols \ {"http"}: \A link \in ParsedLinks(p): ~HandleImport(link)
  BY <1>1 DEF ChooseProtocol, ChooseTransport, TypeField, HandleImport, Typing
<1>5. \A p \in saving: ~SaveAnswered(p) /\ ~CreateAddress(p) /\ ~MergeSaved(p) /\ ~MergeFails(p)
  BY <1>1, <1>2 DEF SaveAnswered, CreateAddress, MergeSaved, MergeFails
<1> QED
  BY <1>2, <1>3, <1>4, <1>5 DEF FormNext

LEMMA ShownOfMask == ASSUME NEW c \in Configs PROVE ShownFields(Loaded(Mask(c))) = ShownFields(Loaded(c))
<1>1. /\ Mask(c) \in Configs /\ Mask(c).type = c.type /\ Mask(c).transport = c.transport /\ Mask(c).keys = c.keys
  BY MaskFacts
<1>2. /\ Loaded(c).protocol = c.type /\ Loaded(Mask(c)).protocol = c.type
      /\ Loaded(c).transport = c.transport /\ Loaded(Mask(c)).transport = c.transport
  BY <1>1, LoadedFacts
<1>3. \A x \in {"tls", "reality"}: x \in Loaded(c).filled <=> x \in Loaded(Mask(c)).filled
  BY <1>1, LoadedTls
<1> QED
  BY <1>2, <1>3 DEF ShownFields, When

LEMMA UntouchedStep ==
    ASSUME FormInv, [FormNext]_formVars, NEW r \in saving
    PROVE  UntouchedKeeps(r)
<1> SUFFICES ASSUME r.op = "edit", r.is = "merged", NEW q \in saving', q.is = "done", ~r.touched,
                    r.from = {Mask(saved)}, r.met = {saved}
             PROVE  /\ saved'.type = saved.type /\ saved'.password = saved.password
                    /\ saved.type \in TransportTypes => saved'.transport = saved.transport
                    /\ saved'.keys \subseteq saved.keys \cup {"preset"}
                    /\ saved.keys \cap ShownFields(Loaded(saved)) \subseteq saved'.keys
  BY DEF UntouchedKeeps
<1> DEFINE c == Mask(saved)
<1>1. FormNext
  BY DEF FormInv, FormTyped, formVars
<1>2. UpdateAddress(r)
  BY <1>1, SavedByUpdate
<1>3. TextKeeps([r.config EXCEPT !.password = "none"], c) /\ r.config.password = saved.password
  BY DEF FormInv, SentWasKnown
<1>4. /\ saved'.type = r.config.type /\ saved'.transport = r.config.transport /\ saved'.keys = r.config.keys
      /\ saved'.password = r.config.password
  BY <1>2, <1>3, SavingFacts DEF UpdateAddress, Stored, Configs
<1>8. LET g == [r.config EXCEPT !.password = "none"]
      IN  g.type = r.config.type /\ g.transport = r.config.transport /\ g.keys = r.config.keys
  BY SavingFacts DEF Configs
<1>5. saved \in Configs
  BY DEF FormInv, FormTyped
<1>6. c.type = saved.type /\ c.transport = saved.transport /\ c.keys = saved.keys
  BY <1>5, MaskFacts
<1>7. ShownFields(Loaded(c)) = ShownFields(Loaded(saved))
  BY <1>5, ShownOfMask
<1> HIDE DEF c
<1> QED
  BY <1>3, <1>4, <1>6, <1>7, <1>8 DEF TextKeeps, Bound

-----------------------------------------------------------------------------
(* Side by side: one of them runs, the others rest where they began.       *)

DataInv == CacheInv /\ FormInv /\ TestsInv /\ UsersInv

LEMMA DataAtFirst == DataScreensInit => DataInv
  BY CacheAtFirst, FormAtFirst, TestsAtFirst, UsersAtFirst DEF DataScreensInit, DataInv

LEMMA DataSteps ==
    ASSUME [DataScreensNext]_dataScreensVars
    PROVE  [CacheNext]_cacheVars /\ [FormNext]_formVars /\ [TestsNext]_testVars /\ [UsersNext]_userVars
  BY DEF DataScreensNext, dataScreensVars

LEMMA DataStays == DataInv /\ [DataScreensNext]_dataScreensVars => DataInv'
<1> SUFFICES ASSUME DataInv, [DataScreensNext]_dataScreensVars PROVE DataInv'
  OBVIOUS
<1> QED
  BY DataSteps, CacheStays, FormStays, TestsStay, UsersStay DEF DataInv

LEMMA DataShown == DataInv => DataScreensTypeOK /\ OwnWritesShown /\ ShownDecides /\ StateFollowsStream /\ SecretsReach
<1>1. CacheInv => CacheTypeOK
  BY DEF CacheInv
<1> QED
  BY <1>1, CacheShown, FormShown, TestsShown, UsersShown DEF DataInv, DataScreensTypeOK

LEMMA DataAlways == DataScreensSpec => []DataInv
  BY DataAtFirst, DataStays, PTL DEF DataScreensSpec

(* The types of the queries, the drawer, the tests and the pages of users, *)
(* whatever is done on them and however often.                             *)
THEOREM DataScreensTyping == DataScreensSpec => []DataScreensTypeOK
  BY DataAlways, DataShown, PTL

(* What a mutation has outdated on a page that is shown, and no poll brings*)
(* back, is on its way again once the mutation has succeeded: however many *)
(* pages are visited, mutations sent and answers lost.  Only the pairs that*)
(* no hook repairs are left out.                                           *)
THEOREM OwnWritesReturn == DataScreensSpec => []OwnWritesShown
  BY DataAlways, DataShown, PTL

(* A field that is not on the screen does not reach the configuration that *)
(* the form of an address sends, except for reality.                       *)
THEOREM HiddenFieldsStay == DataScreensSpec => []ShownDecides
  BY DataAlways, DataShown, PTL

(* An edit of an address in which nothing was changed, in the form, in the *)
(* text or between them, changes neither the protocol nor the password,    *)
(* loses only what the form does not show and adds only what it writes     *)
(* unasked, when the server could read the row and no other operator wrote *)
(* it between that and the write.                                          *)
THEOREM UntouchedSaved == DataScreensSpec => UntouchedSaveKeeps
<1>1. ASSUME DataInv, [DataScreensNext]_dataScreensVars PROVE \A r \in saving: UntouchedKeeps(r)
  <2>1. FormInv /\ [FormNext]_formVars
    BY <1>1, DataSteps DEF DataInv
  <2> QED
    BY <2>1, UntouchedStep
<1>2. ASSUME DataInv, [DataScreensNext]_dataScreensVars
      PROVE  [\A r \in saving:
                (/\ r.op = "edit" /\ r.is = "merged" /\ \E q \in saving': q.is = "done"
                 /\ ~r.touched /\ r.from = {Mask(saved)} /\ r.met = {saved})
                  => /\ saved'.type = saved.type /\ saved'.password = saved.password
                     /\ saved.type \in TransportTypes => saved'.transport = saved.transport
                     /\ saved'.keys \subseteq saved.keys \cup {"preset"}
                     /\ saved.keys \cap ShownFields(Loaded(saved)) \subseteq saved'.keys]_formVars
  BY <1>1, <1>2 DEF UntouchedKeeps
<1> QED
  BY <1>2, DataAlways, PTL DEF DataScreensSpec, UntouchedSaveKeeps

(* An address is shown as being tested exactly while the stream of its     *)
(* newest test is open or has ended without a word; a result the hook shows*)
(* as done is the newest test's, and every result on the screen is that of *)
(* a test of that very address: for any addresses and tests.               *)
THEOREM TestsFollow == DataScreensSpec => []StateFollowsStream
  BY DataAlways, DataShown, PTL

(* What is generated once reaches the administrator: an answer the page has*)
(* heard was shown, or waits in its dialog; and what was heard is what the *)
(* server checks, until another request writes it.  For any number of      *)
(* requests, answers lost and pages left.                                  *)
THEOREM SecretsKept == DataScreensSpec => []SecretsReach
  BY DataAlways, DataShown, PTL
=============================================================================
