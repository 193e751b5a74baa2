------------------------ MODULE BypassSnapshotProofs ------------------------
(***************************************************************************)
(* Proofs about the snapshots of one host, for any number of requests,     *)
(* goroutines, rows and faults: the types, and that the three parts of a   *)
(* rule set agree where a goroutine has reason to think so.                *)
(***************************************************************************)
EXTENDS BypassSnapshot, WellFoundedInduction, TLAPS

-----------------------------------------------------------------------------
(* The highest of some bounded numbers.                                    *)

LEMMA Downwards == IsWellFoundedOn({p \in Nat \X Nat : p[1] < p[2]}, Nat)
BY NatLessThanWellFounded DEF OpToRel

LEMMA Largest ==
    ASSUME NEW S, S \subseteq Nat, S # {}, NEW n \in Nat, \A v \in S: v <= n
    PROVE  \E m \in S: \A v \in S: v <= m
<1> DEFINE R == {p \in Nat \X Nat : p[1] < p[2]}
           T == {n - v : v \in S}
<1>1. T \subseteq Nat /\ T # {}
  <2>1. \A v \in S: n - v \in Nat
    OBVIOUS
  <2> QED
    BY <2>1
<1>2. PICK x \in T: \A y \in T: ~(<<y, x>> \in R)
  <2> HIDE DEF T
  <2> QED
    BY <1>1, WFMin, Downwards
<1>3. \A y \in T: x <= y
  <2> SUFFICES ASSUME NEW y \in T, ~(x <= y) PROVE FALSE
    OBVIOUS
  <2>1. x \in Nat /\ y \in Nat
    BY <1>1
  <2>2. <<y, x>> \in R
    BY <2>1
  <2> QED
    BY <1>2, <2>2
<1>4. PICK m \in S: x = n - m
  OBVIOUS
<1>5. \A v \in S: n - m <= n - v
  BY <1>3, <1>4
<1>6. \A v \in S: v <= m
  <2>1. \A v \in S: v \in Nat
    OBVIOUS
  <2> QED
    BY <1>5, <2>1
<1> QED
  BY <1>6

-----------------------------------------------------------------------------
(* Rows, requests and goroutines.                                          *)

Marks  == {"pending", "applied", "failed", "rolled_back"}
Rows   == [version: Nat \ {0}, config: Configs, plain: BOOLEAN, status: Marks]
Asked  == [pc: {"idle", "current", "version", "insert", "dispatch"}, op: {"apply", "rollback"},
           config: Configs \cup {Blank}, version: Nat, snap: Nat]
Jobs   == [pc: {"idle", "find", "health", "mark"} \cup Parts, kind: {"reload", "rollback", "prepare"},
           snap: Nat, use: Nat, sound: BOOLEAN]

\* A version is at most the number of rows: the next one is one more than the highest.
RowsOK ==
    /\ snaps \in Seq(Rows) /\ Len(snaps) <= MaxSnapshots
    /\ \A i \in Ids: snaps[i].version <= Len(snaps)

RequestOK(q) ==
    /\ q.pc \in {"current", "version", "insert"} => q.config \in Configs
    /\ q.pc \in {"current", "dispatch"} => q.snap \in Ids
    /\ q.pc = "insert" => q.version \in 1..(Len(snaps) + 1)

\* Only a rollback may have found no row to go back to.
JobOK(j, ids) ==
    /\ j.pc # "idle" /\ j.kind # "prepare" => j.snap \in ids
    /\ j.pc \in Parts \cup {"health"} => j.use \in ids
    /\ j.pc = "mark" => j.use \in ids \cup {0}
    /\ j.pc \in {"health", "mark"} => j.kind # "prepare"
    /\ j.pc = "health" => j.kind = "reload"
    /\ j.pc # "idle" /\ j.kind = "reload" => j.use = j.snap /\ j.pc # "find"

RequestsOK == req \in [Handlers -> Asked] /\ \A a \in Handlers: RequestOK(req[a])
JobsOK     == job \in [Slots -> Jobs] /\ \A t \in Slots: JobOK(job[t], Ids)

Types ==
    /\ RowsOK /\ RequestsOK /\ JobsOK
    /\ up \in BOOLEAN /\ box \in [Parts -> Configs \cup {Blank}]
    /\ faults \in 0..MaxFaults /\ live \in {"recorded", "older", "unknown"}

\* Rows are never removed, and of a row only the status changes.
Grown ==
    /\ Len(snaps) \in Nat /\ Len(snaps)' \in Nat /\ Len(snaps) <= Len(snaps)'
    /\ Ids = 1..Len(snaps) /\ Ids' = 1..Len(snaps)'
    /\ \A i \in Ids: i \in Ids' /\ snaps'[i].config = snaps[i].config /\ snaps'[i].version = snaps[i].version

LEMMA RowFacts ==
    ASSUME RowsOK
    PROVE  /\ snaps \in Seq(Rows) /\ Len(snaps) \in Nat /\ Ids = 1..Len(snaps)
           /\ \A i \in Ids: /\ i \in Nat /\ snaps[i] \in Rows /\ snaps[i].config \in Configs
                            /\ snaps[i].version \in Nat \ {0} /\ snaps[i].version <= Len(snaps)
<1>1. snaps \in Seq(Rows) /\ Len(snaps) \in Nat /\ Ids = 1..Len(snaps)
  BY DEF RowsOK, Ids
<1>2. \A i \in Ids: i \in Nat /\ snaps[i] \in Rows
  BY <1>1
<1> QED
  BY <1>1, <1>2 DEF RowsOK, Rows

LEMMA RowsGrow ==
    ASSUME Types, [Next]_vars
    PROVE  RowsOK' /\ Grown
<1>1. snaps \in Seq(Rows) /\ Len(snaps) \in Nat /\ Ids = 1..Len(snaps)
  BY DEF Types, RowsOK, Ids
<1>2. CASE snaps' = snaps
  BY <1>1, <1>2 DEF Types, RowsOK, Grown, Ids
<1>3. CASE \E a \in Handlers: InsertSnapshot(a)
  <2>1. PICK a \in Handlers: InsertSnapshot(a)
    BY <1>3
  <2> DEFINE row == [version |-> req[a].version, config |-> req[a].config,
                     plain |-> req[a].op = "apply", status |-> "pending"]
  <2>2. req[a] \in Asked /\ RequestOK(req[a]) /\ req[a].pc = "insert"
    BY <2>1 DEF Types, RequestsOK, InsertSnapshot
  <2>3. row \in Rows /\ row.version <= Len(snaps) + 1
    BY <1>1, <2>2 DEF RequestOK, Asked, Rows, Marks
  <2>4. snaps' = Append(snaps, row) /\ Len(snaps) < MaxSnapshots
    BY <2>1 DEF InsertSnapshot
  <2> HIDE DEF row
  <2>5. snaps' \in Seq(Rows) /\ Len(snaps') = Len(snaps) + 1 /\ snaps'[Len(snaps) + 1] = row
        /\ \A i \in 1..Len(snaps): snaps'[i] = snaps[i]
    BY <1>1, <2>3, <2>4
  <2>6. Len(snaps') <= MaxSnapshots
    BY <1>1, <2>4, <2>5, BypassAssumption
  <2>7. \A i \in 1..Len(snaps'): snaps'[i].version <= Len(snaps')
    <3> SUFFICES ASSUME NEW i \in 1..Len(snaps') PROVE snaps'[i].version <= Len(snaps')
      OBVIOUS
    <3>1. CASE i = Len(snaps) + 1
      BY <1>1, <2>3, <2>5, <3>1
    <3>2. CASE i \in 1..Len(snaps)
      <4>1. snaps[i].version <= Len(snaps) /\ snaps[i].version \in Nat
        BY <1>1, <3>2, RowFacts DEF Types
      <4> QED
        BY <1>1, <2>5, <3>2, <4>1
    <3> QED
      BY <1>1, <2>5, <3>1, <3>2
  <2>8. RowsOK'
    BY <2>5, <2>6, <2>7 DEF RowsOK, Ids
  <2> QED
    BY <1>1, <2>5, <2>8 DEF Grown, Ids
<1>4. CASE \E t \in Slots: MarkSnapshot(t)
  <2>1. PICK t \in Slots: MarkSnapshot(t)
    BY <1>4
  <2>2. job[t] \in Jobs /\ JobOK(job[t], Ids) /\ job[t].pc = "mark"
    BY <2>1 DEF Types, JobsOK, MarkSnapshot
  <2> DEFINE k == job[t].snap
             m == Verdict(job[t])
  <2>3. k \in 1..Len(snaps) /\ m \in Marks
    BY <1>1, <2>2 DEF JobOK, Verdict, Marks
  <2>4. snaps' = [snaps EXCEPT ![k].status = m]
    BY <2>1 DEF MarkSnapshot
  <2>5. snaps[k] \in Rows
    BY <1>1, <2>3
  <2> HIDE DEF k, m
  <2>6. [snaps[k] EXCEPT !.status = m] \in Rows /\ [snaps[k] EXCEPT !.status = m].config = snaps[k].config
        /\ [snaps[k] EXCEPT !.status = m].version = snaps[k].version
    BY <2>3, <2>5 DEF Rows
  <2>7. snaps' \in Seq(Rows) /\ Len(snaps') = Len(snaps)
    BY <1>1, <2>3, <2>4, <2>6
  <2>8. \A i \in 1..Len(snaps): snaps'[i].config = snaps[i].config /\ snaps'[i].version = snaps[i].version
    BY <1>1, <2>3, <2>4, <2>6
  <2> QED
    BY <1>1, <2>7, <2>8 DEF Types, RowsOK, Grown, Ids
<1>5. snaps' = snaps \/ (\E a \in Handlers: InsertSnapshot(a)) \/ (\E t \in Slots: MarkSnapshot(t))
  BY DEF Next, Handle, Work, ContainerStops, ContainerStarts, Restart, ApplyRender, RollbackTarget, RollbackCurrent,
         CurrentUnread, NextVersion, FindByConfigHash, InsertFails, QueueReload, QueueReloadFails, Prepare, FindLatest,
         FindFails, NothingToReapply, WritePart, WriteFails, Healthy, HealthExhausted, MarkLost, vars
<1> QED
  BY <1>2, <1>3, <1>4, <1>5
LEMMA NextIsBounded ==
    ASSUME RowsOK
    PROVE  (IF Ids = {} THEN 1 ELSE 1 + snaps[CHOOSE i \in Highest(Ids) : TRUE].version) \in 1..(Len(snaps) + 1)
<1>1. snaps \in Seq(Rows) /\ Len(snaps) \in Nat /\ Ids = 1..Len(snaps)
  BY DEF RowsOK, Ids
<1>2. CASE Ids = {}
  BY <1>1, <1>2
<1>3. CASE Ids # {}
  <2> DEFINE S == {snaps[i].version : i \in Ids}
  <2>1. \A i \in Ids: snaps[i].version \in Nat \ {0} /\ snaps[i].version <= Len(snaps)
    BY RowFacts
  <2>2. S \subseteq Nat /\ S # {} /\ \A v \in S: v <= Len(snaps)
    BY <1>3, <2>1
  <2>3. PICK m \in S: \A v \in S: v <= m
    <3> HIDE DEF S
    <3> QED
      BY <1>1, <2>2, Largest
  <2>4. PICK i \in Ids: i \in Highest(Ids)
    BY <2>3 DEF Highest
  <2>5. (CHOOSE k \in Highest(Ids) : TRUE) \in Ids
    BY <2>4 DEF Highest
  <2> QED
    BY <1>1, <1>3, <2>1, <2>5
<1> QED
  BY <1>2, <1>3

LEMMA RequestsKept ==
    ASSUME Types, [Next]_vars
    PROVE  RequestsOK'
<1>1. RowsOK' /\ Grown
  BY RowsGrow
<1>2. req \in [Handlers -> Asked] /\ \A a \in Handlers: RequestOK(req[a])
  BY DEF Types, RequestsOK
<1>3. ASSUME NEW q \in Asked, RequestOK(q) PROVE RequestOK(q)'
  BY <1>1, <1>3 DEF RequestOK, Grown, Asked
<1>4. NoReq \in Asked /\ NoReq.pc = "idle"
  BY DEF NoReq, Asked
<1>5. ASSUME NEW a \in Handlers, NEW q \in Asked, RequestOK(q)', req' = [req EXCEPT ![a] = q]
      PROVE  RequestsOK'
  BY <1>2, <1>3, <1>5 DEF RequestsOK
<1>6. ASSUME NEW a \in Handlers, Answer(a) PROVE RequestsOK'
  BY <1>2, <1>3, <1>4, <1>6 DEF Answer, RequestsOK, RequestOK
<1>7. CASE req' = req
  BY <1>2, <1>3, <1>7 DEF RequestsOK
<1>8. CASE req' = [a \in Handlers |-> NoReq]
  BY <1>4, <1>8 DEF RequestsOK, RequestOK
<1>9. CASE \E a \in Handlers: ApplyRender(a)
  <2>1. PICK a \in Handlers, c \in Configs: req' = [req EXCEPT ![a].pc = "version", ![a].config = c]
    BY <1>9 DEF ApplyRender
  <2> DEFINE q == [req[a] EXCEPT !.pc = "version", !.config = c]
  <2>2. q \in Asked /\ q.pc = "version" /\ q.config = c
    BY <1>2 DEF Asked
  <2>3. req' = [req EXCEPT ![a] = q]
    BY <1>2, <2>1 DEF Asked
  <2> HIDE DEF q
  <2> QED
    BY <1>5, <2>2, <2>3 DEF RequestOK
<1>10. CASE \E a \in Handlers: RollbackTarget(a)
  <2>1. PICK a \in Handlers, i \in Applied:
          /\ req' = [req EXCEPT ![a] = [pc |-> "current", op |-> "rollback",
                        config |-> snaps[i].config, version |-> 0, snap |-> i]]
          /\ snaps' = snaps
    BY <1>10 DEF RollbackTarget
  <2>2. i \in Ids /\ i \in Nat /\ snaps[i].config \in Configs
    BY RowFacts DEF Applied, Types
  <2> DEFINE q == [pc |-> "current", op |-> "rollback", config |-> snaps[i].config, version |-> 0, snap |-> i]
  <2>3. q \in Asked /\ q.pc = "current" /\ q.config \in Configs /\ q.snap = i
    BY <2>2 DEF Asked
  <2> HIDE DEF q
  <2>4. q.snap \in Ids' /\ req' = [req EXCEPT ![a] = q]
    BY <1>1, <2>1, <2>2, <2>3 DEF Grown, q
  <2> QED
    BY <1>5, <2>3, <2>4 DEF RequestOK
<1>11. CASE \E a \in Handlers: RollbackCurrent(a) \/ CurrentUnread(a)
  <2>1. PICK a \in Handlers: RollbackCurrent(a) \/ CurrentUnread(a)
    BY <1>11
  <2>2. CASE Answer(a)
    BY <1>6, <2>2
  <2>3. CASE req' = [req EXCEPT ![a].pc = "version"]
    <3> DEFINE q == [req[a] EXCEPT !.pc = "version"]
    <3>1. req[a].pc = "current" /\ req[a].config \in Configs
      BY <1>2, <2>1 DEF RollbackCurrent, CurrentUnread, RequestOK
    <3>2. q \in Asked /\ q.pc = "version" /\ q.config = req[a].config
      BY <1>2 DEF Asked
    <3>3. req' = [req EXCEPT ![a] = q]
      BY <1>2, <2>3 DEF Asked
    <3> HIDE DEF q
    <3> QED
      BY <1>5, <3>1, <3>2, <3>3 DEF RequestOK
  <2> QED
    BY <2>1, <2>2, <2>3 DEF RollbackCurrent, CurrentUnread
<1>12. CASE \E a \in Handlers: NextVersion(a)
  <2>1. PICK a \in Handlers: NextVersion(a)
    BY <1>12
  <2> DEFINE v == IF Ids = {} THEN 1 ELSE 1 + snaps[CHOOSE i \in Highest(Ids) : TRUE].version
             q == [req[a] EXCEPT !.pc = "insert", !.version = v]
  <2>2. v \in 1..(Len(snaps) + 1)
    BY NextIsBounded DEF Types
  <2>3. req[a].pc = "version" /\ req[a].config \in Configs /\ snaps' = snaps
    BY <1>2, <2>1 DEF NextVersion, RequestOK
  <2> HIDE DEF v
  <2>7. v \in Nat /\ req[a] \in Asked
    BY <1>1, <1>2, <2>2 DEF Grown
  <2>4. q \in Asked /\ q.pc = "insert" /\ q.config = req[a].config /\ q.version = v
    BY <2>7 DEF Asked
  <2>5. req' = [req EXCEPT ![a].pc = "insert", ![a].version = v]
    BY <2>1 DEF NextVersion, v
  <2>6. req' = [req EXCEPT ![a] = q]
    BY <1>2, <2>5 DEF Asked
  <2> HIDE DEF q
  <2> QED
    BY <1>5, <2>2, <2>3, <2>4, <2>6 DEF RequestOK
<1>13. CASE \E a \in Handlers: InsertSnapshot(a) \/ FindByConfigHash(a)
  <2>1. PICK a \in Handlers: InsertSnapshot(a) \/ FindByConfigHash(a)
    BY <1>13
  <2> DEFINE Sent(n) == [req EXCEPT ![a].pc = "dispatch", ![a].snap = n]
  <2>2. PICK k \in Nat: k \in Ids' /\ req' = Sent(k)
    <3>1. CASE InsertSnapshot(a)
      <4>1. Len(snaps') = Len(snaps) + 1
        BY <1>1, <3>1 DEF InsertSnapshot, Types, RowsOK
      <4>2. Len(snaps) + 1 \in Nat /\ Len(snaps) + 1 \in Ids'
        BY <1>1, <4>1 DEF Grown
      <4>3. req' = Sent(Len(snaps) + 1)
        BY <3>1 DEF InsertSnapshot
      <4> HIDE DEF Sent
      <4> QED
        BY <4>2, <4>3
    <3>2. CASE FindByConfigHash(a)
      <4>1. PICK i \in Ids: req' = Sent(i)
        BY <3>2 DEF FindByConfigHash, SameHash
      <4> HIDE DEF Sent
      <4> QED
        BY <1>1, <4>1 DEF Grown
    <3> QED
      BY <2>1, <3>1, <3>2
  <2> DEFINE q == [req[a] EXCEPT !.pc = "dispatch", !.snap = k]
  <2>3. q \in Asked /\ q.pc = "dispatch" /\ q.snap = k
    BY <1>2 DEF Asked
  <2>4. req' = [req EXCEPT ![a] = q]
    BY <1>2, <2>2 DEF Asked
  <2> HIDE DEF q
  <2> QED
    BY <1>5, <2>2, <2>3, <2>4 DEF RequestOK
<1>14. CASE \E a \in Handlers: Answer(a)
  BY <1>6, <1>14
<1> QED
  BY <1>7, <1>8, <1>9, <1>10, <1>11, <1>12, <1>13, <1>14
  DEF Next, Handle, Work, ContainerStops, ContainerStarts, Restart,
      InsertFails, QueueReload, QueueReloadFails, Prepare, FindLatest, FindFails,
      NothingToReapply, WritePart, WriteFails, Healthy, HealthExhausted, MarkSnapshot, MarkLost, vars
-----------------------------------------------------------------------------
(* What a step does to the goroutines.                                     *)

\* Goroutine t goes on as j, alone in its step.
Goes(t, j) == t \in Slots /\ j \in Jobs /\ JobOK(j, Ids') /\ job' = [job EXCEPT ![t] = j]

\* The steps of a goroutine after its start, each with what it becomes.
FindStep(t) ==
    /\ job[t].pc = "find" /\ UNCHANGED <<snaps, up, box, live>>
    /\ \/ \E i \in GetLatestApplied: Goes(t, [job[t] EXCEPT !.pc = "nft", !.use = i])
       \/ job[t].kind = "rollback" /\ Goes(t, [job[t] EXCEPT !.pc = "mark", !.use = 0])

PartStep(t) ==
    /\ job[t].pc \in Parts /\ UNCHANGED <<snaps, up>>
    /\ box' = [box EXCEPT ![job[t].pc] = snaps[job[t].use].config]
    /\ \/ /\ job[t].pc \in {"nft", "cidrs"} /\ live' = live
          /\ Goes(t, [job[t] EXCEPT !.pc = IF job[t].pc = "nft" THEN "cidrs" ELSE "domains"])
       \/ /\ job[t].pc = "domains" /\ job[t].kind \in {"reload", "rollback"} /\ live' = live
          /\ Goes(t, [job[t] EXCEPT !.pc = IF job[t].kind = "reload" THEN "health" ELSE "mark"])
       \/ /\ job[t].pc = "domains" /\ job[t].kind = "prepare"
          /\ Finish(t, "recorded")

\* A reload becomes a rollback, or is healthy; a rollback that cannot write is unsound.
TurnStep(t) ==
    /\ UNCHANGED <<snaps, up, box, live>>
    /\ \/ /\ job[t].kind = "reload" /\ job[t].pc \in Parts \cup {"health"}
          /\ Goes(t, [job[t] EXCEPT !.kind = "rollback", !.pc = "find"])
       \/ job[t].pc = "health" /\ Goes(t, [job[t] EXCEPT !.pc = "mark"])
       \/ /\ job[t].pc \in Parts /\ job[t].kind = "rollback"
          /\ Goes(t, [job[t] EXCEPT !.pc = "mark", !.sound = FALSE])

LEMMA JobFacts ==
    ASSUME Types, Grown, NEW t \in Slots
    PROVE  job[t] \in Jobs /\ JobOK(job[t], Ids) /\ (\A j \in Jobs: JobOK(j, Ids) => JobOK(j, Ids'))
BY DEF Types, JobsOK, JobOK, Jobs, Grown

LEMMA FindSteps ==
    ASSUME Types, Grown, NEW t \in Slots, FindLatest(t) \/ (FindFails(t) /\ job[t].kind = "rollback")
    PROVE  FindStep(t)
<1>1. job[t] \in Jobs /\ JobOK(job[t], Ids) /\ job[t].pc = "find" /\ job[t].kind # "reload"
  BY JobFacts DEF FindLatest, FindFails, JobOK
<1>2. job \in [Slots -> Jobs] /\ UNCHANGED <<snaps, up, box, live>>
  BY DEF Types, JobsOK, FindLatest, FindFails
<1>3. CASE \E i \in GetLatestApplied: job' = [job EXCEPT ![t].pc = "nft", ![t].use = i]
  <2>1. PICK i \in GetLatestApplied: job' = [job EXCEPT ![t].pc = "nft", ![t].use = i]
    BY <1>3
  <2> DEFINE j == [job[t] EXCEPT !.pc = "nft", !.use = i]
  <2>2. i \in Ids /\ i \in Nat /\ i \in Ids'
    BY RowFacts DEF GetLatestApplied, Highest, Applied, Types, Grown
  <2>3. j \in Jobs /\ j.pc = "nft" /\ j.use = i /\ j.snap = job[t].snap /\ j.kind = job[t].kind
    BY <1>1, <2>2 DEF Jobs, Parts
  <2>4. job' = [job EXCEPT ![t] = j]
    BY <1>2, <2>1 DEF Jobs
  <2>5. j.kind # "prepare" => j.snap \in Ids'
    BY <1>1, <2>3 DEF JobOK, Grown
  <2>6. Goes(t, j)
    BY <1>1, <2>2, <2>3, <2>4, <2>5 DEF Goes, JobOK, Parts
  <2> QED
    BY <1>1, <1>2, <2>6 DEF FindStep
<1>4. CASE job[t].kind = "rollback" /\ job' = [job EXCEPT ![t].pc = "mark", ![t].use = 0]
  <2> DEFINE j == [job[t] EXCEPT !.pc = "mark", !.use = 0]
  <2>1. j \in Jobs /\ j.pc = "mark" /\ j.use = 0 /\ j.snap = job[t].snap /\ j.kind = "rollback"
    BY <1>1, <1>4 DEF Jobs, Parts
  <2>2. job' = [job EXCEPT ![t] = j]
    BY <1>2, <1>4 DEF Jobs
  <2>3. j.snap \in Ids'
    BY <1>1, <1>4, <2>1 DEF JobOK, Grown
  <2>4. Goes(t, j)
    BY <2>1, <2>2, <2>3 DEF Goes, JobOK, Parts
  <2> QED
    BY <1>1, <1>2, <1>4, <2>4 DEF FindStep
<1> QED
  BY <1>3, <1>4 DEF FindLatest, FindFails
LEMMA PartSteps ==
    ASSUME Types, Grown, NEW t \in Slots, WritePart(t)
    PROVE  PartStep(t)
<1>1. /\ job[t] \in Jobs /\ JobOK(job[t], Ids) /\ job[t].pc \in Parts /\ job[t].pc \in {"nft", "cidrs", "domains"}
      /\ job[t].use \in Ids'
  BY JobFacts DEF WritePart, Parts, JobOK, Grown
<1>2. job \in [Slots -> Jobs] /\ UNCHANGED <<snaps, up>>
      /\ box' = [box EXCEPT ![job[t].pc] = snaps[job[t].use].config]
  BY DEF Types, JobsOK, WritePart
<1>3. job[t].kind # "prepare" => job[t].snap \in Ids'
  BY <1>1, <1>2 DEF JobOK, Ids, Parts
<1>4. job[t].kind = "reload" => job[t].use = job[t].snap
  BY <1>1 DEF JobOK
<1>5. ASSUME NEW pc \in Parts \cup {"health", "mark"}, job' = [job EXCEPT ![t].pc = pc],
             pc = "health" => job[t].kind = "reload", pc = "mark" => job[t].kind # "prepare"
      PROVE  Goes(t, [job[t] EXCEPT !.pc = pc])
  <2> DEFINE j == [job[t] EXCEPT !.pc = pc]
  <2>1. j \in Jobs /\ j.pc = pc /\ j.kind = job[t].kind /\ j.snap = job[t].snap /\ j.use = job[t].use
    BY <1>1 DEF Jobs
  <2>2. job' = [job EXCEPT ![t] = j]
    BY <1>2, <1>5 DEF Jobs
  <2> HIDE DEF j
  <2>3. Goes(t, j)
    BY <1>1, <1>3, <1>4, <1>5, <2>1, <2>2 DEF Goes, JobOK, Parts
  <2> QED
    BY <2>3 DEF j
<1>6. CASE job[t].pc \in {"nft", "cidrs"}
  <2> DEFINE pc == IF job[t].pc = "nft" THEN "cidrs" ELSE "domains"
  <2>1. NextPart(t) = pc /\ pc # "done" /\ pc \in Parts
    BY <1>6 DEF NextPart, Parts
  <2>2. job' = [job EXCEPT ![t].pc = pc] /\ live' = live
    BY <2>1 DEF WritePart
  <2>3. Goes(t, [job[t] EXCEPT !.pc = pc])
    <3> HIDE DEF pc
    <3> QED
      BY <1>5, <2>1, <2>2 DEF Parts
  <2> QED
    BY <1>1, <1>2, <1>6, <2>2, <2>3 DEF PartStep
<1>7. CASE job[t].pc = "domains" /\ job[t].kind # "prepare"
  <2> DEFINE pc == IF job[t].kind = "reload" THEN "health" ELSE "mark"
  <2>1. job[t].kind \in {"reload", "rollback"}
    BY <1>1, <1>7 DEF Jobs
  <2>2. NextPart(t) = pc /\ pc # "done" /\ pc \in {"health", "mark"}
    BY <1>7, <2>1 DEF NextPart, Written
  <2>3. job' = [job EXCEPT ![t].pc = pc] /\ live' = live
    BY <2>2 DEF WritePart
  <2>4. pc = "health" => job[t].kind = "reload"
    OBVIOUS
  <2>5. Goes(t, [job[t] EXCEPT !.pc = pc])
    <3> HIDE DEF pc
    <3> QED
      BY <1>5, <1>7, <2>2, <2>3, <2>4
  <2> QED
    BY <1>1, <1>2, <1>7, <2>1, <2>3, <2>5 DEF PartStep
<1>8. CASE job[t].pc = "domains" /\ job[t].kind = "prepare"
  <2>1. NextPart(t) = "done"
    BY <1>8 DEF NextPart, Written
  <2> QED
    BY <1>1, <1>2, <1>8, <2>1 DEF PartStep, WritePart
<1> QED
  BY <1>1, <1>6, <1>7, <1>8

\* But a prepare that fails.
LEMMA TurnSteps ==
    ASSUME Types, Grown, NEW t \in Slots,
           (WriteFails(t) /\ job[t].kind # "prepare") \/ Healthy(t) \/ HealthExhausted(t)
    PROVE  TurnStep(t)
<1>1. job[t] \in Jobs /\ JobOK(job[t], Ids) /\ job \in [Slots -> Jobs] /\ UNCHANGED <<snaps, up, box, live>>
  BY JobFacts DEF Types, JobsOK, WriteFails, Healthy, HealthExhausted
<1>2. job[t].pc \in Parts \cup {"health"} /\ job[t].kind \in {"reload", "rollback"}
      /\ job[t].snap \in Ids' /\ job[t].use \in Ids'
  BY <1>1 DEF WriteFails, Healthy, HealthExhausted, JobOK, Jobs, Parts, Grown
<1>3. ASSUME NEW pc \in {"find", "mark"}, NEW kind \in {"reload", "rollback"}, NEW sound \in BOOLEAN,
             NEW j, j = [job[t] EXCEPT !.kind = kind, !.pc = pc, !.sound = sound],
             kind = "reload" => job[t].kind = "reload" /\ pc # "find", job' = [job EXCEPT ![t] = j]
      PROVE  Goes(t, j)
  <2>1. j \in Jobs /\ j.pc = pc /\ j.kind = kind /\ j.snap = job[t].snap /\ j.use = job[t].use
    BY <1>1, <1>3 DEF Jobs
  <2>2. job[t].kind = "reload" => job[t].use = job[t].snap
    BY <1>1, <1>2 DEF JobOK, Parts
  <2> QED
    BY <1>2, <1>3, <2>1, <2>2 DEF Goes, JobOK, Parts
<1>4. CASE job[t].kind = "reload" /\ (WriteFails(t) \/ HealthExhausted(t))
  <2> DEFINE j == [job[t] EXCEPT !.kind = "rollback", !.pc = "find"]
  <2>1. job' = [job EXCEPT ![t].kind = "rollback", ![t].pc = "find"]
    BY <1>4 DEF WriteFails, HealthExhausted
  <2>2. job' = [job EXCEPT ![t] = j] /\ j = [job[t] EXCEPT !.kind = "rollback", !.pc = "find", !.sound = job[t].sound]
        /\ job[t].sound \in BOOLEAN
    BY <1>1, <2>1 DEF Jobs
  <2>3. Goes(t, j)
    BY <1>3, <2>2
  <2> QED
    BY <1>1, <1>2, <1>4, <2>3 DEF TurnStep
<1>5. CASE Healthy(t)
  <2> DEFINE j == [job[t] EXCEPT !.pc = "mark"]
  <2>1. job' = [job EXCEPT ![t].pc = "mark"] /\ job[t].pc = "health" /\ job[t].kind = "reload"
    BY <1>1, <1>5 DEF Healthy, JobOK
  <2>2. job' = [job EXCEPT ![t] = j] /\ j = [job[t] EXCEPT !.kind = "reload", !.pc = "mark", !.sound = job[t].sound]
        /\ job[t].sound \in BOOLEAN
    BY <1>1, <2>1 DEF Jobs
  <2>3. Goes(t, j)
    BY <1>3, <2>1, <2>2
  <2> QED
    BY <1>1, <2>1, <2>3 DEF TurnStep
<1>6. CASE job[t].kind = "rollback" /\ WriteFails(t)
  <2> DEFINE j == [job[t] EXCEPT !.pc = "mark", !.sound = FALSE]
  <2>1. job' = [job EXCEPT ![t].pc = "mark", ![t].sound = FALSE] /\ job[t].pc \in Parts
    BY <1>6 DEF WriteFails
  <2>2. job' = [job EXCEPT ![t] = j] /\ j = [job[t] EXCEPT !.kind = "rollback", !.pc = "mark", !.sound = FALSE]
    BY <1>1, <1>6, <2>1 DEF Jobs
  <2>3. Goes(t, j)
    BY <1>3, <2>2
  <2> QED
    BY <1>1, <1>6, <2>1, <2>3 DEF TurnStep
<1>7. HealthExhausted(t) => job[t].kind = "reload"
  BY <1>1 DEF HealthExhausted, JobOK
<1> QED
  BY <1>2, <1>4, <1>5, <1>6, <1>7
\* A goroutine ends: nothing to write, a prepare that failed, or the verdict.
Ends(t) ==
    /\ job[t].pc # "idle" /\ job' = [job EXCEPT ![t] = NoJob] /\ box' = box
    /\ \/ live' = "unknown"
       \/ /\ job[t].sound /\ job[t].pc = "mark" /\ live' = Outcome(job[t]) /\ UNCHANGED up
          /\ snaps' = [snaps EXCEPT ![job[t].snap].status = Verdict(job[t])]

\* A goroutine starts, and is sound when no other one is busy.
Starts(t) ==
    /\ job[t].pc = "idle" /\ UNCHANGED <<snaps, up, box, live>>
    /\ \E j \in Jobs: /\ j.pc = "find" \/ (j.pc = "nft" /\ j.kind = "reload")
                      /\ JobOK(j, Ids) /\ StartJob(t, j)

LEMMA StartSteps ==
    ASSUME Types, NEW t \in Slots, (\E a \in Handlers: QueueReload(a, t)) \/ Prepare(t)
    PROVE  Starts(t)
<1>1. job[t] \in Jobs /\ job[t].pc = "idle" /\ UNCHANGED <<snaps, up, box, live>>
  BY DEF Types, JobsOK, QueueReload, Prepare, Busy
<1>2. CASE \E a \in Handlers: QueueReload(a, t)
  <2>1. PICK a \in Handlers: QueueReload(a, t)
    BY <1>2
  <2>2. req[a].snap \in Ids /\ req[a].snap \in Nat
    BY <2>1 DEF Types, RequestsOK, RequestOK, Asked, QueueReload
  <2> DEFINE j == [pc |-> "nft", kind |-> "reload", snap |-> req[a].snap, use |-> req[a].snap, sound |-> TRUE]
  <2>3. j \in Jobs /\ j.pc = "nft" /\ j.kind = "reload" /\ JobOK(j, Ids)
    BY <2>2 DEF Jobs, JobOK, Parts
  <2>4. StartJob(t, j)
    BY <2>1 DEF QueueReload
  <2> QED
    BY <1>1, <2>3, <2>4 DEF Starts
<1>3. CASE Prepare(t)
  <2> DEFINE j == [NoJob EXCEPT !.pc = "find"]
  <2>1. j \in Jobs /\ j.pc = "find" /\ JobOK(j, Ids)
    BY DEF NoJob, Jobs, JobOK, Parts
  <2>2. StartJob(t, j)
    BY <1>3 DEF Prepare
  <2> QED
    BY <1>1, <2>1, <2>2 DEF Starts
<1> QED
  BY <1>2, <1>3

LEMMA EndSteps ==
    ASSUME Types, NEW t \in Slots,
           NothingToReapply(t) \/ MarkSnapshot(t) \/ MarkLost(t)
           \/ ((FindFails(t) \/ WriteFails(t)) /\ job[t].kind = "prepare")
    PROVE  Ends(t)
<1>1. job[t].pc # "idle"
  BY DEF NothingToReapply, MarkSnapshot, MarkLost, FindFails, WriteFails, Parts
<1>2. job[t].sound \in BOOLEAN
  BY DEF Types, JobsOK, Jobs
<1>3. CASE MarkSnapshot(t) /\ job[t].sound
  BY <1>1, <1>3 DEF Ends, MarkSnapshot, Finish
<1>4. CASE MarkSnapshot(t) /\ ~job[t].sound
  BY <1>1, <1>4 DEF Ends, MarkSnapshot, Finish
<1>5. CASE NothingToReapply(t)
  BY <1>1, <1>5 DEF Ends, NothingToReapply, Finish
<1>6. CASE MarkLost(t)
  BY <1>1, <1>6 DEF Ends, MarkLost, Finish
<1>7. CASE (FindFails(t) \/ WriteFails(t)) /\ job[t].kind = "prepare"
  BY <1>1, <1>7 DEF Ends, FindFails, WriteFails, PrepareFails
<1> QED
  BY <1>2, <1>3, <1>4, <1>5, <1>6, <1>7

\* What leaves the goroutines alone adds no row that counts.
Aside ==
    /\ UNCHANGED <<job, box, live>>
    /\ snaps' = snaps \/ \E a \in Handlers: InsertSnapshot(a)

LEMMA StepShapes ==
    ASSUME Types, Grown, [Next]_vars
    PROVE  \/ Aside \/ ContainerStarts \/ Restart
           \/ \E t \in Slots: FindStep(t) \/ PartStep(t) \/ TurnStep(t) \/ Starts(t) \/ Ends(t)
<1>1. CASE ContainerStops \/ UNCHANGED vars
  BY <1>1 DEF ContainerStops, vars, Aside
<1>2. CASE \E a \in Handlers: Handle(a)
  <2>1. PICK a \in Handlers: Handle(a)
    BY <1>2
  <2>2. CASE \E t \in Slots: QueueReload(a, t)
    BY <2>2, StartSteps
  <2>3. CASE ~ \E t \in Slots: QueueReload(a, t)
    BY <2>1, <2>3 DEF Handle, Aside, ApplyRender, RollbackTarget, RollbackCurrent, CurrentUnread, NextVersion,
         InsertSnapshot, FindByConfigHash, InsertFails, QueueReloadFails
  <2> QED
    BY <2>2, <2>3
<1>3. CASE \E t \in Slots: Work(t)
  <2>1. PICK t \in Slots: Work(t)
    BY <1>3
  <2>2. Prepare(t) => Starts(t)
    BY StartSteps
  <2>3. FindLatest(t) \/ (FindFails(t) /\ job[t].kind = "rollback") => FindStep(t)
    BY FindSteps
  <2>4. WritePart(t) => PartStep(t)
    BY PartSteps
  <2>5. (WriteFails(t) /\ job[t].kind # "prepare") \/ Healthy(t) \/ HealthExhausted(t) => TurnStep(t)
    BY TurnSteps
  <2>6. \/ NothingToReapply(t) \/ MarkSnapshot(t) \/ MarkLost(t)
        \/ (FindFails(t) \/ WriteFails(t)) /\ job[t].kind = "prepare"
        => Ends(t)
    BY EndSteps
  <2>7. FindFails(t) => job[t].kind \in {"rollback", "prepare"}
    BY DEF FindFails
  <2> QED
    BY <2>1, <2>2, <2>3, <2>4, <2>5, <2>6, <2>7 DEF Work
<1> QED
  BY <1>1, <1>2, <1>3 DEF Next

LEMMA JobsKept ==
    ASSUME Types, Grown, [Next]_vars
    PROVE  JobsOK' /\ box' \in [Parts -> Configs \cup {Blank}]
<1>1. job \in [Slots -> Jobs] /\ box \in [Parts -> Configs \cup {Blank}]
      /\ \A t \in Slots: job[t] \in Jobs /\ JobOK(job[t], Ids) /\ JobOK(job[t], Ids')
  BY JobFacts DEF Types, JobsOK
<1>2. NoJob \in Jobs /\ JobOK(NoJob, Ids')
  BY DEF NoJob, Jobs, JobOK, Parts
<1>3. ASSUME NEW t \in Slots, NEW j \in Jobs, Goes(t, j) PROVE JobsOK'
  BY <1>1, <1>3 DEF Goes, JobsOK
<1>4. ASSUME NEW t \in Slots, job' = [job EXCEPT ![t] = NoJob] PROVE JobsOK'
  BY <1>1, <1>2, <1>4 DEF JobsOK
<1>5. ASSUME NEW j \in Jobs, JobOK(j, Ids), NEW b \in BOOLEAN
      PROVE  [j EXCEPT !.sound = b] \in Jobs /\ JobOK([j EXCEPT !.sound = b], Ids')
  <2> DEFINE k == [j EXCEPT !.sound = b]
  <2>1. k \in Jobs /\ k.pc = j.pc /\ k.kind = j.kind /\ k.snap = j.snap /\ k.use = j.use
    BY <1>5 DEF Jobs
  <2> HIDE DEF k
  <2>2. JobOK(k, Ids')
    BY <1>5, <2>1 DEF JobOK, Grown
  <2> QED
    BY <2>1, <2>2 DEF k
<1>6. CASE Aside
  BY <1>1, <1>6 DEF Aside, JobsOK
<1>7. CASE ContainerStarts
  <2>1. job' = [t \in Slots |-> [job[t] EXCEPT !.sound = job[t].sound /\ t \notin Busy]]
    BY <1>7 DEF ContainerStarts
  <2>2. \A t \in Slots: job'[t] \in Jobs /\ JobOK(job'[t], Ids')
    BY <1>1, <1>5, <2>1
  <2>3. box' = [p \in Parts |-> Blank]
    BY <1>7 DEF ContainerStarts
  <2> QED
    BY <2>1, <2>2, <2>3 DEF JobsOK
<1>8. CASE Restart
  BY <1>1, <1>2, <1>8 DEF Restart, JobsOK
<1>9. ASSUME NEW t \in Slots, FindStep(t) \/ TurnStep(t) PROVE JobsOK' /\ box' = box
  <2>1. PICK j: Goes(t, j) /\ box' = box
    BY <1>9 DEF FindStep, TurnStep
  <2> QED
    BY <1>3, <2>1 DEF Goes
<1>10. ASSUME NEW t \in Slots, PartStep(t) PROVE JobsOK' /\ box' \in [Parts -> Configs \cup {Blank}]
  <2>1. snaps[job[t].use].config \in Configs /\ job[t].pc \in Parts
    BY <1>1, <1>10, RowFacts DEF PartStep, JobOK, Types
  <2>2. box' \in [Parts -> Configs \cup {Blank}]
    BY <1>1, <1>10, <2>1 DEF PartStep
  <2>3. (\E j: Goes(t, j)) \/ job' = [job EXCEPT ![t] = NoJob]
    BY <1>10 DEF PartStep, Finish
  <2> QED
    BY <1>3, <1>4, <2>2, <2>3 DEF Goes
<1>11. ASSUME NEW t \in Slots, Starts(t) PROVE JobsOK' /\ box' = box
  <2>1. PICK j \in Jobs: JobOK(j, Ids) /\ StartJob(t, j)
    BY <1>11 DEF Starts
  <2>2. job' = [s \in Slots |-> IF s = t THEN [j EXCEPT !.sound = Busy = {}]
                                ELSE [job[s] EXCEPT !.sound = job[s].sound /\ s \notin Busy]]
    BY <2>1 DEF StartJob
  <2>3. \A s \in Slots: job'[s] \in Jobs /\ JobOK(job'[s], Ids')
    BY <1>1, <1>5, <2>1, <2>2
  <2> QED
    BY <1>11, <2>2, <2>3 DEF JobsOK, Starts
<1>12. ASSUME NEW t \in Slots, Ends(t) PROVE JobsOK' /\ box' = box
  BY <1>4, <1>12 DEF Ends
<1> QED
  BY <1>1, <1>6, <1>7, <1>8, <1>9, <1>10, <1>11, <1>12, StepShapes DEF Aside, Restart
LEMMA TypesKept ==
    ASSUME Types, [Next]_vars
    PROVE  Types'
<1>1. RowsOK' /\ RequestsOK' /\ JobsOK' /\ box' \in [Parts -> Configs \cup {Blank}]
  BY RowsGrow, RequestsKept, JobsKept
<1>2. up' \in BOOLEAN /\ faults' \in 0..MaxFaults
  <2>1. up' = up \/ up' = TRUE \/ up' = FALSE
    BY DEF Next, Handle, Work, ContainerStops, ContainerStarts, Restart, ApplyRender, RollbackTarget,
      RollbackCurrent, CurrentUnread, NextVersion, InsertSnapshot, FindByConfigHash, InsertFails, QueueReload,
      QueueReloadFails, Prepare, FindLatest, FindFails, NothingToReapply, WritePart, WriteFails, PrepareFails,
      Healthy, HealthExhausted, MarkSnapshot,
      MarkLost, vars
  <2>2. faults' = faults \/ Fault
    BY DEF Next, Handle, Work, ContainerStops, ContainerStarts, Restart, ApplyRender, RollbackTarget,
      RollbackCurrent, CurrentUnread, NextVersion, InsertSnapshot, FindByConfigHash, InsertFails, QueueReload,
      QueueReloadFails, Prepare, FindLatest, FindFails, NothingToReapply, WritePart, WriteFails, PrepareFails,
      Healthy, HealthExhausted, MarkSnapshot,
      MarkLost, ExecFails, vars
  <2>3. up' \in BOOLEAN
    BY <2>1 DEF Types
  <2>4. faults' \in 0..MaxFaults
    BY <2>2, BypassAssumption DEF Types, Fault
  <2> QED
    BY <2>3, <2>4
<1>3. live' \in {"recorded", "older", "unknown"}
  <2>1. \A t \in Slots: Outcome(job[t]) \in {"recorded", "older", "unknown"}
    BY DEF Outcome
  <2> QED
    BY <2>1, RowsGrow, StepShapes DEF Types, Aside, ContainerStarts, Restart, FindStep, PartStep, TurnStep, Starts,
       Ends, Finish
<1> QED
  BY <1>1, <1>2, <1>3 DEF Types

LEMMA TypesInvariant == Spec => []Types
<1>1. Init => Types
  <2> SUFFICES ASSUME Init PROVE Types
    OBVIOUS
  <2>1. snaps \in Seq(Rows) /\ Len(snaps) = 0 /\ Ids = {}
    BY DEF Init, Ids
  <2>2. NoReq \in Asked /\ NoReq.pc = "idle" /\ NoJob \in Jobs /\ NoJob.pc = "idle"
    BY DEF NoReq, Asked, NoJob, Jobs
  <2>3. RequestsOK /\ JobsOK
    BY <2>2 DEF Init, RequestsOK, RequestOK, JobsOK, JobOK, Parts
  <2> QED
    BY <2>1, <2>3, BypassAssumption DEF Init, Types, RowsOK
<1>2. Types /\ [Next]_vars => Types'
  BY TypesKept
<1> QED
  BY <1>1, <1>2, PTL DEF Spec

(* Types for any constants: above all, a version never exceeds the number  *)
(* of rows, and a request or goroutine never names a row that is not there.*)
THEOREM BypassTyping == Spec => []BypassTypeOK
<1>1. Types => BypassTypeOK
  <2> SUFFICES ASSUME Types PROVE BypassTypeOK
    OBVIOUS
  <2>1. \A i \in Ids: /\ snaps[i].version \in 1..MaxSnapshots /\ snaps[i].config \in Configs
                      /\ snaps[i].plain \in BOOLEAN /\ snaps[i].status \in Marks
    <3>1. Len(snaps) <= MaxSnapshots
      BY DEF Types, RowsOK
    <3> QED
      BY <3>1, RowFacts, BypassAssumption DEF Types, Rows
  <2>2. Len(snaps) <= MaxSnapshots
    BY DEF Types, RowsOK
  <2>3. \A a \in Handlers: req[a].pc \in {"current", "dispatch"} => req[a].snap \in Ids
    BY DEF Types, RequestsOK, RequestOK
  <2>4. \A t \in Busy: /\ job[t].kind # "prepare" => job[t].snap \in Ids
                       /\ job[t].pc \in Parts \cup {"health"} => job[t].use \in Ids
    BY DEF Types, JobsOK, JobOK, Busy
  <2> QED
    BY <2>1, <2>2, <2>3, <2>4 DEF Types, BypassTypeOK, Marks
<1> QED
  BY <1>1, TypesInvariant, PTL

-----------------------------------------------------------------------------
(* A sound goroutine is alone and knows what it has written.               *)

Alone == \A t \in Slots: job[t].pc # "idle" /\ job[t].sound => \A s \in Slots: job[s].pc # "idle" => s = t

\* In the container, after the parts that precede pc.
HoldsAt(b, pc, c) ==
    /\ pc \in {"cidrs", "domains", "health", "mark"} => b["nft"] = c
    /\ pc \in {"domains", "health", "mark"} => b["cidrs"] = c
    /\ pc \in {"health", "mark"} => b["domains"] = c

Progress ==
    \A t \in Slots: job[t].sound /\ job[t].pc \in Parts \cup {"health", "mark"} /\ job[t].use \in Ids
                      => HoldsAt(box, job[t].pc, snaps[job[t].use].config)

Rested == (\A t \in Slots: job[t].pc = "idle") /\ live # "unknown" => \A p, q \in Parts: box[p] = box[q]

Sound == Alone /\ Progress /\ Rested

LEMMA StartsSound ==
    ASSUME Types, Grown, Sound, NEW t \in Slots, Starts(t)
    PROVE  Sound'
<1>1. PICK j \in Jobs: j.pc \in {"nft", "find"} /\ StartJob(t, j)
  BY DEF Starts
<1>2. \A s \in Slots: job[s] \in Jobs
  BY DEF Types, JobsOK
<1>3. job' = [s \in Slots |-> IF s = t THEN [j EXCEPT !.sound = Busy = {}]
                              ELSE [job[s] EXCEPT !.sound = job[s].sound /\ s \notin Busy]]
  BY <1>1 DEF StartJob
<1>4. job'[t].pc = j.pc /\ (job'[t].sound => Busy = {})
  BY <1>1, <1>3 DEF Jobs
<1>5. ASSUME NEW s \in Slots, s # t
      PROVE  job'[s].pc = job[s].pc /\ (job'[s].sound => s \notin Busy)
  BY <1>2, <1>3, <1>5 DEF Jobs
<1>6. Alone'
  BY <1>4, <1>5 DEF Alone, Busy
<1>7. Progress'
  <2> SUFFICES ASSUME NEW s \in Slots, job'[s].sound, job'[s].pc \in Parts \cup {"health", "mark"}
               PROVE  job'[s].pc = "nft"
    BY DEF Progress, HoldsAt
  <2>1. s = t
    BY <1>5 DEF Busy, Parts
  <2> QED
    BY <1>1, <1>4, <2>1 DEF Parts
<1>8. Rested'
  BY <1>1, <1>4 DEF Rested
<1> QED
  BY <1>6, <1>7, <1>8 DEF Sound

\* Whoever is busy is not sound afterwards; what rests is as it was, or unknown.
LEMMA UnsoundSound ==
    ASSUME Types, Sound, Aside \/ ContainerStarts \/ Restart, Grown
    PROVE  Sound'
<1>1. job \in [Slots -> Jobs]
  BY DEF Types, JobsOK
<1>2. CASE Aside
  <2>1. job' = job /\ box' = box /\ live' = live
    BY <1>2 DEF Aside
  <2>2. \A t \in Slots: job[t].pc \in Parts \cup {"health"} => job[t].use \in Ids
    BY DEF Types, JobsOK, JobOK
  <2>3. \A t \in Slots: job[t].pc = "mark" => job[t].use \in Ids \cup {0}
    BY DEF Types, JobsOK, JobOK
  <2>4. Progress'
    BY <2>1, <2>2, <2>3 DEF Sound, Progress, HoldsAt, Grown
  <2> QED
    BY <2>1, <2>4 DEF Sound, Alone, Rested
<1>3. CASE ContainerStarts
  <2>1. job' = [t \in Slots |-> [job[t] EXCEPT !.sound = job[t].sound /\ t \notin Busy]] /\ live' = "unknown"
    BY <1>3 DEF ContainerStarts
  <2>2. \A t \in Slots: job'[t].pc = job[t].pc /\ (job'[t].sound => t \notin Busy)
    BY <1>1, <2>1 DEF Jobs
  <2> QED
    BY <2>1, <2>2 DEF Sound, Alone, Progress, Rested, Busy, Parts
<1>4. CASE Restart
  <2>1. \A t \in Slots: job'[t].pc = "idle"
    BY <1>4 DEF Restart, NoJob
  <2>2. box' = box /\ live' = IF Busy = {} THEN live ELSE "unknown"
    BY <1>4 DEF Restart
  <2> QED
    BY <2>1, <2>2 DEF Sound, Alone, Progress, Rested, Busy, Parts
<1> QED
  BY <1>2, <1>3, <1>4
\* One goroutine goes on, from what it has written to what it has written then.
LEMMA GoingSound ==
    ASSUME Types, Grown, Sound, NEW t \in Slots, NEW j, Goes(t, j), job[t].pc # "idle", j.pc # "idle",
           j.sound => job[t].sound,
           j.sound /\ j.pc \in Parts \cup {"health", "mark"} /\ j.use \in Ids'
             => HoldsAt(box', j.pc, snaps'[j.use].config)
    PROVE  Sound'
<1>1. job \in [Slots -> Jobs] /\ job' = [job EXCEPT ![t] = j] /\ job'[t] = j
  BY DEF Types, JobsOK, Goes
<1>2. \A s \in Slots: s # t => job'[s] = job[s]
  BY <1>1
<1>3. ASSUME NEW s \in Slots, job'[s].sound, job'[s].pc # "idle" PROVE s = t /\ job[t].sound
  BY <1>1, <1>2, <1>3 DEF Sound, Alone
<1>4. Alone'
  <2> SUFFICES ASSUME NEW s \in Slots, job'[s].pc # "idle", job'[s].sound, NEW u \in Slots, job'[u].pc # "idle"
               PROVE  u = s
    BY DEF Alone
  <2>1. s = t /\ job[t].sound
    BY <1>3
  <2> QED
    BY <1>2, <2>1 DEF Sound, Alone
<1>5. Progress'
  <2> SUFFICES ASSUME NEW s \in Slots, job'[s].sound, job'[s].pc \in Parts \cup {"health", "mark"}, job'[s].use \in Ids'
               PROVE  HoldsAt(box', job'[s].pc, snaps'[job'[s].use].config)
    BY DEF Progress
  <2>1. s = t
    BY <1>3 DEF Parts
  <2> QED
    BY <1>1, <2>1
<1>6. Rested'
  BY <1>1 DEF Rested
<1> QED
  BY <1>4, <1>5, <1>6 DEF Sound

\* A goroutine ends: the others are unsound, and if it is sound, what it leaves agrees.
LEMMA EndingSound ==
    ASSUME Types, Sound, NEW t \in Slots, job[t].pc # "idle", job' = [job EXCEPT ![t] = NoJob],
           live' # "unknown" => \A p, q \in Parts: box'[p] = box'[q]
    PROVE  Sound'
<1>1. job'[t].pc = "idle" /\ \A s \in Slots: s # t => job'[s] = job[s]
  BY DEF Types, JobsOK, NoJob
<1>2. ASSUME NEW s \in Slots, job'[s].pc # "idle" PROVE ~job'[s].sound
  BY <1>1, <1>2 DEF Sound, Alone
<1>3. Alone' /\ Progress'
  BY <1>2 DEF Alone, Progress, Parts
<1>4. Rested'
  BY DEF Rested
<1> QED
  BY <1>3, <1>4 DEF Sound

LEMMA FindSound ==
    ASSUME Types, Grown, Sound, NEW t \in Slots, FindStep(t)
    PROVE  Sound'
<1>1. job[t] \in Jobs /\ job[t].pc = "find" /\ Ids' = 1..Len(snaps)'
  BY DEF Types, JobsOK, FindStep, Grown
<1>2. CASE \E i \in GetLatestApplied: Goes(t, [job[t] EXCEPT !.pc = "nft", !.use = i])
  <2>1. PICK i \in GetLatestApplied: Goes(t, [job[t] EXCEPT !.pc = "nft", !.use = i])
    BY <1>2
  <2> DEFINE j == [job[t] EXCEPT !.pc = "nft", !.use = i]
  <2>2. j.pc = "nft" /\ j.sound = job[t].sound
    BY <1>1 DEF Jobs
  <2> QED
    BY <1>1, <2>1, <2>2, GoingSound DEF HoldsAt
<1>3. CASE job[t].kind = "rollback" /\ Goes(t, [job[t] EXCEPT !.pc = "mark", !.use = 0])
  <2> DEFINE j == [job[t] EXCEPT !.pc = "mark", !.use = 0]
  <2>1. j.pc = "mark" /\ j.sound = job[t].sound /\ j.use \notin Ids'
    BY <1>1 DEF Jobs
  <2> QED
    BY <1>1, <1>3, <2>1, GoingSound
<1> QED
  BY <1>2, <1>3 DEF FindStep

LEMMA TurnSound ==
    ASSUME Types, Grown, Sound, NEW t \in Slots, TurnStep(t)
    PROVE  Sound'
<1>1. job[t] \in Jobs /\ UNCHANGED <<snaps, box>> /\ job[t].pc # "idle"
  BY DEF Types, JobsOK, TurnStep, Parts
<1>2. CASE Goes(t, [job[t] EXCEPT !.kind = "rollback", !.pc = "find"])
  <2> DEFINE j == [job[t] EXCEPT !.kind = "rollback", !.pc = "find"]
  <2>1. j.pc = "find" /\ j.sound = job[t].sound
    BY <1>1 DEF Jobs
  <2> QED
    BY <1>1, <1>2, <2>1, GoingSound DEF Parts
<1>3. CASE job[t].pc = "health" /\ Goes(t, [job[t] EXCEPT !.pc = "mark"])
  <2> DEFINE j == [job[t] EXCEPT !.pc = "mark"]
  <2>1. j.pc = "mark" /\ j.sound = job[t].sound /\ j.use = job[t].use
    BY <1>1 DEF Jobs
  <2>2. job[t].sound /\ job[t].use \in Ids => HoldsAt(box, "mark", snaps[job[t].use].config)
    BY <1>3 DEF Sound, Progress, HoldsAt
  <2> QED
    BY <1>1, <1>3, <2>1, <2>2, GoingSound DEF Ids
<1>4. CASE Goes(t, [job[t] EXCEPT !.pc = "mark", !.sound = FALSE])
  <2> DEFINE j == [job[t] EXCEPT !.pc = "mark", !.sound = FALSE]
  <2>1. j.pc = "mark" /\ ~j.sound
    BY <1>1 DEF Jobs
  <2> QED
    BY <1>1, <1>4, <2>1, GoingSound
<1> QED
  BY <1>2, <1>3, <1>4 DEF TurnStep

LEMMA PartSound ==
    ASSUME Types, Grown, Sound, NEW t \in Slots, PartStep(t)
    PROVE  Sound'
<1> DEFINE c == snaps[job[t].use].config
           pc == job[t].pc
<1>1. /\ job[t] \in Jobs /\ snaps' = snaps /\ pc \in {"nft", "cidrs", "domains"} /\ job[t].use \in Ids
      /\ box \in [Parts -> Configs \cup {Blank}] /\ box' = [box EXCEPT ![pc] = c]
  BY DEF Types, JobsOK, JobOK, PartStep, Parts
<1>2. job[t].sound => HoldsAt(box, pc, c)
  BY <1>1 DEF Sound, Progress, Parts
<1>3. job[t].sound => /\ pc = "nft" => HoldsAt(box', "cidrs", c)
                      /\ pc = "cidrs" => HoldsAt(box', "domains", c)
                      /\ pc = "domains" => HoldsAt(box', "mark", c)
  BY <1>1, <1>2 DEF HoldsAt, Parts
<1>4. ASSUME NEW next \in Parts \cup {"health", "mark"}, Goes(t, [job[t] EXCEPT !.pc = next]),
             job[t].sound => HoldsAt(box', next, c)
      PROVE  Sound'
  <2> DEFINE j == [job[t] EXCEPT !.pc = next]
  <2>1. j.pc = next /\ j.sound = job[t].sound /\ j.use = job[t].use /\ next # "idle" /\ job[t].pc # "idle"
    BY <1>1, <1>4 DEF Jobs, Parts
  <2> QED
    BY <1>1, <1>4, <2>1, GoingSound
<1>5. CASE pc = "nft" /\ Goes(t, [job[t] EXCEPT !.pc = "cidrs"])
  BY <1>3, <1>4, <1>5 DEF Parts
<1>6. CASE pc = "cidrs" /\ Goes(t, [job[t] EXCEPT !.pc = "domains"])
  BY <1>3, <1>4, <1>6 DEF Parts
<1>7. CASE pc = "domains" /\ Goes(t, [job[t] EXCEPT !.pc = "health"])
  BY <1>3, <1>4, <1>7 DEF Parts, HoldsAt
<1>8. CASE pc = "domains" /\ Goes(t, [job[t] EXCEPT !.pc = "mark"])
  BY <1>3, <1>4, <1>8
<1>9. CASE pc = "domains" /\ Finish(t, "recorded")
  <2>1. live' # "unknown" => job[t].sound
    BY <1>9 DEF Finish
  <2>2. job[t].sound => \A p, q \in Parts: box'[p] = box'[q]
    BY <1>3, <1>9 DEF HoldsAt, Parts
  <2> QED
    BY <1>1, <1>9, <2>1, <2>2, EndingSound DEF Finish
<1> QED
  BY <1>1, <1>5, <1>6, <1>7, <1>8, <1>9 DEF PartStep

LEMMA EndSound ==
    ASSUME Types, Sound, NEW t \in Slots, Ends(t)
    PROVE  Sound'
<1>1. ASSUME live' # "unknown" PROVE \A p, q \in Parts: box'[p] = box'[q]
  <2>1. job[t].sound /\ job[t].pc = "mark" /\ Outcome(job[t]) # "unknown" /\ box' = box
    BY <1>1 DEF Ends
  <2>2. job[t].use \in Ids
    BY <2>1 DEF Types, JobsOK, JobOK, Outcome
  <2> QED
    BY <2>1, <2>2 DEF Sound, Progress, HoldsAt, Parts
<1> QED
  BY <1>1, EndingSound DEF Ends

LEMMA SoundInvariant == Spec => []Sound
<1>1. Init => Sound
  BY DEF Init, Sound, Alone, Progress, Rested, NoJob, Parts
<1>2. Types /\ Sound /\ [Next]_vars => Sound'
  BY RowsGrow, StepShapes, UnsoundSound, FindSound, PartSound, TurnSound, StartsSound, EndSound
<1> QED
  BY <1>1, <1>2, TypesInvariant, PTL DEF Spec

(* The three parts of a rule set agree once a sound goroutine was the last *)
(* to touch them, for any number of requests, goroutines and faults.       *)
THEOREM RuleSetsWhole == Spec => []NotTorn
<1>1. Sound => NotTorn
  BY DEF Sound, Rested, NotTorn, AtRest, Busy
<1> QED
  BY <1>1, SoundInvariant, PTL
-----------------------------------------------------------------------------
(* The latest applied snapshot.  Of two requests at once both may take the *)
(* same version; the rest of this section is about one request at a time.  *)

OneRequest == \A a, b \in Handlers: a = b

Distinct ==
    /\ \A i, k \in Ids: snaps[i].version = snaps[k].version => i = k
    /\ \A a \in Handlers: req[a].pc = "insert" => \A i \in Ids: snaps[i].version < req[a].version

\* A sound goroutine that brings back a snapshot brings back the latest.
Chosen ==
    \A t \in Slots:
        job[t].sound /\ job[t].kind # "reload" /\ job[t].pc \in Parts \cup {"mark"} /\ job[t].use \in Ids
          => job[t].use \in GetLatestApplied

LatestRests ==
    (\A t \in Slots: job[t].pc = "idle") /\ live = "recorded"
      => \A i \in GetLatestApplied: \A p \in Parts: box[p] = snaps[i].config

Latest == Distinct /\ Chosen /\ LatestRests

LEMMA NextIsHighest ==
    ASSUME RowsOK, NEW k \in Ids
    PROVE  snaps[k].version < (IF Ids = {} THEN 1 ELSE 1 + snaps[CHOOSE i \in Highest(Ids) : TRUE].version)
<1>1. Len(snaps) \in Nat /\ \A i \in Ids: snaps[i].version \in Nat /\ snaps[i].version <= Len(snaps)
  BY RowFacts
<1> DEFINE S == {snaps[i].version : i \in Ids}
<1>2. S \subseteq Nat /\ S # {} /\ \A v \in S: v <= Len(snaps)
  BY <1>1
<1>3. PICK m \in S: \A v \in S: v <= m
  <2> HIDE DEF S
  <2> QED
    BY <1>1, <1>2, Largest
<1>4. PICK i \in Ids: i \in Highest(Ids)
  BY <1>3 DEF Highest
<1>5. (CHOOSE j \in Highest(Ids) : TRUE) \in Highest(Ids)
  BY <1>4
<1> HIDE DEF S
<1> DEFINE h == CHOOSE j \in Highest(Ids) : TRUE
<1>6. h \in Ids /\ snaps[k].version <= snaps[h].version
  <2> HIDE DEF h
  <2> QED
    BY <1>5 DEF Highest, h
<1> HIDE DEF h
<1>7. snaps[k].version < 1 + snaps[h].version
  BY <1>1, <1>6
<1> QED
  BY <1>7 DEF h

LEMMA DistinctKept ==
    ASSUME OneRequest, Types, Grown, Distinct, [Next]_vars
    PROVE  Distinct'
<1>1. /\ \A i \in Ids: snaps[i].version \in Nat
      /\ req \in [Handlers -> Asked] /\ Ids = 1..Len(snaps) /\ Ids' = 1..Len(snaps)' /\ Len(snaps) \in Nat
      /\ \A i \in Ids: i \in Ids' /\ snaps'[i].version = snaps[i].version
  BY RowFacts DEF Types, RequestsOK, Grown
<1>2. CASE \E a \in Handlers: InsertSnapshot(a)
  <2>1. PICK a \in Handlers: InsertSnapshot(a)
    BY <1>2
  <2>2. \A b \in Handlers: req'[b].pc = "dispatch"
    <3>1. req' = [req EXCEPT ![a].pc = "dispatch", ![a].snap = Len(snaps) + 1]
      BY <2>1 DEF InsertSnapshot
    <3>2. req'[a].pc = "dispatch"
      BY <1>1, <3>1 DEF Asked
    <3> QED
      BY <3>2 DEF OneRequest
  <2>3. Ids' = Ids \cup {Len(snaps) + 1} /\ snaps'[Len(snaps) + 1].version = req[a].version
    BY <1>1, <2>1 DEF InsertSnapshot, Types, RowsOK
  <2>4. \A i \in Ids: snaps[i].version < req[a].version
    BY <2>1 DEF Distinct, InsertSnapshot
  <2>5. req[a].version \in Nat
    BY <1>1 DEF Asked
  <2>6. \A i, k \in Ids': snaps'[i].version = snaps'[k].version => i = k
    BY <1>1, <2>3, <2>4, <2>5 DEF Distinct
  <2> QED
    BY <2>2, <2>6 DEF Distinct
<1>3. CASE \E a \in Handlers: NextVersion(a)
  <2>1. PICK a \in Handlers: NextVersion(a)
    BY <1>3
  <2> DEFINE v == IF Ids = {} THEN 1 ELSE 1 + snaps[CHOOSE i \in Highest(Ids) : TRUE].version
  <2>2. \A i \in Ids: snaps[i].version < v
    BY NextIsHighest DEF Types
  <2>3. req' = [req EXCEPT ![a].pc = "insert", ![a].version = v] /\ snaps' = snaps
    BY <2>1 DEF NextVersion
  <2> HIDE DEF v
  <2>4. req'[a].version = v
    BY <1>1, <2>3 DEF Asked
  <2>5. \A b \in Handlers: req'[b].version = v
    BY <2>4 DEF OneRequest
  <2> QED
    BY <2>2, <2>3, <2>5 DEF Distinct, Ids
<1>4. CASE \E t \in Slots: MarkSnapshot(t)
  <2>1. PICK t \in Slots: MarkSnapshot(t)
    BY <1>4
  <2>2. Ids' = Ids /\ req' = req
    BY <1>1, <2>1 DEF MarkSnapshot, Ids
  <2> QED
    BY <1>1, <2>2 DEF Distinct
<1>5. CASE snaps' = snaps /\ \A a \in Handlers: req'[a].pc = "insert" => req'[a] = req[a]
  BY <1>5 DEF Distinct, Ids
<1>6. CASE snaps' = snaps /\ (req' = req \/ req' = [a \in Handlers |-> NoReq])
  BY <1>5, <1>6 DEF NoReq
<1>7. CASE snaps' = snaps /\ \E a \in Handlers: req'[a].pc # "insert"
  BY <1>5, <1>7 DEF OneRequest
<1>8. ASSUME NEW a \in Handlers,
             ApplyRender(a) \/ RollbackTarget(a) \/ RollbackCurrent(a) \/ CurrentUnread(a)
             \/ FindByConfigHash(a) \/ InsertFails(a)
             \/ (\E t \in Slots: QueueReload(a, t)) \/ QueueReloadFails(a)
      PROVE  snaps' = snaps /\ req'[a].pc # "insert"
  BY <1>1, <1>8 DEF ApplyRender, RollbackTarget, RollbackCurrent, CurrentUnread, FindByConfigHash, InsertFails, QueueReload,
     QueueReloadFails, Answer, NoReq, Asked
<1>9. CASE \E a \in Handlers: Handle(a)
  BY <1>2, <1>3, <1>7, <1>8, <1>9 DEF Handle
<1>10. CASE \E t \in Slots: Work(t)
  BY <1>4, <1>6, <1>10 DEF Work, Prepare, FindLatest, FindFails, NothingToReapply, WritePart, WriteFails, Healthy,
     HealthExhausted, MarkLost
<1>11. CASE ContainerStops \/ ContainerStarts \/ Restart \/ UNCHANGED vars
  BY <1>6, <1>11 DEF ContainerStops, ContainerStarts, Restart, vars
<1> QED
  BY <1>9, <1>10, <1>11 DEF Next
\* Rows that are appended pending are not applied, and no other row changes its place.
LEMMA AsideLatest ==
    ASSUME Types, Grown, Aside
    PROVE  GetLatestApplied' = GetLatestApplied
<1>1. CASE snaps' = snaps
  BY <1>1 DEF GetLatestApplied, Highest, Applied, Ids
<1>2. CASE \E a \in Handlers: InsertSnapshot(a)
  <2>1. PICK a \in Handlers: InsertSnapshot(a)
    BY <1>2
  <2>2. snaps \in Seq(Rows) /\ Len(snaps) \in Nat /\ Ids = 1..Len(snaps)
    BY RowFacts DEF Types
  <2>3. /\ Ids' = Ids \cup {Len(snaps) + 1} /\ snaps'[Len(snaps) + 1].status = "pending"
        /\ \A i \in Ids: snaps'[i] = snaps[i]
    BY <2>1, <2>2 DEF InsertSnapshot, Grown
  <2>4. Applied' = Applied
    BY <2>3 DEF Applied
  <2> QED
    BY <2>3, <2>4 DEF GetLatestApplied, Highest, Applied
<1> QED
  BY <1>1, <1>2 DEF Aside

\* With distinct versions there is one latest applied row at most.
LEMMA OneLatest ==
    ASSUME RowsOK, Distinct, NEW i \in GetLatestApplied, NEW k \in GetLatestApplied
    PROVE  i = k
<1>1. i \in Ids /\ k \in Ids /\ snaps[i].version <= snaps[k].version /\ snaps[k].version <= snaps[i].version
  BY DEF GetLatestApplied, Highest, Applied
<1>2. snaps[i].version \in Nat /\ snaps[k].version \in Nat
  BY <1>1, RowFacts
<1> QED
  BY <1>1, <1>2 DEF Distinct

LEMMA ChosenKept ==
    ASSUME Types, Grown, Sound, Latest, [Next]_vars
    PROVE  Chosen'
<1>1. job \in [Slots -> Jobs] /\ \A t \in Slots: job[t] \in Jobs /\ JobOK(job[t], Ids)
  BY DEF Types, JobsOK
<1>2. ASSUME NEW t \in Slots, NEW j, Goes(t, j), job[t].pc # "idle", snaps' = snaps, j.sound => job[t].sound,
             j.sound /\ j.kind # "reload" /\ j.pc \in Parts \cup {"mark"} /\ j.use \in Ids => j.use \in GetLatestApplied
      PROVE  Chosen'
  <2>1. job'[t] = j /\ \A s \in Slots: s # t => job'[s] = job[s]
    BY <1>1, <1>2 DEF Goes
  <2>2. Ids' = Ids /\ GetLatestApplied' = GetLatestApplied
    BY <1>2 DEF GetLatestApplied, Highest, Applied, Ids
  <2> SUFFICES ASSUME NEW s \in Slots, job'[s].sound, job'[s].kind # "reload",
                      job'[s].pc \in Parts \cup {"mark"}, job'[s].use \in Ids'
               PROVE  job'[s].use \in GetLatestApplied'
    BY DEF Chosen
  <2>9. job'[s].pc # "idle"
    BY DEF Parts
  <2>3. CASE s = t
    BY <1>2, <2>1, <2>2, <2>3
  <2>4. CASE s # t
    BY <2>1, <2>2, <2>4 DEF Chosen, Latest
  <2> QED
    BY <2>3, <2>4
<1>3. ASSUME NEW t \in Slots, job[t].pc # "idle", job' = [job EXCEPT ![t] = NoJob] PROVE Chosen'
  <2>1. job'[t].pc = "idle" /\ \A s \in Slots: s # t => job'[s] = job[s]
    BY <1>1, <1>3 DEF NoJob
  <2>2. ASSUME NEW s \in Slots, job'[s].pc # "idle" PROVE ~job'[s].sound
    BY <1>3, <2>1, <2>2 DEF Sound, Alone
  <2> SUFFICES ASSUME NEW s \in Slots, job'[s].sound, job'[s].kind # "reload",
                      job'[s].pc \in Parts \cup {"mark"}, job'[s].use \in Ids'
               PROVE  job'[s].use \in GetLatestApplied'
    BY DEF Chosen
  <2>3. job'[s].pc # "idle"
    BY DEF Parts
  <2> QED
    BY <2>2, <2>3
<1>4. CASE Aside
  <2>1. GetLatestApplied' = GetLatestApplied /\ job' = job
    BY <1>4, AsideLatest DEF Aside
  <2>2. \A t \in Slots: job[t].pc \in Parts \cup {"mark"} => job[t].use \in Ids \cup {0}
    BY <1>1 DEF JobOK
  <2> QED
    BY <2>1, <2>2 DEF Latest, Chosen, Grown
<1>5. CASE ContainerStarts
  <2>1. job' = [t \in Slots |-> [job[t] EXCEPT !.sound = job[t].sound /\ t \notin Busy]]
    BY <1>5 DEF ContainerStarts
  <2>2. \A t \in Slots: job'[t].pc = job[t].pc /\ (job'[t].sound => t \notin Busy)
    BY <1>1, <2>1 DEF Jobs
  <2> SUFFICES ASSUME NEW s \in Slots, job'[s].sound, job'[s].kind # "reload",
                      job'[s].pc \in Parts \cup {"mark"}, job'[s].use \in Ids'
               PROVE  job'[s].use \in GetLatestApplied'
    BY DEF Chosen
  <2>3. job'[s].pc # "idle"
    BY DEF Parts
  <2> QED
    BY <2>2, <2>3 DEF Busy
<1>6. CASE Restart
  BY <1>6 DEF Restart, Chosen, NoJob, Parts
<1>7. ASSUME NEW t \in Slots, FindStep(t) PROVE Chosen'
  <2>1. CASE \E i \in GetLatestApplied: Goes(t, [job[t] EXCEPT !.pc = "nft", !.use = i])
    <3>1. PICK i \in GetLatestApplied: Goes(t, [job[t] EXCEPT !.pc = "nft", !.use = i])
      BY <2>1
    <3> DEFINE j == [job[t] EXCEPT !.pc = "nft", !.use = i]
    <3>2. j.use = i /\ j.sound = job[t].sound
      BY <1>1 DEF Jobs
    <3> HIDE DEF j
    <3> QED
      BY <1>2, <1>7, <3>1, <3>2 DEF FindStep, j
  <2>2. CASE Goes(t, [job[t] EXCEPT !.pc = "mark", !.use = 0])
    <3> DEFINE j == [job[t] EXCEPT !.pc = "mark", !.use = 0]
    <3>1. j.use \notin Ids /\ j.sound = job[t].sound
      BY <1>1 DEF Jobs, Grown
    <3> HIDE DEF j
    <3> QED
      BY <1>2, <1>7, <2>2, <3>1 DEF FindStep, j
  <2> QED
    BY <1>7, <2>1, <2>2 DEF FindStep
<1>8. ASSUME NEW t \in Slots, NEW pc, job[t].pc \in Parts, Goes(t, [job[t] EXCEPT !.pc = pc]), snaps' = snaps
      PROVE  Chosen'
  <2> DEFINE j == [job[t] EXCEPT !.pc = pc]
  <2>1. j.use = job[t].use /\ j.sound = job[t].sound /\ j.kind = job[t].kind
    BY <1>1 DEF Jobs
  <2> HIDE DEF j
  <2>2. Goes(t, j)
    BY <1>8 DEF j
  <2> QED
    BY <1>2, <1>8, <2>1, <2>2 DEF Latest, Chosen, Parts
<1>9. ASSUME NEW t \in Slots, PartStep(t) PROVE Chosen'
  BY <1>3, <1>8, <1>9 DEF PartStep, Finish, Parts
<1>10. ASSUME NEW t \in Slots, TurnStep(t) PROVE Chosen'
  <2>1. CASE Goes(t, [job[t] EXCEPT !.kind = "rollback", !.pc = "find"])
    <3> DEFINE j == [job[t] EXCEPT !.kind = "rollback", !.pc = "find"]
    <3>1. j.pc = "find" /\ j.sound = job[t].sound
      BY <1>1 DEF Jobs
    <3> HIDE DEF j
    <3>2. Goes(t, j)
      BY <2>1 DEF j
    <3> QED
      BY <1>2, <1>10, <3>1, <3>2 DEF TurnStep, Parts
  <2>2. CASE job[t].pc = "health" /\ Goes(t, [job[t] EXCEPT !.pc = "mark"])
    <3> DEFINE j == [job[t] EXCEPT !.pc = "mark"]
    <3>1. j.kind = "reload" /\ j.sound = job[t].sound
      BY <1>1, <2>2 DEF Jobs, JobOK
    <3> HIDE DEF j
    <3>2. Goes(t, j)
      BY <2>2 DEF j
    <3> QED
      BY <1>2, <1>10, <2>2, <3>1, <3>2 DEF TurnStep
  <2>3. CASE job[t].pc \in Parts /\ Goes(t, [job[t] EXCEPT !.pc = "mark", !.sound = FALSE])
    <3> DEFINE j == [job[t] EXCEPT !.pc = "mark", !.sound = FALSE]
    <3>1. ~j.sound
      BY <1>1 DEF Jobs
    <3> HIDE DEF j
    <3>2. Goes(t, j)
      BY <2>3 DEF j
    <3> QED
      BY <1>2, <1>10, <2>3, <3>1, <3>2 DEF TurnStep, Parts
  <2> QED
    BY <1>10, <2>1, <2>2, <2>3 DEF TurnStep
<1>11. ASSUME NEW t \in Slots, Starts(t) PROVE Chosen'
  <2>1. PICK j \in Jobs: ((j.pc = "nft" /\ j.kind = "reload") \/ j.pc = "find") /\ StartJob(t, j)
    BY <1>11 DEF Starts
  <2>2. job' = [s \in Slots |-> IF s = t THEN [j EXCEPT !.sound = Busy = {}]
                                ELSE [job[s] EXCEPT !.sound = job[s].sound /\ s \notin Busy]]
    BY <2>1 DEF StartJob
  <2>3. job'[t].pc = j.pc /\ job'[t].kind = j.kind
    BY <2>1, <2>2 DEF Jobs
  <2>4. ASSUME NEW s \in Slots, s # t
        PROVE  job'[s].pc = job[s].pc /\ (job'[s].sound => s \notin Busy)
    BY <1>1, <2>2, <2>4 DEF Jobs
  <2> SUFFICES ASSUME NEW s \in Slots, job'[s].sound, job'[s].kind # "reload",
                      job'[s].pc \in Parts \cup {"mark"}, job'[s].use \in Ids'
               PROVE  job'[s].use \in GetLatestApplied'
    BY DEF Chosen
  <2>5. job'[s].pc # "idle"
    BY DEF Parts
  <2> QED
    BY <2>1, <2>3, <2>4, <2>5 DEF Busy, Parts
<1>12. ASSUME NEW t \in Slots, Ends(t) PROVE Chosen'
  BY <1>3, <1>12 DEF Ends
<1> QED
  BY <1>4, <1>5, <1>6, <1>7, <1>9, <1>10, <1>11, <1>12, StepShapes
\* What rests is the latest when the goroutine that ends leaves it so.
LEMMA LatestRestsKept ==
    ASSUME Types, Grown, Sound, Latest, [Next]_vars
    PROVE  LatestRests'
<1>1. job \in [Slots -> Jobs] /\ \A t \in Slots: job[t] \in Jobs /\ JobOK(job[t], Ids)
  BY DEF Types, JobsOK
<1>2. CASE Aside
  <2>1. GetLatestApplied' = GetLatestApplied /\ UNCHANGED <<job, box, live>>
    BY <1>2, AsideLatest DEF Aside
  <2>2. \A i \in GetLatestApplied: snaps'[i].config = snaps[i].config
    BY DEF GetLatestApplied, Highest, Applied, Grown
  <2> QED
    BY <2>1, <2>2 DEF Latest, LatestRests
<1>3. CASE ContainerStarts
  BY <1>3 DEF ContainerStarts, LatestRests
<1>4. CASE Restart
  <2>1. snaps' = snaps /\ box' = box /\ live' = IF Busy = {} THEN live ELSE "unknown"
    BY <1>4 DEF Restart
  <2>2. GetLatestApplied' = GetLatestApplied
    BY <2>1 DEF GetLatestApplied, Highest, Applied, Ids
  <2> QED
    BY <2>1, <2>2 DEF Latest, LatestRests, Busy
<1>5. ASSUME NEW t \in Slots, job'[t].pc # "idle" PROVE LatestRests'
  BY <1>5 DEF LatestRests
<1>6. ASSUME NEW t \in Slots, FindStep(t) PROVE LatestRests'
  <2>1. CASE \E i \in GetLatestApplied: Goes(t, [job[t] EXCEPT !.pc = "nft", !.use = i])
    <3>1. PICK i: job' = [job EXCEPT ![t] = [job[t] EXCEPT !.pc = "nft", !.use = i]]
      BY <2>1 DEF Goes
    <3>2. job'[t].pc = "nft"
      BY <1>1, <3>1 DEF Jobs
    <3> QED
      BY <1>5, <3>2
  <2>2. CASE Goes(t, [job[t] EXCEPT !.pc = "mark", !.use = 0])
    <3>1. job'[t].pc = "mark"
      BY <1>1, <2>2 DEF Goes, Jobs
    <3> QED
      BY <1>5, <3>1
  <2> QED
    BY <1>6, <2>1, <2>2 DEF FindStep
<1>7. ASSUME NEW t \in Slots, TurnStep(t) PROVE LatestRests'
  <2>1. CASE Goes(t, [job[t] EXCEPT !.kind = "rollback", !.pc = "find"])
    <3>1. job'[t].pc = "find"
      BY <1>1, <2>1 DEF Goes, Jobs
    <3> QED
      BY <1>5, <3>1
  <2>2. CASE Goes(t, [job[t] EXCEPT !.pc = "mark"])
    <3>1. job'[t].pc = "mark"
      BY <1>1, <2>2 DEF Goes, Jobs
    <3> QED
      BY <1>5, <3>1
  <2>3. CASE Goes(t, [job[t] EXCEPT !.pc = "mark", !.sound = FALSE])
    <3>1. job'[t].pc = "mark"
      BY <1>1, <2>3 DEF Goes, Jobs
    <3> QED
      BY <1>5, <3>1
  <2> QED
    BY <1>7, <2>1, <2>2, <2>3 DEF TurnStep
<1>8. ASSUME NEW t \in Slots, Starts(t) PROVE LatestRests'
  <2>1. PICK j \in Jobs: j.pc \in {"nft", "find"} /\ StartJob(t, j)
    BY <1>8 DEF Starts
  <2>2. job'[t] = [j EXCEPT !.sound = Busy = {}]
    BY <2>1 DEF StartJob
  <2>3. job'[t].pc = j.pc
    BY <2>1, <2>2 DEF Jobs
  <2> QED
    BY <1>5, <2>1, <2>3
<1>9. ASSUME NEW t \in Slots, PartStep(t) PROVE LatestRests'
  <2>1. CASE job[t].pc = "domains" /\ job[t].kind = "prepare" /\ Finish(t, "recorded")
    <3> DEFINE c == snaps[job[t].use].config
    <3>1. /\ snaps' = snaps /\ box' = [box EXCEPT !["domains"] = c] /\ job[t].use \in Ids
          /\ box \in [Parts -> Configs \cup {Blank}]
      BY <1>1, <1>9, <2>1 DEF PartStep, JobOK, Parts, Types
    <3>2. CASE job[t].sound
      <4>1. job[t].use \in GetLatestApplied
        BY <2>1, <3>1, <3>2 DEF Latest, Chosen, Parts
      <4>2. \A p \in Parts: box'[p] = c
        BY <2>1, <3>1, <3>2 DEF Sound, Progress, HoldsAt, Parts
      <4>3. \A i \in GetLatestApplied: i = job[t].use
        BY <4>1, OneLatest DEF Types, Latest
      <4>4. GetLatestApplied' = GetLatestApplied
        BY <3>1 DEF GetLatestApplied, Highest, Applied, Ids
      <4> QED
        BY <3>1, <4>2, <4>3, <4>4 DEF LatestRests
    <3>3. CASE ~job[t].sound
      BY <2>1, <3>3 DEF Finish, LatestRests
    <3> QED
      BY <3>2, <3>3
  <2>2. CASE \E pc \in Parts \cup {"health", "mark"}: Goes(t, [job[t] EXCEPT !.pc = pc])
    <3>1. PICK pc \in Parts \cup {"health", "mark"}: Goes(t, [job[t] EXCEPT !.pc = pc])
      BY <2>2
    <3>2. job'[t].pc = pc
      BY <1>1, <3>1 DEF Goes, Jobs
    <3> QED
      BY <1>5, <3>2 DEF Parts
  <2> QED
    BY <1>9, <2>1, <2>2 DEF PartStep, Parts
<1>10. ASSUME NEW t \in Slots, Ends(t) PROVE LatestRests'
  <2> SUFFICES ASSUME live' = "recorded", NEW i \in GetLatestApplied', NEW p \in Parts
               PROVE  box'[p] = snaps'[i].config
    BY DEF LatestRests
  <2> DEFINE k == job[t].snap
             u == job[t].use
  <2>1. /\ job[t].sound /\ job[t].pc = "mark" /\ Outcome(job[t]) = "recorded" /\ box' = box
        /\ snaps' = [snaps EXCEPT ![k].status = Verdict(job[t])]
    BY <1>10 DEF Ends
  <2>2. u \in Ids /\ k \in Ids /\ job[t].kind \in {"reload", "rollback"} /\ (job[t].kind = "reload" => u = k)
    BY <1>1, <2>1 DEF JobOK, Outcome, Jobs
  <2>3. box[p] = snaps[u].config
    BY <2>1, <2>2 DEF Sound, Progress, HoldsAt, Parts
  <2>4. snaps \in Seq(Rows) /\ (\A n \in Ids: snaps[n] \in Rows /\ snaps[n].version \in Nat) /\ Ids' = Ids
    BY <2>1, RowFacts DEF Types, Ids
  <2>5. /\ \A n \in Ids: snaps'[n].config = snaps[n].config /\ snaps'[n].version = snaps[n].version
        /\ \A n \in Ids \ {k}: snaps'[n].status = snaps[n].status
        /\ snaps'[k].status = Verdict(job[t])
    BY <2>1, <2>2, <2>4 DEF Grown, Rows
  <2>6. /\ i \in Ids /\ snaps'[i].status = "applied"
        /\ \A n \in Ids: snaps'[n].status = "applied" => snaps[n].version <= snaps[i].version
    BY <2>4, <2>5 DEF GetLatestApplied, Highest, Applied
  <2>7. CASE job[t].kind = "reload"
    <3>1. snaps'[k].status = "applied" /\ ~ \E n \in Applied \ {k}: snaps[n].version >= snaps[k].version
      BY <2>1, <2>5, <2>7 DEF Verdict, Outcome
    <3>2. ASSUME i # k PROVE FALSE
      <4>1. i \in Applied \ {k} /\ snaps[k].version <= snaps[i].version
        BY <2>2, <2>5, <2>6, <3>1, <3>2 DEF Applied
      <4> QED
        BY <2>2, <2>4, <2>6, <3>1, <4>1
    <3> QED
      BY <2>1, <2>2, <2>3, <2>5, <2>7, <3>2
  <2>8. CASE job[t].kind = "rollback"
    <3>1. u # k /\ u # 0
      BY <2>1, <2>8 DEF Outcome
    <3>2. u \in GetLatestApplied
      BY <2>1, <2>2, <2>8 DEF Latest, Chosen
    <3>3. snaps'[k].status # "applied"
      BY <2>1, <2>5, <2>8, <3>1 DEF Verdict
    <3>4. i \in Applied /\ snaps[u].version <= snaps[i].version
      BY <2>2, <2>5, <2>6, <3>1, <3>2, <3>3 DEF Applied, GetLatestApplied, Highest
    <3>5. snaps[i].version <= snaps[u].version
      BY <3>2, <3>4 DEF GetLatestApplied, Highest
    <3>6. i = u
      BY <2>2, <2>4, <2>6, <3>4, <3>5 DEF Latest, Distinct
    <3> QED
      BY <2>1, <2>3, <2>5, <2>6, <3>6
  <2> QED
    BY <2>2, <2>7, <2>8
<1> QED
  BY <1>2, <1>3, <1>4, <1>6, <1>7, <1>8, <1>9, <1>10, StepShapes

(* With one request at a time, the container runs the latest applied       *)
(* snapshot whenever a sound goroutine recorded it, for any number of      *)
(* goroutines, rows and faults.                                            *)
THEOREM LatestRuns == ASSUME OneRequest PROVE Spec => []LatestIsLive
<1>1. Init => Latest
  BY DEF Init, Latest, Distinct, Chosen, LatestRests, GetLatestApplied, Highest, Applied, Ids, NoReq, NoJob, Parts
<1>2. Types /\ Sound /\ Latest /\ [Next]_vars => Latest'
  BY RowsGrow, DistinctKept, ChosenKept, LatestRestsKept DEF Latest
<1>3. Latest => LatestIsLive
  BY DEF Latest, LatestRests, LatestIsLive, AtRest, Busy
<1> QED
  BY <1>1, <1>2, <1>3, TypesInvariant, SoundInvariant, PTL DEF Spec
=============================================================================
