--------------------------- MODULE BypassSnapshot ---------------------------
(***************************************************************************)
(* The bypass whitelist of one host: the rules an administrator edits, the *)
(* host_bypass_snapshots rows that Apply and Rollback insert, the reload   *)
(* goroutine that writes a snapshot into the container in three commands   *)
(* and rolls back when the health check is exhausted, and the prepare that *)
(* writes the latest applied snapshot again.                               *)
(*                                                                         *)
(* Nothing records what is live: "the latest applied snapshot" is the one  *)
(* with the highest version, and a version is fixed when the row is        *)
(* inserted, not when the row is brought live.                             *)
(***************************************************************************)
EXTENDS Integers, Sequences, FiniteSets

CONSTANTS
    Configs,      \* what RenderBypassConfig can produce
    Blank,        \* the rule set entrypoint.sh writes at every start
    Handlers,     \* HTTP requests in flight
    Slots,        \* reload and prepare goroutines in flight
    MaxSnapshots, \* bound: rows that are ever inserted
    MaxFaults     \* bound: commands, health checks and writes that fail, stops, crashes

ASSUME BypassAssumption ==
    /\ Blank \notin Configs
    /\ MaxSnapshots \in Nat
    /\ MaxFaults \in Nat

VARIABLES
    snaps,    \* host_bypass_snapshots; the id of a row is its index
    up,       \* is the container running
    box,      \* in the container: the nft set and the two rule-set files
    req,      \* the requests
    job,      \* the goroutines
    faults,
    live      \* history: "recorded", "older" or "unknown", see Finish

vars == <<snaps, up, box, req, job, faults, live>>

Parts    == {"nft", "cidrs", "domains"}
Ids      == DOMAIN snaps
NoReq    == [pc |-> "idle", op |-> "apply", config |-> Blank, version |-> 0, snap |-> 0]
NoJob    == [pc |-> "idle", kind |-> "prepare", snap |-> 0, use |-> 0, sound |-> TRUE]
Busy     == {t \in Slots : job[t].pc # "idle"}
Applied  == {i \in Ids : snaps[i].status = "applied"}

\* ORDER BY version DESC LIMIT 1; any of several rows of one version.
Highest(S) == {i \in S : \A j \in S : snaps[j].version <= snaps[i].version}
GetLatestApplied == Highest(Applied)

Fault == faults < MaxFaults /\ faults' = faults + 1

Init ==
    /\ snaps = <<>>
    /\ up = TRUE
    /\ box = [p \in Parts |-> Blank]
    /\ req = [a \in Handlers |-> NoReq]
    /\ job = [t \in Slots |-> NoJob]
    /\ faults = 0
    /\ live = "recorded"

-----------------------------------------------------------------------------
(* The handlers: every read, insert and dispatch is a step of its own.     *)

Answer(a) == req' = [req EXCEPT ![a] = NoReq]

\* The rules may have been edited into anything since the last request.
ApplyRender(a) ==
    /\ req[a].pc = "idle"
    /\ \E c \in Configs : req' = [req EXCEPT ![a].pc = "version", ![a].config = c]
    /\ UNCHANGED <<snaps, up, box, job, faults, live>>

RollbackTarget(a) ==
    /\ req[a].pc = "idle"
    /\ \E i \in Applied :
          req' = [req EXCEPT ![a] = [pc |-> "current", op |-> "rollback",
                    config |-> snaps[i].config, version |-> 0, snap |-> i]]
    /\ UNCHANGED <<snaps, up, box, job, faults, live>>

\* Answered "already on this snapshot" when the target is the latest applied.
RollbackCurrent(a) ==
    /\ req[a].pc = "current"
    /\ \/ req[a].snap \in GetLatestApplied /\ Answer(a)
       \/ /\ GetLatestApplied # {req[a].snap}
          /\ req' = [req EXCEPT ![a].pc = "version"]
    /\ UNCHANGED <<snaps, up, box, job, faults, live>>

\* Nor is it, when the latest applied cannot be read.
CurrentUnread(a) ==
    /\ req[a].pc = "current"
    /\ Fault
    /\ req' = [req EXCEPT ![a].pc = "version"]
    /\ UNCHANGED <<snaps, up, box, job, live>>

NextVersion(a) ==
    /\ req[a].pc = "version"
    /\ req' = [req EXCEPT ![a].pc = "insert",
                          ![a].version = IF Ids = {} THEN 1
                                         ELSE 1 + snaps[CHOOSE i \in Highest(Ids) : TRUE].version]
    /\ UNCHANGED <<snaps, up, box, job, faults, live>>

\* The row Apply collides with: UNIQUE (host_id, config_hash).  Rollback
\* always collides, with its target if with nothing else, and inserts under
\* the hash with a random suffix.
SameHash(c) == {i \in Ids : snaps[i].plain /\ snaps[i].config = c}

InsertSnapshot(a) ==
    /\ req[a].pc = "insert"
    /\ req[a].op = "apply" => SameHash(req[a].config) = {}
    /\ Len(snaps) < MaxSnapshots
    /\ snaps' = Append(snaps, [version |-> req[a].version, config |-> req[a].config,
                               plain |-> req[a].op = "apply", status |-> "pending"])
    /\ req' = [req EXCEPT ![a].pc = "dispatch", ![a].snap = Len(snaps) + 1]
    /\ UNCHANGED <<up, box, job, faults, live>>

\* The idempotent hit: the old row, whatever its version and status.
FindByConfigHash(a) ==
    /\ req[a].pc = "insert"
    /\ req[a].op = "apply"
    /\ \E i \in SameHash(req[a].config) :
          req' = [req EXCEPT ![a].pc = "dispatch", ![a].snap = i]
    /\ UNCHANGED <<snaps, up, box, job, faults, live>>

InsertFails(a) ==
    /\ req[a].pc = "insert"
    /\ Fault
    /\ Answer(a)
    /\ UNCHANGED <<snaps, up, box, job, live>>

\* A goroutine starts: whatever runs next to it is no longer sound.
StartJob(t, j) ==
    job' = [s \in Slots |-> IF s = t THEN [j EXCEPT !.sound = Busy = {}]
                            ELSE [job[s] EXCEPT !.sound = @ /\ s \notin Busy]]

QueueReload(a, t) ==
    /\ req[a].pc = "dispatch"
    /\ t \notin Busy
    /\ StartJob(t, [pc |-> "nft", kind |-> "reload", snap |-> req[a].snap,
                    use |-> req[a].snap, sound |-> TRUE])
    /\ Answer(a)
    /\ UNCHANGED <<snaps, up, box, faults, live>>

\* The dispatch error is logged and the request still answers 2xx.
QueueReloadFails(a) ==
    /\ req[a].pc = "dispatch"
    /\ Fault
    /\ Answer(a)
    /\ UNCHANGED <<snaps, up, box, job, live>>

-----------------------------------------------------------------------------
(* The goroutines.                                                         *)

\* What a goroutine leaves behind.  A sound one ran alone, on a container
\* that did not restart, and saw every command and write after its last
\* change of plan succeed.
\*   "recorded": the latest applied snapshot is the one in the container;
\*   "older": a snapshot is live that is not the latest applied one;
\*   "unknown": an unsound goroutine, a crash or a restart came last.
Finish(t, result) ==
    /\ job' = [job EXCEPT ![t] = NoJob]
    /\ live' = IF job[t].sound THEN result ELSE "unknown"

Prepare(t) ==
    /\ t \notin Busy
    /\ up
    /\ StartJob(t, [NoJob EXCEPT !.pc = "find"])
    /\ UNCHANGED <<snaps, up, box, req, faults, live>>

\* Execute stops the container.
PrepareFails(t) ==
    /\ job' = [job EXCEPT ![t] = NoJob]
    /\ live' = "unknown"
    /\ up' = FALSE

\* Not the code: the rollback does not look for sql.ErrNoRows.
FindLatestOrZero(t) ==
    /\ job[t].pc = "find"
    /\ \/ \E i \in GetLatestApplied :
             job' = [job EXCEPT ![t].pc = "nft", ![t].use = i]
       \/ /\ GetLatestApplied = {}
          /\ job[t].kind = "rollback"
          /\ job' = [job EXCEPT ![t].pc = "nft", ![t].use = 0]
    /\ UNCHANGED <<snaps, up, box, req, faults, live>>

\* GetLatestAppliedBypassSnapshot of reapplyLatest and of the rollback.
FindLatest(t) ==
    /\ job[t].pc = "find"
    /\ \/ \E i \in GetLatestApplied :
             job' = [job EXCEPT ![t].pc = "nft", ![t].use = i]
       \/ /\ GetLatestApplied = {}
          /\ job[t].kind = "rollback"
          /\ job' = [job EXCEPT ![t].pc = "mark", ![t].use = 0]
    /\ UNCHANGED <<snaps, up, box, req, faults, live>>

NothingToReapply(t) ==
    /\ job[t].pc = "find"
    /\ job[t].kind = "prepare"
    /\ GetLatestApplied = {}
    /\ Finish(t, "unknown")
    /\ UNCHANGED <<snaps, up, box, req, faults>>

\* The query fails: a rollback takes it for nothing to go back to, a prepare fails.
FindFails(t) ==
    /\ job[t].pc = "find"
    /\ Fault
    /\ \/ /\ job[t].kind = "rollback"
          /\ job' = [job EXCEPT ![t].pc = "mark", ![t].use = 0]
          /\ UNCHANGED <<up, live>>
       \/ /\ job[t].kind = "prepare"
          /\ PrepareFails(t)
    /\ UNCHANGED <<snaps, box, req>>

Written(kind) == CASE kind = "reload" -> "health" [] kind = "rollback" -> "mark" [] OTHER -> "done"
\* Not the code: the domains file is not written.
NextPartTwo(t) == IF job[t].pc = "nft" THEN "cidrs" ELSE Written(job[t].kind)
NextPart(t) == CASE job[t].pc = "nft"     -> "cidrs"
                 [] job[t].pc = "cidrs"   -> "domains"
                 [] job[t].pc = "domains" -> Written(job[t].kind)

\* ApplyBypassRuleSet: nft, then the two files, one docker exec each.
WritePart(t) ==
    /\ job[t].pc \in Parts
    /\ up
    /\ box' = [box EXCEPT ![job[t].pc] = snaps[job[t].use].config]
    /\ IF NextPart(t) = "done" THEN Finish(t, "recorded")
       ELSE job' = [job EXCEPT ![t].pc = NextPart(t)] /\ UNCHANGED live
    /\ UNCHANGED <<snaps, up, req, faults>>

ExecFails == \/ ~up /\ UNCHANGED faults
             \/ up /\ Fault

\* A reload turns into its rollback; a rollback that cannot write marks its
\* snapshot all the same; a prepare fails.
WriteFails(t) ==
    /\ job[t].pc \in Parts
    /\ ExecFails
    /\ \/ /\ job[t].kind = "reload"
          /\ job' = [job EXCEPT ![t].kind = "rollback", ![t].pc = "find"]
          /\ UNCHANGED <<up, live>>
       \/ /\ job[t].kind = "rollback"
          /\ job' = [job EXCEPT ![t].pc = "mark", ![t].sound = FALSE]
          /\ UNCHANGED <<up, live>>
       \/ /\ job[t].kind = "prepare"
          /\ PrepareFails(t)
    /\ UNCHANGED <<snaps, box, req>>

Healthy(t) ==
    /\ job[t].pc = "health"
    /\ up
    /\ job' = [job EXCEPT ![t].pc = "mark"]
    /\ UNCHANGED <<snaps, up, box, req, faults, live>>

HealthExhausted(t) ==
    /\ job[t].pc = "health"
    /\ ExecFails
    /\ job' = [job EXCEPT ![t].kind = "rollback", ![t].pc = "find"]
    /\ UNCHANGED <<snaps, up, box, req, live>>

\* Not the code: a snapshot that was rolled back is marked applied.
VerdictApplied(j) == IF j.kind # "reload" /\ j.use = 0 THEN "failed" ELSE "applied"

Verdict(j) == CASE j.kind = "reload" -> "applied"
                [] j.use = 0         -> "failed"
                [] OTHER             -> "rolled_back"

\* A reload is recorded when no other applied row is as high; a rollback when
\* it went back to another row; a snapshot that failed with nothing to go
\* back to stays in the container, whole or not.
Outcome(j) ==
    CASE j.kind = "reload" ->
           IF \E i \in Applied \ {j.snap} : snaps[i].version >= snaps[j.snap].version
           THEN "older" ELSE "recorded"
      [] j.use = 0 -> "unknown"
      [] OTHER     -> IF j.use = j.snap THEN "older" ELSE "recorded"

MarkSnapshot(t) ==
    /\ job[t].pc = "mark"
    /\ snaps' = [snaps EXCEPT ![job[t].snap].status = Verdict(job[t])]
    /\ Finish(t, Outcome(job[t]))
    /\ UNCHANGED <<up, box, req, faults>>

\* `_, _ = w.repo.UpdateBypassSnapshotStatus(...)`
MarkLost(t) ==
    /\ job[t].pc = "mark"
    /\ Fault
    /\ Finish(t, "unknown")
    /\ UNCHANGED <<snaps, up, box, req>>

-----------------------------------------------------------------------------
(* The container and the process.  A stop is an administrator's, counted    *)
(* with the faults because it makes the commands of a goroutine fail.      *)

ContainerStops ==
    /\ up
    /\ Fault
    /\ up' = FALSE
    /\ UNCHANGED <<snaps, box, req, job, live>>

\* entrypoint.sh: a fresh nft ruleset and two empty rule-set files.
\* startHost does not reapply the snapshot; only prepare does.
ContainerStarts ==
    /\ ~up
    /\ up' = TRUE
    /\ box' = [p \in Parts |-> Blank]
    /\ job' = [t \in Slots |-> [job[t] EXCEPT !.sound = @ /\ t \notin Busy]]
    /\ live' = "unknown"
    /\ UNCHANGED <<snaps, req, faults>>

\* The control plane dies with its requests and its goroutines; nothing ever
\* looks at a snapshot that is left pending.
Restart ==
    /\ Fault
    /\ req' = [a \in Handlers |-> NoReq]
    /\ job' = [t \in Slots |-> NoJob]
    /\ live' = IF Busy = {} THEN live ELSE "unknown"
    /\ UNCHANGED <<snaps, up, box>>

Handle(a) ==
    \/ ApplyRender(a) \/ RollbackTarget(a) \/ RollbackCurrent(a) \/ CurrentUnread(a)
    \/ NextVersion(a)
    \/ InsertSnapshot(a) \/ FindByConfigHash(a) \/ InsertFails(a)
    \/ (\E t \in Slots : QueueReload(a, t)) \/ QueueReloadFails(a)

Work(t) ==
    \/ Prepare(t) \/ FindLatest(t) \/ FindFails(t) \/ NothingToReapply(t)
    \/ WritePart(t) \/ WriteFails(t) \/ Healthy(t) \/ HealthExhausted(t)
    \/ MarkSnapshot(t) \/ MarkLost(t)

Next ==
    \/ ContainerStops \/ ContainerStarts \/ Restart
    \/ \E a \in Handlers : Handle(a)
    \/ \E t \in Slots : Work(t)

Spec == Init /\ [][Next]_vars

-----------------------------------------------------------------------------
(* Properties.                                                             *)

\* Every variable stays in its type; a request or a goroutine that names a
\* snapshot names a row that exists.
BypassTypeOK ==
    /\ Len(snaps) <= MaxSnapshots
    /\ \A i \in Ids :
          /\ snaps[i].version \in 1..MaxSnapshots
          /\ snaps[i].config \in Configs
          /\ snaps[i].plain \in BOOLEAN
          /\ snaps[i].status \in {"pending", "applied", "failed", "rolled_back"}
    /\ box \in [Parts -> Configs \cup {Blank}]
    /\ \A a \in Handlers : req[a].pc \in {"current", "dispatch"} => req[a].snap \in Ids
    /\ \A t \in Busy :
          /\ job[t].kind # "prepare" => job[t].snap \in Ids
          /\ job[t].pc \in Parts \cup {"health"} => job[t].use \in Ids
    /\ faults \in 0..MaxFaults
    /\ live \in {"recorded", "older", "unknown"}

AtRest == up /\ Busy = {}

\* The nft set and the rule-set files are three separate commands.  When the
\* last goroutine was sound, whatever it did (a reload, a reload that failed
\* half way and was rolled back, a prepare), the three agree: a packet is
\* never allowed by one list and routed by another.
NotTorn ==
    AtRest /\ live # "unknown" =>
        \A p, q \in Parts : box[p] = box[q]

\* When the last goroutine was sound and no older snapshot was brought back
\* through its hash, the container runs the latest applied snapshot, which is
\* what Preview diffs against, what Rollback compares its target with and
\* what the next prepare writes.
LatestIsLive ==
    AtRest /\ live = "recorded" /\ Applied # {} =>
        \A i \in GetLatestApplied : \A p \in Parts : box[p] = snaps[i].config
=============================================================================
