----------------------------- MODULE QueryCache -----------------------------
(***************************************************************************)
(* The hooks of the web console: which tables of the server a query shows, *)
(* which of them a mutation writes, and which query keys it tells to ask   *)
(* again.  The cache is that of react-query, external to the repository.   *)
(*                                                                         *)
(* Queries do not meet each other: a behaviour follows one of them, chosen *)
(* at the start, through the pages and the mutations of this console.      *)
(* What others write reaches a page by polls and events (EventFeed).       *)
(***************************************************************************)
EXTENDS Integers, FiniteSets, SequencesExt

CONSTANTS
    MaxPages,   \* bound: pages visited
    MaxChanges, \* bound: mutations sent
    MaxLosses   \* bound: answers the network loses

ASSUME CacheAssumption == {MaxPages, MaxChanges, MaxLosses} \subseteq Nat

-----------------------------------------------------------------------------
(* What the hooks declare.  A query: its key, the pages that mount it, the *)
(* tables its answer is made of, whether it polls ("maybe": only while its *)
(* last answer says so), and whether an answer stays good for a while      *)
(* (staleTime).  A mutation: its pages, the tables its request writes, the *)
(* keys its success invalidates.                                           *)

Query(key, pages, reads, polls) ==
    [key |-> key, on |-> pages, reads |-> reads, polls |-> polls, kept |-> FALSE]
Keeping(q) == [q EXCEPT !.kept = TRUE]

Mutation(name, pages, writes, tells) ==
    [name |-> name, on |-> pages, writes |-> writes, tells |-> tells]

Hooks(qs, ms) == [queries |-> qs, mutations |-> ms]

HostListHooks == Hooks(
    {Query(<<"hosts">>, {"hosts"}, {"host", "binding", "egress", "user"}, "yes"),
     Query(<<"hosts", "h">>, {"host"}, {"host", "binding", "egress", "user"}, "yes")}, {})

HostMutationHooks == Hooks(
    {Query(<<"hosts", "h", "vnc-status">>, {"host"}, {"vnc"}, "yes")},
    {Mutation("createHost", {"hosts"}, {"host", "binding", "task"},
              {<<"hosts">>, <<"dashboard-stats">>, <<"tasks">>}),
     Mutation("updateHostMounts", {"host"}, {"host"}, {<<"hosts", "h">>}),
     Mutation("patchHostResources", {"host"}, {"host"}, {<<"hosts", "h">>}),
     Mutation("hostAction", {"hosts", "host"}, {"task"},
              {<<"hosts", "h">>, <<"hosts">>, <<"dashboard-stats">>, <<"tasks">>}),
     Mutation("deleteHost", {"hosts", "host"}, {"host", "binding"},
              {<<"hosts">>, <<"dashboard-stats">>}),
     Mutation("restartHostVNC", {"host"}, {"vnc"}, {<<"hosts", "h">>, <<"hosts", "h", "vnc-status">>}),
     Mutation("startHostVNC", {"host"}, {"vnc"}, {<<"hosts", "h">>, <<"hosts", "h", "vnc-status">>})})

ClaudeHooks == Hooks(
    {Query(<<"hosts", "h", "claude-info">>, {"host"}, {"home"}, "no"),
     Query(<<"hosts", "h", "claude-status">>, {"host"}, {"claude"}, "yes"),
     Query(<<"hosts", "h", "image-info">>, {"host"}, {"container", "image"}, "yes")},
    {Mutation("updateClaude", {"host"}, {"claude"}, {<<"hosts", "h", "claude-status">>})})

BindingHooks == Hooks(
    {Query(<<"hosts", "h", "logs">>, {"host"}, {"log"}, "yes")},
    {Mutation("bindEgressIP", {"host"}, {"binding"}, {<<"hosts">>, <<"egress-ips">>}),
     Mutation("unbindEgressIP", {"host"}, {"binding"}, {<<"hosts">>, <<"egress-ips">>}),
     Mutation("importHostConfig", {"host"}, {"home"}, {})})

EgressHooks == Hooks(
    {Query(<<"egress-ips">>, {"egress", "host", "hosts"}, {"egress"}, "no"),
     Query(<<"egress-ips", "e">>, {"egress"}, {"egress"}, "no")},
    {Mutation("createEgressIP", {"egress"}, {"egress"}, {<<"egress-ips">>, <<"dashboard-stats">>}),
     Mutation("updateEgressIP", {"egress"}, {"egress"}, {<<"egress-ips">>}),
     Mutation("deleteEgressIP", {"egress"}, {"egress"}, {<<"egress-ips">>, <<"dashboard-stats">>}),
     Mutation("testEgressIPSSE", {"egress"}, {"egress"}, {})})

UserHooks == Hooks(
    {Query(<<"users">>, {"users", "hosts"}, {"user"}, "no"),
     Query(<<"users", "u">>, {"user"}, {"user", "host"}, "no")},
    {Mutation("createUser", {"users"}, {"user", "key"}, {<<"users">>}),
     Mutation("regenerateCredentials", {"user"}, {"user", "key"},
              {<<"users", "u">>, <<"ssh-keys", "u">>}),
     Mutation("updateUserStatus", {"users", "user"}, {"user"}, {<<"users">>}),
     Mutation("updateUserExpiry", {"user"}, {"user"}, {<<"users">>, <<"users", "u">>}),
     Mutation("deleteUser", {"users", "user"}, {"user", "host", "key"}, {<<"users">>})})

KeyHooks == Hooks(
    {Query(<<"admin", "ssh-keys", "u">>, {"user"}, {"key"}, "no"),
     Query(<<"portal", "ssh-keys">>, {"portal-host"}, {"key"}, "no")},
    {Mutation("adminCreateSSHKey", {"user"}, {"key"}, {<<"admin", "ssh-keys", "u">>}),
     Mutation("adminDeleteSSHKey", {"user"}, {"key"}, {<<"admin", "ssh-keys", "u">>}),
     Mutation("myCreateSSHKey", {"portal-host"}, {"key"}, {<<"portal", "ssh-keys">>}),
     Mutation("myDeleteSSHKey", {"portal-host"}, {"key"}, {<<"portal", "ssh-keys">>})})

\* A tracked task, whose row only the worker changes, is polled until that row has
\* ended, or for ever when it is not listed.
TaskHooks == Hooks(
    {Query(<<"tasks">>, {"tasks", "hosts"}, {"task"}, "yes"),
     Query(<<"tasks", "t">>, {"hosts", "host"}, {"progress"}, "maybe")}, {})

EventHooks == Hooks({Query(<<"events">>, {"events", "dashboard"}, {"event"}, "yes")}, {})

ImageHooks == Hooks(
    {Query(<<"image-status">>, {"dashboard"}, {"image"}, "yes")},
    {Mutation("refreshImage", {"dashboard"}, {"image"}, {<<"image-status">>})})

StatsHook == Hooks({Query(<<"dashboard-stats">>, {"dashboard"}, {"user", "host", "egress"}, "no")}, {})

BypassHooks == Hooks(
    {Keeping(Query(<<"bypass", "effective", "h">>, {"host"}, {"rule", "preset-binding"}, "no")),
     Keeping(Query(<<"bypass", "audit-log", "h", "">>, {"host"}, {"audit"}, "no")),
     Keeping(Query(<<"bypass", "consistency", "h">>, {"host"}, {"container"}, "no"))},
    {Mutation("applyBypass", {"host"}, {"snapshot", "task", "audit"},
              {<<"bypass", "bindings", "h">>, <<"bypass", "rules", "h">>,
               <<"bypass", "effective", "h">>, <<"bypass", "audit-log", "h">>})})

BypassRuleHooks == Hooks(
    {Keeping(Query(<<"bypass", "rules", "h">>, {"host"}, {"rule"}, "no"))},
    {Mutation("createBypassRule", {"host"}, {"rule", "audit"}, {<<"bypass", "rules", "h">>}),
     Mutation("updateBypassRule", {"host"}, {"rule", "audit"}, {<<"bypass", "rules", "h">>}),
     Mutation("deleteBypassRule", {"host"}, {"rule", "audit"}, {<<"bypass", "rules", "h">>})})

BypassBindingHooks == Hooks(
    {Keeping(Query(<<"bypass", "bindings", "h">>, {"host"}, {"preset-binding"}, "no"))},
    {Mutation("createBypassBinding", {"host"}, {"preset-binding", "audit"}, {<<"bypass", "bindings", "h">>}),
     Mutation("deleteBypassBinding", {"host"}, {"preset-binding", "audit"}, {<<"bypass", "bindings", "h">>})})

PresetHook == Hooks({Keeping(Query(<<"bypass", "presets">>, {"host"}, {"preset"}, "no"))}, {})

PortalHooks == Hooks(
    {Query(<<"portal", "hosts">>, {"portal"}, {"host", "binding", "egress"}, "yes"),
     Query(<<"portal", "hosts", "h">>, {"portal-host"}, {"host", "binding", "egress"}, "maybe"),
     Query(<<"portal", "hosts", "h", "vnc-status">>, {"portal-host"}, {"vnc"}, "yes")},
    {Mutation("rebuildHost", {"portal-host"}, {"task"}, {<<"portal", "hosts">>}),
     Mutation("restartMyHostVNC", {"portal-host"}, {"vnc"},
              {<<"portal", "hosts", "h">>, <<"portal", "hosts", "h", "vnc-status">>}),
     Mutation("startMyHostVNC", {"portal-host"}, {"vnc"},
              {<<"portal", "hosts", "h">>, <<"portal", "hosts", "h", "vnc-status">>})})

AllHooks == {HostListHooks, HostMutationHooks, ClaudeHooks, BindingHooks, EgressHooks, UserHooks,
             KeyHooks, TaskHooks, EventHooks, ImageHooks, StatsHook, BypassHooks, BypassRuleHooks,
             BypassBindingHooks, PresetHook, PortalHooks}

Queries   == UNION {h.queries : h \in AllHooks}
Mutations == UNION {h.mutations : h \in AllHooks}
PageNames == UNION {q.on : q \in Queries}

-----------------------------------------------------------------------------
VARIABLES
    query,     \* the query this behaviour follows
    shownPage, \* the page on the screen
    lacks,     \* writes that what the query shows does not have
    fetch,     \* the fetch: "none", "asked", "answered" or "failed", and what its answer lacks
    invalid,   \* told to ask again
    sent,      \* mutation -> "no", "sent" or "applied"
    untold,    \* mutations whose outcome the query was never told (history)
    visits, changes, losses

cacheVars == <<query, shownPage, lacks, fetch, invalid, sent, untold, visits, changes, losses>>

Mounted      == shownPage \in query.on
Fetch(step)  == [is |-> step, lacks |-> {}]
Resting      == fetch.is \in {"none", "failed"}

\* The mutations of the pages that show the query, as far as they concern it.
Beside ==
    {m \in Mutations: /\ m.on \cap query.on # {}
                     /\ (m.writes \cap query.reads # {} \/ \E k \in m.tells: IsPrefix(k, query.key))}
Names == {m.name : m \in Beside}

CacheInit ==
    /\ query \in Queries
    /\ shownPage \in PageNames
    /\ lacks = {} /\ fetch = Fetch("none") /\ invalid = FALSE
    /\ sent = [n \in Names |-> "no"]
    /\ untold = {}
    /\ visits = 0 /\ changes = 0 /\ losses = 0

Tells(m) == \E k \in m.tells: IsPrefix(k, query.key)

\* A write: what is shown, or on its way, is older.
Outdate(m) ==
    /\ lacks' = lacks \cup {m.name}
    /\ fetch' = IF fetch.is = "answered" THEN [fetch EXCEPT !.lacks = @ \cup {m.name}] ELSE fetch

\* Not the code: a fetch under way will do.
InvalidateLazily ==
    IF Mounted /\ Resting THEN fetch' = Fetch("asked") /\ invalid' = FALSE
                          ELSE invalid' = TRUE /\ UNCHANGED fetch

\* invalidateQueries, and refetchQueries on what is mounted: what is under way is
\* dropped and asked for anew.
Invalidate ==
    IF Mounted THEN fetch' = Fetch("asked") /\ invalid' = FALSE
               ELSE invalid' = TRUE /\ UNCHANGED fetch

-----------------------------------------------------------------------------
(* A mutation.                                                             *)

Mutate(m) ==
    /\ shownPage \in m.on /\ sent[m.name] = "no"
    /\ changes < MaxChanges /\ changes' = changes + 1
    /\ sent' = [sent EXCEPT ![m.name] = "sent"]
    /\ UNCHANGED <<query, shownPage, lacks, fetch, invalid, untold, visits, losses>>

Apply(m) ==
    /\ sent[m.name] = "sent"
    /\ sent' = [sent EXCEPT ![m.name] = "applied"]
    /\ IF m.writes \cap query.reads # {} THEN Outdate(m) ELSE UNCHANGED <<lacks, fetch>>
    /\ UNCHANGED <<query, shownPage, invalid, untold, visits, changes, losses>>

\* Not the code: the page shows what was sent before it is fetched.
SucceedOptimistically(m) ==
    /\ sent[m.name] = "applied"
    /\ sent' = [sent EXCEPT ![m.name] = "no"]
    /\ IF Tells(m) THEN Invalidate ELSE UNCHANGED <<fetch, invalid>>
    /\ lacks' = lacks \ {m.name}
    /\ UNCHANGED <<query, shownPage, untold, visits, changes, losses>>

\* onSuccess of the hook.  When the query is not mounted, and a fetch of it is still
\* under way, the end of that fetch will take the mark away.
Succeed(m) ==
    /\ sent[m.name] = "applied"
    /\ sent' = [sent EXCEPT ![m.name] = "no"]
    /\ IF Tells(m) THEN Invalidate ELSE UNCHANGED <<fetch, invalid>>
    /\ untold' = IF Mounted \/ Resting THEN untold \ {m.name} ELSE untold \cup {m.name}
    /\ UNCHANGED <<query, shownPage, lacks, visits, changes, losses>>

\* The request is refused, or the answer to it is lost and the user is told that it
\* failed.
Fail(m) ==
    /\ sent[m.name] # "no"
    /\ sent' = [sent EXCEPT ![m.name] = "no"]
    /\ losses < MaxLosses /\ losses' = losses + 1
    /\ untold' = untold \cup {m.name}
    /\ UNCHANGED <<query, shownPage, lacks, fetch, invalid, visits, changes>>

-----------------------------------------------------------------------------
(* The query.                                                              *)

\* An observer mounts: it asks unless what is there is kept; a fetch that is under
\* way serves it too.
Visit(p) ==
    /\ p # shownPage
    /\ visits < MaxPages /\ visits' = visits + 1
    /\ shownPage' = p
    /\ \E aged \in IF query.kept THEN BOOLEAN ELSE {TRUE}:
          LET asks == p \in query.on /\ Resting /\ (aged \/ invalid)
          IN  /\ fetch' = IF asks THEN Fetch("asked") ELSE fetch
              /\ invalid' = IF asks THEN FALSE ELSE invalid
    /\ UNCHANGED <<query, lacks, sent, untold, changes, losses>>

Poll(kinds) ==
    /\ Mounted /\ Resting /\ query.polls \in kinds
    /\ fetch' = Fetch("asked")
    /\ UNCHANGED <<query, shownPage, lacks, invalid, sent, untold, visits, changes, losses>>

ServerAnswers ==
    /\ fetch.is = "asked"
    /\ fetch' = Fetch("answered")
    /\ UNCHANGED <<query, shownPage, lacks, invalid, sent, untold, visits, changes, losses>>

AnswerArrives ==
    /\ fetch.is = "answered"
    /\ lacks' = fetch.lacks
    /\ fetch' = Fetch("none") /\ invalid' = FALSE
    /\ UNCHANGED <<query, shownPage, sent, untold, visits, changes, losses>>

\* After the one retry: the page shows the error, or keeps what it has.
FetchFails ==
    /\ ~Resting
    /\ losses < MaxLosses /\ losses' = losses + 1
    /\ fetch' = Fetch("failed")
    /\ UNCHANGED <<query, shownPage, lacks, invalid, sent, untold, visits, changes>>

-----------------------------------------------------------------------------
CacheNext ==
    \/ \E m \in Beside: Mutate(m) \/ Apply(m) \/ Succeed(m) \/ Fail(m)
    \/ \E p \in PageNames: Visit(p)
    \/ Poll({"yes", "maybe"}) \/ ServerAnswers \/ AnswerArrives \/ FetchFails

CacheSpec == CacheInit /\ [][CacheNext]_cacheVars

-----------------------------------------------------------------------------
(* Types of all variables.                                                 *)
CacheTypeOK ==
    LET names == Names
    IN  /\ query \in Queries /\ shownPage \in PageNames
        /\ lacks \subseteq names
        /\ fetch \in [is: {"none", "asked", "answered", "failed"}, lacks: SUBSET lacks]
        /\ invalid \in BOOLEAN
        /\ sent \in [names -> {"no", "sent", "applied"}]
        /\ untold \subseteq names
        /\ visits \in 0..MaxPages /\ changes \in 0..MaxChanges /\ losses \in 0..MaxLosses

\* What no hook repairs: the key list of the user's page after new credentials
\* (use-users.ts invalidates a key that no query has), what is read from the home
\* directory after an import, the addresses a test has found, and two panels of the
\* bypass section after a change of a rule or a preset.  A deleted user's keys are
\* not shown again.
Unrepaired ==
    {<<"regenerateCredentials", <<"admin", "ssh-keys", "u">>>>,
     <<"deleteUser", <<"admin", "ssh-keys", "u">>>>,
     <<"importHostConfig", <<"hosts", "h", "claude-info">>>>,
     <<"testEgressIPSSE", <<"egress-ips">>>>,
     <<"testEgressIPSSE", <<"egress-ips", "e">>>>}
    \cup ({"createBypassRule", "updateBypassRule", "deleteBypassRule",
           "createBypassBinding", "deleteBypassBinding"}
          \X {<<"bypass", "effective", "h">>, <<"bypass", "audit-log", "h", "">>})

Repairing(name) ==
    \/ fetch.is \in {"asked", "failed"}
    \/ fetch.is = "answered" /\ name \notin fetch.lacks

(* What a mutation has outdated on its own page, and no poll brings back,  *)
(* is being fetched again once the mutation has succeeded: however the     *)
(* pages, the fetches under way and the answers follow each other.         *)
OwnWritesShown ==
    (Mounted /\ query.polls # "yes") =>
        \A m \in Beside:
            (m.name \in lacks \ untold /\ sent[m.name] = "no") =>
                Repairing(m.name) \/ <<m.name, query.key>> \in Unrepaired
=============================================================================
