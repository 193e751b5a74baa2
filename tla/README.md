# Cloud CLI Proxy: TLA+ models, checks and proofs

This directory specifies the parts of Cloud CLI Proxy whose correctness depends on the
order in which goroutines, processes, commands, database writes, requests, answers, timers
and clicks happen. Each module is translated from the Go, shell and TypeScript sources;
`PROJECT.json` maps every definition to the lines it stands for, and lists the runs,
hazards, findings and theorems.

## 1. The system

A control plane (one Go process with a SQLite database) manages *hosts*: one docker
container per user, whose only way out is a sing-box tunnel bound to an egress IP. Actions
on a host run as *tasks*, either inside the control plane (`HOST_AGENT_MODE=embedded`) or in
a host-agent behind a unix socket. A web console (React, react-query) shows and changes all
of it, for administrators and for users; it learns of changes by polls and by an event
stream. A terminal client (`cloud-claude`) attaches to the container over SSH and reconnects
when the line drops.

The server and the client:

| Component | State it keeps | Operations | Talks to |
|---|---|---|---|
| host action execution (`internal/runtime`, `internal/agent*`) | `tasks` rows, one goroutine per task | QueueHostAction, Dispatch, create / start / stop / rebuild / prepare | docker, network provider, `hosts.status` |
| network provider (`internal/network`) | `gateway/<host>/config.json`, rule sets in the container | PrepareGateway, CleanupHost, validation, ApplyBypassRuleSet | the container, by bind mount and `docker exec` |
| scheduler (`internal/controlplane/scheduler`) | last prepare per host | reconciler round, expiry scan | repository, docker inspect, QueueHostAction |
| HTTP handlers (`internal/controlplane/http`) | none of their own: they read, answer and write | create, start, stop, rebuild, delete, bind, unbind, user status and expiry, egress addresses, rules | repository, QueueHostAction, docker |
| bypass snapshots | `host_bypass_snapshots`, the live rule set | Apply, Rollback, reload, health check, automatic rollback, reapply | worker, container |
| SSE hub (`internal/broadcast`) | clients and their channels | Subscribe, Broadcast, Unsubscribe | handlers, browsers |
| control plane process (`controlplane/app`) | goroutines | start, periodic jobs, stop | all of the above |
| terminal reconnect (`internal/cloudclaude`) | ring buffer, reconnect state, one shared pipe | BufferedStdin, Reconnector, keepalive, attach loop | SSH sessions |
| container entrypoint (`deploy/docker/managed-user`) | rule sets, processes | start, exit without `config.json` | docker's restart policy |

The web console (`web/admin/src`):

| Component | State it keeps | Operations | Talks to |
|---|---|---|---|
| sessions (`lib/auth.ts`, `lib/api.ts`, guards) | three keys of `localStorage` shared by all tabs, a cookie | sign in, switch, remove, clear, guard a route, refuse on 401 | the other tabs, every request |
| event feed (`lib/sse-manager.ts`) | one EventSource per URL with listeners and a reconnect timer | subscribe, reconnect with backoff, give up | hub, queries |
| queries and mutations (`hooks/*`) | react-query's cache | ask, poll, write, invalidate | every page |
| bypass section (`components/bypass`) | baseline, drawer, confirmation, progress of an apply | edit, import, restore, apply | rule and snapshot handlers |
| host pages (`routes/**/hosts`, rebuild and creation dialogs) | which dialog is open, tasks followed | act, delete, rebuild, upgrade, create, open the desktop | host handlers |
| host configuration and paths | drafts of limits and mounts, the change of the address, lists and choosers of paths | edit, save, change, pick | host, binding and file handlers |
| egress addresses | the form of a proxy, results of tests | fill, convert, import a link, save, test | egress handlers, probe stream |
| users and keys | secrets that are shown once | create, rotate, regenerate, add and delete keys | user and key handlers |
| other pages | nothing of their own | lists, figures | queries |

What makes the modelled parts hard:

- Nothing serialises the tasks of one host. Handlers, scanner and reconciler queue an
  action whenever they like, and the goroutines interleave at every docker command.
- `hosts.status`, the task row, docker's own state and `config.json` are four records of
  one fact, written in separate steps, and several error returns are dropped.
- A handler, a job or a dialog reads a status and acts on it later.
- The control plane and host-agent die separately; a 30 s client timeout cancels the
  context the agent's cleanup would have used.
- A rule set goes live in three commands. The row that records it is written afterwards.
- The keyboard goroutine, the reconnect loop and the stdin copiers of several SSH sessions
  share one `io.Pipe` and two mutexes.
- Tabs share three keys of `localStorage` without a lock, and read and write them one by
  one; a 401 clears whatever session is current when it arrives; `window.location` does not
  stop the page that sets it.
- An answer arrives in a page that has changed: a dialog was closed or opened again, a poll
  has replaced what was shown, the row it was about has another index.
- Plain texts of passwords and keys exist in one answer and are never to be had again.

What makes each component correct: when a host is at rest, the database and docker agree;
every task row ends; a lost container is noticed and a failed host retried; the three parts
of a rule set belong together and to the snapshot the database calls applied; typed keys
arrive in order, once, and none is unaccounted for; a reconnect ends; the keys of the
browser tell one story to every tab; a feed that somebody listens to is not deaf; a page
shows its own writes; what a user has typed, generated or been warned of is what is saved,
shown and done. Sections 3 and 4 say which of these hold of the code, and under which
conditions. `PROJECT.json` "hazards" gives the lines at which each could fail.

## 2. The modules

```
HostWorker  <-- HostControl                   the host's tasks and their callers
BypassSnapshot      StdinReconnect            independent
Sessions ==refines==> RecentAccounts          the browser's sessions
EventFeed                                     hub, stream, list
BypassTab  HostPages  HostConfig  PathChooser     } MCHostScreens: one screen per behaviour
QueryCache  ProxyForm  ProbeTests  UserPages      } MCDataScreens: one screen per behaviour
Filters  <-- Sessions, RecentAccounts, PathChooser     Array.prototype.filter
MC*                                           small instances for TLC

Theorems (TLAPS):
HostControlProofs                             HostWorker, HostControl
BypassSnapshotProofs  StdinReconnectProofs  EventFeedProofs
FilterProofs  <-- SessionsProofs              Sessions, RecentAccounts
              <-- HostScreensProofs           MCHostScreens and its four screens
DataScreensProofs                             MCDataScreens and its four screens
```

### HostWorker

The execution side of a task, one external command per step.

| TLA+ | code |
|---|---|
| `status`, `bound` | `hosts.status`; a usable row of `host_egress_bindings` |
| `container` | docker's state of `cloudproxy-<host>`; `looping` is a container that exits for want of `config.json` and is restarted by docker |
| `config` | `gateway/<host>/config.json` exists |
| `thost`, `kind`, `pc` | the goroutine: `request.HostID`, `request.Action`, the next command |
| `row`, `orphans` | `tasks.status`; hosts that have a pending or running row nobody will end |
| `faults`, `clean` | bound on faults; history of the disturbances listed at `Disturb` |

Actions follow `worker.go`: `Validate`, `Exists`, `StartGateway`, `DockerStart`,
`WaitForSSH` are startHost; `RemoveOld` to `UndoGateway` are createHost with its deferred
cleanup; `DockerStop`, `StopCleanup` are stopHost; `RebuildRemove`, `RebuildCleanup` are
what rebuildHost adds; `CheckRunning`, `Reapply` are prepareExistingHost; `ErrStop`,
`ErrHost`, `OkHost`, `FinishTask` are the ends of Execute and Dispatch. Faults:
a command or query fails, docker inspect's error is read as "no such container", a docker
stop or a status write is lost, an action panics, the dispatch is lost, the client times
out, the process restarts, somebody else stops or removes the container. Callers are left
open: anybody may queue, bind, unbind, remove, delete or mark at any time.

`Remote` selects the deployment. The documented default is the socket; at this commit no
command in `cmd/` starts the agent's server, so both settings are modelled.

### HostControl

Extends HostWorker with its callers: the requests of operators and users, the expiry
scanner, the reconciler, and a restart of the process. Handlers that check first and write
later (`create`, `delete`, `bind`, `unbind`) hold a slot in `req` between the two. A
reconciler round is `ReconBegin` (query), `ReconInspect` (docker inspect of one host), one
of `ReconPrepare`, `ReconStart`, `ReconRefused` + `ReconDrift`, and `ReconStale`
(MarkStaleTasks); `ScanList`, `ScanMark`, `ScanStop` are the scanner. `ControlSpec`
implements `HostWorker!Spec` with the same variables: `WorkerSteps`, checked and proved.

### BypassSnapshot

One host's snapshots: request steps (render, next version, insert or find by hash,
dispatch), goroutine steps (find the latest applied row, write nft, write the CIDR file,
write the domain file, health check, mark), stops and starts of the container and crashes. A query
that fails has its own steps: a rollback that cannot read the latest applied row goes on
(`CurrentUnread`), an automatic rollback takes it for nothing to go back to and a prepare
fails and stops the container (`FindFails`).
A snapshot's contents are one member of `Configs`; the in-container state is one such
member per part. `live` is a history variable that says what the last goroutine may be held
to: `recorded` when it ran alone and everything since its last change of plan succeeded,
`older` when it did but knowingly left a snapshot live that is not the latest applied one,
`unknown` otherwise.

### StdinReconnect

The keyboard goroutine, the attach and reconnect loop with `Flush`, and the copier that
`golang.org/x/crypto/ssh` starts per session, which is external and modelled from how the
client uses it. A key is its position; `fate` records where each key ended. The two mutexes
are derived from the places of the two goroutines (`EchoFree`, `RingFree`).

### Sessions, RecentAccounts

`Sessions` has the three keys of `localStorage` (`sessions`, `currentId`, `token`), the
cookie, and per tab the layout it shows, the path it is leaving for, the sign-in and the
calls it has under way. A token is an account and the number of the sign-in.

A tab runs one handler at a time, the tabs run at once, and nothing locks the keys. So a
handler is several steps: it reads and computes (an action like `Logout`, which fills `due`
with the keys it will write and `put` with their values, through `GetCurrentSession` to
`ClearAllSessions` of `lib/auth.ts`), writes key by key (`WriteKey`), and where the code
reads again after a write, reads again (`todo`: `KeepOthers` for what is left when an
account was removed, `Look` for what the page lists and the guard of the path it goes to).
After each the other tabs run. A sign-in is `SubmitLogin`, `IssueToken` (the server),
`LoginSucceeds`. The reads of one handler between two writes are one step: they see one
state of the store. `solo`, `met` and `tidy` are histories of which handlers have met.

The layouts' `beforeLoad` is `Route`; `lib/api.ts` is `Send`, `Answer`, `Refuse`; the
storage event is `Notice`. The middleware is `Authorized`: the header counts, and the cookie
when there is none. `quiet` are the pages of the console whose queries have neither a poll
nor an event stream (users, egress addresses); from them only a form sends anything. A tab
the user does not look at (`Watched`) does not poll at all.

`RecentAccounts` is the abstract specification of the list, "accounts in the order of their
last use". A tab plans the next list from the one it finds and carries the plan out later,
so another tab's change in between is lost, in the abstract specification too;
`Sessions!Store` is the refinement mapping, the list about to be written its plan.

### EventFeed

From a row in the database to the list on a page. `record` and `mapped` are the SSE
manager's state per URL, of which an old record may outlive its place in the map; `source`
is an EventSource; `client` is the hub's side with its channel and what is on the wire;
`view`, `fetch` are the query. Reconnects, backoff timers, the give-up after `MaxAttempts`,
the limit of streams per address, full channels, a panic of `Broadcast` on a closed
channel, and writes nobody broadcasts are actions of their own.

### QueryCache

Every hook of the console, declared in the tables `Queries` and `Mutations`: the query key,
the pages that use it, the tables of the server its answer is made of, its poll; the tables
a mutation writes and the keys it invalidates. A behaviour follows one query. `lacks` is the
mutations the shown answer does not have, `untold` those whose outcome the query was never
told. `Apply`, `Outdate` and `ServerAnswers` stand for the server's handlers by the tables
they write and read; react-query is external, modelled as the hooks use it: an answer asked
for before a write may come after it, an invalidation cancels a fetch.

### BypassTab, HostPages, HostConfig, PathChooser

`BypassTab`: rules and preset bindings as rows (`stored`), as shown, and as last applied
(`baseline`); first load with automatic binding, the drawer and the confirmation of short
keywords, import, restore, apply with its dialog, task and 500 ms timer. What the snapshot
does in the container is BypassSnapshot's.

`HostPages`: list, detail and portal page with the status last fetched, dialogs, and
requests in flight (`flights`) that are answered to whatever the page has become. On the
server a host is its row (`host`), its container (`alive`) and its desktop (`vnc`). A
deletion is three steps that nothing holds together: `CheckDelete` reads the status,
`RemoveContainer` removes the container or fails to, which the code ignores, `DeleteRow`
removes the row. A flight's `idle` keeps whether the host was at rest at the check.

`HostConfig`: the change of the egress address, which is two requests (`Unbind` to `Bind`),
and the editors of limits and mounts with their drafts, while polls and other consoles
change what is below them. Folding the section unmounts two of the three components.

`PathChooser`: rows of mounts by index, the list below a field with its 200 ms blur timer,
the chooser, and the rows that are sent. `lib/path-utils.ts` is operators on a root, a
sequence of directories and a trailing separator.

### ProxyForm, ProbeTests, UserPages

`ProxyForm`: the form for six protocols, the JSON text and the share link, the conversions
between them (`FormValuesToConfig`, `ConfigToFormValues`, `ParsedLinks`), and the server
that masks a password and fills the old one in. Of a field only whether it is filled is
kept. Two keys stand for what the conversions lose or add: `extra` is a setting the form
does not read and drops, as it does more than one host or a list given as text; `preset` is
what the form writes unasked, the version of SOCKS and the fingerprint under reality.
The server's update is two steps, `MergeSaved` or, when the row cannot be read, `MergeFails`,
and `UpdateAddress`; another operator may save in between (`OthersSave`).

`ProbeTests`: tests as streams of stages, the hook's state per address, the results the
browser keeps, the dialog. A stream ends with a last event, is cut or refused
(`BreakStream`), is aborted, or ends as it should without a last event that could be read
(`EndStream`), after which nothing changes the hook's state while the page stays.

`UserPages`: what is generated by the server and shown once. A request is a list of parts
(`Parts`) that the server writes one by one without a transaction; `force[p]` is the request
whose value of a part is in force; `secret` and `seen` are the page's.

`MCHostScreens` and `MCDataScreens` conjoin the specifications of screens that share no
variable: a behaviour is one screen, chosen at the start, and the others rest. Each screen
is checked in full; what the screens share, the cache, is QueryCache's subject.

## 3. The properties

One type invariant per module (those of the screens are conjoined in `HostScreensTypeOK`
and `DataScreensTypeOK`). Besides:

- `HaltedIsDown`, `RunningIsUp`: the status of a clean, quiet host agrees with docker (and
  `config.json`). *Quiet*: no task is under way. *Clean*: no two tasks overlapped, none
  died midway, and no error the code drops happened. Without the qualification they are
  false of the code, and it covers only what `Disturb` lists: ordinary command failures,
  lost dispatches, container crashes, refused queues and stale marks are all included.
- `Agreement`: why. At every step, what the task of a clean host relies on. Inductive.
- `WorkerSteps`: the callers stay within HostWorker.
- `TaskSettles`, `LostContainerNoticed`, `FailedIsRetried`, `FailedRecovers`: liveness.
  `FailedRecovers` needs retries that do not overlap: the reconciler queues a start in
  every round in which a host is still failed, and two starts can remove each other's
  container for ever. It is checked with one task slot.
- `NotTorn`, `LatestIsLive`: the parts of a rule set agree, and the latest applied snapshot
  is the live one. They claim nothing while goroutines overlap, where no lock prevents a
  mixture.
- `OrderKept`, `Accounted`, `ReconnectEnds`: order without duplicates, no key in two places
  or none, and a reconnect ends unless no copier is left to read the pipe (`NobodyReads`),
  in which case the client hangs.
- `OneStory`: however handlers of the tabs meet, no account is listed twice; `admin_token`,
  which the probe test reads directly, is the token of the current session once a handler
  ran alone and no key was written since; and while no handlers have ever met, the current
  session is the first of the list. When handlers meet, it need not be (section 4).
- `StoreIsRecentAccounts`: each list that is written is one change of the list that its
  handler read just before, never of an older one.
- `ExpiredTabLeaves`, `SignedOutEverywhere`: a tab in view on a page that polls leaves when its
  token has expired, and after a sign-out of all sessions in another tab, unless it goes to
  a page that does not poll or another session takes the place.
- `NeverDeaf`: a record with listeners has a stream, a timer that will make one, or has
  given up. `ViewCatchesUp`: whatever is lost on the way, the list shows the change in the
  end, because it polls besides.
- `OwnWritesShown`: what a mutation outdated on its own page is being fetched again when it
  succeeds. `Unrepaired` names the pairs of the code for which it is not (section 4).
- `ShortAcknowledged`, `MarksWhatRuns`: no short keyword without an acknowledgement of that
  keyword; "applied" is shown of what a task made live, when no edit came between.
- `DeletedAsWarned`, `PasswordKept`: a deletion takes a running container away only if its
  dialog said that the host runs, or if the host was at rest when the server checked and was
  started between check and removal, which the code does not prevent; the password of a new
  host is not dropped before its task ended.
- `BoundAfterChange`: without an address only between the two requests of a change, or after
  a change that failed or was left there. `TypedKept`: drafts are touched by their user only.
- `PicksMounted`: a picked directory is what the next save mounts, except for the two cases
  named in section 4.
- `ShownDecides`, `UntouchedSaveKeeps`: hidden fields do not reach the configuration (one
  does, reality); a save without a change keeps the type, the password, the transport and
  every setting the form shows, and adds only what the form writes unasked. It asks that the
  stored configuration is what the form was filled from but for the password (`from`), and
  that the handler could read the row and nobody wrote it before the update (`met`); without
  either the code loses a password (section 4).
- `StateFollowsStream`: shown as under test exactly while the newest stream is open or has
  ended without a word; a result shown as done is the newest test's, and every result shown
  is one of that address. `SecretsReach`: what was generated and heard
  is shown or waits in its dialog, and is in force until another request replaces it.

## 4. The runs

Passing runs:

| Run | Bounds | Question |
|---|---|---|
| `HostWorker` | 1 host, 2 tasks, 1 fault, socket mode | do database and docker agree when a host is at rest |
| `HostControl` | 1 host, 2 tasks, 1 request, 1 fault, embedded | do handlers and jobs stay within HostWorker |
| `HostControlLive` | 1 host, 2 tasks, no request, 1 fault, socket mode | do rows end, is a lost container noticed, a failed host retried |
| `HostControlSerial` | 1 host, 1 task, 1 request, 2 faults | does a failed host come back |
| `BypassSnapshot` | 2 configurations, 3 rows, 1 request, 2 goroutines, 1 fault | is what is live what the database says |
| `StdinReconnect` | 4 keys, 2 lost connections, ring of 2, 1 fast retry | order, no key lost track of, no endless reconnect |
| `Sessions` | 2 tabs, 1 in view, an administrator and a user, any list left by an earlier visit, 1 call per tab, 1 sign-in of an account that was not left, 2 clicks | what do tabs that share the keys make of them, does everybody leave who must |
| `EventFeed` | 3 streams, 2 records, 2 listeners, 2 writes, 1 lost connection, 2 attempts, 2 streams per address, channels of 1 | does the list get to know |
| `HostScreens` | bypass: 2 rules, 1 forced preset, 1 edit, 2 applies, 1 visit; pages: 2 requests, 2 page views; configuration: 2 addresses, 2 contents, 2 clicks, 1 change by others; paths: 2 rows, 3 steps | is what the user of a host's pages chose what is done |
| `DataScreens` | cache: 2 pages, 2 mutations, 1 loss; form: every address a link or a text creates, 1 drawer, 1 typing, 1 save beside another operator's; tests: 2 addresses, 3 tests, 1 update; users: 2 requests | is what is shown what is stored, and is what is stored what was shown |

Why these bounds are enough to be interesting: hosts share no state but the task slots, so
one host shows every race on a host; slots are reused, so two are enough for any number of
tasks of which two overlap. One fault can strike at any command of any task, and recovery
(retries, stale marks, rollbacks) follows it; `HostControlSerial` takes two because a retry
may fail too. Three rows and two configurations allow apply A, apply B, and a return to A
by hash or by rollback. Four keys and a ring of two overflow the ring; two lost connections
leave two sessions' copiers behind. Two tabs are the
least that meet between reads and writes; two clicks, besides the polls, refusals and storage
events that nothing bounds, let one tab switch, remove or sign out inside a handler of the
other or between its request and the refusal. The lists of an earlier visit spare the clicks
that would make them. Two records are an old and a new subscription of one URL, and
three streams are one more than the hub allows. Two requests of one page are the least that
answer in the other order, with a page view between; the third test of two addresses is a
second one of one of them. The form starts from every address a share link can create
and from a text that says more, so one typing reaches every combination of fields; the other
operator saves at any time, so once before the form is filled, once between it and the
request, and once between the two halves of the update. The bounds are guards of the actions
they limit; reconciler, scanner, tasks, reconnects, polls and expiry are not bounded.

`HostControl` starts from a new host or from one that has been running, stopped or unbound
for long, since one request would not get there. Symmetry (task slots, configurations,
rules, addresses and contents) is used in runs without liveness only. The `VIEW`s drop
values that are written again before they are read: the verdict shown by an idle slot's row,
the rule set of a container that is down, `live` while a goroutine runs, a JSON text that is
not shown; and the variables of the screens that rest. Runs of screens and of the client do
not check for deadlock: a bounded user stops.

Violations. Each checks one statement of the repository's documents or comments and finds
the code does not keep it:

| Run | Statement | What happens |
|---|---|---|
| `ExpiryRace` | README: a host stops when its user expires | the reconciler inspects the container the scanner has just stopped, queues a start, and an expired user is never scanned again |
| `StdinLoss` | README and session.go: no input is lost over a reconnect | Flush writes before the new session exists and the old session's copier swallows it |

Other disagreements met while modelling. The model has each of these steps, and a property
that would be broken by one is stated without it:

- `reconciler.go:97`: a start decided before a stop finished runs after it
  (`e2e-scenarios.md:85` says the host ends stopped); the cause is `ExpiryRace`'s.
- `admin_bindings.go:146`, `admin_hosts.go:241`: status, or the user's existing host, is
  checked, then something else happens, then the row is written. `Unbind` can take the
  address of a host that has just come up; two creates of one user make the second an
  update of a live host to `pending`.
- `admin_bypass_snapshots.go:339`: apply A, apply B, apply A dispatches the old row of A
  again under its old version, so B stays the latest applied row while A is live.
- `expiry.go:55`: the scanner marks a user expired who was extended or disabled between the
  list and the mark; reactivating an expired user without a new date is undone by the next
  scan.
- `binding-manager.tsx:53`: unbind and bind are two requests, the second sent from the
  callback of the first; a host without an address cannot be given one from this page at
  all, although it says a host always has one (`$hostId.tsx:520`).
- `useRegenerateCredentials` invalidates `["ssh-keys", ...]` while the list's key is
  `["admin", "ssh-keys", ...]`, so the list keeps the old row. It heads
  `Unrepaired`, with what no hook invalidates at all: what an import brings into the home
  directory, the address a test has found, two panels of the bypass section after an edit.
- `bypass-tab.tsx:79`: with the default filters an edit can be hidden and still be applied;
  `egress-ips/index.tsx:124`: a test's dialog opens by itself at the end.
- `lib/auth.ts:112-218`: two tabs whose handlers meet undo each other. A list read before
  another tab removed a session brings the session back; keys written in turns leave
  `admin_token` the token of another account than the current one, and the probe test
  (`use-egress-ips.ts:148`) then goes out under it. The next handler that runs alone repairs
  the token, not the list.
- `use-users.ts:26-38`, `use-egress-ips.ts:42-55`: these pages neither poll nor listen, so a
  tab left there shows its data after the session has expired or was signed out elsewhere.
- `admin_hosts.go:406-415`: a host started between the check and the removal is deleted
  without a warning; a removal that fails leaves a container without a row.
- `admin_egress_ips.go:114-117`: when the row cannot be read, an update goes on without the
  saved password and drops it; `:258-264`: a password set by somebody else between the read
  and the update is overwritten. `proxy-fields.tsx:777-926`: an edit through the form drops
  what only a text can say and rewrites the version of SOCKS and the fingerprint.
- `use-egress-ips.ts:171`, `:199`: a stream that ends without a last event that can be read
  leaves the address shown as under test, and not to be tested again, until the page is left
  or loaded again.
- `sse-manager.ts:90`: after the last attempt the feed gives up until the last listener
  goes; only the poll is left.
- `path-utils.ts:62`: the parent of `C:\a` is the bare `C:`, which is no absolute path. Rows
  with such a source, with a Windows path or with a relative one are left out of a save
  that reports success. The creation dialog's lists write Windows paths untranslated.
- The server takes new mounts of a running host; the manager's list asks the container of a
  stopped host, which answers nothing.
- `mount-manager.tsx:51`: the rows that were sent replace what was typed during the save;
  `$userId.tsx:127`: the success of a save closes a dialog that was opened again.
- `ssh-key-manager.tsx` empties its forms before the answer, so a refused key must be pasted
  again; creating a user and regenerating credentials write part by part, and an error in
  between leaves parts in force that nobody was shown.

## 5. Fairness

`HostControl!Fairness`: weak fairness of every worker goroutine, handler, the scanner and
the reconciler's rounds. All waits of the worker have timeouts, docker commands are assumed
to return, handlers answer, and both jobs are driven by tickers. Marking stale rows is
strongly fair for an orphaned row in the phase `stale`: a row without a goroutine grows
older, so from some round on it is past the threshold whenever the reconciler reaches that
phase. Requests, faults, docker's restarts and the marking of live rows are not fair.

`StdinReconnect!Spec`: weak fairness of each goroutine, the backoff timer and keepalive,
and that the network comes back; nobody has to type, and the remote need not exit. The
client exits in the end, or hangs.

`Sessions!FairSessions`, of the tabs in view only: a handler that has begun runs to its end
(weak); the event loop serves a poll, an answer and the load of a path that was given to
`window.location`, though other handlers come between (strong, since each of these waits for
the handler that runs: it is enabled again and again, and no tab's queue passes one over for
ever). Polls are those of `refetchInterval`, so the quiet pages and hidden tabs send nothing
of their own. Tokens expire. Nobody has to click, and a storage event may be as late as one
likes. `EventFeed!FairFeed`: the poll, the answers, the timers of the browser, the hub's
handlers and the delivery of what is on a wire that is not cut. A write, a listener's coming
and going, and a lost connection are not fair.

## 6. The proofs

Eight modules, checked by TLAPS for every value of the constants that their assumptions
allow; the bounds of the runs are constants like any other. Every invariant and every
action property that a run checks is a theorem, and so are the two refinements. Every proof
has the same shape: an inductive invariant that is stronger than the property, one lemma
per action or per shape of step, and the temporal step at the end.

### HostControlProofs

Every set of hosts, task slots and handlers, every `MaxFaults` and `MaxOps` and both values
of `Remote`. The assumptions are `WorkerAssumption` and `ControlAssumption`: `NoHost` and
`NoReq` are not hosts or requests, the bounds are natural numbers, `Remote` is Boolean.

- `Typing`: `Spec => []TypeOK`, by cases over the actions; `Look`, `SetContainer` and
  `SetConfig` are treated once.
- `AgreementInvariant`: `Spec => []Agreement`. `HaltedIsDown` is not inductive: a stop task
  about to write `stopped` satisfies it while the container runs. `Agreement` adds what a
  task knows at each step (`Knows`), which actions reach which step (`KindAt`), and that a
  clean host has one task at most. The argument has three shapes of step: `TaskStep` (a
  task moves; only what it knows must be shown again), `LeaveStep` (a goroutine ends and
  must leave an agreeing host), `WorldStep` (nobody's step must not contradict what tasks
  know). `TaskMoves` is the core, with a case per function of `worker.go`. A second task
  cannot break the first one's knowledge, because queueing it makes the host unclean.
- `HaltedHostsAreDown`, `RunningHostsAreUp` follow from `Agreement`.
- `ControlStateTyping`, `ControlTyping`: types of the control plane.
- `ControlTakesWorkerSteps`, `ControlRefinesWorker`: `ControlSpec => Spec`, one lemma each
  for requests, handlers and jobs. Hence `ControlKeepsAgreement`: the two agreements hold
  with the whole control plane around the worker.

### BypassSnapshotProofs

Every set of configurations, handlers and goroutines (`BypassAssumption`: `Blank`, what the
container starts with, is no configuration).

- `BypassTyping`: the types, with `Types`: a row that a request or a goroutine names exists,
  and no version exceeds the number of rows, so that the next version is a number. A step
  of a goroutine is first reduced to its shape (`FindStep`, `PartStep`, `TurnStep`, `Starts`,
  `Ends`), which is all the later invariants need.
- `RuleSetsWhole`: `NotTorn` with `Sound`: a sound goroutine is alone (`Alone`), the parts
  before its next command are those of its snapshot (`Progress`), and with nobody at work the
  three agree (`Rested`).
- `LatestRuns`: `LatestIsLive` with `Latest`: versions are distinct, a sound goroutine that
  brings a snapshot back brings back the latest (`Chosen`). It is proved for one request at a
  time (`OneRequest`): two requests may read the same highest version and insert it twice,
  and then "the latest applied" is not one row.

### StdinReconnectProofs

Every number of keys, lost connections and fast retries, every capacity of the ring and
every drop within it (`StdinAssumption`).

- `StdinTyping`: types with `Counted`, which ties the number of the session to the
  connections that were lost.
- `KeysAccounted`, `KeysInOrder`: `Accounted` and `OrderKept` with `Stdin`. What Run has passed
  on is smaller than what it holds and in one place at most (`InPlace`), a copier that is not
  holding holds nothing (`Reading`), the ring rises, and what the open session's copier holds
  comes after all that was received (`InOrder`). What is kept in the ring is not in
  that chain: Flush hands it to the copier of a session that is over (run `StdinLoss`).

### FilterProofs

What `Filter` returns, for any sequence and any positions. `FilterPlaces` is the lemma the
others follow from: the result's elements are those at the positions, each once, in their
order. Besides: no more elements than there were, and the image of a filtered sequence is
the filtered image. The library's induction theorems take an operator and cannot be
instantiated, so the claim is shown by the least length that breaks it (`Least`, from
`WFMin`), for a recursive function and not a recursive operator.

### SessionsProofs

Every set of accounts, roles, tabs and call slots, any number of sign-ins and clicks.

- `StoryTold`: `OneStory` with `Orderly`. A handler is known by what the store will hold when
  its own writes are done (`After`). Whatever other tabs do, every list that is stored or
  about to be is sane, since it is one change of a sane one (`Sane`, `Handling`); a handler
  that nobody has overlapped will leave the token of the current session (`SoloKnows`), which
  is what `tidy` remembers; and while none have met, the three keys agree in the store or
  will, once the one handler has ended (`BeforeMet`). Each action is a step of a handler, a
  write of one key, or leaves both alone (`Moves`).
- `SessionsTyping`: the types, with `Orderly` and the types of the tabs together (`Told`).
- `StoreRefines`: `SessionsSpec => StoreIsRecentAccounts`. A handler plans one change of the
  list it reads (`Planned`, `HandlesMap`) and its write carries the plan out (`WriteMaps`);
  the ids of the filtered entries are the filtered ids (`WithoutMaps`, by `FilterPlaces`).

### EventFeedProofs

Every number of streams, records, listeners, errors, attempts and messages
(`FeedAssumption`).

- `FeedHeard`: `NeverDeaf` with `Feed`: the stream a record names is one of its own and not
  closed (`Named`), a timer that has a name exists. `NeverDeaf` alone is not inductive, since
  an error of one stream changes the record whichever stream that names.
- `FeedTyping`: `FeedTypeOK`, whose bounds are not inductive either. `Bounded` counts: a
  record has had a failed stream for each of its timers, so timers cannot outgrow the
  streams. `Hub`: a client has had a change for each message in its queue, on its wire or
  about to be sent to it (`Due`).

### HostScreensProofs

Every set of rules, presets, addresses, contents, directories and texts, and any number of
edits, applies, visits, requests, page views, clicks and rows (`TabAssumption`,
`ConfigAssumption`, `PathAssumption` and the bounds).

- Bypass section. `KeywordsAcknowledged`: `ShortAcknowledged` with `Acks`, what is confirmed
  on the wire and what a ticked confirmation shows was acknowledged. `MarkedRuns`:
  `MarksWhatRuns` with `Follows`, what the dialog knows of the apply it shows. `TabTyping`:
  the types with `Counted`: a dialog that has not set its timer still has an apply of its
  own, so there is never a second timer for one apply.
- Pages. `WarnedDeletion`, `PasswordHeld`: `DeletedAsWarned` and `PasswordKept` with
  `Promised`: a request to delete is forced only with a warning, one that is past the check
  is forced or met a host at rest (`Honest`), a creation that was answered has a task, and
  the password on the page came with the task that is followed. `PagesTyping` adds `Refers`:
  dialogs and requests name tasks there are.
- Configuration. `ConfigTyping`: the types, with `Drafts`, that an open editor holds a
  content and that what a save has sent is one. `HostBound`: `BoundAfterChange` with `Chosen`,
  that the target of a change is an address. `TypingKept`: `TypedKept` with `Kept`, that
  nothing is owed to the user of an editor that is closed or not mounted.
- Paths. `PathTyping` with `PathInv`: what was picked is what the row mounts (`RowOK`), open
  lists and choosers belong to rows there are, and what is sent is absolute. `PicksSent`:
  `PicksMounted`, since `ToSave` is a filter of the rows that keeps every absolute one
  (`FilterPlaces`).
- `HostScreensTyping`: the four together. `EachScreen`: the composition implements the
  specification of each screen, since a step of one is a stutter of the others; hence every
  theorem above holds of the composition.

### DataScreensProofs

Any number of pages, mutations, losses, drawers, typings, saves, tests and requests, and
every set of addresses that are tested. The tables `Queries`, `Mutations`, `Parts` and the
six protocols are those of the code. `DataInv` conjoins four invariants:

- `CacheInv` for `OwnWritesShown` (`OwnWritesReturn`): what an answer lacks is a mutation beside
  it that writes a table it reads (`WriterKnown`), and what was invalidated is asked for again
  (`OnItsWay`).
- `FormInv` for `ShownDecides` and `UntouchedSaveKeeps` (`HiddenFieldsStay`, `UntouchedSaved`):
  while nothing was touched, form and text mean what they were filled from (`ShownIsKnown`),
  and so does what was sent (`SentWasKnown`). The proof found that the property, as it was
  first stated, held for one save only: the answer to an earlier save changes what is stored
  below a request that was filled before it. It now compares with what the form was filled
  from and what the handler read; the theorem is for any number of saves, the run has one
  beside those of another operator.
- `TestsInv` for `StateFollowsStream` (`TestsFollow`): of the tests of an address only the newest
  is not closed, and the hook's state is that test's (`Follows`).
- `UsersInv` for `SecretsReach` (`SecretsKept`): a part that a request has written is its own
  unless a later request, or one that was under way beside it, has written the part again
  (`Reigns`); a request that was answered has written all its parts (`Ended`); a page that
  has one dialog for a secret has one such request under way (`Single`).

`DataScreensTyping` is the types of all four.

### Only model-checked

Liveness: `TaskSettles`, `LostContainerNoticed`, `FailedIsRetried`, `FailedRecovers`,
`ReconnectEnds`, `ExpiredTabLeaves`, `SignedOutEverywhere`, `ViewCatchesUp`.
They rest on fairness, whose `ENABLED` is outside what the prover does. So are recursive
operators; no module declares one. The two violations are counterexamples of TLC.

## 7. What is not modelled

- Inside modelled server components: the text of configurations, rule rendering, Preview,
  audit and events, hashing and token formats, image pull progress, volumes and their
  removal, VNC, the session registry, the status line. None of them decides a step that is
  modelled, apart from failing, and a failure of any command is modelled.
- `lastNetworkPrepare` is a nondeterministic choice (`ReconRecent` or `ReconPrepare`): it is
  a plain map shared by the startup round and the ticker's, a data race if the first round
  outlasts an interval; the model has one reconciler.
- Inside modelled screens: texts, toasts, layout, filters and sorting, clipboard and
  downloads, the bypass audit panel and consistency card, the deletion dialog of an egress
  address, the status and expiry dialogs of a user (their requests are in QueryCache), the
  import and export of a host's configuration.
- No route reaches `HostLifecycleActions`, `HostLogsDialog`, `PresetGrid` and `PresetCard`,
  `RollbackConfirmDialog`, `BypassRollbackDialog`, `ClaudeSettingsDialog`,
  `ChangeRootPasswordDialog`, `useTestEgressIP` and `useRollbackBypass`: code without
  behaviour at this commit.
- Pages that only list what queries hold: dashboard, tasks, events, the disclaimer and the
  onboarding guide; `ui/*` is a component library.
- Not modelled at all: Claude account deletion, hot sync and its lock, mounts and promotion,
  the execution proxy, the SSH proxy, the image cache, VNC, local mode, the command line.
  `PROJECT.json` has the reason for each.

## 8. Plan

Done, in this order: HostWorker, its proofs, HostControl, the refinement and its proof,
BypassSnapshot, StdinReconnect; the web console: Sessions with RecentAccounts, EventFeed,
QueryCache, the screens; and the proofs of every invariant and action property the runs
check.

What is left, in order:

1. *ClaudeAccountDelete*: the transaction that holds the only connection while an embedded
   dispatch waits for one; deadlock and its timeout.
2. *SyncLock* and *HotSync*: a lock taken over from a dead owner by two at once; the
   three-way decision as operators over small trees, checked against a reference
   definition, and passes that run while both sides change.
3. Screens that meet: two consoles on one host, with HostControl behind them.
4. *Proofs* that say more than the runs: what a host that is not clean may be like, and the
   least disturbance after which the two agreements come back.
