----------------------------- MODULE EventFeed ------------------------------
(***************************************************************************)
(* From a change in the database to the list a page shows: the hub of the  *)
(* control plane with its clients, one EventSource URL of one browser tab  *)
(* as the SSE manager keeps it, and the query that the messages            *)
(* invalidate and that polls besides.                                      *)
(*                                                                         *)
(* The manager makes a new state record for the URL when the first         *)
(* listener comes and drops it when the last one goes; what the old record *)
(* still has open or pending goes on.  A message says only that something  *)
(* changed, so channels hold numbers of messages.                          *)
(***************************************************************************)
EXTENDS Integers, Sequences, FiniteSets

CONSTANTS
    MaxStreams,   \* bound: EventSources the tab opens
    MaxRecords,   \* bound: state records for the URL
    MaxListeners, \* bound: components that listen at once
    MaxWrites,    \* bound: changes in the database
    MaxDrops,     \* bound: connections the network loses
    MaxAttempts,  \* errors that make the manager give up, 5 in the code
    PerIP,        \* maxConnPerIP, 10 in the code
    Capacity,     \* places of client.send, 64 in the code
    NoStream, Idle, Asked

ASSUME FeedAssumption ==
    /\ {MaxStreams, MaxRecords, MaxListeners, MaxWrites, MaxDrops} \subseteq Nat
    /\ MaxAttempts \in Nat \ {0} /\ PerIP \in Nat /\ Capacity \in Nat \ {0}
    /\ {NoStream, Idle, Asked} \cap Nat = {} /\ Idle # Asked

VARIABLES
    db,       \* changes so far
    record,   \* the state records of the URL, the newest last
    mapped,   \* is the newest one in the manager's map
    source,   \* stream -> the EventSource: its record and what it does
    client,   \* stream -> the hub's client, its queue and what was written
    pending,  \* clients the broadcast under way has yet to send to
    fetch,    \* the query: Idle, Asked, or the answer that is on its way
    view,     \* what the page shows
    drops

feedVars == <<db, record, mapped, source, client, pending, fetch, view, drops>>
hubVars  == <<client, pending>>
tabVars  == <<record, mapped, source>>

Streams == 1..MaxStreams
Records == 1..Len(record)

NewRecord == [listeners |-> 0, es |-> NoStream, attempts |-> 0, fallback |-> FALSE,
              timers |-> 0, known |-> FALSE]

FeedInit ==
    /\ db = 0
    /\ record = <<>> /\ mapped = FALSE
    /\ source = [s \in Streams |-> [of |-> 0, is |-> "none"]]
    /\ client = [s \in Streams |-> [is |-> "none", queue |-> 0, wire |-> 0]]
    /\ pending = {}
    /\ fetch = Idle /\ view = 0
    /\ drops = 0

Registered == {s \in Streams: client[s].is = "client"}
Fresh      == {s \in Streams: source[s].is = "none"}

-----------------------------------------------------------------------------
(* The SSE manager.                                                        *)

\* new EventSource(url) for the record r, whatever the record had before.
Connect(r, rec) ==
    \E s \in Fresh:
        /\ \A u \in Fresh: s <= u
        /\ source' = [source EXCEPT ![s] = [of |-> r, is |-> "opening"]]
        /\ record' = [rec EXCEPT ![r].es = s]

\* A component that uses the feed is mounted.
Subscribe ==
    LET rec == IF mapped THEN record ELSE Append(record, NewRecord)
        r   == Len(rec)
        new == [rec EXCEPT ![r].listeners = @ + 1]
    IN  /\ r <= MaxRecords /\ rec[r].listeners < MaxListeners
        /\ mapped' = TRUE
        /\ IF rec[r].es = NoStream /\ ~rec[r].fallback
           THEN Connect(r, new)
           ELSE record' = new /\ UNCHANGED source
        /\ UNCHANGED <<db, hubVars, fetch, view, drops>>

\* It is unmounted.  With the last one the record goes: its stream is closed, and
\* the last timer that was set.
Unsubscribe ==
    LET r == Len(record)
        e == record[r].es
        left == record[r].listeners - 1
    IN  /\ mapped
        /\ mapped' = (left > 0)
        /\ record' = [record EXCEPT ![r] =
              IF left > 0 THEN [record[r] EXCEPT !.listeners = left]
              ELSE [record[r] EXCEPT !.listeners = 0, !.es = NoStream, !.known = FALSE,
                                     !.timers = IF record[r].known THEN @ - 1 ELSE @]]
        /\ source' = IF left = 0 /\ e # NoStream
                     THEN [source EXCEPT ![e].is = "closed"] ELSE source
        /\ UNCHANGED <<db, hubVars, fetch, view, drops>>

\* Not the code: one error too many before the manager gives up, and no timer.
OnErrorOffByOne(r) ==
    LET more == record[r].attempts + 1 < MaxAttempts
        gone == record[r].attempts + 1 > MaxAttempts
    IN  record' = [record EXCEPT ![r] =
           [record[r] EXCEPT !.es = NoStream, !.attempts = @ + 1, !.fallback = @ \/ gone,
                             !.timers = IF more THEN @ + 1 ELSE @, !.known = @ \/ more]]

\* onerror.  Whatever else the record has open, it now has no stream.
OnError(r) ==
    LET gone == record[r].attempts + 1 >= MaxAttempts
    IN  record' = [record EXCEPT ![r] =
           [record[r] EXCEPT !.es = NoStream, !.attempts = @ + 1, !.fallback = @ \/ gone,
                             !.timers = IF gone THEN @ ELSE @ + 1, !.known = @ \/ ~gone]]

StreamFails(s) ==
    LET r == source[s].of
    IN  /\ source' = [source EXCEPT ![s].is = "closed"]
        /\ OnError(r)

\* A backoff is over: that of the timer reconnectTimer names, or that of one the
\* record has lost sight of.
TimerFires(r) ==
    /\ \E named \in BOOLEAN:
          LET rec == [record EXCEPT ![r].timers = @ - 1, ![r].known = @ /\ ~named]
          IN  /\ IF named THEN record[r].known
                 ELSE record[r].timers > (IF record[r].known THEN 1 ELSE 0)
              /\ IF record[r].fallback THEN record' = rec /\ UNCHANGED source
                                       ELSE Connect(r, rec)
    /\ UNCHANGED <<db, mapped, hubVars, fetch, view, drops>>

-----------------------------------------------------------------------------
(* The hub.                                                                *)

\* Subscribe lets the client in, and writes an event "connected" that onmessage
\* does not receive.
Accept(s) ==
    /\ source[s].is = "opening" /\ client[s].is = "none"
    /\ Cardinality(Registered) < PerIP
    /\ client' = [client EXCEPT ![s].is = "client"]
    /\ source' = [source EXCEPT ![s].is = "open"]
    /\ UNCHANGED <<db, record, mapped, pending, fetch, view, drops>>

\* 503, from the limit.
Reject(s) ==
    /\ source[s].is = "opening"
    /\ Cardinality(Registered) >= PerIP
    /\ StreamFails(s)
    /\ UNCHANGED <<db, mapped, hubVars, fetch, view, drops>>

\* The server cannot be reached, or the connection breaks: the browser sees it now
\* and the server later.
NetworkFails(s) ==
    /\ drops < MaxDrops
    /\ drops' = drops + 1
    /\ source[s].is \in {"opening", "open"}
    /\ StreamFails(s)
    /\ UNCHANGED <<db, mapped, hubVars, fetch, view>>

\* The handler returned: the browser meets the end of the stream.
StreamEnds(s) ==
    /\ source[s].is = "open" /\ client[s].is = "gone" /\ client[s].wire = 0
    /\ StreamFails(s)
    /\ UNCHANGED <<db, mapped, hubVars, fetch, view, drops>>

\* removeClientLocked: close(c.send) and out of the maps.
Removed(c) == [c EXCEPT !.is = "gone"]

\* The browser's end is closed: ctx.Done, or the cleanup after the timeout.  What
\* the channel holds is lost.
HandlerLeaves(s) ==
    /\ client[s].is = "client" /\ source[s].is = "closed"
    /\ client' = [client EXCEPT ![s] = [is |-> "gone", queue |-> 0, wire |-> 0]]
    /\ UNCHANGED <<db, tabVars, pending, fetch, view, drops>>

\* The handler writes what it takes from the channel; a closed channel still
\* gives what is in it.
Forward(s) ==
    /\ client[s].queue > 0
    /\ client' = [client EXCEPT ![s].queue = @ - 1,
                                ![s].wire = IF source[s].is = "open" THEN @ + 1 ELSE 0]
    /\ UNCHANGED <<db, tabVars, pending, fetch, view, drops>>

\* A row changes, and the clients are copied under the lock.
WriteAndBroadcast ==
    /\ db < MaxWrites /\ pending = {}
    /\ db' = db + 1
    /\ pending' = Registered
    /\ UNCHANGED <<tabVars, client, fetch, view, drops>>

\* A write that nobody broadcasts, recordHostDrift's for one.
WriteOnly ==
    /\ db < MaxWrites
    /\ db' = db + 1
    /\ UNCHANGED <<tabVars, hubVars, fetch, view, drops>>

\* Not the code: a list without a limit in place of the channel.
BroadcastSendAlways(s) ==
    /\ s \in pending /\ client[s].is = "client"
    /\ pending' = pending \ {s}
    /\ client' = [client EXCEPT ![s].queue = @ + 1]
    /\ UNCHANGED <<db, tabVars, fetch, view, drops>>

\* After the lock: into the channel, or out when the channel is full.
BroadcastSend(s) ==
    /\ s \in pending /\ client[s].is = "client"
    /\ pending' = pending \ {s}
    /\ client' = [client EXCEPT ![s] = IF client[s].queue < Capacity
                                       THEN [client[s] EXCEPT !.queue = @ + 1] ELSE Removed(client[s])]
    /\ UNCHANGED <<db, tabVars, fetch, view, drops>>

\* The channel was closed since: the send panics.  A task's goroutine recovers and
\* the clients that are left get nothing.
BroadcastPanics(s) ==
    /\ s \in pending /\ client[s].is = "gone"
    /\ pending' = {}
    /\ UNCHANGED <<db, tabVars, client, fetch, view, drops>>

\* The scheduler's goroutine does not recover: the process ends, and with it
\* every connection.
ProcessDies(s) ==
    /\ s \in pending /\ client[s].is = "gone"
    /\ pending' = {}
    /\ client' = [u \in Streams |-> IF client[u].is = "client"
                                    THEN [client[u] EXCEPT !.is = "gone", !.queue = 0] ELSE client[u]]
    /\ UNCHANGED <<db, tabVars, fetch, view, drops>>

-----------------------------------------------------------------------------
(* The tab again: messages and the query.                                  *)

\* onmessage: the attempts start over and every listener invalidates its query,
\* which cancels a fetch under way.
Message(s) ==
    LET r == source[s].of
    IN  /\ source[s].is = "open" /\ client[s].wire > 0
        /\ client' = [client EXCEPT ![s].wire = @ - 1]
        /\ record' = [record EXCEPT ![r].attempts = 0]
        /\ fetch' = IF record[r].listeners > 0 THEN Asked ELSE fetch
        /\ UNCHANGED <<db, mapped, source, pending, view, drops>>

\* Not the code: polling only without a stream.
PollUnlessFed ==
    /\ mapped /\ fetch = Idle
    /\ record[Len(record)].es = NoStream
    /\ fetch' = Asked
    /\ UNCHANGED <<db, tabVars, hubVars, view, drops>>

\* refetchInterval, as long as a component shows the list.
Poll ==
    /\ mapped /\ fetch = Idle
    /\ fetch' = Asked
    /\ UNCHANGED <<db, tabVars, hubVars, view, drops>>

ListAnswers ==
    /\ fetch = Asked
    /\ fetch' = db
    /\ UNCHANGED <<db, tabVars, hubVars, view, drops>>

ListArrives ==
    /\ fetch \in Nat
    /\ view' = fetch
    /\ fetch' = Idle
    /\ UNCHANGED <<db, tabVars, hubVars, drops>>

-----------------------------------------------------------------------------
FeedNext ==
    \/ Subscribe \/ Unsubscribe
    \/ \E r \in Records: TimerFires(r)
    \/ \E s \in Streams: \/ Accept(s) \/ Reject(s) \/ NetworkFails(s) \/ StreamEnds(s)
                         \/ HandlerLeaves(s) \/ Forward(s) \/ Message(s)
                         \/ BroadcastSend(s) \/ BroadcastPanics(s) \/ ProcessDies(s)
    \/ WriteAndBroadcast \/ WriteOnly
    \/ Poll \/ ListAnswers \/ ListArrives

FeedSpec == FeedInit /\ [][FeedNext]_feedVars

\* Timers fire, the server answers, its goroutines go on, queries poll.  Nothing is
\* assumed of components, writers and the network.
FeedFairness ==
    /\ \A s \in Streams:
          /\ WF_feedVars(Accept(s) \/ Reject(s)) /\ WF_feedVars(StreamEnds(s))
          /\ WF_feedVars(HandlerLeaves(s)) /\ WF_feedVars(Forward(s))
          /\ WF_feedVars(Message(s))
    /\ WF_feedVars(\E s \in Streams: BroadcastSend(s) \/ BroadcastPanics(s) \/ ProcessDies(s))
    /\ \A r \in 1..MaxRecords: WF_feedVars(r \in Records /\ TimerFires(r))
    /\ WF_feedVars(Poll) /\ WF_feedVars(ListAnswers) /\ WF_feedVars(ListArrives)

FairFeed == FeedSpec /\ FeedFairness

-----------------------------------------------------------------------------
(* Types of all variables.                                                 *)
FeedTypeOK ==
    /\ db \in 0..MaxWrites /\ view \in 0..db /\ fetch \in {Idle, Asked} \cup (0..db)
    /\ record \in Seq([listeners: 0..MaxListeners, es: Streams \cup {NoStream},
                       attempts: Nat, fallback: BOOLEAN, timers: 0..MaxStreams, known: BOOLEAN])
    /\ Len(record) <= MaxRecords
    /\ mapped \in BOOLEAN /\ (mapped => record # <<>>)
    /\ source \in [Streams -> [of: 0..MaxRecords, is: {"none", "opening", "open", "closed"}]]
    /\ client \in [Streams -> [is: {"none", "client", "gone"}, queue: 0..Capacity, wire: 0..MaxWrites]]
    /\ pending \subseteq Streams /\ drops \in 0..MaxDrops

(* However errors, timers and components follow each other, a record that  *)
(* has listeners is never deaf by accident: it has a stream that is open   *)
(* or opening, a timer that will make one, or it has given up.             *)
NeverDeaf ==
    \A r \in Records:
        record[r].listeners > 0 =>
            \/ record[r].es # NoStream /\ source[record[r].es].is \in {"opening", "open"}
            \/ record[r].timers > 0
            \/ record[r].fallback

(* Lost messages, a full channel, a panic in a broadcast, a write nobody   *)
(* broadcasts, a feed that has given up: the list a page keeps showing is  *)
(* right in the end, or another change came.                               *)
ViewCatchesUp ==
    \A v \in 1..MaxWrites:
        (db = v /\ mapped) ~> (view >= v \/ ~mapped)
=============================================================================
