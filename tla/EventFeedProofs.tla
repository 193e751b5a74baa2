--------------------------- MODULE EventFeedProofs ---------------------------
(***************************************************************************)
(* Proofs about the event feed, for any number of streams, records,        *)
(* listeners, errors and messages: a feed somebody listens to is not deaf, *)
(* and what the SSE manager, the hub and the list keep has its type, the   *)
(* timers and the queues within their bounds.                              *)
(***************************************************************************)
EXTENDS EventFeed, FiniteSetTheorems, TLAPS

States  == {"none", "opening", "open", "closed"}
Sources == [of: Nat, is: States]
Feeds   == [listeners: Int, es: Streams \cup {NoStream}, attempts: Nat, fallback: BOOLEAN, timers: Nat,
            known: BOOLEAN]

\* The stream a record names, seen from a table of sources.
Named(src, rec, r) ==
    rec.es # NoStream => rec.es \in Streams /\ src[rec.es].of = r /\ src[rec.es].is \in {"opening", "open"}

\* Somebody listens: a stream, a timer or the end of all attempts.
Heard(rec) == rec.listeners > 0 => rec.es # NoStream \/ rec.timers > 0 \/ rec.fallback

RecordOK(src, rec, r) ==
    /\ rec \in Feeds /\ Named(src, rec, r) /\ Heard(rec)
    /\ rec.known => rec.timers > 0

FeedOK(recs, src) ==
    /\ recs \in Seq(Feeds) /\ src \in [Streams -> Sources]
    /\ \A s \in Streams: src[s].is # "none" => src[s].of \in 1..Len(recs)
    /\ \A r \in 1..Len(recs): RecordOK(src, recs[r], r)

Feed == FeedOK(record, source) /\ mapped \in BOOLEAN /\ (mapped => Len(record) > 0)

LEMMA NoStreamIsNone == NoStream \notin Streams
BY FeedAssumption DEF Streams

LEMMA FeedFacts ==
    ASSUME NEW recs, NEW src, FeedOK(recs, src)
    PROVE  /\ Len(recs) \in Nat /\ recs \in Seq(Feeds) /\ src \in [Streams -> Sources]
           /\ \A r \in 1..Len(recs): r \in Nat /\ recs[r] \in Feeds /\ RecordOK(src, recs[r], r)
BY DEF FeedOK

\* One record changes, and the sources that others name stay.
LEMMA RecordChanges ==
    ASSUME NEW recs, NEW src, FeedOK(recs, src), NEW r \in 1..Len(recs), NEW new, NEW after \in [Streams -> Sources],
           RecordOK(after, new, r),
           \A s \in Streams: after[s].is # "none" => after[s].of \in 1..Len(recs),
           \A s \in Streams: src[s].of # r /\ src[s].is # "none" => after[s] = src[s]
    PROVE  FeedOK([recs EXCEPT ![r] = new], after) /\ Len([recs EXCEPT ![r] = new]) = Len(recs)
<1> DEFINE now == [recs EXCEPT ![r] = new]
<1>1. recs \in Seq(Feeds) /\ Len(recs) \in Nat
  BY FeedFacts
<1>2. new \in Feeds
  BY DEF RecordOK
<1>3. now \in Seq(Feeds) /\ Len(now) = Len(recs) /\ now[r] = new /\ \A q \in 1..Len(recs): q # r => now[q] = recs[q]
  BY <1>1, <1>2
<1> HIDE DEF now
<1>4. \A q \in 1..Len(recs): RecordOK(after, now[q], q)
  BY <1>3 DEF FeedOK, RecordOK, Named
<1>5. FeedOK(now, after) /\ Len(now) = Len(recs)
  BY <1>3, <1>4 DEF FeedOK
<1> QED
  BY <1>5 DEF now

\* One record changes, and no source.
LEMMA RecordRewritten ==
    ASSUME NEW recs, NEW src, FeedOK(recs, src), NEW r \in 1..Len(recs), NEW new, RecordOK(src, new, r)
    PROVE  FeedOK([recs EXCEPT ![r] = new], src) /\ Len([recs EXCEPT ![r] = new]) = Len(recs)
<1>1. src \in [Streams -> Sources]
  BY DEF FeedOK
<1>2. \A s \in Streams: src[s].is # "none" => src[s].of \in 1..Len(recs)
  BY DEF FeedOK
<1>3. \A s \in Streams: src[s].of # r /\ src[s].is # "none" => src[s] = src[s]
  OBVIOUS
<1> QED
  BY <1>1, <1>2, <1>3, RecordChanges

LEMMA RecordAdded ==
    ASSUME NEW recs, NEW src, FeedOK(recs, src)
    PROVE  FeedOK(Append(recs, NewRecord), src) /\ Len(Append(recs, NewRecord)) = Len(recs) + 1
<1> DEFINE now == Append(recs, NewRecord)
<1>1. recs \in Seq(Feeds) /\ Len(recs) \in Nat
  BY FeedFacts
<1>2. NewRecord \in Feeds /\ NewRecord.es = NoStream /\ NewRecord.listeners = 0 /\ ~NewRecord.known
  BY DEF NewRecord, Feeds
<1>3. now \in Seq(Feeds) /\ Len(now) = Len(recs) + 1 /\ now[Len(recs) + 1] = NewRecord
      /\ \A q \in 1..Len(recs): now[q] = recs[q]
  BY <1>1, <1>2
<1> HIDE DEF now
<1>4. RecordOK(src, NewRecord, Len(recs) + 1)
  BY <1>2 DEF RecordOK, Named, Heard
<1>5. \A q \in 1..Len(now): RecordOK(src, now[q], q)
  BY <1>1, <1>3, <1>4 DEF FeedOK
<1>6. FeedOK(now, src) /\ Len(now) = Len(recs) + 1
  BY <1>1, <1>3, <1>5 DEF FeedOK
<1> QED
  BY <1>6 DEF now

\* The record with stream s, the sources with s opened, and a record with n listeners more.
Streaming(rec, s) == [rec EXCEPT !.es = s]
Opened(src, s, r) == [src EXCEPT ![s] = [of |-> r, is |-> "opening"]]
Heeded(rec, n)    == [rec EXCEPT !.listeners = rec.listeners + n]

\* A new stream for record r, whatever it had; the record may have changed otherwise.
LEMMA Connects ==
    ASSUME NEW recs, NEW src, FeedOK(recs, src), NEW r \in 1..Len(recs), NEW rec \in Feeds,
           rec.known => rec.timers > 0, NEW s \in Streams, src[s].is = "none"
    PROVE  /\ FeedOK([recs EXCEPT ![r] = Streaming(rec, s)], Opened(src, s, r))
           /\ Len([recs EXCEPT ![r] = Streaming(rec, s)]) = Len(recs)
<1> DEFINE after == Opened(src, s, r)
           new   == Streaming(rec, s)
<1>1. src \in [Streams -> Sources] /\ r \in Nat
  BY FeedFacts
<1>2. after \in [Streams -> Sources] /\ after[s] = [of |-> r, is |-> "opening"]
      /\ \A u \in Streams: u # s => after[u] = src[u]
  BY <1>1 DEF Sources, States, Opened
<1>3. new \in Feeds /\ new.es = s /\ new.known = rec.known /\ new.timers = rec.timers
  BY DEF Feeds, Streaming
<1> HIDE DEF new, after
<1>4. RecordOK(after, new, r)
  BY <1>2, <1>3, NoStreamIsNone DEF RecordOK, Named, Heard
<1>5. \A u \in Streams: after[u].is # "none" => after[u].of \in 1..Len(recs)
  BY <1>2 DEF FeedOK
<1>6. \A u \in Streams: src[u].of # r /\ src[u].is # "none" => after[u] = src[u]
  BY <1>2
<1>7. FeedOK([recs EXCEPT ![r] = new], after) /\ Len([recs EXCEPT ![r] = new]) = Len(recs)
  BY <1>2, <1>4, <1>5, <1>6, RecordChanges
<1> QED
  BY <1>7 DEF new, after

-----------------------------------------------------------------------------
(* The steps of the manager.                                               *)

LEMMA ListenersChange ==
    ASSUME NEW rec \in Feeds, NEW n \in Int
    PROVE  /\ Heeded(rec, n) \in Feeds /\ Heeded(rec, n).es = rec.es /\ Heeded(rec, n).known = rec.known
           /\ Heeded(rec, n).timers = rec.timers /\ Heeded(rec, n).fallback = rec.fallback
           /\ Heeded(rec, n).listeners = rec.listeners + n
BY DEF Feeds, Heeded

LEMMA SubscribeKeeps ==
    ASSUME Feed, Subscribe
    PROVE  Feed'
<1> DEFINE rec == IF mapped THEN record ELSE Append(record, NewRecord)
           r   == Len(rec)
           up  == Heeded(rec[r], 1)
<1>1. FeedOK(rec, source) /\ r \in Nat \ {0}
  BY RecordAdded, FeedFacts DEF Feed
<1>2. /\ mapped' = TRUE
      /\ IF rec[r].es = NoStream /\ ~rec[r].fallback
         THEN Connect(r, [rec EXCEPT ![r].listeners = @ + 1])
         ELSE record' = [rec EXCEPT ![r].listeners = @ + 1] /\ UNCHANGED source
  BY DEF Subscribe
<1> HIDE DEF rec
<1>3. rec \in Seq(Feeds) /\ r \in 1..Len(rec) /\ rec[r] \in Feeds /\ RecordOK(source, rec[r], r)
      /\ source \in [Streams -> Sources]
  BY <1>1, FeedFacts
<1>4. /\ up \in Feeds /\ up.es = rec[r].es /\ up.known = rec[r].known /\ up.timers = rec[r].timers
      /\ up.fallback = rec[r].fallback
  BY <1>3, ListenersChange
<1>5. [rec EXCEPT ![r].listeners = @ + 1] = [rec EXCEPT ![r] = up]
  BY <1>3 DEF Heeded
<1> HIDE DEF up
<1>6. CASE rec[r].es = NoStream /\ ~rec[r].fallback
  <2>1. PICK s \in Fresh: /\ source' = [source EXCEPT ![s] = [of |-> r, is |-> "opening"]]
                          /\ record' = [[rec EXCEPT ![r] = up] EXCEPT ![r].es = s]
    BY <1>2, <1>5, <1>6 DEF Connect
  <2>2. [[rec EXCEPT ![r] = up] EXCEPT ![r].es = s] = [rec EXCEPT ![r] = Streaming(up, s)]
    BY <1>3, <1>4 DEF Streaming
  <2>3. s \in Streams /\ source[s].is = "none" /\ (up.known => up.timers > 0)
    BY <1>3, <1>4 DEF Fresh, RecordOK
  <2>4. FeedOK(record', source') /\ Len(record') = Len(rec)
    <3>1. /\ FeedOK([rec EXCEPT ![r] = Streaming(up, s)], Opened(source, s, r))
          /\ Len([rec EXCEPT ![r] = Streaming(up, s)]) = Len(rec)
      <4> HIDE DEF r
      <4> QED
        BY <1>1, <1>3, <1>4, <2>3, Connects
    <3> QED
      BY <2>1, <2>2, <3>1 DEF Opened
  <2> QED
    BY <1>1, <1>2, <2>4 DEF Feed
<1>7. CASE ~(rec[r].es = NoStream /\ ~rec[r].fallback)
  <2>1. RecordOK(source, up, r)
    BY <1>3, <1>4, <1>7 DEF RecordOK, Named, Heard
  <2>2. FeedOK([rec EXCEPT ![r] = up], source) /\ Len([rec EXCEPT ![r] = up]) = Len(rec)
    BY <1>1, <1>3, <2>1, RecordChanges DEF FeedOK
  <2>3. record' = [rec EXCEPT ![r] = up] /\ source' = source
    BY <1>2, <1>5, <1>7
  <2> QED
    BY <1>1, <1>2, <2>2, <2>3 DEF Feed
<1> QED
  BY <1>6, <1>7

\* The record of a feed nobody listens to any more, and that of a stream that failed.
Dropped(rec) == [rec EXCEPT !.listeners = 0, !.es = NoStream, !.known = FALSE,
                            !.timers = IF rec.known THEN rec.timers - 1 ELSE rec.timers]
GivesUp(rec) == rec.attempts + 1 >= MaxAttempts
Failed(rec)  == [rec EXCEPT !.es = NoStream, !.attempts = rec.attempts + 1,
                            !.fallback = rec.fallback \/ GivesUp(rec),
                            !.timers = IF GivesUp(rec) THEN rec.timers ELSE rec.timers + 1,
                            !.known = rec.known \/ ~GivesUp(rec)]
Closed(src, s) == [src EXCEPT ![s].is = "closed"]

LEMMA DroppedChanges ==
    ASSUME NEW rec \in Feeds, rec.known => rec.timers > 0
    PROVE  Dropped(rec) \in Feeds /\ Dropped(rec).listeners = 0 /\ Dropped(rec).es = NoStream /\ ~Dropped(rec).known
<1>1. rec.timers \in Nat /\ rec.known \in BOOLEAN
  BY DEF Feeds
<1> DEFINE n   == IF rec.known THEN rec.timers - 1 ELSE rec.timers
           mid == [rec EXCEPT !.known = FALSE]
<1>2. n \in Nat
  BY <1>1
<1>3. mid \in Feeds /\ ~mid.known
  BY DEF Feeds
<1>4. Dropped(rec) = [mid EXCEPT !.listeners = 0, !.es = NoStream, !.timers = n]
  BY DEF Dropped, Feeds
<1> HIDE DEF n, mid
<1> DEFINE low == [mid EXCEPT !.listeners = 0]
<1>5. low \in Feeds /\ low.listeners = 0 /\ low.known = mid.known
  BY <1>3 DEF Feeds
<1>6. Dropped(rec) = [low EXCEPT !.es = NoStream, !.timers = n]
  BY <1>3, <1>4 DEF Feeds
<1> HIDE DEF low
<1>7. /\ Dropped(rec) \in Feeds /\ Dropped(rec).es = NoStream
      /\ Dropped(rec).listeners = low.listeners /\ Dropped(rec).known = low.known
  BY <1>2, <1>5, <1>6 DEF Feeds
<1> QED
  BY <1>3, <1>5, <1>7

LEMMA FailedChanges ==
    ASSUME NEW rec \in Feeds, rec.known => rec.timers > 0
    PROVE  /\ Failed(rec) \in Feeds /\ Failed(rec).es = NoStream /\ Failed(rec).listeners = rec.listeners
           /\ Failed(rec).known => Failed(rec).timers > 0
           /\ Failed(rec).timers > 0 \/ Failed(rec).fallback
<1>1. rec.timers \in Nat /\ rec.attempts + 1 \in Nat /\ rec.known \in BOOLEAN /\ rec.fallback \in BOOLEAN
  BY DEF Feeds
<1>2. CASE GivesUp(rec)
  <2>1. Failed(rec) = [rec EXCEPT !.es = NoStream, !.attempts = rec.attempts + 1, !.fallback = TRUE,
                                  !.timers = rec.timers, !.known = rec.known]
    BY <1>1, <1>2 DEF Failed
  <2> QED
    BY <1>1, <2>1 DEF Feeds
<1>3. CASE ~GivesUp(rec)
  <2>1. Failed(rec) = [rec EXCEPT !.es = NoStream, !.attempts = rec.attempts + 1, !.fallback = rec.fallback,
                                  !.timers = rec.timers + 1, !.known = TRUE]
    BY <1>1, <1>3 DEF Failed
  <2>2. rec.timers + 1 \in Nat /\ rec.timers + 1 > 0
    BY <1>1
  <2> QED
    BY <1>1, <2>1, <2>2 DEF Feeds
<1> QED
  BY <1>2, <1>3

\* A stream of record r is closed, and no record but r may name it.
LEMMA Closes ==
    ASSUME NEW recs, NEW src, FeedOK(recs, src), NEW s \in Streams, src[s].is # "none", NEW r \in 1..Len(recs),
           src[s].of = r, NEW new \in Feeds, new.es = NoStream, Heard(new), new.known => new.timers > 0
    PROVE  /\ FeedOK([recs EXCEPT ![r] = new], Closed(src, s))
           /\ Len([recs EXCEPT ![r] = new]) = Len(recs)
<1> DEFINE after == Closed(src, s)
<1>1. src \in [Streams -> Sources] /\ r \in Nat
  BY FeedFacts
<1>2. after \in [Streams -> Sources] /\ after[s].of = r /\ \A u \in Streams: u # s => after[u] = src[u]
  BY <1>1 DEF Sources, States, Closed
<1> HIDE DEF after
<1>3. RecordOK(after, new, r)
  BY DEF RecordOK, Named
<1>4. \A u \in Streams: after[u].is # "none" => after[u].of \in 1..Len(recs)
  BY <1>2 DEF FeedOK
<1>5. \A u \in Streams: src[u].of # r /\ src[u].is # "none" => after[u] = src[u]
  BY <1>2
<1>6. FeedOK([recs EXCEPT ![r] = new], after) /\ Len([recs EXCEPT ![r] = new]) = Len(recs)
  BY <1>2, <1>3, <1>4, <1>5, RecordChanges
<1> QED
  BY <1>6 DEF after

LEMMA UnsubscribeKeeps ==
    ASSUME Feed, Unsubscribe
    PROVE  Feed'
<1> DEFINE r    == Len(record)
           rec  == record[r]
           left == rec.listeners - 1
<1>1. /\ FeedOK(record, source) /\ r \in Nat /\ r \in 1..Len(record) /\ rec \in Feeds /\ RecordOK(source, rec, r)
      /\ source \in [Streams -> Sources] /\ record \in Seq(Feeds)
  <2>1. FeedOK(record, source) /\ mapped /\ Len(record) > 0 /\ Len(record) \in Nat
    BY FeedFacts DEF Feed, Unsubscribe
  <2> QED
    BY <2>1, FeedFacts
<1>2. rec.listeners \in Int /\ rec.listeners - 1 = rec.listeners + (-1) /\ (rec.known => rec.timers > 0)
  BY <1>1 DEF Feeds, RecordOK
<1>3. /\ mapped' = (left > 0)
      /\ record' = [record EXCEPT ![r] = IF left > 0 THEN [rec EXCEPT !.listeners = left] ELSE Dropped(rec)]
      /\ source' = IF left = 0 /\ rec.es # NoStream THEN Closed(source, rec.es) ELSE source
  BY DEF Unsubscribe, Dropped, Closed
<1>4. CASE left > 0
  <2> DEFINE new == Heeded(rec, -1)
  <2>1. record' = [record EXCEPT ![r] = new] /\ source' = source /\ mapped' = TRUE
    <3>1. [rec EXCEPT !.listeners = left] = new
      BY <1>2 DEF Heeded
    <3>2. left # 0
      BY <1>2, <1>4
    <3> HIDE DEF new, rec
    <3> QED
      BY <1>3, <1>4, <3>1, <3>2
  <2>2. /\ new \in Feeds /\ new.es = rec.es /\ new.known = rec.known /\ new.timers = rec.timers
        /\ new.fallback = rec.fallback
    <3>1. rec \in Feeds /\ -1 \in Int
      BY <1>1
    <3> HIDE DEF rec
    <3> QED
      BY <3>1, ListenersChange
  <2>3. rec.listeners > 0
    BY <1>2, <1>4
  <2> HIDE DEF new
  <2>4. RecordOK(source, new, r)
    BY <1>1, <2>2, <2>3 DEF RecordOK, Named, Heard
  <2>5. FeedOK([record EXCEPT ![r] = new], source) /\ Len([record EXCEPT ![r] = new]) = Len(record)
    BY <1>1, <2>4, RecordRewritten
  <2> QED
    BY <1>1, <2>1, <2>5 DEF Feed
<1>5. CASE ~(left > 0)
  <2> DEFINE new == Dropped(rec)
  <2>1. record' = [record EXCEPT ![r] = new] /\ mapped' = FALSE
    <3>1. (left > 0) = FALSE
      BY <1>2, <1>5
    <3> HIDE DEF new, rec, left
    <3> QED
      BY <1>3, <3>1 DEF new
  <2>2. new \in Feeds /\ new.listeners = 0 /\ new.es = NoStream /\ ~new.known
    BY <1>1, <1>2, DroppedChanges
  <2> HIDE DEF new
  <2>3. Heard(new) /\ (new.known => new.timers > 0)
    BY <2>2 DEF Heard
  <2>4. CASE source' = source
    <3>1. RecordOK(source, new, r)
      BY <2>2, <2>3 DEF RecordOK, Named
    <3>2. FeedOK([record EXCEPT ![r] = new], source) /\ Len([record EXCEPT ![r] = new]) = Len(record)
      BY <1>1, <3>1, RecordRewritten
    <3> QED
      BY <2>1, <2>4, <3>2 DEF Feed
  <2>5. CASE rec.es # NoStream /\ source' = Closed(source, rec.es)
    <3>1. rec.es \in Streams /\ source[rec.es].of = r /\ source[rec.es].is # "none"
      BY <1>1, <2>5 DEF RecordOK, Named
    <3> DEFINE e == rec.es
    <3> HIDE DEF e
    <3>2. /\ FeedOK([record EXCEPT ![r] = new], Closed(source, e))
          /\ Len([record EXCEPT ![r] = new]) = Len(record)
      <4>1. e \in Streams /\ source[e].of = r /\ source[e].is # "none"
        BY <3>1 DEF e
      <4> HIDE DEF r
      <4> QED
        BY <1>1, <2>2, <2>3, <4>1, Closes
    <3> QED
      BY <2>1, <2>5, <3>2 DEF Feed, e
  <2> QED
    BY <1>3, <2>4, <2>5
<1> QED
  BY <1>4, <1>5

LEMMA FailureKeeps ==
    ASSUME Feed, NEW s \in Streams, source[s].is \in {"opening", "open"}, StreamFails(s), mapped' = mapped
    PROVE  Feed'
<1> DEFINE r   == source[s].of
           rec == record[r]
<1>1. FeedOK(record, source) /\ r \in 1..Len(record) /\ source[s].is # "none"
  BY DEF Feed, FeedOK
<1>2. rec \in Feeds /\ (rec.known => rec.timers > 0)
  BY <1>1, FeedFacts DEF RecordOK
<1>3. record' = [record EXCEPT ![r] = Failed(rec)] /\ source' = Closed(source, s)
  BY DEF StreamFails, OnError, Failed, GivesUp, Closed
<1> DEFINE new == Failed(rec)
<1>4. new \in Feeds /\ new.es = NoStream /\ (new.known => new.timers > 0) /\ Heard(new)
  BY <1>2, FailedChanges DEF Heard
<1> HIDE DEF new
<1>5. FeedOK([record EXCEPT ![r] = new], Closed(source, s)) /\ Len([record EXCEPT ![r] = new]) = Len(record)
  <2>1. source[s].of = r
    OBVIOUS
  <2> HIDE DEF r
  <2> QED
    BY <1>1, <1>4, <2>1, Closes
<1> QED
  BY <1>3, <1>5 DEF Feed, new

LEMMA TimerKeeps ==
    ASSUME Feed, NEW r \in Records, TimerFires(r)
    PROVE  Feed'
<1> DEFINE rec == record[r]
<1>1. /\ FeedOK(record, source) /\ record \in Seq(Feeds) /\ source \in [Streams -> Sources] /\ r \in 1..Len(record)
      /\ rec \in Feeds /\ RecordOK(source, rec, r) /\ mapped' = mapped
  BY FeedFacts DEF Feed, Records, TimerFires
<1>2. PICK named \in BOOLEAN:
        LET now == [record EXCEPT ![r].timers = @ - 1, ![r].known = @ /\ ~named]
        IN  /\ IF named THEN rec.known ELSE rec.timers > (IF rec.known THEN 1 ELSE 0)
            /\ IF rec.fallback THEN record' = now /\ UNCHANGED source ELSE Connect(r, now)
  BY DEF TimerFires
<1> DEFINE new == [rec EXCEPT !.timers = rec.timers - 1, !.known = rec.known /\ ~named]
<1>3. [record EXCEPT ![r].timers = @ - 1, ![r].known = @ /\ ~named] = [record EXCEPT ![r] = new]
  BY <1>1 DEF Feeds
<1>4. rec.timers \in Nat /\ rec.known \in BOOLEAN /\ (rec.known => rec.timers > 0)
  BY <1>1 DEF RecordOK, Feeds
<1>5. rec.timers - 1 \in Nat /\ (rec.known /\ ~named) \in BOOLEAN /\ (rec.known /\ ~named => rec.timers - 1 > 0)
  BY <1>2, <1>4
<1>6. /\ new \in Feeds /\ new.es = rec.es /\ new.fallback = rec.fallback
      /\ new.known = (rec.known /\ ~named) /\ new.timers = rec.timers - 1
  BY <1>1, <1>5 DEF Feeds
<1> HIDE DEF new
<1>7. new.known => new.timers > 0
  BY <1>5, <1>6
<1>8. CASE rec.fallback
  <2>1. record' = [record EXCEPT ![r] = new] /\ source' = source
    BY <1>2, <1>3, <1>8
  <2>2. RecordOK(source, new, r)
    BY <1>1, <1>6, <1>7, <1>8 DEF RecordOK, Named, Heard
  <2>3. FeedOK([record EXCEPT ![r] = new], source) /\ Len([record EXCEPT ![r] = new]) = Len(record)
    BY <1>1, <2>2, RecordChanges DEF FeedOK
  <2> QED
    BY <1>1, <2>1, <2>3 DEF Feed
<1>9. CASE ~rec.fallback
  <2>1. PICK s \in Fresh: /\ source' = Opened(source, s, r)
                          /\ record' = [[record EXCEPT ![r] = new] EXCEPT ![r].es = s]
    BY <1>2, <1>3, <1>9 DEF Connect, Opened
  <2>2. [[record EXCEPT ![r] = new] EXCEPT ![r].es = s] = [record EXCEPT ![r] = Streaming(new, s)]
    BY <1>1, <1>6 DEF Streaming
  <2>3. s \in Streams /\ source[s].is = "none"
    BY DEF Fresh
  <2>4. /\ FeedOK([record EXCEPT ![r] = Streaming(new, s)], Opened(source, s, r))
        /\ Len([record EXCEPT ![r] = Streaming(new, s)]) = Len(record)
    BY <1>1, <1>6, <1>7, <2>3, Connects
  <2> QED
    BY <1>1, <2>1, <2>2, <2>4 DEF Feed
<1> QED
  BY <1>8, <1>9

LEMMA MessageKeeps ==
    ASSUME Feed, NEW s \in Streams, Message(s)
    PROVE  Feed'
<1> DEFINE r   == source[s].of
           new == [record[r] EXCEPT !.attempts = 0]
<1>1. /\ FeedOK(record, source) /\ record \in Seq(Feeds) /\ source' = source /\ mapped' = mapped
      /\ r \in 1..Len(record) /\ record' = [record EXCEPT ![r] = new]
  BY FeedFacts DEF Feed, FeedOK, Message
<1>2. record[r] \in Feeds /\ RecordOK(source, record[r], r)
  BY <1>1, FeedFacts
<1>3. /\ new \in Feeds /\ new.es = record[r].es /\ new.known = record[r].known /\ new.timers = record[r].timers
      /\ new.fallback = record[r].fallback /\ new.listeners = record[r].listeners
  BY <1>2 DEF Feeds
<1> HIDE DEF new
<1>4. RecordOK(source, new, r)
  BY <1>2, <1>3 DEF RecordOK, Named, Heard
<1>5. FeedOK([record EXCEPT ![r] = new], source) /\ Len([record EXCEPT ![r] = new]) = Len(record)
  <2>1. FeedOK(record, source) /\ r \in 1..Len(record)
    BY <1>1
  <2> HIDE DEF r
  <2> QED
    BY <1>4, <2>1, RecordRewritten
<1> QED
  BY <1>1, <1>5 DEF Feed

LEMMA AcceptKeeps ==
    ASSUME Feed, NEW s \in Streams, Accept(s)
    PROVE  Feed'
<1>1. source \in [Streams -> Sources] /\ source[s].is = "opening" /\ source' = [source EXCEPT ![s].is = "open"]
      /\ record' = record /\ mapped' = mapped
  BY DEF Feed, FeedOK, Accept
<1>2. source' \in [Streams -> Sources]
      /\ \A u \in Streams: /\ source'[u].of = source[u].of
                           /\ source'[u].is = source[u].is \/ (u = s /\ source'[u].is = "open")
  BY <1>1 DEF Sources, States
<1>3. \A r \in 1..Len(record): RecordOK(source', record[r], r)
  BY <1>1, <1>2 DEF Feed, FeedOK, RecordOK, Named
<1> QED
  BY <1>1, <1>2, <1>3 DEF Feed, FeedOK

LEMMA FeedInvariant == FeedSpec => []Feed
<1>1. FeedInit => Feed
  <2> SUFFICES ASSUME FeedInit PROVE Feed
    OBVIOUS
  <2>1. record \in Seq(Feeds) /\ Len(record) = 0 /\ mapped = FALSE
    BY DEF FeedInit
  <2>2. source \in [Streams -> Sources] /\ \A s \in Streams: source[s].is = "none"
    BY DEF FeedInit, Sources, States
  <2>3. \A r \in 1..Len(record): RecordOK(source, record[r], r)
    <3>1. 1..Len(record) = {}
      BY <2>1
    <3> QED
      BY <3>1
  <2> QED
    BY <2>1, <2>2, <2>3 DEF Feed, FeedOK
<1>2. ASSUME Feed, [FeedNext]_feedVars PROVE Feed'
  <2>1. ASSUME NEW s \in Streams, Reject(s) \/ NetworkFails(s) \/ StreamEnds(s) PROVE Feed'
    BY <1>2, <2>1, FailureKeeps DEF Reject, NetworkFails, StreamEnds
  <2>2. CASE UNCHANGED <<record, mapped, source>>
    BY <1>2, <2>2 DEF Feed
  <2>3. CASE \E s \in Streams: \/ HandlerLeaves(s) \/ Forward(s)
                               \/ BroadcastSend(s) \/ BroadcastPanics(s) \/ ProcessDies(s)
    BY <2>2, <2>3 DEF HandlerLeaves, Forward, BroadcastSend, BroadcastPanics, ProcessDies, tabVars
  <2>4. CASE WriteAndBroadcast \/ WriteOnly \/ Poll \/ ListAnswers \/ ListArrives \/ UNCHANGED feedVars
    BY <2>2, <2>4 DEF WriteAndBroadcast, WriteOnly, Poll, ListAnswers, ListArrives, tabVars, feedVars
  <2> QED
    BY <1>2, <2>1, <2>3, <2>4, SubscribeKeeps, UnsubscribeKeeps, TimerKeeps, MessageKeeps, AcceptKeeps DEF FeedNext
<1>3. Feed /\ [FeedNext]_feedVars => Feed'
  BY <1>2
<1> QED
  BY <1>1, <1>3, PTL DEF FeedSpec

(* A record with listeners has a stream, a timer or has given up, for any  *)
(* number of streams, records, listeners, errors and attempts.             *)
THEOREM FeedHeard == FeedSpec => []NeverDeaf
<1>1. Feed => NeverDeaf
  BY DEF Feed, FeedOK, RecordOK, Named, Heard, NeverDeaf, Records
<1> QED
  BY <1>1, FeedInvariant, PTL

-----------------------------------------------------------------------------
(* Types and bounds.  A record has had a failed stream for each of its     *)
(* timers, and a change for each message of a client.                      *)

Lost(src, r) == {s \in Streams: src[s].of = r /\ src[s].is = "closed"}

Within(src, rec, r) == rec.listeners \in 0..MaxListeners /\ rec.timers <= Cardinality(Lost(src, r))

Bounded ==
    /\ Len(record) <= MaxRecords
    /\ \A r \in 1..Len(record): Within(source, record[r], r)
    /\ mapped => record[Len(record)].listeners > 0
    /\ \A s \in Streams: source[s].is = "none" => source[s].of = 0

LEMMA LostFacts ==
    /\ \A src, r: IsFiniteSet(Lost(src, r)) /\ Cardinality(Lost(src, r)) \in Nat /\ Cardinality(Lost(src, r)) <= MaxStreams
    /\ \A src, r, after: Lost(src, r) \subseteq Lost(after, r) => Cardinality(Lost(src, r)) <= Cardinality(Lost(after, r))
<1>1. MaxStreams \in Nat
  BY FeedAssumption
<1>2. IsFiniteSet(Streams) /\ Cardinality(Streams) = MaxStreams
  <2>1. IsFiniteSet(1..MaxStreams) /\ Cardinality(1..MaxStreams) = IF 1 > MaxStreams THEN 0 ELSE MaxStreams - 1 + 1
    BY <1>1, FS_Interval
  <2> QED
    BY <1>1, <2>1 DEF Streams
<1>3. ASSUME NEW src, NEW r
      PROVE  IsFiniteSet(Lost(src, r)) /\ Cardinality(Lost(src, r)) \in Nat /\ Cardinality(Lost(src, r)) <= MaxStreams
  <2>1. Lost(src, r) \subseteq Streams
    BY DEF Lost
  <2> QED
    BY <1>2, <2>1, FS_Subset, FS_CardinalityType
<1>4. ASSUME NEW src, NEW r, NEW after, Lost(src, r) \subseteq Lost(after, r)
      PROVE  Cardinality(Lost(src, r)) <= Cardinality(Lost(after, r))
  BY <1>3, <1>4, FS_Subset
<1> QED
  BY <1>3, <1>4

\* Sources only move on: opened, accepted, closed.
LEMMA SourcesGo ==
    ASSUME NEW src \in [Streams -> Sources], NEW s \in Streams, \A u \in Streams: src[u].is = "none" => src[u].of = 0
    PROVE  /\ \A r, q: src[s].is = "none"
                 => /\ Lost(src, q) \subseteq Lost(Opened(src, s, r), q)
                    /\ \A u \in Streams: Opened(src, s, r)[u].is = "none" => Opened(src, s, r)[u].of = 0
           /\ \A q: src[s].is # "none"
                 => /\ Lost(src, q) \subseteq Lost(Closed(src, s), q)
                    /\ \A u \in Streams: Closed(src, s)[u].is = "none" => Closed(src, s)[u].of = 0
           /\ src[s].is \in {"opening", "open"}
                 => Cardinality(Lost(Closed(src, s), src[s].of)) = Cardinality(Lost(src, src[s].of)) + 1
<1>1. ASSUME NEW r, NEW q, src[s].is = "none"
      PROVE  /\ Lost(src, q) \subseteq Lost(Opened(src, s, r), q)
             /\ \A u \in Streams: Opened(src, s, r)[u].is = "none" => Opened(src, s, r)[u].of = 0
  <2>1. \A u \in Streams: IF u = s THEN Opened(src, s, r)[u].is = "opening" ELSE Opened(src, s, r)[u] = src[u]
    BY DEF Opened
  <2> QED
    BY <1>1, <2>1 DEF Lost
<1>2. \A u \in Streams: Closed(src, s)[u].of = src[u].of /\ Closed(src, s)[u].is = IF u = s THEN "closed" ELSE src[u].is
  BY DEF Closed, Sources
<1>3. ASSUME NEW q, src[s].is # "none"
      PROVE  /\ Lost(src, q) \subseteq Lost(Closed(src, s), q)
             /\ \A u \in Streams: Closed(src, s)[u].is = "none" => Closed(src, s)[u].of = 0
  BY <1>2, <1>3 DEF Lost
<1>4. ASSUME src[s].is \in {"opening", "open"}
      PROVE  Cardinality(Lost(Closed(src, s), src[s].of)) = Cardinality(Lost(src, src[s].of)) + 1
  <2> DEFINE r == src[s].of
  <2>1. Lost(Closed(src, s), r) = Lost(src, r) \cup {s} /\ s \notin Lost(src, r)
    BY <1>2, <1>4 DEF Lost
  <2>2. IsFiniteSet(Lost(src, r))
    BY LostFacts
  <2> HIDE DEF r
  <2>3. Cardinality(Lost(src, r) \cup {s}) = Cardinality(Lost(src, r)) + 1
    BY <2>1, <2>2, FS_AddElement
  <2>4. Cardinality(Lost(Closed(src, s), r)) = Cardinality(Lost(src, r)) + 1
    BY <2>1, <2>3
  <2> QED
    BY <2>4 DEF r
<1> QED
  BY <1>1, <1>3, <1>4

LEMMA BoundedFrom ==
    ASSUME Feed, Bounded, Len(record') <= MaxRecords,
           \A q \in 1..Len(record'): \/ q \in 1..Len(record) /\ record'[q].listeners = record[q].listeners
                                        /\ record'[q].timers = record[q].timers
                                     \/ Within(source', record'[q], q),
           \A q: Lost(source, q) \subseteq Lost(source', q),
           \A s \in Streams: source'[s].is = "none" => source'[s].of = 0,
           mapped' => record'[Len(record')].listeners > 0
    PROVE  Bounded'
<1> SUFFICES ASSUME NEW q \in 1..Len(record'), q \in 1..Len(record), record'[q].listeners = record[q].listeners,
                    record'[q].timers = record[q].timers
             PROVE  Within(source', record'[q], q)
  BY DEF Bounded
<1>0. record[q] \in Feeds
  BY FeedFacts DEF Feed
<1>1. Within(source, record[q], q) /\ record[q].timers \in Nat
  BY <1>0 DEF Bounded, Feeds
<1>2. /\ Cardinality(Lost(source, q)) \in Nat /\ Cardinality(Lost(source', q)) \in Nat
      /\ Cardinality(Lost(source, q)) <= Cardinality(Lost(source', q))
  BY LostFacts
<1> QED
  BY <1>1, <1>2 DEF Within

\* Connect, seen from the record before it.
LEMMA ConnectDoes ==
    ASSUME NEW rec \in Seq(Feeds), NEW r \in 1..Len(rec), source \in [Streams -> Sources], Connect(r, rec),
           \A s \in Streams: source[s].is = "none" => source[s].of = 0
    PROVE  /\ Len(record') = Len(rec) /\ \A q \in 1..Len(rec): /\ q # r => record'[q] = rec[q]
                                                               /\ record'[q].listeners = rec[q].listeners
                                                               /\ record'[q].timers = rec[q].timers
           /\ \A q: Lost(source, q) \subseteq Lost(source', q)
           /\ \A s \in Streams: source'[s].is = "none" => source'[s].of = 0
<1>1. PICK s \in Fresh: source' = Opened(source, s, r) /\ record' = [rec EXCEPT ![r].es = s]
  BY DEF Connect, Opened
<1>2. s \in Streams /\ source[s].is = "none"
  BY DEF Fresh
<1>3. Len(record') = Len(rec) /\ \A q \in 1..Len(rec): /\ q # r => record'[q] = rec[q]
                                                       /\ record'[q].listeners = rec[q].listeners
                                                       /\ record'[q].timers = rec[q].timers
  <2>1. rec[r] \in Feeds
    OBVIOUS
  <2>2. [rec[r] EXCEPT !.es = s].listeners = rec[r].listeners /\ [rec[r] EXCEPT !.es = s].timers = rec[r].timers
    BY <2>1 DEF Feeds
  <2>3. Len(record') = Len(rec) /\ record'[r] = [rec[r] EXCEPT !.es = s] /\ \A q \in 1..Len(rec): q # r => record'[q] = rec[q]
    BY <1>1
  <2> QED
    BY <2>2, <2>3
<1>4. /\ \A q: Lost(source, q) \subseteq Lost(Opened(source, s, r), q)
      /\ \A u \in Streams: Opened(source, s, r)[u].is = "none" => Opened(source, s, r)[u].of = 0
  BY <1>2, SourcesGo
<1> QED
  BY <1>1, <1>3, <1>4

LEMMA SubscribeBounded ==
    ASSUME Feed, Bounded, Subscribe
    PROVE  Bounded'
<1> DEFINE rec == IF mapped THEN record ELSE Append(record, NewRecord)
           r   == Len(rec)
           up  == Heeded(rec[r], 1)
           new == [rec EXCEPT ![r].listeners = @ + 1]
<1>1. record \in Seq(Feeds) /\ Len(record) \in Nat /\ source \in [Streams -> Sources]
  BY DEF Feed, FeedOK
<1>0. FeedOK(rec, source) /\ r \in Nat \ {0}
  BY RecordAdded, FeedFacts DEF Feed
<1>2. FeedOK(rec, source) /\ r \in Nat \ {0} /\ rec \in Seq(Feeds)
  <2> HIDE DEF rec
  <2> QED
    BY <1>0, FeedFacts
<1>3. /\ mapped' = TRUE /\ r <= MaxRecords /\ rec[r].listeners < MaxListeners
      /\ IF rec[r].es = NoStream /\ ~rec[r].fallback THEN Connect(r, new)
         ELSE record' = new /\ UNCHANGED source
  BY DEF Subscribe
<1>4. /\ \A q \in 1..r: q # r => q \in 1..Len(record) /\ rec[q] = record[q]
      /\ rec[r].listeners \in Nat /\ rec[r].timers \in Nat /\ rec[r].timers <= Cardinality(Lost(source, r))
  <2>1. MaxListeners \in Nat
    BY FeedAssumption
  <2>2. CASE mapped
    <3>1. rec = record /\ r \in 1..Len(record)
      BY <1>2, <2>2
    <3>2. Within(source, rec[r], r) /\ rec[r] \in Feeds
      BY <1>1, <3>1 DEF Bounded
    <3> QED
      BY <2>1, <3>1, <3>2 DEF Within, Feeds
  <2>3. CASE ~mapped
    <3>1. NewRecord \in Feeds /\ NewRecord.listeners = 0 /\ NewRecord.timers = 0
      BY DEF NewRecord, Feeds
    <3>2. rec = Append(record, NewRecord) /\ r = Len(record) + 1 /\ rec[r] = NewRecord
          /\ \A q \in 1..Len(record): rec[q] = record[q]
      BY <1>1, <2>3, <3>1
    <3>3. Cardinality(Lost(source, r)) \in Nat
      BY LostFacts
    <3> HIDE DEF rec
    <3> QED
      BY <1>1, <3>1, <3>2, <3>3
  <2> QED
    BY <2>2, <2>3
<1> HIDE DEF rec
<1>5. r \in 1..Len(rec) /\ rec[r] \in Feeds
  BY <1>2
<1>6. up \in Feeds /\ up.listeners = rec[r].listeners + 1 /\ up.timers = rec[r].timers
  BY <1>5, ListenersChange
<1>7. new = [rec EXCEPT ![r] = up]
  BY <1>5 DEF Heeded
<1> HIDE DEF up
<1>8. new \in Seq(Feeds) /\ Len(new) = r /\ new[r] = up /\ \A q \in 1..r: q # r => new[q] = rec[q]
  BY <1>2, <1>5, <1>6, <1>7
<1> HIDE DEF new
<1>9. /\ Len(record') = r /\ record'[r].listeners = up.listeners /\ record'[r].timers = up.timers
      /\ \A q \in 1..r: q # r => record'[q] = rec[q]
      /\ \A q: Lost(source, q) \subseteq Lost(source', q)
      /\ \A s \in Streams: source'[s].is = "none" => source'[s].of = 0
  <2>1. CASE rec[r].es = NoStream /\ ~rec[r].fallback
    <3>1. Connect(r, new) /\ r \in 1..Len(new)
      BY <1>3, <1>5, <1>8, <2>1
    <3> HIDE DEF r
    <3>2. /\ Len(record') = Len(new) /\ \A q \in 1..Len(new): /\ q # r => record'[q] = new[q]
                                                             /\ record'[q].listeners = new[q].listeners
                                                             /\ record'[q].timers = new[q].timers
          /\ \A q: Lost(source, q) \subseteq Lost(source', q)
          /\ \A s \in Streams: source'[s].is = "none" => source'[s].of = 0
      BY <1>1, <1>8, <3>1, ConnectDoes DEF Bounded
    <3> QED
      BY <1>8, <3>1, <3>2
  <2>2. CASE ~(rec[r].es = NoStream /\ ~rec[r].fallback)
    <3>1. record' = new /\ source' = source
      BY <1>3, <2>2
    <3> QED
      BY <1>8, <3>1 DEF Bounded
  <2> QED
    BY <2>1, <2>2
<1>10. /\ Within(source', record'[r], r) /\ record'[r].listeners > 0
  <2>1. Cardinality(Lost(source, r)) <= Cardinality(Lost(source', r))
        /\ Cardinality(Lost(source, r)) \in Nat /\ Cardinality(Lost(source', r)) \in Nat
    BY <1>9, LostFacts
  <2>2. MaxListeners \in Nat
    BY FeedAssumption
  <2>3. record'[r].listeners = rec[r].listeners + 1 /\ record'[r].timers = rec[r].timers
    BY <1>6, <1>9
  <2> QED
    BY <1>3, <1>4, <2>1, <2>2, <2>3 DEF Within
<1>11. \A q \in 1..Len(record'): \/ q \in 1..Len(record) /\ record'[q].listeners = record[q].listeners
                                    /\ record'[q].timers = record[q].timers
                                 \/ Within(source', record'[q], q)
  <2> SUFFICES ASSUME NEW q \in 1..r, q # r
               PROVE  q \in 1..Len(record) /\ record'[q].listeners = record[q].listeners /\ record'[q].timers = record[q].timers
    BY <1>9, <1>10
  <2> QED
    BY <1>4, <1>9
<1> QED
  BY <1>3, <1>9, <1>10, <1>11, BoundedFrom

LEMMA DroppedTimers ==
    ASSUME NEW rec \in Feeds, rec.known => rec.timers > 0
    PROVE  Dropped(rec).timers \in Nat /\ Dropped(rec).timers <= rec.timers
<1> DEFINE n == IF rec.known THEN rec.timers - 1 ELSE rec.timers
<1>1. n \in Nat /\ n <= rec.timers
  BY DEF Feeds
<1>2. Dropped(rec).timers = n
  BY DEF Dropped, Feeds
<1> QED
  BY <1>1, <1>2

LEMMA FailedTimers ==
    ASSUME NEW rec \in Feeds
    PROVE  Failed(rec).timers \in {rec.timers, rec.timers + 1}
<1> DEFINE n == IF GivesUp(rec) THEN rec.timers ELSE rec.timers + 1
<1>1. Failed(rec).timers = n
  BY DEF Failed, Feeds
<1> QED
  BY <1>1

LEMMA UnsubscribeBounded ==
    ASSUME Feed, Bounded, Unsubscribe
    PROVE  Bounded'
<1> DEFINE r    == Len(record)
           rec  == record[r]
           left == rec.listeners - 1
           new  == IF left > 0 THEN [rec EXCEPT !.listeners = left] ELSE Dropped(rec)
<1>1. /\ r \in 1..Len(record) /\ rec \in Feeds /\ RecordOK(source, rec, r)
      /\ source \in [Streams -> Sources] /\ record \in Seq(Feeds) /\ Len(record) <= MaxRecords
  <2>1. FeedOK(record, source) /\ mapped /\ Len(record) > 0 /\ Len(record) \in Nat
    BY FeedFacts DEF Feed, Unsubscribe
  <2> QED
    BY <2>1, FeedFacts DEF Bounded
<1>2. /\ mapped' = (left > 0) /\ record' = [record EXCEPT ![r] = new]
      /\ source' = IF left = 0 /\ rec.es # NoStream THEN Closed(source, rec.es) ELSE source
  BY DEF Unsubscribe, Dropped, Closed
<1>3. rec.listeners \in Int /\ rec.listeners > 0 /\ Within(source, rec, r) /\ rec.timers \in Nat /\ (rec.known => rec.timers > 0)
  BY <1>1 DEF Unsubscribe, Bounded, RecordOK, Feeds
<1>4. /\ new.listeners \in 0..MaxListeners /\ new.timers \in Nat /\ new.timers <= rec.timers
      /\ left > 0 => new.listeners > 0
  <2>1. MaxListeners \in Nat
    BY FeedAssumption
  <2>2. CASE left > 0
    <3>1. [rec EXCEPT !.listeners = left].listeners = left /\ [rec EXCEPT !.listeners = left].timers = rec.timers
      BY <1>1 DEF Feeds
    <3> QED
      BY <1>3, <2>1, <2>2, <3>1 DEF Within
  <2>3. CASE ~(left > 0)
    <3>1. Dropped(rec).listeners = 0 /\ Dropped(rec).timers \in Nat /\ Dropped(rec).timers <= rec.timers
      BY <1>1, <1>3, DroppedChanges, DroppedTimers
    <3> QED
      BY <2>1, <2>3, <3>1
  <2> QED
    BY <2>2, <2>3
<1> HIDE DEF new
<1>5. Len(record') = r /\ record'[r] = new /\ \A q \in 1..r: q # r => record'[q] = record[q]
  BY <1>1, <1>2
<1>6. /\ \A q: Lost(source, q) \subseteq Lost(source', q)
      /\ \A s \in Streams: source'[s].is = "none" => source'[s].of = 0
  <2>1. CASE rec.es # NoStream /\ source' = Closed(source, rec.es)
    <3>1. rec.es \in Streams /\ source[rec.es].is # "none"
      BY <1>1, <2>1 DEF RecordOK, Named
    <3> DEFINE e == rec.es
    <3>2. e \in Streams /\ source[e].is # "none" /\ source' = Closed(source, e)
      BY <2>1, <3>1
    <3> HIDE DEF e
    <3>3. /\ \A q: Lost(source, q) \subseteq Lost(Closed(source, e), q)
          /\ \A u \in Streams: Closed(source, e)[u].is = "none" => Closed(source, e)[u].of = 0
      BY <1>1, <3>2, SourcesGo DEF Bounded
    <3> QED
      BY <3>2, <3>3
  <2>2. CASE source' = source
    BY <2>2 DEF Bounded
  <2> QED
    BY <1>2, <2>1, <2>2
<1>7. Within(source', new, r)
  <2>1. Cardinality(Lost(source, r)) <= Cardinality(Lost(source', r))
        /\ Cardinality(Lost(source, r)) \in Nat /\ Cardinality(Lost(source', r)) \in Nat
    BY <1>6, LostFacts
  <2> QED
    BY <1>3, <1>4, <2>1 DEF Within
<1>8. mapped' => record'[Len(record')].listeners > 0
  BY <1>2, <1>4, <1>5
<1>9. \A q \in 1..Len(record'): \/ q \in 1..Len(record) /\ record'[q].listeners = record[q].listeners
                                   /\ record'[q].timers = record[q].timers
                                \/ Within(source', record'[q], q)
  BY <1>5, <1>7
<1> QED
  BY <1>1, <1>5, <1>6, <1>8, <1>9, BoundedFrom

LEMMA FailureBounded ==
    ASSUME Feed, Bounded, NEW s \in Streams, source[s].is \in {"opening", "open"}, StreamFails(s), mapped' = mapped
    PROVE  Bounded'
<1> DEFINE r   == source[s].of
           rec == record[r]
           new == Failed(rec)
<1>1. /\ FeedOK(record, source) /\ record \in Seq(Feeds) /\ r \in 1..Len(record) /\ source \in [Streams -> Sources]
  BY FeedFacts DEF Feed, FeedOK
<1>2. rec \in Feeds /\ (rec.known => rec.timers > 0) /\ Within(source, rec, r) /\ rec.timers \in Nat
  BY <1>1, FeedFacts DEF RecordOK, Bounded, Feeds
<1>3. record' = [record EXCEPT ![r] = new] /\ source' = Closed(source, s)
  BY DEF StreamFails, OnError, Failed, GivesUp, Closed
<1>4. new.listeners = rec.listeners /\ new.timers \in {rec.timers, rec.timers + 1}
  BY <1>2, FailedChanges, FailedTimers
<1> HIDE DEF new
<1>5. /\ Len(record') = Len(record) /\ record'[r] = new
      /\ \A q \in 1..Len(record): q # r => record'[q] = record[q]
  BY <1>1, <1>3
<1>6. /\ \A q: Lost(source, q) \subseteq Lost(source', q)
      /\ \A u \in Streams: source'[u].is = "none" => source'[u].of = 0
      /\ Cardinality(Lost(source', r)) = Cardinality(Lost(source, r)) + 1
  <2>1. /\ \A q: Lost(source, q) \subseteq Lost(Closed(source, s), q)
        /\ \A u \in Streams: Closed(source, s)[u].is = "none" => Closed(source, s)[u].of = 0
        /\ Cardinality(Lost(Closed(source, s), r)) = Cardinality(Lost(source, r)) + 1
    BY <1>1, SourcesGo DEF Bounded
  <2> QED
    BY <1>3, <2>1
<1>7. Within(source', new, r)
  <2>1. Cardinality(Lost(source, r)) \in Nat
    BY LostFacts
  <2> HIDE DEF r, rec
  <2> QED
    BY <1>2, <1>4, <1>6, <2>1 DEF Within
<1>8. mapped' => record'[Len(record')].listeners > 0
  <2>1. mapped => Len(record) \in 1..Len(record) /\ record[Len(record)].listeners > 0
    BY <1>1 DEF Feed, Bounded
  <2> QED
    BY <1>4, <1>5, <2>1
<1>9. \A q \in 1..Len(record'): \/ q \in 1..Len(record) /\ record'[q].listeners = record[q].listeners
                                   /\ record'[q].timers = record[q].timers
                                \/ Within(source', record'[q], q)
  BY <1>5, <1>7
<1> QED
  BY <1>5, <1>6, <1>8, <1>9, BoundedFrom DEF Bounded

LEMMA TimerBounded ==
    ASSUME Feed, Bounded, NEW r \in Records, TimerFires(r)
    PROVE  Bounded'
<1> DEFINE rec == record[r]
<1>1. /\ record \in Seq(Feeds) /\ source \in [Streams -> Sources] /\ r \in 1..Len(record)
      /\ rec \in Feeds /\ RecordOK(source, rec, r) /\ mapped' = mapped
  BY FeedFacts DEF Feed, Records, TimerFires
<1>2. PICK named \in BOOLEAN:
        LET now == [record EXCEPT ![r].timers = @ - 1, ![r].known = @ /\ ~named]
        IN  /\ IF named THEN rec.known ELSE rec.timers > (IF rec.known THEN 1 ELSE 0)
            /\ IF rec.fallback THEN record' = now /\ UNCHANGED source ELSE Connect(r, now)
  BY DEF TimerFires
<1> DEFINE new == [rec EXCEPT !.timers = rec.timers - 1, !.known = rec.known /\ ~named]
           now == [record EXCEPT ![r] = new]
<1>3. [record EXCEPT ![r].timers = @ - 1, ![r].known = @ /\ ~named] = now
  BY <1>1 DEF Feeds
<1>4. rec.timers \in Nat /\ rec.known \in BOOLEAN /\ (rec.known => rec.timers > 0)
  BY <1>1 DEF RecordOK, Feeds
<1>5. rec.timers - 1 \in Nat /\ (rec.known /\ ~named) \in BOOLEAN
  BY <1>2, <1>4
<1>6. new \in Feeds /\ new.listeners = rec.listeners /\ new.timers = rec.timers - 1
  BY <1>1, <1>5 DEF Feeds
<1> HIDE DEF new
<1>7. now \in Seq(Feeds) /\ Len(now) = Len(record) /\ now[r] = new /\ \A q \in 1..Len(record): q # r => now[q] = record[q]
  BY <1>1, <1>6
<1>8. (rec.fallback /\ record' = now /\ source' = source) \/ Connect(r, now)
  BY <1>2, <1>3
<1> HIDE DEF now
<1>9. /\ Len(record') = Len(now) /\ \A q \in 1..Len(now): record'[q].listeners = now[q].listeners
                                                            /\ record'[q].timers = now[q].timers
      /\ \A q: Lost(source, q) \subseteq Lost(source', q)
      /\ \A s \in Streams: source'[s].is = "none" => source'[s].of = 0
  <2>1. CASE record' = now /\ source' = source
    BY <2>1 DEF Bounded
  <2>2. CASE Connect(r, now)
    <3>1. r \in 1..Len(now)
      BY <1>1, <1>7
    <3> QED
      BY <1>1, <1>7, <2>2, <3>1, ConnectDoes DEF Bounded
  <2> QED
    BY <1>8, <2>1, <2>2
<1>10. Within(source', record'[r], r)
  <2>1. Cardinality(Lost(source, r)) <= Cardinality(Lost(source', r))
        /\ Cardinality(Lost(source, r)) \in Nat /\ Cardinality(Lost(source', r)) \in Nat
    BY <1>9, LostFacts
  <2>2. Within(source, rec, r)
    BY <1>1 DEF Bounded
  <2>3. record'[r].listeners = rec.listeners /\ record'[r].timers = rec.timers - 1
    BY <1>1, <1>6, <1>7, <1>9
  <2> HIDE DEF rec
  <2> QED
    BY <1>4, <2>1, <2>2, <2>3 DEF Within
<1>11. mapped' => record'[Len(record')].listeners > 0
  <2>1. mapped => Len(record) \in 1..Len(record) /\ record[Len(record)].listeners > 0
    BY <1>1 DEF Feed, Bounded
  <2>2. \A q \in 1..Len(record): record'[q].listeners = record[q].listeners
    BY <1>6, <1>7, <1>9
  <2> QED
    BY <1>1, <1>7, <1>9, <2>1, <2>2
<1>12. \A q \in 1..Len(record'): \/ q \in 1..Len(record) /\ record'[q].listeners = record[q].listeners
                                    /\ record'[q].timers = record[q].timers
                                 \/ Within(source', record'[q], q)
  BY <1>7, <1>9, <1>10
<1> QED
  BY <1>7, <1>9, <1>11, <1>12, BoundedFrom DEF Bounded

LEMMA RestBounded ==
    ASSUME Feed, Bounded,
           \/ UNCHANGED <<record, mapped, source>>
           \/ \E s \in Streams: Message(s) \/ Accept(s)
    PROVE  Bounded'
<1>1. record \in Seq(Feeds) /\ source \in [Streams -> Sources] /\ (mapped => Len(record) > 0)
  BY DEF Feed, FeedOK
<1>2. CASE UNCHANGED <<record, mapped, source>>
  BY <1>2 DEF Bounded
<1>3. ASSUME NEW s \in Streams, Message(s) PROVE Bounded'
  <2> DEFINE r   == source[s].of
             new == [record[r] EXCEPT !.attempts = 0]
  <2>1. r \in 1..Len(record) /\ record' = [record EXCEPT ![r] = new] /\ source' = source /\ mapped' = mapped
    BY <1>3, FeedFacts DEF Feed, FeedOK, Message
  <2>2. new.listeners = record[r].listeners /\ new.timers = record[r].timers
    BY <1>1, <2>1 DEF Feeds
  <2> HIDE DEF new, r
  <2>3. Len(record') = Len(record) /\ \A q \in 1..Len(record): record'[q].listeners = record[q].listeners
                                                               /\ record'[q].timers = record[q].timers
    BY <1>1, <2>1, <2>2
  <2>4. mapped' => record'[Len(record')].listeners > 0
    <3>1. mapped => Len(record) \in 1..Len(record) /\ record[Len(record)].listeners > 0
      BY <1>1 DEF Bounded
    <3> QED
      BY <2>1, <2>3, <3>1
  <2> QED
    BY <2>1, <2>3, <2>4, BoundedFrom DEF Bounded
<1>4. ASSUME NEW s \in Streams, Accept(s) PROVE Bounded'
  <2>1. UNCHANGED <<record, mapped>> /\ source[s].is = "opening" /\ source' = [source EXCEPT ![s].is = "open"]
    BY <1>4 DEF Accept
  <2>2. \A u \in Streams: /\ source'[u].of = source[u].of
                          /\ source'[u].is = IF u = s THEN "open" ELSE source[u].is
    BY <1>1, <2>1 DEF Sources
  <2>3. /\ \A q: Lost(source, q) \subseteq Lost(source', q)
        /\ \A u \in Streams: source'[u].is = "none" => source'[u].of = 0
    BY <2>1, <2>2 DEF Lost, Bounded
  <2> QED
    BY <2>1, <2>3, BoundedFrom DEF Bounded
<1> QED
  BY <1>2, <1>3, <1>4

LEMMA BoundedKept ==
    ASSUME Feed, Bounded, [FeedNext]_feedVars
    PROVE  Bounded'
<1>1. ASSUME NEW s \in Streams, Reject(s) \/ NetworkFails(s) \/ StreamEnds(s) PROVE Bounded'
  BY <1>1, FailureBounded DEF Reject, NetworkFails, StreamEnds
<1>2. CASE \E s \in Streams: \/ HandlerLeaves(s) \/ Forward(s)
                             \/ BroadcastSend(s) \/ BroadcastPanics(s) \/ ProcessDies(s)
  BY <1>2, RestBounded DEF HandlerLeaves, Forward, BroadcastSend, BroadcastPanics, ProcessDies, tabVars
<1>3. CASE WriteAndBroadcast \/ WriteOnly \/ Poll \/ ListAnswers \/ ListArrives \/ UNCHANGED feedVars
  BY <1>3, RestBounded DEF WriteAndBroadcast, WriteOnly, Poll, ListAnswers, ListArrives, tabVars, feedVars
<1> QED
  BY <1>1, <1>2, <1>3, SubscribeBounded, UnsubscribeBounded, TimerBounded, RestBounded DEF FeedNext

-----------------------------------------------------------------------------
(* The hub and the query.  A client has had a change for each message that *)
(* is in its queue, on its wire or about to be sent to it.                 *)

Clients    == [is: {"none", "client", "gone"}, queue: 0..Capacity, wire: Nat]
Due(c, s)  == c.queue + c.wire + (IF s \in pending THEN 1 ELSE 0)

Hub ==
    /\ db \in 0..MaxWrites /\ view \in 0..db /\ fetch \in {Idle, Asked} \cup (0..db)
    /\ client \in [Streams -> Clients] /\ pending \subseteq Streams
    /\ \A s \in Streams: Due(client[s], s) <= db
    /\ drops \in 0..MaxDrops

\* One client changes, and it has no more messages coming than before.
LEMMA OneClient ==
    ASSUME Hub, NEW s \in Streams, NEW c \in Clients, client' = [client EXCEPT ![s] = c],
           pending' \in {pending, pending \ {s}},
           c.queue + c.wire + (IF s \in pending' THEN 1 ELSE 0) <= Due(client[s], s)
    PROVE  client' \in [Streams -> Clients] /\ pending' \subseteq Streams /\ \A u \in Streams: (Due(client[u], u))' <= db
<1>1. client \in [Streams -> Clients] /\ pending \subseteq Streams /\ db \in Nat
  BY FeedAssumption DEF Hub
<1>2. client' \in [Streams -> Clients] /\ client'[s] = c /\ \A u \in Streams: u # s => client'[u] = client[u]
  BY <1>1
<1>3. ASSUME NEW u \in Streams PROVE Due(client[u], u)' <= db
  <2>1. Due(client[u], u) <= db /\ Due(client[u], u) \in Nat
    BY <1>1 DEF Hub, Due, Clients
  <2>2. CASE u # s
    <3>1. client'[u] = client[u] /\ (u \in pending' <=> u \in pending)
      BY <1>2, <2>2
    <3> QED
      BY <2>1, <3>1 DEF Due
  <2>3. CASE u = s
    <3>1. c.queue + c.wire + (IF s \in pending' THEN 1 ELSE 0) \in Nat
      BY DEF Clients
    <3>2. Due(client[u], u)' = c.queue + c.wire + (IF s \in pending' THEN 1 ELSE 0)
      BY <1>2, <2>3 DEF Due
    <3> QED
      BY <1>1, <2>1, <2>3, <3>1, <3>2
  <2> QED
    BY <2>2, <2>3
<1> QED
  BY <1>1, <1>2, <1>3

LEMMA HubFacts ==
    ASSUME Hub
    PROVE  /\ db \in Nat /\ MaxWrites \in Nat /\ MaxDrops \in Nat /\ Capacity \in Nat \ {0}
           /\ client \in [Streams -> Clients] /\ pending \subseteq Streams
           /\ \A s \in Streams: /\ client[s].queue \in 0..Capacity /\ client[s].wire \in Nat
                                /\ client[s].queue \in Nat /\ client[s].is \in {"none", "client", "gone"}
<1>1. MaxWrites \in Nat /\ MaxDrops \in Nat /\ Capacity \in Nat \ {0}
  BY FeedAssumption
<1>2. db \in Nat /\ client \in [Streams -> Clients] /\ pending \subseteq Streams
  BY <1>1 DEF Hub
<1>3. ASSUME NEW s \in Streams
      PROVE  /\ client[s].queue \in 0..Capacity /\ client[s].wire \in Nat
             /\ client[s].queue \in Nat /\ client[s].is \in {"none", "client", "gone"}
  BY <1>1, <1>2 DEF Clients
<1> QED
  BY <1>1, <1>2, <1>3

\* A client of the hub served: by its handler, the tab or the broadcast.
LEMMA ServedKeeps ==
    ASSUME Hub, NEW s \in Streams,
           Accept(s) \/ HandlerLeaves(s) \/ Forward(s) \/ Message(s) \/ BroadcastSend(s)
    PROVE  Hub'
<1>1. /\ Capacity \in Nat \ {0} /\ client \in [Streams -> Clients] /\ client[s].queue \in 0..Capacity
      /\ client[s].wire \in Nat /\ client[s].queue \in Nat /\ client[s] \in Clients
  BY HubFacts
<1>2. UNCHANGED <<db, view, drops>> /\ fetch' \in {fetch, Asked}
  BY DEF Accept, HandlerLeaves, Forward, Message, BroadcastSend
<1>3. ASSUME NEW c \in Clients, client' = [client EXCEPT ![s] = c], pending' \in {pending, pending \ {s}},
             c.queue + c.wire + (IF s \in pending' THEN 1 ELSE 0) <= Due(client[s], s)
      PROVE  Hub'
  <2>1. client' \in [Streams -> Clients] /\ pending' \subseteq Streams /\ \A u \in Streams: (Due(client[u], u))' <= db
    BY <1>3, OneClient
  <2> QED
    BY <1>2, <2>1 DEF Hub
<1>4. CASE Accept(s)
  <2> DEFINE c == [client[s] EXCEPT !.is = "client"]
  <2>1. c \in Clients /\ c.queue = client[s].queue /\ c.wire = client[s].wire
    BY <1>1 DEF Clients
  <2>2. client' = [client EXCEPT ![s] = c] /\ pending' = pending
    BY <1>4 DEF Accept
  <2> HIDE DEF c
  <2>3. c.queue + c.wire + (IF s \in pending' THEN 1 ELSE 0) <= Due(client[s], s)
    BY <1>1, <2>1, <2>2 DEF Due
  <2> QED
    BY <1>3, <2>1, <2>2, <2>3
<1>5. CASE HandlerLeaves(s)
  <2> DEFINE c == [is |-> "gone", queue |-> 0, wire |-> 0]
  <2>1. c \in Clients /\ c.queue = 0 /\ c.wire = 0
    BY <1>1 DEF Clients
  <2>2. client' = [client EXCEPT ![s] = c] /\ pending' = pending
    BY <1>5 DEF HandlerLeaves
  <2> HIDE DEF c
  <2>3. c.queue + c.wire + (IF s \in pending' THEN 1 ELSE 0) <= Due(client[s], s)
    BY <1>1, <2>1, <2>2 DEF Due
  <2> QED
    BY <1>3, <2>1, <2>2, <2>3
<1>6. CASE Forward(s)
  <2> DEFINE w == IF source[s].is = "open" THEN client[s].wire + 1 ELSE 0
             c == [client[s] EXCEPT !.queue = client[s].queue - 1, !.wire = w]
  <2>1. w \in Nat /\ w <= client[s].wire + 1 /\ client[s].queue - 1 \in 0..Capacity
    BY <1>1, <1>6 DEF Forward
  <2>2. client' = [client EXCEPT ![s] = c] /\ pending' = pending
    BY <1>1, <1>6 DEF Forward, Clients
  <2> HIDE DEF w
  <2>3. c \in Clients /\ c.queue = client[s].queue - 1 /\ c.wire = w
    BY <1>1, <2>1 DEF Clients
  <2> HIDE DEF c
  <2>4. c.queue + c.wire + (IF s \in pending' THEN 1 ELSE 0) <= Due(client[s], s)
    BY <1>1, <2>1, <2>2, <2>3 DEF Due
  <2> QED
    BY <1>3, <2>2, <2>3, <2>4
<1>7. CASE Message(s)
  <2> DEFINE c == [client[s] EXCEPT !.wire = client[s].wire - 1]
  <2>1. client[s].wire - 1 \in Nat
    BY <1>1, <1>7 DEF Message
  <2>2. client' = [client EXCEPT ![s] = c] /\ pending' = pending
    BY <1>1, <1>7 DEF Message, Clients
  <2>3. c \in Clients /\ c.queue = client[s].queue /\ c.wire = client[s].wire - 1
    BY <1>1, <2>1 DEF Clients
  <2> HIDE DEF c
  <2>4. c.queue + c.wire + (IF s \in pending' THEN 1 ELSE 0) <= Due(client[s], s)
    BY <1>1, <2>1, <2>2, <2>3 DEF Due
  <2> QED
    BY <1>3, <2>2, <2>3, <2>4
<1>8. CASE BroadcastSend(s)
  <2> DEFINE more == [client[s] EXCEPT !.queue = client[s].queue + 1]
             c    == IF client[s].queue < Capacity THEN more ELSE Removed(client[s])
  <2>1. client' = [client EXCEPT ![s] = c] /\ pending' = pending \ {s} /\ s \in pending
    BY <1>8 DEF BroadcastSend
  <2>2. c \in Clients /\ c.queue <= client[s].queue + 1 /\ c.wire = client[s].wire
    <3>1. CASE client[s].queue < Capacity
      <4>1. client[s].queue + 1 \in 0..Capacity
        BY <1>1, <3>1
      <4>2. more \in Clients /\ more.queue = client[s].queue + 1 /\ more.wire = client[s].wire
        BY <1>1, <4>1 DEF Clients
      <4> QED
        BY <1>1, <3>1, <4>2
    <3>2. CASE ~(client[s].queue < Capacity)
      <4>1. Removed(client[s]) \in Clients /\ Removed(client[s]).queue = client[s].queue /\ Removed(client[s]).wire = client[s].wire
        BY <1>1 DEF Removed, Clients
      <4> QED
        BY <1>1, <3>2, <4>1
    <3> QED
      BY <3>1, <3>2
  <2> HIDE DEF c
  <2>3. c.queue \in Nat
    BY <1>1, <2>2 DEF Clients
  <2>4. c.queue + c.wire + (IF s \in pending' THEN 1 ELSE 0) <= Due(client[s], s)
    BY <1>1, <2>1, <2>2, <2>3 DEF Due
  <2> QED
    BY <1>3, <2>1, <2>2, <2>4
<1> QED
  BY <1>4, <1>5, <1>6, <1>7, <1>8

\* Changes, and broadcasts that end at a closed channel.
LEMMA BroadcastsKeep ==
    ASSUME Hub, \/ WriteAndBroadcast \/ WriteOnly
                \/ \E s \in Streams: BroadcastPanics(s) \/ ProcessDies(s)
    PROVE  Hub'
<1>1. /\ db \in Nat /\ MaxWrites \in Nat /\ client \in [Streams -> Clients] /\ pending \subseteq Streams
      /\ \A s \in Streams: client[s].queue \in Nat /\ client[s].wire \in Nat
  BY HubFacts
<1>2. CASE WriteAndBroadcast \/ WriteOnly
  <2>1. /\ db' = db + 1 /\ db < MaxWrites /\ UNCHANGED <<client, fetch, view, drops>>
        /\ pending' = pending \/ (pending = {} /\ pending' = Registered)
    BY <1>2 DEF WriteAndBroadcast, WriteOnly, hubVars
  <2>2. db' \in 0..MaxWrites /\ view' \in 0..db' /\ fetch' \in {Idle, Asked} \cup (0..db')
    BY <1>1, <2>1 DEF Hub
  <2>3. pending' \subseteq Streams
    BY <1>1, <2>1 DEF Registered
  <2>4. ASSUME NEW s \in Streams PROVE Due(client[s], s)' <= db'
    <3>1. Due(client[s], s) <= db /\ Due(client[s], s)' <= Due(client[s], s) + 1
      BY <1>1, <2>1 DEF Hub, Due
    <3>2. Due(client[s], s) \in Nat /\ Due(client[s], s)' \in Nat
      BY <1>1, <2>1 DEF Due
    <3> QED
      BY <1>1, <2>1, <3>1, <3>2
  <2> QED
    BY <2>1, <2>2, <2>3, <2>4 DEF Hub
<1>3. ASSUME NEW s \in Streams, BroadcastPanics(s) \/ ProcessDies(s) PROVE Hub'
  <2>1. pending' = {} /\ UNCHANGED <<db, fetch, view, drops>>
    BY <1>3 DEF BroadcastPanics, ProcessDies
  <2>2. /\ client' \in [Streams -> Clients]
        /\ \A u \in Streams: /\ client'[u].queue \in Nat /\ client'[u].queue <= client[u].queue
                             /\ client'[u].wire = client[u].wire
    <3>1. CASE client' = client
      BY <1>1, <3>1
    <3>2. CASE ProcessDies(s)
      <4> DEFINE dead(u) == [client[u] EXCEPT !.is = "gone", !.queue = 0]
      <4>1. client' = [u \in Streams |-> IF client[u].is = "client" THEN dead(u) ELSE client[u]]
        BY <3>2 DEF ProcessDies
      <4>2. \A u \in Streams: dead(u) \in Clients /\ dead(u).queue = 0 /\ dead(u).wire = client[u].wire
        <5> SUFFICES ASSUME NEW u \in Streams PROVE dead(u) \in Clients /\ dead(u).queue = 0 /\ dead(u).wire = client[u].wire
          OBVIOUS
        <5>1. client[u] \in Clients /\ 0 \in 0..Capacity
          BY HubFacts
        <5> QED
          BY <5>1 DEF Clients
      <4> HIDE DEF dead
      <4> QED
        BY <1>1, <4>1, <4>2
    <3> QED
      BY <1>3, <3>1, <3>2 DEF BroadcastPanics
  <2>3. ASSUME NEW u \in Streams PROVE Due(client[u], u)' <= db
    <3>1. Due(client[u], u) <= db /\ Due(client[u], u) \in Nat
      BY <1>1 DEF Hub, Due
    <3>2. Due(client[u], u)' \in Nat /\ Due(client[u], u)' <= Due(client[u], u)
      BY <1>1, <2>1, <2>2 DEF Due
    <3> QED
      BY <1>1, <3>1, <3>2
  <2> QED
    BY <2>1, <2>2, <2>3 DEF Hub
<1> QED
  BY <1>2, <1>3

LEMMA HubKept ==
    ASSUME Hub, [FeedNext]_feedVars
    PROVE  Hub'
<1>1. CASE Subscribe \/ Unsubscribe \/ (\E r \in Records: TimerFires(r)) \/ UNCHANGED feedVars
           \/ \E s \in Streams: Reject(s) \/ StreamEnds(s)
  <2>1. UNCHANGED <<db, client, pending, fetch, view, drops>>
    BY <1>1 DEF Subscribe, Unsubscribe, TimerFires, Reject, StreamEnds, hubVars, feedVars
  <2> QED
    BY <2>1 DEF Hub, Due
<1>2. CASE \E s \in Streams: NetworkFails(s)
  <2>1. UNCHANGED <<db, client, pending, fetch, view>> /\ drops < MaxDrops /\ drops' = drops + 1
    BY <1>2 DEF NetworkFails, hubVars
  <2>2. drops' \in 0..MaxDrops
    BY <2>1, HubFacts DEF Hub
  <2> QED
    BY <2>1, <2>2 DEF Hub, Due
<1>3. CASE Poll \/ ListAnswers \/ ListArrives
  <2>1. UNCHANGED <<db, client, pending, drops>>
    BY <1>3 DEF Poll, ListAnswers, ListArrives, hubVars
  <2>2. fetch' \in {Idle, Asked} \cup (0..db) /\ view' \in 0..db
    <3>1. db \in 0..db /\ Idle \notin Nat /\ Asked \notin Nat
      BY HubFacts, FeedAssumption
    <3>2. CASE Poll \/ ListAnswers
      BY <3>1, <3>2 DEF Poll, ListAnswers, Hub
    <3>3. CASE ListArrives
      <4>1. fetch \in 0..db
        BY <3>1, <3>3 DEF ListArrives, Hub
      <4> QED
        BY <3>3, <4>1 DEF ListArrives
    <3> QED
      BY <1>3, <3>2, <3>3
  <2> QED
    BY <2>1, <2>2 DEF Hub, Due
<1> QED
  BY <1>1, <1>2, <1>3, ServedKeeps, BroadcastsKeep DEF FeedNext

LEMMA FeedStarts == FeedInit => Bounded /\ Hub
<1> SUFFICES ASSUME FeedInit PROVE Bounded /\ Hub
  OBVIOUS
<1>1. MaxRecords \in Nat /\ MaxWrites \in Nat /\ MaxDrops \in Nat /\ Capacity \in Nat
  BY FeedAssumption
<1>2. Bounded
  <2>1. record = <<>> /\ Len(record) = 0 /\ mapped = FALSE /\ source = [s \in Streams |-> [of |-> 0, is |-> "none"]]
    BY DEF FeedInit
  <2>2. 1..Len(record) = {} /\ \A s \in Streams: source[s].of = 0
    BY <2>1
  <2> QED
    BY <1>1, <2>1, <2>2 DEF Bounded
<1>3. Hub
  <2> DEFINE c == [is |-> "none", queue |-> 0, wire |-> 0]
  <2>1. c \in Clients /\ c.queue = 0 /\ c.wire = 0
    BY <1>1 DEF Clients
  <2>2. client = [s \in Streams |-> c] /\ pending = {} /\ db = 0 /\ view = 0 /\ fetch = Idle /\ drops = 0
    BY DEF FeedInit
  <2> HIDE DEF c
  <2>3. \A s \in Streams: Due(client[s], s) = 0
    BY <2>1, <2>2 DEF Due
  <2>4. client \in [Streams -> Clients]
    BY <2>1, <2>2
  <2> QED
    BY <1>1, <2>2, <2>3, <2>4 DEF Hub
<1> QED
  BY <1>2, <1>3

LEMMA FeedShown == Feed /\ Bounded /\ Hub => FeedTypeOK
<1> SUFFICES ASSUME Feed, Bounded, Hub PROVE FeedTypeOK
  OBVIOUS
<1> DEFINE Shown  == [listeners: 0..MaxListeners, es: Streams \cup {NoStream}, attempts: Nat, fallback: BOOLEAN,
                      timers: 0..MaxStreams, known: BOOLEAN]
           Froms  == [of: 0..MaxRecords, is: {"none", "opening", "open", "closed"}]
           Places == [is: {"none", "client", "gone"}, queue: 0..Capacity, wire: 0..MaxWrites]
<1>1. MaxStreams \in Nat /\ MaxRecords \in Nat
  BY FeedAssumption
<1>2. record \in Seq(Feeds) /\ source \in [Streams -> Sources] /\ Len(record) \in Nat
  BY DEF Feed, FeedOK
<1>3. \A r \in 1..Len(record): record[r] \in Shown
  <2> SUFFICES ASSUME NEW r \in 1..Len(record) PROVE record[r] \in Shown
    OBVIOUS
  <2>1. record[r] \in Feeds /\ Within(source, record[r], r)
    BY <1>2 DEF Bounded
  <2>2. Cardinality(Lost(source, r)) \in Nat /\ Cardinality(Lost(source, r)) <= MaxStreams
    BY LostFacts
  <2>3. record[r].timers \in 0..MaxStreams /\ record[r].listeners \in 0..MaxListeners
    BY <1>1, <2>1, <2>2 DEF Within, Feeds
  <2> QED
    BY <2>1, <2>3 DEF Feeds
<1>4. source \in [Streams -> Froms]
  <2> SUFFICES ASSUME NEW s \in Streams PROVE source[s] \in Froms
    BY <1>2
  <2>1. source[s] \in Sources
    BY <1>2
  <2>2. source[s].of \in 0..MaxRecords
    <3>1. CASE source[s].is = "none"
      BY <1>1, <3>1 DEF Bounded
    <3>2. CASE source[s].is # "none"
      BY <1>1, <1>2, <3>2 DEF Bounded, Feed, FeedOK
    <3> QED
      BY <3>1, <3>2
  <2> QED
    BY <2>1, <2>2 DEF Sources, States
<1>5. client \in [Streams -> Places]
  <2> SUFFICES ASSUME NEW s \in Streams PROVE client[s] \in Places
    BY HubFacts
  <2>1. client[s] \in Clients /\ client[s].queue \in Nat /\ client[s].wire \in Nat /\ db \in 0..MaxWrites /\ MaxWrites \in Nat
    BY HubFacts DEF Hub
  <2>2. Due(client[s], s) <= db
    BY DEF Hub
  <2>3. client[s].wire \in 0..MaxWrites
    BY <2>1, <2>2 DEF Due
  <2> QED
    BY <2>1, <2>3 DEF Clients
<1>6. record \in Seq(Shown)
  <2> HIDE DEF Shown
  <2> QED
    BY <1>2, <1>3
<1>7. Len(record) <= MaxRecords /\ mapped \in BOOLEAN /\ (mapped => record # <<>>)
  BY <1>2 DEF Bounded, Feed
<1> QED
  BY <1>4, <1>5, <1>6, <1>7 DEF FeedTypeOK, Hub

(* Types of all variables: no record has more timers than its streams have *)
(* failed, and no client more messages than there were changes.            *)
THEOREM FeedTyping == FeedSpec => []FeedTypeOK
<1>1. FeedInit => Bounded /\ Hub
  BY FeedStarts
<1>2. Feed /\ (Bounded /\ Hub) /\ [FeedNext]_feedVars => (Bounded /\ Hub)'
  BY BoundedKept, HubKept
<1>3. Feed /\ Bounded /\ Hub => FeedTypeOK
  BY FeedShown
<1>4. FeedSpec => []Feed
  BY FeedInvariant
<1> QED
  BY <1>1, <1>2, <1>3, <1>4, PTL DEF FeedSpec
=============================================================================
