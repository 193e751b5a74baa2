---------------------------- MODULE SessionsProofs ----------------------------
(***************************************************************************)
(* Proofs about the browser's sessions, for any accounts, roles, tabs and  *)
(* slots, and any number of sign-ins and clicks: types, the one story that *)
(* the three keys tell, and that the store implements RecentAccounts.      *)
(*                                                                         *)
(* A handler that is writing is known by what the store will hold when its *)
(* writes are done, if nobody else writes: After.                          *)
(***************************************************************************)
EXTENDS Sessions, FilterProofs, FiniteSetTheorems, FunctionTheorems

-----------------------------------------------------------------------------
(* Lists of sessions.                                                      *)

Distinct(list) == \A i, j \in 1..Len(list): list[i].id = list[j].id => i = j
Own(list)      == \A i \in 1..Len(list): list[i].token[1] = list[i].id
Sane(list)     == list \in Seq(Entries) /\ Distinct(list) /\ Own(list)

LEMMA ListFacts ==
    ASSUME NEW list \in Seq(Entries)
    PROVE  /\ Len(list) \in Nat /\ DOMAIN list = 1..Len(list)
           /\ \A i \in 1..Len(list): list[i] \in Entries /\ list[i].id \in Accounts /\ list[i].token \in Tokens
           /\ Ids(list) = {list[i].id : i \in 1..Len(list)}
           /\ list = <<>> <=> Len(list) = 0
           /\ list # <<>> => 1 \in 1..Len(list)
<1>1. Len(list) \in Nat /\ DOMAIN list = 1..Len(list) /\ \A i \in 1..Len(list): list[i] \in Entries
  OBVIOUS
<1>2. list = <<>> <=> Len(list) = 0
  OBVIOUS
<1>3. \A e \in Entries: e.id \in Accounts /\ e.token \in Tokens
  BY DEF Entries
<1> QED
  BY <1>1, <1>2, <1>3 DEF Ids

\* Without the entries of an account: the others, in their order.
LEMMA WithoutFacts ==
    ASSUME NEW list \in Seq(Entries), Distinct(list), NEW a
    PROVE  /\ Without(list, a) \in Seq(Entries) /\ Distinct(Without(list, a))
           /\ \A j \in 1..Len(Without(list, a)): /\ Without(list, a)[j].id # a
                                                 /\ \E i \in 1..Len(list): Without(list, a)[j] = list[i]
           /\ list # <<>> /\ list[1].id # a => Without(list, a) # <<>> /\ Without(list, a)[1] = list[1]
<1> DEFINE K == {i \in DOMAIN list: list[i].id # a}
           W == Without(list, a)
<1>1. W = Filter(list, K)
  BY DEF Without
<1> HIDE DEF W
<1>2. W \in Seq(Entries) /\ \E p: Places(W, list, K, Len(list), p)
  BY <1>1, FilterPlaces
<1>3. PICK p: Places(W, list, K, Len(list), p)
  BY <1>2
<1>4. Len(W) \in Nat /\ Len(list) \in Nat
  BY <1>2
<1>5. \A j \in 1..Len(W): p[j] \in 1..Len(list) /\ W[j] = list[p[j]] /\ list[p[j]].id # a
  BY <1>3 DEF Places
<1>6. Distinct(W)
  <2> SUFFICES ASSUME NEW i \in 1..Len(W), NEW j \in 1..Len(W), W[i].id = W[j].id PROVE i = j
    BY DEF Distinct
  <2>1. p[i] = p[j]
    BY <1>5 DEF Distinct
  <2>2. p[i] \in Nat /\ ~(i < j) /\ ~(j < i)
    BY <1>3, <1>4, <1>5, <2>1 DEF Places
  <2> QED
    BY <1>4, <2>2
<1>7. ASSUME list # <<>>, list[1].id # a PROVE W # <<>> /\ W[1] = list[1]
  <2>1. 1 \in K \cap (1..Len(list))
    BY <1>7, ListFacts
  <2>2. PICK j \in 1..Len(W): p[j] = 1
    BY <1>3, <2>1 DEF Places
  <2>3. j = 1
    <3> SUFFICES ASSUME 1 < j PROVE FALSE
      BY <1>4
    <3>1. 1 \in 1..Len(W)
      BY <1>4
    <3>2. p[1] < p[j] /\ p[1] \in 1..Len(list)
      BY <1>3, <1>5, <3>1 DEF Places
    <3> QED
      BY <1>4, <2>2, <3>2
  <2>4. W # <<>>
    BY <1>4, <2>2
  <2> QED
    BY <1>5, <2>2, <2>3, <2>4
<1> QED
  BY <1>2, <1>5, <1>6, <1>7 DEF W

\* A session put in front of the others.
LEMMA FrontFacts ==
    ASSUME NEW list \in Seq(Entries), Distinct(list), NEW s \in Entries
    PROVE  LET new == <<s>> \o Without(list, s.id)
           IN  /\ new \in Seq(Entries) /\ Distinct(new) /\ new # <<>> /\ new[1] = s
               /\ \A j \in 1..Len(new): \/ new[j] = s
                                        \/ new[j].id # s.id /\ \E i \in 1..Len(list): new[j] = list[i]
<1> DEFINE W   == Without(list, s.id)
           new == <<s>> \o W
<1>1. /\ W \in Seq(Entries) /\ Distinct(W)
      /\ \A j \in 1..Len(W): W[j].id # s.id /\ \E i \in 1..Len(list): W[j] = list[i]
  BY WithoutFacts
<1> HIDE DEF W
<1>2. <<s>> \in Seq(Entries) /\ Len(<<s>>) = 1 /\ <<s>>[1] = s /\ Len(W) \in Nat
  BY <1>1
<1>3. /\ new \in Seq(Entries) /\ Len(new) = 1 + Len(W) /\ new[1] = s
      /\ \A j \in 2..Len(W) + 1: new[j] = W[j - 1]
  BY <1>1, <1>2
<1> HIDE DEF new
<1>4. \A j \in 1..Len(new): j # 1 => j - 1 \in 1..Len(W) /\ new[j] = W[j - 1]
  BY <1>2, <1>3
<1>5. ASSUME NEW j \in 1..Len(new), j # 1
      PROVE  new[j].id # s.id /\ \E i \in 1..Len(list): new[j] = list[i]
  <2>1. j - 1 \in 1..Len(W) /\ new[j] = W[j - 1]
    BY <1>4, <1>5
  <2> QED
    BY <1>1, <2>1
<1>6. new # <<>>
  BY <1>2, <1>3
<1>7. Distinct(new)
  <2> SUFFICES ASSUME NEW i \in 1..Len(new), NEW j \in 1..Len(new), new[i].id = new[j].id PROVE i = j
    BY DEF Distinct
  <2>1. CASE i = 1 /\ j = 1
    BY <2>1
  <2>2. CASE i = 1 /\ j # 1
    BY <1>3, <1>5, <2>2
  <2>3. CASE i # 1 /\ j = 1
    BY <1>3, <1>5, <2>3
  <2>4. CASE i # 1 /\ j # 1
    <3>1. i - 1 \in 1..Len(W) /\ j - 1 \in 1..Len(W) /\ W[i - 1].id = W[j - 1].id
      BY <1>4, <2>4
    <3>2. i - 1 = j - 1
      BY <1>1, <3>1 DEF Distinct
    <3> QED
      BY <1>2, <1>3, <3>2
  <2> QED
    BY <2>1, <2>2, <2>3, <2>4
<1>8. \A j \in 1..Len(new): new[j] = s \/ (new[j].id # s.id /\ \E i \in 1..Len(list): new[j] = list[i])
  BY <1>3, <1>5
<1> QED
  BY <1>3, <1>6, <1>7, <1>8 DEF new, W

\* The entry of an account that stays is the same without another.
LEMMA EntryFacts ==
    ASSUME NEW list \in Seq(Entries), Distinct(list), NEW i \in 1..Len(list)
    PROVE  Entry(list, list[i].id) = list[i]
<1>1. DOMAIN list = 1..Len(list)
  BY ListFacts
<1> DEFINE k == CHOOSE k \in DOMAIN list: list[k].id = list[i].id
<1>2. k \in DOMAIN list /\ list[k].id = list[i].id
  BY <1>1
<1>3. k = i
  BY <1>1, <1>2 DEF Distinct
<1> QED
  BY <1>3 DEF Entry

LEMMA KeptEntry ==
    ASSUME NEW list \in Seq(Entries), Distinct(list), NEW a, NEW b \in Ids(list), a # b
    PROVE  b \in Ids(Without(list, a)) /\ Entry(Without(list, a), b) = Entry(list, b)
<1> DEFINE K == {i \in DOMAIN list: list[i].id # a}
           W == Without(list, a)
<1>1. W \in Seq(Entries) /\ Distinct(W)
  BY WithoutFacts
<1>2. PICK p: Places(W, list, K, Len(list), p)
  BY FilterPlaces DEF Without
<1>3. PICK i \in 1..Len(list): list[i].id = b
  BY ListFacts
<1>4. i \in K \cap (1..Len(list))
  BY <1>3, ListFacts
<1> HIDE DEF W, K
<1>5. PICK j \in 1..Len(W): p[j] = i
  BY <1>2, <1>4 DEF Places
<1>6. W[j] = list[i]
  BY <1>2, <1>5 DEF Places
<1>7. Entry(W, b) = W[j] /\ Entry(list, b) = list[i]
  BY <1>1, <1>3, <1>6, EntryFacts
<1>8. b \in Ids(W)
  BY <1>1, <1>3, <1>6, ListFacts
<1> QED
  BY <1>6, <1>7, <1>8 DEF W

-----------------------------------------------------------------------------
(* The store, and what it will be.                                         *)

CurOf(list, id) == IF id \in Ids(list) THEN Entry(list, id) ELSE First(list)

Agrees(st) == st.token = CurOf(st.list, st.id).token
Named(st)  == st.id = First(st.list).id /\ st.token = First(st.list).token

Has(keys, key) == \E i \in DOMAIN keys: keys[i] = key

Stored == [list |-> sessions, id |-> currentId, token |-> token]
Then(keys, list, cur) ==
    [list  |-> IF Has(keys, "sessions") THEN list ELSE sessions,
     id    |-> IF Has(keys, "id") THEN cur.id ELSE currentId,
     token |-> IF Has(keys, "token") THEN cur.token ELSE token]
After(t) == Then(due[t], put[t].list, put[t].cur)

LEMMA FirstFacts ==
    ASSUME NEW list, Sane(list)
    PROVE  /\ list = <<>> => First(list) = Nobody /\ Ids(list) = {}
           /\ list # <<>> => /\ First(list) = list[1] /\ First(list) \in Entries
                             /\ First(list).id \in Ids(list)
           /\ Nobody.id = None /\ Nobody.token = None /\ None \notin Accounts
           /\ First(list) \in Entries \cup {Nobody}
BY ListFacts, SessionsAssumption DEF Sane, First, Nobody, Ids

\* The current session is one of the list; asked for again, it is the same.
LEMMA CurFacts ==
    ASSUME NEW list, Sane(list), NEW id
    PROVE  /\ list = <<>> => CurOf(list, id) = Nobody
           /\ list # <<>> => /\ CurOf(list, id) \in Entries
                             /\ CurOf(list, id).id \in Ids(list)
                             /\ CurOf(list, id).id \in Accounts
           /\ CurOf(list, CurOf(list, id).id) = CurOf(list, id)
           /\ id \in Ids(list) => CurOf(list, id).id = id
           /\ CurOf(list, id) \in Entries \cup {Nobody}
           /\ CurOf(list, id) # Nobody => \E i \in 1..Len(list): CurOf(list, id) = list[i]
<1>0. list \in Seq(Entries) /\ Distinct(list)
  BY DEF Sane
<1>1. CASE list = <<>>
  <2>1. CurOf(list, id) = Nobody /\ Ids(list) = {}
    BY <1>1, FirstFacts DEF CurOf
  <2>2. CurOf(list, Nobody.id) = Nobody
    BY <1>1, <2>1, FirstFacts DEF CurOf
  <2> QED
    BY <1>1, <2>1, <2>2
<1>2. CASE list # <<>>
  <2>1. PICK i \in 1..Len(list): /\ CurOf(list, id) = list[i]
                                 /\ id \in Ids(list) => list[i].id = id
    <3>1. CASE id \in Ids(list)
      <4>1. PICK i \in 1..Len(list): list[i].id = id
        BY <1>0, <3>1, ListFacts
      <4> QED
        BY <1>0, <3>1, <4>1, EntryFacts DEF CurOf
    <3>2. CASE id \notin Ids(list)
      BY <1>0, <1>2, <3>2, FirstFacts, ListFacts DEF CurOf
    <3> QED
      BY <3>1, <3>2
  <2>2. list[i] \in Entries /\ list[i].id \in Ids(list) /\ list[i].id \in Accounts
    BY <1>0, ListFacts
  <2>3. CurOf(list, list[i].id) = list[i]
    BY <1>0, <2>2, EntryFacts DEF CurOf
  <2> QED
    BY <1>2, <2>1, <2>2, <2>3
<1> QED
  BY <1>1, <1>2

LEMMA WithoutNothing ==
    ASSUME NEW list, Sane(list), NEW a
    PROVE  list = <<>> => Without(list, a) = <<>>
<1>0. list \in Seq(Entries) /\ Distinct(list)
  BY DEF Sane
<1>1. /\ Without(list, a) \in Seq(Entries)
      /\ \A j \in 1..Len(Without(list, a)): \E i \in 1..Len(list): Without(list, a)[j] = list[i]
  BY <1>0, WithoutFacts
<1>2. Len(Without(list, a)) \in Nat /\ (list = <<>> => Len(list) = 0)
  BY <1>0, <1>1
<1> QED
  BY <1>1, <1>2

\* Without an account that is not current, the current session stays.
LEMMA CurKept ==
    ASSUME NEW list, Sane(list), NEW a, NEW id,
           CurOf(list, id).id # a, list = <<>> \/ id = CurOf(list, id).id
    PROVE  CurOf(Without(list, a), id) = CurOf(list, id)
<1>0. list \in Seq(Entries) /\ Distinct(list)
  BY DEF Sane
<1>1. CASE list = <<>>
  BY <1>1, WithoutNothing
<1>2. CASE list # <<>>
  <2>1. id \in Ids(list) /\ id # a
    BY <1>2, CurFacts
  <2> QED
    BY <1>0, <2>1, KeptEntry DEF CurOf
<1> QED
  BY <1>1, <1>2

LEMMA WithoutSane ==
    ASSUME NEW list, Sane(list), NEW a
    PROVE  Sane(Without(list, a))
BY WithoutFacts DEF Sane, Own

LEMMA FrontSane ==
    ASSUME NEW list, Sane(list), NEW s \in Entries, s.token[1] = s.id
    PROVE  LET new == <<s>> \o Without(list, s.id)
           IN  /\ Sane(new) /\ new # <<>> /\ First(new) = s
               /\ CurOf(new, s.id) = s
<1> DEFINE new == <<s>> \o Without(list, s.id)
<1>1. /\ new \in Seq(Entries) /\ Distinct(new) /\ new # <<>> /\ new[1] = s
      /\ \A j \in 1..Len(new): \/ new[j] = s
                               \/ new[j].id # s.id /\ \E i \in 1..Len(list): new[j] = list[i]
  BY FrontFacts DEF Sane
<1> HIDE DEF new
<1>2. Sane(new)
  BY <1>1 DEF Sane, Own
<1>3. 1 \in 1..Len(new) /\ s.id \in Ids(new)
  BY <1>1, ListFacts
<1>4. Entry(new, s.id) = s
  BY <1>1, <1>3, EntryFacts
<1> QED
  BY <1>1, <1>2, <1>3, <1>4 DEF First, CurOf, new

-----------------------------------------------------------------------------
(* What a handler has yet to write.                                        *)

Writing == {<<"token">>, <<"id", "token">>, All, <<"sessions">>, <<"token", "token", "id">>}
Shapes  == Writing \cup {<<>>, <<"token", "id">>, <<"id">>}

LEMMA Tails ==
    /\ Tail(<<"token">>) = <<>> /\ Tail(<<"id">>) = <<>> /\ Tail(<<"sessions">>) = <<>>
    /\ Tail(<<"id", "token">>) = <<"token">> /\ Tail(<<"token", "id">>) = <<"id">>
    /\ Tail(All) = <<"id", "token">> /\ Tail(<<"token", "token", "id">>) = <<"token", "id">>
BY DEF All

LEMMA Heads ==
    /\ Head(<<"token">>) = "token" /\ Head(<<"id">>) = "id" /\ Head(<<"sessions">>) = "sessions"
    /\ Head(<<"id", "token">>) = "id" /\ Head(<<"token", "id">>) = "token"
    /\ Head(All) = "sessions" /\ Head(<<"token", "token", "id">>) = "token"
BY DEF All

LEMMA Hass ==
    \A key: /\ ~Has(<<>>, key)
            /\ Has(<<"token">>, key) <=> key = "token"
            /\ Has(<<"id">>, key) <=> key = "id"
            /\ Has(<<"sessions">>, key) <=> key = "sessions"
            /\ Has(<<"id", "token">>, key) <=> key \in {"id", "token"}
            /\ Has(<<"token", "id">>, key) <=> key \in {"id", "token"}
            /\ Has(<<"token", "token", "id">>, key) <=> key \in {"id", "token"}
            /\ Has(All, key) <=> key \in {"id", "token", "sessions"}
BY DEF Has, All

LEMMA NotEmpty ==
    /\ <<"token">> # <<>> /\ <<"id">> # <<>> /\ <<"sessions">> # <<>> /\ <<"id", "token">> # <<>>
    /\ <<"token", "id">> # <<>> /\ <<"token", "token", "id">> # <<>> /\ All # <<>>
BY DEF All

\* A write leaves a shape, and what is still to write is its key and the rest.
LEMMA ShapeFacts ==
    ASSUME NEW keys \in Shapes, keys # <<>>
    PROVE  /\ Head(keys) \in {"sessions", "id", "token"} /\ Tail(keys) \in Shapes
           /\ Tail(keys) # <<>> => Head(Tail(keys)) # "sessions"
           /\ \A key: Has(keys, key) <=> key = Head(keys) \/ Has(Tail(keys), key)
<1>1. CASE keys \in {<<"token">>, <<"id">>, <<"sessions">>}
  BY <1>1, Tails, Heads, Hass DEF Shapes, Writing
<1>2. CASE keys \in {<<"id", "token">>, <<"token", "id">>}
  BY <1>2, Tails, Heads, Hass DEF Shapes, Writing
<1>3. CASE keys \in {All, <<"token", "token", "id">>}
  BY <1>3, Tails, Heads, Hass DEF Shapes, Writing
<1> QED
  BY <1>1, <1>2, <1>3 DEF Shapes, Writing

-----------------------------------------------------------------------------
(* The invariant of the store and the handlers.  A handler that nobody has *)
(* overlapped leaves the token that belongs to the current session, and    *)
(* knows whether the account it still has to remove is the current one.    *)

Paths == Pages \cup {"stay"}

IsTodo(items) ==
    \/ items = <<>>
    \/ \E path \in Paths: items = Go(path)
    \/ \E path \in Paths, a \in Accounts, f \in BOOLEAN: items = Keep(a, f) \o Go(path)

KeepReady(st, items) ==
    items # <<>> /\ Head(items).do = "keep" =>
        /\ Agrees(st)
        /\ st.list = <<>> \/ st.id = CurOf(st.list, st.id).id
        /\ ~Head(items).first => CurOf(st.list, st.id).id # Head(items).without

Handling ==
    /\ due \in [Tabs -> Shapes]
    /\ todo \in [Tabs -> Seq(Items)] /\ \A t \in Tabs: IsTodo(todo[t])
    /\ put \in [Tabs -> [list: Seq(Entries), cur: Entries \cup {Nobody}]]
    /\ \A t \in Tabs: Sane(put[t].list)
    /\ solo \in Tabs \cup {None} /\ met \in BOOLEAN /\ tidy \in BOOLEAN

SoloKnows ==
    \A t \in Tabs: solo = t => /\ Alone(t)
                               /\ due[t] # <<>> => Agrees(After(t))
                               /\ KeepReady(After(t), todo[t])

BeforeMet ==
    ~met => /\ \A t \in Tabs: Busy(t) => solo = t /\ Named(After(t))
            /\ (\A t \in Tabs: ~Busy(t)) => Named(Stored)

Tidy == tidy => token = Current.token

Orderly == Sane(sessions) /\ Handling /\ SoloKnows /\ BeforeMet /\ Tidy

LEMMA LookFacts ==
    ASSUME NEW path \in Paths
    PROVE  /\ Go(path) \in Seq(Items) /\ Go(path) # <<>> /\ Head(Go(path)).do = "look"
           /\ Tail(Go(path)) = <<>> /\ Head(Go(path)).path = path
<1> DEFINE look == [do |-> "look", path |-> path]
<1>1. look \in Items /\ look.do = "look" /\ look.path = path
  BY DEF Items, Paths
<1> HIDE DEF look
<1>2. Go(path) = <<look>>
  BY DEF Go, look
<1> QED
  BY <1>1, <1>2

LEMMA TodoFacts ==
    ASSUME NEW path \in Paths, NEW a \in Accounts, NEW f \in BOOLEAN
    PROVE  /\ Keep(a, f) \o Go(path) \in Seq(Items) /\ Keep(a, f) \o Go(path) # <<>>
           /\ Head(Keep(a, f) \o Go(path)) = [do |-> "keep", without |-> a, first |-> f]
           /\ Head(Keep(a, f) \o Go(path)).do = "keep"
           /\ Tail(Keep(a, f) \o Go(path)) = Go(path)
<1> DEFINE look == [do |-> "look", path |-> path]
           keep == [do |-> "keep", without |-> a, first |-> f]
<1>1. look \in Items /\ keep \in Items
  BY DEF Items, Paths
<1>2. keep.do = "keep"
  OBVIOUS
<1> HIDE DEF look, keep
<1>3. Go(path) = <<look>> /\ Keep(a, f) = <<keep>>
  BY DEF Go, Keep, look, keep
<1>4. <<keep>> \o <<look>> = <<keep, look>>
  <2>1. Len(<<keep>> \o <<look>>) = 2 /\ <<keep>> \o <<look>> \in Seq(Items)
    BY <1>1
  <2>2. (<<keep>> \o <<look>>)[1] = keep /\ (<<keep>> \o <<look>>)[2] = look
    BY <1>1
  <2>3. <<keep, look>> \in Seq(Items) /\ Len(<<keep, look>>) = 2
    BY <1>1
  <2>4. <<keep, look>>[1] = keep /\ <<keep, look>>[2] = look
    OBVIOUS
  <2> DEFINE L == <<keep>> \o <<look>>
             R == <<keep, look>>
  <2>5. L \in Seq(Items) /\ R \in Seq(Items) /\ Len(L) = 2 /\ Len(R) = 2 /\ L[1] = R[1] /\ L[2] = R[2]
    BY <2>1, <2>2, <2>3, <2>4
  <2> HIDE DEF L, R
  <2>6. \A i \in 1..2: L[i] = R[i]
    BY <2>5
  <2>7. L = R
    BY <2>5, <2>6
  <2> QED
    BY <2>7 DEF L, R
<1>5. /\ <<keep, look>> \in Seq(Items)
      /\ <<keep, look>> # <<>> /\ Head(<<keep, look>>) = keep /\ Tail(<<keep, look>>) = <<look>>
  BY <1>1
<1> QED
  BY <1>2, <1>3, <1>4, <1>5 DEF keep

LEMMA TodosTyped ==
    ASSUME NEW items, IsTodo(items)
    PROVE  items \in Seq(Items)
<1>1. CASE items = <<>>
  BY <1>1
<1>2. CASE \E path \in Paths: items = Go(path)
  BY <1>2, LookFacts
<1>3. CASE \E path \in Paths, a \in Accounts, f \in BOOLEAN: items = Keep(a, f) \o Go(path)
  <2>1. PICK path \in Paths, a \in Accounts, f \in BOOLEAN: items = Keep(a, f) \o Go(path)
    BY <1>3
  <2> QED
    BY <2>1, TodoFacts
<1> QED
  BY <1>1, <1>2, <1>3 DEF IsTodo

\* A step of a handler that may be followed by writes.
Steps(t) ==
    /\ due[t] = <<>> /\ UNCHANGED <<store, tidy>>
    /\ \/ Begin(t)
       \/ todo[t] # <<>> /\ UNCHANGED <<solo, met>>

Fine(t, keys, list, cur, next) ==
    /\ keys \in Shapes /\ Sane(list) /\ cur \in Entries \cup {Nobody} /\ IsTodo(next)
    /\ solo' = t => /\ keys # <<>> => Agrees(Then(keys, list, cur))
                    /\ KeepReady(Then(keys, list, cur), next)
                    /\ Named(Stored) => Named(Then(keys, list, cur))

LEMMA NothingDue ==
    \A list, cur: Then(<<>>, list, cur) = Stored
BY Hass DEF Then, Stored

LEMMA HandlerStep ==
    ASSUME Orderly, NEW t \in Tabs, Steps(t),
           NEW keys, NEW list, NEW cur, NEW next,
           Writes(t, keys, list, cur, next), Fine(t, keys, list, cur, next)
    PROVE  Orderly'
<1>1. /\ due' = [due EXCEPT ![t] = keys] /\ todo' = [todo EXCEPT ![t] = next]
      /\ put' = [put EXCEPT ![t] = [list |-> list, cur |-> cur]]
      /\ list \in Seq(Entries) /\ keys \in Shapes /\ cur \in Entries \cup {Nobody}
  BY DEF Writes, Fine, Sane
<1>2. /\ due'[t] = keys /\ todo'[t] = next /\ put'[t] = [list |-> list, cur |-> cur]
      /\ \A u \in Tabs: u # t => due'[u] = due[u] /\ todo'[u] = todo[u] /\ put'[u] = put[u]
  BY <1>1 DEF Orderly, Handling
<1>3. Handling'
  <2>1. put' \in [Tabs -> [list: Seq(Entries), cur: Entries \cup {Nobody}]]
    BY <1>1 DEF Orderly, Handling
  <2>2. due' \in [Tabs -> Shapes] /\ todo' \in [Tabs -> Seq(Items)]
    BY <1>1, TodosTyped DEF Orderly, Handling, Fine
  <2>3. ASSUME NEW u \in Tabs PROVE IsTodo(todo'[u]) /\ Sane(put'[u].list)
    <3>1. CASE u = t
      BY <1>2, <3>1 DEF Fine
    <3>2. CASE u # t
      BY <1>2, <3>2 DEF Orderly, Handling
    <3> QED
      BY <3>1, <3>2
  <2>4. solo' \in Tabs \cup {None} /\ met' \in BOOLEAN /\ tidy' \in BOOLEAN
    BY DEF Orderly, Handling, Steps, Begin
  <2> QED
    BY <2>1, <2>2, <2>3, <2>4 DEF Handling, IsTodo, Sane, Distinct, Own
<1>4. UNCHANGED <<sessions, currentId, token>>
  BY DEF Steps, store
<1>5. After(t)' = Then(keys, list, cur)
  BY <1>2, <1>4 DEF After, Then
<1>6. \A u \in Tabs: solo' = u => u = t /\ Alone(t)
  <2>1. CASE Begin(t)
    BY <2>1, SessionsAssumption DEF Begin
  <2>2. CASE todo[t] # <<>> /\ UNCHANGED <<solo, met>>
    BY <2>2 DEF Orderly, SoloKnows, Alone, Busy
  <2> QED
    BY <2>1, <2>2 DEF Steps
<1>7. Alone(t) => Alone(t)'
  BY <1>2 DEF Alone, Busy
<1>8. SoloKnows'
  <2> SUFFICES ASSUME NEW u \in Tabs, solo' = u
               PROVE  Alone(u)' /\ (due'[u] # <<>> => Agrees(After(u)')) /\ KeepReady(After(u)', todo'[u])
    BY DEF SoloKnows, Agrees, KeepReady, CurOf, First, Ids, Entry
  <2>1. u = t /\ Alone(t)'
    BY <1>6, <1>7
  <2> QED
    BY <1>2, <1>5, <2>1 DEF Fine
<1>9. ASSUME ~met' PROVE Alone(t) /\ solo' = t /\ Named(Stored)
  <2>1. CASE Begin(t)
    <3>1. ~met /\ Alone(t) /\ solo' = t /\ ~Busy(t)
      BY <1>9, <2>1 DEF Begin, Orderly, Handling
    <3>2. \A u \in Tabs: ~Busy(u)
      BY <3>1 DEF Alone
    <3> QED
      BY <3>1, <3>2 DEF Orderly, BeforeMet
  <2>2. CASE todo[t] # <<>> /\ UNCHANGED <<solo, met>>
    <3>1. Busy(t) /\ ~met
      BY <1>9, <2>2 DEF Busy
    <3>2. solo = t /\ Named(After(t)) /\ After(t) = Stored
      BY <3>1, NothingDue DEF Orderly, BeforeMet, Steps, After
    <3> QED
      BY <2>2, <3>2 DEF Orderly, SoloKnows
  <2> QED
    BY <2>1, <2>2 DEF Steps
<1>10. BeforeMet'
  <2> SUFFICES ASSUME ~met'
               PROVE  /\ \A u \in Tabs: Busy(u)' => solo' = u /\ Named(After(u)')
                      /\ Named(Stored)'
    BY DEF BeforeMet, Named, First
  <2>1. Named(Stored)'
    BY <1>4, <1>9 DEF Named, Stored, First
  <2>2. ASSUME NEW u \in Tabs, Busy(u)' PROVE solo' = u /\ Named(After(u)')
    <3>1. u = t
      BY <1>7, <1>9, <2>2 DEF Alone
    <3> QED
      BY <1>5, <1>9, <3>1 DEF Fine
  <2> QED
    BY <2>1, <2>2
<1>11. Sane(sessions)' /\ Tidy'
  <2>1. UNCHANGED tidy
    BY DEF Steps
  <2> QED
    BY <1>4, <2>1 DEF Orderly, Sane, Distinct, Own, Tidy, Current, Ids, Entry, First
<1> QED
  BY <1>3, <1>8, <1>10, <1>11 DEF Orderly

LEMMA OrderlyStays ==
    ASSUME Orderly, UNCHANGED <<store, handlers>>
    PROVE  Orderly'
<1>1. UNCHANGED <<sessions, currentId, token, due, put, todo, solo, met, tidy>>
  BY DEF store, handlers
<1>2. Sane(sessions)' /\ Handling' /\ Tidy'
  <2>1. Sane(sessions)' /\ Tidy'
    BY <1>1 DEF Orderly, Sane, Distinct, Own, Tidy, Current, Ids, Entry, First
  <2>2. \A t \in Tabs: IsTodo(todo'[t]) /\ Sane(put'[t].list)
    BY <1>1 DEF Orderly, Handling
  <2>3. Handling'
    BY <1>1, <2>2 DEF Orderly, Handling, IsTodo, Sane, Distinct, Own
  <2> QED
    BY <2>1, <2>3
<1>3. \A t \in Tabs: After(t)' = After(t) /\ (Alone(t)' <=> Alone(t)) /\ (Busy(t)' <=> Busy(t))
  BY <1>1 DEF After, Then, Alone, Busy
<1>4. SoloKnows'
  <2>1. \A t \in Tabs: /\ Agrees(After(t))' <=> Agrees(After(t))
                      /\ KeepReady(After(t), todo[t])' <=> KeepReady(After(t), todo[t])
    BY <1>1, <1>3 DEF Agrees, KeepReady, CurOf, First, Ids, Entry
  <2> QED
    BY <1>1, <1>3, <2>1 DEF Orderly, SoloKnows
<1>5. BeforeMet'
  BY <1>1, <1>3 DEF Orderly, BeforeMet, Named, First, Stored
<1> QED
  BY <1>2, <1>4, <1>5 DEF Orderly

\* A write brings the store nearer to what it will be.
LEMMA WriteAfter ==
    ASSUME Orderly, NEW t \in Tabs, WriteKey(t)
    PROVE  /\ After(t)' = After(t)
           /\ due'[t] = Tail(due[t]) /\ (due'[t] = <<>> => Stored' = After(t))
           /\ put' \in [Tabs -> [list: Seq(Entries), cur: Entries \cup {Nobody}]]
           /\ \A u \in Tabs: Sane(put'[u].list)
           /\ Sane(sessions)'
<1>1. /\ due[t] \in Shapes /\ due[t] # <<>> /\ due' = [due EXCEPT ![t] = Tail(due[t])]
      /\ sessions' = IF Head(due[t]) = "sessions" THEN put[t].list ELSE sessions
      /\ currentId' = IF Head(due[t]) = "id" THEN put[t].cur.id ELSE currentId
      /\ token' = IF Head(due[t]) = "token" THEN put[t].cur.token ELSE token
      /\ put' = IF Tail(due[t]) = <<>> THEN [put EXCEPT ![t] = NoPut] ELSE put
  BY DEF WriteKey, Orderly, Handling
<1>2. due'[t] = Tail(due[t])
  BY <1>1 DEF Orderly, Handling
<1>3. \A key: Has(due[t], key) <=> key = Head(due[t]) \/ Has(due'[t], key)
  BY <1>1, <1>2, ShapeFacts
<1>4. ASSUME due'[t] = <<>> PROVE Stored' = After(t) /\ After(t)' = After(t)
  <2>1. \A key: Has(due[t], key) <=> key = Head(due[t])
    BY <1>3, <1>4, Hass
  <2>2. Stored' = After(t)
    BY <1>1, <2>1 DEF Stored, After, Then
  <2>3. After(t)' = Stored'
    BY <1>4, Hass DEF After, Then, Stored
  <2> QED
    BY <2>2, <2>3
<1>5. ASSUME due'[t] # <<>> PROVE After(t)' = After(t)
  <2>1. put' = put
    BY <1>1, <1>2, <1>5
  <2> QED
    BY <1>1, <1>3, <2>1 DEF After, Then
<1>6. Sane(NoPut.list) /\ NoPut \in [list: Seq(Entries), cur: Entries \cup {Nobody}]
  <2>1. NoPut.list = <<>> /\ <<>> \in Seq(Entries) /\ Len(<<>>) = 0
    BY DEF NoPut
  <2>2. Sane(NoPut.list)
    BY <2>1 DEF Sane, Distinct, Own
  <2> QED
    BY <2>1, <2>2 DEF NoPut
<1>7. put' \in [Tabs -> [list: Seq(Entries), cur: Entries \cup {Nobody}]]
  BY <1>1, <1>6 DEF Orderly, Handling
<1>8. \A u \in Tabs: put'[u] = NoPut \/ put'[u] = put[u]
  BY <1>1 DEF Orderly, Handling
<1>9. \A u \in Tabs: Sane(put'[u].list)
  BY <1>6, <1>8 DEF Orderly, Handling
<1>10. Sane(sessions)'
  BY <1>1 DEF Orderly, Handling, Sane, Distinct, Own
<1> QED
  BY <1>2, <1>4, <1>5, <1>7, <1>9, <1>10

LEMMA WriteStep ==
    ASSUME Orderly, NEW t \in Tabs, WriteKey(t)
    PROVE  Orderly'
<1>1. /\ due[t] \in Shapes /\ due[t] # <<>> /\ due' = [due EXCEPT ![t] = Tail(due[t])]
      /\ todo' = todo /\ met' = met
      /\ tidy' = (Tail(due[t]) = <<>> /\ solo = t)
      /\ solo' = IF Tail(due[t]) = <<>> /\ todo[t] = <<>> THEN None ELSE solo
  BY DEF WriteKey, Orderly, Handling
<1>2. /\ After(t)' = After(t)
      /\ due'[t] = Tail(due[t]) /\ (due'[t] = <<>> => Stored' = After(t))
      /\ put' \in [Tabs -> [list: Seq(Entries), cur: Entries \cup {Nobody}]]
      /\ \A u \in Tabs: Sane(put'[u].list)
      /\ Sane(sessions)'
  BY WriteAfter
<1>3. Handling'
  <2>1. due' \in [Tabs -> Shapes]
    BY <1>1, ShapeFacts DEF Orderly, Handling
  <2>2. \A u \in Tabs: IsTodo(todo'[u]) /\ Sane(put'[u].list)
    BY <1>1, <1>2 DEF Orderly, Handling
  <2>3. solo' \in Tabs \cup {None} /\ met' \in BOOLEAN /\ tidy' \in BOOLEAN
    BY <1>1 DEF Orderly, Handling
  <2>4. todo' \in [Tabs -> Seq(Items)]
    BY <1>1 DEF Orderly, Handling
  <2> QED
    BY <1>2, <2>1, <2>2, <2>3, <2>4 DEF Handling, IsTodo, Sane, Distinct, Own
<1>4. Busy(t) /\ (solo \in Tabs => solo = t)
  BY <1>1 DEF Busy, Orderly, SoloKnows, Alone
<1>5. \A u \in Tabs: u # t => (Busy(u)' <=> Busy(u))
  BY <1>1 DEF Busy, Orderly, Handling
<1>6. Alone(t) => Alone(t)'
  BY <1>5 DEF Alone
<1>7. SoloKnows'
  <2> SUFFICES ASSUME NEW u \in Tabs, solo' = u
               PROVE  Alone(u)' /\ (due'[u] # <<>> => Agrees(After(u)')) /\ KeepReady(After(u)', todo'[u])
    BY DEF SoloKnows, Agrees, KeepReady, CurOf, First, Ids, Entry
  <2>1. solo = t /\ u = t
    BY <1>1, <1>4, SessionsAssumption
  <2>2. Alone(t) /\ Agrees(After(t)) /\ KeepReady(After(t), todo[t])
    BY <1>1, <2>1 DEF Orderly, SoloKnows
  <2> QED
    BY <1>1, <1>2, <1>6, <2>1, <2>2
<1>8. BeforeMet'
  <2> SUFFICES ASSUME ~met'
               PROVE  /\ \A u \in Tabs: Busy(u)' => solo' = u /\ Named(After(u)')
                      /\ (\A u \in Tabs: ~Busy(u)') => Named(Stored')
    BY DEF BeforeMet, Named, First
  <2>1. solo = t /\ Named(After(t)) /\ Alone(t)
    BY <1>1, <1>4 DEF Orderly, BeforeMet, SoloKnows
  <2>2. ASSUME NEW u \in Tabs, Busy(u)' PROVE solo' = u /\ Named(After(u)')
    <3>1. u = t
      BY <1>6, <2>1, <2>2 DEF Alone
    <3>2. Tail(due[t]) # <<>> \/ todo[t] # <<>>
      BY <1>1, <1>2, <2>2, <3>1 DEF Busy
    <3> QED
      BY <1>1, <1>2, <2>1, <3>1, <3>2
  <2>3. ASSUME \A u \in Tabs: ~Busy(u)' PROVE Named(Stored')
    <3>1. due'[t] = <<>>
      BY <2>3 DEF Busy
    <3> QED
      BY <1>2, <2>1, <3>1
  <2> QED
    BY <2>2, <2>3
<1>9. Tidy'
  <2> SUFFICES ASSUME tidy' PROVE token' = Current'.token
    BY DEF Tidy
  <2>1. solo = t /\ Stored' = After(t) /\ Agrees(After(t))
    BY <1>1, <1>2 DEF Orderly, SoloKnows
  <2>2. Agrees(Stored')
    BY <2>1
  <2> QED
    BY <2>2 DEF Agrees, Stored, CurOf, Current, First, Ids, Entry
<1> QED
  BY <1>2, <1>3, <1>7, <1>8, <1>9 DEF Orderly

-----------------------------------------------------------------------------
(* What each handler writes.                                               *)

\* A list is only written as one change of the list that was read.
Planned(keys, list) ==
    keys # <<>> /\ Head(keys) = "sessions" =>
        \/ \E s \in Entries: list = <<s>> \o Without(sessions, s.id)
        \/ \E a \in Accounts: list = Without(sessions, a)
        \/ list = <<>>

Handles(t) ==
    /\ Steps(t)
    /\ \E keys, list, cur, next: /\ Writes(t, keys, list, cur, next)
                                 /\ Fine(t, keys, list, cur, next)
                                 /\ Planned(keys, list)

LEMMA NamedCurrent ==
    ASSUME Orderly, Named(Stored)
    PROVE  Current = First(sessions)
<1>1. Sane(sessions) /\ currentId = First(sessions).id /\ Current = CurOf(sessions, currentId)
  BY DEF Orderly, Named, Stored, Current, CurOf
<1>2. CASE sessions = <<>>
  BY <1>1, <1>2, CurFacts, FirstFacts
<1>3. CASE sessions # <<>>
  <2>1. /\ sessions \in Seq(Entries) /\ Distinct(sessions) /\ 1 \in 1..Len(sessions)
        /\ First(sessions) = sessions[1] /\ currentId \in Ids(sessions)
    BY <1>1, <1>3, FirstFacts, ListFacts DEF Sane
  <2>2. Entry(sessions, sessions[1].id) = sessions[1]
    BY <2>1, EntryFacts
  <2> QED
    BY <1>1, <2>1, <2>2 DEF CurOf
<1> QED
  BY <1>2, <1>3

ReadKeys == IF Current.id \in {None, currentId} THEN <<"token">> ELSE <<"id", "token">>

LEMMA EmptySane == Sane(<<>>)
<1>1. <<>> \in Seq(Entries) /\ Len(<<>>) = 0
  OBVIOUS
<1> QED
  BY <1>1 DEF Sane, Distinct, Own

\* The read repairs the two keys that name the current session.
LEMMA ReadFacts ==
    ASSUME Orderly
    PROVE  /\ ReadKeys \in Shapes /\ ReadKeys # <<>> /\ Head(ReadKeys) # "sessions"
           /\ Current \in Entries \cup {Nobody}
           /\ LET st == Then(ReadKeys, <<>>, Current)
              IN  /\ st.list = sessions /\ st.token = Current.token
                  /\ CurOf(st.list, st.id) = Current
                  /\ st.list = <<>> \/ st.id = Current.id
                  /\ Agrees(st)
                  /\ Named(Stored) => Named(st)
<1> DEFINE st == Then(ReadKeys, <<>>, Current)
<1>1. Current = CurOf(sessions, currentId) /\ Sane(sessions)
  BY DEF Orderly, Current, CurOf
<1>2. ReadKeys \in Shapes /\ ReadKeys # <<>> /\ Head(ReadKeys) # "sessions"
  BY Heads, NotEmpty DEF ReadKeys, Shapes, Writing
<1>3. /\ Current \in Entries \cup {Nobody} /\ CurOf(sessions, Current.id) = Current
      /\ sessions = <<>> => Current = Nobody
      /\ sessions # <<>> => Current.id \in Accounts
  BY <1>1, CurFacts
<1>4. /\ st.list = sessions /\ st.token = Current.token
      /\ st.id = IF Current.id \in {None, currentId} THEN currentId ELSE Current.id
  BY Hass DEF Then, ReadKeys
<1> HIDE DEF st
<1>5. CASE sessions = <<>>
  <2>1. CurOf(st.list, st.id) = Current
    BY <1>3, <1>4, <1>5, CurFacts, EmptySane
  <2>2. Named(Stored) => Named(st)
    BY <1>3, <1>4, <1>5, FirstFacts, EmptySane DEF Named, Stored
  <2> QED
    BY <1>2, <1>3, <1>4, <1>5, <2>1, <2>2 DEF Agrees, st
<1>6. CASE sessions # <<>>
  <2>1. st.id = Current.id
    BY <1>3, <1>4, <1>6, SessionsAssumption
  <2>2. Named(Stored) => Named(st)
    BY <1>4, <2>1, NamedCurrent DEF Named
  <2> QED
    BY <1>2, <1>3, <1>4, <2>1, <2>2 DEF Agrees, st
<1> QED
  BY <1>5, <1>6

LEMMA GetHandles ==
    ASSUME Orderly, NEW t \in Tabs, Steps(t), NEW next, GetCurrentSession(t, next),
           \/ next = <<>>
           \/ \E path \in Paths: next = Go(path)
           \/ \E path \in Paths, a \in Accounts: next = Keep(a, Current.id = a) \o Go(path)
    PROVE  Handles(t)
<1> DEFINE st == Then(ReadKeys, <<>>, Current)
<1>1. Writes(t, ReadKeys, <<>>, Current, next)
  BY DEF GetCurrentSession, ReadKeys
<1>2. IsTodo(next)
  BY DEF IsTodo
<1>3. /\ ReadKeys \in Shapes /\ ReadKeys # <<>> /\ Head(ReadKeys) # "sessions"
      /\ Current \in Entries \cup {Nobody} /\ CurOf(st.list, st.id) = Current
      /\ st.list = <<>> \/ st.id = Current.id
      /\ Agrees(st) /\ (Named(Stored) => Named(st))
  BY ReadFacts
<1> HIDE DEF st
<1>4. KeepReady(st, next)
  <2>1. CASE next = <<>>
    BY <2>1 DEF KeepReady
  <2>2. CASE \E path \in Paths: next = Go(path)
    BY <2>2, LookFacts DEF KeepReady
  <2>3. CASE \E path \in Paths, a \in Accounts: next = Keep(a, Current.id = a) \o Go(path)
    <3>1. PICK path \in Paths, a \in Accounts: next = Keep(a, Current.id = a) \o Go(path)
      BY <2>3
    <3>2. CASE Current.id = a
      <4>1. next = Keep(a, TRUE) \o Go(path)
        BY <3>1, <3>2 DEF Keep
      <4>2. Head(next) = [do |-> "keep", without |-> a, first |-> TRUE]
        BY <4>1, TodoFacts
      <4> QED
        BY <1>3, <4>2 DEF KeepReady
    <3>3. CASE Current.id # a
      <4>1. next = Keep(a, FALSE) \o Go(path)
        BY <3>1, <3>3 DEF Keep
      <4>2. Head(next) = [do |-> "keep", without |-> a, first |-> FALSE]
        BY <4>1, TodoFacts
      <4>3. Head(next).without = a
        BY <4>2
      <4> QED
        BY <1>3, <3>3, <4>3 DEF KeepReady
    <3> QED
      BY <3>2, <3>3
  <2> QED
    BY <2>1, <2>2, <2>3
<1>5. Fine(t, ReadKeys, <<>>, Current, next)
  BY <1>2, <1>3, <1>4, EmptySane DEF Fine, st
<1>6. Planned(ReadKeys, <<>>)
  BY DEF Planned
<1> QED
  BY <1>1, <1>5, <1>6 DEF Handles

\* All keys of a list and of its current session are written, and then shown.
LEMMA AllHandles ==
    ASSUME Orderly, NEW t \in Tabs, Steps(t), NEW list, NEW cur, NEW path \in Paths,
           Writes(t, All, list, cur, Go(path)),
           Sane(list), cur = First(list), Planned(All, list)
    PROVE  Handles(t)
<1> DEFINE st == Then(All, list, cur)
<1>1. st.list = list /\ st.id = cur.id /\ st.token = cur.token
  BY Hass DEF Then
<1>2. cur \in Entries \cup {Nobody} /\ All \in Shapes
  BY FirstFacts DEF Shapes, Writing
<1> HIDE DEF st
<1>3. CurOf(list, cur.id) = cur
  <2>1. CASE list = <<>>
    BY <2>1, CurFacts, FirstFacts
  <2>2. CASE list # <<>>
    BY <2>2, FirstFacts, ListFacts, EntryFacts DEF CurOf, Sane
  <2> QED
    BY <2>1, <2>2
<1>4. Agrees(st) /\ Named(st)
  BY <1>1, <1>3 DEF Agrees, Named
<1>5. KeepReady(st, Go(path)) /\ IsTodo(Go(path))
  BY LookFacts DEF KeepReady, IsTodo
<1>6. Fine(t, All, list, cur, Go(path))
  BY <1>2, <1>4, <1>5 DEF Fine, st
<1> QED
  BY <1>6 DEF Handles

LEMMA SaveHandles ==
    ASSUME Orderly, NEW t \in Tabs, Steps(t), NEW s \in Entries, s.token[1] = s.id,
           NEW path \in Paths, SaveSession(t, s, Go(path))
    PROVE  Handles(t)
<1> DEFINE new == <<s>> \o Without(sessions, s.id)
<1>1. Sane(new) /\ First(new) = s
  BY FrontSane DEF Orderly
<1>2. Planned(All, new)
  BY DEF Planned
<1>3. Writes(t, All, new, s, Go(path))
  BY DEF SaveSession
<1> HIDE DEF new
<1> QED
  BY <1>1, <1>2, <1>3, AllHandles

LEMMA SwitchHandles ==
    ASSUME Orderly, NEW t \in Tabs, Steps(t), NEW a \in Ids(sessions),
           NEW path \in Paths, SwitchSession(t, a, Go(path))
    PROVE  Handles(t)
<1>1. sessions \in Seq(Entries) /\ Distinct(sessions) /\ Own(sessions)
  BY DEF Orderly, Sane
<1>2. PICK i \in 1..Len(sessions): sessions[i].id = a
  BY <1>1, ListFacts
<1>3. Entry(sessions, a) = sessions[i] /\ sessions[i] \in Entries /\ sessions[i].token[1] = sessions[i].id
  BY <1>1, <1>2, EntryFacts, ListFacts DEF Own
<1>4. SaveSession(t, sessions[i], Go(path))
  BY <1>2, <1>3 DEF SwitchSession, SaveSession
<1> QED
  BY <1>3, <1>4, SaveHandles

LEMMA ClearAllHandles ==
    ASSUME Orderly, NEW t \in Tabs, Steps(t), NEW path \in Paths, ClearAllSessions(t, Go(path))
    PROVE  Handles(t)
<1>1. Sane(<<>>) /\ First(<<>>) = Nobody /\ Planned(All, <<>>)
  BY EmptySane, FirstFacts DEF Planned
<1>2. Writes(t, All, <<>>, Nobody, Go(path))
  BY DEF ClearAllSessions
<1> QED
  BY <1>1, <1>2, AllHandles

LEMMA ClearHandles ==
    ASSUME Orderly, NEW t \in Tabs, Steps(t), NEW path \in Paths, ClearCurrentSession(t, Go(path))
    PROVE  Handles(t)
<1>0. Sane(sessions) /\ Current = CurOf(sessions, currentId)
  BY DEF Orderly, Current, CurOf
<1>1. CASE Current = Nobody
  <2> DEFINE keys == <<"token", "token", "id">>
             st   == Then(keys, <<>>, Nobody)
  <2>1. Writes(t, keys, <<>>, Nobody, Go(path))
    BY <1>1 DEF ClearCurrentSession
  <2>2. sessions = <<>>
    <3>1. Current.id = None
      BY <1>1 DEF Nobody
    <3> QED
      BY <1>0, <3>1, CurFacts, SessionsAssumption
  <2>3. st.list = <<>> /\ st.id = None /\ st.token = None
    BY <2>2, Hass DEF Then, Nobody
  <2>4. First(<<>>) = Nobody /\ Nobody.id = None /\ Nobody.token = None /\ CurOf(<<>>, None) = Nobody
    BY EmptySane, FirstFacts, CurFacts
  <2> HIDE DEF st
  <2>5. Agrees(st) /\ Named(st)
    BY <2>3, <2>4 DEF Agrees, Named
  <2>6. KeepReady(st, Go(path)) /\ IsTodo(Go(path))
    BY LookFacts DEF KeepReady, IsTodo
  <2>7. keys \in Shapes /\ Planned(keys, <<>>)
    BY DEF Shapes, Writing, Planned
  <2>8. Fine(t, keys, <<>>, Nobody, Go(path))
    BY <2>5, <2>6, <2>7, EmptySane DEF Fine, st
  <2> QED
    BY <2>1, <2>7, <2>8 DEF Handles
<1>2. CASE Current # Nobody
  <2>1. Current.id \in Accounts
    BY <1>0, <1>2, CurFacts
  <2>2. GetCurrentSession(t, Keep(Current.id, TRUE) \o Go(path))
    BY <1>2 DEF ClearCurrentSession
  <2>3. Keep(Current.id, TRUE) = Keep(Current.id, Current.id = Current.id)
    BY DEF Keep
  <2> QED
    BY <2>1, <2>2, <2>3, GetHandles
<1> QED
  BY <1>1, <1>2

LEMMA RemoveHandles ==
    ASSUME Orderly, NEW t \in Tabs, Steps(t), NEW a \in Accounts, NEW path \in Paths,
           RemoveSession(t, a, Go(path))
    PROVE  Handles(t)
BY GetHandles DEF RemoveSession

LEMMA KeepHandles ==
    ASSUME Orderly, NEW t \in Tabs, KeepOthers(t)
    PROVE  Handles(t)
<1> DEFINE item == Head(todo[t])
           rest == Without(sessions, item.without)
<1>1. Steps(t) /\ todo[t] # <<>> /\ item.do = "keep" /\ due[t] = <<>> /\ solo' = solo
  BY DEF KeepOthers, Proceed, Steps
<1>2. PICK path \in Paths, a \in Accounts, f \in BOOLEAN: todo[t] = Keep(a, f) \o Go(path)
  <2>1. IsTodo(todo[t])
    BY DEF Orderly, Handling
  <2> QED
    BY <1>1, <2>1, LookFacts DEF IsTodo
<1>3. item = [do |-> "keep", without |-> a, first |-> f] /\ Tail(todo[t]) = Go(path)
  BY <1>2, TodoFacts
<1>4. item.without = a /\ item.first = f
  BY <1>3
<1>5. Sane(rest)
  BY WithoutSane DEF Orderly
<1>6. Writes(t, IF f THEN All ELSE <<"sessions">>, Without(sessions, a), First(Without(sessions, a)), Go(path))
  BY <1>3, <1>4 DEF KeepOthers
<1>7. CASE f
  <2>1. Planned(All, Without(sessions, a))
    BY DEF Planned
  <2> QED
    BY <1>1, <1>4, <1>5, <1>6, <1>7, <2>1, AllHandles
<1>8. CASE ~f
  <2> DEFINE keys == <<"sessions">>
             w    == Without(sessions, a)
             st   == Then(keys, w, First(w))
  <2>1. Writes(t, keys, w, First(w), Go(path))
    BY <1>6, <1>8
  <2>2. keys \in Shapes /\ Planned(keys, w) /\ Sane(w)
    BY <1>4, <1>5 DEF Shapes, Writing, Planned
  <2>3. First(w) \in Entries \cup {Nobody}
    BY <2>2, FirstFacts
  <2>4. st.list = w /\ st.id = currentId /\ st.token = token
    BY Hass DEF Then
  <2> HIDE DEF st
  <2>5. ASSUME solo' = t PROVE Agrees(st) /\ (Named(Stored) => Named(st))
    <3>1. After(t) = Stored /\ KeepReady(After(t), todo[t])
      BY <1>1, <2>5, NothingDue DEF Orderly, SoloKnows, After
    <3>2. /\ token = CurOf(sessions, currentId).token
          /\ sessions = <<>> \/ currentId = CurOf(sessions, currentId).id
          /\ CurOf(sessions, currentId).id # a
      BY <1>1, <1>4, <1>8, <3>1 DEF KeepReady, Agrees, Stored
    <3>3. CurOf(w, currentId) = CurOf(sessions, currentId)
      BY <3>2, CurKept DEF Orderly
    <3>4. Agrees(st)
      BY <2>4, <3>2, <3>3 DEF Agrees
    <3>5. ASSUME Named(Stored) PROVE Named(st)
      <4>1. First(sessions) = CurOf(sessions, currentId)
        BY <3>5, NamedCurrent DEF Current, CurOf
      <4>2. CASE sessions = <<>>
        <5>1. w = <<>>
          BY <4>2, WithoutNothing DEF Orderly
        <5> QED
          BY <2>4, <3>5, <4>2, <5>1 DEF Named, Stored
      <4>3. CASE sessions # <<>>
        <5>1. sessions[1].id # a /\ First(sessions) = sessions[1]
          BY <3>2, <4>1, <4>3 DEF First
        <5>2. w # <<>> /\ w[1] = sessions[1]
          BY <4>3, <5>1, WithoutFacts DEF Orderly, Sane
        <5> QED
          BY <2>4, <3>5, <5>1, <5>2 DEF Named, Stored, First
      <4> QED
        BY <4>2, <4>3
    <3> QED
      BY <3>4, <3>5
  <2>6. KeepReady(st, Go(path)) /\ IsTodo(Go(path))
    BY LookFacts DEF KeepReady, IsTodo
  <2>7. Fine(t, keys, w, First(w), Go(path))
    BY <2>2, <2>3, <2>5, <2>6 DEF Fine, st
  <2> QED
    BY <1>1, <2>1, <2>2, <2>7 DEF Handles
<1> QED
  BY <1>7, <1>8

\* Nothing to write: the handler goes to a path, or is done.
LEMMA NothingHandles ==
    ASSUME Orderly, NEW t \in Tabs, Steps(t), UNCHANGED <<due, put>>,
           \/ \E path \in Paths: todo' = [todo EXCEPT ![t] = Go(path)]
           \/ UNCHANGED todo /\ todo[t] = <<>>
    PROVE  Handles(t)
<1>1. due[t] = <<>> /\ put[t] = [list |-> put[t].list, cur |-> put[t].cur]
      /\ put[t].cur \in Entries \cup {Nobody} /\ Sane(put[t].list)
  BY DEF Steps, Orderly, Handling
<1>2. due' = [due EXCEPT ![t] = <<>>] /\ put' = [put EXCEPT ![t] = [list |-> put[t].list, cur |-> put[t].cur]]
  BY <1>1 DEF Orderly, Handling
<1>3. PICK next: /\ next = <<>> \/ \E path \in Paths: next = Go(path)
                 /\ todo' = [todo EXCEPT ![t] = next]
  BY DEF Orderly, Handling
<1>4. IsTodo(next) /\ \A st: KeepReady(st, next)
  BY <1>3, LookFacts DEF IsTodo, KeepReady
<1>5. Fine(t, <<>>, put[t].list, put[t].cur, next)
  BY <1>1, <1>4, NothingDue DEF Fine, Shapes
<1>6. Writes(t, <<>>, put[t].list, put[t].cur, next)
  BY <1>2, <1>3 DEF Writes
<1> QED
  BY <1>5, <1>6 DEF Handles, Planned

-----------------------------------------------------------------------------
(* Every action is a step of a handler, a write, or leaves both alone.     *)

Moves ==
    \/ UNCHANGED <<store, handlers>>
    \/ \E t \in Tabs: WriteKey(t) \/ Handles(t)

LEMMA BeginSteps ==
    ASSUME NEW t \in Tabs, Begin(t)
    PROVE  Steps(t)
BY DEF Begin, Steps, Busy

LEMMA PathFacts ==
    /\ Pages \subseteq Paths /\ "stay" \in Paths /\ Show = Go("stay")
    /\ \A a: HomeOf(a) \in Pages
    /\ {"dashboard", "quiet", "portal", "login"} \subseteq Pages
    /\ \A path \in Pages: \A a: Route(path, a) \in Pages
BY DEF Paths, Pages, Show, HomeOf, Route, DashboardGuard, PortalGuard

LEMMA IssuedFacts ==
    ASSUME NEW tk \in Tokens
    PROVE  /\ tk[1] \in Accounts
           /\ [id |-> tk[1], token |-> tk] \in Entries
BY DEF Tokens, Entries

LEMMA ClicksMove ==
    ASSUME Orderly, NEW t \in Tabs, Clicks(t)
    PROVE  Moves
<1>1. ASSUME NEW a \in Accounts, SubmitLogin(t, a) PROVE Moves
  BY <1>1 DEF SubmitLogin, Moves
<1>2. ASSUME NEW a \in Accounts, PickSession(t, a) PROVE Handles(t)
  <2>1. Steps(t) /\ HomeOf(a) \in Paths /\ "portal" \in Paths
    BY <1>2, BeginSteps, PathFacts DEF PickSession
  <2>2. CASE a \in Ids(sessions)
    BY <1>2, <2>1, <2>2, SwitchHandles DEF PickSession
  <2>3. CASE a \notin Ids(sessions)
    BY <1>2, <2>1, <2>3, NothingHandles DEF PickSession
  <2> QED
    BY <2>2, <2>3
<1>3. ASSUME NEW a \in Accounts, DropSession(t, a) PROVE Handles(t)
  BY <1>3, BeginSteps, PathFacts, RemoveHandles DEF DropSession
<1>4. ASSUME NEW a \in Accounts, RedirectToSession(t, a) PROVE Handles(t)
  <2>1. Steps(t) /\ todo[t] = <<>>
    BY <1>4, BeginSteps DEF RedirectToSession, Begin, Busy
  <2>2. CASE a \in Ids(sessions)
    BY <1>4, <2>1, <2>2, PathFacts, SwitchHandles DEF RedirectToSession
  <2>3. CASE a \notin Ids(sessions)
    BY <1>4, <2>1, <2>3, NothingHandles DEF RedirectToSession
  <2> QED
    BY <2>2, <2>3
<1>5. ASSUME Logout(t) PROVE Handles(t)
  BY <1>5, BeginSteps, PathFacts, ClearHandles DEF Logout
<1>6. ASSUME LogoutAll(t) PROVE Handles(t)
  BY <1>6, BeginSteps, PathFacts, ClearAllHandles DEF LogoutAll
<1>7. ASSUME NEW path \in {"dashboard", "quiet", "portal"}, FollowLink(t, path) PROVE Handles(t)
  <2>1. Steps(t) /\ path \in Paths
    BY <1>7, BeginSteps, PathFacts DEF FollowLink
  <2> QED
    BY <1>7, <2>1, NothingHandles DEF FollowLink
<1>8. ASSUME NEW i \in Slots, SubmitForm(t, i) PROVE Handles(t)
  BY <1>8, BeginSteps, GetHandles DEF SubmitForm, Send
<1> QED
  BY <1>1, <1>2, <1>3, <1>4, <1>5, <1>6, <1>7, <1>8 DEF Clicks, Moves

LEMMA RunMoves ==
    ASSUME Orderly, NEW t \in Tabs, Run(t)
    PROVE  Moves
<1>1. ASSUME Look(t) PROVE Handles(t)
  <2>1. Steps(t) /\ todo[t] # <<>> /\ Head(todo[t]).do = "look" /\ GetCurrentSession(t, Tail(todo[t]))
    BY <1>1 DEF Look, Proceed, Steps
  <2>2. IsTodo(todo[t])
    BY DEF Orderly, Handling
  <2>3. Tail(todo[t]) = <<>>
    BY <2>1, <2>2, LookFacts, TodoFacts DEF IsTodo
  <2> QED
    BY <2>1, <2>3, GetHandles
<1> QED
  BY <1>1, KeepHandles DEF Run, Moves

LEMMA AnswersMove ==
    ASSUME Orderly, NEW t \in Tabs,
           Answers(t) \/ Unload(t) \/ Notice(t) \/ \E i \in Slots: Poll(t, i)
    PROVE  Moves
<1>1. ASSUME IssueToken(t) \/ LoginFails(t) \/ \E i \in Slots: Answer(t, i) PROVE Moves
  BY <1>1 DEF IssueToken, LoginFails, Answer, Moves
<1>2. ASSUME LoginSucceeds(t) PROVE Handles(t)
  <2> DEFINE tk == signIn[t]
             s  == [id |-> tk[1], token |-> tk]
  <2>1. tk \in Tokens /\ Steps(t) /\ SaveSession(t, s, Go(HomeOf(tk[1])))
    BY <1>2, BeginSteps DEF LoginSucceeds
  <2>2. s \in Entries /\ HomeOf(tk[1]) \in Paths
    BY <2>1, IssuedFacts, PathFacts
  <2>3. s.token[1] = s.id
    OBVIOUS
  <2> HIDE DEF s
  <2> QED
    BY <2>1, <2>2, <2>3, SaveHandles
<1>3. ASSUME NEW i \in Slots, Refuse(t, i) PROVE Handles(t)
  BY <1>3, BeginSteps, PathFacts, ClearHandles DEF Refuse
<1>4. ASSUME Unload(t) \/ Notice(t) PROVE Handles(t)
  BY <1>4, BeginSteps, GetHandles DEF Unload, Notice
<1>5. ASSUME NEW i \in Slots, Poll(t, i) PROVE Handles(t)
  BY <1>5, BeginSteps, GetHandles DEF Poll, Send
<1> QED
  BY <1>1, <1>2, <1>3, <1>4, <1>5 DEF Answers, Moves

LEMMA StepMoves ==
    ASSUME Orderly, [SessionsNext]_vars
    PROVE  Moves
<1>1. ASSUME NEW a \in Accounts, Expire(a) PROVE Moves
  BY <1>1 DEF Expire, Moves
<1>2. ASSUME UNCHANGED vars PROVE Moves
  BY <1>2 DEF vars, Moves
<1> QED
  BY <1>1, <1>2, RunMoves, ClicksMove, AnswersMove DEF SessionsNext

LEMMA MovesOrderly ==
    ASSUME Orderly, Moves
    PROVE  Orderly'
BY OrderlyStays, WriteStep, HandlerStep DEF Moves, Handles

LEMMA OrderlyAtFirst ==
    ASSUME SessionsInit
    PROVE  Orderly
<1>1. PICK list \in Left: sessions = [i \in DOMAIN list |-> [id |-> list[i], token |-> <<list[i], 1>>]]
  BY DEF SessionsInit
<1>2. list \in Seq(Accounts) /\ \A i, j \in DOMAIN list: list[i] = list[j] => i = j
  BY SessionsAssumption
<1>3. Len(list) \in Nat /\ DOMAIN list = 1..Len(list) /\ \A i \in 1..Len(list): list[i] \in Accounts
  BY <1>2
<1>4. \A a \in Accounts: [id |-> a, token |-> <<a, 1>>] \in Entries
  BY SessionsAssumption DEF Entries, Tokens
<1>5. sessions = [i \in 1..Len(list) |-> [id |-> list[i], token |-> <<list[i], 1>>]]
  BY <1>1, <1>3
<1>6. sessions \in Seq(Entries) /\ Len(sessions) = Len(list)
  BY <1>3, <1>4, <1>5
<1>7. Sane(sessions)
  BY <1>2, <1>3, <1>5, <1>6 DEF Sane, Distinct, Own
<1>8. Named(Stored)
  BY DEF SessionsInit, Named, Stored
<1>9. \A t \in Tabs: due[t] = <<>> /\ todo[t] = <<>> /\ put[t] = NoPut /\ ~Busy(t)
  BY DEF SessionsInit, Busy
<1>10. Handling
  <2>1. NoPut.list = <<>> /\ NoPut \in [list: Seq(Entries), cur: Entries \cup {Nobody}]
    BY DEF NoPut
  <2>2. due \in [Tabs -> Shapes] /\ todo \in [Tabs -> Seq(Items)]
    BY DEF SessionsInit, Shapes
  <2> QED
    BY <1>9, <2>1, <2>2, EmptySane DEF SessionsInit, Handling, IsTodo
<1>11. SoloKnows /\ BeforeMet
  BY <1>8, <1>9, SessionsAssumption DEF SessionsInit, SoloKnows, BeforeMet
<1>12. Tidy
  <2>1. CASE sessions = <<>>
    BY <1>7, <2>1, FirstFacts DEF SessionsInit, Tidy, Current
  <2>2. CASE sessions # <<>>
    <3>1. /\ First(sessions) = sessions[1] /\ currentId = sessions[1].id /\ currentId \in Ids(sessions)
          /\ 1 \in 1..Len(sessions)
      BY <1>7, <2>2, FirstFacts, ListFacts DEF SessionsInit, Sane
    <3>2. Current = sessions[1]
      BY <1>7, <3>1, EntryFacts DEF Current, Sane
    <3> QED
      BY <3>1, <3>2 DEF SessionsInit, Tidy
  <2> QED
    BY <2>1, <2>2
<1> QED
  BY <1>7, <1>10, <1>11, <1>12 DEF Orderly


-----------------------------------------------------------------------------
(* Types.  Beyond the store and the handlers: what the tabs show and have  *)
(* under way.                                                              *)

CallType == [token: Tokens \cup {None}, password: BOOLEAN] \cup {None}

Rest ==
    /\ currentId \in Accounts \cup {None}
    /\ token \in Tokens \cup {None} /\ cookie \in Tokens \cup {None}
    /\ issued \in [Accounts -> 0..MaxSignIns] /\ expired \in [Accounts -> 0..MaxSignIns]
    /\ page \in [Tabs -> Pages] /\ leaving \in [Tabs -> Paths]
    /\ signIn \in [Tabs -> Accounts \cup Tokens \cup {None}]
    /\ call \in [Tabs -> [Slots -> CallType]]
    /\ clicks \in 0..MaxClicks

Told == Orderly /\ Rest

LEMMA CurrentTyped ==
    ASSUME Orderly
    PROVE  Current.token \in Tokens \cup {None}
<1>1. Current \in Entries \cup {Nobody}
  BY ReadFacts
<1> QED
  BY <1>1 DEF Entries, Nobody

LEMMA ShowsTyped ==
    ASSUME Told, NEW t \in Tabs, NEW path \in Pages, Shows(t, path)
    PROVE  page' \in [Tabs -> Pages] /\ cookie' \in Tokens \cup {None}
<1>1. page' \in [Tabs -> Pages]
  BY PathFacts DEF Told, Rest, Shows
<1>2. cookie' \in Tokens \cup {None}
  BY CurrentTyped DEF Told, Rest, Shows, OpensStream
<1> QED
  BY <1>1, <1>2

LEMMA DepartTyped ==
    ASSUME NEW t \in Tabs, NEW path \in Paths, Depart(t, path), leaving \in [Tabs -> Paths]
    PROVE  leaving' \in [Tabs -> Paths]
BY DEF Depart

LEMMA ClickTyped ==
    ASSUME NEW t \in Tabs, Click(t), clicks \in 0..MaxClicks
    PROVE  clicks' \in 0..MaxClicks
BY SessionsAssumption DEF Click

LEMMA SendTyped ==
    ASSUME Told, NEW t \in Tabs, NEW i \in Slots, NEW password \in BOOLEAN, Send(t, i, password)
    PROVE  /\ call' \in [Tabs -> [Slots -> CallType]]
           /\ UNCHANGED <<store, issued, expired, page, leaving, signIn>>
<1>1. [token |-> Current.token, password |-> password] \in CallType
  BY CurrentTyped DEF Told, CallType
<1> QED
  BY <1>1 DEF Told, Rest, Send, Begin

\* A handler reads before it writes.
LEMMA StoreKept ==
    ASSUME NEW t \in Tabs, Handles(t), Rest
    PROVE  currentId' \in Accounts \cup {None} /\ token' \in Tokens \cup {None}
BY DEF Handles, Steps, store, Rest

LEMMA WriteTyped ==
    ASSUME Told, NEW t \in Tabs, WriteKey(t)
    PROVE  Rest'
<1>1. put[t].cur \in Entries \cup {Nobody}
  BY DEF Told, Orderly, Handling
<1>2. put[t].cur.id \in Accounts \cup {None} /\ put[t].cur.token \in Tokens \cup {None}
  BY <1>1 DEF Entries, Nobody
<1>3. currentId' \in Accounts \cup {None} /\ token' \in Tokens \cup {None}
  BY <1>2 DEF WriteKey, Told, Rest
<1>4. UNCHANGED <<cookie, issued, expired, page, leaving, signIn, call, clicks>>
  BY DEF WriteKey, server, tabs
<1> QED
  BY <1>3, <1>4 DEF Told, Rest

LEMMA RunTyped ==
    ASSUME Told, NEW t \in Tabs, Run(t)
    PROVE  Rest'
<1>1. ASSUME KeepOthers(t) PROVE Rest'
  BY <1>1 DEF KeepOthers, Proceed, Told, Rest, store, server, tabs
<1>2. ASSUME Look(t) PROVE Rest'
  <2>1. UNCHANGED <<store, issued, expired, leaving, signIn, call, clicks>> /\ todo[t] # <<>>
    BY <1>2 DEF Look, Proceed
  <2>2. Head(todo[t]).path \in Paths
    <3>1. IsTodo(todo[t]) /\ Head(todo[t]).do = "look"
      BY <1>2 DEF Look, Proceed, Told, Orderly, Handling
    <3> QED
      BY <2>1, <3>1, LookFacts, TodoFacts DEF IsTodo
  <2>3. page' \in [Tabs -> Pages] /\ cookie' \in Tokens \cup {None}
    <3>1. CASE Head(todo[t]).path = "stay"
      BY <1>2, <3>1 DEF Look, Told, Rest
    <3>2. CASE Head(todo[t]).path # "stay"
      <4>1. Head(todo[t]).path \in Pages /\ Shows(t, Head(todo[t]).path)
        BY <1>2, <2>2, <3>2 DEF Look, Paths
      <4> QED
        BY <4>1, ShowsTyped
    <3> QED
      BY <3>1, <3>2
  <2> QED
    BY <2>1, <2>3 DEF Told, Rest, store
<1> QED
  BY <1>1, <1>2, WriteTyped DEF Run

LEMMA ClicksTyped ==
    ASSUME Told, NEW t \in Tabs, Clicks(t)
    PROVE  Rest'
<1>1. ASSUME NEW a \in Accounts, SubmitLogin(t, a) PROVE Rest'
  BY <1>1, ClickTyped DEF SubmitLogin, Told, Rest, store, server
<1>2. ASSUME NEW a \in Accounts, PickSession(t, a) PROVE Rest'
  BY <1>2, ClickTyped DEF PickSession, Begin, Told, Rest, store, server
<1>3. ASSUME NEW a \in Accounts, DropSession(t, a) PROVE Rest'
  BY <1>3, ClickTyped DEF DropSession, Begin, Told, Rest, store, server
<1>4. ASSUME NEW a \in Accounts, RedirectToSession(t, a) PROVE Rest'
  <2>1. leaving' \in [Tabs -> Paths]
    BY <1>4, PathFacts, DepartTyped DEF RedirectToSession, Told, Rest
  <2> QED
    BY <1>4, <2>1, ClickTyped DEF RedirectToSession, Begin, Told, Rest, store, server
<1>5. ASSUME Logout(t) PROVE Rest'
  <2>1. leaving' \in [Tabs -> Paths]
    BY <1>5, PathFacts, DepartTyped DEF Logout, Told, Rest
  <2> QED
    BY <1>5, <2>1, ClickTyped DEF Logout, Begin, Told, Rest, store, server
<1>6. ASSUME LogoutAll(t) PROVE Rest'
  <2>1. leaving' \in [Tabs -> Paths]
    BY <1>6, PathFacts, DepartTyped DEF LogoutAll, Told, Rest
  <2> QED
    BY <1>6, <2>1, ClickTyped DEF LogoutAll, Begin, Told, Rest, store, server
<1>7. ASSUME NEW path \in {"dashboard", "quiet", "portal"}, FollowLink(t, path) PROVE Rest'
  BY <1>7, ClickTyped DEF FollowLink, Begin, Told, Rest, store, server
<1>8. ASSUME NEW i \in Slots, SubmitForm(t, i) PROVE Rest'
  <2>1. (page[t] = "portal") \in BOOLEAN
    OBVIOUS
  <2>2. /\ call' \in [Tabs -> [Slots -> CallType]]
        /\ UNCHANGED <<store, cookie, issued, expired, page, leaving, signIn>>
    BY <1>8, <2>1, SendTyped DEF SubmitForm
  <2> QED
    BY <1>8, <2>2, ClickTyped DEF SubmitForm, Told, Rest, store
<1> QED
  BY <1>1, <1>2, <1>3, <1>4, <1>5, <1>6, <1>7, <1>8 DEF Clicks

LEMMA AnswersTyped ==
    ASSUME Told, NEW t \in Tabs,
           Answers(t) \/ Unload(t) \/ Notice(t) \/ \E i \in Slots: Poll(t, i)
    PROVE  Rest'
<1>1. ASSUME IssueToken(t) PROVE Rest'
  <2>1. signIn[t] \in Accounts /\ issued[signIn[t]] \in 0..MaxSignIns /\ issued[signIn[t]] < MaxSignIns
    BY <1>1 DEF IssueToken, Told, Rest
  <2>2. issued[signIn[t]] + 1 \in 1..MaxSignIns /\ issued[signIn[t]] + 1 \in 0..MaxSignIns
    BY <2>1, SessionsAssumption
  <2>3. <<signIn[t], issued[signIn[t]] + 1>> \in Tokens
    BY <2>1, <2>2 DEF Tokens
  <2>4. issued' \in [Accounts -> 0..MaxSignIns] /\ signIn' \in [Tabs -> Accounts \cup Tokens \cup {None}]
    BY <1>1, <2>1, <2>2, <2>3 DEF IssueToken, Told, Rest
  <2> QED
    BY <1>1, <2>4 DEF IssueToken, Told, Rest, store
<1>2. ASSUME LoginSucceeds(t) PROVE Rest'
  BY <1>2 DEF LoginSucceeds, Begin, Told, Rest, store, server
<1>3. ASSUME LoginFails(t) PROVE Rest'
  BY <1>3 DEF LoginFails, Told, Rest, store, server
<1>4. None \in CallType
  BY DEF CallType
<1>5. ASSUME NEW i \in Slots, Answer(t, i) PROVE Rest'
  BY <1>4, <1>5 DEF Answer, Told, Rest, store, server
<1>6. ASSUME NEW i \in Slots, Refuse(t, i) PROVE Rest'
  <2>1. leaving' \in [Tabs -> Paths]
    BY <1>6, PathFacts, DepartTyped DEF Refuse, Told, Rest
  <2>2. call' \in [Tabs -> [Slots -> CallType]]
    BY <1>4, <1>6 DEF Refuse, Refused, Told, Rest
  <2> QED
    BY <1>6, <2>1, <2>2 DEF Refuse, Begin, Told, Rest, store, server
<1>7. ASSUME Unload(t) PROVE Rest'
  <2>1. leaving[t] \in Pages /\ Shows(t, leaving[t])
    BY <1>7 DEF Unload, Told, Rest, Paths
  <2>2. page' \in [Tabs -> Pages] /\ cookie' \in Tokens \cup {None}
    BY <2>1, ShowsTyped
  <2>3. leaving' \in [Tabs -> Paths]
    BY <1>7, PathFacts, DepartTyped DEF Unload, Told, Rest
  <2>4. call' \in [Tabs -> [Slots -> CallType]]
    BY <1>4, <1>7 DEF Unload, Told, Rest
  <2> QED
    BY <1>7, <2>2, <2>3, <2>4 DEF Unload, Begin, Told, Rest, store
<1>8. ASSUME Notice(t) PROVE Rest'
  BY <1>8 DEF Notice, Begin, Told, Rest, store, server
<1>9. ASSUME NEW i \in Slots, Poll(t, i) PROVE Rest'
  <2>1. /\ call' \in [Tabs -> [Slots -> CallType]]
        /\ UNCHANGED <<store, issued, expired, page, leaving, signIn>>
    BY <1>9, SendTyped DEF Poll
  <2>2. cookie' \in Tokens \cup {None}
    BY <1>9, CurrentTyped DEF Poll, OpensStream, Told, Rest
  <2> QED
    BY <1>9, <2>1, <2>2 DEF Poll, Told, Rest, store
<1> QED
  BY <1>1, <1>2, <1>3, <1>5, <1>6, <1>7, <1>8, <1>9 DEF Answers

LEMMA ToldStays ==
    ASSUME Told, [SessionsNext]_vars
    PROVE  Told' /\ Moves
<1>1. Moves /\ Orderly'
  BY StepMoves, MovesOrderly DEF Told
<1>2. ASSUME NEW a \in Accounts, Expire(a) PROVE Rest'
  BY <1>2, SessionsAssumption DEF Expire, Told, Rest, store, tabs
<1>3. ASSUME UNCHANGED vars PROVE Rest'
  BY <1>3 DEF vars, store, server, tabs, Told, Rest
<1>4. Rest'
  BY <1>2, <1>3, RunTyped, ClicksTyped, AnswersTyped DEF SessionsNext
<1> QED
  BY <1>1, <1>4 DEF Told

LEMMA ToldAtFirst ==
    ASSUME SessionsInit
    PROVE  Told
<1>1. Sane(sessions)
  BY OrderlyAtFirst DEF Orderly
<1>2. First(sessions).id \in Accounts \cup {None} /\ First(sessions).token \in Tokens \cup {None}
  BY <1>1, FirstFacts DEF Entries
<1>3. issued \in [Accounts -> 0..MaxSignIns]
  BY SessionsAssumption DEF SessionsInit
<1>4. None \in CallType
  BY DEF CallType
<1>5. Rest
  BY <1>2, <1>3, <1>4, SessionsAssumption DEF SessionsInit, Rest, Pages, Paths
<1> QED
  BY <1>5, OrderlyAtFirst DEF Told

LEMMA AlwaysTold == SessionsSpec => []Told
BY ToldAtFirst, ToldStays, PTL DEF SessionsSpec

(* Every variable keeps its type, whatever handlers of whatever tabs come  *)
(* between the reads and writes of each other; in particular the two keys  *)
(* that name the current session name an account and a token, or nothing.  *)
THEOREM SessionsTyping == SessionsSpec => []SessionsTypeOK
<1>1. Told => SessionsTypeOK
  <2> SUFFICES ASSUME Told PROVE SessionsTypeOK
    OBVIOUS
  <2>1. ASSUME NEW keys \in Shapes PROVE keys \in Seq({"sessions", "id", "token"})
    <3>1. /\ <<"token">> \in Seq({"sessions", "id", "token"}) /\ <<"id">> \in Seq({"sessions", "id", "token"})
          /\ <<"sessions">> \in Seq({"sessions", "id", "token"}) /\ <<>> \in Seq({"sessions", "id", "token"})
      OBVIOUS
    <3>2. /\ <<"id", "token">> \in Seq({"sessions", "id", "token"})
          /\ <<"token", "id">> \in Seq({"sessions", "id", "token"})
      OBVIOUS
    <3>3. /\ All \in Seq({"sessions", "id", "token"})
          /\ <<"token", "token", "id">> \in Seq({"sessions", "id", "token"})
      BY DEF All
    <3> QED
      BY <3>1, <3>2, <3>3 DEF Shapes, Writing
  <2>2. due \in [Tabs -> Seq({"sessions", "id", "token"})]
    BY <2>1 DEF Told, Orderly, Handling
  <2> QED
    BY <2>2 DEF Told, Orderly, Handling, Sane, Rest, SessionsTypeOK, CallType, Paths
<1> QED
  BY <1>1, AlwaysTold, PTL


LEMMA DistinctCounts ==
    ASSUME NEW list \in Seq(Entries), Distinct(list)
    PROVE  Cardinality(Ids(list)) = Len(list)
<1>1. Len(list) \in Nat /\ Ids(list) = {list[i].id : i \in 1..Len(list)}
  BY ListFacts
<1> DEFINE f == [i \in 1..Len(list) |-> list[i].id]
<1>2. f \in Bijection(1..Len(list), Ids(list))
  <2>1. f \in [1..Len(list) -> Ids(list)] /\ \A x \in Ids(list): \E i \in 1..Len(list): f[i] = x
    BY <1>1
  <2>2. \A i, j \in 1..Len(list): f[i] = f[j] => i = j
    BY DEF Distinct
  <2> HIDE DEF f
  <2> QED
    BY <2>1, <2>2, Fun_IsBij
<1>3. ExistsBijection(1..Len(list), Ids(list))
  BY <1>2 DEF ExistsBijection
<1>4. IsFiniteSet(1..Len(list)) /\ Cardinality(1..Len(list)) = Len(list)
  BY <1>1, FS_Interval
<1> HIDE DEF f
<1> QED
  BY <1>3, <1>4, FS_Bijection

(* No account is ever listed twice; admin_token is that of the current     *)
(* session whenever a handler that nobody overlapped has finished its      *)
(* writes and no key was written since; and as long as no two handlers of  *)
(* different tabs have overlapped, the three keys tell one story between   *)
(* handlers.  For any number of tabs and any handlers.                     *)
THEOREM StoryTold == SessionsSpec => []OneStory
<1>1. Told => OneStory
  <2> SUFFICES ASSUME Told PROVE OneStory
    OBVIOUS
  <2>1. sessions \in Seq(Entries) /\ Distinct(sessions) /\ Own(sessions)
    BY DEF Told, Orderly, Sane
  <2>2. DOMAIN sessions = 1..Len(sessions)
    BY <2>1, ListFacts
  <2>3. ASSUME ~met, \A t \in Tabs: ~Busy(t) PROVE Named(Stored)
    BY <2>3 DEF Told, Orderly, BeforeMet
  <2> QED
    BY <2>1, <2>2, <2>3, DistinctCounts DEF OneStory, Own, Named, Stored, Told, Orderly, Tidy
<1> QED
  BY <1>1, AlwaysTold, PTL

-----------------------------------------------------------------------------
(* The refinement: the list of sessions, seen as the list of its accounts, *)
(* and the list a handler is about to write as its plan.                   *)

LEMMA IdsOfFacts ==
    ASSUME NEW list \in Seq(Entries)
    PROVE  /\ IdsOf(list) \in Seq(Accounts) /\ Len(IdsOf(list)) = Len(list) /\ Len(list) \in Nat
           /\ DOMAIN IdsOf(list) = DOMAIN list /\ DOMAIN list = 1..Len(list)
           /\ \A i \in 1..Len(list): IdsOf(list)[i] = list[i].id
<1>1. Len(list) \in Nat /\ DOMAIN list = 1..Len(list) /\ \A i \in 1..Len(list): list[i].id \in Accounts
  BY ListFacts
<1>2. IdsOf(list) = [i \in 1..Len(list) |-> list[i].id]
  BY <1>1 DEF IdsOf
<1> QED
  BY <1>1, <1>2

LEMMA SameFilter ==
    ASSUME NEW s, NEW K
    PROVE  Store!Filter(s, K) = Filter(s, K)
BY DEF Filter, FilterUpTo, Store!Filter, Store!FilterUpTo

LEMMA WithoutMaps ==
    ASSUME NEW list \in Seq(Entries), NEW a
    PROVE  IdsOf(Without(list, a)) = Store!Without(IdsOf(list), a)
<1> DEFINE r == IdsOf(list)
           K == {i \in DOMAIN list: list[i].id # a}
           m == [e \in Entries |-> e.id]
           W == Filter(list, K)
           V == Filter(r, K)
<1>1. /\ r \in Seq(Accounts) /\ Len(r) = Len(list) /\ DOMAIN r = DOMAIN list
      /\ DOMAIN list = 1..Len(list) /\ \A i \in 1..Len(list): r[i] = list[i].id
  BY IdsOfFacts
<1>2. m \in [Entries -> Accounts] /\ \A e \in Entries: m[e] = e.id
  BY DEF Entries
<1>3. \A i \in 1..Len(list): list[i] \in Entries /\ r[i] = m[list[i]]
  BY <1>1, <1>2, ListFacts
<1>4. K = {i \in DOMAIN r: r[i] # a}
  BY <1>1
<1>5. Without(list, a) = W /\ Store!Without(r, a) = V
  BY <1>4, SameFilter DEF Without, Store!Without
<1>6. W \in Seq(Entries)
  BY FilterPlaces
<1> HIDE DEF m, K, r
<1>7. V \in Seq(Accounts) /\ Len(V) = Len(W) /\ \A j \in 1..Len(W): V[j] = m[W[j]]
  BY <1>1, <1>2, <1>3, FilterMaps
<1> HIDE DEF W, V
<1>8. /\ IdsOf(W) \in Seq(Accounts) /\ Len(IdsOf(W)) = Len(W)
      /\ \A j \in 1..Len(W): IdsOf(W)[j] = W[j].id /\ W[j] \in Entries
  BY <1>6, IdsOfFacts, ListFacts
<1>9. IdsOf(W) = V
  BY <1>2, <1>7, <1>8
<1> QED
  BY <1>5, <1>9 DEF r

LEMMA FrontMaps ==
    ASSUME NEW s \in Entries, NEW list \in Seq(Entries)
    PROVE  IdsOf(<<s>> \o list) = <<s.id>> \o IdsOf(list)
<1>1. s.id \in Accounts
  BY DEF Entries
<1>2. <<s>> \o list \in Seq(Entries) /\ Len(<<s>> \o list) = 1 + Len(list) /\ Len(list) \in Nat
  OBVIOUS
<1>3. (<<s>> \o list)[1] = s /\ \A j \in 2..Len(list) + 1: (<<s>> \o list)[j] = list[j - 1]
  BY <1>2
<1>4. /\ IdsOf(list) \in Seq(Accounts) /\ Len(IdsOf(list)) = Len(list)
      /\ \A i \in 1..Len(list): IdsOf(list)[i] = list[i].id
  BY IdsOfFacts
<1> DEFINE new == <<s>> \o list
           L == IdsOf(new)
           R == <<s.id>> \o IdsOf(list)
<1>5. /\ L \in Seq(Accounts) /\ Len(L) = 1 + Len(list)
      /\ \A j \in 1..Len(list) + 1: L[j] = (<<s>> \o list)[j].id
  <2>1. new \in Seq(Entries) /\ Len(new) = 1 + Len(list)
    BY <1>2
  <2> HIDE DEF new
  <2>2. L \in Seq(Accounts) /\ Len(L) = Len(new) /\ \A j \in 1..Len(new): L[j] = new[j].id
    BY <2>1, IdsOfFacts
  <2>3. 1..Len(new) = 1..Len(list) + 1
    BY <1>2, <2>1
  <2> HIDE DEF L
  <2> QED
    BY <2>1, <2>2, <2>3 DEF new
<1>6. /\ R \in Seq(Accounts) /\ Len(R) = 1 + Len(list) /\ R[1] = s.id
      /\ \A j \in 2..Len(list) + 1: R[j] = IdsOf(list)[j - 1]
  BY <1>1, <1>2, <1>4
<1> HIDE DEF L, R
<1>7. ASSUME NEW j \in 1..Len(list) + 1 PROVE L[j] = R[j]
  <2>1. CASE j = 1
    BY <1>3, <1>5, <1>6, <2>1
  <2>2. CASE j # 1
    <3>1. j \in 2..Len(list) + 1 /\ j - 1 \in 1..Len(list)
      BY <1>2, <2>2
    <3> QED
      BY <1>3, <1>4, <1>5, <1>6, <3>1
  <2> QED
    BY <2>1, <2>2
<1>8. L = R
  BY <1>2, <1>5, <1>6, <1>7
<1> QED
  BY <1>8 DEF L, R

Plans == [t \in Tabs |-> IF due[t] # <<>> /\ Head(due[t]) = "sessions"
                          THEN {IdsOf(put[t].list)} ELSE {}]

LEMMA HandlesMap ==
    ASSUME Told, NEW t \in Tabs, Handles(t)
    PROVE  [Store!AccountsNext]_<<IdsOf(sessions), Plans>>
<1>1. PICK keys, list, cur, next: /\ Writes(t, keys, list, cur, next)
                                  /\ Fine(t, keys, list, cur, next)
                                  /\ Planned(keys, list)
  BY DEF Handles
<1>2. Sane(sessions) /\ sessions \in Seq(Entries) /\ Distinct(sessions) /\ sessions' = sessions /\ due[t] = <<>>
  BY DEF Told, Orderly, Sane, Handles, Steps, store
<1>3. IdsOf(sessions)' = IdsOf(sessions)
  BY <1>2 DEF IdsOf
<1>4. /\ due'[t] = keys /\ put'[t].list = list
      /\ \A u \in Tabs: u # t => due'[u] = due[u] /\ put'[u] = put[u]
  <2>1. put'[t] = [list |-> list, cur |-> cur]
    BY <1>1 DEF Writes, Told, Orderly, Handling
  <2> QED
    BY <1>1, <2>1 DEF Writes, Told, Orderly, Handling
<1>5. CASE ~(keys # <<>> /\ Head(keys) = "sessions")
  <2>1. Plans' = Plans
    BY <1>2, <1>4, <1>5 DEF Plans, IdsOf
  <2> QED
    BY <1>3, <2>1
<1>6. CASE keys # <<>> /\ Head(keys) = "sessions"
  <2>1. Plans[t] = {}
    BY <1>2 DEF Plans
  <2>2. Plans' = [Plans EXCEPT ![t] = {IdsOf(list)}]
    BY <1>4, <1>6 DEF Plans, IdsOf
  <2>3. Store!Plan(t, IdsOf(list))
    BY <1>3, <2>1, <2>2 DEF Store!Plan, Plans, IdsOf
  <2>4. CASE \E s \in Entries: list = <<s>> \o Without(sessions, s.id)
    <3>1. PICK s \in Entries: list = <<s>> \o Without(sessions, s.id)
      BY <2>4
    <3>2. Without(sessions, s.id) \in Seq(Entries) /\ s.id \in Accounts
      BY <1>2, WithoutFacts DEF Entries
    <3>3. IdsOf(list) = <<s.id>> \o Store!Without(IdsOf(sessions), s.id)
      BY <1>2, <3>1, <3>2, FrontMaps, WithoutMaps
    <3>4. Store!Use(t, s.id)
      BY <2>3, <3>3 DEF Store!Use, Store!Plan
    <3> QED
      BY <3>2, <3>4 DEF Store!AccountsNext
  <2>5. CASE \E a \in Accounts: list = Without(sessions, a)
    <3>1. PICK a \in Accounts: list = Without(sessions, a)
      BY <2>5
    <3>2. IdsOf(list) = Store!Without(IdsOf(sessions), a)
      BY <1>2, <3>1, WithoutMaps
    <3>3. Store!Forget(t, a)
      BY <2>3, <3>2 DEF Store!Forget, Store!Plan
    <3> QED
      BY <3>3 DEF Store!AccountsNext
  <2>6. CASE list = <<>>
    <3>1. IdsOf(list) = <<>>
      BY <2>6 DEF IdsOf
    <3>2. Store!ForgetAll(t)
      BY <2>3, <3>1 DEF Store!ForgetAll
    <3> QED
      BY <3>2 DEF Store!AccountsNext
  <2> QED
    BY <1>1, <1>6, <2>4, <2>5, <2>6 DEF Planned
<1> QED
  BY <1>5, <1>6

LEMMA WriteMaps ==
    ASSUME Told, NEW t \in Tabs, WriteKey(t)
    PROVE  [Store!AccountsNext]_<<IdsOf(sessions), Plans>>
<1>1. /\ due[t] \in Shapes /\ due[t] # <<>> /\ due' = [due EXCEPT ![t] = Tail(due[t])]
      /\ sessions' = IF Head(due[t]) = "sessions" THEN put[t].list ELSE sessions
      /\ \A u \in Tabs: u # t => put'[u] = put[u]
  BY DEF WriteKey, Told, Orderly, Handling
<1>2. /\ due'[t] = Tail(due[t]) /\ \A u \in Tabs: u # t => due'[u] = due[u]
      /\ ~(due'[t] # <<>> /\ Head(due'[t]) = "sessions")
  BY <1>1, ShapeFacts DEF Told, Orderly, Handling
<1>3. CASE Head(due[t]) = "sessions"
  <2>1. Plans[t] = {IdsOf(put[t].list)} /\ IdsOf(sessions)' = IdsOf(put[t].list)
    BY <1>1, <1>3 DEF Plans, IdsOf
  <2>2. Plans' = [Plans EXCEPT ![t] = {}]
    BY <1>1, <1>2 DEF Plans, IdsOf
  <2>3. Store!CarryOut(t)
    BY <2>1, <2>2 DEF Store!CarryOut, Plans, IdsOf
  <2> QED
    BY <2>3 DEF Store!AccountsNext
<1>4. CASE Head(due[t]) # "sessions"
  <2>1. Plans' = Plans /\ IdsOf(sessions)' = IdsOf(sessions)
    BY <1>1, <1>2, <1>4 DEF Plans, IdsOf
  <2> QED
    BY <2>1
<1> QED
  BY <1>3, <1>4

LEMMA MovesMap ==
    ASSUME Told, Moves
    PROVE  [Store!AccountsNext]_<<IdsOf(sessions), Plans>>
<1>1. CASE UNCHANGED <<store, handlers>>
  BY <1>1 DEF store, handlers, IdsOf, Plans
<1> QED
  BY <1>1, HandlesMap, WriteMaps DEF Moves

(* The store implements the accounts in the order of their last use: a     *)
(* list is only written as a use of one account, or the removal of one or  *)
(* all, in the list that the same handler has read.  That list may have    *)
(* been replaced in the meantime: the abstract tabs plan and carry out in  *)
(* two steps as well.                                                      *)
THEOREM StoreRefines == SessionsSpec => StoreIsRecentAccounts
<1>1. SessionsInit => Store!AccountsInit
  <2> SUFFICES ASSUME SessionsInit PROVE Store!AccountsInit
    OBVIOUS
  <2>1. sessions \in Seq(Entries) /\ Distinct(sessions)
    BY OrderlyAtFirst DEF Orderly, Sane
  <2>2. \A i, j \in DOMAIN IdsOf(sessions): IdsOf(sessions)[i] = IdsOf(sessions)[j] => i = j
    BY <2>1, IdsOfFacts DEF Distinct
  <2> QED
    BY <2>2 DEF SessionsInit, Store!AccountsInit
<1>2. Told /\ [SessionsNext]_vars => [Store!AccountsNext]_<<IdsOf(sessions), Plans>>
  BY ToldStays, MovesMap
<1> QED
  BY <1>1, <1>2, AlwaysTold, PTL DEF SessionsSpec, StoreIsRecentAccounts, Store!AccountsSpec, Plans
=============================================================================
