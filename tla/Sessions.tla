------------------------------ MODULE Sessions ------------------------------
(***************************************************************************)
(* The web console's sign-in: three keys of localStorage that all tabs of  *)
(* the browser share, the calls a tab has under way, and the cookie that   *)
(* the server sets.                                                        *)
(*                                                                         *)
(* A tab runs one handler at a time, but nothing locks localStorage.  A    *)
(* handler reads what it needs and computes, writes its keys one by one,   *)
(* and some then read and write again; after each read and each write the  *)
(* other tabs run.                                                         *)
(*                                                                         *)
(* A token is an account and the number of the sign-in it comes from; the  *)
(* tokens of an account expire in the order in which they were issued.     *)
(* Changing window.location does not stop a page: until the next one is    *)
(* loaded, its calls and its polling go on.  What a page lists as saved    *)
(* sessions may be as old as one likes.                                    *)
(***************************************************************************)
EXTENDS Integers, Sequences, FiniteSets, Filters

CONSTANTS
    Accounts, Tabs,
    Watched,     \* the tabs the user keeps in view: a hidden page does not poll
    Role,        \* account -> "admin" or "user"
    None,        \* no account, no token, no list
    Slots,       \* calls a tab may have under way at once
    Left,        \* lists of accounts that an earlier visit may have left
    MaxSignIns,  \* bound: sign-ins of an account
    MaxClicks    \* bound: what the users of the tabs click

ASSUME SessionsAssumption ==
    /\ Watched \subseteq Tabs
    /\ Role \in [Accounts -> {"admin", "user"}]
    /\ \A list \in Left: /\ list \in Seq(Accounts)
                         /\ \A i, j \in DOMAIN list: list[i] = list[j] => i = j
    /\ None \notin Accounts /\ None \notin Accounts \X Nat /\ None \notin Tabs
    /\ MaxSignIns \in Nat \ {0} /\ MaxClicks \in Nat

VARIABLES
    sessions,   \* auth_sessions
    currentId,  \* auth_current_session_id
    token,      \* admin_token
    cookie,     \* the cookie admin_token
    issued,     \* account -> sign-ins so far
    expired,    \* account -> how many of its tokens have expired
    page,       \* tab -> the layout it shows
    leaving,    \* tab -> the path given to window.location, or "stay"
    signIn,     \* tab -> the account being signed in, its token once issued, or None
    call,       \* tab -> slot -> the call under way, or None
    due,        \* tab -> the keys its handler is writing
    put,        \* tab -> what it writes to them
    todo,       \* tab -> what its handler does next
    clicks,
    solo,       \* history: the tab whose handler no other has overlapped, or None
    met,        \* history: handlers of two tabs have overlapped
    tidy        \* history: no key was written since a handler that no other
                \* overlapped finished its writes

store    == <<sessions, currentId, token>>
server   == <<cookie, issued, expired>>
tabs     == <<page, leaving, signIn, call, clicks>>
handlers == <<due, put, todo, solo, met, tidy>>
vars     == <<store, server, tabs, handlers>>

Tokens  == Accounts \X (1..MaxSignIns)
Entries == [id: Accounts, token: Tokens]
Pages   == {"login", "dashboard", "quiet", "portal"}
Polls(p) == p \in {"dashboard", "portal"}

Live(tk) == tk # None /\ tk[2] > expired[tk[1]]

Ids(list)       == {list[i].id : i \in DOMAIN list}
Without(list, a) == Filter(list, {i \in DOMAIN list: list[i].id # a})
Entry(list, a)  == list[CHOOSE i \in DOMAIN list: list[i].id = a]
Nobody          == [id |-> None, token |-> None]
First(list)     == IF list = <<>> THEN Nobody ELSE list[1]
Current         == IF currentId \in Ids(sessions) THEN Entry(sessions, currentId)
                                                  ELSE First(sessions)

-----------------------------------------------------------------------------
(* The guards of the two layouts, which run when a path is navigated to.   *)
(* isAuthenticated and getRole read the same session twice, here once.     *)

HomeOf(a) == IF a # None /\ Role[a] = "admin" THEN "dashboard" ELSE "portal"

DashboardGuard(path, a) ==
    IF a = None THEN "login" ELSE IF HomeOf(a) = "dashboard" THEN path ELSE "portal"
PortalGuard(a) == IF a = None THEN "login" ELSE "portal"

Route(path, a) ==
    CASE path = "login"  -> "login"
      [] path = "portal" -> PortalGuard(a)
      [] OTHER           -> DashboardGuard(path, a)

-----------------------------------------------------------------------------
NoPut == [list |-> <<>>, cur |-> Nobody]

\* The tabs are open at /login; the store holds what an earlier visit left.
SessionsInit ==
    /\ \E list \in Left:
          /\ sessions = [i \in DOMAIN list |-> [id |-> list[i], token |-> <<list[i], 1>>]]
          /\ issued = [a \in Accounts |-> IF \E i \in DOMAIN list: list[i] = a THEN 1 ELSE 0]
    /\ currentId = First(sessions).id /\ token = First(sessions).token
    /\ cookie = None /\ expired = [a \in Accounts |-> 0]
    /\ page = [t \in Tabs |-> "login"]
    /\ leaving = [t \in Tabs |-> "stay"]
    /\ signIn = [t \in Tabs |-> None]
    /\ call = [t \in Tabs |-> [i \in Slots |-> None]]
    /\ due = [t \in Tabs |-> <<>>] /\ put = [t \in Tabs |-> NoPut]
    /\ todo = [t \in Tabs |-> <<>>]
    /\ clicks = 0
    /\ solo = None /\ met = FALSE /\ tidy = TRUE

-----------------------------------------------------------------------------
(* Handlers.  A handler reads and computes, then writes; some then read    *)
(* again, show the accounts, or go to a path.                              *)

Go(path) == <<[do |-> "look", path |-> path]>>
Show     == Go("stay")

Busy(t)  == due[t] # <<>> \/ todo[t] # <<>>
Alone(t) == \A u \in Tabs \ {t}: ~Busy(u)

\* The event loop takes up the next handler.
Begin(t) ==
    /\ ~Busy(t)
    /\ solo' = IF Alone(t) THEN t ELSE None
    /\ met' = (met \/ ~Alone(t))
    /\ UNCHANGED <<store, tidy>>

Proceed(t, do) ==
    /\ due[t] = <<>> /\ todo[t] # <<>> /\ Head(todo[t]).do = do
    /\ UNCHANGED <<store, solo, met, tidy>>

\* The keys in the order in which they are written, and what comes after.
Writes(t, keys, list, cur, next) ==
    /\ due' = [due EXCEPT ![t] = keys]
    /\ put' = [put EXCEPT ![t] = [list |-> list, cur |-> cur]]
    /\ todo' = [todo EXCEPT ![t] = next]

All == <<"sessions", "id", "token">>

WriteKey(t) ==
    /\ due[t] # <<>>
    /\ LET key  == Head(due[t])
           last == Tail(due[t]) = <<>>
       IN  /\ sessions' = IF key = "sessions" THEN put[t].list ELSE sessions
           /\ currentId' = IF key = "id" THEN put[t].cur.id ELSE currentId
           /\ token' = IF key = "token" THEN put[t].cur.token ELSE token
           /\ due' = [due EXCEPT ![t] = Tail(@)]
           /\ put' = IF last THEN [put EXCEPT ![t] = NoPut] ELSE put
           /\ tidy' = (last /\ solo = t)
           /\ solo' = IF last /\ todo[t] = <<>> THEN None ELSE solo
    /\ UNCHANGED <<server, tabs, todo, met>>

-----------------------------------------------------------------------------
(* lib/auth.ts.  Without an entry for the current id the first of the list *)
(* takes its place.                                                        *)

GetCurrentSession(t, next) ==
    Writes(t, IF Current.id \in {None, currentId} THEN <<"token">> ELSE <<"id", "token">>,
           <<>>, Current, next)

\* Not the code: the new session goes to the end of the list.
SaveSessionLast(t, s, next) ==
    Writes(t, All, Without(sessions, s.id) \o <<s>>, s, next)

SaveSession(t, s, next) ==
    Writes(t, All, <<s>> \o Without(sessions, s.id), s, next)

\* The session used now is the newest: sorting puts it first.
SwitchSession(t, a, next) ==
    Writes(t, All, <<Entry(sessions, a)>> \o Without(sessions, a), Entry(sessions, a), next)

Keep(a, wasCurrent) == <<[do |-> "keep", without |-> a, first |-> wasCurrent]>>

\* Not the code: without a session there is one to clear all the same.
ClearCurrentSessionAnyway(t, next) ==
    GetCurrentSession(t, Keep(Current.id, TRUE) \o next)

ClearCurrentSession(t, next) ==
    IF Current = Nobody THEN Writes(t, <<"token", "token", "id">>, <<>>, Nobody, next)
    ELSE GetCurrentSession(t, Keep(Current.id, TRUE) \o next)

RemoveSession(t, a, next) ==
    GetCurrentSession(t, Keep(a, Current.id = a) \o next)

ClearAllSessions(t, next) == Writes(t, All, <<>>, Nobody, next)

\* Not the code: the keys of a removed session that was current stay.
KeepOthersOnly(t) ==
    /\ Proceed(t, "keep")
    /\ LET item == Head(todo[t])
           rest == Without(sessions, item.without)
       IN  Writes(t, <<"sessions">>, rest, First(rest), Tail(todo[t]))
    /\ UNCHANGED <<server, tabs>>

\* The others are read again; their first is next if the session was current.
KeepOthers(t) ==
    /\ Proceed(t, "keep")
    /\ LET item == Head(todo[t])
           rest == Without(sessions, item.without)
       IN  Writes(t, IF item.first THEN All ELSE <<"sessions">>, rest, First(rest), Tail(todo[t]))
    /\ UNCHANGED <<server, tabs>>

\* A page that polls has event streams.  EventSource carries the token in its URL,
\* and the server answers one that is valid with a cookie.
OpensStream(p) ==
    \/ UNCHANGED cookie
    \/ Polls(p) /\ Live(Current.token) /\ cookie' = Current.token

Shows(t, path) ==
    /\ page' = [page EXCEPT ![t] = Route(path, Current.id)]
    /\ OpensStream(page'[t])

\* The snapshot of useAuthSessions, and the guard of the path to go to.
Look(t) ==
    /\ Proceed(t, "look")
    /\ GetCurrentSession(t, Tail(todo[t]))
    /\ LET path == Head(todo[t]).path
       IN  IF path = "stay" THEN UNCHANGED <<page, cookie>> ELSE Shows(t, path)
    /\ UNCHANGED <<issued, expired, leaving, signIn, call, clicks>>

Run(t) == WriteKey(t) \/ KeepOthers(t) \/ Look(t)

-----------------------------------------------------------------------------
(* The login page.                                                         *)

Click(t) ==
    /\ ~Busy(t) /\ leaving[t] = "stay"
    /\ clicks < MaxClicks /\ clicks' = clicks + 1

SubmitLogin(t, a) ==
    /\ Click(t)
    /\ page[t] = "login" /\ signIn[t] = None
    /\ signIn' = [signIn EXCEPT ![t] = a]
    /\ UNCHANGED <<store, server, page, leaving, call, handlers>>

\* The server checks the password and signs a token.
IssueToken(t) ==
    /\ signIn[t] \in Accounts
    /\ LET a == signIn[t]
       IN  /\ issued[a] < MaxSignIns
           /\ issued' = [issued EXCEPT ![a] = @ + 1]
           /\ signIn' = [signIn EXCEPT ![t] = <<a, issued[a] + 1>>]
    /\ UNCHANGED <<store, cookie, expired, page, leaving, call, clicks, handlers>>

\* The answer arrives, wherever the user has gone in the meantime.
LoginSucceeds(t) ==
    /\ Begin(t) /\ signIn[t] \in Tokens
    /\ LET tk == signIn[t]
       IN  SaveSession(t, [id |-> tk[1], token |-> tk], Go(HomeOf(tk[1])))
    /\ signIn' = [signIn EXCEPT ![t] = None]
    /\ UNCHANGED <<server, page, leaving, call, clicks>>

LoginFails(t) ==
    /\ ~Busy(t) /\ signIn[t] # None
    /\ signIn' = [signIn EXCEPT ![t] = None]
    /\ UNCHANGED <<store, server, page, leaving, call, clicks, handlers>>

\* The entry may be gone from the store while the page still shows it.
PickSession(t, a) ==
    /\ Click(t) /\ Begin(t)
    /\ page[t] = "login" /\ issued[a] > 0
    /\ IF a \in Ids(sessions)
       THEN SwitchSession(t, a, Go(HomeOf(a)))
       ELSE todo' = [todo EXCEPT ![t] = Go("portal")] /\ UNCHANGED <<due, put>>
    /\ UNCHANGED <<server, page, leaving, signIn, call>>

DropSession(t, a) ==
    /\ Click(t) /\ Begin(t)
    /\ page[t] = "login" /\ issued[a] > 0
    /\ RemoveSession(t, a, Show)
    /\ UNCHANGED <<server, page, leaving, signIn, call>>

-----------------------------------------------------------------------------
(* The bar at the top of every other page and the sidebar.                 *)

Depart(t, path) == leaving' = [leaving EXCEPT ![t] = path]

RedirectToSession(t, a) ==
    /\ Click(t) /\ Begin(t)
    /\ page[t] # "login" /\ issued[a] > 0
    /\ IF a \in Ids(sessions)
       THEN SwitchSession(t, a, Show) /\ Depart(t, HomeOf(a))
       ELSE UNCHANGED <<due, put, todo>> /\ Depart(t, "portal")
    /\ UNCHANGED <<server, page, signIn, call>>

Logout(t) ==
    /\ Click(t) /\ Begin(t)
    /\ page[t] # "login"
    /\ ClearCurrentSession(t, Show)
    /\ Depart(t, "login")
    /\ UNCHANGED <<server, page, signIn, call>>

LogoutAll(t) ==
    /\ Click(t) /\ Begin(t)
    /\ page[t] # "login"
    /\ ClearAllSessions(t, Show)
    /\ Depart(t, "login")
    /\ UNCHANGED <<server, page, signIn, call>>

\* A link of the sidebar, one to the portal among them.
FollowLink(t, path) ==
    /\ Click(t) /\ Begin(t)
    /\ page[t] \in {"dashboard", "quiet"}
    /\ todo' = [todo EXCEPT ![t] = Go(path)]
    /\ UNCHANGED <<server, page, leaving, signIn, call, due, put>>

-----------------------------------------------------------------------------
(* Calls.  Each carries the token of the session that is current when it   *)
(* is sent; a query polls, except on the quiet pages, and forms are sent.  *)

Send(t, i, password) ==
    /\ Begin(t)
    /\ call[t][i] = None
    /\ GetCurrentSession(t, <<>>)
    /\ call' = [call EXCEPT ![t][i] = [token |-> Current.token, password |-> password]]
    /\ UNCHANGED <<issued, expired, page, leaving, signIn>>

Poll(t, i) ==
    /\ t \in Watched /\ Polls(page[t])
    /\ Send(t, i, FALSE)
    /\ OpensStream(page[t])
    /\ UNCHANGED clicks

\* The change of the password is a form of the portal.
SubmitForm(t, i) ==
    /\ Click(t)
    /\ page[t] \in {"quiet", "portal"}
    /\ Send(t, i, page[t] = "portal")
    /\ UNCHANGED cookie

\* Not the code: a cookie is good for ever.
AuthorizedByAnyCookie(c) == IF c.token = None THEN cookie # None ELSE Live(c.token)

\* The cookie counts when no token came with the call.
Authorized(c) == Live(IF c.token = None THEN cookie ELSE c.token)

\* Anything but 401: the data, or a refusal the page shows (403 for the role).
Answer(t, i) ==
    /\ ~Busy(t) /\ call[t][i] # None
    /\ Authorized(call[t][i])
    /\ call' = [call EXCEPT ![t][i] = None]
    /\ UNCHANGED <<store, server, page, leaving, signIn, clicks, handlers>>

Refused(t, i) ==
    /\ ~Busy(t) /\ call[t][i] # None
    /\ ~Authorized(call[t][i]) \/ call[t][i].password
    /\ call' = [call EXCEPT ![t][i] = None]

\* Not the code: a 401 is an error like any other.
RefuseQuietly(t, i) ==
    /\ Refused(t, i)
    /\ UNCHANGED <<store, server, page, leaving, signIn, clicks, handlers>>

\* 401 for a token that is not valid, and for a wrong old password.
Refuse(t, i) ==
    /\ Refused(t, i) /\ Begin(t)
    /\ ClearCurrentSession(t, Show)
    /\ Depart(t, "login")
    /\ UNCHANGED <<server, page, signIn, clicks>>

-----------------------------------------------------------------------------
(* The browser and the clock.                                              *)

\* The path is loaded: what the old page had under way is dropped.
Unload(t) ==
    /\ Begin(t) /\ leaving[t] # "stay"
    /\ GetCurrentSession(t, <<>>)
    /\ Shows(t, leaving[t])
    /\ Depart(t, "stay")
    /\ call' = [call EXCEPT ![t] = [i \in Slots |-> None]]
    /\ signIn' = [signIn EXCEPT ![t] = None]
    /\ UNCHANGED <<issued, expired, clicks>>

\* The storage event for a change another tab has made, however late.
Notice(t) ==
    /\ Begin(t)
    /\ GetCurrentSession(t, <<>>)
    /\ UNCHANGED <<server, page, leaving, signIn, call, clicks>>

Expire(a) ==
    /\ expired[a] < issued[a]
    /\ expired' = [expired EXCEPT ![a] = @ + 1]
    /\ UNCHANGED <<store, cookie, issued, tabs, handlers>>

-----------------------------------------------------------------------------
Clicks(t) ==
    \/ \E a \in Accounts: \/ SubmitLogin(t, a) \/ PickSession(t, a) \/ DropSession(t, a)
                          \/ RedirectToSession(t, a)
    \/ Logout(t) \/ LogoutAll(t)
    \/ \E path \in {"dashboard", "quiet", "portal"}: FollowLink(t, path)
    \/ \E i \in Slots: SubmitForm(t, i)

Answers(t) ==
    \/ IssueToken(t) \/ LoginSucceeds(t) \/ LoginFails(t)
    \/ \E i \in Slots: Answer(t, i) \/ Refuse(t, i)

SessionsNext ==
    \/ \E t \in Tabs: \/ Run(t) \/ Clicks(t) \/ Answers(t) \/ Unload(t) \/ Notice(t)
                      \/ \E i \in Slots: Poll(t, i)
    \/ \E a \in Accounts: Expire(a)

SessionsSpec == SessionsInit /\ [][SessionsNext]_vars

\* A handler runs to its end, and tokens do not live for ever.  The event loop
\* of a tab serves a timer, an answer and a storage event whatever else it runs,
\* and the browser loads a page that was asked for.  Only the pages that poll
\* send anything of their own accord, and only while the user has them in view.
SessionsFairness ==
    /\ \A t \in Watched: /\ WF_vars(Run(t)) /\ SF_vars(Unload(t))
                         /\ SF_vars(\E i \in Slots: Poll(t, i))
                         /\ \A i \in Slots: SF_vars(Answer(t, i) \/ Refuse(t, i))
    /\ WF_vars(\E a \in Accounts: Expire(a))

FairSessions == SessionsSpec /\ SessionsFairness

-----------------------------------------------------------------------------
Items == [do: {"look"}, path: Pages \cup {"stay"}]
         \cup [do: {"keep"}, without: Accounts, first: BOOLEAN]

(* Types of all variables.                                                 *)
SessionsTypeOK ==
    /\ sessions \in Seq(Entries)
    /\ currentId \in Accounts \cup {None}
    /\ token \in Tokens \cup {None} /\ cookie \in Tokens \cup {None}
    /\ issued \in [Accounts -> 0..MaxSignIns] /\ expired \in [Accounts -> 0..MaxSignIns]
    /\ page \in [Tabs -> Pages] /\ leaving \in [Tabs -> Pages \cup {"stay"}]
    /\ signIn \in [Tabs -> Accounts \cup Tokens \cup {None}]
    /\ call \in [Tabs -> [Slots -> [token: Tokens \cup {None}, password: BOOLEAN] \cup {None}]]
    /\ todo \in [Tabs -> Seq(Items)]
    /\ due \in [Tabs -> Seq({"sessions", "id", "token"})]
    /\ put \in [Tabs -> [list: Seq(Entries), cur: Entries \cup {Nobody}]]
    /\ clicks \in 0..MaxClicks
    /\ solo \in Tabs \cup {None} /\ met \in BOOLEAN /\ tidy \in BOOLEAN

(* No account is listed twice, whatever handlers of whatever tabs come     *)
(* between the reads and writes of each other.  admin_token, which the     *)
(* probe test reads directly, is the token of the current session when no  *)
(* key was written since a handler of any tab that no other overlapped     *)
(* finished its writes; what overlapping handlers leave is so repaired by  *)
(* the next one that runs alone.  While none has ever overlapped, the      *)
(* three keys tell one story between handlers: the current session is the  *)
(* first of the list, the one used last.                                   *)
OneStory ==
    /\ Cardinality(Ids(sessions)) = Len(sessions)
    /\ \A i \in DOMAIN sessions: sessions[i].token[1] = sessions[i].id
    /\ tidy => token = Current.token
    /\ ~met /\ (\A t \in Tabs: ~Busy(t)) =>
          currentId = First(sessions).id /\ token = First(sessions).token

(* The store refines the accounts in the order of their last use: a list   *)
(* is only written as one change, a use or a removal, of the list that     *)
(* this handler read before, and of no older one.                          *)
IdsOf(list) == [i \in DOMAIN list |-> list[i].id]
Store == INSTANCE RecentAccounts WITH
            recent <- IdsOf(sessions),
            plan   <- [t \in Tabs |-> IF due[t] # <<>> /\ Head(due[t]) = "sessions"
                                      THEN {IdsOf(put[t].list)} ELSE {}]
StoreIsRecentAccounts == Store!AccountsSpec

(* A tab in view whose page polls, with a session whose token has expired, *)
(* notices: its polling is refused, and it ends on the login page, unless  *)
(* it goes to a page that does not poll or another session takes the       *)
(* place.                                                                  *)
ExpiredTabLeaves ==
    \A t \in Watched:
        (Polls(page[t]) /\ Current # Nobody /\ ~Live(Current.token))
            ~> (~Polls(page[t]) \/ Current = Nobody \/ Live(Current.token))

(* After all sessions were cleared in one tab, no other tab in view keeps  *)
(* showing a page that polls.  (It may for a while: the cookie of a stream *)
(* stands in for the token that the calls no longer carry.)                *)
SignedOutEverywhere ==
    (sessions = <<>>) ~> (sessions # <<>> \/ \A t \in Watched: ~Polls(page[t]))
=============================================================================
