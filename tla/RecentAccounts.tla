--------------------------- MODULE RecentAccounts ---------------------------
(***************************************************************************)
(* What the browser promises about the accounts it is signed in with.  A   *)
(* tab takes the list as it finds it and plans the next: an account it     *)
(* uses comes to the front, an account leaves alone or with all the        *)
(* others, and nothing else moves.  The list becomes what a tab planned,   *)
(* so it is in the order of the last use as long as no tab plans from a    *)
(* list that another replaces before the plan is carried out.              *)
(***************************************************************************)
EXTENDS Sequences, Filters

CONSTANTS Accounts, Tabs

VARIABLES
    recent,  \* the accounts, the last used first
    plan     \* tab -> what it is about to put in its place, a set of at most one list

Without(s, a) == Filter(s, {i \in DOMAIN s: s[i] # a})

Plan(t, list) ==
    /\ plan[t] = {}
    /\ plan' = [plan EXCEPT ![t] = {list}]
    /\ UNCHANGED recent

Use(t, a)    == Plan(t, <<a>> \o Without(recent, a))
Forget(t, a) == Plan(t, Without(recent, a))
ForgetAll(t) == Plan(t, <<>>)

CarryOut(t) ==
    /\ plan[t] = {recent'}
    /\ plan' = [plan EXCEPT ![t] = {}]

AccountsInit ==
    /\ \A i, j \in DOMAIN recent: recent[i] = recent[j] => i = j
    /\ plan = [t \in Tabs |-> {}]
AccountsNext ==
    \E t \in Tabs: \/ \E a \in Accounts: Use(t, a) \/ Forget(t, a)
                   \/ ForgetAll(t) \/ CarryOut(t)
AccountsSpec == AccountsInit /\ [][AccountsNext]_<<recent, plan>>
=============================================================================
