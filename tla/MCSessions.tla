----------------------------- MODULE MCSessions -----------------------------
EXTENDS Sessions, TLC
CONSTANTS root, ann, tab1, tab2
MCAccounts == {root, ann}
MCLeft == {<<>>, <<root>>, <<ann>>, <<root, ann>>, <<ann, root>>}
MCTabs  == {tab1, tab2}
MCWatched == {tab1}
MCRole  == (root :> "admin") @@ (ann :> "user")
=============================================================================
