---------------------------- MODULE MCDataScreens ----------------------------
(***************************************************************************)
(* What all pages share, the queries and mutations, the page of egress     *)
(* addresses, and the pages of users, side by side: a behaviour is one of  *)
(* them, chosen at the start, while the others rest.                       *)
(***************************************************************************)
EXTENDS QueryCache, ProxyForm, ProbeTests, UserPages

CONSTANTS e1, e2

MCProxies == {e1, e2}

VARIABLE screen

dataScreensVars == <<screen, cacheVars, formVars, testVars, userVars>>

DataScreensInit ==
    /\ screen \in {"cache", "form", "tests", "users"}
    /\ CacheInit /\ (screen # "cache" => query.key = <<"users">> /\ shownPage = "users")
    /\ FormInit  /\ (screen # "form" => saved = Config("socks", "", {"server", "preset"}, "old"))
    /\ TestsInit
    /\ UsersInit /\ (screen # "users" => userPage = "users")

DataScreensNext ==
    \/ screen = "cache" /\ CacheNext /\ UNCHANGED <<screen, formVars, testVars, userVars>>
    \/ screen = "form"  /\ FormNext  /\ UNCHANGED <<screen, cacheVars, testVars, userVars>>
    \/ screen = "tests" /\ TestsNext /\ UNCHANGED <<screen, cacheVars, formVars, userVars>>
    \/ screen = "users" /\ UsersNext /\ UNCHANGED <<screen, cacheVars, formVars, testVars>>

\* What tells states apart: the variables of the screen that runs, without a JSON
\* text that is not shown, which is written again before it is read.
DataScreensView ==
    CASE screen = "cache" -> <<screen, cacheVars>>
      [] screen = "form"  -> <<screen, saved, known, sheet, form, IF json.shown THEN json ELSE NoConfig,
                              touched, saving, typings, saves, editors>>
      [] screen = "tests" -> <<screen, testVars>>
      [] screen = "users" -> <<screen, userVars>>

DataScreensSpec == DataScreensInit /\ [][DataScreensNext]_dataScreensVars

(* Types of all variables: of the cache, the drawer, the tests and the     *)
(* pages of users.                                                         *)
DataScreensTypeOK == CacheTypeOK /\ FormTypeOK /\ TestsTypeOK /\ UsersTypeOK
=============================================================================
