---------------------------- MODULE MCHostScreens ----------------------------
(***************************************************************************)
(* The screens of one host side by side, each with bounds of its own: a    *)
(* behaviour is one of them, chosen at the start, while the others rest.   *)
(***************************************************************************)
EXTENDS BypassTab, HostPages, HostConfig, PathChooser, TLC

CONSTANTS k1, k2, forced, i1, i2, c1, c2

MCRules    == {k1, k2}
MCPresets  == {forced}
MCIps      == {i1, i2}
MCContents == {c1, c2}
MCFolders  == {"/", Drive} \X {<<>>, <<"a">>, <<"a", "ab">>}
MCRefused  == {<<"/", <<"a", "ab">>>>}
MCInside   == {"/"} \X {<<>>, <<"a">>}
MCBegins   == {<<"a", "ab">>}
MCTexts    == {Path("", <<"a">>, FALSE), Path(Drive, <<>>, TRUE), Path("/", <<"a">>, FALSE)}
Sym        == Permutations(MCRules)

VARIABLE screen

hostScreensVars == <<screen, tabVars, pagesVars, configVars, pathVars>>

HostScreensInit ==
    /\ screen \in {"tab", "pages", "config", "paths"}
    /\ TabInit
    /\ PagesInit  /\ (screen # "pages" => host = "running")
    /\ ConfigInit /\ (screen # "config" => ~up /\ bound = i1 /\ content = [e \in Editors |-> c1])
    /\ PathInit    /\ (screen # "paths" => form = "manager")

HostScreensNext ==
    \/ screen = "tab"    /\ TabNext    /\ UNCHANGED <<screen, pagesVars, configVars, pathVars>>
    \/ screen = "pages"  /\ PagesNext  /\ UNCHANGED <<screen, tabVars, configVars, pathVars>>
    \/ screen = "config" /\ ConfigNext /\ UNCHANGED <<screen, tabVars, pagesVars, pathVars>>
    \/ screen = "paths"  /\ PathNext   /\ UNCHANGED <<screen, tabVars, pagesVars, configVars>>

\* What tells states apart: the variables of the screen that runs.
HostScreensView ==
    CASE screen = "tab"    -> <<screen, tabVars>>
      [] screen = "pages"  -> <<screen, pagesVars>>
      [] screen = "config" -> <<screen, configVars>>
      [] screen = "paths"  -> <<screen, pathVars>>

HostScreensSpec == HostScreensInit /\ [][HostScreensNext]_hostScreensVars

(* Types of all variables: of the bypass section, the pages, the           *)
(* configuration section and the fields of paths.                          *)
HostScreensTypeOK == TabTypeOK /\ PagesTypeOK /\ ConfigTypeOK /\ PathTypeOK
=============================================================================
