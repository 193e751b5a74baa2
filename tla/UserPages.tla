------------------------------ MODULE UserPages ------------------------------
(***************************************************************************)
(* What is shown once: the credentials of a new user, a rotated login      *)
(* password, regenerated SSH credentials and a generated key pair.  The    *)
(* server writes them part by part, without a transaction, and answers     *)
(* with their plain text; the page keeps the answer in the state of its    *)
(* components until a dialog has shown it.  Dialogs can be closed, and     *)
(* pages left, while the request is under way; keys and the user can be    *)
(* deleted.                                                                *)
(***************************************************************************)
EXTENDS Integers, Sequences

CONSTANT MaxAsks  \* bound: requests

ASSUME UsersAssumption == MaxAsks \in Nat

VARIABLES
    userPage, \* "users", one user's page "user", or the user's own, "portal"
    dialog,   \* the dialog that is open, by its kind, or "no"
    asks,     \* the requests: kind, the key row it names, parts left to write, where it is, whether
              \* this page waits for it, and the requests not done when it was sent (history)
    secret,   \* per place: the request whose answer the component holds, or 0
    force,    \* per part of the user's credentials: the request that wrote it, or 0
    seen      \* requests whose answer was shown (history)

userVars == <<userPage, dialog, asks, secret, force, seen>>

\* Regenerating first deletes the row of the key generated before.
Parts == [create     |-> <<"new account", "new key", "new row">>,
          rotate     |-> <<"login">>,
          regenerate |-> <<"entry", "key", "old row", "row">>,
          generate   |-> <<"pair">>,
          import     |-> <<"pair">>,
          paste      |-> <<"pair">>,
          dropKey    |-> <<"named row">>,
          delete     |-> <<"account">>]

Kinds   == DOMAIN Parts
AddKeys == {"generate", "import", "paste"}
OfKeys  == AddKeys \cup {"dropKey"}
KindsOf == [users |-> {"create", "delete"}, user |-> {"rotate", "regenerate", "delete"} \cup OfKeys, portal |-> OfKeys]
Lasting == {"login", "entry", "key", "row"}
Sent    == 1..Len(asks)

\* Where an answer is kept; a pair that was imported whole is shown like a generated one.
Places    == {"create", "rotate", "regenerate", "generate"}
Secretive == Places \cup {"import"}
Place(k)  == IF k = "import" THEN "generate" ELSE k

UsersInit ==
    /\ userPage \in DOMAIN KindsOf /\ dialog = "no"
    /\ asks = <<>> /\ secret = [k \in Places |-> 0]
    /\ force = [p \in Lasting |-> 0] /\ seen = {}

\* Pending, for the page: a mutation shared by all ways of adding a key.
Pending(k) ==
    \E n \in Sent: /\ asks[n].waits /\ asks[n].is \in {"writing", "answered"}
                   /\ asks[n].kind = k \/ {k, asks[n].kind} \subseteq AddKeys

\* Credentials and pairs are shown in a dialog of their own, the others in that
\* of their form.
OwnDialog == {"regenerate", "generate"}
Shown(d, s) == {s[k]: k \in {j \in Places: s[j] # 0 /\ (j \in OwnDialog \/ d = j)}}
Covered     == dialog # "no" \/ Shown(dialog, secret) # {}

-----------------------------------------------------------------------------
(* The dialogs.                                                            *)

\* What arrived while the dialog was closed is shown at once, in place of the form.
Open(k) ==
    /\ ~Covered /\ k \in KindsOf[userPage]
    /\ dialog' = k /\ seen' = seen \cup Shown(k, secret)
    /\ UNCHANGED <<userPage, asks, secret, force>>

OpenCreate      == Open("create")
OpenUserMenu(k) == k \in {"rotate", "regenerate"} /\ Open(k)
OpenKeyForm(k)  == k \in OfKeys /\ ~Pending(k) /\ Open(k)
OpenDelete      == Open("delete")

\* All but the confirmation of new credentials close while their request is pending;
\* the one of the deletion is then unmounted, and no longer listens.
CloseForm ==
    /\ dialog # "no" /\ Shown("no", secret) = {}
    /\ dialog = "regenerate" => ~Pending("regenerate")
    /\ dialog' = "no"
    /\ secret' = [k \in Places |-> IF k = dialog THEN 0 ELSE secret[k]]
    /\ asks' = [n \in Sent |-> [asks[n] EXCEPT !.waits = @ /\ (dialog = "delete" => asks[n].kind # "delete")]]
    /\ UNCHANGED <<userPage, force, seen>>

CloseShown(k) ==
    /\ secret[k] # 0
    /\ secret' = [secret EXCEPT ![k] = 0]
    /\ UNCHANGED <<userPage, dialog, asks, force, seen>>

CloseCredentials == CloseShown("regenerate")
CloseCreatedKey  == CloseShown("generate")

Under == {n \in Sent: asks[n].is \in {"writing", "answered"}}

Ask(k, r, waits) ==
    /\ Len(asks) < MaxAsks
    /\ asks' = Append(asks, [kind |-> k, row |-> r, left |-> Parts[k], is |-> "writing", waits |-> waits,
                            beside |-> Under])

\* The rows of generated keys a list may show: the first one, and those of the requests.
Rows == {0} \cup {n \in Sent: asks[n].kind = "regenerate" /\ asks[n].left = <<>>}

Submit(k, r) ==
    /\ dialog = k /\ ~Pending(k) /\ Shown(k, secret) = {}
    /\ Ask(k, r, TRUE)
    /\ UNCHANGED <<userPage, secret, force, seen>>

HandleCreateUser  == Submit("create", 0) /\ UNCHANGED dialog
HandleRotate      == Submit("rotate", 0) /\ UNCHANGED dialog
HandleRegenerate  == Submit("regenerate", 0) /\ UNCHANGED dialog
HandleDelete      == Submit("delete", 0) /\ UNCHANGED dialog

\* The forms of keys are closed and emptied before the answer is there.
HandleGenerateKey == Submit("generate", 0) /\ dialog' = "no"
HandlePasteKey(k) == k \in {"import", "paste"} /\ Submit(k, 0) /\ dialog' = "no"
HandleDropKey(r)  == Submit("dropKey", r) /\ dialog' = "no"

\* Navigation unmounts the components: what they held unseen, and will not hear, is lost.
GoTo(p, list) ==
    /\ userPage' = p /\ dialog' = "no"
    /\ secret' = [k \in Places |-> 0]
    /\ asks' = [n \in DOMAIN list |-> [list[n] EXCEPT
                    !.waits = FALSE,
                    !.is = IF \/ @ = "answered"
                              \/ @ = "heard" /\ list[n].kind \in Secretive /\ n \notin seen THEN "lost" ELSE @]]
    /\ UNCHANGED <<force, seen>>

LeavePage(p) == p # userPage /\ GoTo(p, asks)

-----------------------------------------------------------------------------
(* The server, and its answers.                                            *)

\* The parts of the user's credentials that a write replaces or removes.
Replaced(n, part) ==
    CASE part = "account" -> Lasting
      [] part = "old row" -> {"row"}
      [] part = "named row" -> IF force["row"] = asks[n].row THEN {"row"} ELSE {}
      [] OTHER -> {part} \cap Lasting

Gone == \E n \in Sent: asks[n].kind = "delete" /\ asks[n].left = <<>>

WritePart(n) ==
    /\ asks[n].is = "writing" /\ asks[n].left # <<>>
    /\ Gone => asks[n].kind = "create"
    /\ asks' = [asks EXCEPT ![n].left = Tail(@)]
    /\ force' = [p \in Lasting |-> IF p \in Replaced(n, Head(asks[n].left)) THEN n ELSE force[p]]
    /\ UNCHANGED <<userPage, dialog, secret, seen>>

\* The first error ends the handler; what is written stays, and its plain text
\* is never sent.
WriteFails(n) ==
    /\ asks[n].is = "writing" /\ asks[n].left # <<>>
    /\ asks' = [asks EXCEPT ![n].is = "failed"]
    /\ UNCHANGED <<userPage, dialog, secret, force, seen>>

\* Nobody hears the answers to other consoles, and to a page that was left.
WriteAnswer(n) ==
    /\ asks[n].is = "writing" /\ asks[n].left = <<>>
    /\ asks' = [asks EXCEPT ![n].is = IF asks[n].waits THEN "answered" ELSE "lost"]
    /\ UNCHANGED <<userPage, dialog, secret, force, seen>>

AnswerLost(n) ==
    /\ asks[n].is = "answered"
    /\ asks' = [asks EXCEPT ![n].is = "lost"]
    /\ UNCHANGED <<userPage, dialog, secret, force, seen>>

\* Not the code: an answer is kept only for a dialog that is open.
HearIfOpen(n) ==
    LET k == asks[n].kind
    IN  /\ asks[n].is = "answered" /\ k # "delete"
        /\ asks' = [asks EXCEPT ![n].is = "heard"]
        /\ secret' = [j \in Places |-> IF j = Place(k) /\ (j \in OwnDialog \/ dialog = j) THEN n ELSE secret[j]]
        /\ dialog' = IF k = "regenerate" THEN "no" ELSE dialog
        /\ seen' = seen \cup Shown(dialog', secret')
        /\ UNCHANGED <<userPage, force>>

\* The success of a mutation sets the component's state, its dialog open or not.
Hear(n) ==
    LET k == asks[n].kind
    IN  /\ asks[n].is = "answered" /\ k # "delete"
        /\ asks' = [asks EXCEPT ![n].is = "heard"]
        /\ secret' = [j \in Places |-> IF j = Place(k) THEN n ELSE secret[j]]
        /\ dialog' = IF k = "regenerate" THEN "no" ELSE dialog
        /\ seen' = seen \cup Shown(dialog', secret')
        /\ UNCHANGED <<userPage, force>>

\* From the page of the deleted user back to the list.
HearDeletion(n) ==
    LET heard == [asks EXCEPT ![n].is = "heard"]
    IN  /\ asks[n].is = "answered" /\ asks[n].kind = "delete"
        /\ IF userPage = "user" THEN GoTo("users", heard)
           ELSE asks' = heard /\ dialog' = "no" /\ UNCHANGED <<userPage, secret, force, seen>>

\* Other consoles ask for the same.
OthersAsk(k, r) == (k # "dropKey" => r = 0) /\ Ask(k, r, FALSE) /\ UNCHANGED <<userPage, dialog, secret, force, seen>>

UsersNext ==
    \/ \E k \in Kinds: \/ OpenUserMenu(k) \/ OpenKeyForm(k) \/ HandlePasteKey(k)
                       \/ \E r \in Rows: OthersAsk(k, r)
    \/ OpenCreate \/ OpenDelete \/ CloseForm \/ CloseCredentials \/ CloseCreatedKey
    \/ HandleCreateUser \/ HandleRotate \/ HandleRegenerate \/ HandleDelete \/ HandleGenerateKey
    \/ \E r \in Rows: HandleDropKey(r)
    \/ \E p \in DOMAIN KindsOf: LeavePage(p)
    \/ \E n \in Sent: \/ WritePart(n) \/ WriteFails(n) \/ WriteAnswer(n)
                      \/ AnswerLost(n) \/ Hear(n) \/ HearDeletion(n)

UsersSpec == UsersInit /\ [][UsersNext]_userVars

-----------------------------------------------------------------------------
(* Types of all variables.                                                 *)
UsersTypeOK ==
    /\ userPage \in DOMAIN KindsOf /\ dialog \in KindsOf[userPage] \cup {"no"}
    /\ \A n \in Sent: /\ asks[n].kind \in Kinds /\ asks[n].row \in 0..n - 1 /\ asks[n].beside \subseteq 1..n - 1
                      /\ asks[n].is \in {"writing", "failed", "answered", "heard", "lost"}
    /\ \A k \in Places: secret[k] \in Sent \cup {0} /\ (secret[k] # 0 => Place(asks[secret[k]].kind) = k)
    /\ \A p \in Lasting: force[p] \in Sent \cup {0}
    /\ seen \subseteq Sent

(* What is generated once reaches the administrator: an answer the page    *)
(* has heard was shown, or waits in its dialog, whenever it came; and what *)
(* was heard is what the server checks, every part of it, until another    *)
(* request writes that part - a later one, or one that was under way when  *)
(* it was sent.  Answers to a page that was left are lost, and so are the  *)
(* parts written before one that failed.                                   *)
SecretsReach ==
    \A n \in Sent: asks[n].is = "heard" /\ asks[n].kind \in Secretive =>
        /\ n \in seen \/ n = secret[Place(asks[n].kind)]
        /\ \A p \in Lasting \cap {Parts[asks[n].kind][i]: i \in DOMAIN Parts[asks[n].kind]}:
              force[p] = n \/ force[p] > n \/ force[p] \in asks[n].beside
=============================================================================
