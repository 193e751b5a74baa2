------------------------------ MODULE ProxyForm ------------------------------
(***************************************************************************)
(* The drawer that creates and edits an egress address: a form with the    *)
(* fields of one proxy protocol, or a JSON text of the same configuration, *)
(* converted to each other, filled from a share link, and sent to a server *)
(* that hides the password, reads the saved one to put it back, and writes,*)
(* while other operators write too.                                        *)
(*                                                                         *)
(* Of a field, and of a key of a configuration, only matters whether it is *)
(* filled; ws stands for the transports with a path, cert for the settings *)
(* of the certificate, which reality replaces.  Two keys are no fields:    *)
(* "extra", what a JSON text may hold and the form does not read (a key it *)
(* does not know, another SOCKS version than 5, ALPN as one string, hosts  *)
(* after the first, a fingerprint of its own), and "preset", what the form *)
(* writes unasked (SOCKS version 5, security and alter_id of VMess, uTLS   *)
(* with reality).                                                          *)
(***************************************************************************)
EXTENDS Integers, FiniteSets

CONSTANTS
    MaxTyped, \* bound: changes of the form or the text
    MaxSaves, \* bound: requests sent
    MaxEditors \* bound: drawers opened

ASSUME FormAssumption == {MaxTyped, MaxSaves, MaxEditors} \subseteq Nat

Protocols  == {"socks", "vmess", "vless", "shadowsocks", "trojan", "http"}
Fields     == {"server", "username", "uuid", "flow", "method", "tls", "sni", "cert", "reality", "path", "service"}
Transports == {"", "ws", "grpc"}

Keys       == Fields \cup {"extra", "preset"}

\* Passwords: none, the one that was saved here, one just typed, another operator's,
\* or the server's mask.
Passwords  == {"none", "old", "new", "theirs", "mask"}

TlsTypes       == {"vmess", "vless", "trojan", "http"}
TransportTypes == {"vmess", "vless", "trojan"}
UuidTypes      == {"vmess", "vless"}
LoginTypes     == {"socks", "http"}
PasswordTypes  == {"socks", "shadowsocks", "trojan", "http"}
When(cond, S)  == IF cond THEN S ELSE {}

-----------------------------------------------------------------------------
(* Conversions.                                                            *)

Form(protocol, transport, filled, password) ==
    [protocol |-> protocol, transport |-> transport, filled |-> filled, password |-> password]

ProxyDefaults == Form("socks", "", {}, "none")

\* The fields on the screen.
ShownFields(f) ==
    {"server"}
    \cup When(f.protocol \in LoginTypes, {"username"})
    \cup When(f.protocol \in UuidTypes, {"uuid"})
    \cup When(f.protocol = "vless", {"flow"})
    \cup When(f.protocol = "shadowsocks", {"method"})
    \cup When(f.protocol \in TlsTypes,
              {"tls"} \cup When("tls" \in f.filled,
                  {"sni"} \cup When(f.protocol = "vless", {"reality"})
                          \cup When("reality" \notin f.filled, {"cert"})))
    \cup When(f.protocol \in TransportTypes,
              When(f.transport = "ws", {"path"}) \cup When(f.transport = "grpc", {"service"}))

Config(type, transport, keys, password) ==
    [type |-> type, transport |-> transport, keys |-> keys, password |-> password]

TlsKeys(f) ==
    {"tls"} \cup (f.filled \cap IF "reality" \in f.filled THEN {"sni", "reality"} ELSE {"sni", "cert"})
            \cup When("reality" \in f.filled, {"preset"})

SentTransport(f) == IF f.protocol \in TransportTypes THEN f.transport ELSE ""
SentPassword(f)  == IF f.protocol \in PasswordTypes /\ f.password # "mask" THEN f.password ELSE "none"

SentKeys(f) ==
    When(f.protocol \in {"socks", "vmess"}, {"preset"}) \cup
    (f.filled \cap
       ({"server"} \cup When(f.protocol \in LoginTypes, {"username"})
                   \cup When(f.protocol \in UuidTypes, {"uuid"})
                   \cup When(f.protocol = "vless", {"flow"})
                   \cup When(f.protocol = "shadowsocks", {"method"})
                   \cup When(SentTransport(f) = "ws", {"path"})
                   \cup When(SentTransport(f) = "grpc", {"service"})))

\* Not the code: TLS goes out with every protocol.
FormValuesToConfigWithTls(f) ==
    Config(f.protocol, SentTransport(f), SentKeys(f) \cup When("tls" \in f.filled, TlsKeys(f)), SentPassword(f))

FormValuesToConfig(f) ==
    Config(f.protocol, SentTransport(f),
           SentKeys(f) \cup When("tls" \in f.filled /\ f.protocol \in TlsTypes, TlsKeys(f)), SentPassword(f))

\* A UUID and a method are set only for the protocols that have them, and stay in
\* the form for others.
ConfigToFormValues(c, f) ==
    Form(c.type, c.transport,
         (c.keys \cap ({"server", "username", "tls", "sni", "cert", "reality", "path", "service"}
                       \cup When(c.type \in UuidTypes, {"uuid"}) \cup When(c.type = "vless", {"flow"})
                       \cup When(c.type = "shadowsocks", {"method"})))
         \cup (f.filled \cap (When(c.type \notin UuidTypes, {"uuid"})
                             \cup When(c.type # "shadowsocks", {"method"}))),
         c.password)

\* What a link of the protocol sets; the rest of the form stays.
LinkFields(protocol) ==
    {"server"} \cup
    CASE protocol = "vmess"  -> {"uuid", "tls", "sni", "cert", "path", "service"}
      [] protocol = "vless"  -> {"uuid", "flow", "tls", "sni", "cert", "reality", "path", "service"}
      [] protocol = "trojan" -> {"tls", "sni", "cert", "path", "service"}
      [] protocol = "socks"  -> {"username"}
      [] OTHER               -> {"method"}

LinkTransports(protocol) == IF protocol \in TransportTypes THEN Transports ELSE {""}

\* Links with no settings, with all, and with all but reality.
ParsedLinks(protocol) ==
    {Form(protocol, with, filled, IF protocol \in UuidTypes THEN "none" ELSE "new") :
        with   \in LinkTransports(protocol),
        filled \in {LinkFields(protocol) \cap {"server", "uuid", "method"}, LinkFields(protocol) \ {"reality"},
                   LinkFields(protocol)}}

-----------------------------------------------------------------------------
VARIABLES
    saved,  \* server: the configuration of the address
    known,   \* what was fetched of it: a set, empty before
    sheet,  \* "closed", "create" or "edit"
    form,
    json,    \* the JSON text: is it shown, is it a configuration, and which
    touched, \* has the user changed what was loaded (history)
    saving,  \* the request under way: a set of at most one, with what was known when it
             \* was sent and what was saved when its password was merged (history)
    typings, saves, editors

formVars == <<saved, known, sheet, form, json, touched, saving, typings, saves, editors>>

HideText(c)  == [shown |-> FALSE, is |-> "empty", config |-> c]
NoConfig     == Config("socks", "", {}, "none")
Mask(c)      == [c EXCEPT !.password = IF @ = "none" THEN @ ELSE "mask"]

\* validateProxyConfig of the server.
ValidConfig(c) ==
    /\ "server" \in c.keys
    /\ c.type \in UuidTypes => "uuid" \in c.keys
    /\ c.type = "shadowsocks" => "method" \in c.keys
    /\ c.type \in {"shadowsocks", "trojan"} => c.password # "none"

\* What the row holds of a password that was sent.
Stored(c) == [c EXCEPT !.password = IF @ = "new" THEN "old" ELSE @]

\* The same as a text of its own: more than the form reads, and nothing unasked.
AsTyped(c) == [c EXCEPT !.keys = (@ \cup {"extra"}) \ {"preset"}]

\* Addresses created from a link, in the form or with a text.
FormInit ==
    /\ \E p \in Protocols \ {"http"}: \E link \in ParsedLinks(p):
          LET c == Stored(FormValuesToConfig(link)) IN saved \in {c, AsTyped(c)}
    /\ known = {} /\ sheet = "closed" /\ form = ProxyDefaults /\ json = HideText(NoConfig)
    /\ touched = FALSE /\ saving = {} /\ typings = 0 /\ saves = 0 /\ editors = 0

-----------------------------------------------------------------------------
(* The drawer.                                                             *)

ResetForm(f) == form' = f /\ json' = HideText(NoConfig) /\ touched' = FALSE
KeepForm     == UNCHANGED <<form, json, touched>>

\* The effect on [mode, ipData]: what was fetched, over the defaults, without the
\* mask.
Loaded(c) ==
    LET f == ConfigToFormValues(c, ProxyDefaults)
    IN  [f EXCEPT !.password = IF @ = "mask" THEN "none" ELSE @]

\* Opened again for creation, the form shows what was typed before.
OpenCreateDrawer ==
    /\ sheet = "closed" /\ sheet' = "create"
    /\ editors < MaxEditors /\ editors' = editors + 1
    /\ UNCHANGED <<saved, known, form, json, touched, saving, typings, saves>>

OpenEditDrawer ==
    /\ sheet = "closed" /\ sheet' = "edit"
    /\ editors < MaxEditors /\ editors' = editors + 1
    /\ IF known = {} THEN KeepForm ELSE \E c \in known: ResetForm(Loaded(c))
    /\ UNCHANGED <<saved, known, saving, typings, saves>>

\* After an edit the mode is that of creation again.
Shut ==
    /\ sheet' = "closed"
    /\ IF sheet = "edit" THEN ResetForm(ProxyDefaults) ELSE KeepForm

CloseEditor ==
    /\ sheet # "closed" /\ Shut
    /\ UNCHANGED <<saved, known, saving, typings, saves, editors>>

\* The address is fetched while it is edited; anything new fills the form again.
FetchAddress ==
    /\ sheet = "edit"
    /\ known' = {Mask(saved)}
    /\ \/ ResetForm(Loaded(Mask(saved)))
       \/ known' = known /\ KeepForm
    /\ UNCHANGED <<saved, sheet, saving, typings, saves, editors>>

-----------------------------------------------------------------------------
(* Typing.                                                                 *)

Typing ==
    /\ sheet # "closed"
    /\ typings < MaxTyped /\ typings' = typings + 1
    /\ touched' = TRUE
    /\ UNCHANGED <<saved, known, sheet, saving, saves, editors>>

ChooseProtocol(p) ==
    /\ ~json.shown /\ p # form.protocol
    /\ Typing /\ form' = [form EXCEPT !.protocol = p] /\ UNCHANGED json

ChooseTransport(with) ==
    /\ ~json.shown /\ form.protocol \in TransportTypes /\ with # form.transport
    /\ Typing /\ form' = [form EXCEPT !.transport = with] /\ UNCHANGED json

\* Fill or empty a field; without TLS there is no reality.
TypeField(field) ==
    /\ ~json.shown /\ field \in ShownFields(form)
    /\ Typing
    /\ form' = [form EXCEPT !.filled =
                  IF field \notin @ THEN @ \cup {field}
                  ELSE IF field = "tls" THEN @ \ {"tls", "reality"} ELSE @ \ {field}]
    /\ UNCHANGED json

TypePassword ==
    /\ ~json.shown /\ form.protocol \in PasswordTypes
    /\ Typing /\ form' = [form EXCEPT !.password = "new"] /\ UNCHANGED json

\* handleImport: the link's fields, in either view.
HandleImport(link) ==
    /\ Typing
    /\ form' = [protocol  |-> link.protocol,
                transport |-> IF link.protocol \in TransportTypes THEN link.transport ELSE form.transport,
                filled    |-> (form.filled \ LinkFields(link.protocol)) \cup link.filled,
                password  |-> IF link.protocol \in UuidTypes THEN form.password ELSE link.password]
    /\ UNCHANGED json

TypeJson ==
    /\ json.shown
    /\ Typing
    /\ \/ \E is \in {"empty", "garbage"}: json' = [json EXCEPT !.is = is]
       \/ \E t \in Protocols: json' = [json EXCEPT !.is = "config", !.config.type = t]
       \/ \E pwd \in {"none", "new", "mask"}: json' = [json EXCEPT !.is = "config", !.config.password = pwd]
       \/ \E k \in {"extra", "uuid"}:
             json' = [json EXCEPT !.is = "config",
                                  !.config.keys = IF k \in @ THEN @ \ {k} ELSE @ \cup {k}]
    /\ UNCHANGED form

SwitchToJson ==
    /\ sheet # "closed" /\ ~json.shown
    /\ json' = [shown |-> TRUE, is |-> "config", config |-> FormValuesToConfig(form)]
    /\ UNCHANGED <<saved, known, sheet, form, touched, saving, typings, saves, editors>>

\* Not for a text that is no JSON; an empty one changes no field.
SwitchToForm ==
    /\ sheet # "closed" /\ json.shown /\ json.is # "garbage"
    /\ json' = [json EXCEPT !.shown = FALSE]
    /\ form' = IF json.is = "config" THEN ConfigToFormValues(json.config, form) ELSE form
    /\ UNCHANGED <<saved, known, sheet, touched, saving, typings, saves, editors>>

-----------------------------------------------------------------------------
(* Saving.                                                                 *)

\* formSchema: a password is demanded even of an address that has one.
ValidForm(f) ==
    /\ "server" \in f.filled
    /\ f.protocol \in UuidTypes => "uuid" \in f.filled
    /\ f.protocol = "shadowsocks" => "method" \in f.filled
    /\ f.protocol \in {"shadowsocks", "trojan"} => f.password # "none"

OnSubmitProxy ==
    /\ sheet # "closed" /\ saving = {}
    /\ IF json.shown THEN json.is = "config" ELSE ValidForm(form)
    /\ saves < MaxSaves /\ saves' = saves + 1
    /\ LET c == IF json.shown THEN json.config ELSE FormValuesToConfig(form)
       IN  saving' = {[op |-> sheet, touched |-> touched, from |-> known, met |-> {}, is |-> "sent",
                       config |-> [c EXCEPT !.password = IF @ = "mask" THEN "none" ELSE @]]}
    /\ UNCHANGED <<saved, known, sheet, form, json, touched, typings, editors>>

\* Not the code: a password that is not sent is no more.
DropProxyPassword(c) == c

\* The saved password comes back whenever none is sent, whatever the protocol.
MergeProxyPassword(c) ==
    [c EXCEPT !.password = IF @ \in {"none", "mask"} /\ saved.password # "none" THEN saved.password ELSE @]

\* The first half of the handler: the row is read, if a password is missing.
MergeSaved(r) ==
    /\ r.op = "edit" /\ r.is = "sent"
    /\ saving' = {[r EXCEPT !.is = "merged", !.met = {saved}, !.config = MergeProxyPassword(@)]}
    /\ UNCHANGED <<saved, known, sheet, form, json, touched, typings, saves, editors>>

\* It cannot be read: the request goes on as it came.
MergeFails(r) ==
    /\ r.op = "edit" /\ r.is = "sent" /\ r.config.password \in {"none", "mask"}
    /\ saving' = {[r EXCEPT !.is = "merged"]}
    /\ UNCHANGED <<saved, known, sheet, form, json, touched, typings, saves, editors>>

Answer(r, is) == saving' = {[r EXCEPT !.is = is]}

\* The second half: what is saved by now is replaced.
UpdateAddress(r) ==
    /\ r.op = "edit" /\ r.is = "merged" /\ ValidConfig(r.config)
    /\ saved' = Stored(r.config)
    /\ Answer(r, "done")
    /\ UNCHANGED <<known, sheet, form, json, touched, typings, saves, editors>>

\* Another operator saves the address from a form like this, with a password of his own.
OthersSave ==
    /\ saved' = FormValuesToConfig([Loaded(Mask(saved)) EXCEPT !.password = "theirs"])
    /\ saved' # saved
    /\ UNCHANGED <<known, sheet, form, json, touched, saving, typings, saves, editors>>

CreateAddress(r) ==
    /\ r.op = "create" /\ r.is = "sent" /\ ValidConfig(r.config)
    /\ Answer(r, "done")
    /\ UNCHANGED <<saved, known, sheet, form, json, touched, typings, saves, editors>>

\* Whatever sheet is open by now.
SaveAnswered(r) ==
    /\ r.is = "done" /\ saving' = {}
    /\ IF sheet = "closed" THEN UNCHANGED sheet /\ KeepForm ELSE Shut
    /\ UNCHANGED <<saved, known, typings, saves, editors>>

\* Refused, or the answer lost.
SaveFailed ==
    /\ saving # {} /\ saving' = {}
    /\ UNCHANGED <<saved, known, sheet, form, json, touched, typings, saves, editors>>

-----------------------------------------------------------------------------
FormNext ==
    \/ OpenCreateDrawer \/ OpenEditDrawer \/ CloseEditor \/ FetchAddress
    \/ \E p \in Protocols: ChooseProtocol(p)
    \/ \E with \in Transports: ChooseTransport(with)
    \/ \E field \in Fields: TypeField(field)
    \/ TypePassword \/ TypeJson \/ SwitchToJson \/ SwitchToForm
    \/ \E p \in Protocols \ {"http"}: \E link \in ParsedLinks(p): HandleImport(link)
    \/ OnSubmitProxy \/ SaveFailed \/ OthersSave
    \/ \E r \in saving: \/ MergeSaved(r) \/ MergeFails(r) \/ UpdateAddress(r)
                        \/ CreateAddress(r) \/ SaveAnswered(r)

FormSpec == FormInit /\ [][FormNext]_formVars

-----------------------------------------------------------------------------
Configs == [type: Protocols, transport: Transports, keys: SUBSET Keys, password: Passwords]

(* Types of all variables.                                                 *)
FormTypeOK ==
    /\ saved \in Configs /\ known \subseteq Configs /\ Cardinality(known) <= 1
    /\ sheet \in {"closed", "create", "edit"}
    /\ form \in [protocol: Protocols, transport: Transports, filled: SUBSET Fields, password: Passwords]
    /\ json \in [shown: BOOLEAN, is: {"empty", "garbage", "config"}, config: Configs]
    /\ touched \in BOOLEAN
    /\ Cardinality(saving) <= 1
    /\ saving \subseteq [op: {"create", "edit"}, touched: BOOLEAN, from: SUBSET Configs,
                         met: SUBSET Configs, is: {"sent", "merged", "done"}, config: Configs]
    /\ typings \in 0..MaxTyped /\ saves \in 0..MaxSaves /\ editors \in 0..MaxEditors

(* What a form sends is decided by what it shows: whatever protocols, links *)
(* and texts went through it before, a field that is not on the screen does *)
(* not reach the configuration.  One does: reality, chosen under vless, goes*)
(* out with the other protocols that have TLS.                              *)
ShownDecides ==
    LET hidden == "reality" \in form.filled /\ form.protocol # "vless"
        seen   == [form EXCEPT !.filled = @ \cap ShownFields(form)]
    IN  hidden \/ FormValuesToConfig(form) = FormValuesToConfig(seen)

(* An edit that changes nothing of what is saved, in the form, in the text *)
(* or back and forth between them, leaves the configuration as it was: its *)
(* password too, even one that another operator has set since it was       *)
(* fetched.  It adds only what the form writes unasked, and loses only what*)
(* the form of its protocol does not show.  That holds when the server     *)
(* could read the row and nobody wrote it between the handler's read and   *)
(* its write: it neither stops at the one nor notices the other.           *)
UntouchedSaveKeeps ==
    [][\A r \in saving:
          (/\ r.op = "edit" /\ r.is = "merged" /\ \E q \in saving': q.is = "done"
           /\ ~r.touched /\ r.from = {Mask(saved)} /\ r.met = {saved})
             => /\ saved'.type = saved.type /\ saved'.password = saved.password
                /\ saved.type \in TransportTypes => saved'.transport = saved.transport
                /\ saved'.keys \subseteq saved.keys \cup {"preset"}
                /\ saved.keys \cap ShownFields(Loaded(saved)) \subseteq saved'.keys]_formVars
=============================================================================
