------------------------------- MODULE Settings -------------------------------
(***************************************************************************)
(* The settings kept in config.json (internal/proxy/config.go) and what    *)
(* each handler of the web interface (internal/api/ui.go) does to them,    *)
(* once it has loaded them.                                                *)
(***************************************************************************)
EXTENDS Integers, Sequences, SequencesExt

CONSTANTS
  Keys,          \* API keys
  Passwords,     \* hashes of the passwords the administrator may choose
  Defaults,      \* default detectors, whitelist and CORS origins, as one
  NoDefaults,    \* all three lists empty
  ApiPorts,      \* values of api_port other than 0
  Ports,         \* ports of proxies
  NewPort,       \* the port of DefaultConfig
  GuardConfigs,  \* detectors, whitelist and dry_run of one proxy, as one
  DefaultGuard   \* empty lists and no dry run

ASSUME DefaultsAssumption == NoDefaults \in Defaults
ASSUME GuardAssumption == NewPort \in Ports /\ DefaultGuard \in GuardConfigs

NoPassword == "none"   \* ui_password_hash is empty

Proxy == [port : Ports, guard : GuardConfigs]

DefaultConfig == [port |-> NewPort, guard |-> DefaultGuard]

\* RootConfig
Root ==
  [api : ApiPorts \cup {0}, defaults : Defaults, keys : SUBSET Keys,
   password : Passwords \cup {NoPassword}, proxies : Seq(Proxy)]

\* The last of the proxies of root with port p.
LastWith(root, p) == Max({i \in DOMAIN root.proxies : root.proxies[i].port = p})

PortsOf(root) == {root.proxies[i].port : i \in DOMAIN root.proxies}

\* config.json may be missing, be an array of proxies as in earlier versions,
\* or be a RootConfig.
Files ==
  [kind : {"missing"}] \cup [kind : {"legacy"}, proxies : Seq(Proxy)]
    \cup [kind : {"root"}, root : Root]

\* RootConfig{Proxies: proxies}, with DefaultConfig if there are none.
RootOf(proxies) ==
  [api |-> 0, defaults |-> NoDefaults, keys |-> {}, password |-> NoPassword,
   proxies |-> IF proxies = <<>> THEN <<DefaultConfig>> ELSE proxies]

LoadConfigs(f) ==
  CASE f.kind = "missing" -> RootOf(<<>>)
    [] f.kind = "legacy" -> RootOf(f.proxies)
    [] f.kind = "root" -> [f.root EXCEPT !.proxies = RootOf(@).proxies]

-----------------------------------------------------------------------------
(* The config page has a form for the system and one for each proxy; each  *)
(* is sent to /ui/config by itself, so handleSaveConfig finds the fields   *)
(* of one form and takes the others for empty.                             *)

SystemForm(api, defaults) == [kind |-> "system", api |-> api, defaults |-> defaults]

ProxyForm(i, port, guard) == [kind |-> "proxy", idx |-> i, port |-> port, guard |-> guard]

\* One turn of the loop over root.Proxies.
FromForm(form, i, p) ==
  IF form.kind = "proxy" /\ form.idx = i
  THEN [port |-> form.port, guard |-> form.guard]
  ELSE [p EXCEPT !.guard = DefaultGuard]

SaveConfig(root, form) ==
  [root EXCEPT !.api = IF form.kind = "system" THEN form.api ELSE 0,
               !.defaults = IF form.kind = "system" THEN form.defaults ELSE NoDefaults,
               !.proxies = [i \in DOMAIN @ |-> FromForm(form, i, @[i])]]

\* Fault: an empty Config is added.
AddEmpty(root) == [root EXCEPT !.proxies = Append(@, [port |-> 0, guard |-> DefaultGuard])]

AddProxy(root) == [root EXCEPT !.proxies = Append(@, DefaultConfig)]

\* The index is checked, and the last proxy stays.
MayDelete(root, i) == i \in DOMAIN root.proxies /\ Len(root.proxies) > 1

DeleteProxy(root, i) == [root EXCEPT !.proxies = RemoveAt(@, i)]

AddAPIKey(root, k) == [root EXCEPT !.keys = @ \cup {k}]

DeleteAPIKey(root, k) == [root EXCEPT !.keys = @ \ {k}]

\* Fault: the password itself is stored, not its hash.
StorePlain(root, pw) == [root EXCEPT !.password = <<pw>>]

ChangePassword(root, pw) == [root EXCEPT !.password = pw]

-----------------------------------------------------------------------------
(* Requests to the handlers, as a page that shows root offers them. *)

Requests(root, issued) ==
       {[op |-> "save", form |-> SystemForm(root.api, d)] : d \in Defaults}
  \cup {[op |-> "save", form |-> ProxyForm(i, p, g)] :
          i \in DOMAIN root.proxies, p \in Ports, g \in GuardConfigs}
  \cup {[op |-> "addProxy"]}
  \cup {[op |-> "deleteProxy", idx |-> i] :
          i \in {j \in DOMAIN root.proxies : Len(root.proxies) > 1}}
  \cup {[op |-> "addKey", key |-> k] : k \in Keys \ issued}
  \cup {[op |-> "deleteKey", key |-> k] : k \in root.keys}
  \cup {[op |-> "password", hash |-> pw] : pw \in Passwords}

Effect(req, root) ==
  CASE req.op = "save" -> SaveConfig(root, req.form)
    [] req.op = "addProxy" -> AddProxy(root)
    [] req.op = "deleteProxy" -> DeleteProxy(root, req.idx)
    [] req.op = "addKey" -> AddAPIKey(root, req.key)
    [] req.op = "deleteKey" -> DeleteAPIKey(root, req.key)
    [] req.op = "password" -> ChangePassword(root, req.hash)

\* Handlers that return before saving.
Refused(req, root) == req.op = "deleteProxy" /\ ~MayDelete(root, req.idx)

\* Handlers that call applyRuntimeConfig after saving.
Applies(req) == req.op \in {"save", "addKey", "deleteKey"}

=============================================================================
