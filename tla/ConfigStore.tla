----------------------------- MODULE ConfigStore -----------------------------
(***************************************************************************)
(* config.json and what runs on it: the handlers of internal/api/ui.go     *)
(* that load the file, change it, save it and apply it, each in its own    *)
(* goroutine and without a lock around the whole; the login, which reads   *)
(* the file; and the end and restart of the process at any moment.         *)
(*                                                                         *)
(* os.WriteFile opens the file and cuts it to length 0, then writes it in  *)
(* one call: between the two the old settings are gone and the new ones    *)
(* are not there yet.  Two handlers that save at the same time write       *)
(* through two descriptors, each from offset 0: what the second leaves of  *)
(* a longer first text stays behind it, and no JSON text may be followed   *)
(* by more.                                                                *)
(***************************************************************************)
EXTENDS Settings

CONSTANTS
  Handlers,    \* goroutines that may serve the settings pages at one time
  StartFiles,  \* files the first start may find
  MaxRequests, \* bound on the requests to the handlers
  MaxFaults    \* bound on the failed saves and ends of the process

ASSUME StartAssumption == StartFiles \subseteq Files

VARIABLES
  file,     \* config.json: one of Files, Empty or Garbled
  up,       \* the process runs
  rt,       \* rtKeyHashes, rtDefDetectors, rtDefWhitelist, rtCORSOrigins
  guards,   \* the registered guards: port -> configuration
  pc,       \* where each handler is
  req,      \* the request it serves
  mine,     \* its copy root of the settings
  next,     \* the proxy it applies next
  issued,   \* the API keys generated so far
  requests, \* requests so far
  faults,   \* failed saves and ends of the process so far
  saved,    \* history: the runtime settings of all saves
  torn,     \* history: a save has ended between the cut and its write
  login     \* history: the hash the last login was compared with

process == <<up, rt, guards>>
handler == <<pc, req, mine, next>>
bounds == <<requests, faults>>
history == <<saved, torn, login>>
vars == <<file, process, handler, issued, bounds, history>>

Runtime(root) == [keys |-> root.keys, defaults |-> root.defaults]

\* The guards RunProxy and then applyRuntimeConfig leave when they start on
\* root: of two proxies with one port the last one decides.
StartGuards(root) ==
  [p \in PortsOf(root) |-> root.proxies[LastWith(root, p)].guard]

\* A file that has been cut, and one with a text that is no JSON.
Empty == [kind |-> "empty"]
Garbled == [kind |-> "garbled"]

\* LoadConfigs returns no error.
Readable == file \notin {Empty, Garbled}

\* RootConfig{}, which comes with the error, has no password.
StoredPassword == IF Readable THEN LoadConfigs(file).password ELSE NoPassword

NoRequest == [op |-> "none"]

Init ==
  /\ file \in StartFiles
  /\ LET root == LoadConfigs(file)
     IN  /\ rt = Runtime(root)
         /\ guards = StartGuards(root)
         /\ mine = [h \in Handlers |-> root]
         /\ issued = root.keys
         /\ saved = {Runtime(root)}
  /\ torn = FALSE /\ login = NoPassword
  /\ up = TRUE
  /\ pc = [h \in Handlers |-> "idle"]
  /\ req = [h \in Handlers |-> NoRequest]
  /\ next = [h \in Handlers |-> 1]
  /\ requests = 0 /\ faults = 0

-----------------------------------------------------------------------------
(* A handler.  It serves a request that a page offered when it was shown;  *)
(* the settings may have changed since.                                    *)

At(h, here, there) == up /\ pc[h] = here /\ pc' = [pc EXCEPT ![h] = there]

Receive(h) ==
  /\ At(h, "idle", "load")
  /\ requests < MaxRequests /\ requests' = requests + 1
  /\ Readable
  /\ \E r \in Requests(LoadConfigs(file), issued) :
       /\ req' = [req EXCEPT ![h] = r]
       /\ issued' = IF r.op = "addKey" THEN issued \cup {r.key} ELSE issued
  /\ UNCHANGED <<file, process, mine, next, faults, history>>

\* Fault: the copy of the last request is used again.
Cached(h) == mine[h]

Loaded(h) == LoadConfigs(file)

\* LoadConfigs and the change.  The handlers of the forms and of the keys
\* answer with an error when the file cannot be read.
Load(h) ==
  /\ Readable /\ ~Refused(req[h], LoadConfigs(file))
  /\ At(h, "load", "open")
  /\ mine' = [mine EXCEPT ![h] = Effect(req[h], Loaded(h))]
  /\ UNCHANGED <<file, process, req, next, issued, bounds, history>>

GiveUp(h) ==
  /\ Readable => Refused(req[h], LoadConfigs(file))
  /\ At(h, "load", "idle")
  /\ UNCHANGED <<file, process, req, mine, next, issued, bounds, history>>

\* Fault: O_TRUNC is missing.
KeepText == file

Cut == Empty

\* os.WriteFile: the open, ...
Truncate(h) ==
  /\ At(h, "open", "write")
  /\ file' = Cut
  /\ UNCHANGED <<process, req, mine, next, issued, bounds, history>>

TextOf(root) == [kind |-> "root", root |-> root]

\* ... and the write.  Another text, that of a handler which has written
\* meanwhile, may be the longer one.
Write(h) ==
  /\ At(h, "write", IF Applies(req[h]) THEN "apply" ELSE "idle")
  /\ \/ file' = TextOf(mine[h])
     \/ file \notin {Empty, TextOf(mine[h])} /\ file' = Garbled
  /\ saved' = saved \cup {Runtime(mine[h])}
  /\ UNCHANGED <<process, req, mine, next, issued, bounds, torn, login>>

\* Either can fail, the write after a part of the text too; the handler
\* answers "Save error" and applies nothing.
FailToSave(h) ==
  /\ \/ At(h, "open", "idle") /\ UNCHANGED <<file, torn>>
     \/ At(h, "write", "idle") /\ file' \in {file, Garbled} /\ torn' = TRUE
  /\ faults < MaxFaults /\ faults' = faults + 1
  /\ UNCHANGED <<process, req, mine, next, issued, requests, saved, login>>

\* Fault: the defaults are left as they were.
KeysOnly(h) == [rt EXCEPT !.keys = mine[h].keys]

NewRuntime(h) == Runtime(mine[h])

\* applyRuntimeConfig: the section under rtMu, ...
ApplyRuntime(h) ==
  /\ At(h, "apply", "guards")
  /\ rt' = NewRuntime(h)
  /\ next' = [next EXCEPT ![h] = 1]
  /\ UNCHANGED <<file, up, guards, req, mine, issued, bounds, history>>

\* Fault: the guard of the first proxy is the only one updated.
FirstProxyOnly(h) == {1}

ProxiesToApply(h) == DOMAIN mine[h].proxies

\* ... and one UpdateGuardConfig per proxy, which finds the guard by its
\* port, or none.
ApplyGuard(h) ==
  /\ At(h, "guards", "guards")
  /\ next[h] \in ProxiesToApply(h)
  /\ LET p == mine[h].proxies[next[h]]
     IN  guards' = IF p.port \in DOMAIN guards
                   THEN [guards EXCEPT ![p.port] = p.guard]
                   ELSE guards
  /\ next' = [next EXCEPT ![h] = @ + 1]
  /\ UNCHANGED <<file, up, rt, req, mine, issued, bounds, history>>

\* "Saved - settings active immediately."
Answer(h) ==
  /\ At(h, "guards", "saved")
  /\ next[h] \notin ProxiesToApply(h)
  /\ UNCHANGED <<file, process, req, mine, next, issued, bounds, history>>

Done(h) ==
  /\ At(h, "saved", "idle")
  /\ UNCHANGED <<file, process, req, mine, next, issued, bounds, history>>

-----------------------------------------------------------------------------
(* The login: uiPasswordHash drops the error of LoadConfigs.  It loads the *)
(* file on its own, whatever the handlers are doing.                       *)

Login ==
  /\ up
  /\ login' = StoredPassword
  /\ UNCHANGED <<file, process, handler, issued, bounds, saved, torn>>

-----------------------------------------------------------------------------
(* The process ends, and its handlers with it; main starts only on a file  *)
(* that it can read.                                                       *)

Saving == \E h \in Handlers : pc[h] = "write"

Crash ==
  /\ up /\ faults < MaxFaults
  /\ up' = FALSE /\ faults' = faults + 1
  /\ pc' = [h \in Handlers |-> "idle"]
  /\ torn' = (torn \/ Saving)
  /\ UNCHANGED <<file, rt, guards, req, mine, next, issued, requests, saved, login>>

Restart ==
  /\ ~up /\ Readable
  /\ up' = TRUE
  /\ rt' = Runtime(LoadConfigs(file))
  /\ guards' = StartGuards(LoadConfigs(file))
  /\ UNCHANGED <<file, handler, issued, bounds, history>>

-----------------------------------------------------------------------------
Serve(h) ==
  \/ Receive(h) \/ Load(h) \/ GiveUp(h) \/ Truncate(h) \/ Write(h) \/ FailToSave(h)
  \/ ApplyRuntime(h) \/ ApplyGuard(h) \/ Answer(h) \/ Done(h)

Next ==
  \/ \E h \in Handlers : Serve(h)
  \/ Login
  \/ Crash \/ Restart

Spec == Init /\ [][Next]_vars

-----------------------------------------------------------------------------
(***************************************************************************)
(* Properties                                                              *)
(***************************************************************************)

\* The types of the variables.
TypeOK ==
  /\ file \in Files \cup {Empty, Garbled}
  /\ up \in BOOLEAN /\ torn \in BOOLEAN
  /\ login \in Passwords \cup {NoPassword}
  /\ rt \in [keys : SUBSET Keys, defaults : Defaults]
  /\ DOMAIN guards \subseteq Ports /\ \A p \in DOMAIN guards : guards[p] \in GuardConfigs
  /\ pc \in [Handlers -> {"idle", "load", "open", "write", "apply", "guards", "saved"}]
  /\ mine \in [Handlers -> Root]
  /\ next \in [Handlers -> Nat \ {0}]
  /\ issued \subseteq Keys
  /\ \A h \in Handlers : pc[h] # "idle" => req[h] # NoRequest

\* With one handler at a time the file cannot be read while it is being
\* saved, and once a save has ended between the cut and its write: then for
\* good, and in no other case.  A failed open and the end of the process
\* outside of a write cost nothing.
FileReadable == Saving \/ (Readable <=> ~torn)

\* When a handler says so, the settings are active: the keys and defaults
\* are those of the file, and every running proxy that has an entry in the
\* file has the detectors and the whitelist of (the last of) its entries.
SettingsActive ==
  \A h \in Handlers : pc[h] = "saved" =>
    /\ Readable
    /\ LET root == LoadConfigs(file)
       IN  /\ rt = Runtime(root)
           /\ \A p \in DOMAIN guards \cap PortsOf(root) :
                guards[p] = root.proxies[LastWith(root, p)].guard

\* The settings: those that are being written, or those that a load finds.
Current ==
  IF Saving THEN {mine[h] : h \in {g \in Handlers : pc[g] = "write"}}
  ELSE IF Readable THEN {LoadConfigs(file)} ELSE {}

\* One handler at a time takes the settings from one state to the next as
\* SettingsContract says: a request changes what it finds and nothing else,
\* a save that does not end well loses all settings for good, nothing else
\* loses or changes any, and a login is compared with the password in the
\* settings except during a save and after such a loss.
Contract == INSTANCE SettingsContract WITH settings <- Current, saving <- Saving

ImplementsContract == Contract!Spec

\* However handlers race, the keys and the defaults in force are those of
\* one save, never keys of one and defaults of another, and no key is in
\* force that was not generated.  (A deleted key may come back.)
RuntimeWasSaved == rt \in saved /\ rt.keys \subseteq issued

\* The README: "Choose detectors and whitelists per proxy".  So saving the
\* form of one proxy, or of the system, leaves the other proxies' choices.
FormsIndependent ==
  [][\A h \in Handlers : Load(h) /\ req[h].op = "save" =>
       LET before == LoadConfigs(file).proxies
           after == mine'[h].proxies
       IN  \A i \in DOMAIN before \cap DOMAIN after :
             \/ req[h].form.kind = "proxy" /\ req[h].form.idx = i
             \/ after[i].guard = before[i].guard]_vars

=============================================================================
