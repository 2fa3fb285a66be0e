------------------------------- MODULE Lifecycle -------------------------------
(***************************************************************************)
(* The start of the process (main.go, RunProxy and the guard registry of    *)
(* internal/proxy/server.go, Run of internal/api/server.go) against the     *)
(* settings page.  main loads config.json and starts a goroutine for each  *)
(* proxy of its copy; each builds a guard, registers it by its port and     *)
(* serves the port, if it is free; the API's goroutine loads the file       *)
(* again, applies it to the guards it finds and serves the page, whose      *)
(* requests rewrite the file and update the guards, port by port.  What a  *)
(* save does to the file, and two saves to each other, is the matter of     *)
(* ConfigStore: here the administrator sends one request at a time.         *)
(***************************************************************************)
EXTENDS Settings

CONSTANTS
  StartFiles,  \* files the first start may find
  Taken,       \* ports another program serves
  MaxSaves,    \* bound on the requests to the page
  MaxStarts    \* bound on the starts of the process

ASSUME StartFilesAssumption == StartFiles \subseteq Files
ASSUME MaxAssumption == MaxSaves \in Nat /\ MaxStarts \in Nat

VARIABLES
  file,      \* config.json
  started,   \* root.Proxies of main
  pc,        \* where the goroutine of each of them is in RunProxy
  conf,      \* the configuration of its guard, and, before there is one, of cfg
  registry,  \* guards: the proxy whose guard has the port; 0 is nil
  apc,       \* where the API's goroutine is, or the handler of the page
  mine,      \* the copy of the settings it applies
  next,      \* the proxy it applies next
  ready,     \* history: the proxies that were registered when it began to
  offered,   \* history: the pairs of port and configuration of all files
  saves,     \* requests to the page so far
  starts     \* starts of the process so far

proxies == <<started, pc, conf, registry>>
page == <<apc, mine, next, ready>>
vars == <<file, proxies, page, offered, saves, starts>>

Offers(root) == {<<root.proxies[i].port, root.proxies[i].guard>> : i \in DOMAIN root.proxies}

\* main, on the settings it has loaded; the API is not started on port 0,
\* which a flag or the environment can overrule.
Init ==
  /\ file \in StartFiles
  /\ started = LoadConfigs(file).proxies
  /\ pc = [i \in DOMAIN started |-> "new"]
  /\ conf = [i \in DOMAIN started |-> started[i].guard]
  /\ registry = [p \in Ports |-> 0]
  /\ apc \in {"load", "off"}
  /\ mine = LoadConfigs(file) /\ next = 1 /\ ready = {}
  /\ offered = Offers(LoadConfigs(file))
  /\ saves = 0 /\ starts = 1

\* The process ends and is started again.
Restart ==
  /\ starts < MaxStarts /\ starts' = starts + 1
  /\ started' = LoadConfigs(file).proxies
  /\ pc' = [i \in DOMAIN started' |-> "new"]
  /\ conf' = [i \in DOMAIN started' |-> started'[i].guard]
  /\ registry' = [p \in Ports |-> 0]
  /\ apc' \in {"load", "off"}
  /\ mine' = LoadConfigs(file) /\ next' = 1 /\ ready' = {}
  /\ UNCHANGED <<file, offered, saves>>

-----------------------------------------------------------------------------
(* RunProxy *)

Move(i, here, there) == pc[i] = here /\ pc' = [pc EXCEPT ![i] = there]

\* NewGuard and RegisterGuard, under guardsMu.
RegisterGuard(i) ==
  /\ Move(i, "new", "registered")
  /\ registry' = [registry EXCEPT ![started[i].port] = i]
  /\ UNCHANGED <<file, started, conf, page, offered, saves, starts>>

\* Fault: all proxies listen on one address.
OneListener(p) == p \in Taken \/ \E j \in DOMAIN started : pc[j] = "serving"

Occupied(p) ==
  p \in Taken \/ \E j \in DOMAIN started : pc[j] = "serving" /\ started[j].port = p

\* ListenAndServe returns at once, and RunProxy with it, when the port is
\* occupied; the guard stays registered.
Listen(i) ==
  /\ \/ ~Occupied(started[i].port) /\ Move(i, "registered", "serving")
     \/ Occupied(started[i].port) /\ Move(i, "registered", "failed")
  /\ UNCHANGED <<file, started, conf, registry, page, offered, saves, starts>>

-----------------------------------------------------------------------------
(* api.Run, and the handlers of the page once it listens *)

Registered == {i \in DOMAIN started : pc[i] # "new"}

\* applyRuntimeConfig(root) begins.
Begin(root) == mine' = root /\ next' = 1 /\ ready' = Registered

\* An error of LoadConfigs is passed over.
Load ==
  /\ \/ apc = "load" /\ apc' = "loaded" /\ Begin(LoadConfigs(file))
     \/ apc = "load" /\ apc' = "listen" /\ UNCHANGED <<mine, next, ready>>
  /\ UNCHANGED <<file, proxies, offered, saves, starts>>

\* A request of the page: load, change and save, as in Settings.
Request ==
  /\ apc \in {"up", "saved"} /\ saves < MaxSaves /\ saves' = saves + 1
  /\ \E req \in Requests(LoadConfigs(file), {}) :
       LET root == Effect(req, LoadConfigs(file))
       IN  /\ ~Refused(req, LoadConfigs(file))
           /\ file' = [kind |-> "root", root |-> root]
           /\ offered' = offered \cup Offers(root)
           /\ \/ Applies(req) /\ apc' = "changed" /\ Begin(root)
              \/ ~Applies(req) /\ apc' = "up" /\ UNCHANGED <<mine, next, ready>>
  /\ UNCHANGED <<proxies, starts>>

\* Fault: the guard is looked up by the place of the proxy in the file.
GuardAt(k) == IF k \in DOMAIN started THEN k ELSE 0

GuardOf(k) == registry[mine.proxies[k].port]

\* Fault: the last proxy is left out.
AllButLast == {i \in DOMAIN mine.proxies : i + 1 \in DOMAIN mine.proxies}

ToApply == DOMAIN mine.proxies

\* UpdateGuardConfig for the next proxy.
UpdateGuardConfig ==
  /\ apc \in {"loaded", "changed"} /\ next \in ToApply /\ next' = next + 1
  /\ conf' = [i \in DOMAIN conf |->
                IF i = GuardOf(next) THEN mine.proxies[next].guard ELSE conf[i]]
  /\ UNCHANGED <<file, started, pc, registry, apc, mine, ready, offered, saves, starts>>

\* The page says "Saved - settings active immediately."
Applied ==
  /\ next \notin ToApply
  /\ \/ apc = "loaded" /\ apc' = "listen"
     \/ apc = "changed" /\ apc' = "saved"
  /\ UNCHANGED <<file, proxies, mine, next, ready, offered, saves, starts>>

\* ListenAndServe of the API.
Serve ==
  /\ apc = "listen" /\ apc' \in {"up", "off"}
  /\ UNCHANGED <<file, proxies, mine, next, ready, offered, saves, starts>>

Run(i) == RegisterGuard(i) \/ Listen(i)

Next ==
  \/ \E i \in DOMAIN started : Run(i)
  \/ Load \/ Request \/ UpdateGuardConfig \/ Applied \/ Serve
  \/ Restart

Spec == Init /\ [][Next]_vars

\* Goroutines are scheduled; nothing in RunProxy waits before it serves.
FairSpec == Spec /\ WF_vars(\E i \in DOMAIN started : Run(i))

-----------------------------------------------------------------------------
(***************************************************************************)
(* Properties                                                              *)
(***************************************************************************)

\* The types of the variables.
TypeOK ==
  /\ file \in Files /\ mine \in Root
  /\ started \in Seq(Proxy)
  /\ pc \in [DOMAIN started -> {"new", "registered", "serving", "failed"}]
  /\ conf \in [DOMAIN started -> GuardConfigs]
  /\ registry \in [Ports -> Nat]
  /\ apc \in {"load", "loaded", "listen", "up", "changed", "saved", "off"}
  /\ next \in Nat \ {0} /\ ready \subseteq Registered
  /\ saves \in Nat /\ starts \in Nat

\* Whatever was added, deleted or moved to another port since the start, no
\* guard ever has detectors and whitelist that were meant for another port.
OwnSettings == \A i \in DOMAIN started : <<started[i].port, conf[i]>> \in offered

Sharing(p) == {i \in DOMAIN started : started[i].port = p}

\* When the page says so, the settings are active on every port in the file
\* whose proxies were all registered when the save was applied: the guard
\* found under the port has (the last of) its settings, and it is the guard
\* of the proxy that serves the port unless two proxies share it.
ActiveWhenSaved ==
  apc = "saved" =>
    \A p \in PortsOf(mine) :
      Sharing(p) # {} /\ Sharing(p) \subseteq ready =>
        /\ conf[registry[p]] = mine.proxies[LastWith(mine, p)].guard
        /\ \A i \in Sharing(p) : Sharing(p) = {i} => registry[p] = i

\* Every free port of the file that a start has read is eventually served,
\* and goes on being served, also when several proxies want it.
EveryPortServed ==
  <>[](\A i \in DOMAIN started :
         started[i].port \notin Taken =>
           \E j \in Sharing(started[i].port) : pc[j] = "serving")

=============================================================================
