---------------------------- MODULE LifecycleProofs ----------------------------
(***************************************************************************)
(* Theorems about Lifecycle, for any files, ports and proxies, any number   *)
(* of requests and restarts: the types, that a guard has settings of its   *)
(* own port only, and that what the page calls active is active.            *)
(***************************************************************************)
EXTENDS Lifecycle, SettingsProofs

-----------------------------------------------------------------------------
(* The inductive invariant of the three theorems. *)

\* A copy of the settings is a loaded one, and a port in the registry leads
\* to a proxy of that port.
RegistryInv ==
  /\ mine \in LoadedRoot
  /\ \A p \in Ports : registry[p] # 0 =>
       registry[p] \in DOMAIN started /\ started[registry[p]].port = p
  /\ \A i \in DOMAIN started : pc[i] # "new" => registry[started[i].port] # 0

\* Settings are offered before they are applied.
OfferedInv ==
  /\ OwnSettings
  /\ Offers(LoadConfigs(file)) \subseteq offered
  /\ Offers(mine) \subseteq offered

\* A port all of whose proxies were registered in time has the settings of
\* the last proxy with that port that was applied so far.
AppliedInv ==
  /\ apc \in {"loaded", "changed", "saved"} =>
       \A p \in Ports : Sharing(p) # {} /\ Sharing(p) \subseteq ready =>
         \A k \in DOMAIN mine.proxies :
           /\ k < next /\ mine.proxies[k].port = p
           /\ \A j \in DOMAIN mine.proxies : k < j /\ j < next => mine.proxies[j].port # p
           => conf[registry[p]] = mine.proxies[k].guard
  /\ apc = "saved" => \A k \in DOMAIN mine.proxies : k < next

Inv == TypeOK /\ RegistryInv /\ OfferedInv /\ AppliedInv

-----------------------------------------------------------------------------
(* A start: Init, with all but its history, and Restart. *)

\* What main and api.Run begin with.
Fresh ==
  /\ started = LoadConfigs(file).proxies
  /\ pc = [i \in DOMAIN started |-> "new"]
  /\ conf = [i \in DOMAIN started |-> started[i].guard]
  /\ registry = [p \in Ports |-> 0]
  /\ apc \in {"load", "off"}
  /\ mine = LoadConfigs(file) /\ next = 1 /\ ready = {}

\* A start with settings that are offered.
Offering ==
  /\ file \in Files /\ Fresh /\ Offers(LoadConfigs(file)) \subseteq offered
  /\ saves \in Nat /\ starts \in Nat

LEMMA FreshInv == Offering => Inv
<1> SUFFICES ASSUME Offering PROVE Inv
  OBVIOUS
<1> USE DEF Offering
<1>1. LoadConfigs(file) \in LoadedRoot
  BY LoadsRoot
<1>2. started \in Seq(Proxy) /\ mine \in Root
  BY <1>1 DEF Fresh, LoadedRoot, Root
<1>3. \A i \in DOMAIN started : started[i].guard \in GuardConfigs
  <2>1. \A i \in DOMAIN started : started[i] \in Proxy
    BY <1>2
  <2> QED BY <2>1 DEF Proxy
<1>4. TypeOK
  BY <1>2, <1>3 DEF Fresh, TypeOK, Registered
<1>5. RegistryInv
  BY <1>1 DEF Fresh, RegistryInv
<1>6. OwnSettings
  BY DEF Fresh, OwnSettings, Offers
<1>7. OfferedInv
  BY <1>6 DEF Fresh, OfferedInv
<1>8. AppliedInv
  BY DEF Fresh, AppliedInv
<1> QED BY <1>4, <1>5, <1>7, <1>8 DEF Inv

LEMMA InitInv == Init => Inv
<1> SUFFICES ASSUME Init PROVE Inv
  OBVIOUS
<1>1. Offering
  BY StartFilesAssumption DEF Init, Fresh, Offering
<1> QED BY <1>1, FreshInv

LEMMA RestartInv == Inv /\ Restart => Inv'
<1>1. Inv /\ Restart => Offering'
  BY DEF Restart, Fresh, Inv, TypeOK, OfferedInv, Offering
<1> QED BY <1>1, FreshInv, PTL

-----------------------------------------------------------------------------
(* The other steps, one by one. *)

LEMMA RegisterInv ==
  ASSUME Inv, NEW i \in DOMAIN started, RegisterGuard(i)
  PROVE  Inv'
<1> DEFINE q == started[i].port
<1>1. /\ pc[i] = "new" /\ pc' = [pc EXCEPT ![i] = "registered"]
      /\ registry' = [registry EXCEPT ![q] = i]
      /\ UNCHANGED <<file, started, conf, apc, mine, next, ready, offered, saves, starts>>
  BY DEF RegisterGuard, Move, page
<1>2. TypeOK /\ q \in Ports /\ i \in Nat /\ i # 0
  <2>1. started \in Seq(Proxy)
    BY DEF Inv, TypeOK
  <2>2. started[i] \in Proxy /\ i \in Nat /\ i # 0
    BY <2>1
  <2> QED BY <2>2 DEF Inv, Proxy
<1>3. TypeOK'
  BY <1>1, <1>2 DEF TypeOK, Registered
<1>4. RegistryInv'
  BY <1>1, <1>2 DEF Inv, TypeOK, RegistryInv
<1>5. OfferedInv'
  BY <1>1 DEF Inv, OfferedInv, OwnSettings
<1>6. \A p \in Ports : Sharing(p) \subseteq ready => p # q
  BY <1>1, <1>2 DEF Sharing, TypeOK, Registered
<1>7. \A p \in Ports : Sharing(p)' = Sharing(p) /\ (p # q => registry'[p] = registry[p])
  BY <1>1, <1>2 DEF Sharing, TypeOK
<1>8. AppliedInv'
  BY <1>1, <1>6, <1>7 DEF Inv, AppliedInv
<1> QED BY <1>3, <1>4, <1>5, <1>8 DEF Inv

LEMMA ListenInv ==
  ASSUME Inv, NEW i \in DOMAIN started, Listen(i)
  PROVE  Inv'
<1>1. /\ pc[i] = "registered"
      /\ pc' = [pc EXCEPT ![i] = "serving"] \/ pc' = [pc EXCEPT ![i] = "failed"]
      /\ UNCHANGED <<file, started, conf, registry, apc, mine, next, ready, offered, saves, starts>>
  BY DEF Listen, Move, page
<1>2. pc' \in [DOMAIN started -> {"new", "registered", "serving", "failed"}]
  BY <1>1 DEF Inv, TypeOK
<1>3. \A j \in DOMAIN started : pc'[j] = "new" <=> pc[j] = "new"
  BY <1>1 DEF Inv, TypeOK
<1>4. TypeOK'
  BY <1>1, <1>2, <1>3 DEF Inv, TypeOK, Registered
<1>5. RegistryInv' /\ OfferedInv'
  BY <1>1, <1>3 DEF Inv, RegistryInv, OfferedInv, OwnSettings
<1>6. AppliedInv'
  BY <1>1 DEF Inv, AppliedInv, Sharing
<1> QED BY <1>4, <1>5, <1>6 DEF Inv

\* applyRuntimeConfig has not reached any proxy when it begins.
LEMMA BeginInv ==
  ASSUME Inv, NEW root \in LoadedRoot, Begin(root), apc' \in {"loaded", "changed"},
         UNCHANGED proxies, file' \in Files, saves' \in Nat, starts' \in Nat,
         offered \subseteq offered', Offers(root) \subseteq offered',
         Offers(LoadConfigs(file')) \subseteq offered'
  PROVE  Inv'
<1>1. /\ mine' = root /\ next' = 1 /\ ready' = Registered
      /\ UNCHANGED <<started, pc, conf, registry>>
  BY DEF Begin, proxies
<1>2. TypeOK'
  BY <1>1 DEF Inv, TypeOK, LoadedRoot, Registered
<1>3. RegistryInv'
  BY <1>1 DEF Inv, RegistryInv
<1>4. OfferedInv'
  BY <1>1 DEF Inv, OfferedInv, OwnSettings
<1>5. root.proxies \in Seq(Proxy)
  BY DEF LoadedRoot, Root
<1>6. \A k \in DOMAIN root.proxies : ~(k < 1)
  BY <1>5
<1>7. AppliedInv'
  BY <1>1, <1>6 DEF AppliedInv
<1> QED BY <1>2, <1>3, <1>4, <1>7 DEF Inv

LEMMA LoadInv == Inv /\ Load => Inv'
<1> SUFFICES ASSUME Inv, Load PROVE Inv'
  OBVIOUS
<1>1. UNCHANGED <<file, started, pc, conf, registry, offered, saves, starts>>
  BY DEF Load, proxies
<1>2. CASE apc' = "loaded" /\ Begin(LoadConfigs(file))
  BY <1>1, <1>2, LoadsRoot, BeginInv DEF Inv, TypeOK, OfferedInv, proxies
<1>3. CASE apc' = "listen" /\ UNCHANGED <<mine, next, ready>>
  <2>1. TypeOK' /\ RegistryInv' /\ OfferedInv'
    BY <1>1, <1>3 DEF Inv, TypeOK, RegistryInv, OfferedInv, OwnSettings, Registered
  <2> QED BY <1>3, <2>1 DEF Inv, AppliedInv
<1> QED BY <1>2, <1>3 DEF Load

LEMMA RequestInv == Inv /\ Request => Inv'
<1> SUFFICES ASSUME Inv, Request PROVE Inv'
  OBVIOUS
<1> DEFINE now == LoadConfigs(file)
<1>1. now \in LoadedRoot
  BY LoadsRoot DEF Inv, TypeOK
<1>2. PICK req \in Requests(now, {}) :
        /\ ~Refused(req, now)
        /\ file' = [kind |-> "root", root |-> Effect(req, now)]
        /\ offered' = offered \cup Offers(Effect(req, now))
        /\ \/ apc' = "changed" /\ Begin(Effect(req, now))
           \/ apc' = "up" /\ UNCHANGED <<mine, next, ready>>
  BY DEF Request
<1> DEFINE root == Effect(req, now)
<1>3. root \in LoadedRoot
  BY <1>1, <1>2, EffectLoaded
<1>4. LoadConfigs(file') = root
  BY <1>2, <1>3, ReloadsRoot
<1>5. file' \in Files
  BY <1>2, <1>3 DEF Files, LoadedRoot
<1>6. UNCHANGED <<started, pc, conf, registry, starts>> /\ saves' \in Nat
  BY DEF Request, proxies, Inv, TypeOK
<1>7. starts' \in Nat /\ UNCHANGED proxies
  BY <1>6 DEF Inv, TypeOK, proxies
<1> HIDE DEF now, root
<1>8. offered \subseteq offered' /\ Offers(root) \subseteq offered'
  BY <1>2 DEF root
<1>9. CASE apc' = "changed" /\ Begin(Effect(req, now))
  BY <1>3, <1>4, <1>5, <1>6, <1>7, <1>8, <1>9, BeginInv DEF root
<1>10. CASE apc' = "up" /\ UNCHANGED <<mine, next, ready>>
  <2>1. TypeOK'
    BY <1>5, <1>6, <1>7, <1>10 DEF Inv, TypeOK, Registered
  <2>2. RegistryInv'
    BY <1>6, <1>10 DEF Inv, RegistryInv
  <2>3. OfferedInv'
    BY <1>4, <1>6, <1>8, <1>10 DEF Inv, OfferedInv, OwnSettings
  <2> QED BY <1>10, <2>1, <2>2, <2>3 DEF Inv, AppliedInv
<1> QED BY <1>2, <1>9, <1>10

LEMMA UpdateInv == Inv /\ UpdateGuardConfig => Inv'
<1> SUFFICES ASSUME Inv, UpdateGuardConfig PROVE Inv'
  OBVIOUS
<1> DEFINE q == mine.proxies[next].port
           g == mine.proxies[next].guard
<1>1. /\ apc \in {"loaded", "changed"} /\ next \in DOMAIN mine.proxies /\ next' = next + 1
      /\ conf' = [i \in DOMAIN conf |-> IF i = registry[q] THEN g ELSE conf[i]]
      /\ UNCHANGED <<file, started, pc, registry, apc, mine, ready, offered, saves, starts>>
  BY DEF UpdateGuardConfig, ToApply, GuardOf
<1>2. mine.proxies \in Seq(Proxy) /\ q \in Ports /\ g \in GuardConfigs
  <2>1. mine.proxies \in Seq(Proxy)
    BY DEF Inv, TypeOK, Root
  <2>2. mine.proxies[next] \in Proxy
    BY <1>1, <2>1
  <2> QED BY <2>1, <2>2 DEF Proxy
<1>3. DOMAIN conf = DOMAIN started /\ 0 \notin DOMAIN started
  BY DEF Inv, TypeOK
<1> HIDE DEF q, g
<1>4. TypeOK'
  BY <1>1, <1>2 DEF Inv, TypeOK, Registered
<1>5. RegistryInv'
  BY <1>1 DEF Inv, RegistryInv
<1>6. <<q, g>> \in offered
  BY <1>1 DEF q, g, Inv, OfferedInv, Offers
<1>7. \A i \in DOMAIN started : i = registry[q] => started[i].port = q
  BY <1>2, <1>3 DEF Inv, RegistryInv
<1>8. OwnSettings'
  BY <1>1, <1>3, <1>6, <1>7 DEF Inv, OfferedInv, OwnSettings
<1>9. OfferedInv'
  BY <1>1, <1>8 DEF Inv, OfferedInv
<1>10. ASSUME NEW p \in Ports, Sharing(p) # {}, Sharing(p) \subseteq ready,
              NEW k \in DOMAIN mine.proxies, k < next + 1, mine.proxies[k].port = p,
              \A j \in DOMAIN mine.proxies : k < j /\ j < next + 1 => mine.proxies[j].port # p
       PROVE  conf'[registry[p]] = mine.proxies[k].guard
  <2>1. PICK i \in DOMAIN started : started[i].port = p /\ pc[i] # "new"
    BY <1>10 DEF Sharing, Inv, TypeOK, Registered
  <2>2. registry[p] \in DOMAIN started /\ started[registry[p]].port = p
    BY <2>1 DEF Inv, RegistryInv
  <2>3. k \in Nat /\ next \in Nat
    BY <1>1, <1>2
  <2>4. CASE p = q
    <3>1. k = next
      BY <1>1, <1>10, <2>3, <2>4 DEF q
    <3> QED BY <1>1, <1>3, <2>2, <2>4, <3>1 DEF g
  <2>5. CASE p # q
    <3>1. k < next
      BY <1>10, <2>3, <2>5 DEF q
    <3>2. \A j \in DOMAIN mine.proxies : k < j /\ j < next => mine.proxies[j].port # p
      BY <1>2, <1>10, <2>3
    <3>3. conf[registry[p]] = mine.proxies[k].guard
      BY <1>1, <1>10, <3>1, <3>2 DEF Inv, AppliedInv
    <3>4. registry[p] # registry[q]
      BY <1>7, <2>2, <2>5
    <3> QED BY <1>1, <1>3, <2>2, <3>3, <3>4
  <2> QED BY <2>4, <2>5
<1>11. AppliedInv'
  BY <1>1, <1>10 DEF AppliedInv, Sharing
<1> QED BY <1>4, <1>5, <1>9, <1>11 DEF Inv

LEMMA AppliedStepInv == Inv /\ Applied => Inv'
<1> SUFFICES ASSUME Inv, Applied PROVE Inv'
  OBVIOUS
<1>1. /\ next \notin DOMAIN mine.proxies
      /\ apc \in {"loaded", "changed"} /\ apc' \in {"listen", "saved"}
      /\ UNCHANGED <<file, started, pc, conf, registry, mine, next, ready, offered, saves, starts>>
  BY DEF Applied, ToApply, proxies
<1>2. TypeOK' /\ RegistryInv' /\ OfferedInv'
  BY <1>1 DEF Inv, TypeOK, RegistryInv, OfferedInv, OwnSettings, Registered
<1>3. mine.proxies \in Seq(Proxy) /\ next \in Nat \ {0}
  BY DEF Inv, TypeOK, Root
<1>4. \A k \in DOMAIN mine.proxies : k < next
  BY <1>1, <1>3
<1>5. AppliedInv'
  BY <1>1, <1>4 DEF Inv, AppliedInv, Sharing
<1> QED BY <1>2, <1>5 DEF Inv

LEMMA ServeInv == Inv /\ Serve => Inv'
<1> SUFFICES ASSUME Inv, Serve PROVE Inv'
  OBVIOUS
<1>1. /\ apc' \in {"up", "off"}
      /\ UNCHANGED <<file, started, pc, conf, registry, mine, next, ready, offered, saves, starts>>
  BY DEF Serve, proxies
<1>2. TypeOK' /\ RegistryInv' /\ OfferedInv'
  BY <1>1 DEF Inv, TypeOK, RegistryInv, OfferedInv, OwnSettings, Registered
<1> QED BY <1>1, <1>2 DEF Inv, AppliedInv

LEMMA StutterInv == Inv /\ UNCHANGED vars => Inv'
<1> USE DEF vars, proxies, page
<1>1. Inv /\ UNCHANGED vars => TypeOK' /\ RegistryInv'
  BY DEF Inv, TypeOK, RegistryInv, Registered
<1>2. Inv /\ UNCHANGED vars => OfferedInv'
  BY DEF Inv, OfferedInv, OwnSettings
<1>3. Inv /\ UNCHANGED vars => AppliedInv'
  BY DEF Inv, AppliedInv, Sharing
<1> QED BY <1>1, <1>2, <1>3 DEF Inv

LEMMA Invariance == Spec => []Inv
<1>1. Inv /\ [Next]_vars => Inv'
  BY RegisterInv, ListenInv, LoadInv, RequestInv, UpdateInv, AppliedStepInv, ServeInv,
     RestartInv, StutterInv DEF Next, Run
<1> QED BY <1>1, InitInv, PTL DEF Spec

-----------------------------------------------------------------------------
(* The theorems. *)

\* TypeOK: the variables have their types, for any files and any constants.
THEOREM TypeCorrect == Spec => []TypeOK
<1>1. Inv => TypeOK
  BY DEF Inv
<1> QED BY <1>1, Invariance, PTL

\* OwnSettings: UpdateGuardConfig never gives a guard the settings of another
\* port, however proxies were added, deleted and moved since the start.
THEOREM GuardsHaveOwnSettings == Spec => []OwnSettings
<1>1. Inv => OwnSettings
  BY DEF Inv, OfferedInv
<1> QED BY <1>1, Invariance, PTL

\* ActiveWhenSaved: "settings active immediately" is true of every port whose
\* proxies were registered when the settings were applied.
THEOREM SavedIsActive == Spec => []ActiveWhenSaved
<1>1. Inv => ActiveWhenSaved
  <2> SUFFICES ASSUME Inv, apc = "saved", NEW p \in PortsOf(mine),
                      Sharing(p) # {}, Sharing(p) \subseteq ready
               PROVE  /\ conf[registry[p]] = mine.proxies[LastWith(mine, p)].guard
                      /\ \A i \in Sharing(p) : Sharing(p) = {i} => registry[p] = i
    BY DEF ActiveWhenSaved
  <2>1. mine \in LoadedRoot /\ p \in Ports
    <3>1. mine \in LoadedRoot /\ mine.proxies \in Seq(Proxy)
      BY DEF Inv, RegistryInv, LoadedRoot, Root
    <3>2. \A i \in DOMAIN mine.proxies : mine.proxies[i] \in Proxy
      BY <3>1
    <3> QED BY <3>1, <3>2 DEF PortsOf, Proxy
  <2>2. conf[registry[p]] = mine.proxies[LastWith(mine, p)].guard
    BY <2>1, LastWithPort DEF Inv, AppliedInv, LoadedRoot
  <2>3. PICK i \in DOMAIN started : started[i].port = p /\ pc[i] # "new"
    BY DEF Sharing, Inv, TypeOK, Registered
  <2>4. registry[p] \in Sharing(p)
    BY <2>1, <2>3 DEF Inv, RegistryInv, Sharing
  <2> QED BY <2>2, <2>4
<1> QED BY <1>1, Invariance, PTL

=============================================================================
