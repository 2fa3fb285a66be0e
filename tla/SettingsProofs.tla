---------------------------- MODULE SettingsProofs ----------------------------
(***************************************************************************)
(* What the proofs about Lifecycle and ConfigStore need of Settings: the    *)
(* handlers keep the types, and LastWith finds the last proxy of a port.    *)
(***************************************************************************)
EXTENDS Settings, WellFoundedInduction, TLAPS

\* The operations a page offers.
Ops == {"save", "addProxy", "deleteProxy", "addKey", "deleteKey", "password"}

\* A request that some page offered, at whatever time.
PageRequest(q) ==
  /\ q.op \in Ops
  /\ q.op = "save" =>
       /\ q.form.kind \in {"system", "proxy"}
       /\ q.form.kind = "system" => q.form.api \in ApiPorts \cup {0} /\ q.form.defaults \in Defaults
       /\ q.form.kind = "proxy" => q.form.port \in Ports /\ q.form.guard \in GuardConfigs
  /\ q.op = "addKey" => q.key \in Keys
  /\ q.op = "password" => q.hash \in Passwords

LEMMA PageOffers ==
  ASSUME NEW root \in Root, NEW issued, NEW q \in Requests(root, issued)
  PROVE  PageRequest(q)
<1>1. root.api \in ApiPorts \cup {0}
  BY DEF Root
<1> QED BY <1>1 DEF Requests, SystemForm, ProxyForm, PageRequest, Ops

\* The handlers make settings of settings, and leave no list empty that has a
\* proxy.
LEMMA EffectTyped ==
  ASSUME NEW root \in Root, NEW req, PageRequest(req), ~Refused(req, root)
  PROVE  /\ Effect(req, root) \in Root
         /\ root.proxies # <<>> => Effect(req, root).proxies # <<>>
<1> USE DEF Root
<1>1. CASE req.op = "save"
  <2>1. /\ req.form.kind \in {"system", "proxy"}
        /\ req.form.kind = "system" => req.form.api \in ApiPorts \cup {0} /\ req.form.defaults \in Defaults
        /\ req.form.kind = "proxy" => req.form.port \in Ports /\ req.form.guard \in GuardConfigs
    BY <1>1 DEF PageRequest
  <2> DEFINE turned == [i \in DOMAIN root.proxies |-> FromForm(req.form, i, root.proxies[i])]
  <2>2. \A i \in DOMAIN root.proxies : FromForm(req.form, i, root.proxies[i]) \in Proxy
    <3> TAKE i \in DOMAIN root.proxies
    <3>1. root.proxies[i] \in Proxy
      OBVIOUS
    <3>2. CASE req.form.kind = "proxy" /\ req.form.idx = i
      BY <2>1, <3>2 DEF FromForm, Proxy
    <3>3. CASE ~(req.form.kind = "proxy" /\ req.form.idx = i)
      BY <3>1, <3>3, GuardAssumption DEF FromForm, Proxy
    <3> QED BY <3>2, <3>3
  <2>3. turned \in Seq(Proxy) /\ Len(turned) = Len(root.proxies)
    BY <2>2
  <2>4. root.proxies # <<>> => turned # <<>>
    BY <2>3
  <2>5. Effect(req, root) = SaveConfig(root, req.form)
    BY <1>1 DEF Effect
  <2> HIDE DEF turned
  <2>6. /\ SaveConfig(root, req.form).proxies = turned
        /\ SaveConfig(root, req.form) \in Root
    BY <2>1, <2>3, DefaultsAssumption DEF SaveConfig, turned
  <2> QED BY <2>4, <2>5, <2>6
<1>2. CASE req.op = "addProxy"
  <2>1. Effect(req, root) = [root EXCEPT !.proxies = Append(@, DefaultConfig)]
    BY <1>2 DEF Effect, AddProxy
  <2>2. DefaultConfig \in Proxy
    BY GuardAssumption DEF DefaultConfig, Proxy
  <2>3. Append(root.proxies, DefaultConfig) \in Seq(Proxy)
    BY <2>2
  <2>4. Append(root.proxies, DefaultConfig) # <<>>
    OBVIOUS
  <2> QED BY <2>1, <2>3, <2>4
<1>3. CASE req.op = "deleteProxy"
  <2>1. req.idx \in 1 .. Len(root.proxies) /\ Len(root.proxies) > 1
    BY <1>3 DEF Refused, MayDelete
  <2> DEFINE left == RemoveAt(root.proxies, req.idx)
  <2>2. left \in Seq(Proxy) /\ Len(left) = Len(root.proxies) - 1
    <3> DEFINE i == req.idx  before == SubSeq(root.proxies, 1, i - 1)
               after == SubSeq(root.proxies, i + 1, Len(root.proxies))
    <3>1. before \in Seq(Proxy) /\ Len(before) = i - 1
      BY <2>1
    <3>2. after \in Seq(Proxy) /\ Len(after) = Len(root.proxies) - i
      BY <2>1
    <3>3. left = before \o after
      BY DEF RemoveAt
    <3> HIDE DEF before, after, left
    <3> QED BY <2>1, <3>1, <3>2, <3>3
  <2>3. left # <<>>
    BY <2>1, <2>2
  <2> HIDE DEF left
  <2>4. Effect(req, root) = [root EXCEPT !.proxies = left]
    BY <1>3 DEF Effect, DeleteProxy, left
  <2> QED BY <2>2, <2>3, <2>4
<1>4. CASE req.op = "addKey"
  BY <1>4 DEF Effect, AddAPIKey, PageRequest
<1>5. CASE req.op = "deleteKey"
  BY <1>5 DEF Effect, DeleteAPIKey, PageRequest
<1>6. CASE req.op = "password"
  BY <1>6 DEF Effect, ChangePassword, PageRequest
<1> QED BY <1>1, <1>2, <1>3, <1>4, <1>5, <1>6 DEF PageRequest, Ops

-----------------------------------------------------------------------------
\* The last proxy with a port is a proxy, and none after it has that port.
LEMMA LastWithPort ==
  ASSUME NEW root \in Root, NEW p \in PortsOf(root)
  PROVE  /\ LastWith(root, p) \in DOMAIN root.proxies
         /\ root.proxies[LastWith(root, p)].port = p
         /\ \A j \in DOMAIN root.proxies : LastWith(root, p) < j => root.proxies[j].port # p
<1> DEFINE S == {i \in DOMAIN root.proxies : root.proxies[i].port = p}
           n == Len(root.proxies)
<1>1. n \in Nat /\ DOMAIN root.proxies = 1 .. n
  BY DEF Root
<1>2. S # {} /\ S \subseteq 1 .. n
  BY <1>1 DEF PortsOf
<1>3. \A x \in S : n - x \in Nat
  BY <1>1, <1>2
<1>4. \E m \in S : \A x \in S : m >= x
  <2> DEFINE T == {n - x : x \in S}
  <2>1. T \subseteq Nat /\ T # {}
    BY <1>2, <1>3
  <2>2. PICK d \in T : \A e \in T : <<e, d>> \notin OpToRel(<, Nat)
    BY <2>1, NatLessThanWellFounded, WFMin
  <2>3. \A e \in T : ~(e < d)
    BY <2>1, <2>2 DEF OpToRel
  <2>4. PICK m \in S : d = n - m
    OBVIOUS
  <2>5. \A x \in S : ~(n - x < n - m)
    BY <2>3, <2>4
  <2> QED BY <1>1, <1>2, <2>5
<1>5. LastWith(root, p) = Max(S)
  BY DEF LastWith
<1>6. Max(S) \in S /\ \A x \in S : Max(S) >= x
  BY <1>4 DEF Max
<1>7. \A j \in DOMAIN root.proxies : Max(S) < j => j \notin S
  <2> DEFINE m == Max(S)
  <2> SUFFICES ASSUME NEW j \in S PROVE ~(m < j)
    OBVIOUS
  <2>1. m \in 1 .. n /\ j \in 1 .. n /\ m >= j
    BY <1>2, <1>6
  <2> HIDE DEF m, S
  <2> QED BY <1>1, <2>1
<1>8. Max(S) \in DOMAIN root.proxies /\ root.proxies[Max(S)].port = p
  BY <1>6
<1> QED BY <1>5, <1>7, <1>8

-----------------------------------------------------------------------------
(* What is loaded, and what a request makes of it, has a proxy at least. *)

\* The settings a handler works on.
LoadedRoot == {root \in Root : root.proxies # <<>>}

LEMMA LoadsRoot == ASSUME NEW f \in Files PROVE LoadConfigs(f) \in LoadedRoot
<1>1. DefaultConfig \in Proxy
  BY GuardAssumption DEF DefaultConfig, Proxy
<1>2. ASSUME NEW s \in Seq(Proxy) PROVE RootOf(s) \in LoadedRoot
  <2> DEFINE list == IF s = <<>> THEN <<DefaultConfig>> ELSE s
  <2>1. <<DefaultConfig>> \in Seq(Proxy) /\ <<DefaultConfig>> # <<>>
    BY <1>1
  <2>2. list \in Seq(Proxy) /\ list # <<>>
    BY <2>1
  <2>3. RootOf(s) = [api |-> 0, defaults |-> NoDefaults, keys |-> {},
                     password |-> NoPassword, proxies |-> list]
    BY DEF RootOf
  <2> HIDE DEF list
  <2> QED BY <2>2, <2>3, DefaultsAssumption DEF LoadedRoot, Root
<1>3. CASE f.kind = "missing"
  <2>1. LoadConfigs(f) = RootOf(<<>>)
    BY <1>3 DEF LoadConfigs
  <2>2. <<>> \in Seq(Proxy)
    OBVIOUS
  <2> QED BY <1>2, <2>1, <2>2
<1>4. CASE f.kind = "legacy"
  <2>1. LoadConfigs(f) = RootOf(f.proxies)
    BY <1>4 DEF LoadConfigs
  <2>2. f.proxies \in Seq(Proxy)
    BY <1>4 DEF Files
  <2> QED BY <1>2, <2>1, <2>2
<1>5. CASE f.kind = "root"
  <2>1. f.root \in Root
    BY <1>5 DEF Files
  <2>2. /\ RootOf(f.root.proxies).proxies \in Seq(Proxy)
        /\ RootOf(f.root.proxies).proxies # <<>>
    BY <1>2, <2>1 DEF Root, LoadedRoot
  <2>3. LoadConfigs(f) = [f.root EXCEPT !.proxies = RootOf(@).proxies]
    BY <1>5 DEF LoadConfigs
  <2> QED BY <2>1, <2>2, <2>3 DEF LoadedRoot, Root
<1> QED BY <1>3, <1>4, <1>5 DEF Files

LEMMA ReloadsRoot ==
  ASSUME NEW root \in LoadedRoot
  PROVE  LoadConfigs([kind |-> "root", root |-> root]) = root
BY DEF LoadConfigs, LoadedRoot, Root, RootOf

LEMMA EffectLoaded ==
  ASSUME NEW root \in LoadedRoot, NEW req \in Requests(root, {}), ~Refused(req, root)
  PROVE  Effect(req, root) \in LoadedRoot
BY EffectTyped, PageOffers DEF LoadedRoot

=============================================================================
