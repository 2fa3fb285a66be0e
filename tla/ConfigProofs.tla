----------------------------- MODULE ConfigProofs -----------------------------
(***************************************************************************)
(* Theorems about ConfigStore for any number of requests, crashes and failed *)
(* saves, from any file the first start may find.  For any number of        *)
(* handlers: the types, and that the runtime settings are those of one save *)
(* and no key is in force that was not generated, however the handlers      *)
(* race.  For one handler at a time: when the file can be read, that        *)
(* settings called active are, and that the store implements               *)
(* SettingsContract.                                                       *)
(***************************************************************************)
EXTENDS ConfigStore, SettingsProofs

-----------------------------------------------------------------------------
(* The types. *)

\* Every handler serves a request of some page, and its copy has a proxy.
RequestsOfPages ==
  /\ DOMAIN req = Handlers /\ faults \in Nat
  /\ \A h \in Handlers : pc[h] # "idle" => PageRequest(req[h])
  /\ \A h \in Handlers : mine[h] \in LoadedRoot

TypeInv == TypeOK /\ RequestsOfPages

LEMMA RuntimeTyped ==
  ASSUME NEW root \in Root PROVE Runtime(root) \in [keys : SUBSET Keys, defaults : Defaults]
BY DEF Runtime, Root

LEMMA ProxyTyped ==
  ASSUME NEW root \in Root, NEW i \in DOMAIN root.proxies
  PROVE  root.proxies[i].port \in Ports /\ root.proxies[i].guard \in GuardConfigs
<1>1. root.proxies \in Seq(Proxy)
  BY DEF Root
<1>2. root.proxies[i] \in Proxy
  BY <1>1
<1> QED BY <1>2 DEF Proxy

LEMMA StartGuardsTyped ==
  ASSUME NEW root \in Root
  PROVE  /\ DOMAIN StartGuards(root) \subseteq Ports
         /\ \A p \in DOMAIN StartGuards(root) : StartGuards(root)[p] \in GuardConfigs
<1>1. DOMAIN StartGuards(root) = PortsOf(root)
  BY DEF StartGuards
<1>2. PortsOf(root) \subseteq Ports
  BY ProxyTyped DEF PortsOf
<1>3. ASSUME NEW p \in PortsOf(root) PROVE StartGuards(root)[p] \in GuardConfigs
  <2>1. LastWith(root, p) \in DOMAIN root.proxies
    BY LastWithPort
  <2> QED BY <1>3, <2>1, ProxyTyped DEF StartGuards
<1> QED BY <1>1, <1>2, <1>3

\* What a load finds.
LEMMA FileLoads ==
  ASSUME TypeInv, Readable
  PROVE  /\ LoadConfigs(file) \in LoadedRoot
         /\ LoadConfigs(file) \in Root
<1>1. file \in Files
  BY DEF TypeInv, TypeOK, Readable
<1> QED BY <1>1, LoadsRoot DEF LoadedRoot

\* A text of settings is a file, and reads as those settings.
LEMMA TextReads ==
  ASSUME NEW root \in LoadedRoot
  PROVE  /\ TextOf(root) \in Files
         /\ TextOf(root) \notin {Empty, Garbled}
         /\ LoadConfigs(TextOf(root)) = root
<1>1. LoadConfigs(TextOf(root)) = root
  BY ReloadsRoot DEF TextOf
<1>2. TextOf(root).kind = "root" /\ Empty.kind = "empty" /\ Garbled.kind = "garbled"
  BY DEF TextOf, Empty, Garbled
<1>3. root \in Root
  BY DEF LoadedRoot
<1>4. TextOf(root) \in Files
  BY <1>3 DEF TextOf, Files
<1>5. TextOf(root) # Empty /\ TextOf(root) # Garbled
  BY <1>2
<1> QED BY <1>1, <1>4, <1>5

\* A file of the first start is neither of the two.
LEMMA FilesRead == ASSUME NEW f \in Files PROVE f \notin {Empty, Garbled}
<1>1. f.kind \in {"missing", "legacy", "root"}
  BY DEF Files
<1>2. Empty.kind = "empty" /\ Garbled.kind = "garbled"
  BY DEF Empty, Garbled
<1> QED BY <1>1, <1>2

LEMMA InitTypeInv == Init => TypeInv
<1> SUFFICES ASSUME Init PROVE TypeInv
  OBVIOUS
<1> DEFINE root == LoadConfigs(file)
<1>1. /\ file \in StartFiles
      /\ rt = Runtime(root)
      /\ guards = StartGuards(root)
      /\ mine = [h \in Handlers |-> root]
      /\ issued = root.keys
  BY DEF Init
<1>2. file \in Files
  BY <1>1, StartAssumption
<1>3. root \in LoadedRoot /\ root \in Root /\ root.keys \subseteq Keys
  BY <1>2, LoadsRoot DEF LoadedRoot, Root
<1> HIDE DEF root
<1>4. rt \in [keys : SUBSET Keys, defaults : Defaults]
  BY <1>1, <1>3, RuntimeTyped
<1>5. DOMAIN guards \subseteq Ports /\ \A p \in DOMAIN guards : guards[p] \in GuardConfigs
  BY <1>1, <1>3, StartGuardsTyped
<1>6. mine \in [Handlers -> Root] /\ issued \subseteq Keys /\ \A h \in Handlers : mine[h] \in LoadedRoot
  BY <1>1, <1>3
<1>7. /\ up = TRUE /\ torn = FALSE /\ login = NoPassword /\ faults = 0
      /\ pc = [h \in Handlers |-> "idle"] /\ req = [h \in Handlers |-> NoRequest]
      /\ next = [h \in Handlers |-> 1]
  BY DEF Init
<1>8. pc \in [Handlers -> {"idle", "load", "open", "write", "apply", "guards", "saved"}]
  BY <1>7
<1>9. next \in [Handlers -> Nat \ {0}]
  BY <1>7
<1>10. \A h \in Handlers : pc[h] = "idle"
  BY <1>7
<1>11. RequestsOfPages
  BY <1>6, <1>7, <1>10 DEF RequestsOfPages
<1> QED BY <1>2, <1>4, <1>5, <1>6, <1>7, <1>8, <1>9, <1>10, <1>11 DEF TypeInv, TypeOK

\* Requests of pages are not the absence of one.
LEMMA PageRequestIsOne == \A q : PageRequest(q) => q # NoRequest
BY DEF PageRequest, Ops, NoRequest

LEMMA ServeKeepsTypeInv ==
  ASSUME TypeInv, NEW h \in Handlers, Serve(h)
  PROVE  TypeInv'
<1> USE DEF TypeInv, TypeOK, process, handler, bounds, history, At
<1>1. CASE Receive(h)
  <2>1. PICK q \in Requests(LoadConfigs(file), issued) :
          /\ req' = [req EXCEPT ![h] = q]
          /\ issued' = IF q.op = "addKey" THEN issued \cup {q.key} ELSE issued
    BY <1>1 DEF Receive
  <2>2. PageRequest(q)
    <3>1. LoadConfigs(file) \in Root
      BY <1>1, FileLoads DEF Receive
    <3> QED BY <3>1, PageOffers
  <2>3. issued' \subseteq Keys
    BY <2>1, <2>2 DEF PageRequest
  <2>4. RequestsOfPages'
    BY <1>1, <2>1, <2>2 DEF Receive, RequestsOfPages
  <2>5. \A g \in Handlers : pc'[g] # "idle" => req'[g] # NoRequest
    BY <2>4, PageRequestIsOne DEF RequestsOfPages
  <2> QED BY <1>1, <2>3, <2>4, <2>5 DEF Receive
<1>2. CASE Load(h)
  <2>1. LoadConfigs(file) \in LoadedRoot /\ LoadConfigs(file) \in Root
    BY <1>2, FileLoads DEF Load
  <2>2. Effect(req[h], LoadConfigs(file)) \in LoadedRoot
    BY <1>2, <2>1, EffectTyped DEF Load, RequestsOfPages, LoadedRoot
  <2>3. Effect(req[h], LoadConfigs(file)) \in Root
    BY <2>2 DEF LoadedRoot
  <2>4. mine' \in [Handlers -> Root] /\ \A g \in Handlers : mine'[g] \in LoadedRoot
    BY <1>2, <2>2, <2>3 DEF Load, Loaded, RequestsOfPages
  <2>5. RequestsOfPages'
    BY <1>2, <2>4 DEF Load, RequestsOfPages
  <2> QED BY <1>2, <2>4, <2>5 DEF Load
<1>3. CASE GiveUp(h) \/ Answer(h) \/ Done(h)
  <2>1. RequestsOfPages'
    BY <1>3 DEF GiveUp, Answer, Done, RequestsOfPages
  <2> QED BY <1>3, <2>1 DEF GiveUp, Answer, Done
<1>4. CASE Truncate(h)
  <2>1. RequestsOfPages'
    BY <1>4 DEF Truncate, RequestsOfPages
  <2> QED BY <1>4, <2>1 DEF Truncate, Cut
<1>5. CASE Write(h)
  <2>1. RequestsOfPages'
    BY <1>5 DEF Write, RequestsOfPages
  <2>2. file' \in Files \cup {Garbled}
    BY <1>5, TextReads DEF Write, RequestsOfPages
  <2> QED BY <1>5, <2>1, <2>2 DEF Write
<1>6. CASE FailToSave(h)
  <2>1. RequestsOfPages'
    BY <1>6 DEF FailToSave, RequestsOfPages
  <2>2. file' \in Files \cup {Empty, Garbled} /\ torn' \in BOOLEAN
    BY <1>6 DEF FailToSave
  <2> QED BY <1>6, <2>1, <2>2 DEF FailToSave
<1>7. CASE ApplyRuntime(h)
  <2>1. RequestsOfPages'
    BY <1>7 DEF ApplyRuntime, RequestsOfPages
  <2>2. rt' \in [keys : SUBSET Keys, defaults : Defaults]
    BY <1>7, RuntimeTyped DEF ApplyRuntime, NewRuntime
  <2> QED BY <1>7, <2>1, <2>2 DEF ApplyRuntime
<1>8. CASE ApplyGuard(h)
  <2>1. RequestsOfPages'
    BY <1>8 DEF ApplyGuard, RequestsOfPages
  <2>2. mine[h].proxies[next[h]].guard \in GuardConfigs
    BY <1>8, ProxyTyped DEF ApplyGuard, ProxiesToApply
  <2>3. DOMAIN guards' = DOMAIN guards /\ \A p \in DOMAIN guards : guards'[p] \in GuardConfigs
    BY <1>8, <2>2 DEF ApplyGuard
  <2> QED BY <1>8, <2>1, <2>3 DEF ApplyGuard
<1> QED BY <1>1, <1>2, <1>3, <1>4, <1>5, <1>6, <1>7, <1>8 DEF Serve

LEMMA NextKeepsTypeInv == TypeInv /\ [Next]_vars => TypeInv'
<1> SUFFICES ASSUME TypeInv, [Next]_vars PROVE TypeInv'
  OBVIOUS
<1> USE DEF TypeInv, TypeOK, RequestsOfPages, process, handler, bounds, history
<1>1. CASE UNCHANGED vars
  BY <1>1 DEF vars
<1>2. CASE Login
  <2>1. StoredPassword \in Passwords \cup {NoPassword}
    BY FileLoads DEF StoredPassword, Root
  <2> QED BY <1>2, <2>1 DEF Login
<1>3. CASE Crash
  <2>1. /\ pc' = [h \in Handlers |-> "idle"] /\ faults' \in Nat
        /\ UNCHANGED <<file, rt, guards, req, mine, next, issued, login>>
    BY <1>3 DEF Crash
  <2>2. up' \in BOOLEAN /\ torn' \in BOOLEAN
    <3>1. up' = FALSE /\ torn' = (torn \/ Saving)
      BY <1>3 DEF Crash
    <3> QED BY <3>1, Zenon
  <2>3. /\ pc' \in [Handlers -> {"idle", "load", "open", "write", "apply", "guards", "saved"}]
        /\ \A h \in Handlers : pc'[h] = "idle"
    BY <2>1
  <2> QED BY <2>1, <2>2, <2>3
<1>4. CASE Restart
  <2>1. LoadConfigs(file) \in Root
    BY <1>4, FileLoads DEF Restart
  <2>2. rt' \in [keys : SUBSET Keys, defaults : Defaults]
    BY <1>4, <2>1, RuntimeTyped DEF Restart
  <2>3. DOMAIN guards' \subseteq Ports /\ \A p \in DOMAIN guards' : guards'[p] \in GuardConfigs
    BY <1>4, <2>1, StartGuardsTyped DEF Restart
  <2> QED BY <1>4, <2>2, <2>3 DEF Restart
<1> QED BY <1>1, <1>2, <1>3, <1>4, ServeKeepsTypeInv DEF Next

\* The types of ConfigStore: whatever handlers load, change and write over
\* each other, a file that can be read and every copy are settings.
THEOREM TypeCorrect == Spec => []TypeOK
<1>1. TypeInv => TypeOK
  BY DEF TypeInv
<1> QED BY InitTypeInv, NextKeepsTypeInv, <1>1, PTL DEF Spec

-----------------------------------------------------------------------------
(* However the handlers race. *)

\* What is in the file was saved, so a restart finds settings of one save.
FileWasSaved ==
  Readable =>
    Runtime(LoadConfigs(file)) \in saved /\ LoadConfigs(file).keys \subseteq issued

\* A handler that is about to apply its copy has saved it.
AppliesWhatItSaved ==
  \A h \in Handlers : pc[h] = "apply" => Runtime(mine[h]) \in saved

\* The keys in a copy, and the key that is about to be added to one, were
\* generated.
CopiesHaveIssuedKeys ==
  \A h \in Handlers :
    /\ pc[h] \in {"open", "write", "apply"} => mine[h].keys \subseteq issued
    /\ pc[h] = "load" /\ req[h].op = "addKey" => req[h].key \in issued

StoreInv ==
  TypeInv /\ FileWasSaved /\ AppliesWhatItSaved /\ CopiesHaveIssuedKeys /\ RuntimeWasSaved

\* No handler brings a key in but the one that adds it.
LEMMA EffectKeepsKeys ==
  ASSUME NEW q, NEW root \in Root, q.op \in Ops
  PROVE  Effect(q, root).keys \subseteq
           root.keys \cup (IF q.op = "addKey" THEN {q.key} ELSE {})
<1>1. CASE q.op = "save"
  <2>1. Effect(q, root) = SaveConfig(root, q.form)
    BY <1>1 DEF Effect
  <2>2. SaveConfig(root, q.form).keys = root.keys
    BY DEF SaveConfig, Root
  <2> QED BY <1>1, <2>1, <2>2
<1>2. CASE q.op = "addProxy"
  BY <1>2 DEF Effect, AddProxy, Root
<1>3. CASE q.op = "deleteProxy"
  BY <1>3 DEF Effect, DeleteProxy, Root
<1>4. CASE q.op = "addKey"
  BY <1>4 DEF Effect, AddAPIKey, Root
<1>5. CASE q.op = "deleteKey"
  BY <1>5 DEF Effect, DeleteAPIKey, Root
<1>6. CASE q.op = "password"
  BY <1>6 DEF Effect, ChangePassword, Root
<1> QED BY <1>1, <1>2, <1>3, <1>4, <1>5, <1>6 DEF Ops

\* What a page offers is one of the operations.
LEMMA RequestsHaveOps ==
  ASSUME NEW root, NEW keys, NEW q \in Requests(root, keys)
  PROVE  q.op \in Ops
  BY DEF Requests, Ops

\* The step of one handler leaves pc of the others alone.
LEMMA OneMoves ==
  ASSUME TypeInv, NEW h \in Handlers, NEW here, NEW there, At(h, here, there)
  PROVE  /\ pc[h] = here /\ pc'[h] = there
         /\ \A g \in Handlers : g # h => pc'[g] = pc[g]
  BY DEF At, TypeInv, TypeOK

LEMMA InitStoreInv == Init => StoreInv
<1> SUFFICES ASSUME Init PROVE StoreInv
  OBVIOUS
<1> DEFINE root == LoadConfigs(file)
<1>1. rt = Runtime(root) /\ saved = {Runtime(root)} /\ issued = root.keys
  BY DEF Init
<1>2. FileWasSaved /\ RuntimeWasSaved
  BY <1>1 DEF FileWasSaved, RuntimeWasSaved, Runtime
<1>3. AppliesWhatItSaved /\ CopiesHaveIssuedKeys
  BY DEF Init, AppliesWhatItSaved, CopiesHaveIssuedKeys
<1> QED BY <1>2, <1>3, InitTypeInv DEF StoreInv

\* The steps of a handler.
LEMMA ServeKeepsStoreInv ==
  ASSUME StoreInv, NEW h \in Handlers, Serve(h)
  PROVE  StoreInv'
<1>0. TypeInv /\ TypeInv'
  BY ServeKeepsTypeInv DEF StoreInv
<1> USE DEF StoreInv, process, handler, bounds, history
<1>1. CASE Receive(h)
  <2>1. PICK q \in Requests(LoadConfigs(file), issued) :
          /\ req' = [req EXCEPT ![h] = q]
          /\ issued' = IF q.op = "addKey" THEN issued \cup {q.key} ELSE issued
    BY <1>1 DEF Receive
  <2>2. issued \subseteq issued' /\ (q.op = "addKey" => q.key \in issued')
    BY <2>1
  <2>3. req'[h] = q /\ \A g \in Handlers : g # h => req'[g] = req[g]
    BY <1>0, <2>1 DEF TypeInv, RequestsOfPages
  <2>4. pc'[h] = "load" /\ \A g \in Handlers : g # h => pc'[g] = pc[g]
    BY <1>0, <1>1, OneMoves DEF Receive
  <2>5. file' = file /\ mine' = mine /\ rt' = rt /\ saved' = saved
    BY <1>1 DEF Receive
  <2>6. FileWasSaved' /\ RuntimeWasSaved'
    BY <2>2, <2>5 DEF FileWasSaved, RuntimeWasSaved, Runtime, Readable
  <2>7. AppliesWhatItSaved'
    BY <2>4, <2>5 DEF AppliesWhatItSaved, Runtime
  <2>8. CopiesHaveIssuedKeys'
    BY <2>2, <2>3, <2>4, <2>5 DEF CopiesHaveIssuedKeys
  <2> QED BY <1>0, <2>6, <2>7, <2>8
<1>2. CASE Load(h)
  <2>1. /\ pc[h] = "load" /\ pc'[h] = "open"
        /\ \A g \in Handlers : g # h => pc'[g] = pc[g]
    BY <1>0, <1>2, OneMoves DEF Load
  <2>2. file' = file /\ rt' = rt /\ saved' = saved /\ req' = req /\ issued' = issued
    BY <1>2 DEF Load
  <2>3. /\ mine'[h] = Effect(req[h], LoadConfigs(file))
        /\ \A g \in Handlers : g # h => mine'[g] = mine[g]
    BY <1>0, <1>2 DEF Load, Loaded, TypeInv, TypeOK
  <2>4. mine'[h].keys \subseteq issued
    <3>1. req[h].op \in Ops /\ (req[h].op = "addKey" => req[h].key \in issued)
      BY <1>0, <2>1 DEF CopiesHaveIssuedKeys, TypeInv, RequestsOfPages, PageRequest
    <3>2. LoadConfigs(file) \in Root /\ LoadConfigs(file).keys \subseteq issued
      BY <1>0, <1>2, FileLoads DEF Load, FileWasSaved
    <3> QED BY <2>3, <3>1, <3>2, EffectKeepsKeys
  <2>5. FileWasSaved' /\ RuntimeWasSaved'
    BY <2>2 DEF FileWasSaved, RuntimeWasSaved, Runtime, Readable
  <2>6. AppliesWhatItSaved'
    BY <2>1, <2>2, <2>3 DEF AppliesWhatItSaved, Runtime
  <2>7. CopiesHaveIssuedKeys'
    BY <2>1, <2>2, <2>3, <2>4 DEF CopiesHaveIssuedKeys
  <2> QED BY <1>0, <2>5, <2>6, <2>7
<1>3. ASSUME NEW here, NEW there, At(h, here, there),
             there \in {"idle", "write", "guards", "saved"},
             there = "write" => here = "open",
             file' \in {file, Empty, Garbled}, mine' = mine, req' = req, issued' = issued,
             saved' = saved, rt' = rt
      PROVE  StoreInv'
  <2>1. /\ pc[h] = here /\ pc'[h] = there
        /\ \A g \in Handlers : g # h => pc'[g] = pc[g]
    BY <1>0, <1>3, OneMoves
  <2>2. FileWasSaved'
    <3>1. CASE file' = file
      BY <1>3, <3>1 DEF FileWasSaved, Runtime, Readable
    <3>2. CASE file' \in {Empty, Garbled}
      BY <3>2 DEF FileWasSaved, Readable
    <3> QED BY <1>3, <3>1, <3>2
  <2>3. RuntimeWasSaved'
    BY <1>3 DEF RuntimeWasSaved
  <2>4. AppliesWhatItSaved'
    BY <1>3, <2>1 DEF AppliesWhatItSaved, Runtime
  <2>5. CopiesHaveIssuedKeys'
    BY <1>3, <2>1 DEF CopiesHaveIssuedKeys
  <2> QED BY <1>0, <2>2, <2>3, <2>4, <2>5
<1>4. CASE GiveUp(h)
  BY <1>3, <1>4 DEF GiveUp
<1>5. CASE Truncate(h)
  BY <1>3, <1>5 DEF Truncate, Cut
<1>6. CASE Write(h)
  <2>1. /\ pc[h] = "write" /\ pc'[h] \in {"apply", "idle"}
        /\ \A g \in Handlers : g # h => pc'[g] = pc[g]
    BY <1>0, <1>6, OneMoves DEF Write
  <2>2. /\ file' \in {TextOf(mine[h]), Garbled} /\ saved' = saved \cup {Runtime(mine[h])}
        /\ rt' = rt /\ req' = req /\ mine' = mine /\ issued' = issued
    BY <1>6 DEF Write
  <2>3. mine[h].keys \subseteq issued
    BY <2>1 DEF CopiesHaveIssuedKeys
  <2>4. FileWasSaved'
    <3>1. mine[h] \in LoadedRoot
      BY <1>0 DEF TypeInv, RequestsOfPages
    <3>2. LoadConfigs(TextOf(mine[h])) = mine[h]
      BY <3>1, TextReads
    <3>3. CASE file' = TextOf(mine[h])
      BY <2>2, <2>3, <3>2, <3>3 DEF FileWasSaved, Runtime
    <3>4. CASE file' = Garbled
      BY <3>4 DEF FileWasSaved, Readable
    <3> QED BY <2>2, <3>3, <3>4
  <2>5. RuntimeWasSaved'
    BY <2>2 DEF RuntimeWasSaved
  <2>6. AppliesWhatItSaved'
    BY <2>1, <2>2 DEF AppliesWhatItSaved, Runtime
  <2>7. CopiesHaveIssuedKeys'
    BY <2>1, <2>2, <2>3 DEF CopiesHaveIssuedKeys
  <2> QED BY <1>0, <2>4, <2>5, <2>6, <2>7
<1>7. CASE FailToSave(h)
  BY <1>3, <1>7 DEF FailToSave
<1>8. CASE ApplyRuntime(h)
  <2>1. /\ pc[h] = "apply" /\ pc'[h] = "guards"
        /\ \A g \in Handlers : g # h => pc'[g] = pc[g]
    BY <1>0, <1>8, OneMoves DEF ApplyRuntime
  <2>2. /\ rt' = Runtime(mine[h]) /\ file' = file /\ req' = req /\ mine' = mine
        /\ issued' = issued /\ saved' = saved
    BY <1>8 DEF ApplyRuntime, NewRuntime
  <2>3. Runtime(mine[h]) \in saved /\ mine[h].keys \subseteq issued
    BY <2>1 DEF AppliesWhatItSaved, CopiesHaveIssuedKeys
  <2>4. FileWasSaved' /\ RuntimeWasSaved'
    BY <2>2, <2>3 DEF FileWasSaved, RuntimeWasSaved, Runtime, Readable
  <2>5. AppliesWhatItSaved' /\ CopiesHaveIssuedKeys'
    BY <2>1, <2>2 DEF AppliesWhatItSaved, CopiesHaveIssuedKeys, Runtime
  <2> QED BY <1>0, <2>4, <2>5
<1>9. CASE ApplyGuard(h)
  BY <1>3, <1>9 DEF ApplyGuard
<1>10. CASE Answer(h)
  BY <1>3, <1>10 DEF Answer
<1>11. CASE Done(h)
  BY <1>3, <1>11 DEF Done
<1> QED BY <1>1, <1>2, <1>4, <1>5, <1>6, <1>7, <1>8, <1>9, <1>10, <1>11 DEF Serve

LEMMA NextKeepsStoreInv == StoreInv /\ [Next]_vars => StoreInv'
<1> SUFFICES ASSUME StoreInv, [Next]_vars PROVE StoreInv'
  OBVIOUS
<1>0. TypeInv /\ TypeInv'
  BY NextKeepsTypeInv DEF StoreInv
<1> USE DEF StoreInv, process, handler, bounds, history
<1>1. ASSUME NEW h \in Handlers, Serve(h) PROVE StoreInv'
  BY <1>1, ServeKeepsStoreInv
<1>2. CASE Login \/ UNCHANGED vars
  BY <1>0, <1>2 DEF Login, vars, FileWasSaved, AppliesWhatItSaved, CopiesHaveIssuedKeys,
                    RuntimeWasSaved, Runtime, Readable
<1>3. CASE Crash
  <2>1. \A h \in Handlers : pc'[h] = "idle"
    BY <1>3 DEF Crash
  <2>2. UNCHANGED <<file, rt, issued, saved>>
    BY <1>3 DEF Crash
  <2>3. FileWasSaved' /\ RuntimeWasSaved'
    BY <2>2 DEF FileWasSaved, RuntimeWasSaved, Runtime, Readable
  <2> QED BY <1>0, <2>1, <2>3 DEF AppliesWhatItSaved, CopiesHaveIssuedKeys
<1>4. CASE Restart
  <2>1. /\ UNCHANGED <<file, pc, req, mine, issued, saved>> /\ Readable
        /\ rt' = Runtime(LoadConfigs(file))
    BY <1>4 DEF Restart
  <2>2. FileWasSaved' /\ AppliesWhatItSaved' /\ CopiesHaveIssuedKeys'
    BY <2>1 DEF FileWasSaved, AppliesWhatItSaved, CopiesHaveIssuedKeys, Runtime, Readable
  <2>3. RuntimeWasSaved'
    BY <2>1 DEF FileWasSaved, RuntimeWasSaved, Runtime
  <2> QED BY <1>0, <2>2, <2>3
<1> QED BY <1>1, <1>2, <1>3, <1>4 DEF Next

\* RuntimeWasSaved: the keys and the defaults in force are those of one save
\* (or of the start), never keys of one and defaults of another, and every
\* key in force was generated, however handlers race, fail and crash.
THEOREM RuntimeIsOneSave == Spec => []RuntimeWasSaved
<1>1. StoreInv => RuntimeWasSaved
  BY DEF StoreInv
<1> QED BY InitStoreInv, NextKeepsStoreInv, <1>1, PTL DEF Spec

-----------------------------------------------------------------------------
(* One handler at a time. *)

Serial == \A g, h \in Handlers : g = h

\* A handler that opens the file has read it, and a file that is being
\* written has been cut and has not been lost before.
WritesFromScratch ==
  /\ \A h \in Handlers : pc[h] = "open" => Readable
  /\ Saving => file = Empty /\ ~torn

\* From its write on, the file has the copy of the handler, from ApplyRuntime
\* on the runtime settings are those of the copy, and every guard has the
\* settings of the last proxy with its port that was applied so far.
AppliesTheFile ==
  \A h \in Handlers :
    /\ pc[h] \in {"apply", "guards", "saved"} => file = TextOf(mine[h])
    /\ pc[h] \in {"guards", "saved"} =>
         /\ rt = Runtime(mine[h])
         /\ \A p \in DOMAIN guards : \A k \in DOMAIN mine[h].proxies :
              /\ k < next[h] /\ mine[h].proxies[k].port = p
              /\ \A j \in DOMAIN mine[h].proxies :
                   k < j /\ j < next[h] => mine[h].proxies[j].port # p
              => guards[p] = mine[h].proxies[k].guard
    /\ pc[h] = "saved" => \A k \in DOMAIN mine[h].proxies : k < next[h]

\* Handlers end with the process.
NoneWhenDown == ~up => \A h \in Handlers : pc[h] = "idle"

SerialInv ==
  /\ TypeInv /\ NoneWhenDown /\ WritesFromScratch /\ FileReadable /\ AppliesTheFile

LEMMA InitSerialInv == Init => SerialInv
<1> SUFFICES ASSUME Init PROVE SerialInv
  OBVIOUS
<1>1. Readable
  BY StartAssumption, FilesRead DEF Init, Readable
<1>2. torn = FALSE /\ \A h \in Handlers : pc[h] = "idle"
  BY DEF Init
<1> QED BY <1>1, <1>2, InitTypeInv DEF SerialInv, WritesFromScratch, FileReadable, Saving,
                                       AppliesTheFile, NoneWhenDown

LEMMA GuardStep ==
  ASSUME SerialInv, NEW h \in Handlers, ApplyGuard(h),
         NEW p \in DOMAIN guards, NEW k \in DOMAIN mine[h].proxies,
         k < next[h] + 1, mine[h].proxies[k].port = p,
         \A j \in DOMAIN mine[h].proxies : k < j /\ j < next[h] + 1 => mine[h].proxies[j].port # p
  PROVE  guards'[p] = mine[h].proxies[k].guard
<1> DEFINE list == mine[h].proxies  n == next[h]
<1>1. n \in DOMAIN list /\ list \in Seq(Proxy) /\ pc[h] = "guards"
  BY DEF ApplyGuard, ProxiesToApply, At, SerialInv, TypeInv, TypeOK, Root
<1>2. guards' = IF list[n].port \in DOMAIN guards
                THEN [guards EXCEPT ![list[n].port] = list[n].guard] ELSE guards
  BY DEF ApplyGuard
<1>3. k \in Nat /\ n \in Nat
  BY <1>1
<1>4. CASE list[n].port = p
  <2>1. k = n
    BY <1>1, <1>3, <1>4
  <2> QED BY <1>2, <1>4, <2>1
<1>5. CASE list[n].port # p
  <2>1. k < n
    BY <1>3, <1>5
  <2>2. \A j \in DOMAIN list : k < j /\ j < n => list[j].port # p
    BY <1>1, <1>3
  <2>3. guards[p] = list[k].guard
    BY <1>1, <2>1, <2>2 DEF SerialInv, AppliesTheFile
  <2> QED BY <1>2, <1>5, <2>3
<1> QED BY <1>4, <1>5

LEMMA ServeKeepsSerialInv ==
  ASSUME Serial, SerialInv, NEW h \in Handlers, Serve(h)
  PROVE  SerialInv'
<1>1. TypeInv'
  BY ServeKeepsTypeInv DEF SerialInv
<1>2. Handlers = {h}
  BY DEF Serial
<1>4. DOMAIN pc = Handlers /\ DOMAIN mine = Handlers /\ DOMAIN next = Handlers
  BY DEF SerialInv, TypeInv, TypeOK, RequestsOfPages
<1> USE DEF At, process, handler, bounds, history
<1>a. mine[h] \in LoadedRoot /\ TextOf(mine[h]) \notin {Empty, Garbled}
  BY TextReads DEF SerialInv, TypeInv, RequestsOfPages
<1>5. WritesFromScratch' /\ FileReadable'
  <2> USE DEF SerialInv, WritesFromScratch, FileReadable, Saving, Readable
  <2>1. CASE Load(h)
    BY <1>2, <1>4, <2>1 DEF Load
  <2>2. CASE Truncate(h)
    BY <1>2, <1>4, <2>2 DEF Truncate, Cut
  <2>3. CASE Write(h)
    <3>1. file = Empty /\ torn' = torn /\ ~torn /\ pc'[h] \in {"apply", "idle"}
      BY <1>2, <1>4, <2>3 DEF Write
    <3>2. file' = TextOf(mine[h])
      BY <2>3, <3>1 DEF Write
    <3> QED BY <1>2, <1>a, <3>1, <3>2
  <2>4. CASE FailToSave(h)
    <3>1. pc'[h] = "idle"
      BY <1>4, <2>4 DEF FailToSave
    <3>2. CASE pc[h] = "open"
      BY <1>2, <2>4, <3>1, <3>2 DEF FailToSave
    <3>3. CASE pc[h] = "write"
      BY <1>2, <2>4, <3>1, <3>3 DEF FailToSave
    <3> QED BY <2>4, <3>2, <3>3 DEF FailToSave
  <2>5. CASE Receive(h) \/ GiveUp(h) \/ ApplyRuntime(h) \/ ApplyGuard(h) \/ Answer(h) \/ Done(h)
    <3>1. /\ UNCHANGED <<file, torn>>
          /\ pc[h] # "write" /\ pc'[h] \notin {"open", "write"}
      BY <1>4, <2>5 DEF Receive, GiveUp, ApplyRuntime, ApplyGuard, Answer, Done
    <3> QED BY <1>2, <3>1
  <2> QED BY <2>1, <2>2, <2>3, <2>4, <2>5 DEF Serve
<1>6. AppliesTheFile'
  <2> USE DEF SerialInv, AppliesTheFile
  <2>1. CASE Receive(h) \/ Load(h) \/ GiveUp(h) \/ Truncate(h) \/ FailToSave(h) \/ Done(h)
    <3>1. pc'[h] \notin {"apply", "guards", "saved"}
      BY <1>4, <2>1 DEF Receive, Load, GiveUp, Truncate, FailToSave, Done
    <3> QED BY <1>2, <3>1
  <2>2. CASE Write(h)
    <3>1. pc'[h] \notin {"guards", "saved"} /\ mine' = mine
      BY <1>4, <2>2 DEF Write
    <3>2. file' = TextOf(mine[h])
      BY <1>2, <1>4, <2>2 DEF Write, WritesFromScratch, Saving
    <3> QED BY <1>2, <3>1, <3>2 DEF TextOf
  <2>3. CASE ApplyRuntime(h)
    <3>1. /\ pc[h] = "apply" /\ pc'[h] = "guards" /\ UNCHANGED <<file, mine>>
          /\ rt' = Runtime(mine[h]) /\ next'[h] = 1
      BY <1>4, <2>3 DEF ApplyRuntime, NewRuntime
    <3>2. mine[h].proxies \in Seq(Proxy)
      BY DEF TypeInv, TypeOK, Root
    <3>3. \A k \in DOMAIN mine[h].proxies : ~(k < 1)
      BY <3>2
    <3> QED BY <1>2, <3>1, <3>3 DEF Runtime, TextOf
  <2>4. CASE ApplyGuard(h)
    <3>1. /\ pc[h] = "guards" /\ pc'[h] = "guards" /\ UNCHANGED <<file, mine, rt>>
          /\ next'[h] = next[h] + 1 /\ DOMAIN guards' = DOMAIN guards
      BY <1>4, <2>4 DEF ApplyGuard
    <3> QED BY <1>2, <2>4, <3>1, GuardStep DEF Runtime, TextOf
  <2>5. CASE Answer(h)
    <3>1. /\ pc[h] = "guards" /\ pc'[h] = "saved" /\ UNCHANGED <<file, mine, rt, next, guards>>
          /\ next[h] \notin DOMAIN mine[h].proxies
      BY <1>4, <2>5 DEF Answer, ProxiesToApply
    <3>2. mine[h].proxies \in Seq(Proxy) /\ next[h] \in Nat \ {0}
      BY DEF TypeInv, TypeOK, Root
    <3>3. \A k \in DOMAIN mine[h].proxies : k < next[h]
      BY <3>1, <3>2
    <3> QED BY <1>2, <3>1, <3>3 DEF Runtime, TextOf
  <2> QED BY <2>1, <2>2, <2>3, <2>4, <2>5 DEF Serve
<1>7. NoneWhenDown'
  <2>1. up /\ up' = up
    BY DEF Serve, Receive, Load, GiveUp, Truncate, Write, FailToSave, ApplyRuntime, ApplyGuard,
           Answer, Done
  <2> QED BY <2>1 DEF NoneWhenDown
<1> QED BY <1>1, <1>5, <1>6, <1>7 DEF SerialInv

LEMMA NextKeepsSerialInv == ASSUME Serial PROVE SerialInv /\ [Next]_vars => SerialInv'
<1> SUFFICES ASSUME SerialInv, [Next]_vars PROVE SerialInv'
  OBVIOUS
<1>1. TypeInv'
  BY NextKeepsTypeInv DEF SerialInv
<1> USE DEF SerialInv, WritesFromScratch, FileReadable, Saving, Readable, AppliesTheFile,
            process, handler, bounds, history
<1>2. CASE Login \/ UNCHANGED vars
  <2>1. UNCHANGED <<file, up, rt, guards, pc, mine, next, torn>>
    BY <1>2 DEF Login, vars
  <2> QED BY <1>1, <2>1 DEF NoneWhenDown, Runtime, TextOf
<1>3. CASE Crash
  <2>1. file' = file /\ torn' = (torn \/ Saving) /\ \A h \in Handlers : pc'[h] = "idle"
    BY <1>3 DEF Crash
  <2>2. FileReadable'
    <3>1. CASE Saving
      BY <2>1, <3>1
    <3>2. CASE ~Saving
      BY <2>1, <3>2
    <3> QED BY <3>1, <3>2
  <2> QED BY <1>1, <2>1, <2>2 DEF NoneWhenDown
<1>4. CASE Restart
  <2>1. UNCHANGED <<file, pc, torn>> /\ \A h \in Handlers : pc[h] = "idle"
    BY <1>4 DEF Restart, NoneWhenDown
  <2> QED BY <1>1, <2>1 DEF NoneWhenDown
<1> QED BY <1>2, <1>3, <1>4, ServeKeepsSerialInv DEF Next

\* FileReadable: with one handler at a time a file that is not being written
\* cannot be read if and only if a save was cut short, by an error or by the
\* end of the process, between the open and the end of the write.
THEOREM FileIsReadable == ASSUME Serial PROVE Spec => []FileReadable
<1>1. SerialInv => FileReadable
  BY DEF SerialInv
<1> QED BY InitSerialInv, NextKeepsSerialInv, <1>1, PTL DEF Spec

\* SettingsActive: for any settings, also with several proxies on one port, what
\* a handler calls active is in the file, in force, and in every guard.
THEOREM SavedSettingsAreActive == ASSUME Serial PROVE Spec => []SettingsActive
<1>1. SerialInv => SettingsActive
  <2> SUFFICES ASSUME SerialInv, NEW h \in Handlers, pc[h] = "saved"
               PROVE  /\ Readable
                      /\ rt = Runtime(LoadConfigs(file))
                      /\ \A p \in DOMAIN guards \cap PortsOf(LoadConfigs(file)) :
                           guards[p] = LoadConfigs(file).proxies[LastWith(LoadConfigs(file), p)].guard
    BY DEF SettingsActive
  <2>1. file = TextOf(mine[h]) /\ rt = Runtime(mine[h]) /\ mine[h] \in LoadedRoot
    BY DEF SerialInv, AppliesTheFile, TypeInv, RequestsOfPages
  <2>2. LoadConfigs(file) = mine[h] /\ Readable /\ mine[h] \in Root
    BY <2>1, TextReads DEF Readable, LoadedRoot
  <2>3. ASSUME NEW p \in DOMAIN guards \cap PortsOf(mine[h])
        PROVE  guards[p] = mine[h].proxies[LastWith(mine[h], p)].guard
    BY <2>2, LastWithPort DEF SerialInv, AppliesTheFile
  <2> QED BY <2>1, <2>2, <2>3
<1> QED BY InitSerialInv, NextKeepsSerialInv, <1>1, PTL DEF Spec

-----------------------------------------------------------------------------
(* The contract.  Its operators are those of Settings. *)

LEMMA SameRequests ==
  ASSUME NEW root, NEW keys
  PROVE  Contract!Requests(root, keys) = Requests(root, keys)
BY DEF Requests, SystemForm, ProxyForm,
       Contract!Requests, Contract!SystemForm, Contract!ProxyForm

LEMMA SameRefused ==
  ASSUME NEW q, NEW root
  PROVE  Contract!Refused(q, root) <=> Refused(q, root)
BY DEF Refused, MayDelete, Contract!Refused, Contract!MayDelete

LEMMA SameEffect ==
  ASSUME NEW q, NEW root
  PROVE  Contract!Effect(q, root) = Effect(q, root)
BY DEF Effect, SaveConfig, FromForm, AddProxy, DefaultConfig, DeleteProxy, RemoveAt, AddAPIKey,
       DeleteAPIKey, ChangePassword,
       Contract!Effect, Contract!SaveConfig, Contract!FromForm, Contract!AddProxy,
       Contract!DefaultConfig, Contract!DeleteProxy, Contract!RemoveAt, Contract!AddAPIKey,
       Contract!DeleteAPIKey, Contract!ChangePassword

LEMMA SameRoot == Contract!Root = Root
BY DEF Root, Proxy, NoPassword, Contract!Root, Contract!Proxy, Contract!NoPassword

\* What a handler serves was offered by the settings it finds, and what it
\* writes is their change.
ServesTheFile ==
  \A h \in Handlers :
    /\ pc[h] \in {"load", "open"} /\ Readable => req[h] \in Requests(LoadConfigs(file), {})
    /\ pc[h] = "open" =>
         /\ ~Refused(req[h], LoadConfigs(file))
         /\ mine[h] = Effect(req[h], LoadConfigs(file))

ContractInv == SerialInv /\ ServesTheFile

ContractVars == <<Current, Saving, login>>

LEMMA OffersFresh ==
  ASSUME NEW root, NEW keys PROVE Requests(root, keys) \subseteq Requests(root, {})
BY DEF Requests

\* A step that is no part of a write is a stutter, as far as the contract sees.
LEMMA OutsideWrites ==
  ASSUME ~Saving, ~Saving', UNCHANGED <<file, login>>
  PROVE  UNCHANGED ContractVars
<1>1. Current = (IF Readable THEN {LoadConfigs(file)} ELSE {})
  BY DEF Current
<1>2. Current' = (IF Readable' THEN {LoadConfigs(file')} ELSE {})
  BY DEF Current
<1>3. Current' = Current
  BY <1>1, <1>2 DEF Readable
<1>4. Saving = FALSE /\ Saving' = FALSE
  BY DEF Saving
<1> QED BY <1>3, <1>4 DEF ContractVars

LEMMA ServeKeepsContractInv ==
  ASSUME Serial, ContractInv, NEW h \in Handlers, Serve(h)
  PROVE  ServesTheFile' /\ [Contract!Next]_ContractVars
<1>1. Handlers = {h}
  BY DEF Serial
<1>2. DOMAIN pc = Handlers /\ DOMAIN mine = Handlers /\ DOMAIN req = Handlers
  BY DEF ContractInv, SerialInv, TypeInv, TypeOK, RequestsOfPages
<1>3. /\ Saving <=> pc[h] = "write"
      /\ Saving' <=> pc'[h] = "write"
  BY <1>1 DEF Saving
<1>4. /\ pc[h] = "write" => Current = {mine[h]}
      /\ pc'[h] = "write" => Current' = {mine'[h]}
  BY <1>1 DEF Current, Saving
<1>5. pc[h] = "write" => file = Empty /\ mine[h] \in LoadedRoot
  BY DEF ContractInv, SerialInv, WritesFromScratch, Saving, TypeInv, RequestsOfPages
<1> USE DEF At, process, handler, bounds, history
<1>6. CASE Receive(h)
  <2>1. pc[h] = "idle" /\ pc'[h] = "load" /\ UNCHANGED <<file, login>>
    BY <1>2, <1>6 DEF Receive
  <2>2. req'[h] \in Requests(LoadConfigs(file), {})
    BY <1>2, <1>6, OffersFresh DEF Receive
  <2> QED BY <1>1, <1>3, <2>1, <2>2, OutsideWrites DEF ServesTheFile
<1>7. CASE Load(h)
  <2>1. /\ pc[h] = "load" /\ pc'[h] = "open" /\ UNCHANGED <<file, login>> /\ req' = req
        /\ Readable /\ ~Refused(req[h], LoadConfigs(file))
        /\ mine'[h] = Effect(req[h], LoadConfigs(file))
    BY <1>2, <1>7 DEF Load, Loaded
  <2>2. ServesTheFile'
    BY <1>1, <2>1 DEF ServesTheFile, ContractInv, Readable
  <2> QED BY <1>3, <2>1, <2>2, OutsideWrites
<1>8. CASE Truncate(h)
  <2>1. /\ pc[h] = "open" /\ pc'[h] = "write"
        /\ UNCHANGED <<req, mine, login>>
    BY <1>2, <1>8 DEF Truncate
  <2>2. /\ Readable /\ req[h] \in Requests(LoadConfigs(file), {})
        /\ ~Refused(req[h], LoadConfigs(file))
        /\ mine[h] = Effect(req[h], LoadConfigs(file))
    BY <2>1 DEF ContractInv, SerialInv, WritesFromScratch, ServesTheFile
  <2>3. ~Saving /\ Saving' /\ Current' = {mine[h]}
    BY <1>3, <1>4, <2>1
  <2>4. Current = {LoadConfigs(file)}
    BY <2>2, <2>3 DEF Current
  <2>5. Contract!Change
    BY <2>1, <2>2, <2>3, <2>4, SameRequests, SameRefused, SameEffect DEF Contract!Change
  <2> QED BY <1>1, <2>1, <2>5 DEF ServesTheFile, Contract!Next
<1>9. CASE Write(h)
  <2>1. /\ pc[h] = "write" /\ pc'[h] \notin {"load", "open", "write"} /\ login' = login
        /\ file' = TextOf(mine[h])
    BY <1>2, <1>5, <1>9 DEF Write
  <2>2. Saving /\ ~Saving' /\ Current = {mine[h]}
    BY <1>3, <1>4, <2>1
  <2>3. Current' = {mine[h]}
    <3>1. Readable' /\ LoadConfigs(file') = mine[h]
      BY <1>5, <2>1, TextReads DEF Readable
    <3> QED BY <2>2, <3>1 DEF Current
  <2>4. Contract!Saved
    BY <2>1, <2>2, <2>3 DEF Contract!Saved
  <2> QED BY <1>1, <2>1, <2>4 DEF ServesTheFile, Contract!Next
<1>10. CASE FailToSave(h)
  <2>1. pc'[h] = "idle" /\ login' = login /\ ServesTheFile'
    BY <1>1, <1>2, <1>10 DEF FailToSave, ServesTheFile
  <2>2. CASE pc[h] = "open"
    <3>1. file' = file
      BY <1>10, <2>2 DEF FailToSave
    <3> QED BY <1>3, <2>1, <2>2, <3>1, OutsideWrites
  <2>3. CASE pc[h] = "write"
    <3>1. file' \in {Empty, Garbled}
      BY <1>5, <1>10, <2>3 DEF FailToSave
    <3>2. Saving /\ ~Saving' /\ ~Readable'
      BY <1>3, <2>1, <2>3, <3>1 DEF Readable
    <3>3. Current' = {}
      BY <3>2 DEF Current
    <3>4. Contract!Lost
      BY <2>1, <3>2, <3>3 DEF Contract!Lost
    <3> QED BY <2>1, <3>4 DEF Contract!Next
  <2> QED BY <1>10, <2>2, <2>3 DEF FailToSave
<1>11. CASE GiveUp(h) \/ ApplyRuntime(h) \/ ApplyGuard(h) \/ Answer(h) \/ Done(h)
  <2>1. /\ pc[h] # "write" /\ pc'[h] \notin {"load", "open", "write"}
        /\ UNCHANGED <<file, login>>
    BY <1>2, <1>11 DEF GiveUp, ApplyRuntime, ApplyGuard, Answer, Done
  <2> QED BY <1>1, <1>3, <2>1, OutsideWrites DEF ServesTheFile
<1> QED BY <1>6, <1>7, <1>8, <1>9, <1>10, <1>11 DEF Serve

LEMMA NextKeepsContractInv ==
  ASSUME Serial
  PROVE  ContractInv /\ [Next]_vars => ContractInv' /\ [Contract!Next]_ContractVars
<1> SUFFICES ASSUME ContractInv, [Next]_vars
             PROVE  ServesTheFile' /\ [Contract!Next]_ContractVars
  BY NextKeepsSerialInv DEF ContractInv
<1> USE DEF handler, history
<1>1. CASE Login
  <2>1. UNCHANGED <<file, pc, req, mine>> /\ login' = StoredPassword
    BY <1>1 DEF Login
  <2>2. Saving' = Saving /\ Current' = Current
    BY <2>1 DEF Saving, Current, Readable
  <2>3. ServesTheFile'
    BY <2>1 DEF ServesTheFile, ContractInv, Readable
  <2>4. CASE Saving \/ ~Readable
    <3>1. login' = NoPassword
      BY <2>1, <2>4 DEF StoredPassword, ContractInv, SerialInv, WritesFromScratch, Readable
    <3>2. Saving \/ Current = {}
      BY <2>4 DEF Current
    <3>3. Contract!NoPassword = NoPassword
      BY DEF NoPassword, Contract!NoPassword
    <3>4. Contract!Login
      BY <2>2, <3>1, <3>2, <3>3 DEF Contract!Login
    <3> QED BY <2>3, <3>4 DEF Contract!Next
  <2>5. CASE ~Saving /\ Readable
    <3>1. Current = {LoadConfigs(file)} /\ login' = LoadConfigs(file).password
      BY <2>1, <2>5 DEF Current, StoredPassword
    <3>2. \E root \in Current : ~Saving /\ login' = root.password
      BY <2>5, <3>1
    <3>3. Contract!Login
      BY <2>2, <3>2 DEF Contract!Login
    <3> QED BY <2>3, <3>3 DEF Contract!Next
  <2> QED BY <2>4, <2>5
<1>2. CASE Crash
  <2>1. UNCHANGED <<file, login>> /\ \A h \in Handlers : pc'[h] = "idle"
    BY <1>2 DEF Crash
  <2>2. ~Saving' /\ ServesTheFile'
    BY <2>1 DEF Saving, ServesTheFile
  <2>3. CASE Saving
    <3>1. ~Readable'
      BY <2>1, <2>3 DEF Readable, ContractInv, SerialInv, WritesFromScratch
    <3>2. Current' = {}
      BY <2>2, <3>1 DEF Current
    <3> QED BY <2>1, <2>2, <2>3, <3>2 DEF Contract!Lost, Contract!Next
  <2>4. CASE ~Saving
    BY <2>1, <2>2, <2>4, OutsideWrites
  <2> QED BY <2>2, <2>3, <2>4
<1>3. CASE Restart
  <2>1. UNCHANGED <<file, pc, req, mine, login>> /\ \A h \in Handlers : pc[h] = "idle"
    BY <1>3 DEF Restart, ContractInv, SerialInv, NoneWhenDown
  <2>2. ~Saving /\ ~Saving'
    BY <2>1 DEF Saving
  <2>3. ServesTheFile'
    BY <2>1 DEF ServesTheFile
  <2> QED BY <2>1, <2>2, <2>3, OutsideWrites
<1>4. CASE UNCHANGED vars
  <2>1. UNCHANGED <<file, pc, req, mine, login>>
    BY <1>4 DEF vars
  <2>2. UNCHANGED ContractVars
    BY <2>1 DEF ContractVars, Saving, Current, Readable
  <2>3. ServesTheFile'
    BY <2>1 DEF ServesTheFile, ContractInv, Readable
  <2> QED BY <2>2, <2>3
<1> QED BY <1>1, <1>2, <1>3, <1>4, ServeKeepsContractInv DEF Next

\* ImplementsContract: with one handler at a time every behaviour of the pages
\* is one of SettingsContract: a request changes the settings in one step, and
\* they are lost only by a save that does not end well, by an error or by the
\* end of the process, and then for good.
THEOREM SerialImplementsContract == ASSUME Serial PROVE Spec => ImplementsContract
<1>1. Init => ContractInv /\ Contract!Init
  <2> SUFFICES ASSUME Init PROVE ContractInv /\ Contract!Init
    OBVIOUS
  <2>1. SerialInv /\ \A h \in Handlers : pc[h] = "idle"
    BY InitSerialInv DEF Init
  <2>2. file \in Files
    BY StartAssumption DEF Init
  <2>3. Readable /\ LoadConfigs(file) \in Root
    BY <2>2, FilesRead, LoadsRoot DEF Readable, LoadedRoot
  <2>4. ~Saving /\ Current = {LoadConfigs(file)}
    BY <2>1, <2>3 DEF Current, Saving
  <2>5. login = Contract!NoPassword
    BY DEF Init, NoPassword, Contract!NoPassword
  <2>6. Saving = FALSE
    BY <2>4 DEF Saving
  <2>7. Contract!Init
    BY <2>3, <2>4, <2>5, <2>6, SameRoot DEF Contract!Init
  <2> QED BY <2>1, <2>7 DEF ContractInv, ServesTheFile
<1> QED BY <1>1, NextKeepsContractInv, PTL DEF Spec, ImplementsContract, Contract!Spec, ContractVars

=============================================================================
