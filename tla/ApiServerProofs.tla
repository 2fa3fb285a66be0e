--------------------------- MODULE ApiServerProofs ---------------------------
(***************************************************************************)
(* Theorems about ApiServer, for any requests, keys, limit and bounds.     *)
(***************************************************************************)
EXTENDS ApiServer, TLAPS

LEMMA LimitIsPositive == Limit \in Nat /\ Limit >= 1
  BY LimitAssumption

\* The rate key of a request is one of the rate keys.
LEMMA RateKeyType ==
  ASSUME TypeOK, NEW r \in Requests
  PROVE  rateKey(r) \in RateKeys
  BY DEF TypeOK, rateKey, RateKeys, request

-----------------------------------------------------------------------------
\* A step preserves the types.
LEMMA StepTyped == TypeOK /\ [Next]_vars => TypeOK'
<1> SUFFICES ASSUME TypeOK, [Next]_vars PROVE TypeOK'
  OBVIOUS
<1> USE DEF At, request, rest, defaults, history, defaults, history
<1>1. ASSUME NEW r \in Requests, Arrive(r) PROVE TypeOK'
  BY <1>1 DEF Arrive, TypeOK
<1>2. ASSUME NEW r \in Requests, Allow(r) PROVE TypeOK'
  <2> DEFINE k == rateKey(r)
             m == stamp[r]
  <2>1. k \in RateKeys /\ m \in Minutes
    BY RateKeyType DEF TypeOK
  <2>2. /\ DOMAIN windows' \subseteq RateKeys
        /\ \A x \in DOMAIN windows' : windows'[x] \in [minute : Minutes, count : 1 .. Limit]
    <3>1. CASE NewWindow(k, m) /\ SetWindow(k, m, 1)
      BY <2>1, <3>1, LimitIsPositive DEF TypeOK, SetWindow
    <3>2. CASE ~NewWindow(k, m) /\ ~Full(k) /\ SetWindow(k, m, windows[k].count + 1)
      BY <2>1, <3>2, LimitIsPositive DEF TypeOK, SetWindow, NewWindow, Full
    <3> QED BY <1>2, <3>1, <3>2 DEF Allow
  <2>3. allowed' \in [RateKeys -> [Minutes -> Nat]]
    BY <1>2, <2>1 DEF Allow, TypeOK
  <2>4. late' \subseteq RateKeys
    BY <1>2, <2>1 DEF Allow, TypeOK
  <2> QED BY <1>2, <2>2, <2>3, <2>4 DEF Allow, TypeOK
<1>3. ASSUME NEW r \in Requests, TooMany(r) PROVE TypeOK'
  BY <1>3 DEF TooMany, TypeOK
<1>4. ASSUME NEW r \in Requests, CountKeys(r) PROVE TypeOK'
  BY <1>4 DEF CountKeys, TypeOK
<1>5. ASSUME NEW r \in Requests, Lookup(r) PROVE TypeOK'
  BY <1>5 DEF Lookup, TypeOK
<1>6. ASSUME NEW r \in Requests, Decode(r) \/ MergedWhitelist(r) PROVE TypeOK'
  <2>1. updates \in 0 .. MaxUpdates
    BY DEF TypeOK
  <2> QED BY <1>6, <2>1 DEF Decode, MergedWhitelist, DefaultWhitelist, TypeOK
<1>7. CASE Tick
  BY <1>7, BoundsAssumption DEF Tick, TypeOK, Minutes
<1>8. CASE ApplyRuntimeConfig
  BY <1>8, BoundsAssumption DEF ApplyRuntimeConfig, TypeOK
<1>9. CASE UNCHANGED vars
  BY <1>9 DEF vars, TypeOK
<1> QED BY <1>1, <1>2, <1>3, <1>4, <1>5, <1>6, <1>7, <1>8, <1>9 DEF Next

\* Every value the server keeps has the type its readers expect.
THEOREM TypeCorrect == Spec => []TypeOK
<1>1. Init => TypeOK
  BY BoundsAssumption DEF Init, TypeOK, RateKeys, Minutes
<1> QED BY <1>1, StepTyped, PTL DEF Spec

-----------------------------------------------------------------------------
(* A window never counts more than was let through. *)

WindowCounted ==
  \A k \in DOMAIN windows : windows[k].count <= allowed[k][windows[k].minute]

\* Letting a request through raises one entry of allowed, and lowers none.
LEMMA AllowedGrows ==
  ASSUME TypeOK, NEW r \in Requests, Allow(r)
  PROVE  /\ allowed'[rateKey(r)][stamp[r]] = allowed[rateKey(r)][stamp[r]] + 1
         /\ \A k \in RateKeys, m \in Minutes : allowed'[k][m] >= allowed[k][m]
         /\ \A k \in RateKeys, m \in Minutes :
              <<k, m>> # <<rateKey(r), stamp[r]>> => allowed'[k][m] = allowed[k][m]
<1>1. rateKey(r) \in RateKeys /\ stamp[r] \in Minutes
  BY RateKeyType DEF TypeOK
<1> QED BY <1>1 DEF Allow, TypeOK

\* What letting a request through does to the windows.
LEMMA WindowMoves ==
  ASSUME TypeOK, NEW r \in Requests, Allow(r)
  PROVE  LET k == rateKey(r)
             m == stamp[r]
         IN  /\ DOMAIN windows' = DOMAIN windows \cup {k}
             /\ \A x \in DOMAIN windows : x # k => windows'[x] = windows[x]
             /\ windows'[k].minute = m
             /\ \/ /\ k \in DOMAIN windows => windows[k].minute # m
                   /\ windows'[k].count = 1
                \/ /\ k \in DOMAIN windows /\ windows[k].minute = m
                   /\ windows[k].count < Limit
                   /\ windows'[k].count = windows[k].count + 1
  BY LimitIsPositive DEF Allow, NewWindow, SetWindow, Full, TypeOK

\* A step other than an Allow leaves the rate limit's state alone.
LEMMA OnlyAllowCounts ==
  ASSUME [Next]_vars, \A r \in Requests : ~Allow(r)
  PROVE  UNCHANGED <<windows, allowed, late>>
  BY DEF Next, vars, Arrive, TooMany, CountKeys, Lookup, Decode, MergedWhitelist, Tick, ApplyRuntimeConfig, rest, defaults, history

\* RefusedOnlyAtLimit: a request turned away with 429 was preceded, in the
\* minute it read, by Limit requests with its rate key that were let through.
THEOREM RefusalsAreDue == Spec => []RefusedOnlyAtLimit
<1> DEFINE Inv == WindowCounted /\ RefusedOnlyAtLimit
<1>1. Init => Inv
  BY DEF Init, WindowCounted, RefusedOnlyAtLimit
<1>2. TypeOK /\ Inv /\ [Next]_vars => Inv'
  <2> SUFFICES ASSUME TypeOK, Inv, [Next]_vars PROVE Inv'
    OBVIOUS
  <2>1. WindowCounted'
    <3>1. ASSUME NEW r \in Requests, Allow(r) PROVE WindowCounted'
      <4> SUFFICES ASSUME NEW k \in DOMAIN windows'
                   PROVE  windows'[k].count <= allowed'[k][windows'[k].minute]
        BY DEF WindowCounted
      <4>a. /\ DOMAIN windows' = DOMAIN windows \cup {rateKey(r)}
            /\ \A x \in DOMAIN windows : x # rateKey(r) => windows'[x] = windows[x]
            /\ windows'[rateKey(r)].minute = stamp[r]
            /\ \/ windows'[rateKey(r)].count = 1
               \/ /\ rateKey(r) \in DOMAIN windows
                  /\ windows[rateKey(r)].minute = stamp[r]
                  /\ windows'[rateKey(r)].count = windows[rateKey(r)].count + 1
        BY <3>1, WindowMoves
      <4>1. CASE k = rateKey(r)
        <5>1. k \in RateKeys /\ stamp[r] \in Minutes /\ allowed[k][stamp[r]] \in Nat
          BY <4>1, RateKeyType DEF TypeOK
        <5>2. k \in DOMAIN windows => windows[k].count \in Nat
          BY LimitIsPositive DEF TypeOK
        <5> QED BY <3>1, <4>a, <4>1, <5>1, <5>2, AllowedGrows DEF WindowCounted
      <4>2. CASE k # rateKey(r)
        <5>1. k \in DOMAIN windows /\ windows'[k] = windows[k]
          BY <4>a, <4>2
        <5>2. k \in RateKeys /\ windows[k].minute \in Minutes
          BY <5>1 DEF TypeOK
        <5> QED BY <3>1, <4>2, <5>1, <5>2, AllowedGrows DEF WindowCounted
      <4> QED BY <4>1, <4>2
    <3> QED BY <3>1, OnlyAllowCounts DEF WindowCounted
  <2>2. RefusedOnlyAtLimit'
    <3>a. key' = key /\ client' = client
      BY DEF Next, vars, Arrive, Allow, TooMany, CountKeys, Lookup, Decode, MergedWhitelist, Tick,
             ApplyRuntimeConfig, rest, defaults, history, request
    <3> SUFFICES ASSUME NEW q \in Requests, pc'[q] = "tooMany"
                 PROVE  allowed'[rateKey(q)][stamp'[q]] >= Limit
      BY <3>a DEF RefusedOnlyAtLimit, rateKey
    <3>1. rateKey(q) \in RateKeys /\ stamp[q] \in Minutes
      BY RateKeyType DEF TypeOK
    <3>2. ASSUME pc[q] = "tooMany" PROVE stamp'[q] = stamp[q]
      BY <3>2 DEF Next, vars, Arrive, Allow, TooMany, CountKeys, Lookup, Decode, MergedWhitelist, Tick,
               ApplyRuntimeConfig, rest, defaults, history, request, At, TypeOK
    <3>3. allowed'[rateKey(q)][stamp[q]] >= allowed[rateKey(q)][stamp[q]]
      <4>1. allowed[rateKey(q)][stamp[q]] \in Nat
        BY <3>1 DEF TypeOK
      <4> QED BY <3>1, <4>1, AllowedGrows, OnlyAllowCounts
    <3>4. CASE pc[q] = "tooMany"
      <4>1. allowed[rateKey(q)][stamp[q]] >= Limit
        BY <3>4 DEF RefusedOnlyAtLimit
      <4>2. /\ allowed[rateKey(q)][stamp[q]] \in Nat
            /\ allowed'[rateKey(q)][stamp[q]] \in Nat
        <5>1. TypeOK'
          BY StepTyped
        <5> QED BY <3>1, <5>1 DEF TypeOK
      <4> QED BY <3>2, <3>3, <3>4, <4>1, <4>2, LimitIsPositive
    <3>5. CASE pc[q] # "tooMany"
      <4>1. TooMany(q)
        BY <3>5 DEF Next, vars, Arrive, Allow, TooMany, CountKeys, Lookup, Decode, MergedWhitelist, Tick,
               ApplyRuntimeConfig, rest, defaults, history, At, TypeOK
      <4>2. /\ rateKey(q) \in DOMAIN windows /\ windows[rateKey(q)].minute = stamp[q]
            /\ windows[rateKey(q)].count >= Limit
            /\ stamp' = stamp /\ allowed' = allowed
        BY <4>1 DEF TooMany, NewWindow, Full, history
      <4>3. windows[rateKey(q)].count \in Nat /\ allowed[rateKey(q)][stamp[q]] \in Nat
        BY <3>1, <4>2 DEF TypeOK
      <4> QED BY <4>2, <4>3, LimitIsPositive DEF WindowCounted
    <3> QED BY <3>4, <3>5
  <2> QED BY <2>1, <2>2
<1>3. Inv => RefusedOnlyAtLimit
  OBVIOUS
<1> QED BY <1>1, <1>2, <1>3, TypeCorrect, PTL DEF Spec

-----------------------------------------------------------------------------
(***************************************************************************)
(* The limit.  That a minute's count stays within the limit is inductive    *)
(* only with the count the window holds, and with the minutes ahead of the  *)
(* window being unused.                                                    *)
(***************************************************************************)

CountedExactly ==
  \A k \in RateKeys \ late, m \in Minutes :
    /\ k \notin DOMAIN windows => allowed[k][m] = 0
    /\ k \in DOMAIN windows =>
         /\ m = windows[k].minute => allowed[k][m] = windows[k].count
         /\ m > windows[k].minute => allowed[k][m] = 0

\* LimitInOrder: a rate key whose requests reach the lock in the order of
\* their minutes is never let through more than Limit times in a minute.
THEOREM LimitHoldsInOrder == Spec => []LimitInOrder
<1> DEFINE Inv == CountedExactly /\ LimitInOrder
<1>1. Init => Inv
  BY LimitIsPositive DEF Init, CountedExactly, LimitInOrder
<1>2. TypeOK /\ Inv /\ [Next]_vars => Inv'
  <2> SUFFICES ASSUME TypeOK, Inv, [Next]_vars PROVE Inv'
    OBVIOUS
  <2>1. ASSUME NEW r \in Requests, Allow(r) PROVE Inv'
    <3> DEFINE rk == rateKey(r)
               rm == stamp[r]
    <3>1. /\ late \subseteq late'
          /\ rk \notin late' => (rk \in DOMAIN windows => ~(rm < windows[rk].minute))
      BY <2>1 DEF Allow
    <3>2. /\ allowed'[rk][rm] = allowed[rk][rm] + 1
          /\ \A k \in RateKeys, m \in Minutes :
               <<k, m>> # <<rk, rm>> => allowed'[k][m] = allowed[k][m]
      BY <2>1, AllowedGrows
    <3>3. /\ DOMAIN windows' = DOMAIN windows \cup {rk}
          /\ \A x \in DOMAIN windows : x # rk => windows'[x] = windows[x]
          /\ windows'[rk].minute = rm
          /\ \/ (rk \in DOMAIN windows => windows[rk].minute # rm) /\ windows'[rk].count = 1
             \/ /\ rk \in DOMAIN windows /\ windows[rk].minute = rm
                /\ windows[rk].count < Limit
                /\ windows'[rk].count = windows[rk].count + 1
      BY <2>1, WindowMoves
    <3>4. rk \in RateKeys /\ rm \in Minutes /\ rm \in Int
      BY RateKeyType, BoundsAssumption DEF TypeOK, Minutes
    <3>5. SUFFICES ASSUME NEW k \in RateKeys \ late', NEW m \in Minutes
                   PROVE  /\ k \notin DOMAIN windows' => allowed'[k][m] = 0
                          /\ k \in DOMAIN windows' =>
                               /\ m = windows'[k].minute => allowed'[k][m] = windows'[k].count
                               /\ m > windows'[k].minute => allowed'[k][m] = 0
                          /\ allowed'[k][m] <= Limit
      BY DEF CountedExactly, LimitInOrder
    <3>6. /\ k \notin DOMAIN windows => allowed[k][m] = 0
          /\ k \in DOMAIN windows =>
               /\ m = windows[k].minute => allowed[k][m] = windows[k].count
               /\ m > windows[k].minute => allowed[k][m] = 0
          /\ allowed[k][m] <= Limit
      BY <3>1 DEF CountedExactly, LimitInOrder
    <3>7. CASE k # rk
      BY <3>2, <3>3, <3>6, <3>7
    <3>8. CASE k = rk
      <4>1. m \in Int /\ (rk \in DOMAIN windows =>
                            windows[rk].minute \in Int /\ windows[rk].count \in Int)
        BY LimitIsPositive, BoundsAssumption DEF TypeOK, Minutes
      <4>2. rk \in DOMAIN windows => windows[rk].minute <= rm
        BY <3>1, <3>4, <3>8, <4>1
      <4>3. CASE m = rm
        BY <3>2, <3>3, <3>4, <3>6, <3>8, <4>1, <4>2, <4>3, LimitIsPositive
      <4>4. CASE m # rm
        <5>1. allowed'[k][m] = allowed[k][m]
          BY <3>2, <3>8, <4>4
        <5> QED BY <3>3, <3>4, <3>6, <3>8, <4>1, <4>2, <4>4, <5>1
      <4> QED BY <4>3, <4>4
    <3> QED BY <3>7, <3>8
  <2>2. CASE \A r \in Requests : ~Allow(r)
    BY <2>2, OnlyAllowCounts DEF CountedExactly, LimitInOrder
  <2> QED BY <2>1, <2>2
<1>3. Inv => LimitInOrder
  OBVIOUS
<1> QED BY <1>1, <1>2, <1>3, TypeCorrect, PTL DEF Spec

-----------------------------------------------------------------------------
(***************************************************************************)
(* The key check reads the keys twice.  What it has seen is among the sets  *)
(* in force during the call: the present one, always, and after the first   *)
(* read one that was not empty.                                            *)
(***************************************************************************)

SeenInCall ==
  \A r \in Requests :
    /\ InCall(r) => keys \in inForce[r]
    /\ pc[r] = "lookup" => \E c \in inForce[r] : c # {}

\* AuthHasReason: neither answer of the key check is without a reason in the
\* keys that were configured while it ran.
THEOREM AuthIsReasoned == Spec => []AuthHasReason
<1> DEFINE Inv == SeenInCall /\ AuthHasReason
<1>1. Init => Inv
  BY DEF Init, SeenInCall, AuthHasReason, InCall
<1>2. TypeOK /\ Inv /\ [Next]_vars => Inv'
  <2> SUFFICES ASSUME TypeOK, Inv, [Next]_vars PROVE Inv'
    OBVIOUS
  <2> USE DEF At, request, rest, defaults, history, InCall, SeenInCall, AuthHasReason, TypeOK
  <2>1. ASSUME NEW r \in Requests, Arrive(r) PROVE Inv'
    BY <2>1 DEF Arrive
  <2>2. ASSUME NEW r \in Requests, Allow(r) PROVE Inv'
    BY <2>2 DEF Allow
  <2>3. ASSUME NEW r \in Requests, TooMany(r) PROVE Inv'
    BY <2>3 DEF TooMany
  <2>4. ASSUME NEW r \in Requests, CountKeys(r) PROVE Inv'
    <3>1. key[r] = NoKey => key[r] \notin keys
      BY NoKeyAssumption
    <3>2. CASE keys = {} /\ At(r, "auth", "decode")
      BY <2>4, <3>2 DEF CountKeys
    <3>3. CASE keys # {} /\ key[r] # NoKey /\ At(r, "auth", "lookup")
      BY <2>4, <3>3 DEF CountKeys
    <3>4. CASE keys # {} /\ key[r] = NoKey /\ At(r, "auth", "unauthorized")
      BY <2>4, <3>1, <3>4 DEF CountKeys
    <3> QED BY <2>4, <3>2, <3>3, <3>4 DEF CountKeys
  <2>5. ASSUME NEW r \in Requests, Lookup(r) PROVE Inv'
    BY <2>5 DEF Lookup, Known
  <2>6. ASSUME NEW r \in Requests, Decode(r) \/ MergedWhitelist(r) PROVE Inv'
    <3>1. CASE Decode(r)
      BY ZenonT(60), <3>1 DEF Decode
    <3>2. CASE MergedWhitelist(r)
      BY <3>2 DEF MergedWhitelist
    <3> QED BY <2>6, <3>1, <3>2
  <2>7. CASE Tick
    BY <2>7 DEF Tick
  <2>8. CASE ApplyRuntimeConfig
    BY <2>8 DEF ApplyRuntimeConfig
  <2>9. CASE UNCHANGED vars
    BY <2>9 DEF vars
  <2> QED BY <2>1, <2>2, <2>3, <2>4, <2>5, <2>6, <2>7, <2>8, <2>9 DEF Next
<1>3. Inv => AuthHasReason
  OBVIOUS
<1> QED BY <1>1, <1>2, <1>3, TypeCorrect, PTL DEF Spec

-----------------------------------------------------------------------------
(* What a call has read of the defaults so far, all of it since it arrived. *)

ReadInCall ==
  \A r \in Requests :
    /\ InCall(r) => since[r] <= updates
    /\ pc[r] \in {"whitelist", "served"} =>
         \A d \in dets[r] : since[r] <= d /\ d <= updates

\* DefaultsInOrder: no scan has a whitelist older than its detectors, nor
\* defaults that were replaced before its request arrived.
THEOREM DefaultsAreInOrder == Spec => []DefaultsInOrder
<1> DEFINE Inv == ReadInCall /\ DefaultsInOrder
<1>1. Init => Inv
  BY DEF Init, ReadInCall, DefaultsInOrder, InCall
<1>2. TypeOK /\ Inv /\ [Next]_vars => Inv'
  <2> SUFFICES ASSUME TypeOK, Inv, [Next]_vars PROVE Inv'
    OBVIOUS
  <2>a. /\ updates \in Nat
        /\ \A q \in Requests : since[q] \in Nat /\ dets[q] \subseteq Nat /\ wl[q] \subseteq Nat
    BY BoundsAssumption DEF TypeOK
  <2> USE DEF At, request, rest, defaults, history, InCall, ReadInCall, DefaultsInOrder
  <2>1. ASSUME NEW r \in Requests, Arrive(r) PROVE Inv'
    BY <2>1, <2>a DEF Arrive, TypeOK
  <2>2. ASSUME NEW r \in Requests,
               Allow(r) \/ TooMany(r) \/ CountKeys(r) \/ Lookup(r)
        PROVE  Inv'
    BY <2>2 DEF Allow, TooMany, CountKeys, Lookup, TypeOK
  <2>3. ASSUME NEW r \in Requests, Decode(r) PROVE Inv'
    BY SMTT(30), <2>3, <2>a DEF Decode, TypeOK
  <2>4. ASSUME NEW r \in Requests, MergedWhitelist(r) PROVE Inv'
    BY <2>4, <2>a DEF MergedWhitelist, DefaultWhitelist, TypeOK
  <2>5. CASE Tick
    BY <2>5 DEF Tick
  <2>6. CASE ApplyRuntimeConfig
    BY <2>6, <2>a DEF ApplyRuntimeConfig
  <2>7. CASE UNCHANGED vars
    BY <2>7 DEF vars
  <2> QED BY <2>1, <2>2, <2>3, <2>4, <2>5, <2>6, <2>7 DEF Next
<1>3. Inv => DefaultsInOrder
  OBVIOUS
<1> QED BY <1>1, <1>2, <1>3, TypeCorrect, PTL DEF Spec

=============================================================================
