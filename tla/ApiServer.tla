------------------------------ MODULE ApiServer ------------------------------
(***************************************************************************)
(* POST /scan and POST /anonymize (internal/api/server.go): the rate limit, *)
(* the optional key check and the handler, which read the shared runtime   *)
(* settings in critical sections of their own - the key hashes in two, the *)
(* default detectors and the default whitelist in one each - while         *)
(* applyRuntimeConfig replaces them all, and a clock that may strike        *)
(* between reading it and using it.  The defaults are known by the call of  *)
(* applyRuntimeConfig that stored them; what a scan does with them is the   *)
(* matter of Scanner.                                                      *)
(***************************************************************************)
EXTENDS Integers

CONSTANTS
  Requests,   \* HTTP requests
  Clients,    \* addresses they come from
  Keys,       \* values of X-Api-Key or of a bearer token
  NoKey,      \* a request without either
  KeySets,    \* sets of keys that may be configured
  Limit,      \* apiRateLimitPerMinute
  MaxMinute,  \* bound on the clock
  MaxUpdates  \* bound on the calls of applyRuntimeConfig

ASSUME LimitAssumption == Limit \in Nat \ {0}
ASSUME BoundsAssumption == MaxMinute \in Nat /\ MaxUpdates \in Nat
ASSUME NoKeyAssumption == NoKey \notin Keys \cup Clients /\ KeySets \subseteq SUBSET Keys

Minutes == 0 .. MaxMinute

\* rateKey: the key of a request if it has one, else its address.
RateKeys == Keys \cup Clients

VARIABLES
  now,      \* time.Now().Unix()/60
  keys,     \* rtKeyHashes, under rtMu
  updates,  \* calls of applyRuntimeConfig so far; names rtDefDetectors and
            \* rtDefWhitelist, which the last one stored
  windows,  \* rtRateState: rate key -> [minute, count]
  pc,       \* where each request is
  client, key,  \* what it brings
  stamp,    \* the minute it read
  dets, wl, \* the defaults it scans with: at most one of each
  since,    \* history: the defaults stored when it arrived
  inForce,  \* history: the sets of keys in force since it arrived
  allowed,  \* history: requests let through, by rate key and minute
  late      \* history: the rate keys used with a minute that was over

request == <<client, key>>
defaults == <<dets, wl>>
history == <<since, inForce, allowed, late>>
vars == <<now, keys, updates, windows, pc, request, stamp, defaults, history>>

rateKey(r) == IF key[r] = NoKey THEN client[r] ELSE key[r]

Init ==
  /\ now = 0
  /\ keys \in KeySets
  /\ updates = 0
  /\ windows = [k \in {} |-> {}]
  /\ pc = [r \in Requests |-> "idle"]
  /\ client \in [Requests -> Clients]
  /\ key \in [Requests -> Keys \cup {NoKey}]
  /\ stamp = [r \in Requests |-> 0]
  /\ dets = [r \in Requests |-> {}] /\ wl = dets
  /\ since = [r \in Requests |-> 0]
  /\ inForce = [r \in Requests |-> {}]
  /\ allowed = [k \in RateKeys |-> [m \in Minutes |-> 0]]
  /\ late = {}

-----------------------------------------------------------------------------
At(r, here, there) == pc[r] = here /\ pc' = [pc EXCEPT ![r] = there]

\* rateLimit reads the clock before it waits for the lock.
Arrive(r) ==
  /\ At(r, "idle", "limit")
  /\ stamp' = [stamp EXCEPT ![r] = now]
  /\ since' = [since EXCEPT ![r] = updates]
  /\ inForce' = [inForce EXCEPT ![r] = {keys}]
  /\ UNCHANGED <<now, keys, updates, windows, request, defaults, allowed, late>>

(* allowRequest, under rtRateMu. *)

\* Fault: a window never ends.
NoWindow(k, m) == k \notin DOMAIN windows

NewWindow(k, m) == k \in DOMAIN windows => windows[k].minute # m

\* Fault: one request too many.
FullAfterLimit(k) == windows[k].count > Limit

Full(k) == windows[k].count >= Limit

\* Fault: the counted copy is not stored.
CountACopy(k, m, n) ==
  windows' = [x \in DOMAIN windows \cup {k} |->
                IF x = k THEN [minute |-> m, count |-> 1] ELSE windows[x]]

SetWindow(k, m, n) ==
  windows' = [x \in DOMAIN windows \cup {k} |->
                IF x = k THEN [minute |-> m, count |-> n] ELSE windows[x]]

Allow(r) ==
  LET k == rateKey(r)
      m == stamp[r]
  IN  /\ At(r, "limit", "auth")
      /\ \/ NewWindow(k, m) /\ SetWindow(k, m, 1)
         \/ ~NewWindow(k, m) /\ ~Full(k) /\ SetWindow(k, m, windows[k].count + 1)
      /\ allowed' = [allowed EXCEPT ![k][m] = @ + 1]
      /\ late' = IF k \in DOMAIN windows /\ m < windows[k].minute THEN late \cup {k} ELSE late
      /\ UNCHANGED <<now, keys, updates, request, stamp, defaults, since, inForce>>

TooMany(r) ==
  LET k == rateKey(r)
  IN  /\ At(r, "limit", "tooMany")
      /\ ~NewWindow(k, stamp[r]) /\ Full(k)
      /\ UNCHANGED <<now, keys, updates, windows, request, stamp, defaults, history>>

-----------------------------------------------------------------------------
(* apiKeyAuth: how many keys are there?  Is this one of them? *)

rest == <<now, keys, updates, windows, request, stamp, history>>

CountKeys(r) ==
  /\ \/ keys = {} /\ At(r, "auth", "decode")
     \/ keys # {} /\ key[r] # NoKey /\ At(r, "auth", "lookup")
     \/ keys # {} /\ key[r] = NoKey /\ At(r, "auth", "unauthorized")
  /\ UNCHANGED <<rest, defaults>>

\* Fault: any key will do as long as some are configured.
AnyKey(r) == keys # {}

Known(r) == key[r] \in keys

Lookup(r) ==
  /\ At(r, "lookup", IF Known(r) THEN "decode" ELSE "unauthorized")
  /\ UNCHANGED <<rest, defaults>>

(* handleScan and handleAnonymize. *)

\* The body is no JSON, or has detectors of its own, or gets the default ones.
Decode(r) ==
  /\ \/ At(r, "decode", "badRequest") /\ UNCHANGED dets
     \/ At(r, "decode", "whitelist") /\ \E d \in {{}, {updates}} : dets' = [dets EXCEPT ![r] = d]
  /\ UNCHANGED <<rest, wl>>

\* Fault: the defaults the server started with.
FirstDefaults(r) == 0

DefaultWhitelist(r) == updates

MergedWhitelist(r) ==
  /\ At(r, "whitelist", "served")
  /\ wl' = [wl EXCEPT ![r] = {DefaultWhitelist(r)}]
  /\ UNCHANGED <<rest, dets>>

-----------------------------------------------------------------------------
Tick ==
  /\ now < MaxMinute /\ now' = now + 1
  /\ UNCHANGED <<keys, updates, windows, pc, request, stamp, defaults, history>>

InCall(r) == pc[r] \in {"limit", "auth", "lookup", "decode", "whitelist"}

ApplyRuntimeConfig ==
  /\ updates < MaxUpdates /\ updates' = updates + 1
  /\ keys' \in KeySets
  /\ inForce' = [r \in Requests |-> IF InCall(r) THEN inForce[r] \cup {keys'} ELSE inForce[r]]
  /\ UNCHANGED <<now, windows, pc, request, stamp, defaults, since, allowed, late>>

Next ==
  \/ \E r \in Requests :
       \/ Arrive(r) \/ Allow(r) \/ TooMany(r) \/ CountKeys(r) \/ Lookup(r)
       \/ Decode(r) \/ MergedWhitelist(r)
  \/ Tick
  \/ ApplyRuntimeConfig

Spec == Init /\ [][Next]_vars

-----------------------------------------------------------------------------
(***************************************************************************)
(* Properties                                                              *)
(***************************************************************************)

\* The types of the variables.
TypeOK ==
  /\ now \in Minutes /\ keys \in KeySets /\ updates \in 0 .. MaxUpdates
  /\ DOMAIN windows \subseteq RateKeys
  /\ \A k \in DOMAIN windows : windows[k] \in [minute : Minutes, count : 1 .. Limit]
  /\ pc \in [Requests -> {"idle", "limit", "auth", "lookup", "decode", "whitelist",
                          "served", "tooMany", "unauthorized", "badRequest"}]
  /\ client \in [Requests -> Clients] /\ key \in [Requests -> Keys \cup {NoKey}]
  /\ stamp \in [Requests -> Minutes]
  /\ {dets, wl} \subseteq [Requests -> SUBSET (0 .. MaxUpdates)]
  /\ since \in [Requests -> 0 .. MaxUpdates]
  /\ inForce \in [Requests -> SUBSET KeySets]
  /\ allowed \in [RateKeys -> [Minutes -> Nat]]
  /\ late \subseteq RateKeys

\* A request is turned away only when as many as the limit with the same
\* rate key were let through in its minute, also when windows were reset.
RefusedOnlyAtLimit ==
  \A r \in Requests : pc[r] = "tooMany" => allowed[rateKey(r)][stamp[r]] >= Limit

\* The limit holds for every rate key whose requests reach the lock in the
\* order of their minutes.
LimitInOrder ==
  \A k \in RateKeys \ late : \A m \in Minutes : allowed[k][m] <= Limit

\* A request is served only if at some moment of the call its key was
\* configured or none was.  It is turned away only if at some moment keys
\* were configured and at some moment its own was not among them: two
\* moments, because the code looks twice, and a valid key is turned away when
\* the last key is deleted in between.
AuthHasReason ==
  \A r \in Requests :
    /\ pc[r] \in {"decode", "whitelist", "served"} =>
         \E c \in inForce[r] : c = {} \/ key[r] \in c
    /\ pc[r] = "unauthorized" =>
         /\ \E c \in inForce[r] : c # {}
         /\ \E c \in inForce[r] : key[r] \notin c

\* A scan may pair the detectors of one call of applyRuntimeConfig with the
\* whitelist of a later one, never of an earlier one, and both were stored
\* when the request arrived or after that.
DefaultsInOrder ==
  \A r \in Requests : pc[r] = "served" =>
    \A w \in wl[r] : since[r] <= w /\ \A d \in dets[r] : since[r] <= d /\ d <= w

=============================================================================
