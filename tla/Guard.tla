-------------------------------- MODULE Guard --------------------------------
(***************************************************************************)
(* internal/proxy/guard.go: calls of Guard.Apply, which masks a request    *)
(* body string by string, racing with UpdateConfig, which replaces the     *)
(* scanner and the configuration.  Every string is masked under a read     *)
(* lock of its own.                                                        *)
(*                                                                         *)
(* The lock is Go's sync.RWMutex: a writer that waits holds back the       *)
(* readers that come after it, and gets the lock when the earlier ones     *)
(* have left.                                                              *)
(***************************************************************************)
EXTENDS Integers, Sequences, FiniteSets, SequencesExt

CONSTANTS
  Requests,     \* the calls of Apply, one per HTTP request
  Bodies,       \* the request bodies
  GuardConfigs, \* records [detectors, whitelist, dryRun]
  Types,        \* the PiiType values
  MaxUpdates,   \* bound on the calls of UpdateConfig
  Scan(_, _, _) \* ScanWithWhitelist(text), given detectors, text, whitelist:
                \* [text, findings], a finding being [type, placeholder]

ASSUME MaxUpdatesAssumption == MaxUpdates \in Nat

(* A body is [kind, fields].  kind is "empty", "json" (the body is a JSON  *)
(* object) or "raw" (any other text).  fields are the strings of the body  *)
(* in the order they stand in it, each with its place:                     *)
(*   role   of the message it belongs to; "none" outside the messages      *)
(*   block  the type of its content block; "string" when the content of    *)
(*          the message is a string; "raw" in a body that is no object     *)
(*   at     the number of that block in the body                           *)
(*   path   the containers passed between the block and the string, each   *)
(*          "map" or "list"                                                *)
(*   text   the string itself                                              *)
(* A string under a map of a tool_result list is the one with key "text".  *)

ASSUME BodiesAssumption ==
  \A b \in Bodies : \A i \in DOMAIN b.fields : b.fields[i].block = "raw" => b.kind = "raw"

IsPlaceholder(x) == Len(x) = 2

\* The places of the placeholders in a text.
Spots(text) == {q \in DOMAIN text : IsPlaceholder(text[q])}

(* What ScanContract promises of a scan: each finding it reports has been  *)
(* replaced by its placeholder, a type and a number, and nothing else has. *)
ASSUME ScanAssumption ==
  \A c \in GuardConfigs, b \in Bodies : \A i \in DOMAIN b.fields :
    LET text == b.fields[i].text
        scan == Scan(c.detectors, text, c.whitelist)
        fs == scan.findings
    IN  /\ Spots(text) = {}
        /\ fs \in Seq([type : Types, placeholder : Types \X Nat])
        /\ \A k \in DOMAIN fs : fs[k].type = fs[k].placeholder[1]
        /\ IsFiniteSet(DOMAIN scan.text)
        /\ Cardinality(Spots(scan.text)) = Len(fs)
        /\ {scan.text[q] : q \in Spots(scan.text)} = {fs[k].placeholder : k \in DOMAIN fs}

VARIABLES
  scanner,   \* Guard.scanner, by the detector list it was built from
  cfg,       \* Guard.cfg
  pending,   \* the argument of the UpdateConfig that is at mu.Lock, or {}
  updates,   \* calls of UpdateConfig so far
  holds,     \* read locks held by each request
  pc,        \* where each request is in Apply
  body,      \* its argument
  snap,      \* the local copy cfg of Apply
  inForce,   \* history: the configurations in force since the snapshot
  todo,      \* the fields it has still to mask
  out,       \* the texts of its fields, as masked so far
  found,     \* the findings collected so far
  summary    \* the ScanSummary it returned

guard == <<scanner, cfg>>
local == <<body, snap, inForce, todo, out, found, summary>>
vars == <<guard, pending, updates, holds, pc, local>>

EmptyBody == [kind |-> "empty", fields |-> <<>>]

EmptySummary ==
  [count |-> 0, types |-> [t \in Types |-> 0], placeholders |-> {}]

TextsOf(b) == [i \in DOMAIN b.fields |-> b.fields[i].text]

Init ==
  /\ \E c \in GuardConfigs : cfg = c /\ scanner = c.detectors
  /\ pending = {} /\ updates = 0
  /\ holds = [r \in Requests |-> 0]
  /\ pc = [r \in Requests |-> "idle"]
  /\ body = [r \in Requests |-> EmptyBody]
  /\ snap = [r \in Requests |-> cfg]
  /\ inForce = [r \in Requests |-> {}]
  /\ todo = [r \in Requests |-> {}]
  /\ out = [r \in Requests |-> <<>>]
  /\ found = [r \in Requests |-> <<>>]
  /\ summary = [r \in Requests |-> EmptySummary]

-----------------------------------------------------------------------------
(* What anonymiseClaudeCode and the functions below it reach: the strings  *)
(* of user messages in the shapes the Messages API gives them.             *)

AllMaps(path) == \A i \in DOMAIN path : path[i] = "map"

\* Fault: the role of the message is not looked at.
ReachedInAnyRole(f) ==
  \/ f.block \in {"raw", "string", "text"}
  \/ f.block = "tool_result" /\ f.path \in {<<>>, <<"list", "map">>}
  \/ f.block = "tool_use" /\ AllMaps(f.path)

Reached(f) ==
  \/ f.block = "raw"
  \/ /\ f.role = "user"
     /\ \/ f.block \in {"string", "text"}
        \/ f.block = "tool_result" /\ f.path \in {<<>>, <<"list", "map">>}
        \/ f.block = "tool_use" /\ AllMaps(f.path)

\* Strings are visited in their order, but those of one tool_use input,
\* which Go ranges over as a map, in any order.
MayPrecede(f, g) == f.at = g.at /\ f.block = "tool_use"

Turn(r, i) ==
  /\ i \in todo[r]
  /\ \A j \in todo[r] :
       j < i => MayPrecede(body[r].fields[i], body[r].fields[j])

-----------------------------------------------------------------------------
(* Summaries.  types counts how often the list PIITypes names each type.   *)

Count(fs, t) == Cardinality({k \in DOMAIN fs : fs[k].type = t})

FindingTypes(fs) == [t \in Types |-> Count(fs, t)]

UniqueFindingTypes(fs) == [t \in Types |-> IF Count(fs, t) > 0 THEN 1 ELSE 0]

UniquePlaceholders(fs) == {fs[k].placeholder : k \in DOMAIN fs}

Summary(fs, types) ==
  [count |-> Len(fs), types |-> types, placeholders |-> UniquePlaceholders(fs)]

-----------------------------------------------------------------------------
(* Apply *)

Call(r) ==
  /\ pc[r] = "idle"
  /\ \E b \in Bodies :
       /\ body' = [body EXCEPT ![r] = b]
       /\ out' = [out EXCEPT ![r] = TextsOf(b)]
       /\ pc' = [pc EXCEPT ![r] = IF b.kind = "empty" THEN "done" ELSE "called"]
  /\ UNCHANGED <<guard, pending, updates, holds, snap, inForce, todo, found, summary>>

\* mu.RLock of Apply ("called") and of maskWithTypes ("mask").
RLock(r) ==
  /\ \/ pc[r] = "called" /\ pc' = [pc EXCEPT ![r] = "snapshot"]
     \/ pc[r] = "mask" /\ todo[r] # {} /\ pc' = [pc EXCEPT ![r] = "scan"]
  /\ pending = {}
  /\ holds' = [holds EXCEPT ![r] = @ + 1]
  /\ UNCHANGED <<guard, pending, updates, local>>

\* Fault: the lock is not given back.
KeepLock(r) == UNCHANGED holds

RUnlock(r) == holds' = [holds EXCEPT ![r] = @ - 1]

\* The reads of Apply, when they find no dry run.
Snapshot(r) ==
  /\ pc[r] = "snapshot" /\ ~cfg.dryRun
  /\ snap' = [snap EXCEPT ![r] = cfg]
  /\ inForce' = [inForce EXCEPT ![r] = {cfg}]
  /\ RUnlock(r)
  /\ todo' = [todo EXCEPT ![r] =
                {i \in DOMAIN body[r].fields :
                   Reached(body[r].fields[i]) /\ body[r].fields[i].text # <<>>}]
  /\ pc' = [pc EXCEPT ![r] = "mask"]
  /\ UNCHANGED <<guard, pending, updates, body, out, found, summary>>

\* A dry run scans the body as one text, with its copies of the scanner and
\* the configuration, and returns the body as it came.
DryRun(r) ==
  /\ pc[r] = "snapshot" /\ cfg.dryRun
  /\ snap' = [snap EXCEPT ![r] = cfg]
  /\ inForce' = [inForce EXCEPT ![r] = {cfg}]
  /\ RUnlock(r)
  /\ LET fs == Scan(scanner, FlattenSeq(TextsOf(body[r])), cfg.whitelist).findings
     IN  summary' = [summary EXCEPT ![r] = Summary(fs, UniqueFindingTypes(fs))]
  /\ pc' = [pc EXCEPT ![r] = "done"]
  /\ UNCHANGED <<guard, pending, updates, body, todo, out, found>>

\* Fault: the findings of a string replace those of the strings before it.
KeepLast(fs, more) == more

Collect(fs, more) == fs \o more

\* maskWithTypes on one string, and what its caller does with the result: a
\* field of an object counts only when the scan changed it.
Mask(r, i) ==
  LET text == body[r].fields[i].text
      scan == Scan(scanner, text, cfg.whitelist)
  IN  /\ pc[r] = "scan" /\ Turn(r, i)
      /\ out' = [out EXCEPT ![r][i] = scan.text]
      /\ found' = IF body[r].kind = "json" /\ scan.text = text
                  THEN found
                  ELSE [found EXCEPT ![r] = Collect(@, scan.findings)]
      /\ todo' = [todo EXCEPT ![r] = @ \ {i}]
      /\ RUnlock(r)
      /\ pc' = [pc EXCEPT ![r] = "mask"]
      /\ UNCHANGED <<guard, pending, updates, body, snap, inForce, summary>>

Return(r) ==
  LET types == IF body[r].kind = "json" THEN UniqueFindingTypes(found[r])
                                        ELSE FindingTypes(found[r])
  IN  /\ pc[r] = "mask" /\ todo[r] = {}
      /\ summary' = [summary EXCEPT ![r] = Summary(found[r], types)]
      /\ pc' = [pc EXCEPT ![r] = "done"]
      /\ UNCHANGED <<guard, pending, updates, holds, body, snap, inForce, todo, out, found>>

-----------------------------------------------------------------------------
(* UpdateConfig: the wait for mu.Lock, and what it guards. *)

Lock ==
  /\ pending = {} /\ updates < MaxUpdates
  /\ \E c \in GuardConfigs : pending' = {c}
  /\ updates' = updates + 1
  /\ UNCHANGED <<guard, holds, pc, local>>

\* Fault: the scanner is not rebuilt.
InstallSettingsOnly(c) == cfg' = c /\ UNCHANGED scanner

Install(c) == scanner' = c.detectors /\ cfg' = c

UpdateConfig(c) ==
  /\ c \in pending
  /\ \A r \in Requests : holds[r] = 0
  /\ Install(c)
  /\ pending' = {}
  /\ inForce' = [r \in Requests |->
                   IF pc[r] = "mask" THEN inForce[r] \cup {c} ELSE inForce[r]]
  /\ UNCHANGED <<updates, holds, pc, body, snap, todo, out, found, summary>>

-----------------------------------------------------------------------------
MaskOne(r) == \E i \in todo[r] : Mask(r, i)

Apply(r) == RLock(r) \/ Snapshot(r) \/ DryRun(r) \/ MaskOne(r) \/ Return(r)

Update == \E c \in pending : UpdateConfig(c)

Next ==
  \/ \E r \in Requests : Call(r) \/ Apply(r)
  \/ Lock
  \/ Update

\* A call of Apply and a call of UpdateConfig go on whenever the lock lets
\* them: nothing in them waits for anything else.
Fairness == (\A r \in Requests : WF_vars(Apply(r))) /\ WF_vars(Update)

Spec == Init /\ [][Next]_vars

FairSpec == Spec /\ Fairness

-----------------------------------------------------------------------------
(***************************************************************************)
(* Properties                                                              *)
(***************************************************************************)

\* The types of the variables; a read lock is held where the code reads.
TypeOK ==
  /\ cfg \in GuardConfigs
  /\ pending \subseteq GuardConfigs /\ Cardinality(pending) <= 1
  /\ updates \in 0 .. MaxUpdates
  /\ pc \in [Requests -> {"idle", "called", "snapshot", "mask", "scan", "done"}]
  /\ body \in [Requests -> Bodies \cup {EmptyBody}]
  /\ snap \in [Requests -> GuardConfigs]
  /\ inForce \in [Requests -> SUBSET GuardConfigs]
  /\ \A r \in Requests :
       /\ holds[r] = IF pc[r] \in {"snapshot", "scan"} THEN 1 ELSE 0
       /\ todo[r] \subseteq DOMAIN body[r].fields
       /\ DOMAIN out[r] = DOMAIN body[r].fields
       /\ pc[r] = "scan" => todo[r] # {}
       /\ pc[r] \in {"idle", "called", "snapshot"} => todo[r] = {}

Masked(text, c) == Scan(c.detectors, text, c.whitelist).text

\* However updates interleave with a call, each string that it masks is
\* masked by one configuration, detectors and whitelist together, and that
\* one was in force at some time during the call.
FieldsLinearizable ==
  \A r \in Requests : pc[r] = "done" /\ body[r].kind # "empty" /\ ~snap[r].dryRun =>
    \A i \in DOMAIN body[r].fields :
      LET f == body[r].fields[i]
      IN  Reached(f) => \/ f.text = <<>>
                        \/ \E c \in inForce[r] : out[r][i] = Masked(f.text, c)

\* The system prompt, the assistant's messages and, in a dry run, the whole
\* body go upstream as they came, at every moment of the call.
OnlyUserTextMasked ==
  \A r \in Requests : \A i \in DOMAIN body[r].fields :
    out[r][i] # body[r].fields[i].text =>
      /\ ~snap[r].dryRun
      /\ body[r].kind = "raw" \/ body[r].fields[i].role = "user"

\* The summary that the log and the metrics record is an account of what was
\* replaced: it counts each replacement once and names the placeholders
\* and the types that occur in the body sent upstream, and no others.
SummaryAccountsForBody ==
  \A r \in Requests : pc[r] = "done" /\ ~snap[r].dryRun =>
    LET replaced == UNION {{<<i, q>> : q \in Spots(out[r][i])} : i \in DOMAIN out[r]}
        names == {out[r][x[1]][x[2]] : x \in replaced}
    IN  /\ summary[r].count = Cardinality(replaced)
        /\ summary[r].placeholders = names
        /\ {t \in Types : summary[r].types[t] > 0} = {p[1] : p \in names}

\* Every call of Apply returns, although it takes the lock again and again
\* and a waiting writer holds back its later read locks.
CallReturns == \A r \in Requests : pc[r] # "idle" ~> pc[r] = "done"

\* Every call of UpdateConfig returns: no reader keeps the lock.
UpdateReturns == pending # {} ~> pending = {}

-----------------------------------------------------------------------------
(* What the comment says, and the code does not do. *)

\* The comment on UpdateConfig: "in-flight requests complete with the old
\* scanner".  So one configuration accounts for all strings of a request.
InFlightKeepsScanner ==
  \A r \in Requests : pc[r] = "done" /\ body[r].kind # "empty" /\ ~snap[r].dryRun =>
    \E c \in inForce[r] :
      \A i \in DOMAIN body[r].fields :
        LET f == body[r].fields[i]
        IN  Reached(f) => f.text = <<>> \/ out[r][i] = Masked(f.text, c)

=============================================================================
