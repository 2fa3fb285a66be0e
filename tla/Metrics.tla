-------------------------------- MODULE Metrics --------------------------------
(***************************************************************************)
(* internal/proxy/metrics.go: RecordMetrics adds the summary of a request   *)
(* to three atomic counters and a map, one after the other, while          *)
(* MetricsText reads them, one after the other, for a scrape.              *)
(***************************************************************************)
EXTENDS Integers, FiniteSets, Functions

CONSTANTS
  Recorders,  \* the goroutines that call RecordMetrics, once each
  PiiTypes,   \* the types a finding may have
  Summaries   \* records [count, bytes, types] of class ScanSummary

\* How often each type is in PIITypes: once at most when Apply has collected
\* them in a map, once for each finding in a body that is no JSON object.
Types == [PiiTypes -> Nat]

ASSUME SummariesAssumption == \A s \in Summaries : s \in [count : Nat, bytes : Nat, types : Types]

VARIABLES
  counters, \* metricRequests, metricPIIFindings, metricMaskedBytes, metricByType
  mpc,      \* where each goroutine is in RecordMetrics
  recorded, \* its argument, in a set
  spc,      \* the counter MetricsText reads next
  shown,    \* the counter it read last and its value, in a set
  before    \* history: the goroutines that were through when it began

metricVars == <<counters, mpc, recorded, spc, shown, before>>

NoTypes == [t \in PiiTypes |-> 0]

Zero == [requests |-> 0, findings |-> 0, bytes |-> 0, byType |-> NoTypes]

MetricsInit ==
  /\ counters = Zero
  /\ mpc = [r \in Recorders |-> "out"] /\ recorded = [r \in Recorders |-> {}]
  /\ spc = "requests" /\ shown = {} /\ before = {}

\* The counters are in memory only.
MetricsCrash ==
  /\ counters' = Zero
  /\ mpc' = [r \in Recorders |-> IF mpc[r] = "out" THEN "out" ELSE "gone"]
  /\ recorded' = [r \in Recorders |-> {}]
  /\ spc' = "requests" /\ shown' = {} /\ before' = {}

-----------------------------------------------------------------------------
(* RecordMetrics *)

scrape == <<spc, shown, before>>

Goto(r, there) == mpc' = [mpc EXCEPT ![r] = there]

\* The first counter, from the k-th on, that s adds to.
NextAdd(s, k) ==
  IF k = 1 /\ s.count > 0 THEN "findings"
  ELSE IF k <= 2 /\ s.bytes > 0 THEN "bytes"
  ELSE IF s.types # NoTypes THEN "types" ELSE "through"

Record(r, s) ==
  /\ mpc[r] = "out" /\ Goto(r, NextAdd(s, 1))
  /\ counters' = [counters EXCEPT !.requests = @ + 1]
  /\ recorded' = [recorded EXCEPT ![r] = {s}]
  /\ UNCHANGED scrape

AddFindings(r) ==
  /\ mpc[r] = "findings"
  /\ \E s \in recorded[r] :
       counters' = [counters EXCEPT !.findings = @ + s.count] /\ Goto(r, NextAdd(s, 2))
  /\ UNCHANGED <<recorded, scrape>>

AddBytes(r) ==
  /\ mpc[r] = "bytes"
  /\ \E s \in recorded[r] :
       counters' = [counters EXCEPT !.bytes = @ + s.bytes] /\ Goto(r, NextAdd(s, 3))
  /\ UNCHANGED <<recorded, scrape>>

\* Fault: a type counts once for a request.
CountOnce(byType, types) == [t \in PiiTypes |-> byType[t] + IF types[t] > 0 THEN 1 ELSE 0]

CountTypes(byType, types) == [t \in PiiTypes |-> byType[t] + types[t]]

\* Under metricTypeMu.
AddTypes(r) ==
  /\ mpc[r] = "types" /\ Goto(r, "through")
  /\ \E s \in recorded[r] :
       counters' = [counters EXCEPT !.byType = CountTypes(@, s.types)]
  /\ UNCHANGED <<recorded, scrape>>

RecordStep(r) == AddFindings(r) \/ AddBytes(r) \/ AddTypes(r)

-----------------------------------------------------------------------------
(* MetricsText *)

NextRead == [requests |-> "findings", findings |-> "bytes", bytes |-> "byType",
             byType |-> "requests"]

Through == {r \in Recorders : mpc[r] = "through"}

\* Fault: the scrape takes the counters with it.
ReadAndReset(field) ==
  /\ shown' = {<<field, counters[field]>>}
  /\ counters' = [counters EXCEPT ![field] = Zero[field]]

Read(field) ==
  /\ shown' = {<<field, counters[field]>>}
  /\ UNCHANGED counters

\* One line of the text.
Scrape ==
  /\ Read(spc)
  /\ before' = IF spc = "requests" THEN Through ELSE before
  /\ spc' = NextRead[spc]
  /\ UNCHANGED <<mpc, recorded>>

MetricsNext ==
  \/ \E r \in Recorders : (\E s \in Summaries : Record(r, s)) \/ RecordStep(r)
  \/ Scrape
  \/ MetricsCrash

MetricsSpec == MetricsInit /\ [][MetricsNext]_metricVars

-----------------------------------------------------------------------------
(***************************************************************************)
(* Properties                                                              *)
(***************************************************************************)

\* The types of the variables.
MetricsTypeOK ==
  /\ counters \in [requests : Nat, findings : Nat, bytes : Nat, byType : Types]
  /\ shown \in SUBSET (({"requests", "findings", "bytes"} \X Nat)
                         \cup ({"byType"} \X Types))
  /\ mpc \in [Recorders -> {"out", "findings", "bytes", "types", "through", "gone"}]
  /\ recorded \in [Recorders -> SUBSET Summaries]
  /\ \A r \in Recorders :
       IF mpc[r] \in {"out", "gone"} THEN recorded[r] = {}
                                     ELSE \E s \in Summaries : recorded[r] = {s}
  /\ spc \in DOMAIN Zero /\ before \subseteq Recorders

Summary(r) == CHOOSE s \in recorded[r] : TRUE

\* The counters that the summaries of the goroutines in R add up to.
Totals(R) ==
  [requests |-> Cardinality(R),
   findings |-> SumFunction([r \in R |-> Summary(r).count]),
   bytes |-> SumFunction([r \in R |-> Summary(r).bytes]),
   byType |-> [t \in PiiTypes |-> SumFunction([r \in R |-> Summary(r).types[t]])]]

Begun == {r \in Recorders : mpc[r] \notin {"out", "gone"}}

AtMost(field, a, b) ==
  IF field = "byType" THEN \A t \in PiiTypes : a[t] <= b[t] ELSE a <= b

\* Every line of a scrape has everything in it that was recorded when the
\* scrape began, and nothing of a request that has not come yet, although
\* the lines are of four moments and need not belong together.
ScrapeBetween ==
  \A line \in shown :
    LET field == line[1]
    IN  /\ AtMost(field, Totals(before)[field], line[2])
        /\ AtMost(field, line[2], Totals(Begun)[field])

\* When nobody is in RecordMetrics, the counters are the sums of what the
\* requests of this process found: no addition is lost or made twice.
CountersExact == Begun = Through => counters = Totals(Through)

=============================================================================
