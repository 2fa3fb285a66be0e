------------------------------- MODULE Pipeline -------------------------------
(***************************************************************************)
(* handleRequest of internal/proxy/server.go, one goroutine per proxied     *)
(* request, composed with the logger and the metrics that it shares with    *)
(* the other requests.  Guard.Apply is taken by what it returns, the       *)
(* summary of the request (module Guard), and the upstream by what         *)
(* client.Do and io.ReadAll make of it within the 120 s of client.Timeout:  *)
(* an answer, an error, or an answer that breaks off.                      *)
(***************************************************************************)
EXTENDS Logger, Metrics

CONSTANTS
  Statuses, \* HTTP status codes
  MaxBody,  \* bound on the length of an answer
  Answers   \* what the upstream may answer

Requests == Writers

Replies == [status : Statuses, size : 0 .. MaxBody]

ASSUME RequestsAssumption == Recorders = Writers

ASSUME AnswersAssumption ==
  {500, 502} \subseteq Statuses /\ MaxBody \in Nat /\ Answers \subseteq Replies

-----------------------------------------------------------------------------
(* LogEntry values.  Time, method and path are left out: they tell requests  *)
(* apart, as the request itself does here.                                  *)

AnswerEntry(r, a, s) ==
  [request |-> r, status |-> a.status, size |-> a.size, count |-> s.count, types |-> s.types]

\* Fault: an upstream error is logged without what was found.
BareErrorEntry(r, s) == [request |-> r, status |-> 502, size |-> 0, count |-> 0, types |-> NoTypes]

ErrorEntry(r, s) ==
  [request |-> r, status |-> 502, size |-> 0, count |-> s.count, types |-> NoTypes]

ASSUME EntriesAssumption ==
  \A r \in Requests, a \in Replies, s \in Summaries :
    AnswerEntry(r, a, s) \in Entries /\ ErrorEntry(r, s) \in Entries

\* Lines of an earlier process are not of the requests of this one.
ASSUME OldLogsOfOthers ==
  \A f \in OldLogs : \A k \in DOMAIN f : f[k][1].request \notin Requests

VARIABLES
  rpc,    \* where each request is in handleRequest
  answer, \* history: what the upstream has answered, in a set
  got,    \* resp and respBody: the answer as far as it was read, in a set
  reply   \* what was written to the client, in a set; an error text has size 0

requestVars == <<rpc, answer, got, reply>>
vars == <<logVars, metricVars, requestVars>>

Init ==
  /\ LogInit /\ MetricsInit
  /\ rpc = [r \in Requests |-> "idle"]
  /\ answer = [r \in Requests |-> {}]
  /\ got = [r \in Requests |-> {}]
  /\ reply = [r \in Requests |-> {}]

Step(r, here, there) == rpc[r] = here /\ rpc' = [rpc EXCEPT ![r] = there]

Reply(r, status, n) ==
  reply' = [reply EXCEPT ![r] = {[status |-> status, size |-> n]}]

-----------------------------------------------------------------------------
(* handleRequest *)

\* ReadAll(r.Body) fails: nothing is counted or logged.
BodyFails(r) ==
  /\ Step(r, "idle", "refusing")
  /\ UNCHANGED <<logVars, metricVars, answer, got, reply>>

\* The body is read and masked, and RecordMetrics begins.
Receive(r) ==
  /\ Step(r, "idle", "recording")
  /\ \E s \in Summaries : Record(r, s)
  /\ UNCHANGED <<logVars, answer, got, reply>>

RecordMetrics(r) ==
  /\ rpc[r] = "recording" /\ RecordStep(r)
  /\ UNCHANGED <<logVars, requestVars>>

\* NewRequest fails: the request is counted, but not logged.
NoRequest(r) ==
  /\ mpc[r] = "through" /\ Step(r, "recording", "refusing")
  /\ UNCHANGED <<logVars, metricVars, answer, got, reply>>

\* client.Do: the headers of an answer, or an error.
Do(r) ==
  /\ mpc[r] = "through"
  /\ \/ /\ Step(r, "recording", "body")
        /\ \E a \in Answers : answer' = [answer EXCEPT ![r] = {a}]
     \/ Step(r, "recording", "log") /\ UNCHANGED answer
  /\ UNCHANGED <<logVars, metricVars, got, reply>>

\* ReadAll(resp.Body), whose error is dropped: the connection may break or
\* the time be up before the end.
ReadAnswer(r) ==
  /\ Step(r, "body", "log")
  /\ \E a \in answer[r] : \E n \in 0 .. a.size :
       got' = [got EXCEPT ![r] = {[a EXCEPT !.size = n]}]
  /\ UNCHANGED <<logVars, metricVars, answer, reply>>

\* The entry of the answer, or that of an upstream error.
LogEntry(r) ==
  IF got[r] # {} THEN {AnswerEntry(r, a, s) : a \in got[r], s \in recorded[r]}
                 ELSE {ErrorEntry(r, s) : s \in recorded[r]}

\* logger.Write: it returns at once when there is no file.
Log(r) ==
  /\ \/ Step(r, "log", "logging") /\ \E e \in LogEntry(r) : Call(r, e)
     \/ Step(r, "log", "reply") /\ Silent(r)
  /\ UNCHANGED <<metricVars, answer, got, reply>>

Write(r) ==
  /\ rpc[r] = "logging" /\ LogStep(r)
  /\ rpc' = IF wpc'[r] = "out" THEN [rpc EXCEPT ![r] = "reply"] ELSE rpc
  /\ UNCHANGED <<metricVars, answer, got, reply>>

-----------------------------------------------------------------------------
(* What is written to the client: an error before the upstream was asked, or *)
(* the upstream's answer or error.                                          *)

Refuse(r) ==
  /\ Step(r, "refusing", "refused") /\ Reply(r, 500, 0)
  /\ UNCHANGED <<logVars, metricVars, answer, got>>

Answer(r) ==
  /\ Step(r, "reply", "answered")
  /\ \/ got[r] = {} /\ Reply(r, 502, 0)
     \/ \E a \in got[r] : Reply(r, a.status, a.size)
  /\ UNCHANGED <<logVars, metricVars, answer, got>>

-----------------------------------------------------------------------------
(* The steps that wait for the client, and those that do not. *)

Talk(r) == BodyFails(r) \/ Receive(r) \/ Refuse(r) \/ Answer(r)

Work(r) ==
  RecordMetrics(r) \/ NoRequest(r) \/ Do(r) \/ ReadAnswer(r) \/ Log(r) \/ Write(r)

-----------------------------------------------------------------------------
ToClient == {"reply", "refusing"}
Ended == {"answered", "refused", "gone"}

\* The process dies and is started again.
Crash ==
  /\ LogCrash /\ MetricsCrash
  /\ rpc' = [r \in Requests |-> IF rpc[r] \in Ended \cup {"idle"} THEN rpc[r] ELSE "gone"]
  /\ UNCHANGED <<answer, got, reply>>

GetMetrics == Scrape /\ UNCHANGED <<logVars, requestVars>>

Next ==
  \/ \E r \in Requests : Talk(r) \/ Work(r)
  \/ GetMetrics
  \/ Crash

Spec == Init /\ [][Next]_vars

\* Nothing bounds the time a client takes to send its request or to take the
\* answer: http.ListenAndServe has no timeouts.  The other steps wait for the
\* upstream, until client.Timeout, or for the disk, so while there are any to
\* do one is done.
FairSpec == Spec /\ WF_vars(\E r \in Requests : Work(r))

-----------------------------------------------------------------------------
(***************************************************************************)
(* Properties                                                              *)
(***************************************************************************)

\* The types of the variables, and of those of the logger and the metrics.
TypeOK ==
  /\ LogTypeOK /\ MetricsTypeOK
  /\ rpc \in [Requests -> {"idle", "recording", "body", "log", "logging"} \cup ToClient \cup Ended]
  /\ answer \in [Requests -> SUBSET Answers] /\ got \in [Requests -> SUBSET Replies]
  /\ reply \in [Requests -> SUBSET Replies]

\* The entries of the complete lines of r that were written.
LinesOf(r) == {k \in DOMAIN written : IsEnd(written[k]) /\ written[k][1].request = r}

\* Answer, log and metrics tell the same story: unless the log could not be
\* written, a request that was answered has one line, with the status and the
\* length of its answer, the count that the metrics have been given and, but
\* for an upstream error, their types; a request that was refused, or is not
\* that far, has none.
LogAgrees ==
  failed \cap {"open", "crash and open", "write"} = {} =>
    \A r \in Requests :
      /\ rpc[r] = "answered" =>
           /\ Cardinality(LinesOf(r)) = 1
           /\ \A k \in LinesOf(r) : \A a \in reply[r] :
                LET e == written[k][1]
                IN  /\ e.status = a.status /\ e.size = a.size
                    /\ \A s \in recorded[r] :
                         e.count = s.count /\ e.types = IF got[r] = {} THEN NoTypes ELSE s.types
      /\ rpc[r] \notin {"answered", "reply", "gone"} => LinesOf(r) = {}

\* A request whose body was read comes to its answer, or the process dies,
\* however long other clients take over theirs: the logger's lock is always
\* given back, and nobody keeps it while it writes to a client.
RequestEnds == \A r \in Requests : rpc[r] = "recording" ~> rpc[r] \in ToClient \cup Ended

=============================================================================
