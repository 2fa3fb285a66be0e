----------------------------- MODULE LoggerProofs -----------------------------
(***************************************************************************)
(* Theorems about Logger, for any writers, entries, limit and faults, and   *)
(* about Pipeline, whose requests are writers of the log.                   *)
(***************************************************************************)
EXTENDS Pipeline, FiniteSetTheorems, SequenceTheorems, TLAPS

-----------------------------------------------------------------------------
(* The file after a write. *)

LEMMA LimitsAreNat ==
  MaxLogBytes \in Nat /\ MaxLogBytes >= 1 /\ MaxLine \in Nat /\ MaxLine >= 1
  BY LogAssumption

\* A write within a file overwrites, and goes beyond its end by the rest.
LEMMA WriteAtTyped ==
  ASSUME NEW f \in Seq(Bytes), NEW n \in Nat, n <= Len(f), NEW b \in Seq(Bytes)
  PROVE  /\ WriteAt(f, n, b) \in Seq(Bytes)
         /\ Len(WriteAt(f, n, b)) = IF n + Len(b) > Len(f) THEN n + Len(b) ELSE Len(f)
<1> DEFINE m == IF n + Len(b) > Len(f) THEN n + Len(b) ELSE Len(f)
<1>1. m \in Nat
  OBVIOUS
<1>2. \A i \in 1 .. m : (IF i \in n + 1 .. n + Len(b) THEN b[i - n] ELSE f[i]) \in Bytes
  <2> TAKE i \in 1 .. m
  <2>1. CASE i \in n + 1 .. n + Len(b)
    BY <2>1
  <2>2. CASE i \notin n + 1 .. n + Len(b)
    BY <2>2
  <2> QED BY <2>1, <2>2
<1> QED BY <1>1, <1>2 DEF WriteAt

\* A write at the end appends.
LEMMA WriteAtEnd ==
  ASSUME NEW f \in Seq(Bytes), NEW b \in Seq(Bytes)
  PROVE  \A i \in 1 .. Len(f) + Len(b) : WriteAt(f, Len(f), b)[i] = (f \o b)[i]
  BY DEF WriteAt

\* What Put writes: a line, or the beginning of one.
LEMMA LineTyped ==
  ASSUME NEW e \in Entries
  PROVE  /\ Line(e) \in Seq(Bytes) /\ Len(Line(e)) = LineSize(e) /\ LineSize(e) \in 1 .. MaxLine
         /\ \A n \in 0 .. LineSize(e) - 1 :
              SubSeq(Line(e), 1, n) \in Seq(Bytes) /\ Len(SubSeq(Line(e), 1, n)) = n
<1>1. LineSize(e) \in 1 .. MaxLine /\ LineSize(e) \in Nat
  BY LogAssumption
<1>2. \A i \in 1 .. LineSize(e) : <<e, i>> \in Bytes
  BY <1>1, LimitsAreNat DEF Bytes
<1>3. Line(e) \in Seq(Bytes) /\ Len(Line(e)) = LineSize(e)
  BY <1>1, <1>2 DEF Line
<1> QED BY <1>1, <1>3

-----------------------------------------------------------------------------
(***************************************************************************)
(* The bound on the files.  It is inductive with what is known of l.size:   *)
(* outside a rotation it is the length of a file opened by NewLogger, and   *)
(* within a file opened by rotate; and whoever is about to write has seen   *)
(* it below the limit.                                                     *)
(***************************************************************************)

Rotating == \E w \in Writers : wpc[w] = "open"

SizeKnown ==
  ~Rotating => /\ mode = "append" => size = Len(log)
               /\ mode = "offset" => size <= Len(log)

RoomMade == \A w \in Writers : wpc[w] = "put" /\ mode # "nil" => size < MaxLogBytes

LogInv == LogTypeOK /\ SizeKnown /\ RoomMade /\ LogBounded

LEMMA LogInitInv == LogInit => LogInv
<1> SUFFICES ASSUME LogInit PROVE LogInv
  OBVIOUS
<1>1. log \in Seq(Bytes) /\ Len(log) < MaxLogBytes + MaxLine
  BY OldLogsAssumption DEF LogInit
<1>2. LogTypeOK
  BY <1>1 DEF LogInit, LogTypeOK
<1> QED BY <1>1, <1>2, LimitsAreNat DEF LogInit, LogInv, SizeKnown, RoomMade, LogBounded, Rotating

\* What WriteString does when there is room.
LEMMA WriteStringBounded ==
  ASSUME LogInv, mode # "nil", ~Rotating, size < MaxLogBytes,
         NEW b \in Seq(Bytes), Len(b) <= MaxLine, WriteString(b)
  PROVE  /\ log' \in Seq(Bytes) /\ written' \in Seq(Bytes) /\ size' \in Nat
         /\ Len(log') < MaxLogBytes + MaxLine
         /\ mode = "append" => size' = Len(log')
         /\ mode = "offset" => size' <= Len(log')
<1>1. /\ log \in Seq(Bytes) /\ written \in Seq(Bytes) /\ size \in Nat
      /\ mode \in {"append", "offset"} /\ Len(log) < MaxLogBytes + MaxLine
      /\ mode = "append" => size = Len(log)
      /\ mode = "offset" => size <= Len(log)
  BY DEF LogInv, LogTypeOK, SizeKnown, LogBounded
<1>2. size <= Len(log) /\ log' = WriteAt(log, size, b)
  BY <1>1 DEF WriteString
<1>3. /\ log' \in Seq(Bytes)
      /\ Len(log') = IF size + Len(b) > Len(log) THEN size + Len(b) ELSE Len(log)
  BY <1>1, <1>2, WriteAtTyped
<1>4. size' = size + Len(b) /\ written' = written \o b
  BY DEF WriteString
<1> QED BY <1>1, <1>2, <1>3, <1>4, LimitsAreNat

\* A writer's turn in the file, from whichever of its steps.
LEMMA LogStepInv ==
  ASSUME LogInv, NEW w \in Writers, LogStep(w)
  PROVE  LogInv'
<1> USE DEF Move, logFile
<1>a. /\ wpc \in [Writers -> {"out", "lock", "rename", "open", "put"}]
      /\ entry \in [Writers -> SUBSET Entries]
      /\ log \in Seq(Bytes) /\ old \in Seq(Bytes) /\ written \in Seq(Bytes)
      /\ mode \in {"append", "offset", "nil"} /\ size \in Nat
  BY DEF LogInv, LogTypeOK
<1>b. \A v \in Writers : v \in holder <=> wpc[v] \in {"rename", "open", "put"}
  BY DEF LogInv, LogTypeOK
<1>c. \A u, v \in holder : u = v
  BY DEF LogInv, LogTypeOK
<1>1. CASE Lock(w)
  <2>1. LogTypeOK'
    <3>1. wpc' \in [Writers -> {"out", "lock", "rename", "open", "put"}]
      BY <1>1 DEF Lock, LogInv, LogTypeOK
    <3>2. holder' = {v \in Writers : wpc'[v] \in {"rename", "open", "put"}}
      BY <1>1 DEF Lock, LogInv, LogTypeOK
    <3>3. \A v \in Writers : entry'[v] = {} <=> wpc'[v] = "out"
      BY <1>1 DEF Lock, LogInv, LogTypeOK
    <3> QED BY <1>1, <3>1, <3>2, <3>3 DEF Lock, LogInv, LogTypeOK
  <2>2. Rotating' => Rotating
    BY <1>1 DEF Lock, LogInv, LogTypeOK, Rotating
  <2>3. Rotating => Rotating'
    BY <1>1 DEF Lock, LogInv, LogTypeOK, Rotating
  <2>4. RoomMade'
    <3>1. SUFFICES ASSUME NEW v \in Writers, wpc'[v] = "put" PROVE size < MaxLogBytes
      BY <1>1 DEF Lock, RoomMade
    <3>2. v = w
      BY <1>1, <1>a, <1>b, <3>1 DEF Lock
    <3>3. ~FullAt(size)
      BY <1>1, <1>a, <3>1, <3>2 DEF Lock
    <3> QED BY <1>a, <3>3, LimitsAreNat DEF FullAt
  <2> QED BY <1>1, <2>1, <2>2, <2>3, <2>4 DEF Lock, LogInv, SizeKnown, LogBounded
<1>2. CASE Rename(w)
  <2>1. LogTypeOK'
    <3>1. log' \in Seq(Bytes) /\ old' \in Seq(Bytes)
      <4>1. <<>> \in Seq(Bytes)
        OBVIOUS
      <4> QED BY <1>2, <1>a, <4>1 DEF Rename
    <3>2. failed' \subseteq {"crash", "crash and open", "rename", "open", "write"}
      BY <1>2 DEF Rename, LogInv, LogTypeOK, Fault
    <3> QED BY <1>2, <3>1, <3>2 DEF Rename, LogInv, LogTypeOK
  <2>2. Rotating'
    BY <1>2 DEF Rename, LogInv, LogTypeOK, Rotating
  <2>3. RoomMade'
    BY <1>2 DEF Rename, LogInv, LogTypeOK, RoomMade
  <2>4. LogBounded'
    BY <1>2, LimitsAreNat DEF Rename, LogInv, LogBounded
  <2> QED BY <2>1, <2>2, <2>3, <2>4 DEF LogInv, SizeKnown
<1>3. CASE Open(w)
  <2>1. LogTypeOK'
    <3>1. failed' \subseteq {"crash", "crash and open", "rename", "open", "write"}
      BY <1>3 DEF Open, LogInv, LogTypeOK, Fault
    <3> QED BY <1>3, <3>1 DEF Open, LogInv, LogTypeOK
  <2>2. SizeKnown' /\ RoomMade'
    <3>1. size' = 0 /\ mode' \in {"offset", "nil"} /\ log' = log
      BY <1>3 DEF Open
    <3>2. 0 <= Len(log) /\ 0 < MaxLogBytes
      BY <1>a, LimitsAreNat
    <3> QED BY <3>1, <3>2 DEF SizeKnown, RoomMade
  <2> QED BY <1>3, <2>1, <2>2 DEF Open, LogInv, LogBounded
<1>4. CASE Put(w)
  <2>1. ~Rotating /\ w \in holder /\ (mode # "nil" => size < MaxLogBytes)
    <3>1. wpc[w] = "put" /\ w \in holder
      BY <1>4, <1>b DEF Put
    <3> QED BY <1>b, <1>c, <3>1 DEF LogInv, Rotating, RoomMade
  <2>2. ~Rotating'
    BY <1>4, <1>a, <2>1 DEF Put, Rotating
  <2>3. /\ log' \in Seq(Bytes) /\ written' \in Seq(Bytes) /\ size' \in Nat
        /\ Len(log') < MaxLogBytes + MaxLine
        /\ mode = "append" => size' = Len(log')
        /\ mode = "offset" => size' <= Len(log')
    <3>1. CASE mode = "nil" /\ UNCHANGED <<log, size, written, failed>>
      BY <3>1 DEF LogInv, LogTypeOK, LogBounded
    <3>2. ASSUME NEW b \in Seq(Bytes), Len(b) <= MaxLine, WriteString(b), mode # "nil"
          PROVE  /\ log' \in Seq(Bytes) /\ written' \in Seq(Bytes) /\ size' \in Nat
                 /\ Len(log') < MaxLogBytes + MaxLine
                 /\ mode = "append" => size' = Len(log')
                 /\ mode = "offset" => size' <= Len(log')
      BY <2>1, <3>2, WriteStringBounded
    <3>3. ASSUME mode # "nil", NEW e \in entry[w], WriteString(Line(e))
          PROVE  \E b \in Seq(Bytes) : Len(b) <= MaxLine /\ WriteString(b)
      <4>1. e \in Entries
        BY <1>a, <3>3
      <4>2. Line(e) \in Seq(Bytes) /\ Len(Line(e)) <= MaxLine
        BY <4>1, LineTyped, LimitsAreNat
      <4> QED BY <3>3, <4>2
    <3>4. ASSUME mode # "nil", NEW e \in entry[w], NEW n \in 0 .. LineSize(e) - 1,
                 WriteString(SubSeq(Line(e), 1, n))
          PROVE  \E b \in Seq(Bytes) : Len(b) <= MaxLine /\ WriteString(b)
      <4>1. e \in Entries
        BY <1>a, <3>4
      <4>2. /\ SubSeq(Line(e), 1, n) \in Seq(Bytes)
            /\ Len(SubSeq(Line(e), 1, n)) = n
            /\ LineSize(e) \in 1 .. MaxLine
        BY <4>1, LineTyped
      <4>3. n <= MaxLine
        BY <4>2, LimitsAreNat
      <4> QED BY <3>4, <4>2, <4>3
    <3> QED BY <1>4, <3>1, <3>2, <3>3, <3>4 DEF Put
  <2>4. LogTypeOK'
    <3>1. failed' \subseteq {"crash", "crash and open", "rename", "open", "write"}
      BY <1>4 DEF Put, LogInv, LogTypeOK, Fault
    <3>2. /\ wpc' \in [Writers -> {"out", "lock", "rename", "open", "put"}]
          /\ entry' \in [Writers -> SUBSET Entries]
          /\ \A v \in Writers : entry'[v] = {} <=> wpc'[v] = "out"
      BY <1>4 DEF Put, LogInv, LogTypeOK
    <3>3. holder' = {v \in Writers : wpc'[v] \in {"rename", "open", "put"}}
      BY <1>4, <2>1 DEF Put, Unlock, LogInv, LogTypeOK
    <3>4. \A u, v \in holder' : u = v
      BY <1>4 DEF Put, Unlock
    <3> QED BY <1>4, <2>3, <3>1, <3>2, <3>3, <3>4 DEF Put, LogInv, LogTypeOK
  <2>5. RoomMade'
    BY <1>4, <2>1 DEF Put, LogInv, LogTypeOK, RoomMade
  <2> QED BY <1>4, <2>2, <2>3, <2>4, <2>5 DEF Put, LogInv, SizeKnown, LogBounded
<1> QED BY <1>1, <1>2, <1>3, <1>4 DEF LogStep

LEMMA LogNextInv == LogInv /\ [LogNext]_logVars => LogInv'
<1> SUFFICES ASSUME LogInv, [LogNext]_logVars PROVE LogInv'
  OBVIOUS
<1>1. ASSUME NEW w \in Writers, NEW e \in Entries, Call(w, e) PROVE LogInv'
  <2>1. LogTypeOK'
    BY <1>1 DEF Call, Move, logFile, LogInv, LogTypeOK
  <2>2. Rotating' <=> Rotating
    BY <1>1 DEF Call, Move, LogInv, LogTypeOK, Rotating
  <2>3. RoomMade'
    BY <1>1 DEF Call, Move, logFile, LogInv, LogTypeOK, RoomMade
  <2> QED BY <1>1, <2>1, <2>2, <2>3 DEF Call, logFile, LogInv, SizeKnown, LogBounded
<1>2. CASE LogCrash
  <2>1. LogTypeOK'
    <3>1. failed' \subseteq {"crash", "crash and open", "rename", "open", "write"}
      BY <1>2 DEF LogCrash, LogInv, LogTypeOK, Fault
    <3>2. mode' \in {"append", "offset", "nil"} /\ size' \in Nat
      <4>1. log \in Seq(Bytes)
        BY DEF LogInv, LogTypeOK
      <4>2. Len(log) \in Nat
        BY <4>1
      <4>3. /\ mode' \in {"append", "nil"}
            /\ size' = SizeOf(log) \/ size' = 0
        BY <1>2 DEF LogCrash
      <4> QED BY <4>2, <4>3 DEF SizeOf
    <3>3. log' \in Seq(Bytes) /\ old' \in Seq(Bytes) /\ written' \in Seq(Bytes)
      BY <1>2 DEF LogCrash, LogInv, LogTypeOK
    <3> QED BY <1>2, <3>1, <3>2, <3>3 DEF LogCrash, LogTypeOK
  <2> QED BY <1>2, <2>1 DEF LogCrash, SizeOf, LogInv, SizeKnown, RoomMade, LogBounded
<1>3. CASE UNCHANGED logVars
  BY <1>3 DEF logVars, logFile, LogInv, LogTypeOK, SizeKnown, Rotating, RoomMade, LogBounded
<1> QED BY <1>1, <1>2, <1>3, LogStepInv DEF LogNext, Silent

\* LogBounded: no file exceeds the limit by a line or more, whatever fails,
\* dies or comes together.
THEOREM LogIsBounded == LogSpec => []LogBounded
<1>1. LogInv => LogBounded
  BY DEF LogInv
<1> QED BY <1>1, LogInitInv, LogNextInv, PTL DEF LogSpec

-----------------------------------------------------------------------------
(***************************************************************************)
(* Every step of Pipeline is a step of the log, or leaves it alone, so what *)
(* holds of the log holds of the proxy.                                    *)
(***************************************************************************)

LEMMA PipelineLogs ==
  ASSUME [Next]_vars, \A r \in Requests : LogEntry(r) \subseteq Entries
  PROVE  [LogNext]_logVars
<1> USE DEF Requests
<1>1. ASSUME NEW r \in Requests, BodyFails(r) \/ Receive(r) \/ Refuse(r) PROVE UNCHANGED logVars
  BY <1>1 DEF BodyFails, Receive, Refuse
<1>2. ASSUME NEW r \in Requests, RecordMetrics(r) \/ NoRequest(r) \/ Do(r) \/ ReadAnswer(r) \/ Answer(r)
      PROVE  UNCHANGED logVars
  BY <1>2 DEF RecordMetrics, NoRequest, Do, ReadAnswer, Answer
<1>3. ASSUME NEW r \in Requests, Log(r) PROVE LogNext
  BY <1>3 DEF Log, LogNext
<1>4. ASSUME NEW r \in Requests, Write(r) PROVE LogNext
  BY <1>4 DEF Write, LogNext
<1>5. CASE Crash
  BY <1>5 DEF Crash, LogNext
<1>6. CASE GetMetrics
  BY <1>6 DEF GetMetrics
<1>7. CASE UNCHANGED vars
  BY <1>7 DEF vars
<1> QED BY <1>1, <1>2, <1>3, <1>4, <1>5, <1>6, <1>7 DEF Next, Talk, Work

\* Every step of Pipeline is a step of the metrics, or leaves them alone.
LEMMA PipelineCounts == ASSUME [Next]_vars PROVE [MetricsNext]_metricVars
<1> USE RequestsAssumption DEF Requests
<1>1. ASSUME NEW r \in Requests,
             \/ BodyFails(r) \/ NoRequest(r) \/ Refuse(r) \/ Do(r) \/ ReadAnswer(r)
             \/ Log(r) \/ Write(r) \/ Answer(r)
      PROVE  UNCHANGED metricVars
  BY <1>1 DEF BodyFails, NoRequest, Refuse, Do, ReadAnswer, Log, Write, Answer
<1>2. ASSUME NEW r \in Requests, Receive(r) \/ RecordMetrics(r) PROVE MetricsNext
  BY <1>2 DEF Receive, RecordMetrics, MetricsNext
<1>3. CASE Crash
  BY <1>3 DEF Crash, MetricsNext
<1>4. CASE GetMetrics
  BY <1>4 DEF GetMetrics, MetricsNext
<1>5. CASE UNCHANGED vars
  BY <1>5 DEF vars
<1> QED BY <1>1, <1>2, <1>3, <1>4, <1>5 DEF Next, Talk, Work

-----------------------------------------------------------------------------
(* Types *)

LEMMA NothingTyped == NoTypes \in Types
  BY DEF NoTypes, Types

LEMMA RecordTyped ==
  ASSUME MetricsTypeOK, NEW r \in Recorders,
         (\E s \in Summaries : Record(r, s)) \/ RecordStep(r)
  PROVE  MetricsTypeOK'
<1> USE DEF Goto, scrape
<1>a. /\ counters \in [requests : Nat, findings : Nat, bytes : Nat, byType : Types]
      /\ mpc \in [Recorders -> {"out", "findings", "bytes", "types", "through", "gone"}]
      /\ recorded \in [Recorders -> SUBSET Summaries]
  BY DEF MetricsTypeOK
<1>b. \A s \in Summaries, k \in 1 .. 3 : NextAdd(s, k) \in {"findings", "bytes", "types", "through"}
  BY DEF NextAdd
<1>c. \A s \in Summaries : s.count \in Nat /\ s.bytes \in Nat /\ s.types \in Types
  BY SummariesAssumption
<1>1. ASSUME NEW s \in Summaries, Record(r, s) PROVE MetricsTypeOK'
  <2>1. counters' \in [requests : Nat, findings : Nat, bytes : Nat, byType : Types]
    BY <1>1, <1>a DEF Record
  <2>2. NextAdd(s, 1) \in {"findings", "bytes", "types", "through"}
    BY <1>b
  <2> QED BY <1>1, <2>1, <2>2 DEF Record, MetricsTypeOK
<1>2. CASE AddFindings(r)
  <2>1. PICK s \in recorded[r] :
          counters' = [counters EXCEPT !.findings = @ + s.count] /\ mpc' = [mpc EXCEPT ![r] = NextAdd(s, 2)]
    BY <1>2 DEF AddFindings
  <2>2. s \in Summaries /\ NextAdd(s, 2) \in {"findings", "bytes", "types", "through"}
    BY <1>a, <1>b
  <2>3. counters' \in [requests : Nat, findings : Nat, bytes : Nat, byType : Types]
    BY <1>a, <1>c, <2>1, <2>2
  <2> QED BY <1>2, <2>1, <2>2, <2>3 DEF AddFindings, MetricsTypeOK
<1>3. CASE AddBytes(r)
  <2>1. PICK s \in recorded[r] :
          counters' = [counters EXCEPT !.bytes = @ + s.bytes] /\ mpc' = [mpc EXCEPT ![r] = NextAdd(s, 3)]
    BY <1>3 DEF AddBytes
  <2>2. s \in Summaries /\ NextAdd(s, 3) \in {"findings", "bytes", "types", "through"}
    BY <1>a, <1>b
  <2>3. counters' \in [requests : Nat, findings : Nat, bytes : Nat, byType : Types]
    BY <1>a, <1>c, <2>1, <2>2
  <2> QED BY <1>3, <2>1, <2>2, <2>3 DEF AddBytes, MetricsTypeOK
<1>4. CASE AddTypes(r)
  <2>1. PICK s \in recorded[r] : counters' = [counters EXCEPT !.byType = CountTypes(@, s.types)]
    BY <1>4 DEF AddTypes
  <2>2. CountTypes(counters.byType, s.types) \in Types
    <3>1. counters.byType \in Types /\ s.types \in Types
      BY <1>a, <1>c
    <3> QED BY <3>1 DEF CountTypes, Types
  <2>3. counters' \in [requests : Nat, findings : Nat, bytes : Nat, byType : Types]
    BY <1>a, <2>1, <2>2
  <2> QED BY <1>4, <2>3 DEF AddTypes, MetricsTypeOK
<1> QED BY <1>1, <1>2, <1>3, <1>4 DEF RecordStep

LEMMA MetricsTyped == MetricsTypeOK /\ [MetricsNext]_metricVars => MetricsTypeOK'
<1> SUFFICES ASSUME MetricsTypeOK, [MetricsNext]_metricVars PROVE MetricsTypeOK'
  OBVIOUS
<1>1. CASE Scrape
  <2>1. /\ counters \in [requests : Nat, findings : Nat, bytes : Nat, byType : Types]
        /\ spc \in {"requests", "findings", "bytes", "byType"}
    BY DEF MetricsTypeOK, Zero
  <2>2. <<spc, counters[spc]>> \in ({"requests", "findings", "bytes"} \X Nat)
                                    \cup ({"byType"} \X Types)
    BY <2>1
  <2>3. spc' \in DOMAIN Zero
    BY <1>1, <2>1 DEF Scrape, NextRead, Zero
  <2>4. before' \subseteq Recorders
    BY <1>1 DEF Scrape, Through, MetricsTypeOK
  <2> QED BY <1>1, <2>2, <2>3, <2>4 DEF Scrape, Read, MetricsTypeOK
<1>2. CASE MetricsCrash
  <2>1. Zero \in [requests : Nat, findings : Nat, bytes : Nat, byType : Types]
    BY NothingTyped DEF Zero
  <2>2. "requests" \in DOMAIN Zero
    BY DEF Zero
  <2> QED BY <1>2, <2>1, <2>2 DEF MetricsCrash, MetricsTypeOK
<1>3. CASE UNCHANGED metricVars
  BY <1>3 DEF metricVars, MetricsTypeOK
<1> QED BY <1>1, <1>2, <1>3, RecordTyped DEF MetricsNext

RequestsTyped ==
  /\ rpc \in [Requests -> {"idle", "recording", "body", "log", "logging"} \cup ToClient \cup Ended]
  /\ answer \in [Requests -> SUBSET Answers] /\ got \in [Requests -> SUBSET Replies]
  /\ reply \in [Requests -> SUBSET Replies]

LEMMA RequestsStayTyped == RequestsTyped /\ [Next]_vars => RequestsTyped'
<1> SUFFICES ASSUME RequestsTyped, [Next]_vars PROVE RequestsTyped'
  OBVIOUS
<1> USE DEF Step, Ended, ToClient
<1>a. [status |-> 500, size |-> 0] \in Replies /\ [status |-> 502, size |-> 0] \in Replies
  BY AnswersAssumption DEF Replies
<1>1. ASSUME NEW r \in Requests, BodyFails(r) \/ NoRequest(r) PROVE RequestsTyped'
  BY <1>1 DEF BodyFails, NoRequest, RequestsTyped
<1>2. ASSUME NEW r \in Requests, Receive(r) PROVE RequestsTyped'
  BY <1>2 DEF Receive, RequestsTyped
<1>3. ASSUME NEW r \in Requests, RecordMetrics(r) PROVE RequestsTyped'
  BY <1>3 DEF RecordMetrics, requestVars, RequestsTyped
<1>4. ASSUME NEW r \in Requests, Do(r) PROVE RequestsTyped'
  BY <1>4 DEF Do, RequestsTyped
<1>5. ASSUME NEW r \in Requests, ReadAnswer(r) PROVE RequestsTyped'
  <2>1. PICK a \in answer[r] :
          \E n \in 0 .. a.size : got' = [got EXCEPT ![r] = {[a EXCEPT !.size = n]}]
    BY <1>5 DEF ReadAnswer
  <2>2. a \in Replies
    BY AnswersAssumption DEF RequestsTyped
  <2>n. PICK n \in 0 .. a.size : got' = [got EXCEPT ![r] = {[a EXCEPT !.size = n]}]
    BY <2>1
  <2>3. [a EXCEPT !.size = n] \in Replies
    BY <2>2, AnswersAssumption DEF Replies
  <2> QED BY <1>5, <2>n, <2>3 DEF ReadAnswer, RequestsTyped
<1>6. ASSUME NEW r \in Requests, Log(r) PROVE RequestsTyped'
  BY <1>6 DEF Log, RequestsTyped
<1>7. ASSUME NEW r \in Requests, Write(r) PROVE RequestsTyped'
  BY <1>7 DEF Write, RequestsTyped
<1>8. ASSUME NEW r \in Requests, Answer(r) PROVE RequestsTyped'
  <2>1. \A a \in got[r] : [status |-> a.status, size |-> a.size] \in Replies
    BY DEF RequestsTyped, Replies
  <2> QED BY <1>8, <1>a, <2>1 DEF Answer, Reply, RequestsTyped
<1>12. ASSUME NEW r \in Requests, Refuse(r) PROVE RequestsTyped'
  BY <1>12, <1>a DEF Refuse, Reply, RequestsTyped
<1>9. CASE Crash
  BY <1>9 DEF Crash, RequestsTyped
<1>10. CASE GetMetrics
  BY <1>10 DEF GetMetrics, requestVars, RequestsTyped
<1>11. CASE UNCHANGED vars
  BY <1>11 DEF vars, requestVars, RequestsTyped
<1> QED BY <1>1, <1>2, <1>3, <1>4, <1>5, <1>6, <1>7, <1>8, <1>9, <1>10, <1>11, <1>12
       DEF Next, Talk, Work

\* The entries a request may log are among those the log is defined for.
LEMMA EntriesTyped ==
  ASSUME MetricsTypeOK, RequestsTyped
  PROVE  \A r \in Requests : LogEntry(r) \subseteq Entries
<1> SUFFICES ASSUME NEW r \in Requests PROVE LogEntry(r) \subseteq Entries
  OBVIOUS
<1>1. got[r] \subseteq Replies
  BY DEF RequestsTyped
<1>2. recorded[r] \subseteq Summaries
  BY RequestsAssumption DEF MetricsTypeOK, Requests
<1>3. \A a \in got[r], s \in recorded[r] : AnswerEntry(r, a, s) \in Entries
  BY <1>1, <1>2, EntriesAssumption
<1>4. [status |-> 502, size |-> 0] \in Replies
  BY AnswersAssumption DEF Replies
<1>5. \A s \in recorded[r] : ErrorEntry(r, s) \in Entries
  BY <1>2, <1>4, EntriesAssumption
<1> QED BY <1>3, <1>5 DEF LogEntry

PipelineInv == LogInv /\ MetricsTypeOK /\ RequestsTyped

LEMMA PipelineInvariant == Spec => []PipelineInv
<1>1. Init => PipelineInv
  <2> SUFFICES ASSUME Init PROVE PipelineInv
    OBVIOUS
  <2>1. LogInv
    BY LogInitInv DEF Init
  <2>2. MetricsTypeOK
    BY NothingTyped DEF Init, MetricsInit, MetricsTypeOK, Zero
  <2>3. RequestsTyped
    BY DEF Init, RequestsTyped
  <2> QED BY <2>1, <2>2, <2>3 DEF PipelineInv
<1>2. PipelineInv /\ [Next]_vars => PipelineInv'
  BY EntriesTyped, PipelineLogs, PipelineCounts, LogNextInv, MetricsTyped, RequestsStayTyped
     DEF PipelineInv
<1> QED BY <1>1, <1>2, PTL DEF Spec

\* The variables of the proxy, its log and its counters keep their types.
THEOREM TypeCorrect == Spec => []TypeOK
<1>1. PipelineInv => TypeOK
  BY DEF PipelineInv, LogInv, RequestsTyped, TypeOK
<1> QED BY <1>1, PipelineInvariant, PTL

\* LogBounded: whatever requests come together, whatever fails or dies, no
\* log file of the proxy exceeds the limit by a line or more.
THEOREM ProxyLogIsBounded == Spec => []LogBounded
<1>1. PipelineInv => LogBounded
  BY DEF PipelineInv, LogInv
<1> QED BY <1>1, PipelineInvariant, PTL

-----------------------------------------------------------------------------
(* Sums over a finite set of goroutines.  SumFunction is a recursive         *)
(* function on the subsets of a set; what it does with one more element is   *)
(* shown with the smallest subset for which it would not hold.               *)

LEMMA SmallestSubset ==
  ASSUME NEW S, IsFiniteSet(S), NEW T \in SUBSET SUBSET S, T # {}
  PROVE  \E U \in T : \A V \in T : V \subseteq U => V = U
<1>1. IsWellFoundedOn(StrictSubsetOrdering(S), SUBSET S)
  BY FS_StrictSubsetOrderingWellFounded, FS_FiniteSubsetsOfFinite
<1>2. PICK U \in T : \A V \in T : ~(<<V, U>> \in StrictSubsetOrdering(S))
  BY <1>1, WFMin
<1>3. \A V \in T : V \subseteq U => V = U
  BY <1>2 DEF StrictSubsetOrdering
<1> QED BY <1>3

Pick(s) == CHOOSE x \in s : TRUE

LEMMA PickIn == \A s : s # {} => Pick(s) \in s
  BY DEF Pick

\* g[s] is the sum of f over s, for every subset s of S.
Sums(f, S, g) ==
  g = [s \in SUBSET S |-> IF s = {} THEN 0 ELSE f[Pick(s)] + g[s \ {Pick(s)}]]

LEMMA SumAsFunction ==
  ASSUME NEW f, NEW S
  PROVE  SumFunctionOnSet(f, S) = (CHOOSE g : Sums(f, S, g))[S]
BY DEF SumFunctionOnSet, FoldFunctionOnSet, MapThenFoldSet, Sums, Pick

LEMMA SumsAgree ==
  ASSUME NEW f, NEW S, NEW V, NEW g, NEW h, Sums(f, S, g), Sums(f, V, h),
         NEW W, IsFiniteSet(W), W \subseteq S, W \subseteq V
  PROVE  g[W] = h[W]
<1> DEFINE T == {s \in SUBSET W : g[s] # h[s]}
<1> SUFFICES ASSUME T # {} PROVE FALSE
  OBVIOUS
<1>1. PICK s \in T : \A u \in T : u \subseteq s => u = s
  <2>1. T \in SUBSET SUBSET W
    OBVIOUS
  <2> HIDE DEF T
  <2> QED BY <2>1, SmallestSubset
<1> DEFINE u == s \ {Pick(s)}
<1>2. s # {} => g[u] = h[u]
  BY <1>1, PickIn
<1>3. s \in SUBSET S /\ s \in SUBSET V /\ g[s] # h[s]
  OBVIOUS
<1>4. g[s] = IF s = {} THEN 0 ELSE f[Pick(s)] + g[u]
  BY <1>3 DEF Sums
<1>5. h[s] = IF s = {} THEN 0 ELSE f[Pick(s)] + h[u]
  BY <1>3 DEF Sums
<1> QED BY <1>2, <1>3, <1>4, <1>5

LEMMA SumsExist ==
  ASSUME NEW f, NEW S, IsFiniteSet(S)
  PROVE  \E g : Sums(f, S, g)
<1> DEFINE T == {s \in SUBSET S : ~ \E g : Sums(f, s, g)}
<1> SUFFICES ASSUME T # {} PROVE FALSE
  OBVIOUS
<1>1. PICK U \in T : \A V \in T : V \subseteq U => V = U
  <2>1. T \in SUBSET SUBSET S
    OBVIOUS
  <2> HIDE DEF T
  <2> QED BY <2>1, SmallestSubset
<1> DEFINE G(s) == CHOOSE g : Sums(f, s, g)
           D(s) == s \ {Pick(s)}
           h == [s \in SUBSET U |-> IF s = {} THEN 0 ELSE f[Pick(s)] + G(D(s))[D(s)]]
<1>2. \A s \in SUBSET U : s # U => Sums(f, s, G(s))
  <2> SUFFICES ASSUME NEW s \in SUBSET U, s # U PROVE Sums(f, s, G(s))
    OBVIOUS
  <2>1. \E g : Sums(f, s, g)
    BY <1>1
  <2> QED BY <2>1, Zenon
<1>3. \A s \in SUBSET U : s # {} => D(s) \in SUBSET U /\ D(s) # U /\ D(s) \subseteq s /\ IsFiniteSet(s)
  <2> SUFFICES ASSUME NEW s \in SUBSET U, s # {}
               PROVE  D(s) \in SUBSET U /\ D(s) # U /\ D(s) \subseteq s /\ IsFiniteSet(s)
    OBVIOUS
  <2>1. Pick(s) \in s
    BY PickIn
  <2>2. s \in SUBSET S
    OBVIOUS
  <2>3. IsFiniteSet(s)
    BY <2>2, FS_Subset
  <2> QED BY <2>1, <2>3
<1>4. \A s \in SUBSET U : s # U => h[s] = G(s)[s]
  <2> SUFFICES ASSUME NEW s \in SUBSET U, s # U PROVE h[s] = G(s)[s]
    OBVIOUS
  <2>1. G(s)[s] = IF s = {} THEN 0 ELSE f[Pick(s)] + G(s)[D(s)]
    <3>1. Sums(f, s, G(s))
      BY <1>2
    <3> HIDE DEF G
    <3>2. s \in SUBSET s
      OBVIOUS
    <3> QED BY <3>1, <3>2 DEF Sums
  <2>2. h[s] = IF s = {} THEN 0 ELSE f[Pick(s)] + G(D(s))[D(s)]
    OBVIOUS
  <2>3. s # {} => G(s)[D(s)] = G(D(s))[D(s)]
    <3> SUFFICES ASSUME s # {} PROVE G(s)[D(s)] = G(D(s))[D(s)]
      OBVIOUS
    <3>1. Sums(f, s, G(s)) /\ Sums(f, D(s), G(D(s)))
      BY <1>2, <1>3
    <3>2. IsFiniteSet(D(s)) /\ D(s) \subseteq s /\ D(s) \subseteq D(s)
      BY <1>3, FS_RemoveElement
    <3> HIDE DEF G, D
    <3> QED BY <3>1, <3>2, SumsAgree
  <2> HIDE DEF G, D, h
  <2> QED BY <2>1, <2>2, <2>3
<1>5. Sums(f, U, h)
  <2>1. \A s \in SUBSET U : h[s] = IF s = {} THEN 0 ELSE f[Pick(s)] + h[D(s)]
    <3> SUFFICES ASSUME NEW s \in SUBSET U
                 PROVE  h[s] = IF s = {} THEN 0 ELSE f[Pick(s)] + h[D(s)]
      OBVIOUS
    <3>1. h[s] = IF s = {} THEN 0 ELSE f[Pick(s)] + G(D(s))[D(s)]
      OBVIOUS
    <3> HIDE DEF h, G, D
    <3> QED BY <1>3, <1>4, <3>1
  <2>2. h = [s \in SUBSET U |-> h[s]]
    OBVIOUS
  <2> HIDE DEF h
  <2> QED BY <2>1, <2>2, Zenon DEF Sums
<1> QED BY <1>5

\* The sum over a set is that of one of its elements and of the rest.
LEMMA SumUnfold ==
  ASSUME NEW f, NEW S, IsFiniteSet(S)
  PROVE  SumFunctionOnSet(f, S) =
           IF S = {} THEN 0 ELSE f[Pick(S)] + SumFunctionOnSet(f, S \ {Pick(S)})
<1> DEFINE D == S \ {Pick(S)}
           g == CHOOSE k : Sums(f, S, k)
           h == CHOOSE k : Sums(f, D, k)
<1>1. IsFiniteSet(D) /\ D \subseteq S /\ D \subseteq D /\ S \in SUBSET S
  BY FS_RemoveElement
<1>2. Sums(f, S, g) /\ Sums(f, D, h)
  <2>1. (\E k : Sums(f, S, k)) /\ (\E k : Sums(f, D, k))
    BY <1>1, SumsExist
  <2> QED BY <2>1, Zenon
<1>3. SumFunctionOnSet(f, S) = g[S] /\ SumFunctionOnSet(f, D) = h[D]
  BY SumAsFunction
<1> HIDE DEF g, h
<1>4. g[S] = IF S = {} THEN 0 ELSE f[Pick(S)] + g[D]
  BY <1>1, <1>2 DEF Sums
<1>5. g[D] = h[D]
  BY <1>1, <1>2, SumsAgree
<1> QED BY <1>3, <1>4, <1>5

LEMMA SumTyped ==
  ASSUME NEW f, NEW S, IsFiniteSet(S), \A x \in S : f[x] \in Nat
  PROVE  SumFunctionOnSet(f, S) \in Nat
<1> DEFINE T == {s \in SUBSET S : SumFunctionOnSet(f, s) \notin Nat}
<1> SUFFICES ASSUME T # {} PROVE FALSE
  OBVIOUS
<1>1. PICK s \in T : \A u \in T : u \subseteq s => u = s
  <2>1. T \in SUBSET SUBSET S
    OBVIOUS
  <2> HIDE DEF T
  <2> QED BY <2>1, SmallestSubset
<1> DEFINE u == s \ {Pick(s)}
<1>2. s \in SUBSET S /\ IsFiniteSet(s) /\ SumFunctionOnSet(f, s) \notin Nat
  BY FS_Subset
<1>3. s # {} => f[Pick(s)] \in Nat /\ SumFunctionOnSet(f, u) \in Nat
  BY <1>1, <1>2, PickIn
<1>4. SumFunctionOnSet(f, s) = IF s = {} THEN 0 ELSE f[Pick(s)] + SumFunctionOnSet(f, u)
  BY <1>2, SumUnfold
<1> QED BY <1>2, <1>3, <1>4

\* A sum depends on the values in the set only.
LEMMA SumSame ==
  ASSUME NEW f, NEW g, NEW S, IsFiniteSet(S), \A x \in S : f[x] = g[x]
  PROVE  SumFunctionOnSet(f, S) = SumFunctionOnSet(g, S)
<1> DEFINE T == {s \in SUBSET S : SumFunctionOnSet(f, s) # SumFunctionOnSet(g, s)}
<1> SUFFICES ASSUME T # {} PROVE FALSE
  OBVIOUS
<1>1. PICK s \in T : \A u \in T : u \subseteq s => u = s
  <2>1. T \in SUBSET SUBSET S
    OBVIOUS
  <2> HIDE DEF T
  <2> QED BY <2>1, SmallestSubset
<1> DEFINE u == s \ {Pick(s)}
<1>2. s \in SUBSET S /\ IsFiniteSet(s) /\ SumFunctionOnSet(f, s) # SumFunctionOnSet(g, s)
  BY FS_Subset
<1>3. s # {} => f[Pick(s)] = g[Pick(s)] /\ SumFunctionOnSet(f, u) = SumFunctionOnSet(g, u)
  BY <1>1, <1>2, PickIn
<1>4. SumFunctionOnSet(f, s) = IF s = {} THEN 0 ELSE f[Pick(s)] + SumFunctionOnSet(f, u)
  BY <1>2, SumUnfold
<1>5. SumFunctionOnSet(g, s) = IF s = {} THEN 0 ELSE g[Pick(s)] + SumFunctionOnSet(g, u)
  BY <1>2, SumUnfold
<1> QED BY <1>2, <1>3, <1>4, <1>5

\* The order of the additions does not matter.
LEMMA SumOneMore ==
  ASSUME NEW f, NEW S, IsFiniteSet(S), NEW z, z \notin S,
         \A x \in S \cup {z} : f[x] \in Nat
  PROVE  SumFunctionOnSet(f, S \cup {z}) = SumFunctionOnSet(f, S) + f[z]
<1> DEFINE A == S \cup {z}
           Wrong(s) == \E y \in A \ s : SumFunctionOnSet(f, s \cup {y}) # SumFunctionOnSet(f, s) + f[y]
           T == {s \in SUBSET A : Wrong(s)}
<1> SUFFICES ASSUME T # {} PROVE FALSE
  <2>1. T = {} => ~Wrong(S)
    OBVIOUS
  <2>2. z \in A \ S
    OBVIOUS
  <2> QED BY <2>1, <2>2
<1>a. IsFiniteSet(A)
  BY FS_AddElement
<1>1. PICK s \in T : \A u \in T : u \subseteq s => u = s
  <2>1. T \in SUBSET SUBSET A
    OBVIOUS
  <2> HIDE DEF T, A
  <2> QED BY <1>a, <2>1, SmallestSubset
<1>2. PICK y \in A \ s : SumFunctionOnSet(f, s \cup {y}) # SumFunctionOnSet(f, s) + f[y]
  OBVIOUS
<1> DEFINE w == s \cup {y}
           p == Pick(w)
           q == s \ {p}
<1>3. IsFiniteSet(s) /\ IsFiniteSet(w) /\ IsFiniteSet(q) /\ p \in w /\ w # {}
  <2>1. s \in SUBSET A /\ w \in SUBSET A /\ q \in SUBSET A /\ w # {}
    OBVIOUS
  <2> HIDE DEF w, q, A
  <2> QED BY <1>a, <2>1, FS_Subset, PickIn DEF p
<1>4. SumFunctionOnSet(f, w) = f[p] + SumFunctionOnSet(f, w \ {p})
  BY <1>3, SumUnfold
<1>5. SumFunctionOnSet(f, s) \in Nat /\ SumFunctionOnSet(f, q) \in Nat /\ f[y] \in Nat /\ f[p] \in Nat
  <2>1. (\A x \in s : f[x] \in Nat) /\ (\A x \in q : f[x] \in Nat)
    OBVIOUS
  <2>2. f[y] \in Nat /\ f[p] \in Nat
    BY <1>3
  <2> HIDE DEF q, w, p, T
  <2> QED BY <1>3, <2>1, <2>2, SumTyped
<1>6. CASE p = y
  <2>1. w \ {p} = s
    BY <1>6
  <2> HIDE DEF w, p
  <2> QED BY <1>2, <1>4, <1>5, <1>6, <2>1 DEF w
<1>7. CASE p # y
  <2>1. /\ p \in s /\ q \subseteq s /\ q # s /\ q \in SUBSET A
        /\ w \ {p} = q \cup {y} /\ s = q \cup {p}
        /\ y \in A \ q /\ p \in A \ q
    BY <1>3, <1>7
  <2>2. ~Wrong(q)
    BY <1>1, <2>1
  <2>3. /\ SumFunctionOnSet(f, q \cup {y}) = SumFunctionOnSet(f, q) + f[y]
        /\ SumFunctionOnSet(f, q \cup {p}) = SumFunctionOnSet(f, q) + f[p]
    BY <2>1, <2>2
  <2> HIDE DEF q, p, A, T, Wrong, w
  <2>4. SumFunctionOnSet(f, w) = SumFunctionOnSet(f, s) + f[y]
    <3>1. SumFunctionOnSet(f, w) = f[p] + SumFunctionOnSet(f, q \cup {y})
      BY <1>4, <2>1
    <3>2. SumFunctionOnSet(f, s) = SumFunctionOnSet(f, q) + f[p]
      BY <2>1, <2>3
    <3>3. SumFunctionOnSet(f, q \cup {y}) = SumFunctionOnSet(f, q) + f[y]
      BY <2>3
    <3> QED BY <1>5, <3>1, <3>2, <3>3
  <2> QED BY <1>2, <2>4 DEF w
<1> QED BY <1>6, <1>7

LEMMA SumGrows ==
  ASSUME NEW f, NEW S, NEW R, IsFiniteSet(S), R \subseteq S, \A x \in S : f[x] \in Nat
  PROVE  SumFunctionOnSet(f, R) <= SumFunctionOnSet(f, S)
<1> DEFINE T == {s \in SUBSET S : R \subseteq s /\ ~(SumFunctionOnSet(f, R) <= SumFunctionOnSet(f, s))}
<1> SUFFICES ASSUME T # {} PROVE FALSE
  OBVIOUS
<1>1. PICK s \in T : \A u \in T : u \subseteq s => u = s
  <2>1. T \in SUBSET SUBSET S
    OBVIOUS
  <2> HIDE DEF T
  <2> QED BY <2>1, SmallestSubset
<1>2. s \in SUBSET S /\ R \subseteq s /\ ~(SumFunctionOnSet(f, R) <= SumFunctionOnSet(f, s))
  OBVIOUS
<1>3. IsFiniteSet(s) /\ IsFiniteSet(R) /\ SumFunctionOnSet(f, s) \in Nat /\ SumFunctionOnSet(f, R) \in Nat
  BY <1>2, FS_Subset, SumTyped
<1>4. PICK z \in s : z \notin R
  BY <1>2, <1>3
<1> DEFINE u == s \ {z}
<1>5. R \subseteq u /\ u \in SUBSET S /\ u # s /\ u \subseteq s /\ s = u \cup {z} /\ z \notin u
  BY <1>2, <1>4
<1>6. SumFunctionOnSet(f, R) <= SumFunctionOnSet(f, u)
  BY <1>1, <1>5
<1>7. IsFiniteSet(u) /\ SumFunctionOnSet(f, u) \in Nat /\ f[z] \in Nat
  <2>1. IsFiniteSet(u)
    BY <1>5, FS_Subset
  <2>2. \A x \in u : f[x] \in Nat
    OBVIOUS
  <2> HIDE DEF u
  <2> QED BY <1>2, <1>4, <2>1, <2>2, SumTyped
<1> HIDE DEF u
<1>8. \A x \in u \cup {z} : f[x] \in Nat
  BY <1>2, <1>5
<1>9. SumFunctionOnSet(f, s) = SumFunctionOnSet(f, u) + f[z]
  <2>1. SumFunctionOnSet(f, u \cup {z}) = SumFunctionOnSet(f, u) + f[z]
    BY <1>5, <1>7, <1>8, SumOneMore
  <2> QED BY <1>5, <2>1
<1> QED BY <1>2, <1>3, <1>6, <1>7, <1>9

-----------------------------------------------------------------------------
(* Totals, with recorded as a parameter: what the same goroutines add up to  *)
(* before and after a step can then be compared.                            *)

Given(rec, r) == CHOOSE s \in rec[r] : TRUE

CountsOf(rec, R) == [r \in R |-> Given(rec, r).count]
BytesOf(rec, R) == [r \in R |-> Given(rec, r).bytes]
OfType(rec, R, t) == [r \in R |-> Given(rec, r).types[t]]

TotalsOf(rec, R) ==
  [requests |-> Cardinality(R),
   findings |-> SumFunctionOnSet(CountsOf(rec, R), R),
   bytes |-> SumFunctionOnSet(BytesOf(rec, R), R),
   byType |-> [t \in PiiTypes |-> SumFunctionOnSet(OfType(rec, R, t), R)]]

LEMMA TotalsGiven == \A R : Totals(R) = TotalsOf(recorded, R)
<1> TAKE R
<1>1. SumFunction([r \in R |-> Summary(r).count]) = SumFunctionOnSet(CountsOf(recorded, R), R)
  BY DEF SumFunction, CountsOf, Given, Summary
<1>2. SumFunction([r \in R |-> Summary(r).bytes]) = SumFunctionOnSet(BytesOf(recorded, R), R)
  BY DEF SumFunction, BytesOf, Given, Summary
<1>3. \A t : SumFunction([r \in R |-> Summary(r).types[t]])
               = SumFunctionOnSet(OfType(recorded, R, t), R)
  BY DEF SumFunction, OfType, Given, Summary
<1> QED BY <1>1, <1>2, <1>3 DEF Totals, TotalsOf

\* Every goroutine in R has given its summary.
AllGiven(rec, R) == \A r \in R : \E s \in Summaries : rec[r] = {s}

LEMMA GivenValue ==
  ASSUME NEW rec, NEW R, AllGiven(rec, R), NEW r \in R
  PROVE  /\ Given(rec, r) \in Summaries /\ rec[r] = {Given(rec, r)}
         /\ Given(rec, r).count \in Nat /\ Given(rec, r).bytes \in Nat
         /\ \A t \in PiiTypes : Given(rec, r).types[t] \in Nat
<1>1. PICK s \in Summaries : rec[r] = {s}
  BY DEF AllGiven
<1>2. Given(rec, r) = s
  BY <1>1 DEF Given
<1>3. s.count \in Nat /\ s.bytes \in Nat /\ s.types \in Types
  BY SummariesAssumption
<1> QED BY <1>1, <1>2, <1>3 DEF Types

LEMMA ValuesTyped ==
  ASSUME NEW rec, NEW R, AllGiven(rec, R), NEW r \in R
  PROVE  /\ CountsOf(rec, R)[r] \in Nat /\ BytesOf(rec, R)[r] \in Nat
         /\ \A t \in PiiTypes : OfType(rec, R, t)[r] \in Nat
BY GivenValue DEF CountsOf, BytesOf, OfType

LEMMA TotalsSame ==
  ASSUME NEW rec, NEW now, NEW R, \A r \in R : rec[r] = now[r]
  PROVE  TotalsOf(rec, R) = TotalsOf(now, R)
<1>1. \A r \in R : Given(rec, r) = Given(now, r)
  BY DEF Given
<1>2. CountsOf(rec, R) = CountsOf(now, R) /\ BytesOf(rec, R) = BytesOf(now, R)
  BY <1>1 DEF CountsOf, BytesOf
<1>3. \A t : OfType(rec, R, t) = OfType(now, R, t)
  BY <1>1 DEF OfType
<1> QED BY <1>2, <1>3 DEF TotalsOf

LEMMA TotalsEmpty == \A rec : TotalsOf(rec, {}) = Zero
<1>1. \A f : SumFunctionOnSet(f, {}) = 0
  BY FS_EmptySet, SumUnfold
<1> QED BY <1>1, FS_EmptySet DEF TotalsOf, Zero, NoTypes

LEMMA TotalsTyped ==
  ASSUME NEW rec, NEW R, IsFiniteSet(R), AllGiven(rec, R)
  PROVE  TotalsOf(rec, R) \in [requests : Nat, findings : Nat, bytes : Nat, byType : Types]
<1>1. /\ \A r \in R : CountsOf(rec, R)[r] \in Nat
      /\ \A r \in R : BytesOf(rec, R)[r] \in Nat
      /\ \A t \in PiiTypes : \A r \in R : OfType(rec, R, t)[r] \in Nat
  BY ValuesTyped
<1>2. /\ SumFunctionOnSet(CountsOf(rec, R), R) \in Nat
      /\ SumFunctionOnSet(BytesOf(rec, R), R) \in Nat
      /\ \A t \in PiiTypes : SumFunctionOnSet(OfType(rec, R, t), R) \in Nat
  BY <1>1, SumTyped
<1> QED BY <1>2, FS_CardinalityType DEF TotalsOf, Types

\* A goroutine more adds its own summary.
LEMMA TotalsOneMore ==
  ASSUME NEW rec, NEW R, IsFiniteSet(R), NEW z, z \notin R, AllGiven(rec, R \cup {z}),
         NEW s, rec[z] = {s}
  PROVE  /\ TotalsOf(rec, R \cup {z}).requests = TotalsOf(rec, R).requests + 1
         /\ TotalsOf(rec, R \cup {z}).findings = TotalsOf(rec, R).findings + s.count
         /\ TotalsOf(rec, R \cup {z}).bytes = TotalsOf(rec, R).bytes + s.bytes
         /\ TotalsOf(rec, R \cup {z}).byType = CountTypes(TotalsOf(rec, R).byType, s.types)
<1> DEFINE A == R \cup {z}
<1>a. z \in A /\ Given(rec, z) = s
  BY GivenValue
<1>b. \A r \in A : /\ CountsOf(rec, A)[r] \in Nat /\ BytesOf(rec, A)[r] \in Nat
                   /\ \A t \in PiiTypes : OfType(rec, A, t)[r] \in Nat
  BY ValuesTyped
<1>1. SumFunctionOnSet(CountsOf(rec, A), A) = SumFunctionOnSet(CountsOf(rec, R), R) + s.count
  <2>1. SumFunctionOnSet(CountsOf(rec, A), A) = SumFunctionOnSet(CountsOf(rec, A), R) + CountsOf(rec, A)[z]
    BY <1>b, SumOneMore
  <2>2. SumFunctionOnSet(CountsOf(rec, A), R) = SumFunctionOnSet(CountsOf(rec, R), R)
    <3>1. \A x \in R : CountsOf(rec, A)[x] = CountsOf(rec, R)[x]
      BY DEF CountsOf
    <3> QED BY <3>1, SumSame
  <2>3. CountsOf(rec, A)[z] = s.count
    BY <1>a DEF CountsOf
  <2> QED BY <2>1, <2>2, <2>3
<1>2. SumFunctionOnSet(BytesOf(rec, A), A) = SumFunctionOnSet(BytesOf(rec, R), R) + s.bytes
  <2>1. SumFunctionOnSet(BytesOf(rec, A), A) = SumFunctionOnSet(BytesOf(rec, A), R) + BytesOf(rec, A)[z]
    BY <1>b, SumOneMore
  <2>2. SumFunctionOnSet(BytesOf(rec, A), R) = SumFunctionOnSet(BytesOf(rec, R), R)
    <3>1. \A x \in R : BytesOf(rec, A)[x] = BytesOf(rec, R)[x]
      BY DEF BytesOf
    <3> QED BY <3>1, SumSame
  <2>3. BytesOf(rec, A)[z] = s.bytes
    BY <1>a DEF BytesOf
  <2> QED BY <2>1, <2>2, <2>3
<1>3. ASSUME NEW t \in PiiTypes
      PROVE  SumFunctionOnSet(OfType(rec, A, t), A)
               = SumFunctionOnSet(OfType(rec, R, t), R) + s.types[t]
  <2>1. SumFunctionOnSet(OfType(rec, A, t), A) = SumFunctionOnSet(OfType(rec, A, t), R) + OfType(rec, A, t)[z]
    BY <1>b, SumOneMore
  <2>2. SumFunctionOnSet(OfType(rec, A, t), R) = SumFunctionOnSet(OfType(rec, R, t), R)
    <3>1. \A x \in R : OfType(rec, A, t)[x] = OfType(rec, R, t)[x]
      BY DEF OfType
    <3> QED BY <3>1, SumSame
  <2>3. OfType(rec, A, t)[z] = s.types[t]
    BY <1>a DEF OfType
  <2> QED BY <2>1, <2>2, <2>3
<1>4. Cardinality(A) = Cardinality(R) + 1
  BY FS_AddElement
<1> QED BY <1>1, <1>2, <1>3, <1>4 DEF TotalsOf, CountTypes

\* More goroutines add up to as much or more.
LEMMA TotalsGrow ==
  ASSUME NEW rec, NEW R, NEW S, R \subseteq S, IsFiniteSet(S), AllGiven(rec, S),
         NEW field \in DOMAIN Zero
  PROVE  AtMost(field, TotalsOf(rec, R)[field], TotalsOf(rec, S)[field])
<1>a. IsFiniteSet(R)
  BY FS_Subset
<1>b. \A r \in S : /\ CountsOf(rec, S)[r] \in Nat /\ BytesOf(rec, S)[r] \in Nat
                   /\ \A t \in PiiTypes : OfType(rec, S, t)[r] \in Nat
  BY ValuesTyped
<1>1. Cardinality(R) <= Cardinality(S)
  BY FS_Subset
<1>2. SumFunctionOnSet(CountsOf(rec, R), R) <= SumFunctionOnSet(CountsOf(rec, S), S)
  <2>1. \A x \in R : CountsOf(rec, R)[x] = CountsOf(rec, S)[x]
    BY DEF CountsOf
  <2>2. SumFunctionOnSet(CountsOf(rec, R), R) = SumFunctionOnSet(CountsOf(rec, S), R)
    BY <1>a, <2>1, SumSame
  <2>3. SumFunctionOnSet(CountsOf(rec, S), R) <= SumFunctionOnSet(CountsOf(rec, S), S)
    BY <1>b, SumGrows
  <2> QED BY <2>2, <2>3
<1>3. SumFunctionOnSet(BytesOf(rec, R), R) <= SumFunctionOnSet(BytesOf(rec, S), S)
  <2>1. \A x \in R : BytesOf(rec, R)[x] = BytesOf(rec, S)[x]
    BY DEF BytesOf
  <2>2. SumFunctionOnSet(BytesOf(rec, R), R) = SumFunctionOnSet(BytesOf(rec, S), R)
    BY <1>a, <2>1, SumSame
  <2>3. SumFunctionOnSet(BytesOf(rec, S), R) <= SumFunctionOnSet(BytesOf(rec, S), S)
    BY <1>b, SumGrows
  <2> QED BY <2>2, <2>3
<1>4. ASSUME NEW t \in PiiTypes
      PROVE  SumFunctionOnSet(OfType(rec, R, t), R) <= SumFunctionOnSet(OfType(rec, S, t), S)
  <2>1. \A x \in R : OfType(rec, R, t)[x] = OfType(rec, S, t)[x]
    BY DEF OfType
  <2>2. SumFunctionOnSet(OfType(rec, R, t), R) = SumFunctionOnSet(OfType(rec, S, t), R)
    BY <1>a, <2>1, SumSame
  <2>3. SumFunctionOnSet(OfType(rec, S, t), R) <= SumFunctionOnSet(OfType(rec, S, t), S)
    BY <1>b, SumGrows
  <2> QED BY <2>2, <2>3
<1>5. field \in {"requests", "findings", "bytes", "byType"}
  BY DEF Zero
<1> QED BY <1>1, <1>2, <1>3, <1>4, <1>5 DEF TotalsOf, AtMost

-----------------------------------------------------------------------------
(***************************************************************************)
(* Each counter is, at every moment, the sum over the goroutines that have  *)
(* passed the addition to it.  CountersExact alone is not inductive: it     *)
(* says nothing while somebody is in RecordMetrics.                        *)
(***************************************************************************)

StillToAdd ==
  [requests |-> {}, findings |-> {"findings"}, bytes |-> {"findings", "bytes"},
   byType |-> {"findings", "bytes", "types"}]

Added(field) == {r \in Begun : mpc[r] \notin StillToAdd[field]}

CountersKnown ==
  \A field \in DOMAIN Zero : counters[field] = TotalsOf(recorded, Added(field))[field]

MetricsInv ==
  /\ MetricsTypeOK /\ IsFiniteSet(Begun) /\ CountersKnown
  /\ before \subseteq Through /\ ScrapeBetween

Fields == {"requests", "findings", "bytes", "byType"}

LEMMA BegunGave == MetricsTypeOK => AllGiven(recorded, Begun)
BY DEF MetricsTypeOK, AllGiven, Begun

\* n and what s adds to it.
Plus(field, n, s) ==
  CASE field = "requests" -> n + 1
    [] field = "findings" -> n + s.count
    [] field = "bytes" -> n + s.bytes
    [] field = "byType" -> CountTypes(n, s.types)

LEMMA NextAddSkips ==
  ASSUME NEW s \in Summaries
  PROVE  /\ \A k \in 1 .. 3 : NextAdd(s, k) \in {"findings", "bytes", "types", "through"}
         /\ NextAdd(s, 2) # "findings" /\ NextAdd(s, 3) \in {"types", "through"}
         /\ NextAdd(s, 1) # "findings" => s.count = 0
         /\ \A k \in 1 .. 2 : NextAdd(s, k) \in {"types", "through"} => s.bytes = 0
         /\ \A k \in 1 .. 3 : NextAdd(s, k) = "through" => s.types = NoTypes
<1>1. s.count \in Nat /\ s.bytes \in Nat
  BY SummariesAssumption
<1>2. NextAdd(s, 3) = IF s.types # NoTypes THEN "types" ELSE "through"
  BY DEF NextAdd
<1>3. NextAdd(s, 2) = IF s.bytes > 0 THEN "bytes" ELSE NextAdd(s, 3)
  BY DEF NextAdd
<1>4. NextAdd(s, 1) = IF s.count > 0 THEN "findings" ELSE NextAdd(s, 2)
  BY DEF NextAdd
<1>5. \A k \in 1 .. 3 : k = 1 \/ k = 2 \/ k = 3
  OBVIOUS
<1>6. \A k \in 1 .. 2 : k = 1 \/ k = 2
  OBVIOUS
<1> QED BY <1>1, <1>2, <1>3, <1>4, <1>5, <1>6

\* Where a goroutine that goes on in RecordMetrics counts from then on.
LEMMA AddedAfter ==
  ASSUME MetricsTypeOK, NEW r \in Recorders, NEW there \in {"findings", "bytes", "types", "through"},
         Goto(r, there)
  PROVE  /\ Begun' = Begun \cup {r}
         /\ \A field \in Fields :
              /\ Added(field)' = IF there \in StillToAdd[field] THEN Added(field) \ {r}
                                                                ELSE Added(field) \cup {r}
              /\ r \in Added(field) <=> mpc[r] \notin {"out", "gone"} \cup StillToAdd[field]
<1>1. mpc \in [Recorders -> {"out", "findings", "bytes", "types", "through", "gone"}]
      /\ mpc' = [mpc EXCEPT ![r] = there]
  BY DEF MetricsTypeOK, Goto
<1>2. Begun' = Begun \cup {r}
  BY <1>1 DEF Begun
<1>3. ASSUME NEW field \in Fields
      PROVE  Added(field)' = IF there \in StillToAdd[field] THEN Added(field) \ {r}
                                                            ELSE Added(field) \cup {r}
  BY <1>1 DEF Added, Begun
<1>4. \A field \in Fields : r \in Added(field) <=> mpc[r] \notin {"out", "gone"} \cup StillToAdd[field]
  BY <1>1 DEF Added, Begun
<1> QED BY <1>2, <1>3, <1>4

\* r adds s to the counter of field, or has it behind it or before it.
Adds(r, s, field) ==
  \/ Added(field)' = Added(field) /\ counters'[field] = counters[field]
  \/ /\ r \notin Added(field) /\ Added(field)' = Added(field) \cup {r}
     /\ counters'[field] = Plus(field, counters[field], s)

LEMMA PlusNothing ==
  ASSUME MetricsTypeOK, NEW s \in Summaries
  PROVE  /\ s.count = 0 => Plus("findings", counters["findings"], s) = counters["findings"]
         /\ s.bytes = 0 => Plus("bytes", counters["bytes"], s) = counters["bytes"]
         /\ s.types = NoTypes => Plus("byType", counters["byType"], s) = counters["byType"]
<1>1. counters \in [requests : Nat, findings : Nat, bytes : Nat, byType : Types]
  BY DEF MetricsTypeOK
<1>2. CountTypes(counters["byType"], NoTypes) = counters["byType"]
  BY <1>1 DEF CountTypes, NoTypes, Types
<1> QED BY <1>1, <1>2 DEF Plus

LEMMA RecordAdds ==
  ASSUME MetricsTypeOK, NEW r \in Recorders, NEW s \in Summaries, Record(r, s), NEW field \in Fields
  PROVE  Adds(r, s, field)
<1> DEFINE there == NextAdd(s, 1)
<1>1. /\ mpc[r] = "out" /\ Goto(r, there)
      /\ counters' = [counters EXCEPT !.requests = @ + 1]
      /\ counters \in [requests : Nat, findings : Nat, bytes : Nat, byType : Types]
  BY DEF Record, MetricsTypeOK
<1>2. /\ there \in {"findings", "bytes", "types", "through"}
      /\ there # "findings" => s.count = 0
      /\ there \in {"types", "through"} => s.bytes = 0
      /\ there = "through" => s.types = NoTypes
  BY NextAddSkips
<1> HIDE DEF there
<1>3. /\ Added(field)' = IF there \in StillToAdd[field] THEN Added(field) \ {r}
                                                         ELSE Added(field) \cup {r}
      /\ r \notin Added(field)
  BY <1>1, <1>2, AddedAfter
<1>4. there \in StillToAdd[field] => Added(field)' = Added(field)
  BY <1>3
<1>5. there \notin StillToAdd[field] => Added(field)' = Added(field) \cup {r}
  BY <1>3
<1>6. CASE field = "requests"
  <2>1. there \notin StillToAdd[field] /\ counters'[field] = Plus(field, counters[field], s)
    BY <1>1, <1>6 DEF StillToAdd, Plus
  <2> QED BY <1>3, <1>5, <2>1 DEF Adds
<1>7. CASE field = "findings"
  <2>1. counters'[field] = counters[field]
    BY <1>1, <1>7
  <2>2. there \in StillToAdd[field] \/ Plus(field, counters[field], s) = counters[field]
    BY <1>2, <1>7, PlusNothing DEF StillToAdd
  <2> QED BY <1>3, <1>4, <1>5, <2>1, <2>2 DEF Adds
<1>8. CASE field = "bytes"
  <2>1. counters'[field] = counters[field]
    BY <1>1, <1>8
  <2>2. there \in StillToAdd[field] \/ Plus(field, counters[field], s) = counters[field]
    BY <1>2, <1>8, PlusNothing DEF StillToAdd
  <2> QED BY <1>3, <1>4, <1>5, <2>1, <2>2 DEF Adds
<1>9. CASE field = "byType"
  <2>1. counters'[field] = counters[field]
    BY <1>1, <1>9
  <2>2. there \in StillToAdd[field] \/ Plus(field, counters[field], s) = counters[field]
    BY <1>2, <1>9, PlusNothing DEF StillToAdd
  <2> QED BY <1>3, <1>4, <1>5, <2>1, <2>2 DEF Adds
<1> QED BY <1>6, <1>7, <1>8, <1>9 DEF Fields

LEMMA AddFindingsAdds ==
  ASSUME MetricsTypeOK, NEW r \in Recorders, NEW s \in Summaries, recorded[r] = {s}, AddFindings(r),
         NEW field \in Fields
  PROVE  Adds(r, s, field)
<1> DEFINE there == NextAdd(s, 2)
<1>1. /\ mpc[r] = "findings" /\ Goto(r, there)
      /\ counters' = [counters EXCEPT !.findings = @ + s.count]
      /\ counters \in [requests : Nat, findings : Nat, bytes : Nat, byType : Types]
  BY DEF AddFindings, MetricsTypeOK
<1>2. /\ there \in {"bytes", "types", "through"}
      /\ there \in {"types", "through"} => s.bytes = 0
      /\ there = "through" => s.types = NoTypes
  BY NextAddSkips
<1> HIDE DEF there
<1>3. /\ Added(field)' = IF there \in StillToAdd[field] THEN Added(field) \ {r}
                                                         ELSE Added(field) \cup {r}
      /\ r \in Added(field) <=> mpc[r] \notin {"out", "gone"} \cup StillToAdd[field]
  BY <1>1, <1>2, AddedAfter
<1>6. CASE field = "requests"
  <2>1. there \notin StillToAdd[field] /\ r \in Added(field) /\ counters'[field] = counters[field]
    BY <1>1, <1>3, <1>6 DEF StillToAdd
  <2>2. Added(field)' = Added(field)
    BY <1>3, <2>1
  <2> QED BY <2>1, <2>2 DEF Adds
<1>7. CASE field = "findings"
  <2>1. counters'[field] = Plus(field, counters[field], s)
    BY <1>1, <1>7 DEF Plus
  <2>2. there \notin StillToAdd[field] /\ r \notin Added(field)
    BY <1>1, <1>2, <1>3, <1>7 DEF StillToAdd
  <2> QED BY <1>3, <2>1, <2>2 DEF Adds
<1>8. CASE field = "bytes"
  <2>1. counters'[field] = counters[field] /\ r \notin Added(field)
    BY <1>1, <1>3, <1>8 DEF StillToAdd
  <2>2. there \in StillToAdd[field] \/ Plus(field, counters[field], s) = counters[field]
    BY <1>2, <1>8, PlusNothing DEF StillToAdd
  <2>3. there \in StillToAdd[field] => Added(field)' = Added(field)
    BY <1>3, <2>1
  <2> QED BY <1>3, <2>1, <2>2, <2>3 DEF Adds
<1>9. CASE field = "byType"
  <2>1. counters'[field] = counters[field] /\ r \notin Added(field)
    BY <1>1, <1>3, <1>9 DEF StillToAdd
  <2>2. there \in StillToAdd[field] \/ Plus(field, counters[field], s) = counters[field]
    BY <1>2, <1>9, PlusNothing DEF StillToAdd
  <2>3. there \in StillToAdd[field] => Added(field)' = Added(field)
    BY <1>3, <2>1
  <2> QED BY <1>3, <2>1, <2>2, <2>3 DEF Adds
<1> QED BY <1>6, <1>7, <1>8, <1>9 DEF Fields

LEMMA AddBytesAdds ==
  ASSUME MetricsTypeOK, NEW r \in Recorders, NEW s \in Summaries, recorded[r] = {s}, AddBytes(r),
         NEW field \in Fields
  PROVE  Adds(r, s, field)
<1> DEFINE there == NextAdd(s, 3)
<1>1. /\ mpc[r] = "bytes" /\ Goto(r, there)
      /\ counters' = [counters EXCEPT !.bytes = @ + s.bytes]
      /\ counters \in [requests : Nat, findings : Nat, bytes : Nat, byType : Types]
  BY DEF AddBytes, MetricsTypeOK
<1>2. there \in {"types", "through"} /\ (there = "through" => s.types = NoTypes)
  BY NextAddSkips
<1> HIDE DEF there
<1>3. /\ Added(field)' = IF there \in StillToAdd[field] THEN Added(field) \ {r}
                                                         ELSE Added(field) \cup {r}
      /\ r \in Added(field) <=> mpc[r] \notin {"out", "gone"} \cup StillToAdd[field]
  BY <1>1, <1>2, AddedAfter
<1>6. CASE field \in {"requests", "findings"}
  <2>1. there \notin StillToAdd[field] /\ r \in Added(field) /\ counters'[field] = counters[field]
    BY <1>1, <1>2, <1>3, <1>6 DEF StillToAdd
  <2>2. Added(field)' = Added(field)
    BY <1>3, <2>1
  <2> QED BY <2>1, <2>2 DEF Adds
<1>8. CASE field = "bytes"
  <2>1. counters'[field] = Plus(field, counters[field], s)
    BY <1>1, <1>8 DEF Plus
  <2>2. there \notin StillToAdd[field] /\ r \notin Added(field)
    BY <1>1, <1>2, <1>3, <1>8 DEF StillToAdd
  <2> QED BY <1>3, <2>1, <2>2 DEF Adds
<1>9. CASE field = "byType"
  <2>1. counters'[field] = counters[field] /\ r \notin Added(field)
    BY <1>1, <1>3, <1>9 DEF StillToAdd
  <2>2. there \in StillToAdd[field] \/ Plus(field, counters[field], s) = counters[field]
    BY <1>2, <1>9, PlusNothing DEF StillToAdd
  <2>3. there \in StillToAdd[field] => Added(field)' = Added(field)
    BY <1>3, <2>1
  <2> QED BY <1>3, <2>1, <2>2, <2>3 DEF Adds
<1> QED BY <1>6, <1>8, <1>9 DEF Fields

LEMMA AddTypesAdds ==
  ASSUME MetricsTypeOK, NEW r \in Recorders, NEW s \in Summaries, recorded[r] = {s}, AddTypes(r),
         NEW field \in Fields
  PROVE  Adds(r, s, field)
<1>1. /\ mpc[r] = "types" /\ Goto(r, "through")
      /\ counters' = [counters EXCEPT !.byType = CountTypes(@, s.types)]
      /\ counters \in [requests : Nat, findings : Nat, bytes : Nat, byType : Types]
  BY DEF AddTypes, MetricsTypeOK
<1>2. "through" \notin StillToAdd[field]
  BY DEF StillToAdd, Fields
<1>3. /\ Added(field)' = Added(field) \cup {r}
      /\ r \in Added(field) <=> mpc[r] \notin {"out", "gone"} \cup StillToAdd[field]
  BY <1>1, <1>2, AddedAfter
<1>6. CASE field \in {"requests", "findings", "bytes"}
  <2>1. r \in Added(field) /\ counters'[field] = counters[field]
    BY <1>1, <1>3, <1>6 DEF StillToAdd
  <2>2. Added(field)' = Added(field)
    BY <1>3, <2>1
  <2> QED BY <2>1, <2>2 DEF Adds
<1>9. CASE field = "byType"
  <2>1. counters'[field] = Plus(field, counters[field], s)
    BY <1>1, <1>9 DEF Plus
  <2>2. r \notin Added(field)
    BY <1>1, <1>3, <1>9 DEF StillToAdd
  <2> QED BY <1>3, <2>1, <2>2 DEF Adds
<1> QED BY <1>6, <1>9 DEF Fields

LEMMA AtMostTransitive ==
  ASSUME NEW field \in Fields, NEW a, NEW b, NEW c, AtMost(field, a, b), AtMost(field, b, c),
         \A n \in {a, b, c} : IF field = "byType" THEN n \in Types ELSE n \in Nat
  PROVE  AtMost(field, a, c)
<1>1. CASE field = "byType"
  <2>1. \A t \in PiiTypes : a[t] \in Nat /\ b[t] \in Nat /\ c[t] \in Nat
    BY <1>1 DEF Types
  <2>2. \A t \in PiiTypes : a[t] <= b[t] /\ b[t] <= c[t]
    BY <1>1 DEF AtMost
  <2> QED BY <1>1, <2>1, <2>2 DEF AtMost
<1>2. CASE field # "byType"
  BY <1>2 DEF AtMost
<1> QED BY <1>1, <1>2

LEMMA FieldTyped ==
  ASSUME NEW field \in Fields,
         NEW c \in [requests : Nat, findings : Nat, bytes : Nat, byType : Types]
  PROVE  IF field = "byType" THEN c[field] \in Types ELSE c[field] \in Nat
BY DEF Fields

LEMMA ShownTyped ==
  ASSUME MetricsTypeOK, NEW line \in shown
  PROVE  /\ line[1] \in Fields
         /\ IF line[1] = "byType" THEN line[2] \in Types ELSE line[2] \in Nat
BY DEF MetricsTypeOK, Fields

\* A step of a goroutine in RecordMetrics, or that begins it.
LEMMA OneAdds ==
  ASSUME MetricsInv, MetricsTypeOK', NEW r \in Recorders, NEW s \in Summaries,
         Begun' = Begun \cup {r}, recorded'[r] = {s},
         \A x \in Begun : recorded'[x] = recorded[x],
         Through \subseteq Through', UNCHANGED scrape,
         \A field \in Fields : Adds(r, s, field)
  PROVE  MetricsInv'
<1>1. IsFiniteSet(Begun) /\ IsFiniteSet(Begun')
  BY FS_AddElement DEF MetricsInv
<1>2. AllGiven(recorded', Begun')
  <2>1. (MetricsTypeOK => AllGiven(recorded, Begun))'
    BY BegunGave, PTL
  <2> QED BY <2>1
<1>3. CountersKnown'
  <2> SUFFICES ASSUME NEW field \in Fields
               PROVE  counters'[field] = TotalsOf(recorded', Added(field)')[field]
    BY DEF CountersKnown, Fields, Zero
  <2>1. /\ Added(field) \subseteq Begun /\ IsFiniteSet(Added(field))
        /\ counters[field] = TotalsOf(recorded, Added(field))[field]
    <3>1. Added(field) \in SUBSET Begun
      BY DEF Added
    <3> QED BY <1>1, <3>1, FS_Subset DEF MetricsInv, CountersKnown, Fields, Zero
  <2>2. TotalsOf(recorded, Added(field)) = TotalsOf(recorded', Added(field))
    BY <2>1, TotalsSame
  <2>3. CASE Added(field)' = Added(field) /\ counters'[field] = counters[field]
    BY <2>1, <2>2, <2>3
  <2>4. CASE /\ r \notin Added(field) /\ Added(field)' = Added(field) \cup {r}
             /\ counters'[field] = Plus(field, counters[field], s)
    <3>1. AllGiven(recorded', Added(field) \cup {r})
      BY <1>2, <2>1 DEF AllGiven
    <3> DEFINE R == Added(field)
               soFar == TotalsOf(recorded', R)
               after == TotalsOf(recorded', R \cup {r})
    <3>2. /\ after.requests = soFar.requests + 1
          /\ after.findings = soFar.findings + s.count
          /\ after.bytes = soFar.bytes + s.bytes
          /\ after.byType = CountTypes(soFar.byType, s.types)
      <4>1. r \notin R /\ IsFiniteSet(R) /\ AllGiven(recorded', R \cup {r}) /\ recorded'[r] = {s}
        BY <2>1, <2>4, <3>1
      <4> HIDE DEF R
      <4> QED BY <4>1, TotalsOneMore
    <3> HIDE DEF soFar, after
    <3>3. after[field] = Plus(field, soFar[field], s)
      BY <3>2 DEF Plus, Fields
    <3>4. counters[field] = soFar[field]
      BY <2>1, <2>2 DEF soFar
    <3> QED BY <2>4, <3>3, <3>4 DEF after
  <2> QED BY <2>3, <2>4 DEF Adds
<1>4. before' \subseteq Through'
  BY DEF MetricsInv, scrape
<1>5. ScrapeBetween'
  <2>1. (\A R : Totals(R) = TotalsOf(recorded, R))'
    BY TotalsGiven, PTL
  <2>2. before \subseteq Begun /\ before' = before /\ shown' = shown
    BY DEF MetricsInv, Through, Begun, scrape
  <2>3. TotalsOf(recorded', before) = TotalsOf(recorded, before)
    BY <2>2, TotalsSame
  <2>4. TotalsOf(recorded', Begun) = TotalsOf(recorded, Begun)
    BY TotalsSame
  <2> SUFFICES ASSUME NEW line \in shown
               PROVE  /\ AtMost(line[1], TotalsOf(recorded', before)[line[1]], line[2])
                      /\ AtMost(line[1], line[2], TotalsOf(recorded', Begun')[line[1]])
    BY <2>1, <2>2 DEF ScrapeBetween, AtMost
  <2>5. /\ AtMost(line[1], TotalsOf(recorded, before)[line[1]], line[2])
        /\ AtMost(line[1], line[2], TotalsOf(recorded, Begun)[line[1]])
    BY TotalsGiven DEF MetricsInv, ScrapeBetween
  <2>6. /\ line[1] \in Fields
        /\ IF line[1] = "byType" THEN line[2] \in Types ELSE line[2] \in Nat
    BY ShownTyped DEF MetricsInv
  <2>7. AtMost(line[1], TotalsOf(recorded', Begun)[line[1]], TotalsOf(recorded', Begun')[line[1]])
    <3>1. Begun \subseteq Begun' /\ line[1] \in DOMAIN Zero
      BY <2>6 DEF Fields, Zero
    <3> QED BY <1>1, <1>2, <3>1, TotalsGrow
  <2>8. \A n \in {line[2], TotalsOf(recorded', Begun)[line[1]], TotalsOf(recorded', Begun')[line[1]]} :
          IF line[1] = "byType" THEN n \in Types ELSE n \in Nat
    <3>1. AllGiven(recorded', Begun)
      BY <1>2 DEF AllGiven
    <3>2. /\ TotalsOf(recorded', Begun) \in [requests : Nat, findings : Nat, bytes : Nat, byType : Types]
          /\ TotalsOf(recorded', Begun') \in [requests : Nat, findings : Nat, bytes : Nat, byType : Types]
      BY <1>1, <1>2, <3>1, TotalsTyped
    <3> QED BY <2>6, <3>2, FieldTyped
  <2>9. AtMost(line[1], line[2], TotalsOf(recorded', Begun')[line[1]])
    <3> DEFINE F == line[1]
               a == line[2]
               b == TotalsOf(recorded', Begun)[F]
               c == TotalsOf(recorded', Begun')[F]
    <3>1. /\ F \in Fields /\ AtMost(F, a, b) /\ AtMost(F, b, c)
          /\ \A n \in {a, b, c} : IF F = "byType" THEN n \in Types ELSE n \in Nat
      BY <2>4, <2>5, <2>6, <2>7, <2>8
    <3> HIDE DEF F, a, b, c
    <3>2. AtMost(F, a, c)
      BY <3>1, AtMostTransitive
    <3> QED BY <3>2 DEF F, a, c
  <2> QED BY <2>3, <2>5, <2>9
<1> QED BY <1>1, <1>3, <1>4, <1>5 DEF MetricsInv

LEMMA MetricsInitInv == MetricsInit => MetricsInv
<1> SUFFICES ASSUME MetricsInit PROVE MetricsInv
  OBVIOUS
<1>1. MetricsTypeOK
  BY NothingTyped DEF MetricsInit, MetricsTypeOK, Zero
<1>2. Begun = {} /\ before = {} /\ shown = {} /\ \A field : Added(field) = {}
  BY DEF MetricsInit, Begun, Added
<1>3. counters = Zero
  BY DEF MetricsInit
<1>4. CountersKnown
  BY <1>2, <1>3, TotalsEmpty DEF CountersKnown
<1> QED BY <1>1, <1>2, <1>4, FS_EmptySet DEF MetricsInv, ScrapeBetween

LEMMA RecordKeepsInv ==
  ASSUME MetricsInv, MetricsTypeOK', NEW r \in Recorders, NEW s \in Summaries, Record(r, s)
  PROVE  MetricsInv'
<1>0. MetricsTypeOK
  BY DEF MetricsInv
<1>1. Begun' = Begun \cup {r} /\ Through \subseteq Through' /\ r \notin Begun
  BY <1>0 DEF MetricsTypeOK, Record, Goto, Begun, Through
<1>2. recorded'[r] = {s} /\ \A x \in Begun : recorded'[x] = recorded[x]
  BY <1>0, <1>1 DEF MetricsTypeOK, Record, Begun
<1>3. UNCHANGED scrape
  BY DEF Record
<1>4. \A field \in Fields : Adds(r, s, field)
  BY <1>0, RecordAdds
<1> QED BY <1>1, <1>2, <1>3, <1>4, OneAdds

LEMMA RecordStepKeepsInv ==
  ASSUME MetricsInv, MetricsTypeOK', NEW r \in Recorders, RecordStep(r)
  PROVE  MetricsInv'
<1>0. /\ MetricsTypeOK
      /\ mpc \in [Recorders -> {"out", "findings", "bytes", "types", "through", "gone"}]
  BY DEF MetricsInv, MetricsTypeOK
<1>1. mpc[r] \in {"findings", "bytes", "types"} /\ recorded' = recorded /\ UNCHANGED scrape
  BY DEF RecordStep, AddFindings, AddBytes, AddTypes
<1>2. PICK s \in Summaries : recorded[r] = {s}
  BY <1>0, <1>1 DEF MetricsTypeOK
<1>3. PICK there \in {"findings", "bytes", "types", "through"} : Goto(r, there)
  BY <1>2, NextAddSkips DEF RecordStep, AddFindings, AddBytes, AddTypes
<1>4. Begun' = Begun \cup {r} /\ Through \subseteq Through'
  BY <1>0, <1>1, <1>3 DEF Begun, Through, Goto
<1>5. \A field \in Fields : Adds(r, s, field)
  BY <1>0, <1>2, AddFindingsAdds, AddBytesAdds, AddTypesAdds DEF RecordStep
<1> QED BY <1>1, <1>2, <1>4, <1>5, OneAdds

LEMMA CountersStayKnown ==
  ASSUME CountersKnown, UNCHANGED <<counters, mpc, recorded>> PROVE CountersKnown'
<1> SUFFICES ASSUME NEW field \in DOMAIN Zero
             PROVE  counters'[field] = TotalsOf(recorded', Added(field)')[field]
  BY DEF CountersKnown, Zero
<1>1. Added(field)' = Added(field)
  BY DEF Added, Begun
<1> QED BY <1>1 DEF CountersKnown

LEMMA ScrapeKeepsInv == ASSUME MetricsInv, MetricsTypeOK', Scrape PROVE MetricsInv'
<1>0. /\ MetricsTypeOK /\ IsFiniteSet(Begun) /\ AllGiven(recorded, Begun)
  BY BegunGave DEF MetricsInv
<1>1. /\ UNCHANGED <<counters, mpc, recorded>> /\ shown' = {<<spc, counters[spc]>>}
      /\ spc \in Fields /\ spc \in DOMAIN Zero
  BY DEF Scrape, Read, MetricsInv, MetricsTypeOK, Zero, Fields
<1>2. /\ Begun' = Begun /\ Through' = Through /\ \A field : Added(field)' = Added(field)
  BY <1>1 DEF Begun, Through, Added
<1>3. before' \subseteq Through
  BY DEF Scrape, MetricsInv
<1>4. CountersKnown'
  BY <1>1, CountersStayKnown DEF MetricsInv
<1>5. ScrapeBetween'
  <2>1. counters[spc] = TotalsOf(recorded, Added(spc))[spc]
    BY <1>1 DEF MetricsInv, CountersKnown
  <2>2. before' \subseteq Added(spc) /\ Added(spc) \subseteq Begun
    BY <1>1, <1>3 DEF Added, Through, Begun, StillToAdd, Fields
  <2>3. IsFiniteSet(Added(spc)) /\ AllGiven(recorded, Added(spc))
    <3>1. Added(spc) \in SUBSET Begun
      BY <2>2
    <3> QED BY <1>0, <3>1, FS_Subset DEF AllGiven
  <2>4. /\ AtMost(spc, TotalsOf(recorded, before')[spc], counters[spc])
        /\ AtMost(spc, counters[spc], TotalsOf(recorded, Begun)[spc])
    BY <1>0, <1>1, <2>1, <2>2, <2>3, TotalsGrow
  <2>5. (\A R : Totals(R) = TotalsOf(recorded, R))'
    BY TotalsGiven, PTL
  <2>6. /\ Totals(before)' = TotalsOf(recorded, before')
        /\ Totals(Begun)' = TotalsOf(recorded, Begun)
    BY <1>1, <1>2, <2>5
  <2> QED BY <1>1, <2>4, <2>6 DEF ScrapeBetween, AtMost
<1> QED BY <1>0, <1>2, <1>3, <1>4, <1>5 DEF MetricsInv

LEMMA MetricsCrashKeepsInv == ASSUME MetricsTypeOK, MetricsTypeOK', MetricsCrash PROVE MetricsInv'
<1>1. /\ Begun' = {} /\ before' = {} /\ shown' = {} /\ \A field : Added(field)' = {}
  BY DEF MetricsCrash, MetricsTypeOK, Begun, Added
<1>2. counters' = Zero
  BY DEF MetricsCrash
<1>3. CountersKnown'
  BY <1>1, <1>2, TotalsEmpty DEF CountersKnown, Zero
<1> QED BY <1>1, <1>3, FS_EmptySet DEF MetricsInv, ScrapeBetween

LEMMA MetricsNextInv == MetricsInv /\ [MetricsNext]_metricVars => MetricsInv'
<1> SUFFICES ASSUME MetricsInv, [MetricsNext]_metricVars PROVE MetricsInv'
  OBVIOUS
<1>1. MetricsTypeOK /\ MetricsTypeOK'
  BY MetricsTyped DEF MetricsInv
<1>2. CASE UNCHANGED metricVars
  <2>1. /\ Begun' = Begun /\ Through' = Through /\ \A field : Added(field)' = Added(field)
    BY <1>2 DEF metricVars, Begun, Through, Added
  <2>2. \A R : Totals(R)' = Totals(R)
    BY <1>2 DEF metricVars, Totals, Summary
  <2>3. CountersKnown'
    BY <1>2, CountersStayKnown DEF metricVars, MetricsInv
  <2>4. ScrapeBetween'
    BY <1>2, <2>1, <2>2 DEF metricVars, MetricsInv, ScrapeBetween, AtMost
  <2> QED BY <1>1, <1>2, <2>1, <2>3, <2>4 DEF metricVars, MetricsInv
<1> QED BY <1>1, <1>2, RecordKeepsInv, RecordStepKeepsInv, ScrapeKeepsInv, MetricsCrashKeepsInv
        DEF MetricsNext

LEMMA MetricsInvExact == MetricsInv => CountersExact
<1> SUFFICES ASSUME MetricsInv, Begun = Through PROVE counters = Totals(Through)
  BY DEF CountersExact
<1>1. \A field \in Fields : Added(field) = Through
  BY DEF Added, Through, StillToAdd, Fields
<1>2. \A field \in Fields : counters[field] = Totals(Through)[field]
  BY <1>1, TotalsGiven DEF MetricsInv, CountersKnown, Fields, Zero
<1>3. counters \in [requests : Nat, findings : Nat, bytes : Nat, byType : Types]
  BY DEF MetricsInv, MetricsTypeOK
<1>4. /\ counters.requests = Totals(Through).requests /\ counters.findings = Totals(Through).findings
      /\ counters.bytes = Totals(Through).bytes /\ counters.byType = Totals(Through).byType
  BY <1>2 DEF Fields
<1>5. Totals(Through) = [requests |-> Totals(Through).requests, findings |-> Totals(Through).findings,
                         bytes |-> Totals(Through).bytes, byType |-> Totals(Through).byType]
  BY DEF Totals
<1> QED BY <1>3, <1>4, <1>5

\* What holds of the counters holds of the proxy, whose steps change them by
\* steps of Metrics only.
LEMMA ProxyCounts == Spec => []MetricsInv
<1>1. Init => MetricsInv
  BY MetricsInitInv DEF Init
<1>2. MetricsInv /\ [Next]_vars => MetricsInv'
  BY PipelineCounts, MetricsNextInv
<1> QED BY <1>1, <1>2, PTL DEF Spec

\* CountersExact: when nobody is in RecordMetrics the counters are the sums of
\* what the requests of this process found, for any number of requests that
\* came together, and whenever the process died before.
THEOREM CountersAreExact == Spec => []CountersExact
BY ProxyCounts, MetricsInvExact, PTL

\* ScrapeBetween: each line of a scrape lies between what was recorded when
\* the scrape began and what has been begun since.
THEOREM ScrapeIsBetween == Spec => []ScrapeBetween
<1>1. MetricsInv => ScrapeBetween
  BY DEF MetricsInv
<1> QED BY <1>1, ProxyCounts, PTL

-----------------------------------------------------------------------------
(***************************************************************************)
(* What the files keep.  EndsIn says pointwise what IsSuffix says with       *)
(* reversed sequences.                                                     *)
(***************************************************************************)

EndsIn(s, t) ==
  Len(s) <= Len(t) /\ \A i \in 1 .. Len(s) : s[i] = t[Len(t) - Len(s) + i]

LEMMA SuffixPointwise ==
  ASSUME NEW s \in Seq(Bytes), NEW t \in Seq(Bytes), EndsIn(s, t)
  PROVE  IsSuffix(s, t)
<1>1. /\ Reverse(s) \in Seq(Bytes) /\ Len(Reverse(s)) = Len(s)
      /\ Reverse(t) \in Seq(Bytes) /\ Len(Reverse(t)) = Len(t)
  BY DEF Reverse
<1>2. \A i \in 1 .. Len(s) : Reverse(s)[i] = Reverse(t)[i]
  BY DEF Reverse, EndsIn
<1>3. SubSeq(Reverse(t), 1, Len(s)) = Reverse(s)
  BY <1>1, <1>2 DEF EndsIn
<1> QED BY <1>1, <1>3 DEF IsSuffix, IsPrefix, EndsIn

LEMMA AppendAtEnd ==
  ASSUME NEW f \in Seq(Bytes), NEW b \in Seq(Bytes)
  PROVE  WriteAt(f, Len(f), b) = f \o b
<1> DEFINE g == WriteAt(f, Len(f), b)
<1>1. g \in Seq(Bytes) /\ Len(g) = Len(f) + Len(b)
  BY WriteAtTyped
<1>2. f \o b \in Seq(Bytes) /\ Len(f \o b) = Len(f) + Len(b)
  OBVIOUS
<1>3. \A i \in 1 .. Len(f) + Len(b) : g[i] = (f \o b)[i]
  BY WriteAtEnd
<1> HIDE DEF g
<1>4. g = f \o b
  BY SMTT(30), <1>1, <1>2, <1>3
<1> QED BY <1>4 DEF g

LEMMA EndsInGrows ==
  ASSUME NEW s \in Seq(Bytes), NEW t \in Seq(Bytes), NEW b \in Seq(Bytes), EndsIn(s, t)
  PROVE  EndsIn(s \o b, t \o b)
  BY DEF EndsIn

LEMMA EndsInTail ==
  ASSUME NEW o \in Seq(Bytes), NEW l \in Seq(Bytes), NEW t \in Seq(Bytes), EndsIn(o \o l, t)
  PROVE  EndsIn(l, t)
<1>1. Len(o \o l) = Len(o) + Len(l) /\ Len(o) \in Nat /\ Len(l) \in Nat /\ Len(t) \in Nat
  OBVIOUS
<1>2. \A i \in 1 .. Len(l) : (o \o l)[Len(o) + i] = l[i]
  OBVIOUS
<1>3. \A i \in 1 .. Len(o) + Len(l) :
        (o \o l)[i] = t[Len(t) - (Len(o) + Len(l)) + i]
  BY <1>1 DEF EndsIn
<1>4. Len(o) + Len(l) <= Len(t)
  BY <1>1 DEF EndsIn
<1>5. ASSUME NEW i \in 1 .. Len(l) PROVE l[i] = t[Len(t) - Len(l) + i]
  <2>1. Len(o) + i \in 1 .. Len(o) + Len(l)
    BY <1>1
  <2>2. Len(t) - (Len(o) + Len(l)) + (Len(o) + i) = Len(t) - Len(l) + i
    BY <1>1
  <2>3. (o \o l)[Len(o) + i] = t[Len(t) - (Len(o) + Len(l)) + (Len(o) + i)]
    BY <1>3, <2>1
  <2> QED BY <1>2, <2>2, <2>3
<1> QED BY <1>1, <1>4, <1>5 DEF EndsIn

LEMMA ConcatAssociates ==
  ASSUME NEW o \in Seq(Bytes), NEW l \in Seq(Bytes), NEW b \in Seq(Bytes)
  PROVE  o \o (l \o b) = (o \o l) \o b
  OBVIOUS

\* As long as no rename has failed, l.size is the length of the file, also
\* of one opened by rotate, and no file is renamed before it is full.
SizeExact ==
  "rename" \notin failed =>
    /\ ~Rotating /\ mode # "nil" => size = Len(log)
    /\ Rotating => log = <<>>
    /\ \A w \in Writers : wpc[w] = "rename" => mode # "nil" /\ size >= MaxLogBytes
    /\ ~Rotating /\ mode = "nil" => size = 0

KeptAtEnd ==
  "rename" \notin failed =>
    /\ EndsIn(old \o log, written)
    /\ Len(old \o log) >= MaxLogBytes \/ old \o log = written

TailInv == SizeExact /\ KeptAtEnd

\* The bytes of a write go to the end of the log, and of what is kept.
LEMMA WriteKeepsTail ==
  ASSUME LogInv, TailInv, mode # "nil", ~Rotating, "rename" \notin failed,
         NEW b \in Seq(Bytes), WriteString(b), old' = old
  PROVE  /\ size' = Len(log')
         /\ EndsIn(old' \o log', written')
         /\ Len(old' \o log') >= MaxLogBytes \/ old' \o log' = written'
<1>1. /\ log \in Seq(Bytes) /\ old \in Seq(Bytes) /\ written \in Seq(Bytes)
      /\ size = Len(log)
  BY DEF LogInv, LogTypeOK, TailInv, SizeExact
<1>2. log' = log \o b
  BY <1>1, AppendAtEnd DEF WriteString
<1>3. size' = Len(log')
  BY <1>1, <1>2 DEF WriteString
<1>4. old' \o log' = (old \o log) \o b
  BY <1>1, <1>2, ConcatAssociates
<1>5. old \o log \in Seq(Bytes) /\ Len((old \o log) \o b) >= Len(old \o log)
  BY <1>1
<1>6. EndsIn(old \o log, written) /\ (Len(old \o log) >= MaxLogBytes \/ old \o log = written)
  BY DEF TailInv, KeptAtEnd
<1>7. written' = written \o b
  BY DEF WriteString
<1>8. EndsIn((old \o log) \o b, written \o b)
  BY <1>1, <1>5, <1>6, EndsInGrows
<1>9. Len((old \o log) \o b) >= MaxLogBytes \/ (old \o log) \o b = written \o b
  <2>1. CASE old \o log = written
    BY <2>1
  <2>2. CASE Len(old \o log) >= MaxLogBytes
    <3>1. (old \o log) \o b \in Seq(Bytes)
      BY <1>5
    <3>2. Len((old \o log) \o b) \in Nat /\ Len(old \o log) \in Nat
      BY <1>5, <3>1
    <3> HIDE DEF Bytes
    <3> QED BY <1>5, <2>2, <3>2, LimitsAreNat
  <2> QED BY <1>6, <2>1, <2>2
<1> QED BY <1>3, <1>4, <1>7, <1>8, <1>9

LEMMA TailStep ==
  ASSUME LogInv, LogInv', TailInv, [LogNext]_logVars
  PROVE  TailInv'
<1> USE DEF Move, logFile
<1>a. /\ wpc \in [Writers -> {"out", "lock", "rename", "open", "put"}]
      /\ log \in Seq(Bytes) /\ old \in Seq(Bytes) /\ written \in Seq(Bytes)
      /\ mode \in {"append", "offset", "nil"} /\ size \in Nat
  BY DEF LogInv, LogTypeOK
<1>b. \A u, v \in Writers :
        wpc[u] \in {"rename", "open", "put"} /\ wpc[v] \in {"rename", "open", "put"} => u = v
  BY DEF LogInv, LogTypeOK
<1>1. ASSUME NEW w \in Writers, NEW e \in Entries, Call(w, e) PROVE TailInv'
  <2>1. /\ \A v \in Writers : wpc'[v] = "open" <=> wpc[v] = "open"
        /\ \A v \in Writers : wpc'[v] = "rename" <=> wpc[v] = "rename"
    BY <1>1, <1>a DEF Call
  <2> QED BY <1>1, <2>1 DEF Call, TailInv, SizeExact, KeptAtEnd, Rotating
<1>2. ASSUME NEW w \in Writers, Lock(w) PROVE TailInv'
  <2>1. /\ \A v \in Writers : wpc'[v] = "open" <=> wpc[v] = "open"
        /\ \A v \in Writers : wpc'[v] = "rename" =>
             wpc[v] = "rename" \/ size >= MaxLogBytes
    BY <1>2, <1>a DEF Lock, FullAt
  <2>2. ~Rotating
    BY <1>2 DEF Lock, LogInv, LogTypeOK, Rotating
  <2>3. "rename" \notin failed /\ size >= MaxLogBytes => mode # "nil"
    BY <2>2, LimitsAreNat DEF TailInv, SizeExact
  <2> QED BY <1>2, <2>1, <2>3 DEF Lock, TailInv, SizeExact, KeptAtEnd, Rotating
<1>3. ASSUME NEW w \in Writers, Rename(w) PROVE TailInv'
  <2> SUFFICES ASSUME "rename" \notin failed' PROVE TailInv'
    BY DEF TailInv, SizeExact, KeptAtEnd
  <2>1. /\ old' = log /\ log' = <<>> /\ failed' = failed /\ written' = written
        /\ mode' = mode /\ size' = size
    BY <1>3 DEF Rename, Fault
  <2>2. Rotating' /\ ~Rotating /\ \A v \in Writers : wpc'[v] # "rename"
    BY <1>3, <1>a, <1>b DEF Rename, Rotating
  <2>3. mode # "nil" /\ size >= MaxLogBytes /\ size = Len(log)
    BY <1>3, <2>1, <2>2 DEF Rename, TailInv, SizeExact
  <2>4. EndsIn(log, written)
    BY <1>a, <2>1, EndsInTail DEF TailInv, KeptAtEnd
  <2>5. old' \o log' = log
    BY <1>a, <2>1
  <2> QED BY <2>1, <2>2, <2>3, <2>4, <2>5 DEF TailInv, SizeExact, KeptAtEnd
<1>4. ASSUME NEW w \in Writers, Open(w) PROVE TailInv'
  <2> SUFFICES ASSUME "rename" \notin failed' PROVE TailInv'
    BY DEF TailInv, SizeExact, KeptAtEnd
  <2>1. Rotating /\ ~Rotating' /\ \A v \in Writers : wpc'[v] # "rename"
    BY <1>4, <1>a, <1>b DEF Open, Rotating
  <2>2. "rename" \notin failed
    BY <1>4 DEF Open, Fault
  <2>3. log = <<>> /\ log' = log /\ old' = old /\ written' = written /\ size' = 0
    BY <1>4, <2>1, <2>2 DEF Open, TailInv, SizeExact
  <2>4. Len(log') = 0
    BY <2>3
  <2> QED BY <2>1, <2>2, <2>3, <2>4 DEF TailInv, SizeExact, KeptAtEnd
<1>5. ASSUME NEW w \in Writers, Put(w) PROVE TailInv'
  <2> SUFFICES ASSUME "rename" \notin failed' PROVE TailInv'
    BY DEF TailInv, SizeExact, KeptAtEnd
  <2>1. ~Rotating /\ ~Rotating' /\ \A v \in Writers : wpc'[v] # "rename"
    BY <1>5, <1>a, <1>b DEF Put, Rotating
  <2>2. "rename" \notin failed /\ old' = old /\ mode' = mode
    BY <1>5 DEF Put, Fault
  <2>3. CASE mode = "nil"
    <3>1. UNCHANGED <<log, size, written>>
      BY <1>5, <2>3 DEF Put
    <3> QED BY <2>1, <2>2, <2>3, <3>1 DEF TailInv, SizeExact, KeptAtEnd
  <2>4. CASE mode # "nil"
    <3>1. PICK e \in entry[w] :
            \/ WriteString(Line(e))
            \/ \E n \in 0 .. LineSize(e) - 1 : WriteString(SubSeq(Line(e), 1, n))
      BY <1>5, <2>4 DEF Put
    <3>2. e \in Entries
      BY DEF LogInv, LogTypeOK
    <3>3. \E b \in Seq(Bytes) : WriteString(b)
      BY <3>1, <3>2, LineTyped
    <3>4. /\ size' = Len(log')
          /\ EndsIn(old' \o log', written')
          /\ Len(old' \o log') >= MaxLogBytes \/ old' \o log' = written'
      BY <2>1, <2>2, <2>4, <3>3, WriteKeepsTail
    <3> QED BY <2>1, <2>2, <2>4, <3>4 DEF TailInv, SizeExact, KeptAtEnd
  <2> QED BY <2>3, <2>4
<1>6. CASE LogCrash
  <2>1. /\ ~Rotating' /\ \A v \in Writers : wpc'[v] # "rename"
        /\ mode' # "nil" => size' = Len(log)
        /\ mode' = "nil" => size' = 0
        /\ failed \subseteq failed' /\ log' = log /\ old' = old /\ written' = written
    BY <1>6 DEF LogCrash, SizeOf, Fault, Rotating
  <2> QED BY <2>1 DEF TailInv, SizeExact, KeptAtEnd
<1>7. CASE UNCHANGED logVars
  BY <1>7 DEF logVars, TailInv, SizeExact, KeptAtEnd, Rotating
<1> QED BY <1>1, <1>2, <1>3, <1>4, <1>5, <1>6, <1>7 DEF LogNext, LogStep, Silent

LEMMA TailInit == LogInit => TailInv
<1> SUFFICES ASSUME LogInit PROVE TailInv
  OBVIOUS
<1>1. log \in Seq(Bytes) /\ old = <<>> /\ written = log
  BY OldLogsAssumption DEF LogInit
<1>2. old \o log = log /\ EndsIn(log, log)
  BY <1>1 DEF EndsIn
<1> QED BY <1>1, <1>2 DEF LogInit, TailInv, SizeExact, KeptAtEnd, Rotating

\* TailKept: unless a rename fails, .log.old and .log together are the end
\* of all that was written, and no less than the limit of it.
THEOREM ProxyLogKeepsTail == Spec => []TailKept
<1>1. Init => TailInv
  BY TailInit DEF Init
<1>2. PipelineInv /\ PipelineInv' /\ TailInv /\ [Next]_vars => TailInv'
  BY EntriesTyped, PipelineLogs, TailStep DEF PipelineInv
<1>3. PipelineInv /\ TailInv => TailKept
  <2> SUFFICES ASSUME PipelineInv, TailInv, "rename" \notin failed
               PROVE  /\ IsSuffix(old \o log, written)
                      /\ Len(old \o log) >= MaxLogBytes \/ old \o log = written
    BY DEF TailKept
  <2>1. log \in Seq(Bytes) /\ old \in Seq(Bytes) /\ written \in Seq(Bytes)
    BY DEF PipelineInv, LogInv, LogTypeOK
  <2>2. old \o log \in Seq(Bytes)
    BY <2>1
  <2> QED BY <2>1, <2>2, SuffixPointwise DEF TailInv, KeptAtEnd
<1> QED BY <1>1, <1>2, <1>3, PipelineInvariant, PTL DEF Spec

-----------------------------------------------------------------------------
(***************************************************************************)
(* The log and the answers.  A request has no line until it has called      *)
(* Write, its entry waits there unchanged, and afterwards it has one line,  *)
(* that of its answer.                                                     *)
(***************************************************************************)

\* No fault has kept a line from the log.
Spared == failed \cap {"open", "crash and open", "write"} = {}

\* The entry e says of r what the client and the metrics were told.
Told(r, e) ==
  \A a \in reply[r] :
    /\ e.status = a.status /\ e.size = a.size
    /\ \A s \in recorded[r] :
         e.count = s.count /\ e.types = IF got[r] = {} THEN NoTypes ELSE s.types

Unlogged == {"idle", "recording", "body", "log", "logging", "refusing", "refused"}

Story(r) ==
  /\ \A a, b \in got[r] : a = b
  /\ wpc[r] = "out" <=> rpc[r] # "logging"
  /\ rpc[r] = "logging" => entry[r] \subseteq LogEntry(r)
  /\ Spared =>
       /\ rpc[r] \in Unlogged => LinesOf(r) = {}
       /\ rpc[r] = "reply" => \E k : LinesOf(r) = {k} /\ written[k][1] \in LogEntry(r)
       /\ rpc[r] = "answered" => \E k : LinesOf(r) = {k} /\ Told(r, written[k][1])

StoryInv ==
  /\ Spared => mode # "nil"
  /\ \A r \in Requests : Story(r)

\* What does not concern r leaves its story alone.
LEMMA StoryKept ==
  ASSUME NEW r \in Requests, Story(r),
         rpc'[r] = rpc[r], got'[r] = got[r], reply'[r] = reply[r], wpc'[r] = wpc[r],
         entry'[r] = entry[r], recorded'[r] = recorded[r],
         Spared' => Spared /\ LinesOf(r)' = LinesOf(r)
                      /\ \A k \in LinesOf(r) : written'[k] = written[k]
  PROVE  Story(r)'
<1>1. LogEntry(r)' = LogEntry(r)
  BY DEF LogEntry
<1>2. \A k : Told(r, written[k][1]) /\ written'[k] = written[k] => Told(r, written[k][1])'
  BY DEF Told
<1> QED BY <1>1, <1>2 DEF Story

\* A line has one end, its last byte.
LEMMA LineAdded ==
  ASSUME written \in Seq(Bytes), NEW e \in Entries, written' = written \o Line(e),
         NEW r
  PROVE  /\ LinesOf(r)' = LinesOf(r) \cup (IF e.request = r THEN {Len(written) + LineSize(e)} ELSE {})
         /\ \A k \in LinesOf(r) : written'[k] = written[k]
         /\ written'[Len(written) + LineSize(e)][1] = e
<1> DEFINE n == LineSize(e)
<1>1. n \in Nat /\ n >= 1 /\ Line(e) \in Seq(Bytes) /\ Len(Line(e)) = n
  BY LineTyped, LimitsAreNat
<1>2. \A i \in 1 .. n : Line(e)[i] = <<e, i>>
  BY DEF Line
<1>3. DOMAIN written = 1 .. Len(written) /\ DOMAIN written' = 1 .. Len(written) + n
      /\ Len(written) \in Nat
  BY <1>1
<1>4. \A k \in 1 .. Len(written) : written'[k] = written[k]
  BY <1>1
<1>5. ASSUME NEW i \in 1 .. n
      PROVE  LET b == written'[Len(written) + i] IN b = <<e, i>> /\ b[1] = e /\ b[2] = i
  <2>1. written'[Len(written) + i] = <<e, i>>
    BY <1>1, <1>2
  <2> QED BY <2>1
<1> HIDE DEF n
<1>6. ASSUME NEW i \in 1 .. n PROVE IsEnd(written'[Len(written) + i]) <=> i = n
  BY <1>5, Zenon DEF IsEnd, n
<1>7. ASSUME NEW k \in 1 .. Len(written) + n, k \notin 1 .. Len(written)
      PROVE  \E i \in 1 .. n : k = Len(written) + i
  <2>1. k - Len(written) \in 1 .. n /\ k = Len(written) + (k - Len(written))
    BY <1>1, <1>3, <1>7
  <2> QED BY <2>1
<1>8. ASSUME NEW k
      PROVE  k \in LinesOf(r)' <=> k \in LinesOf(r) \/ (e.request = r /\ k = Len(written) + n)
  <2>1. CASE k \in 1 .. Len(written)
    <3>1. k # Len(written) + n /\ k \in DOMAIN written /\ k \in DOMAIN written'
      BY <1>1, <1>3, <2>1
    <3> QED BY <1>4, <2>1, <3>1 DEF LinesOf, IsEnd
  <2>2. ASSUME NEW i \in 1 .. n, k = Len(written) + i
        PROVE  k \in LinesOf(r)' <=> k \in LinesOf(r) \/ (e.request = r /\ k = Len(written) + n)
    <3>1. k \notin DOMAIN written /\ k \in DOMAIN written' /\ (k = Len(written) + n <=> i = n)
      BY <1>1, <1>3, <2>2
    <3>2. written'[k][1] = e
      BY <1>5, <2>2, Zenon
    <3>3. IsEnd(written'[k]) <=> i = n
      BY <1>6, <2>2
    <3>4. k \in LinesOf(r)' <=> IsEnd(written'[k]) /\ written'[k][1].request = r
      BY <3>1 DEF LinesOf, IsEnd
    <3>5. k \notin LinesOf(r)
      BY <3>1 DEF LinesOf
    <3> QED BY <3>1, <3>2, <3>3, <3>4, <3>5
  <2>3. CASE k \notin DOMAIN written'
    <3>1. k \notin DOMAIN written /\ k # Len(written) + n
      BY <1>1, <1>3, <2>3
    <3> QED BY <2>3, <3>1 DEF LinesOf
  <2> QED BY <1>3, <1>7, <2>1, <2>2, <2>3
<1>9. n \in 1 .. n /\ LinesOf(r) \subseteq 1 .. Len(written)
  BY <1>1, <1>3 DEF LinesOf
<1>10. written'[Len(written) + n][1] = e
  BY <1>5, <1>9, Zenon
<1>11. LinesOf(r)' = LinesOf(r) \cup (IF e.request = r THEN {Len(written) + n} ELSE {})
  BY <1>8
<1> QED BY <1>4, <1>9, <1>10, <1>11 DEF n

LEMMA StoryInit == Init => StoryInv
<1> SUFFICES ASSUME Init PROVE StoryInv
  OBVIOUS
<1>1. \A r \in Requests : LinesOf(r) = {}
  BY OldLogsOfOthers DEF Init, LogInit, LinesOf
<1> QED BY <1>1, RequestsAssumption DEF Init, LogInit, MetricsInit, StoryInv, Story, Requests

\* The steps that leave the log alone.
LEMMA RequestTellsStory ==
  ASSUME PipelineInv, StoryInv, NEW r \in Requests,
         \/ BodyFails(r) \/ Receive(r) \/ RecordMetrics(r) \/ NoRequest(r)
         \/ Do(r) \/ ReadAnswer(r) \/ Refuse(r) \/ Answer(r)
  PROVE  StoryInv'
<1> USE DEF Step
<1>a. /\ DOMAIN rpc = Requests /\ DOMAIN got = Requests /\ DOMAIN reply = Requests
      /\ DOMAIN recorded = Requests
  BY RequestsAssumption DEF PipelineInv, RequestsTyped, MetricsTypeOK, Requests
<1>b. UNCHANGED <<failed, written, mode, wpc, entry>>
  BY DEF BodyFails, Receive, RecordMetrics, NoRequest, Do, ReadAnswer, Refuse, Answer,
         logVars, logFile
<1>c. /\ Spared' <=> Spared
      /\ \A q : LinesOf(q)' = LinesOf(q)
  BY <1>b DEF Spared, LinesOf, IsEnd
<1>1. ASSUME NEW q \in Requests, q # r PROVE Story(q)'
  <2>1. rpc'[q] = rpc[q] /\ got'[q] = got[q] /\ reply'[q] = reply[q]
    BY <1>a, <1>1 DEF BodyFails, Receive, RecordMetrics, NoRequest, Do, ReadAnswer, Refuse, Answer,
                      Reply, requestVars
  <2>2. recorded'[q] = recorded[q]
    BY <1>a, <1>1 DEF BodyFails, Receive, RecordMetrics, NoRequest, Do, ReadAnswer, Refuse, Answer,
                      Record, RecordStep, AddFindings, AddBytes, AddTypes, metricVars
  <2>3. Story(q)
    BY DEF StoryInv
  <2> QED BY <1>b, <1>c, <2>1, <2>2, <2>3, StoryKept
<1>2. Story(r)'
  <2>a. Story(r)
    BY DEF StoryInv
  <2>1. CASE BodyFails(r) \/ Receive(r) \/ NoRequest(r) \/ Do(r)
    <3>1. /\ rpc[r] \in {"idle", "recording"} /\ rpc'[r] \in {"recording", "body", "log", "refusing"}
          /\ got' = got
      BY <1>a, <2>1 DEF BodyFails, Receive, NoRequest, Do
    <3> QED BY <1>b, <1>c, <2>a, <3>1 DEF Story, Unlogged
  <2>5. CASE Refuse(r)
    <3>1. rpc[r] = "refusing" /\ rpc'[r] = "refused" /\ got' = got
      BY <1>a, <2>5 DEF Refuse
    <3> QED BY <1>b, <1>c, <2>a, <3>1 DEF Story, Unlogged
  <2>2. CASE RecordMetrics(r)
    <3>1. rpc' = rpc /\ got' = got /\ reply' = reply /\ recorded' = recorded
      BY <2>2 DEF RecordMetrics, requestVars, RecordStep, AddFindings, AddBytes, AddTypes
    <3> QED BY <1>b, <1>c, <2>a, <3>1, StoryKept
  <2>3. CASE ReadAnswer(r)
    <3>1. rpc[r] = "body" /\ rpc'[r] = "log" /\ \A a, b \in got'[r] : a = b
      BY <1>a, <2>3 DEF ReadAnswer
    <3> QED BY <1>b, <1>c, <2>a, <3>1 DEF Story, Unlogged
  <2>4. CASE Answer(r)
    <3>1. /\ rpc[r] = "reply" /\ rpc'[r] = "answered" /\ got' = got /\ recorded' = recorded
      BY <1>a, <2>4 DEF Answer, metricVars
    <3>2. \/ got[r] = {} /\ reply'[r] = {[status |-> 502, size |-> 0]}
          \/ \E a \in got[r] : reply'[r] = {[status |-> a.status, size |-> a.size]}
      BY <1>a, <2>4 DEF Answer, Reply
    <3>3. \A s, t \in recorded[r] : s = t
      BY RequestsAssumption DEF PipelineInv, MetricsTypeOK, Requests
    <3>4. ASSUME NEW e \in LogEntry(r) PROVE Told(r, e)'
      <4>1. CASE got[r] = {}
        <5>1. PICK s \in recorded[r] : e = ErrorEntry(r, s)
          BY <3>4, <4>1 DEF LogEntry
        <5>2. e.status = 502 /\ e.size = 0 /\ e.count = s.count /\ e.types = NoTypes
          BY <5>1 DEF ErrorEntry
        <5> QED BY <3>1, <3>2, <3>3, <4>1, <5>2 DEF Told
      <4>2. CASE got[r] # {}
        <5>1. PICK a \in got[r], s \in recorded[r] : e = AnswerEntry(r, a, s)
          BY <3>4, <4>2 DEF LogEntry
        <5>2. e.status = a.status /\ e.size = a.size /\ e.count = s.count /\ e.types = s.types
          BY <5>1 DEF AnswerEntry
        <5>3. reply'[r] = {[status |-> a.status, size |-> a.size]}
          BY <2>a, <3>2, <4>2 DEF Story
        <5> QED BY <3>1, <3>3, <4>2, <5>2, <5>3 DEF Told
      <4> QED BY <4>1, <4>2
    <3>5. \A k : written[k][1] \in LogEntry(r) => Told(r, written[k][1])'
      BY <1>b, <3>4 DEF Told
    <3> QED BY <1>b, <1>c, <2>a, <3>1, <3>5 DEF Story, Unlogged
  <2> QED BY <2>1, <2>2, <2>3, <2>4, <2>5
<1> QED BY <1>b, <1>c, <1>1, <1>2 DEF StoryInv

\* Write, from its test of l.file on.
LEMMA LogTellsStory ==
  ASSUME PipelineInv, StoryInv, NEW r \in Requests, Log(r) \/ Write(r)
  PROVE  StoryInv'
<1> USE DEF Step, Move, Requests
<1>a. /\ DOMAIN rpc = Requests /\ DOMAIN wpc = Requests /\ DOMAIN entry = Requests
      /\ written \in Seq(Bytes) /\ entry[r] \subseteq Entries
  BY DEF PipelineInv, RequestsTyped, LogInv, LogTypeOK
<1>b. /\ UNCHANGED <<got, reply, recorded>>
      /\ LogEntry(r)' = LogEntry(r)
  <2>1. UNCHANGED <<got, reply, recorded>>
    BY DEF Log, Write, metricVars
  <2> QED BY <2>1 DEF LogEntry
<1>c. Spared' => Spared
  BY DEF Log, Write, Call, Silent, LogStep, Lock, Rename, Open, Put, Fault, Spared, logVars
<1>d. Spared => mode # "nil"
  BY DEF StoryInv
<1>e. Spared' => mode' # "nil"
  BY <1>c, <1>d DEF Log, Write, Call, Silent, LogStep, Lock, Rename, Open, Put, Fault, Spared,
                    logVars, logFile
<1>f. \A q \in Requests \ {r} :
        rpc'[q] = rpc[q] /\ wpc'[q] = wpc[q] /\ entry'[q] = entry[q]
  BY <1>a DEF Log, Write, Call, Silent, LogStep, Lock, Rename, Open, Put, logVars
<1>g. Story(r)
  BY DEF StoryInv
<1>1. CASE UNCHANGED written
  <2>1. \A q : LinesOf(q)' = LinesOf(q)
    BY <1>1 DEF LinesOf, IsEnd
  <2>2. \A q \in Requests \ {r} : Story(q)'
    BY <1>1, <1>b, <1>c, <1>f, <2>1, StoryKept DEF StoryInv
  <2>3. Story(r)'
    <3>1. CASE Log(r)
      <4>1. rpc[r] = "log" /\ wpc[r] = "out"
        BY <1>g, <3>1 DEF Log, Story
      <4>2. CASE Step(r, "log", "logging") /\ \E e \in LogEntry(r) : Call(r, e)
        <5>1. rpc'[r] = "logging" /\ wpc'[r] = "lock" /\ entry'[r] \subseteq LogEntry(r)
          BY <1>a, <4>2 DEF Call
        <5> QED BY <1>b, <1>c, <1>g, <2>1, <4>1, <5>1 DEF Story, Unlogged
      <4>3. CASE Step(r, "log", "reply") /\ Silent(r)
        <5>1. rpc'[r] = "reply" /\ wpc' = wpc /\ ~Spared
          BY <1>a, <1>d, <4>3 DEF Silent, logVars
        <5> QED BY <1>b, <1>c, <1>g, <4>1, <5>1 DEF Story
      <4> QED BY <3>1, <4>2, <4>3 DEF Log
    <3>2. CASE Write(r) /\ ~Put(r)
      <4>1. wpc'[r] # "out" /\ entry' = entry /\ rpc[r] = "logging"
        BY <1>a, <3>2 DEF Write, LogStep, Lock, Rename, Open
      <4>2. rpc' = rpc
        BY <3>2, <4>1 DEF Write
      <4> QED BY <1>1, <1>b, <1>c, <1>g, <2>1, <4>1, <4>2 DEF Story, Unlogged
    <3>3. CASE Write(r) /\ Put(r)
      <4>1. wpc'[r] = "out" /\ rpc'[r] = "reply" /\ rpc[r] = "logging"
        BY <1>a, <3>3 DEF Write, Put
      <4>2. ~Spared'
        <5> SUFFICES ASSUME Spared' PROVE FALSE
          OBVIOUS
        <5>1. PICK e \in entry[r] : WriteString(Line(e))
          BY <1>c, <1>d, <3>3 DEF Put, Fault, Spared
        <5>2. e \in Entries /\ written' = written \o Line(e)
          BY <1>a, <5>1 DEF WriteString
        <5>3. Len(Line(e)) \in Nat /\ Len(Line(e)) >= 1 /\ Line(e) \in Seq(Bytes)
          BY <5>2, LineTyped, LimitsAreNat
        <5>4. Len(written') = Len(written) + Len(Line(e))
          BY <1>a, <5>2, <5>3
        <5> QED BY <1>1, <1>a, <5>3, <5>4
      <4> QED BY <1>b, <1>g, <4>1, <4>2 DEF Story
    <3> QED BY <3>1, <3>2, <3>3
  <2> QED BY <1>e, <2>2, <2>3 DEF StoryInv
<1>2. CASE ~UNCHANGED written
  <2>1. Write(r) /\ Put(r)
    BY <1>2 DEF Log, Write, Call, Silent, LogStep, Lock, Rename, Open, logVars
  <2>2. wpc'[r] = "out" /\ rpc'[r] = "reply" /\ rpc[r] = "logging"
    BY <1>a, <2>1 DEF Write, Put
  <2>3. CASE ~Spared'
    <3>1. \A q \in Requests \ {r} : Story(q)'
      BY <1>b, <1>f, <2>3, StoryKept DEF StoryInv
    <3>2. Story(r)'
      BY <1>b, <1>g, <2>2, <2>3 DEF Story
    <3> QED BY <1>e, <3>1, <3>2 DEF StoryInv
  <2>4. CASE Spared'
    <3>1. PICK e \in entry[r] : WriteString(Line(e))
      BY <1>c, <1>d, <2>1, <2>4 DEF Put, Fault, Spared
    <3>2. e \in Entries /\ written' = written \o Line(e)
      BY <1>a, <3>1 DEF WriteString
    <3>3. e \in LogEntry(r)
      BY <1>g, <2>2 DEF Story
    <3>4. e.request = r
      BY <3>3 DEF LogEntry, AnswerEntry, ErrorEntry
    <3> DEFINE n == Len(written) + LineSize(e)
    <3>5. LinesOf(r)' = LinesOf(r) \cup {n} /\ written'[n][1] = e
      BY <1>a, <3>2, <3>4, LineAdded
    <3>q. ASSUME NEW q \in Requests \ {r}
          PROVE  LinesOf(q)' = LinesOf(q) /\ \A k \in LinesOf(q) : written'[k] = written[k]
      <4>1. e.request # q
        BY <3>4
      <4>2. /\ LinesOf(q)' = LinesOf(q) \cup (IF e.request = q THEN {n} ELSE {})
            /\ \A k \in LinesOf(q) : written'[k] = written[k]
        BY <1>a, <3>2, LineAdded
      <4> QED BY <4>1, <4>2
    <3>6. \A q \in Requests \ {r} : Story(q)'
      BY <1>b, <1>c, <1>f, <3>q, StoryKept DEF StoryInv
    <3>7. LinesOf(r) = {}
      BY <1>c, <1>g, <2>2, <2>4 DEF Story, Unlogged
    <3>8. \E k : LinesOf(r)' = {k} /\ written'[k][1] \in LogEntry(r)'
      BY <1>b, <3>3, <3>5, <3>7
    <3>9. Story(r)'
      BY <1>b, <1>g, <2>2, <3>8 DEF Story, Unlogged
    <3> QED BY <1>e, <3>6, <3>9 DEF StoryInv
  <2> QED BY <2>3, <2>4
<1> QED BY <1>1, <1>2

LEMMA CrashEndsStory ==
  ASSUME StoryInv, Crash
  PROVE  StoryInv'
<1>1. /\ written' = written /\ got' = got /\ reply' = reply
      /\ \A r \in Requests : wpc'[r] = "out" /\ recorded'[r] = {}
      /\ \A r \in Requests : rpc'[r] = IF rpc[r] \in Ended \cup {"idle"} THEN rpc[r] ELSE "gone"
  BY RequestsAssumption DEF Crash, LogCrash, MetricsCrash, Requests
<1>2. (Spared' => Spared) /\ (Spared' => mode' # "nil")
  BY DEF Crash, LogCrash, Fault, Spared, StoryInv
<1>3. ASSUME NEW r \in Requests PROVE Story(r)'
  <2>1. Story(r) /\ LinesOf(r)' = LinesOf(r)
    BY <1>1 DEF StoryInv, LinesOf, IsEnd
  <2>2. rpc'[r] \in {"idle", "answered", "refused", "gone"} /\ (rpc'[r] # "gone" => rpc'[r] = rpc[r])
    BY <1>1 DEF Ended
  <2>3. \A k : Told(r, written[k][1]) => Told(r, written[k][1])'
    BY <1>1 DEF Told
  <2> QED BY <1>1, <1>2, <2>1, <2>2, <2>3 DEF Story, Unlogged
<1> QED BY <1>2, <1>3 DEF StoryInv

LEMMA StoryStep == PipelineInv /\ StoryInv /\ [Next]_vars => StoryInv'
<1> SUFFICES ASSUME PipelineInv, StoryInv, [Next]_vars PROVE StoryInv'
  OBVIOUS
<1>1. CASE GetMetrics \/ UNCHANGED vars
  <2>1. UNCHANGED <<written, failed, mode, wpc, entry, rpc, got, reply, recorded>>
    BY <1>1 DEF GetMetrics, Scrape, vars, logVars, logFile, requestVars, metricVars
  <2>2. (Spared' <=> Spared) /\ \A r : LinesOf(r)' = LinesOf(r)
    BY <2>1 DEF Spared, LinesOf, IsEnd
  <2> QED BY <2>1, <2>2, StoryKept DEF StoryInv
<1> QED BY <1>1, RequestTellsStory, LogTellsStory, CrashEndsStory DEF Next, Talk, Work

\* LogAgrees: unless the log could not be written, an answered request has one
\* line, which tells what its client and the metrics were told, and a request
\* that is not that far has none; for any requests, answers and crashes.
THEOREM LogTellsTheAnswers == Spec => []LogAgrees
<1>1. PipelineInv /\ StoryInv => LogAgrees
  <2> SUFFICES ASSUME PipelineInv, StoryInv, Spared, NEW r \in Requests
               PROVE  /\ rpc[r] = "answered" =>
                           /\ Cardinality(LinesOf(r)) = 1
                           /\ \A k \in LinesOf(r) : Told(r, written[k][1])
                      /\ rpc[r] \notin {"answered", "reply", "gone"} => LinesOf(r) = {}
    BY DEF LogAgrees, Told, Spared
  <2>1. rpc[r] \notin {"answered", "reply", "gone"} => rpc[r] \in Unlogged
    BY DEF PipelineInv, RequestsTyped, Ended, ToClient, Unlogged
  <2>2. ASSUME NEW k, LinesOf(r) = {k} PROVE Cardinality(LinesOf(r)) = 1
    BY <2>2, FS_Singleton
  <2> QED BY <2>1, <2>2 DEF StoryInv, Story
<1> QED BY <1>1, StoryInit, StoryStep, PipelineInvariant, PTL DEF Spec

-----------------------------------------------------------------------------
(***************************************************************************)
(* What the viewer shows.  InOrder and FlattenSeq are first shown to do what *)
(* they are for: an order exists, and pieces that lie one after the other    *)
(* are put together to what they lie in.                                   *)
(***************************************************************************)

LEMMA Largest ==
  ASSUME NEW S, S \subseteq Nat, IsFiniteSet(S), S # {}
  PROVE  \E x \in S : \A y \in S : y <= x
<1> DEFINE T == {V \in SUBSET S : V # {} /\ ~ \E x \in V : \A y \in V : y <= x}
<1> SUFFICES ASSUME T # {} PROVE FALSE
  OBVIOUS
<1>1. PICK V \in T : \A W \in T : W \subseteq V => W = V
  <2>1. T \in SUBSET SUBSET S
    OBVIOUS
  <2> HIDE DEF T
  <2>2. \E s \in T : \A u \in T : u \subseteq s => u = s
    BY ONLY <2>1, IsFiniteSet(S), T # {}, SmallestSubset
  <2> QED BY <2>2
<1>2. PICK x \in V : TRUE
  OBVIOUS
<1> DEFINE U == V \ {x}
<1>3. V \in SUBSET Nat /\ U \in SUBSET S /\ U \subseteq V /\ U # V
  OBVIOUS
<1>4. CASE U = {}
  <2>1. \A y \in V : y = x
    <3> SUFFICES ASSUME NEW y \in V, y # x PROVE FALSE
      OBVIOUS
    <3>1. y \in U
      OBVIOUS
    <3> QED BY <1>4, <3>1
  <2>2. \A y \in V : y <= x
    BY <1>3, <2>1
  <2> QED BY <2>2
<1>5. CASE U # {}
  <2>1. PICK z \in U : \A y \in U : y <= z
    BY <1>1, <1>3, <1>5
  <2>2. x \in Nat /\ z \in Nat
    BY <1>3
  <2>3. CASE x <= z
    BY <1>3, <2>1, <2>3
  <2>4. CASE z <= x
    <3>1. \A y \in V : y <= x
      BY <1>3, <2>1, <2>2, <2>4
    <3> QED BY <3>1
  <2> QED BY <2>2, <2>3, <2>4
<1> QED BY <1>4, <1>5

Increasing(e) == \A j, k \in DOMAIN e : j < k => e[j] < e[k]

LEMMA OrderExists ==
  ASSUME NEW S, S \subseteq Nat, IsFiniteSet(S)
  PROVE  \E e \in [1 .. Cardinality(S) -> S] : Increasing(e)
<1> DEFINE T == {V \in SUBSET S : ~ \E e \in [1 .. Cardinality(V) -> V] : Increasing(e)}
<1> SUFFICES ASSUME T # {} PROVE FALSE
  OBVIOUS
<1>1. PICK V \in T : \A W \in T : W \subseteq V => W = V
  <2>1. T \in SUBSET SUBSET S
    OBVIOUS
  <2> HIDE DEF T
  <2>2. \E s \in T : \A u \in T : u \subseteq s => u = s
    BY ONLY <2>1, IsFiniteSet(S), T # {}, SmallestSubset
  <2> QED BY <2>2
<1>2. V \in SUBSET Nat /\ V \in SUBSET S /\ IsFiniteSet(V)
  BY FS_Subset
<1>3. V # {}
  <2> SUFFICES ASSUME V = {} PROVE FALSE
    OBVIOUS
  <2>1. Cardinality(V) = 0
    BY FS_EmptySet
  <2>2. [i \in 1 .. 0 |-> 0] \in [1 .. 0 -> V] /\ Increasing([i \in 1 .. 0 |-> 0])
    BY DEF Increasing
  <2> QED BY <2>1, <2>2
<1>4. PICK M \in V : \A y \in V : y <= M
  BY <1>2, <1>3, Largest
<1> DEFINE U == V \ {M}
           n == Cardinality(V)
<1>5. U \subseteq V /\ U # V /\ U \in SUBSET S /\ IsFiniteSet(U) /\ Cardinality(U) = n - 1 /\ n \in Nat \ {0}
  <2>1. IsFiniteSet(U) /\ Cardinality(U) = n - 1
    BY <1>2, FS_RemoveElement
  <2>2. n \in Nat /\ n # 0
    BY <1>2, <1>3, FS_CardinalityType, FS_EmptySet
  <2> QED BY <1>2, <2>1, <2>2
<1>6. PICK d \in [1 .. n - 1 -> U] : Increasing(d)
  BY <1>1, <1>5
<1> DEFINE e == [i \in 1 .. n |-> IF i = n THEN M ELSE d[i]]
<1>7. e \in [1 .. n -> V]
  <2> SUFFICES ASSUME NEW i \in 1 .. n PROVE (IF i = n THEN M ELSE d[i]) \in V
    OBVIOUS
  <2>1. i # n => i \in 1 .. n - 1
    BY <1>5
  <2> HIDE DEF n
  <2> QED BY <1>6, <2>1
<1>8. Increasing(e)
  <2> SUFFICES ASSUME NEW j \in 1 .. n, NEW k \in 1 .. n, j < k PROVE e[j] < e[k]
    BY DEF Increasing
  <2>1. j \in 1 .. n - 1 /\ e[j] = d[j] /\ d[j] \in U
    BY <1>5, <1>6
  <2>2. CASE k = n
    <3>1. d[j] <= M /\ d[j] # M /\ d[j] \in Nat /\ M \in Nat /\ e[k] = M
      BY <1>2, <1>4, <2>1, <2>2
    <3> HIDE DEF e
    <3> QED BY <2>1, <3>1
  <2>3. CASE k # n
    <3>1. k \in 1 .. n - 1 /\ e[k] = d[k]
      BY <1>5, <2>3
    <3> HIDE DEF e
    <3> QED BY <1>6, <2>1, <3>1 DEF Increasing
  <2> QED BY <2>2, <2>3
<1> QED BY <1>1, <1>7, <1>8

LEMMA InOrderOf ==
  ASSUME NEW S, S \subseteq Nat, IsFiniteSet(S)
  PROVE  /\ InOrder(S) \in [1 .. Cardinality(S) -> S] /\ Increasing(InOrder(S))
         /\ \A x \in S : \E k \in 1 .. Cardinality(S) : InOrder(S)[k] = x
<1> DEFINE e == InOrder(S)
           n == Cardinality(S)
<1>1. e \in [1 .. n -> S] /\ \A j, k \in DOMAIN e : j < k => e[j] < e[k]
  <2>1. \E c \in [1 .. n -> S] : \A j, k \in DOMAIN c : j < k => c[j] < c[k]
    BY OrderExists DEF Increasing
  <2> HIDE DEF n
  <2> QED BY <2>1, Zenon DEF InOrder, n
<1> HIDE DEF e
<1>2. n \in Nat
  BY FS_CardinalityType
<1>3. e \in Injection(1 .. n, S)
  <2>1. \A j, k \in 1 .. n : e[j] = e[k] => j = k
    <3> SUFFICES ASSUME NEW j \in 1 .. n, NEW k \in 1 .. n, e[j] = e[k], j # k PROVE FALSE
      OBVIOUS
    <3>1. j < k \/ k < j
      BY <1>2
    <3>2. e[j] \in Nat /\ e[k] \in Nat /\ (e[j] < e[k] \/ e[k] < e[j])
      BY <1>1, <3>1
    <3> QED BY <3>2
  <2> QED BY <1>1, <2>1 DEF Injection, IsInjective
<1>4. Cardinality(1 .. n) = n
  BY <1>2, FS_Interval
<1>5. e \in Surjection(1 .. n, S)
  BY <1>3, <1>4, FS_Injection
<1>6. \A x \in S : \E k \in 1 .. n : e[k] = x
  BY <1>5 DEF Surjection
<1> QED BY <1>1, <1>6 DEF e, Increasing

LEMMA SubSeqOf ==
  ASSUME NEW f \in Seq(Bytes), NEW a \in 0 .. Len(f), NEW b \in 0 .. Len(f), a <= b
  PROVE  /\ SubSeq(f, a + 1, b) \in Seq(Bytes) /\ Len(SubSeq(f, a + 1, b)) = b - a
         /\ \A i \in 1 .. b - a : SubSeq(f, a + 1, b)[i] = f[a + i]
<1>1. SubSeq(f, a + 1, b) = [i \in 1 .. b - a |-> f[a + i]]
  OBVIOUS
<1>2. \A i \in 1 .. b - a : f[a + i] \in Bytes
  OBVIOUS
<1> QED BY <1>1, <1>2

LEMMA ConcatOf ==
  ASSUME NEW s \in Seq(Bytes), NEW t \in Seq(Bytes)
  PROVE  /\ s \o t \in Seq(Bytes) /\ Len(s \o t) = Len(s) + Len(t)
         /\ \A i \in 1 .. Len(s) : (s \o t)[i] = s[i]
         /\ \A i \in 1 .. Len(t) : (s \o t)[Len(s) + i] = t[i]
  OBVIOUS

LEMMA SameBytes ==
  ASSUME NEW s \in Seq(Bytes), NEW t \in Seq(Bytes), Len(s) = Len(t),
         \A i \in 1 .. Len(s) : s[i] = t[i]
  PROVE  s = t
  OBVIOUS

LEMMA SubSeqJoin ==
  ASSUME NEW f \in Seq(Bytes), NEW a \in 0 .. Len(f), NEW b \in 0 .. Len(f), NEW c \in 0 .. Len(f),
         a <= b, b <= c
  PROVE  SubSeq(f, a + 1, b) \o SubSeq(f, b + 1, c) = SubSeq(f, a + 1, c)
<1> DEFINE s == SubSeq(f, a + 1, b)
           t == SubSeq(f, b + 1, c)
           u == SubSeq(f, a + 1, c)
<1>0. a \in Nat /\ b \in Nat /\ c \in Nat /\ a <= c
  OBVIOUS
<1>1. /\ s \in Seq(Bytes) /\ Len(s) = b - a /\ \A i \in 1 .. b - a : s[i] = f[a + i]
      /\ t \in Seq(Bytes) /\ Len(t) = c - b /\ \A i \in 1 .. c - b : t[i] = f[b + i]
      /\ u \in Seq(Bytes) /\ Len(u) = c - a /\ \A i \in 1 .. c - a : u[i] = f[a + i]
  BY <1>0, SubSeqOf
<1> DEFINE w == s \o t
<1> HIDE DEF s, t, u
<1>2. /\ w \in Seq(Bytes) /\ Len(w) = (b - a) + (c - b)
      /\ \A i \in 1 .. b - a : w[i] = s[i]
      /\ \A i \in 1 .. c - b : w[(b - a) + i] = t[i]
  BY SMTT(30), <1>1, ConcatOf
<1> HIDE DEF w
<1>3. \A i \in 1 .. c - a : w[i] = u[i]
  <2> SUFFICES ASSUME NEW i \in 1 .. c - a PROVE w[i] = u[i]
    OBVIOUS
  <2>1. CASE i <= b - a
    <3>1. i \in 1 .. b - a
      BY <1>0, <2>1
    <3> QED BY <1>1, <1>2, <3>1
  <2>2. CASE ~(i <= b - a)
    <3>1. i - (b - a) \in 1 .. c - b /\ b + (i - (b - a)) = a + i /\ (b - a) + (i - (b - a)) = i
      BY <1>0, <2>2
    <3> DEFINE k == i - (b - a)
    <3>2. w[(b - a) + k] = t[k] /\ t[k] = f[b + k]
      BY <1>1, <1>2, <3>1
    <3> QED BY <1>1, <3>1, <3>2
  <2> QED BY <2>1, <2>2
<1>4. Len(w) = c - a
  BY <1>0, <1>2
<1>5. w = u
  BY <1>1, <1>2, <1>3, <1>4, SameBytes
<1> QED BY <1>5 DEF s, t, u, w

\* g[i] is the concatenation of s[1], ..., s[i], for i up to n.
Flattens(s, n, g) == g = [i \in 1 .. n |-> IF i = 1 THEN s[i] ELSE g[i - 1] \o s[i]]

LEMMA FlattenIs ==
  ASSUME NEW s, Len(s) \in Nat \ {0}, NEW h, Flattens(s, Len(s), h)
  PROVE  FlattenSeq(s) = h[Len(s)]
<1> DEFINE n == Len(s)
           g == CHOOSE c : Flattens(s, n, c)
<1>1. FlattenSeq(s) = g[n]
  BY DEF FlattenSeq, Flattens
<1>2. Flattens(s, n, g)
  BY Zenon
<1> HIDE DEF g, n
<1> DEFINE T == {i \in 1 .. n : g[i] # h[i]}
<1>3. T = {}
  <2> SUFFICES ASSUME T # {} PROVE FALSE
    OBVIOUS
  <2>1. PICK i \in T : \A k \in T : i <= k
    <3>1. T \in SUBSET Nat
      BY DEF n
    <3> HIDE DEF T
    <3>2. PICK i \in T : \A k \in T : <<k, i>> \notin OpToRel(<, Nat)
      BY <3>1, NatLessThanWellFounded, WFMin
    <3>3. \A k \in T : ~(k < i)
      BY <3>1, <3>2 DEF OpToRel
    <3> QED BY <3>1, <3>3
  <2>2. i \in 1 .. n /\ g[i] # h[i]
    OBVIOUS
  <2>3. i = 1 \/ g[i - 1] = h[i - 1]
    BY <2>1, <2>2 DEF n
  <2>4. /\ g[i] = IF i = 1 THEN s[i] ELSE g[i - 1] \o s[i]
        /\ h[i] = IF i = 1 THEN s[i] ELSE h[i - 1] \o s[i]
    BY <1>2, <2>2 DEF Flattens, n
  <2> QED BY <2>2, <2>3, <2>4
<1>4. n \in 1 .. n
  BY DEF n
<1>5. g[n] = h[n]
  BY <1>3, <1>4
<1> QED BY <1>1, <1>5 DEF n

\* Pieces of f between cuts, one after the other.
LEMMA FlattenPieces ==
  ASSUME NEW f \in Seq(Bytes), NEW m \in Nat \ {0}, NEW c \in [0 .. m -> 0 .. Len(f)],
         \A j, k \in 0 .. m : j < k => c[j] <= c[k]
  PROVE  FlattenSeq([k \in 1 .. m |-> SubSeq(f, c[k - 1] + 1, c[k])]) = SubSeq(f, c[0] + 1, c[m])
<1> DEFINE s == [k \in 1 .. m |-> SubSeq(f, c[k - 1] + 1, c[k])]
           h == [k \in 1 .. m |-> SubSeq(f, c[0] + 1, c[k])]
<1>1. Len(s) = m /\ h[m] = SubSeq(f, c[0] + 1, c[m])
  <2>1. m \in 1 .. m
    OBVIOUS
  <2>2. h[m] = SubSeq(f, c[0] + 1, c[m])
    BY <2>1, Zenon
  <2>3. Len(s) = m
    OBVIOUS
  <2> QED BY <2>2, <2>3
<1>2. \A k \in 1 .. m : h[k] = IF k = 1 THEN s[k] ELSE h[k - 1] \o s[k]
  <2> SUFFICES ASSUME NEW k \in 1 .. m PROVE h[k] = IF k = 1 THEN s[k] ELSE h[k - 1] \o s[k]
    OBVIOUS
  <2>1. CASE k = 1
    BY SMTT(30), <2>1
  <2>2. CASE k # 1
    <3>1. k - 1 \in 1 .. m /\ 0 \in 0 .. m /\ k - 1 \in 0 .. m /\ k \in 0 .. m /\ 0 < k - 1 /\ k - 1 < k
      BY <2>2
    <3>2. /\ c[0] \in 0 .. Len(f) /\ c[k - 1] \in 0 .. Len(f) /\ c[k] \in 0 .. Len(f)
          /\ c[0] <= c[k - 1] /\ c[k - 1] <= c[k]
      BY <3>1
    <3>3. SubSeq(f, c[0] + 1, c[k - 1]) \o SubSeq(f, c[k - 1] + 1, c[k]) = SubSeq(f, c[0] + 1, c[k])
      BY <3>2, SubSeqJoin
    <3>4. h[k - 1] = SubSeq(f, c[0] + 1, c[k - 1]) /\ s[k] = SubSeq(f, c[k - 1] + 1, c[k])
          /\ h[k] = SubSeq(f, c[0] + 1, c[k])
      BY <3>1
    <3> HIDE DEF h, s
    <3> QED BY <2>2, <3>3, <3>4
  <2> QED BY <2>1, <2>2
<1>3. h = [k \in 1 .. m |-> h[k]]
  BY Zenon
<1> HIDE DEF h, s
<1>4. Flattens(s, m, h)
  BY <1>2, <1>3, Zenon DEF Flattens
<1>5. FlattenSeq(s) = h[m]
  BY <1>1, <1>4, FlattenIs
<1> QED BY <1>1, <1>5 DEF s

-----------------------------------------------------------------------------
(* Files of whole lines. *)

LEMMA BytesOfEntry ==
  ASSUME NEW b \in Bytes
  PROVE  /\ b = <<b[1], b[2]>> /\ b[1] \in Entries /\ b[2] \in 1 .. MaxLine /\ b[2] \in Nat \ {0}
         /\ LineSize(b[1]) \in 1 .. MaxLine /\ LineSize(b[1]) \in Nat \ {0}
<1>1. b = <<b[1], b[2]>> /\ b[1] \in Entries /\ b[2] \in 1 .. MaxLine
  BY DEF Bytes
<1>2. LineSize(b[1]) \in 1 .. MaxLine
  BY <1>1, LogAssumption
<1> QED BY <1>1, <1>2, LimitsAreNat

\* Where the line of a byte starts, and what it has.
LEMMA WholeLineAt ==
  ASSUME NEW f \in Seq(Bytes), Whole(f), NEW i \in 1 .. Len(f)
  PROVE  LET e == f[i][1]
             p == i - f[i][2]
         IN  /\ e \in Entries /\ LineSize(e) \in Nat \ {0} /\ f[i][2] \in 1 .. LineSize(e)
             /\ p \in 0 .. Len(f) /\ p + LineSize(e) \in 0 .. Len(f)
             /\ SubSeq(f, p + 1, p + LineSize(e)) = Line(e)
             /\ \A j \in 1 .. LineSize(e) : f[p + j] = <<e, j>>
<1> DEFINE e == f[i][1]
           p == i - f[i][2]
<1>0. f[i] \in Bytes /\ i \in DOMAIN f
  OBVIOUS
<1>1. e \in Entries /\ f[i][2] \in Nat \ {0} /\ LineSize(e) \in Nat \ {0}
  BY <1>0, BytesOfEntry
<1>2. /\ f[i][2] <= LineSize(e) /\ p >= 0 /\ p + LineSize(e) <= Len(f)
      /\ SubSeq(f, p + 1, p + LineSize(e)) = Line(e)
  BY <1>0 DEF Whole
<1>3. f[i][2] \in 1 .. LineSize(e) /\ p \in 0 .. Len(f) /\ p + LineSize(e) \in 0 .. Len(f)
  <2>1. p \in Int /\ i \in Nat /\ Len(f) \in Nat
    BY <1>1
  <2> HIDE DEF p
  <2> QED BY SMTT(30), <1>1, <1>2, <2>1
<1>4. ASSUME NEW j \in 1 .. LineSize(e) PROVE f[p + j] = <<e, j>>
  <2> DEFINE q == p + LineSize(e)
  <2>1. p \in 0 .. Len(f) /\ q \in 0 .. Len(f) /\ p <= q /\ q - p = LineSize(e)
    <3>1. p \in Nat /\ q \in Nat /\ LineSize(e) \in Nat
      BY <1>1, <1>3
    <3> HIDE DEF p, e
    <3> QED BY <1>3, <3>1
  <2>2. \A k \in 1 .. q - p : SubSeq(f, p + 1, q)[k] = f[p + k]
    <3> HIDE DEF p, q
    <3> QED BY <2>1, SubSeqOf
  <2>3. Line(e)[j] = <<e, j>>
    BY DEF Line
  <2> QED BY <1>2, <2>1, <2>2, <2>3
<1> QED BY <1>1, <1>2, <1>3, <1>4

\* A line starts at the start of the file and after the end of another.
LEMMA WholeStarts ==
  ASSUME NEW f \in Seq(Bytes), Whole(f), NEW i \in 1 .. Len(f), i = 1 \/ IsEnd(f[i - 1])
  PROVE  f[i][2] = 1
<1> DEFINE e == f[i][1]
           n == f[i][2]
           p == i - n
<1>1. /\ n \in 1 .. LineSize(e) /\ p \in 0 .. Len(f) /\ LineSize(e) \in Nat \ {0}
      /\ \A j \in 1 .. LineSize(e) : f[p + j] = <<e, j>>
  BY WholeLineAt
<1>2. CASE i = 1
  <2>1. n \in Nat \ {0} /\ 1 - n >= 0
    BY <1>1, <1>2
  <2> QED BY <2>1
<1>3. CASE IsEnd(f[i - 1])
  <2> SUFFICES ASSUME n # 1 PROVE FALSE
    OBVIOUS
  <2>1. n - 1 \in 1 .. LineSize(e) /\ p + (n - 1) = i - 1 /\ n - 1 # LineSize(e)
    BY <1>1
  <2>2. f[i - 1] = <<e, n - 1>>
    BY <1>1, <2>1
  <2>3. IsEnd(f[i - 1]) <=> n - 1 = LineSize(e)
    BY <2>2 DEF IsEnd
  <2> QED BY <1>3, <2>1, <2>3
<1> QED BY <1>2, <1>3

LEMMA WholeEnds ==
  ASSUME NEW f \in Seq(Bytes), Whole(f), f # <<>>
  PROVE  IsEnd(f[Len(f)])
<1> DEFINE i == Len(f)
           e == f[i][1]
           n == f[i][2]
<1>1. i \in 1 .. Len(f)
  OBVIOUS
<1>2. \A k \in 1 .. Len(f) :
        /\ f[k][2] \in 1 .. LineSize(f[k][1]) /\ LineSize(f[k][1]) \in Nat
        /\ (k - f[k][2]) + LineSize(f[k][1]) \in 0 .. Len(f)
  BY WholeLineAt
<1> QED BY <1>1, <1>2 DEF IsEnd

\* What lies between an end, or the start of the file, and the next end.
LEMMA WholeBetween ==
  ASSUME NEW f \in Seq(Bytes), Whole(f), NEW p \in 0 .. Len(f), NEW q \in 1 .. Len(f), p < q,
         p = 0 \/ IsEnd(f[p]), IsEnd(f[q]), \A k \in p + 1 .. q - 1 : ~IsEnd(f[k])
  PROVE  SubSeq(f, p + 1, q) = Line(f[p + 1][1])
<1> DEFINE i == p + 1
           e == f[i][1]
           L == LineSize(e)
<1>1. i \in 1 .. Len(f) /\ i - 1 = p
  OBVIOUS
<1>2. f[i][2] = 1
  BY <1>1, WholeStarts
<1>3. /\ L \in Nat \ {0} /\ p + L \in 0 .. Len(f) /\ SubSeq(f, p + 1, p + L) = Line(e)
      /\ \A j \in 1 .. L : f[p + j] = <<e, j>>
  <2> DEFINE r == i - f[i][2]
  <2>1. /\ L \in Nat \ {0} /\ r + L \in 0 .. Len(f) /\ SubSeq(f, r + 1, r + L) = Line(e)
        /\ \A j \in 1 .. L : f[r + j] = <<e, j>>
    <3> HIDE DEF i
    <3> QED BY <1>1, WholeLineAt
  <2>2. r = p
    BY <1>2
  <2> HIDE DEF r, L, e
  <2> QED BY <2>1, <2>2
<1> HIDE DEF L
<1>4. \A j \in 1 .. L : IsEnd(f[p + j]) <=> j = L
  <2> TAKE j \in 1 .. L
  <2>1. f[p + j] = <<e, j>>
    BY <1>3
  <2> QED BY ONLY <2>1 DEF IsEnd, L
<1>5. ~(p + L < q)
  <2> SUFFICES ASSUME p + L < q PROVE FALSE
    OBVIOUS
  <2>1. p + L \in p + 1 .. q - 1 /\ L \in 1 .. L
    BY ONLY SMTT(30), <1>3, p + L < q, p \in 0 .. Len(f), q \in 1 .. Len(f)
  <2> QED BY <1>4, <2>1
<1>6. q - p \in 1 .. L /\ p + (q - p) = q
  BY <1>3, <1>5
<1>7. q - p = L
  BY <1>4, <1>6
<1>8. p + L = q
  BY <1>3, <1>7
<1> QED BY <1>3, <1>8

LEMMA WholeAppend ==
  ASSUME NEW f \in Seq(Bytes), Whole(f), NEW e \in Entries
  PROVE  Whole(f \o Line(e))
<1> DEFINE b == Line(e)
           g == f \o b
           n == Len(f)
<1>1. /\ b \in Seq(Bytes) /\ Len(b) = LineSize(e) /\ LineSize(e) \in Nat \ {0} /\ n \in Nat
      /\ \A j \in 1 .. LineSize(e) : b[j] = <<e, j>>
  BY LineTyped, LimitsAreNat DEF Line
<1>2. /\ g \in Seq(Bytes) /\ Len(g) = n + LineSize(e)
      /\ \A i \in 1 .. n : g[i] = f[i]
      /\ \A i \in 1 .. LineSize(e) : g[n + i] = b[i]
  <2> HIDE DEF b
  <2>1. /\ f \o b \in Seq(Bytes) /\ Len(f \o b) = Len(f) + Len(b)
        /\ \A i \in 1 .. Len(f) : (f \o b)[i] = f[i]
        /\ \A i \in 1 .. Len(b) : (f \o b)[Len(f) + i] = b[i]
    BY <1>1, ConcatOf
  <2> QED BY <1>1, <2>1
<1> HIDE DEF g, b
<1> SUFFICES ASSUME NEW i \in 1 .. n + LineSize(e)
             PROVE  LET d == g[i][1]
                        p == i - g[i][2]
                    IN  /\ g[i][2] <= LineSize(d) /\ p >= 0 /\ p + LineSize(d) <= Len(g)
                        /\ SubSeq(g, p + 1, p + LineSize(d)) = Line(d)
  <2>1. DOMAIN g = 1 .. n + LineSize(e)
    BY <1>1, <1>2
  <2> QED BY <2>1 DEF Whole, g, b
<1> DEFINE d == g[i][1]
           p == i - g[i][2]
           q == p + LineSize(d)
<1>3. CASE i \in 1 .. n
  <2>1. g[i] = f[i]
    BY <1>2, <1>3
  <2>2. /\ f[i][2] \in 1 .. LineSize(d) /\ p \in 0 .. n /\ q \in 0 .. n /\ LineSize(d) \in Nat \ {0}
        /\ SubSeq(f, p + 1, q) = Line(d)
    BY <1>3, <2>1, WholeLineAt
  <2>3. p <= q /\ p \in 0 .. Len(g) /\ q \in 0 .. Len(g)
    BY SMTT(30), <1>1, <1>2, <2>2
  <2>4. /\ SubSeq(g, p + 1, q) \in Seq(Bytes) /\ Len(SubSeq(g, p + 1, q)) = q - p
        /\ \A k \in 1 .. q - p : SubSeq(g, p + 1, q)[k] = g[p + k]
    <3> HIDE DEF p, q
    <3> QED BY <1>2, <2>3, SubSeqOf
  <2>5. /\ SubSeq(f, p + 1, q) \in Seq(Bytes) /\ Len(SubSeq(f, p + 1, q)) = q - p
        /\ \A k \in 1 .. q - p : SubSeq(f, p + 1, q)[k] = f[p + k]
    <3> HIDE DEF p, q
    <3> QED BY <2>2, <2>3, SubSeqOf
  <2>6. \A k \in 1 .. q - p : g[p + k] = f[p + k]
    <3> TAKE k \in 1 .. q - p
    <3>1. p + k \in 1 .. n
      <4> HIDE DEF p, q
      <4> QED BY <1>1, <2>2
    <3> QED BY <1>2, <3>1
  <2>7. SubSeq(g, p + 1, q) = SubSeq(f, p + 1, q)
    <3> DEFINE x == SubSeq(g, p + 1, q)
               y == SubSeq(f, p + 1, q)
    <3>1. x \in Seq(Bytes) /\ y \in Seq(Bytes) /\ Len(x) = Len(y) /\ \A k \in 1 .. Len(x) : x[k] = y[k]
      BY <2>4, <2>5, <2>6
    <3> HIDE DEF x, y
    <3>2. x = y
      BY <3>1, SameBytes
    <3> QED BY <3>2 DEF x, y
  <2>8. g[i][2] <= LineSize(d) /\ p >= 0 /\ q <= Len(g)
    BY <2>1, <2>2, <2>3
  <2> QED BY <2>2, <2>7, <2>8
<1>4. CASE i \notin 1 .. n
  <2>1. i - n \in 1 .. LineSize(e) /\ n + (i - n) = i
    BY <1>1, <1>4
  <2>2. g[i] = <<e, i - n>>
    BY <1>1, <1>2, <2>1
  <2>3. d = e /\ g[i][2] = i - n
    BY <2>2
  <2>4. p = n /\ q = n + LineSize(e) /\ q = Len(g)
    BY <1>1, <1>2, <2>1, <2>3
  <2>5. /\ SubSeq(g, n + 1, Len(g)) \in Seq(Bytes) /\ Len(SubSeq(g, n + 1, Len(g))) = LineSize(e)
        /\ \A k \in 1 .. LineSize(e) : SubSeq(g, n + 1, Len(g))[k] = g[n + k]
    <3>1. n \in 0 .. Len(g) /\ Len(g) \in 0 .. Len(g) /\ n <= Len(g) /\ Len(g) - n = LineSize(e)
      BY <1>1, <1>2
    <3> HIDE DEF n
    <3> QED BY <1>2, <3>1, SubSeqOf
  <2>6. SubSeq(g, n + 1, Len(g)) = b
    <3> DEFINE x == SubSeq(g, n + 1, Len(g))
    <3>1. x \in Seq(Bytes) /\ Len(x) = Len(b) /\ \A k \in 1 .. Len(x) : x[k] = b[k]
      BY <1>1, <1>2, <2>5
    <3> HIDE DEF x
    <3>2. x = b
      BY <1>1, <3>1, SameBytes
    <3> QED BY <3>2 DEF x
  <2>7. g[i][2] <= LineSize(d) /\ p >= 0 /\ q <= Len(g)
    BY <1>1, <2>1, <2>3, <2>4
  <2> QED BY <2>3, <2>4, <2>6, <2>7 DEF b
<1> QED BY <1>3, <1>4

-----------------------------------------------------------------------------
(* tailLog on such a file. *)

LEMMA SubSeqOfRest ==
  ASSUME NEW f \in Seq(Bytes), NEW start \in 0 .. Len(f),
         NEW a \in 0 .. Len(f) - start, NEW b \in 0 .. Len(f) - start, a <= b
  PROVE  SubSeq(SubSeq(f, start + 1, Len(f)), a + 1, b) = SubSeq(f, (start + a) + 1, start + b)
<1> DEFINE data == SubSeq(f, start + 1, Len(f))
           x == SubSeq(data, a + 1, b)
           y == SubSeq(f, (start + a) + 1, start + b)
<1>0. /\ start + a \in 0 .. Len(f) /\ start + b \in 0 .. Len(f) /\ start + a <= start + b
      /\ (start + b) - (start + a) = b - a /\ Len(f) \in 0 .. Len(f) /\ start <= Len(f)
  OBVIOUS
<1>1. /\ data \in Seq(Bytes) /\ Len(data) = Len(f) - start
      /\ \A i \in 1 .. Len(f) - start : data[i] = f[start + i]
  BY <1>0, SubSeqOf
<1> HIDE DEF data
<1>2. /\ y \in Seq(Bytes) /\ Len(y) = b - a /\ \A i \in 1 .. b - a : y[i] = f[(start + a) + i]
  BY <1>0, SubSeqOf
<1>3. /\ x \in Seq(Bytes) /\ Len(x) = b - a /\ \A i \in 1 .. b - a : x[i] = data[a + i]
  BY <1>1, SubSeqOf
<1> HIDE DEF x, y
<1>4. \A i \in 1 .. b - a : x[i] = y[i]
  <2> TAKE i \in 1 .. b - a
  <2>1. a + i \in 1 .. Len(f) - start /\ start + (a + i) = (start + a) + i
    OBVIOUS
  <2>2. data[a + i] = f[(start + a) + i]
    BY <1>1, <2>1
  <2> QED BY <1>2, <1>3, <2>2
<1>5. x = y
  BY <1>2, <1>3, <1>4, SameBytes
<1> QED BY <1>5 DEF x, y, data

LEMMA RestIsSuffix ==
  ASSUME NEW f \in Seq(Bytes), NEW a \in 0 .. Len(f)
  PROVE  IsSuffix(SubSeq(f, a + 1, Len(f)), f)
<1> DEFINE u == SubSeq(f, a + 1, Len(f))
<1>1. u \in Seq(Bytes) /\ Len(u) = Len(f) - a /\ \A i \in 1 .. Len(f) - a : u[i] = f[a + i]
  <2>1. Len(f) \in 0 .. Len(f) /\ a <= Len(f)
    OBVIOUS
  <2> QED BY <2>1, SubSeqOf
<1> HIDE DEF u
<1>2. EndsIn(u, f)
  <2>1. Len(u) <= Len(f) /\ Len(f) - Len(u) = a
    BY <1>1
  <2> QED BY <1>1, <2>1 DEF EndsIn
<1>3. IsSuffix(u, f)
  BY <1>1, <1>2, SuffixPointwise
<1> QED BY <1>3 DEF u

\* The last lines, without the first one if its start may be missing.
LastOf(lines) ==
  SubSeq(lines, IF Len(lines) > MaxLines THEN Len(lines) - MaxLines + 1 ELSE 1, Len(lines))

LEMMA LastLines ==
  ASSUME NEW lines \in Seq(Seq(Bytes)), lines # <<>>, NEW start \in Nat
  PROVE  \E a \in 0 .. Len(lines) - 1 :
           /\ Len(lines) - a <= MaxLines
           /\ Len(lines) - a > 1 => a >= 1 \/ start = 0
           /\ LastOf(DropCut(start, lines)) = [k \in 1 .. Len(lines) - a |-> lines[a + k]]
<1> DEFINE m == Len(lines)
           d == IF start > 0 /\ m > 1 THEN 1 ELSE 0
           rest == DropCut(start, lines)
           b == IF m - d > MaxLines THEN (m - d) - MaxLines ELSE 0
<1>1. m \in Nat \ {0} /\ d \in {0, 1} /\ m - d \in Nat \ {0} /\ MaxLines \in Nat \ {0}
  <2>1. m \in Nat \ {0}
    OBVIOUS
  <2> HIDE DEF m
  <2> QED BY <2>1, ViewerAssumption
<1>2. /\ rest \in Seq(Seq(Bytes)) /\ Len(rest) = m - d /\ \A k \in 1 .. m - d : rest[k] = lines[d + k]
  <2>1. CASE start > 0 /\ m > 1
    <3>1. rest = Tail(lines) /\ d = 1
      BY <2>1 DEF DropCut
    <3>2. /\ Tail(lines) \in Seq(Seq(Bytes)) /\ Len(Tail(lines)) = m - 1
          /\ \A k \in 1 .. m - 1 : Tail(lines)[k] = lines[k + 1]
      BY HeadTailProperties
    <3> HIDE DEF rest, d
    <3> QED BY <1>1, <2>1, <3>1, <3>2
  <2>2. CASE ~(start > 0 /\ m > 1)
    <3>1. rest = lines /\ d = 0
      BY <2>2 DEF DropCut
    <3> HIDE DEF rest, d
    <3> QED BY <1>1, <3>1
  <2> QED BY <2>1, <2>2
<1>3. b \in 0 .. (m - d) - 1 /\ (m - d) - b <= MaxLines
  <2> HIDE DEF m, d
  <2> QED BY <1>1
<1>4. LastOf(rest) = SubSeq(rest, b + 1, m - d)
  <2>1. (IF Len(rest) > MaxLines THEN Len(rest) - MaxLines + 1 ELSE 1) = b + 1
    <3> HIDE DEF rest, m, d
    <3> QED BY <1>1, <1>2
  <2> HIDE DEF rest, b, d
  <2> QED BY <1>2, <2>1 DEF LastOf
<1>5. LastOf(rest) = [k \in 1 .. (m - d) - b |-> rest[b + k]]
  <2> HIDE DEF rest, b, m, d
  <2> QED BY <1>1, <1>2, <1>3, <1>4
<1>6. \A k \in 1 .. (m - d) - b : rest[b + k] = lines[(d + b) + k]
  <2> TAKE k \in 1 .. (m - d) - b
  <2>1. b + k \in 1 .. m - d /\ d + (b + k) = (d + b) + k
    <3> HIDE DEF b, m, d
    <3> QED BY <1>1, <1>3
  <2> HIDE DEF rest, b, m, d
  <2> QED BY <1>2, <2>1
<1>7. LastOf(rest) = [k \in 1 .. m - (d + b) |-> lines[(d + b) + k]]
  <2>1. (m - d) - b = m - (d + b)
    <3> HIDE DEF b, m, d
    <3> QED BY <1>1, <1>3
  <2> HIDE DEF rest, b, m, d
  <2> QED BY <1>5, <1>6, <2>1
<1>8. d + b \in 0 .. m - 1 /\ m - (d + b) <= MaxLines
  <2> HIDE DEF b, m, d
  <2> QED BY <1>1, <1>3
<1>9. m - (d + b) > 1 => d + b >= 1 \/ start = 0
  <2>1. b \in Nat
    BY <1>3
  <2> HIDE DEF b, m
  <2> QED BY <1>1, <2>1
<1> HIDE DEF b, m, d, rest
<1> QED BY <1>7, <1>8, <1>9 DEF m, rest

\* Where the lines of the rest of f from start on end.
Ends(f, start) ==
  LET data == SubSeq(f, start + 1, Len(f))
  IN  {i \in DOMAIN data : IsEnd(data[i])} \cup {Len(data)}

Cuts(f, start) ==
  [k \in 0 .. Cardinality(Ends(f, start)) |->
     IF k = 0 THEN start ELSE start + InOrder(Ends(f, start))[k]]

LEMMA CutsOf ==
  ASSUME NEW f \in Seq(Bytes), NEW start \in 0 .. Len(f) - 1
  PROVE  LET m == Cardinality(Ends(f, start))
             c == Cuts(f, start)
         IN  /\ m \in Nat \ {0} /\ c \in [0 .. m -> 0 .. Len(f)] /\ c[0] = start /\ c[m] = Len(f)
             /\ \A j, k \in 0 .. m : j < k => c[j] < c[k]
             /\ \A k \in 1 .. m : IsEnd(f[c[k]]) \/ c[k] = Len(f)
             /\ \A i \in start + 1 .. Len(f) : IsEnd(f[i]) => \E k \in 1 .. m : c[k] = i
             /\ Lines(SubSeq(f, start + 1, Len(f)))
                  = [k \in 1 .. m |-> SubSeq(f, c[k - 1] + 1, c[k])]
<1> DEFINE data == SubSeq(f, start + 1, Len(f))
           n == Len(f) - start
           S == Ends(f, start)
           m == Cardinality(S)
           e == InOrder(S)
           c == Cuts(f, start)
<1>0. /\ Len(f) \in Nat /\ start \in Nat /\ n \in Nat \ {0} /\ start \in 0 .. Len(f) /\ start + n = Len(f)
      /\ Len(f) \in 0 .. Len(f) /\ start <= Len(f)
  OBVIOUS
<1>1. /\ data \in Seq(Bytes) /\ Len(data) = n /\ DOMAIN data = 1 .. n
      /\ \A i \in 1 .. n : data[i] = f[start + i]
  <2>1. Len(f) \in 0 .. Len(f) /\ start <= Len(f)
    BY <1>0
  <2>2. /\ data \in Seq(Bytes) /\ Len(data) = n /\ \A i \in 1 .. n : data[i] = f[start + i]
    BY <1>0, <2>1, SubSeqOf
  <2> HIDE DEF data, n
  <2> QED BY <2>2
<1>2. S = {i \in 1 .. n : IsEnd(data[i])} \cup {n}
  <2> HIDE DEF n
  <2> QED BY <1>1 DEF Ends
<1> HIDE DEF data, S, n
<1>3. S \in SUBSET (1 .. n) /\ S \subseteq Nat /\ n \in S /\ IsFiniteSet(S)
  <2>1. S \in SUBSET (1 .. n) /\ n \in S /\ S \subseteq Nat
    BY <1>0, <1>2
  <2>2. IsFiniteSet(1 .. n)
    BY <1>0, FS_Interval
  <2> QED BY <2>1, <2>2, FS_Subset
<1>4. m \in Nat \ {0}
  BY <1>3, FS_CardinalityType, FS_EmptySet
<1>5. /\ e \in [1 .. m -> S] /\ \A j, k \in 1 .. m : j < k => e[j] < e[k]
      /\ \A x \in S : \E k \in 1 .. m : e[k] = x
  <2>1. /\ e \in [1 .. m -> S] /\ Increasing(e) /\ \A x \in S : \E k \in 1 .. m : e[k] = x
    BY <1>3, InOrderOf
  <2> QED BY <2>1 DEF Increasing
<1>6. c = [k \in 0 .. m |-> IF k = 0 THEN start ELSE start + e[k]]
  BY DEF Cuts, S
<1> HIDE DEF e, m, c
<1>7. \A k \in 1 .. m : e[k] \in 1 .. n /\ e[k] \in S
  BY <1>3, <1>5
<1>8. e[m] = n
  <2>1. PICK k \in 1 .. m : e[k] = n
    BY <1>3, <1>5
  <2>2. m \in 1 .. m /\ (k = m \/ k < m)
    BY <1>4
  <2>3. e[m] <= n /\ e[m] \in Nat
    BY <1>0, <1>7, <2>2
  <2>4. ~(k < m)
    BY <1>0, <1>5, <2>1, <2>2, <2>3
  <2> QED BY <2>1, <2>2, <2>4
<1>9. c[0] = start /\ \A k \in 1 .. m : c[k] = start + e[k]
  BY <1>4, <1>6
<1>10. \A k \in 0 .. m : c[k] \in 0 .. Len(f)
  BY <1>0, <1>4, <1>7, <1>9
<1>11. c \in [0 .. m -> 0 .. Len(f)]
  BY <1>6, <1>10
<1>12. c[m] = Len(f)
  BY <1>0, <1>4, <1>8, <1>9
<1>13. \A j, k \in 0 .. m : j < k => c[j] < c[k]
  <2> SUFFICES ASSUME NEW j \in 0 .. m, NEW k \in 0 .. m, j < k PROVE c[j] < c[k]
    OBVIOUS
  <2>1. k \in 1 .. m /\ c[k] = start + e[k] /\ e[k] \in 1 .. n
    BY <1>4, <1>7, <1>9
  <2>2. CASE j = 0
    BY <1>0, <1>9, <2>1, <2>2
  <2>3. CASE j # 0
    <3>1. j \in 1 .. m /\ c[j] = start + e[j] /\ e[j] \in 1 .. n
      BY <1>4, <1>7, <1>9, <2>3
    <3>2. e[j] < e[k]
      BY <1>5, <2>1, <3>1
    <3> QED BY <1>0, <2>1, <3>1, <3>2
  <2> QED BY <2>2, <2>3
<1>14. \A k \in 1 .. m : IsEnd(f[c[k]]) \/ c[k] = Len(f)
  <2> TAKE k \in 1 .. m
  <2>1. e[k] \in 1 .. n /\ (IsEnd(data[e[k]]) \/ e[k] = n)
    BY <1>2, <1>7
  <2>2. data[e[k]] = f[c[k]] /\ c[k] = start + e[k]
    BY <1>1, <1>9, <2>1
  <2> QED BY <1>0, <2>1, <2>2
<1>15. \A i \in start + 1 .. Len(f) : IsEnd(f[i]) => \E k \in 1 .. m : c[k] = i
  <2> SUFFICES ASSUME NEW i \in start + 1 .. Len(f), IsEnd(f[i]) PROVE \E k \in 1 .. m : c[k] = i
    OBVIOUS
  <2>1. i - start \in 1 .. n /\ start + (i - start) = i
    BY <1>0
  <2>2. data[i - start] = f[i]
    BY <1>1, <2>1
  <2>3. i - start \in S
    BY <1>2, <2>1, <2>2
  <2>4. PICK k \in 1 .. m : e[k] = i - start
    BY <1>5, <2>3
  <2> QED BY <1>9, <2>1, <2>4
<1>16. Lines(data) = [k \in 1 .. m |-> SubSeq(f, c[k - 1] + 1, c[k])]
  <2>1. Lines(data) = [k \in DOMAIN e |-> SubSeq(data, IF k = 1 THEN 1 ELSE e[k - 1] + 1, e[k])]
    BY DEF Lines, e, S, Ends, data
  <2>2. DOMAIN e = 1 .. m
    BY <1>5
  <2>3. ASSUME NEW k \in 1 .. m
        PROVE  SubSeq(data, IF k = 1 THEN 1 ELSE e[k - 1] + 1, e[k]) = SubSeq(f, c[k - 1] + 1, c[k])
    <3> DEFINE p == IF k = 1 THEN 0 ELSE e[k - 1]
    <3>1. p \in 0 .. n /\ p <= e[k] /\ e[k] \in 0 .. n /\ c[k - 1] = start + p /\ c[k] = start + e[k]
      <4>1. CASE k = 1
        BY <1>0, <1>7, <1>9, <4>1
      <4>2. CASE k # 1
        <5>1. k - 1 \in 1 .. m /\ k - 1 < k
          BY <1>4, <4>2
        <5>2. e[k - 1] < e[k] /\ e[k - 1] \in 1 .. n /\ e[k] \in 1 .. n
          BY <1>5, <1>7, <5>1
        <5> QED BY <1>0, <1>9, <4>2, <5>1, <5>2
      <4> QED BY <4>1, <4>2
    <3>2. (IF k = 1 THEN 1 ELSE e[k - 1] + 1) = p + 1
      OBVIOUS
    <3> HIDE DEF p
    <3>3. SubSeq(data, p + 1, e[k]) = SubSeq(f, (start + p) + 1, start + e[k])
      BY <1>0, <3>1, SubSeqOfRest DEF data, n
    <3> QED BY <3>1, <3>2, <3>3
  <2> QED BY <2>1, <2>2, <2>3
<1>17. LET mm == Cardinality(Ends(f, start))
           cc == Cuts(f, start)
       IN  mm = m /\ cc = c
  BY DEF m, c, S
<1> QED BY <1>4, <1>9, <1>11, <1>12, <1>13, <1>14, <1>15, <1>16 DEF m, c, S, data

\* What ViewerShowsLines asks of one file.
ShowsLines(tail, f, s) ==
  /\ IsSuffix(FlattenSeq(tail), f)
  /\ Len(tail) > 1 => \A k \in DOMAIN tail : tail[k] = Line(tail[k][1][1])
  /\ Len(tail) <= MaxLines
  /\ s > 0 => tail # <<>>

LEMMA NothingShown ==
  ASSUME NEW f \in Seq(Bytes)
  PROVE  ShowsLines(<<>>, f, 0)
<1>1. FlattenSeq(<<>>) = <<>>
  BY DEF FlattenSeq
<1>2. EndsIn(<<>>, f) /\ <<>> \in Seq(Bytes)
  BY DEF EndsIn
<1>3. IsSuffix(<<>>, f)
  BY <1>2, SuffixPointwise
<1>4. Len(<<>>) = 0 /\ 0 <= MaxLines
  BY ViewerAssumption
<1> QED BY <1>1, <1>3, <1>4 DEF ShowsLines

LEMMA TailShows ==
  ASSUME NEW f \in Seq(Bytes), Whole(f), NEW s \in 1 .. Len(f)
  PROVE  ShowsLines(TailLog(f, s), f, s)
<1> DEFINE start == IF s > Chunk THEN s - Chunk ELSE 0
           data == SubSeq(f, start + 1, Len(f))
           lines == Lines(data)
           m == Cardinality(Ends(f, start))
           c == Cuts(f, start)
<1>0. start \in 0 .. Len(f) - 1 /\ start \in Nat /\ s # 0 /\ Len(f) \in Nat
  BY ViewerAssumption
<1>1. data # <<>>
  <2>1. Len(f) \in 0 .. Len(f) /\ start \in 0 .. Len(f) /\ start <= Len(f) /\ Len(f) - start > 0
    BY <1>0
  <2>2. Len(data) = Len(f) - start
    <3> HIDE DEF start
    <3> QED BY <2>1, SubSeqOf
  <2> HIDE DEF data, start
  <2> QED BY <2>1, <2>2
<1>2. /\ m \in Nat \ {0} /\ c \in [0 .. m -> 0 .. Len(f)] /\ c[0] = start /\ c[m] = Len(f)
      /\ \A j, k \in 0 .. m : j < k => c[j] < c[k]
      /\ \A k \in 1 .. m : IsEnd(f[c[k]]) \/ c[k] = Len(f)
      /\ \A i \in start + 1 .. Len(f) : IsEnd(f[i]) => \E k \in 1 .. m : c[k] = i
      /\ lines = [k \in 1 .. m |-> SubSeq(f, c[k - 1] + 1, c[k])]
  <2> HIDE DEF start
  <2> QED BY <1>0, CutsOf
<1>3. TailLog(f, s) = LastOf(DropCut(start, lines))
  BY <1>0, <1>1 DEF TailLog, LastOf
<1> HIDE DEF start, data, lines, m, c
<1>a. \A k \in 1 .. m : k - 1 \in 0 .. m /\ k \in 0 .. m /\ k - 1 < k
  BY <1>2
<1>b. \A k \in 0 .. m : c[k] \in 0 .. Len(f) /\ c[k] \in Nat
  BY <1>0, <1>2
<1>c. \A k \in 1 .. m : c[k - 1] < c[k]
  BY <1>2, <1>a
<1>4. lines \in Seq(Seq(Bytes)) /\ Len(lines) = m /\ lines # <<>>
  <2>1. \A k \in 1 .. m : SubSeq(f, c[k - 1] + 1, c[k]) \in Seq(Bytes)
    <3> TAKE k \in 1 .. m
    <3>1. c[k - 1] \in 0 .. Len(f) /\ c[k] \in 0 .. Len(f) /\ c[k - 1] <= c[k]
      BY <1>a, <1>b, <1>c
    <3> QED BY <3>1, SubSeqOf
  <2> DEFINE T == Seq(Bytes)
             piece(k) == SubSeq(f, c[k - 1] + 1, c[k])
  <2>2. lines = [k \in 1 .. m |-> piece(k)] /\ \A k \in 1 .. m : piece(k) \in T
    BY <1>2, <2>1
  <2>3. m \in Nat \ {0}
    BY <1>2
  <2> HIDE DEF T, piece
  <2>4. lines \in Seq(T) /\ Len(lines) = m
    BY ONLY <2>2, <2>3
  <2>5. lines # <<>>
    BY ONLY <2>3, <2>4
  <2> QED BY <2>4, <2>5 DEF T
<1>5. PICK a \in 0 .. m - 1 :
        /\ m - a <= MaxLines
        /\ m - a > 1 => a >= 1 \/ start = 0
        /\ TailLog(f, s) = [k \in 1 .. m - a |-> lines[a + k]]
  <2>1. \E a \in 0 .. Len(lines) - 1 :
          /\ Len(lines) - a <= MaxLines
          /\ Len(lines) - a > 1 => a >= 1 \/ start = 0
          /\ LastOf(DropCut(start, lines)) = [k \in 1 .. Len(lines) - a |-> lines[a + k]]
    BY ONLY <1>0, <1>4, LastLines
  <2>2. Len(lines) = m /\ TailLog(f, s) = LastOf(DropCut(start, lines))
    BY <1>3, <1>4
  <2> QED BY ONLY <2>1, <2>2
<1> DEFINE tail == TailLog(f, s)
           r == m - a
           d == [k \in 0 .. r |-> c[a + k]]
<1>6. /\ r \in Nat \ {0} /\ a \in Nat /\ a + r = m
      /\ \A k \in 0 .. r : a + k \in 0 .. m
      /\ \A k \in 1 .. r : a + k \in 1 .. m /\ a + (k - 1) = (a + k) - 1 /\ k - 1 \in 0 .. r /\ k \in 0 .. r
  BY <1>2
<1>7. tail = [k \in 1 .. r |-> SubSeq(f, d[k - 1] + 1, d[k])]
  <2>1. ASSUME NEW k \in 1 .. r PROVE lines[a + k] = SubSeq(f, d[k - 1] + 1, d[k])
    <3>1. d[k - 1] = c[(a + k) - 1] /\ d[k] = c[a + k]
      BY <1>6
    <3>2. lines[a + k] = SubSeq(f, c[(a + k) - 1] + 1, c[a + k])
      BY <1>2, <1>6
    <3> HIDE DEF d
    <3> QED BY <3>1, <3>2
  <2> HIDE DEF d
  <2> QED BY <1>5, <2>1
<1>8. Len(tail) = r /\ DOMAIN tail = 1 .. r /\ tail # <<>>
  <2> HIDE DEF tail, r, d
  <2>1. Len(tail) = r /\ DOMAIN tail = 1 .. r
    BY <1>6, <1>7
  <2> QED BY <1>6, <2>1
<1>9. /\ d \in [0 .. r -> 0 .. Len(f)] /\ d[0] = c[a] /\ d[r] = Len(f)
      /\ \A j, k \in 0 .. r : j < k => d[j] <= d[k]
  <2>1. d \in [0 .. r -> 0 .. Len(f)]
    BY <1>6, <1>b
  <2>2. d[0] = c[a] /\ d[r] = c[m]
    BY <1>6
  <2>3. ASSUME NEW j \in 0 .. r, NEW k \in 0 .. r, j < k PROVE d[j] <= d[k]
    <3>1. a + j \in 0 .. m /\ a + k \in 0 .. m /\ a + j < a + k
      BY <1>6, <2>3
    <3>2. c[a + j] < c[a + k] /\ c[a + j] \in Nat /\ c[a + k] \in Nat
      BY <1>2, <1>b, <3>1
    <3> QED BY <3>2
  <2> QED BY <1>2, <2>1, <2>2, <2>3
<1> HIDE DEF d, r
<1>10. IsSuffix(FlattenSeq(tail), f)
  <2>1. FlattenSeq(tail) = SubSeq(f, d[0] + 1, d[r])
    BY <1>6, <1>7, <1>9, FlattenPieces
  <2>2. c[a] \in 0 .. Len(f)
    BY <1>6, <1>9
  <2> QED BY <1>9, <2>1, <2>2, RestIsSuffix
<1>11. ASSUME r > 1, NEW k \in 1 .. r PROVE tail[k] = Line(tail[k][1][1])
  <2> DEFINE i == a + k
             p == c[i - 1]
             q == c[i]
  <2>1. i \in 1 .. m /\ i - 1 \in 0 .. m /\ p \in 0 .. Len(f) /\ q \in 1 .. Len(f) /\ p < q
    <3>1. i \in 1 .. m
      BY <1>6
    <3> HIDE DEF i
    <3>2. i - 1 \in 0 .. m /\ i \in 0 .. m /\ p < q
      BY <1>a, <1>c, <3>1
    <3>3. p \in 0 .. Len(f) /\ q \in 0 .. Len(f)
      BY <1>b, <3>2
    <3> HIDE DEF p, q
    <3> QED BY <3>1, <3>2, <3>3
  <2>2. tail[k] = SubSeq(f, p + 1, q)
    <3>1. d[k - 1] = p /\ d[k] = q
      BY <1>6 DEF d
    <3> HIDE DEF tail, p, q
    <3> QED BY <1>7, <3>1
  <2>3. p = 0 \/ IsEnd(f[p])
    <3>1. CASE i = 1
      <4>1. a = 0
        BY <1>6, <3>1
      <4>2. start = 0
        BY <1>5, <1>11, <4>1 DEF r
      <4> QED BY <1>2, <3>1, <4>2
    <3>2. CASE i # 1
      <4>1. i - 1 \in 1 .. m
        <5> HIDE DEF i
        <5> QED BY <1>2, <2>1, <3>2
      <4>2. IsEnd(f[p]) \/ p = Len(f)
        <5> HIDE DEF i
        <5> QED BY <1>2, <4>1
      <4>3. p # Len(f)
        <5> HIDE DEF p, q
        <5> QED BY <1>0, <2>1
      <4> QED BY <4>2, <4>3
    <3> QED BY <3>1, <3>2
  <2>4. IsEnd(f[q])
    <3>1. IsEnd(f[q]) \/ q = Len(f)
      <4> HIDE DEF i
      <4> QED BY <1>2, <2>1
    <3>2. f # <<>>
      <4> HIDE DEF p, q
      <4> QED BY <2>1
    <3> QED BY <3>1, <3>2, WholeEnds
  <2>5. ASSUME NEW x \in p + 1 .. q - 1, IsEnd(f[x]) PROVE FALSE
    <3>1. start <= p
      <4>1. i - 1 = 0 \/ (0 < i - 1 /\ 0 \in 0 .. m)
        <5> HIDE DEF i
        <5> QED BY <1>2, <2>1
      <4>2. CASE i - 1 = 0
        BY <1>0, <1>2, <4>2
      <4>3. CASE 0 < i - 1 /\ 0 \in 0 .. m
        <5>1. c[0] < p
          <6> HIDE DEF i
          <6> QED BY <1>2, <2>1, <4>3
        <5> HIDE DEF p
        <5> QED BY <1>0, <1>2, <2>1, <5>1
      <4> QED BY <4>1, <4>2, <4>3
    <3>2. x \in start + 1 .. Len(f) /\ p < x /\ x < q
      <4> HIDE DEF p, q
      <4> QED BY <1>0, <2>1, <3>1
    <3>3. PICK j \in 1 .. m : c[j] = x
      BY <1>2, <2>5, <3>2
    <3>4. j \in 0 .. m /\ (j = i - 1 \/ j < i - 1 \/ j = i \/ i < j)
      <4> HIDE DEF i
      <4> QED BY <1>2, <2>1
    <3>5. CASE j = i - 1
      <4> HIDE DEF q
      <4> QED BY <2>1, <3>2, <3>3, <3>5
    <3>6. CASE j < i - 1
      <4>1. x < p
        <5> HIDE DEF i
        <5> QED BY <1>2, <2>1, <3>3, <3>4, <3>6
      <4> HIDE DEF p, q
      <4> QED BY <2>1, <3>2, <4>1
    <3>7. CASE j = i
      <4> HIDE DEF p
      <4> QED BY <2>1, <3>2, <3>3, <3>7
    <3>8. CASE i < j
      <4>1. q < x
        <5>1. i \in 0 .. m
          <6> HIDE DEF i
          <6> QED BY <1>a, <2>1
        <5> HIDE DEF i
        <5> QED BY <1>2, <3>3, <3>4, <3>8, <5>1
      <4> HIDE DEF p, q
      <4> QED BY <2>1, <3>2, <4>1
    <3> QED BY <3>4, <3>5, <3>6, <3>7, <3>8
  <2>6. SubSeq(f, p + 1, q) = Line(f[p + 1][1])
    <3> HIDE DEF p, q
    <3> QED BY <2>1, <2>3, <2>4, <2>5, WholeBetween
  <2>7. SubSeq(f, p + 1, q)[1] = f[p + 1]
    <3> HIDE DEF p, q
    <3>1. p <= q /\ q \in 0 .. Len(f) /\ 1 \in 1 .. q - p
      BY <2>1
    <3> QED BY <2>1, <3>1, SubSeqOf
  <2> QED BY <2>2, <2>6, <2>7
<1>12. r <= MaxLines
  BY <1>5 DEF r
<1> HIDE DEF tail
<1>13. ShowsLines(tail, f, s)
  BY <1>8, <1>10, <1>11, <1>12 DEF ShowsLines
<1> QED BY <1>13 DEF tail

-----------------------------------------------------------------------------
(* The files stay so. *)

\* Unless a write was cut short, or went over others after a failed rename,
\* the files have whole lines only.
WholeInv == failed \cap {"rename", "write"} = {} => Whole(log) /\ Whole(old)

LEMMA WholeEmpty == Whole(<<>>)
BY DEF Whole

LEMMA WholeInit == LogInit => WholeInv
BY OldLogsAreWhole, WholeEmpty DEF LogInit, WholeInv

LEMMA WholeStep ==
  ASSUME LogInv, TailInv, WholeInv, [LogNext]_logVars
  PROVE  WholeInv'
<1> SUFFICES ASSUME failed' \cap {"rename", "write"} = {} PROVE Whole(log)' /\ Whole(old)'
  BY DEF WholeInv
<1>a. /\ log \in Seq(Bytes) /\ mode \in {"append", "offset", "nil"} /\ entry \in [Writers -> SUBSET Entries]
  BY DEF LogInv, LogTypeOK
<1>b. \A u, v \in Writers :
        wpc[u] \in {"rename", "open", "put"} /\ wpc[v] \in {"rename", "open", "put"} => u = v
  BY DEF LogInv, LogTypeOK
<1>1. ASSUME UNCHANGED <<log, old>>, failed \subseteq failed' PROVE Whole(log)' /\ Whole(old)'
  <2>1. Whole(log) /\ Whole(old)
    BY <1>1 DEF WholeInv
  <2> QED BY <1>1, <2>1 DEF Whole
<1>2. ASSUME NEW w \in Writers, NEW e \in Entries, Call(w, e) PROVE Whole(log)' /\ Whole(old)'
  BY <1>1, <1>2 DEF Call, logFile
<1>3. ASSUME NEW w \in Writers, Lock(w) PROVE Whole(log)' /\ Whole(old)'
  BY <1>1, <1>3 DEF Lock, logFile
<1>4. ASSUME NEW w \in Writers, Rename(w) PROVE Whole(log)' /\ Whole(old)'
  <2>1. CASE old' = log /\ log' = <<>> /\ UNCHANGED failed
    <3>1. Whole(log)
      BY <2>1 DEF WholeInv
    <3> QED BY <2>1, <3>1, WholeEmpty DEF Whole
  <2>2. CASE Fault("rename") /\ UNCHANGED <<log, old>>
    BY <1>1, <2>2 DEF Fault
  <2> QED BY <1>4, <2>1, <2>2 DEF Rename
<1>5. ASSUME NEW w \in Writers, Open(w) PROVE Whole(log)' /\ Whole(old)'
  BY <1>1, <1>5 DEF Open, Fault
<1>6. ASSUME NEW w \in Writers, Put(w) PROVE Whole(log)' /\ Whole(old)'
  <2>1. "write" \notin failed' /\ old' = old
    BY <1>6 DEF Put
  <2>2. CASE mode = "nil" /\ UNCHANGED <<log, failed>>
    BY <1>1, <2>1, <2>2
  <2>3. CASE mode # "nil" /\ UNCHANGED failed /\ \E e \in entry[w] : WriteString(Line(e))
    <3>1. PICK e \in entry[w] : WriteString(Line(e))
      BY <2>3
    <3>2. e \in Entries /\ Line(e) \in Seq(Bytes)
      BY <1>a, LineTyped
    <3>3. Whole(log) /\ Whole(old)
      BY <2>3 DEF WholeInv
    <3>4. ~Rotating
      BY <1>6, <1>b DEF Put, Rotating
    <3>5. mode = "append" \/ size = Len(log)
      BY <2>3, <3>4 DEF TailInv, SizeExact
    <3>6. log' = WriteAt(log, Len(log), Line(e))
      BY <3>1, <3>5 DEF WriteString
    <3>7. log' = log \o Line(e)
      BY <1>a, <3>2, <3>6, AppendAtEnd
    <3>8. Whole(log \o Line(e))
      BY <1>a, <3>2, <3>3, WholeAppend
    <3> QED BY <2>1, <3>3, <3>7, <3>8 DEF Whole
  <2> QED BY <1>6, <2>1, <2>2, <2>3 DEF Put, Fault
<1>7. CASE LogCrash
  BY <1>1, <1>7 DEF LogCrash, Fault
<1>8. CASE UNCHANGED logVars
  BY <1>1, <1>8 DEF logVars, logFile
<1> QED BY <1>2, <1>3, <1>4, <1>5, <1>6, <1>7, <1>8 DEF LogNext, LogStep, Silent

\* ViewerShowsLines: the viewer shows the last lines of the file, whole and in
\* order, for any log, limit and chunk and however the log grows meanwhile.
THEOREM ViewerIsRight == Spec => []ViewerShowsLines
<1>1. PipelineInv /\ WholeInv => ViewerShowsLines
  <2> SUFFICES ASSUME PipelineInv, WholeInv, failed \cap {"rename", "write"} = {},
                      NEW f \in {log, old}, NEW s \in 0 .. Len(f)
               PROVE  ShowsLines(TailLog(f, s), f, s)
    BY DEF ViewerShowsLines, ShowsLines
  <2>1. f \in Seq(Bytes) /\ Whole(f)
    BY DEF PipelineInv, LogInv, LogTypeOK, WholeInv
  <2>2. CASE s = 0
    <3>1. TailLog(f, 0) = <<>>
      BY DEF TailLog
    <3> QED BY <2>1, <2>2, <3>1, NothingShown
  <2>3. CASE s # 0
    <3>1. s \in 1 .. Len(f)
      BY <2>1, <2>3
    <3> QED BY <2>1, <3>1, TailShows
  <2> QED BY <2>2, <2>3
<1>2. Init => WholeInv /\ TailInv
  BY WholeInit, TailInit DEF Init
<1>3. PipelineInv /\ PipelineInv' /\ TailInv /\ [Next]_vars => TailInv'
  BY EntriesTyped, PipelineLogs, TailStep DEF PipelineInv
<1>4. PipelineInv /\ TailInv /\ WholeInv /\ [Next]_vars => WholeInv'
  BY EntriesTyped, PipelineLogs, WholeStep DEF PipelineInv
<1> QED BY <1>1, <1>2, <1>3, <1>4, PipelineInvariant, PTL DEF Spec

=============================================================================
