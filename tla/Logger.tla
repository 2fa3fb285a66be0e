-------------------------------- MODULE Logger --------------------------------
(***************************************************************************)
(* internal/proxy/logger.go: one-line entries appended to a log file that   *)
(* is renamed to .log.old at a size limit, by any number of request        *)
(* goroutines; the start of the process on a file that is already there;   *)
(* and what the log viewer (tailLog in internal/api/ui.go) makes of it.     *)
(*                                                                         *)
(* A file is a sequence of bytes <<e, i>>, the i-th byte of the line of     *)
(* entry e.  A file that is missing is as good as an empty one: every open  *)
(* has O_CREATE.                                                           *)
(***************************************************************************)
EXTENDS Integers, Sequences, FiniteSets, SequencesExt

CONSTANTS
  Writers,     \* the goroutines that call Write
  Entries,     \* LogEntry values
  LineSize(_), \* the length of the line of an entry
  MaxLine,     \* bound on it
  MaxLogBytes, \* maxLogBytes
  OldLogs,     \* files an earlier process may have left
  MaxFaults,   \* bound on the kinds of faults in a behaviour
  Chunk,       \* chunk of tailLog
  MaxLines     \* maxLines of tailLog

ASSUME LogAssumption ==
  /\ MaxLogBytes \in Nat \ {0} /\ MaxLine \in Nat \ {0} /\ MaxFaults \in Nat
  /\ \A e \in Entries : LineSize(e) \in 1 .. MaxLine

Bytes == Entries \X (1 .. MaxLine)

ASSUME OldLogsAssumption ==
  \A f \in OldLogs : f \in Seq(Bytes) /\ Len(f) < MaxLogBytes + MaxLine

Line(e) == [i \in 1 .. LineSize(e) |-> <<e, i>>]

\* Every byte of f is in a whole line.
Whole(f) ==
  \A i \in DOMAIN f :
    LET e == f[i][1]
        start == i - f[i][2]
    IN  /\ f[i][2] <= LineSize(e) /\ start >= 0 /\ start + LineSize(e) <= Len(f)
        /\ SubSeq(f, start + 1, start + LineSize(e)) = Line(e)

\* No write of an earlier process was cut short.
ASSUME OldLogsAreWhole == \A f \in OldLogs : Whole(f)

ASSUME ViewerAssumption == Chunk \in Nat \ {0} /\ MaxLines \in Nat \ {0}

VARIABLES
  log, old, \* the files proxy_<port>.log and proxy_<port>.log.old
  mode,     \* l.file: "append" (opened by NewLogger), "offset" (by rotate), "nil"
  size,     \* l.size; the offset of a file opened by rotate
  holder,   \* the writer that has l.mu, in a set
  wpc,      \* where each writer is in Write
  entry,    \* its argument, in a set
  written,  \* history: the bytes that went into the log, in order
  failed    \* history: the kinds of faults so far

logFile == <<log, old, mode, size>>
logVars == <<logFile, holder, wpc, entry, written, failed>>

\* One more fault, of a kind that has not occurred yet.
Fault(tag) ==
  tag \notin failed /\ Cardinality(failed) < MaxFaults /\ failed' = failed \cup {tag}

-----------------------------------------------------------------------------
(* NewLogger, at the start of the process and after a crash. *)

LogInit ==
  /\ log \in OldLogs /\ old = <<>>
  /\ mode = "append" /\ size = Len(log)
  /\ holder = {} /\ wpc = [w \in Writers |-> "out"] /\ entry = [w \in Writers |-> {}]
  /\ written = log /\ failed = {}

\* Fault: the size of a file that is there already is not looked at.
SizeOfNew(f) == 0

SizeOf(f) == Len(f)

\* The process dies, between any two steps of its writers, and is started
\* again; the log file may then not open.
LogCrash ==
  /\ \/ Fault("crash") /\ mode' = "append" /\ size' = SizeOf(log)
     \/ Fault("crash and open") /\ mode' = "nil" /\ size' = 0
  /\ holder' = {} /\ wpc' = [w \in Writers |-> "out"] /\ entry' = [w \in Writers |-> {}]
  /\ UNCHANGED <<log, old, written>>

-----------------------------------------------------------------------------
(* Write *)

Move(w, there) == wpc' = [wpc EXCEPT ![w] = there]

\* The test of l.file, which is made without the lock.
Call(w, e) ==
  /\ wpc[w] = "out" /\ mode # "nil"
  /\ entry' = [entry EXCEPT ![w] = {e}]
  /\ Move(w, "lock")
  /\ UNCHANGED <<logFile, holder, written, failed>>

Silent(w) == wpc[w] = "out" /\ mode = "nil" /\ UNCHANGED logVars

\* Fault: the limit is read in another unit.
FullEarly(n) == n > 0

FullAt(n) == n >= MaxLogBytes

Lock(w) ==
  /\ wpc[w] = "lock" /\ holder = {} /\ holder' = {w}
  /\ Move(w, IF FullAt(size) THEN "rename" ELSE "put")
  /\ UNCHANGED <<logFile, entry, written, failed>>

\* rotate: Close and Rename, whose error is dropped,
Rename(w) ==
  /\ wpc[w] = "rename" /\ Move(w, "open")
  /\ \/ old' = log /\ log' = <<>> /\ UNCHANGED failed
     \/ Fault("rename") /\ UNCHANGED <<log, old>>
  /\ UNCHANGED <<mode, size, holder, entry, written>>

\* then OpenFile without O_APPEND and O_TRUNC, whose error is dropped too.
Open(w) ==
  /\ wpc[w] = "open" /\ Move(w, "put")
  /\ \/ mode' = "offset" /\ UNCHANGED failed
     \/ Fault("open") /\ mode' = "nil"
  /\ size' = 0
  /\ UNCHANGED <<log, old, holder, entry, written>>

\* The file f after bytes b were written at offset n.
WriteAt(f, n, b) ==
  [i \in 1 .. (IF n + Len(b) > Len(f) THEN n + Len(b) ELSE Len(f)) |->
     IF i \in n + 1 .. n + Len(b) THEN b[i - n] ELSE f[i]]

WriteString(b) ==
  /\ log' = WriteAt(log, IF mode = "append" THEN Len(log) ELSE size, b)
  /\ size' = size + Len(b)
  /\ written' = written \o b

\* Fault: the lock is not given back.
KeepMutex == UNCHANGED holder

Unlock == holder' = {}

\* WriteString, which may write less than it should, and Unlock.
Put(w) ==
  /\ wpc[w] = "put"
  /\ \/ mode = "nil" /\ UNCHANGED <<log, size, written, failed>>
     \/ /\ mode # "nil" /\ UNCHANGED failed
        /\ \E e \in entry[w] : WriteString(Line(e))
     \/ /\ mode # "nil" /\ Fault("write")
        /\ \E e \in entry[w] : \E n \in 0 .. LineSize(e) - 1 :
             WriteString(SubSeq(Line(e), 1, n))
  /\ Unlock
  /\ entry' = [entry EXCEPT ![w] = {}]
  /\ Move(w, "out")
  /\ UNCHANGED <<old, mode>>

LogStep(w) == Lock(w) \/ Rename(w) \/ Open(w) \/ Put(w)

LogNext ==
  \/ \E w \in Writers : (\E e \in Entries : Call(w, e)) \/ Silent(w) \/ LogStep(w)
  \/ LogCrash

LogSpec == LogInit /\ [][LogNext]_logVars

-----------------------------------------------------------------------------
(* tailLog, on a file f that had s bytes when Stat was called. *)

IsEnd(byte) == byte[2] = LineSize(byte[1])

InOrder(S) ==
  CHOOSE e \in [1 .. Cardinality(S) -> S] : \A j, k \in DOMAIN e : j < k => e[j] < e[k]

\* strings.Split at the ends of lines.
Lines(data) ==
  LET ends == InOrder({i \in DOMAIN data : IsEnd(data[i])} \cup {Len(data)})
  IN  [k \in DOMAIN ends |-> SubSeq(data, IF k = 1 THEN 1 ELSE ends[k - 1] + 1, ends[k])]

\* Fault: the first line is shown although its start is missing.
ShowAll(start, lines) == lines

DropCut(start, lines) ==
  IF start > 0 /\ Len(lines) > 1 THEN Tail(lines) ELSE lines

TailLog(f, s) ==
  LET start == IF s > Chunk THEN s - Chunk ELSE 0
      data == SubSeq(f, start + 1, Len(f))
      lines == DropCut(start, Lines(data))
  IN  IF s = 0 \/ data = <<>> THEN <<>>
      ELSE SubSeq(lines, IF Len(lines) > MaxLines THEN Len(lines) - MaxLines + 1 ELSE 1,
                  Len(lines))

-----------------------------------------------------------------------------
(***************************************************************************)
(* Properties                                                              *)
(***************************************************************************)

\* The types of the variables; the lock has one holder at most, and it is
\* held from Lock to Put.
LogTypeOK ==
  /\ log \in Seq(Bytes) /\ old \in Seq(Bytes) /\ written \in Seq(Bytes)
  /\ mode \in {"append", "offset", "nil"} /\ size \in Nat
  /\ wpc \in [Writers -> {"out", "lock", "rename", "open", "put"}]
  /\ entry \in [Writers -> SUBSET Entries]
  /\ \A w \in Writers : entry[w] = {} <=> wpc[w] = "out"
  /\ holder = {w \in Writers : wpc[w] \in {"rename", "open", "put"}}
  /\ \A v, w \in holder : v = w
  /\ failed \subseteq {"crash", "crash and open", "rename", "open", "write"}

\* No file ever exceeds the limit by a line or more: not with writers that
\* all saw room before one of them rotated, not after a rotation that
\* failed, nor after a restart on a file that was nearly full.
LogBounded == Len(log) < MaxLogBytes + MaxLine /\ Len(old) < MaxLogBytes + MaxLine

\* As long as no rename fails, the two files together are the end of what
\* was ever written, with nothing missing, doubled or out of order, and
\* that end is as long as the limit unless all of it is there.
TailKept ==
  "rename" \notin failed =>
    LET kept == old \o log
    IN  /\ IsSuffix(kept, written)
        /\ Len(kept) >= MaxLogBytes \/ kept = written

\* The log viewer shows whole lines, those at the end of the file and in
\* their order, however the log grows between its Stat and its ReadAll; only
\* a line longer than the chunk it reads can be shown without its start.
ViewerShowsLines ==
  failed \cap {"rename", "write"} = {} =>
    \A f \in {log, old} : \A s \in 0 .. Len(f) :
      LET shown == TailLog(f, s)
      IN  /\ IsSuffix(FlattenSeq(shown), f)
          /\ Len(shown) > 1 =>
               \A k \in DOMAIN shown : shown[k] = Line(shown[k][1][1])
          /\ Len(shown) <= MaxLines
          /\ s > 0 => shown # <<>>

=============================================================================
