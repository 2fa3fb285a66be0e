------------------------------ MODULE MCPipeline ------------------------------
(***************************************************************************)
(* Two requests, with findings or without, on a log of three bytes that has *)
(* a line of two from an earlier process: they reach the limit, pass it     *)
(* together, and meet a restart or a failed call at every step.             *)
(***************************************************************************)
EXTENDS Pipeline

CONSTANTS r1, r2, earlier

MCRequests == {r1, r2}

MCTypes == {"EMAIL", "IBAN"}

\* Two EMAILs and an IBAN, in a body that is no JSON object.
MCFound == [t \in MCTypes |-> IF t = "EMAIL" THEN 2 ELSE 1]

\* Re-encoding alone can make a body shorter; a placeholder can be longer
\* than what it replaces.
MCSummaries == {[count |-> 0, bytes |-> 1, types |-> NoTypes],
                [count |-> 3, bytes |-> 0, types |-> MCFound]}

MCEntries ==
  [request : MCRequests \cup {earlier}, status : Statuses, size : 0 .. MaxBody,
   count : {0, 3}, types : {NoTypes, MCFound}]

MCAnswers == {[status |-> 200, size |-> 1]}

\* The list of types makes a line longer.
MCLineSize(e) == IF e.types = NoTypes THEN 1 ELSE 2

OldLine(types) ==
  Line([request |-> earlier, status |-> 200, size |-> 0, count |-> 0, types |-> types])

MCOldLogs == {OldLine(MCFound)}

=============================================================================
