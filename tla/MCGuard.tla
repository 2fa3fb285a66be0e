------------------------------- MODULE MCGuard -------------------------------
(***************************************************************************)
(* Guard with two requests and two updates: a request can meet an update   *)
(* before, between and after its strings, a second update can undo the     *)
(* first, and both requests can hold the lock that a writer waits for.     *)
(***************************************************************************)
EXTENDS Guard

CONSTANTS r1, r2

MCRequests == {r1, r2}

MCTypes == {"EMAIL", "SECRET"}

\* A text is a sequence of words, 1-tuples; a placeholder is a 2-tuple.  Two
\* words are addresses and one is a key.
Word == [x |-> <<"x">>, y |-> <<"y">>, key |-> <<"key">>, the |-> <<"the">>]

TypeOf(w) == CASE w \in {Word.x, Word.y} -> "EMAIL"
               [] w = Word.key -> "SECRET"
               [] OTHER -> "none"

\* ScanWithWhitelist on words, each of them one finding or none: its n-th
\* distinct value of a type becomes <<type, n>>.
WordScan(detectors, text, whitelist) ==
  LET Hit(p) == /\ TypeOf(text[p]) \in MCTypes
                /\ detectors = {} \/ TypeOf(text[p]) \in detectors
                /\ text[p] \notin whitelist
      First(p) == Min({q \in DOMAIN text : text[q] = text[p]})
      Number(p) == Cardinality({text[q] : q \in {h \in 1 .. First(p) :
                                  Hit(h) /\ TypeOf(text[h]) = TypeOf(text[p])}})
      Placeholder(p) == <<TypeOf(text[p]), Number(p)>>
      hits == {p \in DOMAIN text : Hit(p)}
  IN  [text |-> [p \in DOMAIN text |-> IF p \in hits THEN Placeholder(p) ELSE text[p]],
       findings |-> [k \in 1 .. Cardinality(hits) |->
                       LET p == CHOOSE p \in hits : Cardinality({h \in hits : h <= p}) = k
                       IN  [type |-> TypeOf(text[p]), placeholder |-> Placeholder(p)]]]

\* The default, an edit of the detectors and the whitelist, and a dry run.
AllOn == [detectors |-> {}, whitelist |-> {}, dryRun |-> FALSE]
Edited == [detectors |-> {"EMAIL"}, whitelist |-> {Word.x}, dryRun |-> FALSE]
Dry == [detectors |-> {}, whitelist |-> {}, dryRun |-> TRUE]

MCGuardConfigs == {AllOn, Edited, Dry}

Field(role, block, at, path, text) ==
  [role |-> role, block |-> block, at |-> at, path |-> path, text |-> text]

\* A conversation with a system prompt and an answer of the assistant.
Chat ==
  [kind |-> "json", fields |->
     <<Field("none", "system", 0, <<>>, <<Word.key>>),
       Field("user", "string", 1, <<>>, <<Word.the, Word.x>>),
       Field("assistant", "text", 2, <<"list", "map">>, <<Word.y>>),
       Field("user", "text", 3, <<"list", "map">>, <<Word.y, Word.x, Word.y>>)>>]

\* The file a tool has read, and the input of a tool call: a string, one in
\* a nested map, one in a list, an empty one.
Tools ==
  [kind |-> "json", fields |->
     <<Field("user", "tool_result", 1, <<"list", "map">>, <<Word.x, Word.the>>),
       Field("user", "tool_use", 2, <<"map">>, <<Word.key, Word.x>>),
       Field("user", "tool_use", 2, <<"map", "map">>, <<Word.y>>),
       Field("user", "tool_use", 2, <<"map", "list">>, <<Word.x>>),
       Field("user", "text", 3, <<"list", "map">>, <<>>)>>]

Raw == [kind |-> "raw", fields |->
          <<Field("none", "raw", 1, <<>>, <<Word.x, Word.the, Word.y, Word.x>>)>>]

MCBodies == {EmptyBody, Chat, Tools, Raw}

\* The scans that can come up, as a table.
Scanned == {FlattenSeq(TextsOf(b)) : b \in MCBodies}
             \cup UNION {Range(TextsOf(b)) : b \in MCBodies}

ScanTable == [d \in {c.detectors : c \in MCGuardConfigs}, t \in Scanned,
              w \in {c.whitelist : c \in MCGuardConfigs} |-> WordScan(d, t, w)]

MCScan(detectors, text, whitelist) == ScanTable[detectors, text, whitelist]

=============================================================================
