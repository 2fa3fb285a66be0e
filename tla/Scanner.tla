------------------------------- MODULE Scanner ------------------------------
(***************************************************************************)
(* One call of Scanner.ScanWithWhitelist (internal/detector/scanner.go),   *)
(* loop iteration by loop iteration: run the enabled detectors, drop the   *)
(* whitelisted findings, resolve overlaps in one pass from left to right,  *)
(* number the placeholders, and edit the text in place from right to left. *)
(*                                                                         *)
(* Findings are named by their index in reports, the sequence that all the *)
(* detectors together would report, in the order the code runs them.       *)
(***************************************************************************)
EXTENDS Findings

CONSTANTS
  Texts,         \* the texts a caller may pass
  DetectorLists, \* the detector lists a scanner may be built from
  Whitelists,    \* the whitelists a caller may pass
  Reports(_)     \* Reports(text): what the detectors may report on a text

ASSUME ReportsAssumption == \A t \in Texts : Reports(t) \subseteq Seq(Finding(t))
ASSUME TextsAssumption == Texts \subseteq Seq(Symbols)

VARIABLES
  text, detectors, whitelist, reports,
  pc,        \* the loop the call is in
  cand,      \* the findings still in play (the slice `all`)
  todo,      \* those resolveOverlaps has not visited yet
  kept,      \* resolved: the sequence of the findings kept so far
  lastEnd,   \* lastEnd of resolveOverlaps
  counters,  \* counters: type -> placeholders handed out
  seenText,  \* seenText: text -> placeholder
  ph,        \* Placeholder of kept[1], kept[2], ... as far as assigned
  left,      \* positions of kept whose replacement has not been applied
  out        \* result: the text under edit

inputs == <<text, detectors, whitelist, reports>>
resolving == <<todo, kept, lastEnd>>
numbering == <<counters, seenText, ph>>
editing == <<left, out>>
vars == <<inputs, pc, cand, resolving, numbering, editing>>

Init ==
  /\ text \in Texts
  /\ detectors \in DetectorLists
  /\ whitelist \in Whitelists
  /\ reports \in Reports(text)
  /\ pc = "detect"
  /\ cand = {} /\ todo = {} /\ kept = <<>> /\ lastEnd = -1
  /\ counters = [t \in Types |-> 0]
  /\ seenText = <<>>
  /\ ph = <<>>
  /\ left = {}
  /\ out = text

-----------------------------------------------------------------------------
Detect ==
  /\ pc = "detect"
  /\ cand' = {i \in DOMAIN reports : Enabled(detectors, reports[i].type)}
  /\ pc' = IF cand' = {} THEN "done" ELSE "filter"
  /\ UNCHANGED <<inputs, resolving, numbering, editing>>

\* Fault: a whitelisted finding takes those after it along.
FilterKeepsSkipping ==
  /\ pc = "filter"
  /\ cand' = {i \in cand : \A j \in cand : j <= i => ~Whitelisted(text, reports[j], whitelist)}
  /\ todo' = cand'
  /\ pc' = IF cand' = {} THEN "done" ELSE "resolve"
  /\ UNCHANGED <<inputs, kept, lastEnd, numbering, editing>>

Filter ==
  /\ pc = "filter"
  /\ cand' = {i \in cand : ~Whitelisted(text, reports[i], whitelist)}
  /\ todo' = cand'
  /\ pc' = IF cand' = {} THEN "done" ELSE "resolve"
  /\ UNCHANGED <<inputs, kept, lastEnd, numbering, editing>>

-----------------------------------------------------------------------------
(* resolveOverlaps.  Sorting first and then ranging over the slice is      *)
(* taking, each time, the first finding not yet visited.                   *)

NextInOrder(i) ==
  /\ pc = "resolve" /\ i \in todo
  /\ \A j \in todo \ {i} : Before(reports, i, j)
  /\ todo' = todo \ {i}
  /\ UNCHANGED <<inputs, pc, cand, numbering, editing>>

Keep(i) ==
  /\ NextInOrder(i)
  /\ reports[i].start >= lastEnd
  /\ kept' = Append(kept, i)
  /\ lastEnd' = reports[i].end

\* Fault: lastEnd stays that of the finding replaced.
ReplaceButNotEnd(i) ==
  /\ NextInOrder(i)
  /\ reports[i].start < lastEnd /\ kept # <<>>
  /\ Better(reports[i], reports[Last(kept)])
  /\ kept' = [kept EXCEPT ![Len(kept)] = i]
  /\ UNCHANGED lastEnd

ReplacePrevious(i) ==
  /\ NextInOrder(i)
  /\ reports[i].start < lastEnd /\ kept # <<>>
  /\ Better(reports[i], reports[Last(kept)])
  /\ kept' = [kept EXCEPT ![Len(kept)] = i]
  /\ lastEnd' = reports[i].end

Drop(i) ==
  /\ NextInOrder(i)
  /\ reports[i].start < lastEnd
  /\ kept # <<>> => ~Better(reports[i], reports[Last(kept)])
  /\ UNCHANGED <<kept, lastEnd>>

Resolved ==
  /\ pc = "resolve" /\ todo = {}
  /\ pc' = "assign"
  /\ UNCHANGED <<inputs, cand, resolving, numbering, editing>>

-----------------------------------------------------------------------------
(* Placeholders, in the order of kept. *)

KeptText(n) == TextOf(text, reports[kept[n]])

\* Next finding of the loop, with its text.
Assigning(n, s) ==
  /\ pc = "assign"
  /\ n = Len(ph) + 1 /\ n <= Len(kept)
  /\ s = KeptText(n)
  /\ UNCHANGED <<inputs, pc, cand, resolving, editing>>

ReusePlaceholder ==
  LET n == Len(ph) + 1
      s == KeptText(n)
  IN  /\ Assigning(n, s)
      /\ s \in DOMAIN seenText
      /\ ph' = Append(ph, seenText[s])
      /\ UNCHANGED <<counters, seenText>>

\* Fault: numbers start at 0.
NumberFromZero(t) == counters[t]

NextNumber(t) == counters[t] + 1

\* Fault: the text is not recorded.
Forget(s, p) == seenText

Remember(s, p) ==
  [x \in DOMAIN seenText \cup {s} |-> IF x = s THEN p ELSE seenText[x]]

NewPlaceholder ==
  LET n == Len(ph) + 1
      s == KeptText(n)
      t == reports[kept[n]].type
      p == <<t, NextNumber(t)>>
  IN  /\ Assigning(n, s)
      /\ s \notin DOMAIN seenText
      /\ counters' = [counters EXCEPT ![t] = @ + 1]
      /\ seenText' = Remember(s, p)
      /\ ph' = Append(ph, p)

Assigned ==
  /\ pc = "assign" /\ Len(ph) = Len(kept)
  /\ pc' = "replace"
  /\ left' = DOMAIN kept
  /\ UNCHANGED <<inputs, cand, resolving, numbering, out>>

-----------------------------------------------------------------------------
(* The edit, from the largest start offset to the smallest. *)

\* Fault: the last symbol of the finding stays.
TailOneEarly(f) == SubSeq(out, f.end, Len(out))

TailAfter(f) == SubSeq(out, f.end + 1, Len(out))

Replace(n) ==
  LET f == reports[kept[n]]
  IN  /\ pc = "replace" /\ n \in left
      /\ \A m \in left : reports[kept[m]].start <= f.start
      /\ out' = SubSeq(out, 1, f.start) \o <<ph[n]>> \o TailAfter(f)
      /\ left' = left \ {n}
      /\ UNCHANGED <<inputs, pc, cand, resolving, numbering>>

Return ==
  /\ pc = "replace" /\ left = {}
  /\ pc' = "done"
  /\ UNCHANGED <<inputs, cand, resolving, numbering, editing>>

Returned == pc = "done" /\ UNCHANGED vars

-----------------------------------------------------------------------------
Next ==
  \/ Detect \/ Filter
  \/ \E i \in todo : Keep(i) \/ ReplacePrevious(i) \/ Drop(i)
  \/ Resolved
  \/ ReusePlaceholder \/ NewPlaceholder \/ Assigned
  \/ \E n \in left : Replace(n)
  \/ Return
  \/ Returned

Spec == Init /\ [][Next]_vars

-----------------------------------------------------------------------------
(***************************************************************************)
(* Properties                                                              *)
(***************************************************************************)

Placeholder == Types \X (Nat \ {0})

\* The types of the variables, loop by loop.
TypeOK ==
  /\ text \in Texts /\ detectors \in DetectorLists /\ whitelist \in Whitelists
  /\ reports \in Seq(Finding(text))
  /\ pc \in {"detect", "filter", "resolve", "assign", "replace", "done"}
  /\ cand \subseteq DOMAIN reports
  /\ todo \subseteq cand
  /\ kept \in Seq(cand)
  /\ lastEnd \in Int
  /\ counters \in [Types -> Nat]
  /\ seenText \in [DOMAIN seenText -> Placeholder]
  /\ ph \in Seq(Placeholder) /\ Len(ph) <= Len(kept)
  /\ left \subseteq DOMAIN kept

\* At every moment of the pass of resolveOverlaps the findings kept are in
\* text order and no two of them overlap, although a replacement may move
\* the end of the last one back or forth.  This is what makes the right to
\* left edit safe: an offset is never one that an earlier edit has moved.
KeptDisjoint ==
  \A m, n \in DOMAIN kept :
    m < n => reports[kept[m]].end <= reports[kept[n]].start

\* A finding that beats every finding it overlaps is masked, whatever else
\* is in the text: no whitelisted finding, no finding of a disabled
\* detector and no chain of replacements can hide it.
TopFindingKept ==
  pc \in {"assign", "replace", "done"} =>
    \A i \in Live(text, reports, detectors, whitelist) :
      \/ i \in Range(kept)
      \/ \E j \in Live(text, reports, detectors, whitelist) \ {i} :
           /\ Overlap(reports[i], reports[j])
           /\ ~Better(reports[i], reports[j])

\* Two masked values have the same placeholder exactly when their texts are
\* equal, also when detectors of different types found them.
PlaceholdersOneToOne ==
  \A m, n \in DOMAIN ph : ph[m] = ph[n] <=> KeptText(m) = KeptText(n)

\* The mapping handleScan returns with the findings restores the text: in a
\* text without placeholders of its own, replacing each placeholder by the
\* text it stands for undoes the scan.
Mapping == [p \in Range(ph) |-> KeptText(CHOOSE n \in DOMAIN ph : ph[n] = p)]

Restored ==
  FlattenSeq([p \in DOMAIN out |->
                IF out[p] \in Range(ph) THEN Mapping[out[p]] ELSE <<out[p]>>])

RoundTrip == pc = "done" => Restored = text

\* The comment on resolveOverlaps: "keeps the highest-priority
\* non-overlapping finding at each position".  So a finding that overlaps
\* none of those kept is kept itself.
NoGapLeft ==
  pc \in {"assign", "replace", "done"} =>
    \A i \in Live(text, reports, detectors, whitelist) :
      \/ i \in Range(kept)
      \/ \E n \in DOMAIN kept : Overlap(reports[i], reports[kept[n]])

-----------------------------------------------------------------------------
(* Refinement: the call returns all at once. *)

Contract ==
  INSTANCE ScanContract WITH
    phase <- IF pc = "done" THEN "returned" ELSE "called",
    out   <- IF pc = "done" THEN out ELSE text,
    found <- IF pc = "done"
             THEN [i \in Range(kept) |-> ph[CHOOSE n \in DOMAIN kept : kept[n] = i]]
             ELSE <<>>

ImplementsContract == Contract!Spec

=============================================================================
