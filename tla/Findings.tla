------------------------------ MODULE Findings ------------------------------
(***************************************************************************)
(* The vocabulary of internal/detector/scanner.go: what a finding is, when *)
(* two findings overlap, which of two findings wins, and what the          *)
(* whitelist suppresses.  The regular expressions of the detectors are not *)
(* modelled here: a detector is any function that reports non-empty spans  *)
(* of the text.                                                            *)
(*                                                                         *)
(* A text is a sequence of symbols.  A symbol is a 1-tuple <<letter>>, a   *)
(* placeholder the 2-tuple <<type, number>>, so "[EMAIL_1]" is             *)
(* <<"EMAIL", 1>> and never equals a letter.                               *)
(***************************************************************************)
EXTENDS Integers, Sequences, SequencesExt

CONSTANTS
  Types,     \* the PiiType values that have a detector
  Priority,  \* piiPriority, a function from Types
  Symbols,   \* what texts are made of
  Blank,     \* the symbols strings.TrimSpace removes at both ends
  Lower      \* strings.ToLower on one symbol, a function

ASSUME LowerAssumption == Lower \in [Symbols -> Symbols]
ASSUME PriorityAssumption == Priority \in [Types -> Nat]

\* A letter is no placeholder.
ASSUME SymbolsAssumption == Symbols \cap (Types \X Nat) = {}

-----------------------------------------------------------------------------
(* Findings.  Offsets are those of the code: start is the offset of the    *)
(* first symbol, counted from 0, and end that of the first symbol after.   *)

Finding(text) ==
  {f \in [type : Types, start : 0 .. Len(text), end : 0 .. Len(text)] :
     f.start < f.end}

TextOf(text, f) == SubSeq(text, f.start + 1, f.end)

Size(f) == f.end - f.start

Overlap(f, g) == f.start < g.end /\ g.start < f.end

\* f has the higher priority, or the same one and more text.
Better(f, g) ==
  \/ Priority[f.type] > Priority[g.type]
  \/ Priority[f.type] = Priority[g.type] /\ Size(f) > Size(g)

\* The order in which resolveOverlaps visits the findings i and j of the
\* sequence fs; sort.SliceStable leaves equals in the order of fs.
Before(fs, i, j) ==
  \/ fs[i].start < fs[j].start
  \/ /\ fs[i].start = fs[j].start
     /\ \/ Better(fs[i], fs[j])
        \/ ~Better(fs[j], fs[i]) /\ i < j

-----------------------------------------------------------------------------
(* NewScanner: an empty list enables every detector, and a name that is no *)
(* detector's enables none.                                                *)

Enabled(detectors, type) == detectors = {} \/ type \in detectors

-----------------------------------------------------------------------------
(* filterWhitelisted *)

FoldCase(s) == [i \in DOMAIN s |-> Lower[s[i]]]

Trim(s) ==
  LET ink == {i \in DOMAIN s : s[i] \notin Blank}
  IN  IF ink = {} THEN <<>> ELSE SubSeq(s, Min(ink), Max(ink))

\* strings.Contains; every string contains the empty one.
HasSubstring(s, t) ==
  \E i \in 0 .. (Len(s) - Len(t)) : SubSeq(s, i + 1, i + Len(t)) = t

Tokens(whitelist) == {Trim(FoldCase(w)) : w \in whitelist} \ {<<>>}

Whitelisted(text, f, whitelist) ==
  \E t \in Tokens(whitelist) : HasSubstring(FoldCase(TextOf(text, f)), t)

\* The reports (by index) that survive the detector selection and the
\* whitelist, and so compete for their place in the text.
Live(text, reports, detectors, whitelist) ==
  {i \in DOMAIN reports : /\ Enabled(detectors, reports[i].type)
                          /\ ~Whitelisted(text, reports[i], whitelist)}

=============================================================================
