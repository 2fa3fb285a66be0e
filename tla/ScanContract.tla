---------------------------- MODULE ScanContract ----------------------------
(***************************************************************************)
(* What Scanner.ScanWithWhitelist promises its callers (the guard, the     *)
(* REST API, the test page), in one step from the call to the return.  The *)
(* module Scanner implements it.                                           *)
(***************************************************************************)
EXTENDS Findings

VARIABLES
  text,       \* the argument text
  reports,    \* what the detectors report on text, in detector order
  detectors,  \* the scanner's detector list
  whitelist,  \* the argument whitelist
  phase,      \* "called" or "returned"
  out,        \* the returned text
  found       \* the returned findings: report index -> placeholder

vars == <<text, reports, detectors, whitelist, phase, out, found>>

-----------------------------------------------------------------------------
Survivors == Live(text, reports, detectors, whitelist)

Disjoint(K) == \A i, j \in K : i # j => ~Overlap(reports[i], reports[j])

\* Every finding that is left out lost to one that overlaps it and is at
\* least as good.
Justified(K) ==
  \A i \in Survivors \ K :
    \E j \in Survivors \ {i} : /\ Overlap(reports[i], reports[j])
                               /\ ~Better(reports[i], reports[j])

\* Equal texts and only equal texts share a placeholder.
OneToOne(f) ==
  \A i, j \in DOMAIN f :
    f[i] = f[j] <=> TextOf(text, reports[i]) = TextOf(text, reports[j])

\* The text with the span of each finding of f replaced by its placeholder.
Splice(f) ==
  LET At(p) ==
        LET here == {i \in DOMAIN f : /\ reports[i].start < p
                                      /\ p <= reports[i].end}
        IN  IF here = {} THEN <<text[p]>>
            ELSE LET i == CHOOSE i \in here : TRUE
                 IN  IF p = reports[i].start + 1 THEN <<f[i]>> ELSE <<>>
  IN  FlattenSeq([p \in DOMAIN text |-> At(p)])

-----------------------------------------------------------------------------
Init ==
  /\ reports \in Seq(Finding(text))
  /\ phase = "called"
  /\ out = text
  /\ found = <<>>

Scan ==
  /\ phase = "called" /\ phase' = "returned"
  /\ DOMAIN found' \subseteq Survivors
  /\ Disjoint(DOMAIN found')
  /\ Justified(DOMAIN found')
  /\ OneToOne(found')
  /\ out' = Splice(found')
  /\ UNCHANGED <<text, reports, detectors, whitelist>>

Spec == Init /\ [][Scan]_vars

=============================================================================
