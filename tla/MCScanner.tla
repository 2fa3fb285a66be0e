------------------------------ MODULE MCScanner ------------------------------
(***************************************************************************)
(* Scanner on texts of four symbols.  Three findings are the fewest with   *)
(* which one finding can be dropped in favour of a second that a third     *)
(* then replaces; four symbols are the fewest with which the third need    *)
(* not overlap the first.                                                  *)
(***************************************************************************)
EXTENDS Scanner

\* Four of the fourteen types: three priorities, and two types of the same
\* one, so that every comparison of resolveOverlaps can go either way.
MCTypes == {"SECRET", "IBAN", "CREDIT_CARD", "PHONE"}

MCPriority == [SECRET |-> 6, IBAN |-> 5, CREDIT_CARD |-> 5, PHONE |-> 3]

MCSymbols == {<<"a">>, <<"A">>, <<"b">>, <<" ">>}

MCBlank == {<<" ">>}

MCLower == [s \in MCSymbols |-> IF s = <<"A">> THEN <<"a">> ELSE s]

MCTexts ==
  {<< <<"a">>, <<"b">>, <<"a">>, <<"b">> >>,
   << <<"a">>, <<" ">>, <<"A">>, <<"b">> >>}

MCDetectorLists == {{}, {"IBAN", "PHONE"}}

\* No entry; a term, an entry in other letter case with blanks around it;
\* and an entry that is blank altogether.
MCWhitelists ==
  {{},
   {<< <<" ">>, <<"A">>, <<"b">> >>, << <<" ">> >>}}

\* The order of the table in ScanWithWhitelist.
DetectorOrder == [SECRET |-> 1, PHONE |-> 2, CREDIT_CARD |-> 3, IBAN |-> 4]

\* The findings of one detector are disjoint, because it is one regular
\* expression; only SECRET has several rules, tried one after the other.
OneExpression(F) ==
  \A f, g \in F : f.type = g.type /\ f # g /\ f.type # "SECRET" => ~Overlap(f, g)

\* At most three findings on a text of four symbols, in the order in which
\* the code appends them.
FindingSets ==
  LET F == Finding(CHOOSE t \in MCTexts : TRUE)
  IN  {G \in {{f, g, h} : f, g, h \in F} \cup {{}} : OneExpression(G)}

AllReports ==
  {SetToSortSeq(F, LAMBDA f, g :
     \/ DetectorOrder[f.type] < DetectorOrder[g.type]
     \/ f.type = g.type /\ f.start < g.start
     \/ f.type = g.type /\ f.start = g.start /\ f.end < g.end) : F \in FindingSets}

MCReports(t) == AllReports

=============================================================================
