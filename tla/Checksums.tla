------------------------------- MODULE Checksums -------------------------------
(***************************************************************************)
(* The check digits of internal/detector: luhnValid, mod97, taxIDCheckDigit *)
(* and kvnrChecksumValid.  A detector drops a number that fails, or reports *)
(* it with less confidence, so the checks are worth what they catch: each   *)
(* loop runs here over a number and, in step with it, over the same number  *)
(* with one symbol mistyped or two neighbours swapped.  Neither number is   *)
(* kept: all numbers of the real lengths are checked by what is left of     *)
(* them in the variables of the loop.                                      *)
(***************************************************************************)
EXTENDS Integers

CONSTANTS
  CardLengths, \* the lengths of ccRE
  IbanLengths, \* the lengths in ibanLengths
  Letters      \* the values of letters in an IBAN

ASSUME LengthsAssumption == CardLengths \subseteq Nat /\ IbanLengths \subseteq Nat

ASSUME LettersAssumption == Letters \subseteq 10 .. 35

Checks == {"luhn", "mod97", "taxid", "kvnr"}

Digits == 0 .. 9

VARIABLES
  check, \* the function
  pos,   \* the symbols read so far
  own,   \* total, rem or product, for the number as it was issued,
  typo,  \* and for the number as it was typed
  err,   \* history: the difference of the two numbers so far
  passed \* their verdicts, in the end

vars == <<check, pos, own, typo, err, passed>>

-----------------------------------------------------------------------------
(* One turn of each loop, for the symbol c at place i, counted from 0. *)

\* Fault: the sum of the digits of a doubled digit is not taken.
WholeDouble(n) == 2 * n

\* The digit sum of 2 * n, as luhnValid has it.
Doubled(n) == IF 2 * n > 9 THEN 2 * n - 9 ELSE 2 * n

\* Fault: every other digit is skipped, not doubled.
NeverDoubles(i) == FALSE

Doubles(i) == i % 2 = 1

Luhn(i, c, total) == total + (IF Doubles(i) THEN Doubled(c) ELSE c)

Mod97(c, rem) == IF c \in Digits THEN (rem * 10 + c) % 97 ELSE (rem * 100 + c) % 97

\* Fault: 0 is not replaced.
Remainder(n) == n % 10

TenForZero(n) == IF n % 10 = 0 THEN 10 ELSE n % 10

TaxID(c, product) == (TenForZero(product + c) * 2) % 11

\* The two digits of p, for any p that occurs.
DigitSum(p) == (p \div 10) + (p % 10)

Kvnr(i, c, total) == total + DigitSum(IF i % 2 = 1 THEN 2 * c ELSE c)

Turn(i, c, acc) ==
  CASE check = "luhn" -> Luhn(i, c, acc)
    [] check = "mod97" -> Mod97(c, acc)
    [] check = "taxid" -> TaxID(c, acc)
    [] check = "kvnr" -> Kvnr(i, c, acc)

\* What may stand at place i: ibanRE has letters, taxIDRE no 0 in front.
Symbols(i) ==
  CASE check = "mod97" -> Digits \cup Letters
    [] check = "taxid" /\ i = 0 -> Digits \ {0}
    [] OTHER -> Digits

-----------------------------------------------------------------------------
\* luhnValid goes from right to left.  mod97 gets the IBAN with its first
\* four characters behind the rest.  The letter of a KVNR, the v-th of the
\* alphabet, is read as two digits before the others.
Init ==
  /\ check \in Checks
  /\ \/ /\ check # "kvnr" /\ pos = 0
        /\ own = IF check = "taxid" THEN 10 ELSE 0
     \/ /\ check = "kvnr" /\ pos = 2
        /\ \E v \in 1 .. 26 : own = Kvnr(1, v % 10, Kvnr(0, v \div 10, 0))
  /\ typo = own /\ err = "none" /\ passed = {}

\* There are n more symbols; before the check digit, for taxid and kvnr.
Reading(n) ==
  /\ passed = {}
  /\ \E l \in CASE check = "luhn" -> CardLengths
                [] check = "mod97" -> IbanLengths
                [] check \in {"taxid", "kvnr"} -> {10} : pos + n <= l

Take(c, d, n) ==
  /\ own' = c /\ typo' = d /\ pos' = pos + n
  /\ UNCHANGED <<check, passed>>

Read(c) ==
  /\ Reading(1) /\ c \in Symbols(pos)
  /\ Take(Turn(pos, c, own), Turn(pos, c, typo), 1)
  /\ UNCHANGED err

\* A digit is typed for a digit, or a letter for a letter.
Mistype(c, d) ==
  /\ err = "none" /\ err' = "symbol" /\ Reading(1)
  /\ {c, d} \subseteq Symbols(pos) /\ c # d /\ (c \in Digits <=> d \in Digits)
  /\ Take(Turn(pos, c, own), Turn(pos, d, typo), 1)

\* Neighbours whose order the check cannot tell: 0 and 9 where one of them is
\* doubled, a letter of eleven times the value of the digit, and for each
\* product of taxIDCheckDigit one pair of digits that follow each other.
Alike(c, d) ==
  CASE check \in {"luhn", "kvnr"} -> {c, d} = {0, 9}
    [] check = "mod97" -> (c = 11 * d \/ d = 11 * c) /\ Letters \cap {c, d} # {}
    [] check = "taxid" -> {c, d} = {(15 - own) % 10, (16 - own) % 10}

Swap(c, d) ==
  /\ err = "none" /\ Reading(2)
  /\ {c, d} \subseteq Symbols(pos) \cap Symbols(pos + 1) /\ c # d
  /\ err' = IF Alike(c, d) THEN "alike" ELSE "swap"
  /\ Take(Turn(pos + 1, d, Turn(pos, c, own)), Turn(pos + 1, c, Turn(pos, d, typo)), 2)

-----------------------------------------------------------------------------
(* The verdict. *)

\* The check digit that taxIDCheckDigit returns, if any.
TaxIDCheckDigit(product) ==
  IF 11 - product = 10 THEN {} ELSE {IF 11 - product = 11 THEN 0 ELSE 11 - product}

CheckDigit(acc) == IF check = "taxid" THEN TaxIDCheckDigit(acc) ELSE {acc % 10}

End(a, b) == passed' = {<<a, b>>} /\ UNCHANGED <<check, pos, own, typo>>

\* luhnValid and mod97, which have the check digits among the symbols.
Finish ==
  /\ passed = {}
  /\ \/ check = "luhn" /\ pos \in CardLengths /\ End(own % 10 = 0, typo % 10 = 0)
     \/ check = "mod97" /\ pos \in IbanLengths /\ End(own = 1, typo = 1)
  /\ UNCHANGED err

\* The others compare with the last digit, which may be the one mistyped.
Compare(c, d) ==
  /\ passed = {} /\ check \in {"taxid", "kvnr"} /\ pos = 10
  /\ {c, d} \subseteq Digits
  /\ \/ c = d /\ UNCHANGED err
     \/ c # d /\ err = "none" /\ err' = "symbol"
  /\ End(c \in CheckDigit(own), d \in CheckDigit(typo))

Next ==
  \/ \E c \in Digits \cup Letters : Read(c)
  \/ \E c, d \in Digits \cup Letters : Mistype(c, d) \/ Swap(c, d) \/ Compare(c, d)
  \/ Finish

Spec == Init /\ [][Next]_vars

-----------------------------------------------------------------------------
(***************************************************************************)
(* Properties                                                              *)
(***************************************************************************)

\* The types of the variables; product is never 0, so that taxIDCheckDigit
\* never takes its branch for a check of 11.
TypeOK ==
  /\ check \in Checks /\ pos \in Nat
  /\ {own, typo} \subseteq CASE check = "mod97" -> 0 .. 96
                             [] check = "taxid" -> 1 .. 10
                             [] check \in {"luhn", "kvnr"} -> 0 .. 9 * pos
  /\ err \in {"none", "symbol", "swap", "alike"}
  /\ passed \subseteq BOOLEAN \X BOOLEAN

\* No check passes two numbers that differ in one symbol, be it the first,
\* one that is doubled, or the check digit.
SymbolCaught == err = "symbol" => <<TRUE, TRUE>> \notin passed

\* A check catches two swapped neighbours before the check digit unless it
\* cannot tell their order, and then it has one verdict for both numbers.
SwapCaught ==
  /\ err = "swap" => <<TRUE, TRUE>> \notin passed
  /\ err = "alike" => \A v \in passed : v[1] = v[2]

-----------------------------------------------------------------------------
(* What the comment says, and the code does not do. *)

\* "computes the expected 11th digit": there is one for every ten digits that
\* do not begin with 0.
TaxIDHasCheckDigit == check = "taxid" /\ pos = 10 => TaxIDCheckDigit(own) # {}

=============================================================================
