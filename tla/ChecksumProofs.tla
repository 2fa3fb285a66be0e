---------------------------- MODULE ChecksumProofs ----------------------------
(***************************************************************************)
(* The check digits of Checksums catch what the properties say for numbers *)
(* of every length and for all letters.  The argument: while the loop runs, *)
(* the two numbers have accumulators with the same verdict as long as they  *)
(* are the same or differ by a swap the check cannot tell, and accumulators *)
(* with different verdicts from the mistake on.  That needs two facts of    *)
(* each turn: it keeps apart accumulators that are apart (TurnKeeps), and   *)
(* it takes apart two symbols (TurnTells).                                  *)
(***************************************************************************)
EXTENDS Checksums, TLAPS

\* The accumulators after n symbols.
Totals(n) ==
  CASE check = "mod97" -> 0 .. 96
    [] check = "taxid" -> 1 .. 10
    [] check \in {"luhn", "kvnr"} -> 0 .. 9 * n

\* Accumulators that the rest of the loop does not tell apart.
Same(a, b) == IF check \in {"luhn", "kvnr"} THEN a % 10 = b % 10 ELSE a = b

-----------------------------------------------------------------------------
(* The sums: what luhnValid and kvnrChecksumValid add for a digit. *)

Weight(i, c) == IF Doubles(i) THEN Doubled(c) ELSE c

LEMMA Weights ==
  ASSUME NEW i \in Nat, NEW c \in Digits
  PROVE  /\ Weight(i, c) \in Digits
         /\ \A a \in Nat : /\ Luhn(i, c, a) = a + Weight(i, c)
                           /\ Kvnr(i, c, a) = a + Weight(i, c)
<1>1. CASE Doubles(i)
  <2>1. Doubled(c) \in Digits /\ DigitSum(2 * c) = Doubled(c)
    <3>1. CASE c \in 0 .. 4
      BY <3>1, SMT DEF Doubled, DigitSum, Digits
    <3>2. CASE c \in 5 .. 9
      BY <3>2, SMT DEF Doubled, DigitSum, Digits
    <3> QED BY <3>1, <3>2, SMT DEF Digits
  <2> QED BY <1>1, <2>1 DEF Weight, Luhn, Kvnr, Doubles
<1>2. CASE ~Doubles(i)
  <2>1. DigitSum(c) = c
    BY SMT DEF DigitSum, Digits
  <2> QED BY <1>2, <2>1 DEF Weight, Luhn, Kvnr, Doubles
<1> QED BY <1>1, <1>2

LEMMA WeightsTell ==
  ASSUME NEW i \in Nat, NEW c \in Digits, NEW d \in Digits, c # d
  PROVE  Weight(i, c) # Weight(i, d)
BY SMT DEF Weight, Doubled, Digits

LEMMA WeightsSwapped ==
  ASSUME NEW i \in Nat, NEW c \in Digits, NEW d \in Digits, c # d
  PROVE  LET v == Weight(i, c) + Weight(i + 1, d)
             w == Weight(i, d) + Weight(i + 1, c)
         IN IF {c, d} = {0, 9} THEN v = w ELSE v % 10 # w % 10
<1> DEFINE v == Weight(i, c) + Weight(i + 1, d)
           w == Weight(i, d) + Weight(i + 1, c)
<1>1. Doubles(i + 1) <=> ~Doubles(i)
  BY SMT DEF Doubles
<1>2. {c, d} = {0, 9} <=> (c = 0 /\ d = 9) \/ (c = 9 /\ d = 0)
  OBVIOUS
<1>3. CASE Doubles(i)
  <2>1. v = Doubled(c) + d /\ w = Doubled(d) + c
    BY <1>1, <1>3 DEF Weight
  <2> QED BY <1>2, <2>1, SMT DEF Doubled, Digits
<1>4. CASE ~Doubles(i)
  <2>1. v = c + Doubled(d) /\ w = d + Doubled(c)
    BY <1>1, <1>4 DEF Weight
  <2> QED BY <1>2, <2>1, SMT DEF Doubled, Digits
<1> QED BY <1>3, <1>4

-----------------------------------------------------------------------------
(* The remainders of mod97. *)

Chars == 0 .. 35

LEMMA Quotient ==
  ASSUME NEW x \in Nat
  PROVE  \E q \in Nat : x = 97 * q + (x % 97) /\ x % 97 \in 0 .. 96
<1> WITNESS x \div 97 \in Nat
<1> QED BY SMT

LEMMA Equal97 ==
  ASSUME NEW x \in Nat, NEW y \in Nat
  PROVE  x % 97 = y % 97 <=> \E k \in Int : x - y = 97 * k
<1>1. PICK q \in Nat : x = 97 * q + (x % 97) /\ x % 97 \in 0 .. 96
  BY Quotient
<1>2. PICK r \in Nat : y = 97 * r + (y % 97) /\ y % 97 \in 0 .. 96
  BY Quotient
<1>3. ASSUME x % 97 = y % 97
      PROVE  \E k \in Int : x - y = 97 * k
  <2> WITNESS q - r \in Int
  <2> QED BY <1>1, <1>2, <1>3, SMT
<1>4. ASSUME NEW k \in Int, x - y = 97 * k
      PROVE  x % 97 = y % 97
  BY <1>1, <1>2, <1>4, SMT
<1> QED BY <1>3, <1>4

LEMMA Mod97Keeps ==
  ASSUME NEW c \in Chars, NEW a \in 0 .. 96, NEW b \in 0 .. 96
  PROVE  /\ Mod97(c, a) \in 0 .. 96
         /\ a # b => Mod97(c, a) # Mod97(c, b)
<1>1. Mod97(c, a) \in 0 .. 96
  BY SMT DEF Mod97, Chars, Digits
<1>2. ASSUME NEW n \in {10, 100}, (a * n + c) % 97 = (b * n + c) % 97
      PROVE  a = b
  <2>1. a * n + c \in Nat /\ b * n + c \in Nat
    BY <1>2, SMT DEF Chars
  <2>2. PICK k \in Int : (a * n + c) - (b * n + c) = 97 * k
    BY ZenonT(60), <1>2, <2>1, Equal97
  <2>3. CASE n = 10
    BY <2>2, <2>3, SMT DEF Chars
  <2>4. CASE n = 100
    BY <2>2, <2>4, SMT DEF Chars
  <2> QED BY <1>2, <2>3, <2>4
<1>3. CASE c \in Digits
  BY <1>1, <1>2, <1>3 DEF Mod97
<1>4. CASE c \notin Digits
  BY <1>1, <1>2, <1>4 DEF Mod97
<1> QED BY <1>3, <1>4

LEMMA Mod97Tells ==
  ASSUME NEW c \in Chars, NEW d \in Chars, NEW a \in 0 .. 96,
         c # d, c \in Digits <=> d \in Digits
  PROVE  Mod97(c, a) # Mod97(d, a)
BY SMT DEF Mod97, Chars, Digits

LEMMA Mod97Swapped ==
  ASSUME NEW c \in Chars, NEW d \in Chars, NEW a \in 0 .. 96, c # d
  PROVE  Mod97(d, Mod97(c, a)) = Mod97(c, Mod97(d, a))
           <=> (c = 11 * d \/ d = 11 * c) /\ ~{c, d} \subseteq Digits
<1> DEFINE m == IF c \in Digits THEN 10 ELSE 100
           n == IF d \in Digits THEN 10 ELSE 100
           x == (a * m + c) * n + d
           y == (a * n + d) * m + c
<1>1. x \in Nat /\ y \in Nat
  BY SMT DEF Chars
<1>2. Mod97(d, Mod97(c, a)) = x % 97 /\ Mod97(c, Mod97(d, a)) = y % 97
  <2>1. ASSUME NEW e \in Nat, NEW k \in {10, 100}, NEW f \in Chars
        PROVE  ((e % 97) * k + f) % 97 = (e * k + f) % 97
    <3>1. PICK q \in Nat : e = 97 * q + (e % 97) /\ e % 97 \in 0 .. 96
      BY Quotient
    <3>2. /\ (e % 97) * k + f \in Nat /\ e * k + f \in Nat
          /\ \E j \in Int : (e * k + f) - ((e % 97) * k + f) = 97 * j
      <4>1. CASE k = 10
        <5>1. 10 * q \in Int /\ (e * k + f) - ((e % 97) * k + f) = 97 * (10 * q)
          BY <3>1, <4>1, SMT DEF Chars
        <5>2. (e % 97) * 10 + f \in Nat /\ e * 10 + f \in Nat
          BY <3>1, SMT DEF Chars
        <5> QED BY <4>1, <5>1, <5>2
      <4>2. CASE k = 100
        <5>1. 100 * q \in Int /\ (e * k + f) - ((e % 97) * k + f) = 97 * (100 * q)
          BY <3>1, <4>2, SMT DEF Chars
        <5>2. (e % 97) * 100 + f \in Nat /\ e * 100 + f \in Nat
          BY <3>1, SMT DEF Chars
        <5> QED BY <4>2, <5>1, <5>2
      <4> QED BY <4>1, <4>2
    <3> QED BY <3>2, Equal97
  <2>2. a * m + c \in Nat /\ a * n + d \in Nat /\ m \in {10, 100} /\ n \in {10, 100}
    BY SMT DEF Chars
  <2>3. Mod97(c, a) = (a * m + c) % 97 /\ Mod97(d, a) = (a * n + d) % 97
    BY DEF Mod97
  <2>4. \A e : /\ Mod97(d, e) = (e * n + d) % 97
               /\ Mod97(c, e) = (e * m + c) % 97
    BY DEF Mod97
  <2> HIDE DEF m, n
  <2> QED BY <2>1, <2>2, <2>3, <2>4
<1>3. x % 97 = y % 97 <=> (c = 11 * d \/ d = 11 * c) /\ ~{c, d} \subseteq Digits
  <2>1. x % 97 = y % 97 <=> \E k \in Int : x - y = 97 * k
    <3> HIDE DEF x, y
    <3> QED BY <1>1, Equal97
  <2>2. CASE c \in Digits /\ d \in Digits
    <3>1. x - y = 9 * (c - d)
      BY <2>2, SMT DEF Digits, Chars
    <3> QED BY <2>1, <2>2, <3>1, SMT DEF Digits
  <2>3. CASE c \notin Digits /\ d \notin Digits
    <3>1. x - y = 99 * (c - d)
      BY <2>3, SMT DEF Digits, Chars
    <3> QED BY <2>1, <2>3, <3>1, SMT DEF Digits, Chars
  <2>4. CASE c \in Digits /\ d \notin Digits
    <3>1. x - y = 99 * c - 9 * d
      BY <2>4, SMT DEF Digits, Chars
    <3> QED BY <2>1, <2>4, <3>1, SMT DEF Digits, Chars
  <2>5. CASE c \notin Digits /\ d \in Digits
    <3>1. x - y = 9 * c - 99 * d
      BY <2>5, SMT DEF Digits, Chars
    <3> QED BY <2>1, <2>5, <3>1, SMT DEF Digits, Chars
  <2> QED BY <2>2, <2>3, <2>4, <2>5
<1> QED BY <1>2, <1>3

-----------------------------------------------------------------------------
(* The products of taxIDCheckDigit. *)

LEMMA TaxIDKeeps ==
  ASSUME NEW c \in Digits, NEW a \in 1 .. 10, NEW b \in 1 .. 10
  PROVE  /\ TaxID(c, a) \in 1 .. 10
         /\ a # b => TaxID(c, a) # TaxID(c, b)
BY SMT DEF TaxID, TenForZero, Digits

LEMMA TaxIDTells ==
  ASSUME NEW c \in Digits, NEW d \in Digits, NEW a \in 1 .. 10, c # d
  PROVE  TaxID(c, a) # TaxID(d, a)
BY SMT DEF TaxID, TenForZero, Digits

\* A turn is linear on each of four ranges of the sum.
Linear(s) == CASE s \in 1 .. 5 -> 2 * s
               [] s \in 6 .. 10 -> 2 * s - 11
               [] s \in 11 .. 15 -> 2 * s - 20
               [] s \in 16 .. 19 -> 2 * s - 31

LEMMA TaxIDLinear ==
  ASSUME NEW c \in Digits, NEW a \in 1 .. 10
  PROVE  TaxID(c, a) = Linear(a + c)
<1>1. a + c \in 1 .. 19
  BY SMT DEF Digits
<1>2. TenForZero(a + c) = IF a + c <= 10 THEN a + c ELSE a + c - 10
  BY <1>1, SMT DEF TenForZero, Digits
<1>3. \A t \in 1 .. 10 : (t * 2) % 11 = IF t <= 5 THEN 2 * t ELSE 2 * t - 11
  BY SMT
<1>4. CASE a + c <= 10
  BY <1>1, <1>2, <1>3, <1>4, SMT DEF TaxID, Linear, Digits
<1>5. CASE a + c > 10
  BY <1>1, <1>2, <1>3, <1>5, SMT DEF TaxID, Linear, Digits
<1> QED BY <1>4, <1>5, SMT DEF Digits

\* The pair of digits that are alike after the product a.
AlikeDigits(a, c, d) == {c, d} = {(15 - a) % 10, (16 - a) % 10}

LEMMA TaxIDSwapped ==
  ASSUME NEW c \in Digits, NEW d \in Digits, NEW a \in 1 .. 10, c # d
  PROVE  TaxID(d, TaxID(c, a)) = TaxID(c, TaxID(d, a))
           <=> AlikeDigits(a, c, d)
<1> DEFINE e == IF a <= 5 THEN 5 - a ELSE 15 - a
           f == IF a <= 6 THEN 6 - a ELSE 16 - a
<1>1. (15 - a) % 10 = e /\ (16 - a) % 10 = f
  BY SMT
<1>2. {c, d} = {e, f} <=> (c = e /\ d = f) \/ (c = f /\ d = e)
  BY Zenon
<1>3. /\ TaxID(c, a) = Linear(a + c) /\ TaxID(c, a) \in 1 .. 10
      /\ TaxID(d, a) = Linear(a + d) /\ TaxID(d, a) \in 1 .. 10
  BY TaxIDLinear, TaxIDKeeps
<1>4. /\ TaxID(d, TaxID(c, a)) = Linear(Linear(a + c) + d)
      /\ TaxID(c, TaxID(d, a)) = Linear(Linear(a + d) + c)
  BY <1>3, TaxIDLinear
<1>5. Linear(Linear(a + c) + d) = Linear(Linear(a + d) + c)
        <=> (c = e /\ d = f) \/ (c = f /\ d = e)
  BY SMTT(60) DEF Linear, Digits
<1> QED BY <1>1, <1>2, <1>4, <1>5 DEF AlikeDigits

-----------------------------------------------------------------------------
(* One turn of any check. *)

\* A swap the check cannot tell, seen from the accumulator a.
AlikeAt(a, c, d) ==
  CASE check \in {"luhn", "kvnr"} -> {c, d} = {0, 9}
    [] check = "mod97" -> (c = 11 * d \/ d = 11 * c) /\ ~{c, d} \subseteq Digits
    [] check = "taxid" -> AlikeDigits(a, c, d)

LEMMA SymbolsAreChars ==
  ASSUME check \in Checks, NEW i \in Nat, NEW c \in Symbols(i)
  PROVE  c \in Chars /\ (check # "mod97" => c \in Digits)
<1>1. CASE check = "mod97"
  BY <1>1, LettersAssumption, SMT DEF Symbols, Chars, Digits
<1>2. CASE check = "taxid" /\ i = 0
  BY <1>2, SMT DEF Symbols, Chars, Digits
<1>3. CASE check # "mod97" /\ ~(check = "taxid" /\ i = 0)
  BY <1>3, SMT DEF Symbols, Chars, Digits
<1> QED BY <1>1, <1>2, <1>3

\* A turn keeps its accumulator in range, and apart from another one.
LEMMA TurnKeeps ==
  ASSUME check \in Checks, NEW i \in Nat, NEW c \in Symbols(i),
         NEW a \in Totals(i), NEW b \in Totals(i)
  PROVE  /\ Turn(i, c, a) \in Totals(i + 1)
         /\ Same(Turn(i, c, a), Turn(i, c, b)) <=> Same(a, b)
<1>0. c \in Chars /\ (check # "mod97" => c \in Digits)
  BY SymbolsAreChars
<1>1. CASE check \in {"luhn", "kvnr"}
  <2>1. a \in 0 .. 9 * i /\ b \in 0 .. 9 * i /\ a \in Nat /\ b \in Nat
    BY <1>1, SMT DEF Totals
  <2>2. Weight(i, c) \in Digits /\ c \in Digits
    BY <1>0, <1>1, Weights
  <2>3. Turn(i, c, a) = a + Weight(i, c) /\ Turn(i, c, b) = b + Weight(i, c)
    BY <1>1, <2>1, <2>2, Weights DEF Turn
  <2>4. a + Weight(i, c) \in 0 .. 9 * (i + 1)
    BY <2>1, <2>2, SMT DEF Digits
  <2>5. (a + Weight(i, c)) % 10 = (b + Weight(i, c)) % 10 <=> a % 10 = b % 10
    <3> DEFINE v == Weight(i, c)
    <3>1. v \in Nat
      BY <2>2, SMT DEF Digits
    <3> HIDE DEF v
    <3>2. (a + v) % 10 = (b + v) % 10 <=> a % 10 = b % 10
      BY <2>1, <3>1, SMT
    <3> QED BY <3>2 DEF v
  <2> QED BY <1>1, <2>3, <2>4, <2>5 DEF Same, Totals
<1>2. CASE check = "mod97"
  BY <1>0, <1>2, Mod97Keeps DEF Turn, Same, Totals
<1>3. CASE check = "taxid"
  BY <1>0, <1>3, TaxIDKeeps DEF Turn, Same, Totals
<1> QED BY <1>1, <1>2, <1>3 DEF Checks

\* A turn tells two symbols from each other.
LEMMA TurnTells ==
  ASSUME check \in Checks, NEW i \in Nat, NEW c \in Symbols(i), NEW d \in Symbols(i),
         c # d, c \in Digits <=> d \in Digits,
         NEW a \in Totals(i), NEW b \in Totals(i), Same(a, b)
  PROVE  ~Same(Turn(i, c, a), Turn(i, d, b))
<1>0. /\ c \in Chars /\ (check # "mod97" => c \in Digits)
      /\ d \in Chars /\ (check # "mod97" => d \in Digits)
  BY SymbolsAreChars
<1>1. CASE check \in {"luhn", "kvnr"}
  <2>1. a \in Nat /\ b \in Nat /\ a % 10 = b % 10
    BY <1>1, SMT DEF Totals, Same
  <2>2. c \in Digits /\ d \in Digits
    BY <1>0, <1>1
  <2>3. /\ Weight(i, c) \in Digits /\ Weight(i, d) \in Digits
        /\ Weight(i, c) # Weight(i, d)
    BY <2>2, Weights, WeightsTell
  <2>4. Turn(i, c, a) = a + Weight(i, c) /\ Turn(i, d, b) = b + Weight(i, d)
    BY <1>1, <2>1, <2>2, Weights DEF Turn
  <2>5. (a + Weight(i, c)) % 10 # (b + Weight(i, d)) % 10
    BY <2>1, <2>3, SMT DEF Digits
  <2> QED BY <1>1, <2>4, <2>5 DEF Same
<1>2. CASE check = "mod97"
  BY <1>0, <1>2, Mod97Tells DEF Turn, Same, Totals
<1>3. CASE check = "taxid"
  BY <1>0, <1>3, TaxIDTells DEF Turn, Same, Totals
<1> QED BY <1>1, <1>2, <1>3 DEF Checks

\* Two turns tell the order of two symbols, unless they are alike.
LEMMA TurnsSwapped ==
  ASSUME check \in Checks, NEW i \in Nat,
         NEW c \in Symbols(i) \cap Symbols(i + 1), NEW d \in Symbols(i) \cap Symbols(i + 1),
         c # d, NEW a \in Totals(i), NEW b \in Totals(i), Same(a, b)
  PROVE  Same(Turn(i + 1, d, Turn(i, c, a)), Turn(i + 1, c, Turn(i, d, b)))
           <=> AlikeAt(a, c, d)
<1>0. /\ c \in Chars /\ (check # "mod97" => c \in Digits)
      /\ d \in Chars /\ (check # "mod97" => d \in Digits)
  BY SymbolsAreChars
<1>1. CASE check \in {"luhn", "kvnr"}
  <2> DEFINE v == Weight(i, c) + Weight(i + 1, d)
             w == Weight(i, d) + Weight(i + 1, c)
  <2>1. a \in Nat /\ b \in Nat /\ a % 10 = b % 10
    BY <1>1, SMT DEF Totals, Same
  <2>2. c \in Digits /\ d \in Digits /\ i + 1 \in Nat
    BY <1>0, <1>1, SMT
  <2>3. /\ Weight(i, c) \in Digits /\ Weight(i + 1, c) \in Digits
        /\ Weight(i, d) \in Digits /\ Weight(i + 1, d) \in Digits
    BY <2>2, Weights
  <2>4. /\ Turn(i, c, a) = a + Weight(i, c) /\ Turn(i, c, a) \in Nat
        /\ Turn(i, d, b) = b + Weight(i, d) /\ Turn(i, d, b) \in Nat
    <3>1. Turn(i, c, a) = a + Weight(i, c) /\ Turn(i, d, b) = b + Weight(i, d)
      BY <1>1, <2>1, <2>2, Weights DEF Turn
    <3> QED BY <2>1, <2>3, <3>1, SMT DEF Digits
  <2>5. /\ Turn(i + 1, d, Turn(i, c, a)) = Turn(i, c, a) + Weight(i + 1, d)
        /\ Turn(i + 1, c, Turn(i, d, b)) = Turn(i, d, b) + Weight(i + 1, c)
    BY <1>1, <2>2, <2>4, Weights DEF Turn
  <2>6. /\ Turn(i + 1, d, Turn(i, c, a)) = a + v /\ v \in 0 .. 18
        /\ Turn(i + 1, c, Turn(i, d, b)) = b + w /\ w \in 0 .. 18
    BY <2>1, <2>3, <2>4, <2>5, SMT DEF Digits
  <2>7. IF {c, d} = {0, 9} THEN v = w ELSE v % 10 # w % 10
    BY <2>2, WeightsSwapped
  <2> HIDE DEF v, w
  <2>8. (a + v) % 10 = (b + w) % 10 <=> {c, d} = {0, 9}
    <3>1. (a + v) % 10 = (b + w) % 10 <=> v % 10 = w % 10
      BY <2>1, <2>6, SMT
    <3> QED BY <2>7, <3>1
  <2> QED BY <1>1, <2>6, <2>8 DEF Same, AlikeAt
<1>2. CASE check = "mod97"
  BY <1>0, <1>2, Mod97Swapped DEF Turn, Same, Totals, AlikeAt
<1>3. CASE check = "taxid"
  <2>1. /\ Turn(i + 1, d, Turn(i, c, a)) = TaxID(d, TaxID(c, a))
        /\ Turn(i + 1, c, Turn(i, d, b)) = TaxID(c, TaxID(d, a))
    BY <1>3 DEF Turn, Same
  <2>2. TaxID(d, TaxID(c, a)) = TaxID(c, TaxID(d, a))
          <=> AlikeDigits(a, c, d)
    <3>1. c \in Digits /\ d \in Digits /\ a \in 1 .. 10
      BY <1>0, <1>3 DEF Totals
    <3> QED BY <3>1, TaxIDSwapped
  <2> QED BY <1>3, <2>1, <2>2, Zenon DEF Same, AlikeAt
<1> QED BY <1>1, <1>2, <1>3 DEF Checks

-----------------------------------------------------------------------------
(* The numbers as they are read. *)

\* The verdicts follow the accumulators, and in the end the mistake shows.
Verdict ==
  /\ passed = {} => (Same(own, typo) <=> err \in {"none", "alike"})
  /\ SymbolCaught /\ SwapCaught

IInv == TypeOK /\ Verdict

LEMMA TotalsOf ==
  TypeOK <=> /\ check \in Checks /\ pos \in Nat
             /\ own \in Totals(pos) /\ typo \in Totals(pos)
             /\ err \in {"none", "symbol", "swap", "alike"}
             /\ passed \subseteq BOOLEAN \X BOOLEAN
BY DEF TypeOK, Totals

LEMMA InitInv == Init => IInv
<1> SUFFICES ASSUME Init PROVE IInv
  OBVIOUS
<1>1. own \in Totals(pos)
  <2>1. CASE check # "kvnr"
    BY <2>1, SMT DEF Init, Totals, Checks
  <2>2. CASE check = "kvnr"
    <3>1. PICK v \in 1 .. 26 : own = Kvnr(1, v % 10, Kvnr(0, v \div 10, 0)) /\ pos = 2
      BY <2>2 DEF Init
    <3>2. v % 10 \in Digits /\ v \div 10 \in Digits
      BY SMT DEF Digits
    <3>3. Weight(0, v \div 10) \in Digits /\ Weight(1, v % 10) \in Digits
      BY <3>2, Weights
    <3>4. Kvnr(0, v \div 10, 0) = 0 + Weight(0, v \div 10)
      BY <3>2, Weights
    <3>5. own = Kvnr(0, v \div 10, 0) + Weight(1, v % 10)
      BY <3>1, <3>2, <3>3, <3>4, Weights, SMT DEF Digits
    <3>6. own \in 0 .. 18
      BY <3>3, <3>4, <3>5, SMT DEF Digits
    <3> QED BY <2>2, <3>1, <3>6, SMT DEF Totals
  <2> QED BY <2>1, <2>2
<1>2. TypeOK
  BY <1>1, TotalsOf DEF Init
<1> QED BY <1>2 DEF Init, IInv, Verdict, Same, SymbolCaught, SwapCaught

LEMMA ReadInv ==
  ASSUME IInv, NEW c, Read(c)
  PROVE  IInv'
<1>0. /\ c \in Symbols(pos) /\ pos' = pos + 1 /\ passed = {} /\ passed' = {}
      /\ own' = Turn(pos, c, own) /\ typo' = Turn(pos, c, typo)
      /\ check' = check /\ err' = err /\ TypeOK
  BY DEF Read, Take, Reading, IInv
<1>1. /\ Turn(pos, c, own) \in Totals(pos + 1) /\ Turn(pos, c, typo) \in Totals(pos + 1)
      /\ Same(Turn(pos, c, own), Turn(pos, c, typo)) <=> Same(own, typo)
  BY <1>0, TotalsOf, TurnKeeps
<1>2. TypeOK'
  <2>1. check' \in Checks /\ pos' \in Nat /\ own' \in Totals(pos') /\ typo' \in Totals(pos')
    BY <1>0, <1>1, TotalsOf, SMT
  <2>2. err' \in {"none", "symbol", "swap", "alike"} /\ passed' \subseteq BOOLEAN \X BOOLEAN
    BY <1>0, TotalsOf
  <2> QED BY <1>0, <2>1, <2>2, Zenon DEF TypeOK, Totals
<1>3. Same(own, typo)' <=> err' \in {"none", "alike"}
  BY <1>0, <1>1 DEF IInv, Verdict, Same
<1> QED BY <1>0, <1>2, <1>3 DEF IInv, Verdict, SymbolCaught, SwapCaught

LEMMA MistypeInv ==
  ASSUME IInv, NEW c, NEW d, Mistype(c, d)
  PROVE  IInv'
<1>0. /\ c \in Symbols(pos) /\ d \in Symbols(pos) /\ c # d /\ (c \in Digits <=> d \in Digits)
      /\ pos' = pos + 1 /\ passed = {} /\ passed' = {} /\ err = "none" /\ err' = "symbol"
      /\ own' = Turn(pos, c, own) /\ typo' = Turn(pos, d, typo)
      /\ check' = check /\ TypeOK /\ Same(own, typo)
  BY DEF Mistype, Take, Reading, IInv, Verdict
<1>1. Turn(pos, c, own) \in Totals(pos + 1) /\ Turn(pos, d, typo) \in Totals(pos + 1)
  BY <1>0, TotalsOf, TurnKeeps
<1>2. ~Same(Turn(pos, c, own), Turn(pos, d, typo))
  BY <1>0, TotalsOf, TurnTells
<1>3. TypeOK'
  <2>1. check' \in Checks /\ pos' \in Nat /\ own' \in Totals(pos') /\ typo' \in Totals(pos')
    BY <1>0, <1>1, TotalsOf, SMT
  <2>2. err' \in {"none", "symbol", "swap", "alike"} /\ passed' \subseteq BOOLEAN \X BOOLEAN
    BY <1>0, TotalsOf
  <2> QED BY <1>0, <2>1, <2>2, Zenon DEF TypeOK, Totals
<1>4. ~Same(own, typo)'
  BY <1>0, <1>2 DEF Same
<1> QED BY <1>0, <1>3, <1>4 DEF IInv, Verdict, SymbolCaught, SwapCaught

LEMMA SwapInv ==
  ASSUME IInv, NEW c, NEW d, Swap(c, d)
  PROVE  IInv'
<1>0. /\ c \in Symbols(pos) \cap Symbols(pos + 1) /\ d \in Symbols(pos) \cap Symbols(pos + 1)
      /\ c # d /\ pos' = pos + 2 /\ passed = {} /\ passed' = {} /\ err = "none"
      /\ err' = IF Alike(c, d) THEN "alike" ELSE "swap"
      /\ own' = Turn(pos + 1, d, Turn(pos, c, own))
      /\ typo' = Turn(pos + 1, c, Turn(pos, d, typo))
      /\ check' = check /\ TypeOK /\ Same(own, typo)
  BY DEF Swap, Take, Reading, IInv, Verdict
<1>a. check \in Checks /\ pos \in Nat /\ own \in Totals(pos) /\ typo \in Totals(pos)
  BY <1>0, TotalsOf
<1>b. pos + 1 \in Nat /\ (pos + 1) + 1 = pos + 2
  BY <1>a, SMT
<1>1. Turn(pos, c, own) \in Totals(pos + 1) /\ Turn(pos, d, typo) \in Totals(pos + 1)
  BY <1>0, <1>a, TurnKeeps
<1>2. own' \in Totals(pos + 2) /\ typo' \in Totals(pos + 2)
  BY <1>0, <1>a, <1>b, <1>1, TurnKeeps
<1>3. Same(own', typo') <=> AlikeAt(own, c, d)
  BY <1>0, <1>a, TurnsSwapped
<1>4. AlikeAt(own, c, d) <=> Alike(c, d)
  <2>1. /\ c \in Chars /\ (check # "mod97" => c \in Digits)
        /\ d \in Chars /\ (check # "mod97" => d \in Digits)
    BY <1>0, <1>a, SymbolsAreChars
  <2>2. check = "mod97" => (~{c, d} \subseteq Digits <=> Letters \cap {c, d} # {})
    BY <1>0, LettersAssumption, SMT DEF Symbols, Digits
  <2>3. CASE check \in {"luhn", "kvnr"}
    BY <2>3 DEF AlikeAt, Alike
  <2>4. CASE check = "mod97"
    BY <2>2, <2>4 DEF AlikeAt, Alike
  <2>5. CASE check = "taxid"
    BY <2>5 DEF AlikeAt, AlikeDigits, Alike
  <2> QED BY <1>a, <2>3, <2>4, <2>5 DEF Checks
<1>5. TypeOK'
  <2>1. check' \in Checks /\ pos' \in Nat /\ own' \in Totals(pos') /\ typo' \in Totals(pos')
    BY <1>0, <1>2, TotalsOf, SMT
  <2>2. err' \in {"none", "symbol", "swap", "alike"} /\ passed' \subseteq BOOLEAN \X BOOLEAN
    BY <1>0, TotalsOf
  <2> QED BY <1>0, <2>1, <2>2, Zenon DEF TypeOK, Totals
<1>6. Same(own, typo)' <=> err' \in {"none", "alike"}
  BY <1>0, <1>3, <1>4 DEF Same
<1> QED BY <1>0, <1>5, <1>6 DEF IInv, Verdict, SymbolCaught, SwapCaught

-----------------------------------------------------------------------------
(* The verdicts. *)

LEMMA Pairs ==
  ASSUME NEW a, NEW b, NEW x, NEW y
  PROVE  /\ <<a, b>> = <<x, y>> <=> a = x /\ b = y
         /\ <<a, b>>[1] = a /\ <<a, b>>[2] = b
OBVIOUS

\* The numbers have the same verdict, or not both of them pass.
LEMMA FinishInv ==
  ASSUME IInv, Finish
  PROVE  IInv'
<1>0. /\ check' = check /\ pos' = pos /\ own' = own /\ typo' = typo /\ err' = err
      /\ TypeOK /\ (Same(own, typo) <=> err \in {"none", "alike"})
  BY DEF Finish, End, IInv, Verdict
<1>1. PICK v \in BOOLEAN, w \in BOOLEAN :
        /\ passed' = {<<v, w>>}
        /\ Same(own, typo) => v = w
        /\ ~Same(own, typo) => ~(v /\ w)
  <2>1. CASE check = "luhn"
    <3>1. passed' = {<<own % 10 = 0, typo % 10 = 0>>}
      BY <2>1 DEF Finish, End
    <3> QED BY <2>1, <3>1 DEF Same
  <2>2. CASE check = "mod97"
    <3>1. passed' = {<<own = 1, typo = 1>>}
      BY <2>2 DEF Finish, End
    <3> QED BY <2>2, <3>1 DEF Same
  <2> QED BY <2>1, <2>2 DEF Finish
<1>v. /\ <<TRUE, TRUE>> \in passed' => v /\ w
      /\ \A x \in passed' : v = w => x[1] = x[2]
  <2>1. <<TRUE, TRUE>> = <<v, w>> => TRUE = v /\ TRUE = w
    BY Pairs, Zenon
  <2>2. <<v, w>>[1] = v /\ <<v, w>>[2] = w
    BY Pairs, Zenon
  <2> QED BY <1>1, <2>1, <2>2, Zenon
<1>2. TypeOK'
  <2>1. passed' \subseteq BOOLEAN \X BOOLEAN
    BY <1>1
  <2> QED BY <1>0, <2>1, Zenon DEF TypeOK
<1>3. passed' # {} /\ SymbolCaught' /\ SwapCaught'
  BY <1>0, <1>1, <1>v, Zenon DEF SymbolCaught, SwapCaught
<1> QED BY <1>2, <1>3 DEF IInv, Verdict

LEMMA CheckDigits ==
  ASSUME check \in {"taxid", "kvnr"}, NEW n \in Nat, NEW a \in Totals(n), NEW b \in Totals(n)
  PROVE  /\ Same(a, b) => CheckDigit(a) = CheckDigit(b)
         /\ ~Same(a, b) => CheckDigit(a) \cap CheckDigit(b) = {}
         /\ \A c, d \in CheckDigit(a) : c = d
<1>1. CASE check = "taxid"
  <2>1. a \in 1 .. 10 /\ b \in 1 .. 10
    BY <1>1 DEF Totals
  <2>2. /\ CheckDigit(a) = IF a = 1 THEN {} ELSE {11 - a}
        /\ CheckDigit(b) = IF b = 1 THEN {} ELSE {11 - b}
    <3>1. /\ 11 - a = 10 <=> a = 1
          /\ 11 - b = 10 <=> b = 1
          /\ 11 - a # 11 /\ 11 - b # 11
      BY <2>1, SMT
    <3> QED BY <1>1, <3>1, Zenon DEF CheckDigit, TaxIDCheckDigit
  <2>3. Same(a, b) <=> a = b
    BY <1>1 DEF Same
  <2> QED BY <2>1, <2>2, <2>3, SMT
<1>2. CASE check = "kvnr"
  BY <1>2 DEF CheckDigit, Same
<1> QED BY <1>1, <1>2

LEMMA CompareInv ==
  ASSUME IInv, NEW c, NEW d, Compare(c, d)
  PROVE  IInv'
<1> DEFINE v == c \in CheckDigit(own)
           w == d \in CheckDigit(typo)
<1>0. /\ check' = check /\ pos' = pos /\ own' = own /\ typo' = typo
      /\ check \in {"taxid", "kvnr"} /\ passed' = {<<v, w>>}
      /\ \/ c = d /\ err' = err
         \/ c # d /\ err = "none" /\ err' = "symbol"
      /\ TypeOK /\ (Same(own, typo) <=> err \in {"none", "alike"})
  BY DEF Compare, End, IInv, Verdict
<1>1. /\ Same(own, typo) => CheckDigit(own) = CheckDigit(typo)
      /\ ~Same(own, typo) => CheckDigit(own) \cap CheckDigit(typo) = {}
      /\ \A x, y \in CheckDigit(own) : x = y
  BY <1>0, TotalsOf, CheckDigits
<1>2. err' = "symbol" \/ err' = "swap" => ~(v /\ w)
  BY <1>0, <1>1
<1>3. err' = "alike" => v = w
  BY <1>0, <1>1
<1>4. v \in BOOLEAN /\ w \in BOOLEAN
  OBVIOUS
<1> HIDE DEF v, w
<1>5. TypeOK'
  BY <1>0, <1>4 DEF TypeOK
<1>v. /\ <<TRUE, TRUE>> \in passed' => v /\ w
      /\ \A x \in passed' : v = w => x[1] = x[2]
  <2>1. <<TRUE, TRUE>> = <<v, w>> => TRUE = v /\ TRUE = w
    BY Pairs, Zenon
  <2>2. <<v, w>>[1] = v /\ <<v, w>>[2] = w
    BY Pairs, Zenon
  <2> QED BY <1>0, <2>1, <2>2, Zenon
<1>6. passed' # {} /\ SymbolCaught' /\ SwapCaught'
  BY <1>0, <1>2, <1>3, <1>v, Zenon DEF SymbolCaught, SwapCaught
<1> QED BY <1>5, <1>6 DEF IInv, Verdict

LEMMA NextInv == IInv /\ [Next]_vars => IInv'
<1> SUFFICES ASSUME IInv, [Next]_vars PROVE IInv'
  OBVIOUS
<1>1. CASE Next
  BY <1>1, ReadInv, MistypeInv, SwapInv, CompareInv, FinishInv DEF Next
<1>2. CASE UNCHANGED vars
  BY <1>2 DEF vars, IInv, Verdict, TypeOK, Totals, Same, SymbolCaught, SwapCaught
<1> QED BY <1>1, <1>2

LEMMA Inductive == Spec => []IInv
<1> QED BY InitInv, NextInv, PTL DEF Spec

-----------------------------------------------------------------------------
(* What follows for the properties. *)

\* The remainders, sums and products stay in range for numbers of every
\* length, so the branch for a check of 11 is never taken.
THEOREM TypeCorrect == Spec => []TypeOK
<1>1. IInv => TypeOK
  BY DEF IInv
<1> QED BY <1>1, Inductive, PTL

\* None of the four checks passes both numbers when one symbol was mistyped,
\* whatever the length and the letters.
THEOREM SymbolIsCaught == Spec => []SymbolCaught
<1>1. IInv => SymbolCaught
  BY DEF IInv, Verdict
<1> QED BY <1>1, Inductive, PTL

\* None of them passes both numbers when two neighbours were swapped, except
\* for exactly the pairs that Alike names.
THEOREM SwapIsCaught == Spec => []SwapCaught
<1>1. IInv => SwapCaught
  BY DEF IInv, Verdict
<1> QED BY <1>1, Inductive, PTL

=============================================================================
