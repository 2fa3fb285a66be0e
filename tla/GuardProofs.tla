----------------------------- MODULE GuardProofs -----------------------------
(***************************************************************************)
(* Proofs about Guard, for every number of requests and updates, every     *)
(* body and every scanner.                                                 *)
(***************************************************************************)
EXTENDS Guard, FiniteSetTheorems, TLAPS

-----------------------------------------------------------------------------
(* The inductive invariant.  A string that has been masked stays as one of *)
(* the configurations of inForce made it, and the configuration that the   *)
(* next string will see is one of inForce too: UpdateConfig waits for the  *)
(* readers, so it cannot come between a snapshot and the history it starts *)
(* or between a read lock and its read.                                    *)

Indexed == DOMAIN holds = Requests /\ DOMAIN todo = Requests /\ DOMAIN out = Requests

ScannerFits == scanner = cfg.detectors

Masking(r) == pc[r] \in {"mask", "scan"}

CurrentInForce == \A r \in Requests : Masking(r) => cfg \in inForce[r]

Finished(r) == pc[r] = "done" /\ body[r].kind # "empty" /\ ~snap[r].dryRun

\* Field i of request r needs no more work, or is as it should be.
Settled(r, i) ==
  LET f == body[r].fields[i]
  IN  \/ ~Reached(f) \/ f.text = <<>>
      \/ Masking(r) /\ i \in todo[r]
      \/ \E c \in inForce[r] : out[r][i] = Masked(f.text, c)

AllSettled ==
  \A r \in Requests :
    Masking(r) \/ Finished(r) => \A i \in DOMAIN body[r].fields : Settled(r, i)

GuardInv == TypeOK /\ Indexed /\ ScannerFits /\ CurrentInForce /\ AllSettled

-----------------------------------------------------------------------------
LEMMA InitGuardInv == Init => GuardInv
<1> SUFFICES ASSUME Init PROVE GuardInv
  OBVIOUS
<1>1. cfg \in GuardConfigs /\ scanner = cfg.detectors
  BY DEF Init
<1>2. Cardinality(pending) = 0
  BY FS_EmptySet DEF Init
<1>3. TypeOK
  BY <1>1, <1>2, MaxUpdatesAssumption DEF Init, TypeOK, EmptyBody
<1> QED
  BY <1>1, <1>3 DEF Init, GuardInv, Indexed, ScannerFits, CurrentInForce,
                    AllSettled, Masking, Finished

\* A step of one request keeps what the invariant says of the others.
LEMMA OthersSettled ==
  ASSUME GuardInv, NEW r \in Requests, UNCHANGED guard,
         \A q \in Requests \ {r} :
           UNCHANGED <<pc[q], body[q], snap[q], inForce[q], todo[q], out[q]>>
  PROVE  \A q \in Requests \ {r} :
           /\ Masking(q)' => cfg' \in inForce'[q]
           /\ Masking(q)' \/ Finished(q)' =>
                \A i \in DOMAIN body'[q].fields : Settled(q, i)'
<1> SUFFICES ASSUME NEW q \in Requests \ {r}
             PROVE  /\ Masking(q)' => cfg' \in inForce'[q]
                    /\ Masking(q)' \/ Finished(q)' =>
                         \A i \in DOMAIN body'[q].fields : Settled(q, i)'
  OBVIOUS
<1>1. /\ Masking(q)' <=> Masking(q)
      /\ Finished(q)' <=> Finished(q)
      /\ \A i : Settled(q, i)' <=> Settled(q, i)
  BY DEF Masking, Finished, Settled
<1> QED
  BY <1>1 DEF GuardInv, CurrentInForce, AllSettled, guard

\* Every step of a request keeps the types.
LEMMA RequestKeepsTypes ==
  ASSUME GuardInv, NEW r \in Requests, Call(r) \/ Apply(r)
  PROVE  TypeOK' /\ Indexed'
<1> USE DEF GuardInv, TypeOK, Indexed
<1>1. CASE Call(r)
  <2> PICK b \in Bodies : /\ body' = [body EXCEPT ![r] = b]
                          /\ out' = [out EXCEPT ![r] = TextsOf(b)]
                          /\ pc' = [pc EXCEPT ![r] = IF b.kind = "empty" THEN "done" ELSE "called"]
    BY <1>1 DEF Call
  <2>1. /\ UNCHANGED <<guard, pending, updates, holds, snap, inForce, todo>>
        /\ pc[r] = "idle"
    BY <1>1 DEF Call
  <2>2. DOMAIN TextsOf(b) = DOMAIN b.fields
    BY DEF TextsOf
  <2>3. pc'[r] \in {"done", "called"} /\ \A q \in Requests \ {r} : pc'[q] = pc[q]
    OBVIOUS
  <2>4. todo[r] = {}
    BY <2>1
  <2> QED
    BY <2>1, <2>2, <2>3, <2>4 DEF guard
<1>2. CASE RLock(r)
  BY <1>2 DEF RLock, guard, local
<1>3. CASE Snapshot(r)
  BY <1>3 DEF Snapshot, RUnlock, guard
<1>4. CASE DryRun(r)
  BY <1>4 DEF DryRun, RUnlock, guard
<1>5. CASE MaskOne(r)
  <2> PICK i \in todo[r] : Mask(r, i)
    BY <1>5 DEF MaskOne
  <2> QED
    BY DEF Mask, RUnlock, guard
<1>6. CASE Return(r)
  BY <1>6 DEF Return, guard
<1> QED
  BY <1>1, <1>2, <1>3, <1>4, <1>5, <1>6 DEF Apply

LEMMA RequestKeepsGuardInv ==
  ASSUME GuardInv, NEW r \in Requests, Call(r) \/ Apply(r)
  PROVE  GuardInv'
<1>1. TypeOK' /\ Indexed'
  BY RequestKeepsTypes
<1> USE DEF GuardInv, TypeOK, Indexed
<1>2. UNCHANGED guard
  BY DEF Apply, Call, RLock, Snapshot, DryRun, MaskOne, Mask, Return
<1>3. \A q \in Requests \ {r} :
        UNCHANGED <<pc[q], body[q], snap[q], inForce[q], todo[q], out[q]>>
  BY DEF Apply, Call, RLock, Snapshot, DryRun, MaskOne, Mask, Return, local
<1>4. /\ Masking(r)' => cfg' \in inForce'[r]
      /\ Masking(r)' \/ Finished(r)' => \A i \in DOMAIN body'[r].fields : Settled(r, i)'
  <2> USE DEF Masking, Finished
  <2>1. CASE Call(r)
    BY <2>1 DEF Call, EmptyBody
  <2>2. CASE RLock(r)
    BY <2>2 DEF RLock, local, guard, CurrentInForce, AllSettled, Settled
  <2>3. CASE Snapshot(r)
    BY <2>3 DEF Snapshot, guard, Settled
  <2>4. CASE DryRun(r)
    BY <2>4 DEF DryRun
  <2>5. CASE MaskOne(r)
    <3> PICK i \in todo[r] : Mask(r, i)
      BY <2>5 DEF MaskOne
    <3>1. /\ pc[r] = "scan" /\ pc'[r] = "mask"
          /\ UNCHANGED <<guard, body, inForce>>
          /\ todo'[r] = todo[r] \ {i}
      BY DEF Mask
    <3>2. /\ out'[r][i] = Scan(scanner, body[r].fields[i].text, cfg.whitelist).text
          /\ \A j \in DOMAIN body[r].fields : j # i => out'[r][j] = out[r][j]
      BY DEF Mask
    <3>3. cfg \in inForce[r] /\ out'[r][i] = Masked(body[r].fields[i].text, cfg)
      BY <3>1, <3>2 DEF CurrentInForce, ScannerFits, Masked
    <3>4. \A j \in DOMAIN body[r].fields : Settled(r, j)'
      <4> SUFFICES ASSUME NEW j \in DOMAIN body[r].fields PROVE Settled(r, j)'
        OBVIOUS
      <4>1. Settled(r, j)
        BY <3>1 DEF AllSettled
      <4>2. CASE j = i
        BY <3>1, <3>3, <4>2 DEF Settled
      <4>3. CASE j # i
        BY <3>1, <3>2, <4>1, <4>3 DEF Settled
      <4> QED
        BY <4>2, <4>3
    <3> QED
      BY <3>1, <3>3, <3>4 DEF guard
  <2>6. CASE Return(r)
    <3>1. /\ pc[r] = "mask" /\ pc'[r] = "done" /\ todo[r] = {}
          /\ UNCHANGED <<body, inForce, out>>
      BY <2>6 DEF Return
    <3> QED
      BY <3>1 DEF AllSettled, Settled
  <2> QED
    BY <2>1, <2>2, <2>3, <2>4, <2>5, <2>6 DEF Apply
<1>5. CurrentInForce' /\ AllSettled'
  BY <1>2, <1>3, <1>4, OthersSettled DEF CurrentInForce, AllSettled
<1>6. ScannerFits'
  BY <1>2 DEF ScannerFits, guard
<1> QED
  BY <1>1, <1>5, <1>6

LEMMA LockKeepsGuardInv == GuardInv /\ Lock => GuardInv'
<1> SUFFICES ASSUME GuardInv, Lock PROVE GuardInv'
  OBVIOUS
<1>1. PICK c \in GuardConfigs : pending' = {c}
  BY DEF Lock
<1>2. Cardinality({c}) = 1
  BY FS_Singleton
<1>3. updates' \in 0 .. MaxUpdates
  BY MaxUpdatesAssumption DEF Lock, GuardInv, TypeOK
<1>4. UNCHANGED <<guard, holds, pc, local>>
  BY DEF Lock
<1>5. TypeOK'
  BY <1>1, <1>2, <1>3, <1>4 DEF GuardInv, TypeOK, guard, local
<1> QED
  BY <1>4, <1>5 DEF GuardInv, Indexed, ScannerFits, CurrentInForce, AllSettled,
                    Settled, Masking, Finished, guard, local

LEMMA UpdateKeepsGuardInv == GuardInv /\ Update => GuardInv'
<1> SUFFICES ASSUME GuardInv, NEW c \in pending, UpdateConfig(c) PROVE GuardInv'
  BY DEF Update
<1>1. c \in GuardConfigs /\ scanner' = c.detectors /\ cfg' = c
  BY DEF UpdateConfig, Install, GuardInv, TypeOK
<1>2. /\ UNCHANGED <<updates, holds, pc, body, snap, todo, out>>
      /\ inForce' = [r \in Requests |->
                       IF pc[r] = "mask" THEN inForce[r] \cup {c} ELSE inForce[r]]
  BY DEF UpdateConfig
<1>3. TypeOK'
  <2>1. pending' = {} /\ Cardinality({}) = 0
    BY FS_EmptySet DEF UpdateConfig
  <2> QED
    BY <1>1, <1>2, <2>1 DEF GuardInv, TypeOK
<1>4. \A r \in Requests : pc[r] # "scan"
  BY DEF UpdateConfig, GuardInv, TypeOK
<1>5. CurrentInForce'
  BY <1>1, <1>2, <1>4 DEF CurrentInForce, Masking
<1>6. \A r \in Requests : inForce[r] \subseteq inForce'[r]
  BY <1>2
<1>7. AllSettled'
  BY <1>2, <1>6 DEF GuardInv, AllSettled, Settled, Masking, Finished
<1> QED
  BY <1>1, <1>2, <1>3, <1>5, <1>7 DEF GuardInv, Indexed, ScannerFits

LEMMA NextKeepsGuardInv == GuardInv /\ [Next]_vars => GuardInv'
<1> SUFFICES ASSUME GuardInv, [Next]_vars PROVE GuardInv'
  OBVIOUS
<1>1. CASE UNCHANGED vars
  BY <1>1 DEF GuardInv, TypeOK, Indexed, ScannerFits, CurrentInForce, AllSettled,
              Settled, Masking, Finished, vars, guard, local
<1> QED
  BY <1>1, RequestKeepsGuardInv, LockKeepsGuardInv, UpdateKeepsGuardInv DEF Next

-----------------------------------------------------------------------------
\* The types of Guard, and that a read lock is held exactly where the code
\* reads: no path leaves one behind, so no later read lock is a nested one.
THEOREM TypeCorrect == Spec => []TypeOK
<1>1. GuardInv => TypeOK
  BY DEF GuardInv
<1> QED
  BY InitGuardInv, NextKeepsGuardInv, <1>1, PTL DEF Spec

\* Each string is masked by one configuration that was in force during the
\* call, however many updates come in between.
THEOREM MaskingIsLinearizable == Spec => []FieldsLinearizable
<1>1. GuardInv => FieldsLinearizable
  BY DEF GuardInv, AllSettled, Finished, Masking, Settled, FieldsLinearizable
<1> QED
  BY InitGuardInv, NextKeepsGuardInv, <1>1, PTL DEF Spec

-----------------------------------------------------------------------------
(* Text that is not the user's.  A string differs from what came only if    *)
(* it was on the list of the strings to mask, which has nothing but strings *)
(* that are reached, and is made only when there is no dry run.            *)

\* String i of request r may be masked.
MayMask(r, i) ==
  ~snap[r].dryRun /\ (body[r].kind = "raw" \/ body[r].fields[i].role = "user")

\* String i of request r is as it came, unless it may be masked.
Kept(r, i) == out[r][i] # body[r].fields[i].text => MayMask(r, i)

KeptOf(r) ==
  \A i \in DOMAIN body[r].fields :
    /\ Kept(r, i)
    /\ i \in todo[r] => MayMask(r, i)
    /\ pc[r] \in {"idle", "called", "snapshot"} => out[r][i] = body[r].fields[i].text

AllKept == \A r \in Requests : KeptOf(r)

LEMMA ReachedIsUsers ==
  ASSUME GuardInv, NEW r \in Requests, NEW i \in DOMAIN body[r].fields,
         Reached(body[r].fields[i])
  PROVE  body[r].kind = "raw" \/ body[r].fields[i].role = "user"
<1>1. body[r] \in Bodies
  BY DEF GuardInv, TypeOK, EmptyBody
<1> QED
  BY <1>1, BodiesAssumption DEF Reached

\* The string that Mask changes is on the list, the others stay.
LEMMA MaskKeeps ==
  ASSUME GuardInv, AllKept, NEW r \in Requests, NEW i \in todo[r], Mask(r, i)
  PROVE  KeptOf(r)'
<1>1. /\ UNCHANGED <<body, snap>> /\ pc'[r] = "mask"
      /\ todo'[r] = todo[r] \ {i}
      /\ \A j \in DOMAIN body[r].fields : j # i => out'[r][j] = out[r][j]
  BY DEF Mask, GuardInv, TypeOK, Indexed
<1>2. \A j \in DOMAIN body[r].fields : Kept(r, j) /\ (j \in todo[r] => MayMask(r, j))
  BY DEF AllKept, KeptOf
<1>3. \A j \in DOMAIN body[r].fields : MayMask(r, j)' <=> MayMask(r, j)
  BY <1>1 DEF MayMask
<1>4. \A j \in DOMAIN body[r].fields : Kept(r, j)'
  BY <1>1, <1>2, <1>3 DEF Kept
<1> QED
  BY <1>1, <1>2, <1>3, <1>4 DEF KeptOf

LEMMA RequestKeepsKept ==
  ASSUME GuardInv, AllKept, NEW r \in Requests, Call(r) \/ Apply(r)
  PROVE  AllKept'
<1> USE DEF GuardInv, TypeOK, Indexed
<1>1. \A q \in Requests \ {r} : KeptOf(q)'
  <2>1. \A q \in Requests \ {r} :
          UNCHANGED <<pc[q], body[q], snap[q], todo[q], out[q]>>
    BY SMTT(30) DEF Apply, Call, RLock, Snapshot, DryRun, MaskOne, Mask, Return, local
  <2> QED
    BY <2>1 DEF AllKept, KeptOf, Kept, MayMask
<1>2. KeptOf(r)'
  <2>1. CASE Call(r)
    BY <2>1 DEF Call, TextsOf, KeptOf, Kept
  <2>2. CASE RLock(r)
    BY <2>2 DEF RLock, local, AllKept, KeptOf, Kept, MayMask
  <2>3. CASE Snapshot(r)
    <3>1. /\ pc[r] = "snapshot" /\ UNCHANGED <<body, out>>
          /\ ~snap'[r].dryRun /\ pc'[r] = "mask"
          /\ \A i \in todo'[r] : Reached(body[r].fields[i])
      BY <2>3 DEF Snapshot
    <3>2. \A i \in DOMAIN body[r].fields : out'[r][i] = body'[r].fields[i].text
      BY <3>1 DEF AllKept, KeptOf
    <3>3. \A i \in DOMAIN body[r].fields : i \in todo'[r] => MayMask(r, i)'
      BY <3>1, ReachedIsUsers DEF MayMask
    <3> QED
      BY <3>1, <3>2, <3>3 DEF KeptOf, Kept
  <2>4. CASE DryRun(r)
    BY <2>4 DEF DryRun, AllKept, KeptOf, Kept
  <2>5. CASE MaskOne(r)
    BY <2>5, MaskKeeps DEF MaskOne
  <2>6. CASE Return(r)
    BY <2>6 DEF Return, AllKept, KeptOf, Kept, MayMask
  <2> QED
    BY <2>1, <2>2, <2>3, <2>4, <2>5, <2>6 DEF Apply
<1> QED
  BY <1>1, <1>2 DEF AllKept

LEMMA NextKeepsKept == GuardInv /\ AllKept /\ [Next]_vars => AllKept'
<1> SUFFICES ASSUME GuardInv, AllKept, [Next]_vars PROVE AllKept'
  OBVIOUS
<1>1. CASE Lock \/ Update \/ UNCHANGED vars
  <2>1. UNCHANGED <<pc, body, snap, todo, out>>
    BY <1>1 DEF Lock, Update, UpdateConfig, vars, local
  <2> QED
    BY <2>1 DEF AllKept, KeptOf, Kept, MayMask
<1> QED
  BY <1>1, RequestKeepsKept DEF Next

\* Whatever scanner, updates and bodies there are, nothing but user text, and
\* a body that is no JSON object, is ever changed, and nothing in a dry run.
THEOREM OnlyUserTextIsMasked == Spec => []OnlyUserTextMasked
<1>1. Init => AllKept
  BY DEF Init, EmptyBody, AllKept, KeptOf, Kept
<1>2. GuardInv /\ AllKept => OnlyUserTextMasked
  BY DEF GuardInv, TypeOK, AllKept, KeptOf, Kept, MayMask, OnlyUserTextMasked
<1> QED
  BY InitGuardInv, NextKeepsGuardInv, NextKeepsKept, <1>1, <1>2, PTL DEF Spec

-----------------------------------------------------------------------------
(***************************************************************************)
(* The summary.  At every moment the findings collected are an account of  *)
(* the strings as they are: a string is masked once, and what its scan      *)
(* reports is what the scan replaced.                                      *)
(***************************************************************************)

Findings == [type : Types, placeholder : Types \X Nat]

\* The places of the placeholders in the strings o, and their names.
Replaced(o) == UNION {{<<i, q>> : q \in Spots(o[i])} : i \in DOMAIN o}

Names(o) == {o[x[1]][x[2]] : x \in Replaced(o)}

\* The findings fs are those replaced in the text.
Reported(text, fs) ==
  /\ fs \in Seq(Findings)
  /\ \A k \in DOMAIN fs : fs[k].type = fs[k].placeholder[1]
  /\ IsFiniteSet(DOMAIN text) /\ Cardinality(Spots(text)) = Len(fs)
  /\ {text[q] : q \in Spots(text)} = UniquePlaceholders(fs)

\* The findings fs are those replaced in the strings o.
AccountOf(o, fs) ==
  /\ fs \in Seq(Findings)
  /\ \A k \in DOMAIN fs : fs[k].type = fs[k].placeholder[1]
  /\ IsFiniteSet(Replaced(o)) /\ Cardinality(Replaced(o)) = Len(fs)
  /\ Names(o) = UniquePlaceholders(fs)

\* The summary s is right for the strings o.
Fits(o, s) ==
  /\ s.count = Cardinality(Replaced(o))
  /\ s.placeholders = Names(o)
  /\ {t \in Types : s.types[t] > 0} = {p[1] : p \in Names(o)}

LEMMA ReplacedAre ==
  ASSUME NEW o
  PROVE  /\ \A x : x \in Replaced(o) <=>
                     \E i \in DOMAIN o : \E q \in Spots(o[i]) : x = <<i, q>>
         /\ \A n : n \in Names(o) <=>
                     \E i \in DOMAIN o : \E q \in Spots(o[i]) : n = o[i][q]
<1>1. \A x : x \in Replaced(o) <=> \E i \in DOMAIN o : \E q \in Spots(o[i]) : x = <<i, q>>
  BY DEF Replaced
<1>2. ASSUME NEW n
      PROVE  n \in Names(o) <=> \E i \in DOMAIN o : \E q \in Spots(o[i]) : n = o[i][q]
  <2>1. ASSUME NEW i \in DOMAIN o, NEW q \in Spots(o[i]), n = o[i][q] PROVE n \in Names(o)
    <3>1. <<i, q>> \in Replaced(o) /\ <<i, q>>[1] = i /\ <<i, q>>[2] = q
      BY <1>1
    <3> QED BY <2>1, <3>1 DEF Names
  <2>2. ASSUME n \in Names(o)
        PROVE  \E i \in DOMAIN o : \E q \in Spots(o[i]) : n = o[i][q]
    <3>1. PICK x \in Replaced(o) : n = o[x[1]][x[2]]
      BY <2>2 DEF Names
    <3>2. \E i \in DOMAIN o : \E q \in Spots(o[i]) : x = <<i, q>>
      BY <1>1
    <3>3. PICK i \in DOMAIN o : \E q \in Spots(o[i]) : x = <<i, q>>
      BY <3>2
    <3>4. PICK q \in Spots(o[i]) : x = <<i, q>>
      BY <3>3
    <3>5. x[1] = i /\ x[2] = q
      BY <3>4
    <3> QED BY <3>1, <3>5
  <2> QED BY <2>1, <2>2
<1> QED BY <1>1, <1>2

\* Strings without placeholders.
LEMMA NothingReplaced ==
  ASSUME NEW o, \A i \in DOMAIN o : Spots(o[i]) = {}
  PROVE  Replaced(o) = {} /\ Names(o) = {} /\ AccountOf(o, <<>>)
<1>1. Replaced(o) = {} /\ Names(o) = {}
  BY ReplacedAre
<1>2. UniquePlaceholders(<<>>) = {}
  BY DEF UniquePlaceholders
<1> QED BY <1>1, <1>2, FS_EmptySet DEF AccountOf

LEMMA PlaceholdersOfBoth ==
  ASSUME NEW f, NEW g, NEW h,
         \A k \in DOMAIN f : \E j \in DOMAIN h : h[j] = f[k],
         \A k \in DOMAIN g : \E j \in DOMAIN h : h[j] = g[k],
         \A k \in DOMAIN h : \/ \E j \in DOMAIN f : h[k] = f[j]
                            \/ \E j \in DOMAIN g : h[k] = g[j]
  PROVE  UniquePlaceholders(h) = UniquePlaceholders(f) \cup UniquePlaceholders(g)
  BY DEF UniquePlaceholders

\* One more string is masked: its findings are added to the others.
LEMMA AccountGrows ==
  ASSUME NEW o, NEW i \in DOMAIN o, NEW fs, AccountOf(o, fs), Spots(o[i]) = {},
         NEW text, NEW more, Reported(text, more),
         NEW o2, DOMAIN o2 = DOMAIN o, o2[i] = text, \A j \in DOMAIN o \ {i} : o2[j] = o[j]
  PROVE  AccountOf(o2, fs \o more)
<1> DEFINE new == {<<i, q>> : q \in Spots(text)}
<1>0. /\ IsFiniteSet(Spots(text)) /\ Cardinality(Spots(text)) = Len(more)
      /\ more \in Seq(Findings)
      /\ \A k \in DOMAIN more : more[k].type = more[k].placeholder[1]
      /\ {text[q] : q \in Spots(text)} = UniquePlaceholders(more)
  BY FS_Subset DEF Reported, Spots
<1>1. Replaced(o2) = Replaced(o) \cup new /\ Replaced(o) \cap new = {}
  <2>1. ASSUME NEW x \in Replaced(o) PROVE x \in Replaced(o2) /\ x \notin new
    <3>1. PICK j \in DOMAIN o : \E q \in Spots(o[j]) : x = <<j, q>>
      BY ReplacedAre
    <3>2. j # i /\ o2[j] = o[j]
      BY <3>1
    <3> QED BY <3>1, <3>2, ReplacedAre
  <2>2. ASSUME NEW x \in new PROVE x \in Replaced(o2)
    BY <2>2, ReplacedAre
  <2>3. ASSUME NEW x \in Replaced(o2) PROVE x \in Replaced(o) \cup new
    <3>1. PICK j \in DOMAIN o2 : \E q \in Spots(o2[j]) : x = <<j, q>>
      BY ReplacedAre
    <3>2. CASE j = i
      BY <3>1, <3>2
    <3>3. CASE j # i
      BY <3>1, <3>3, ReplacedAre
    <3> QED BY <3>2, <3>3
  <2> QED BY <2>1, <2>2, <2>3
<1>2. IsFiniteSet(new) /\ Cardinality(new) = Len(more)
  <2>1. [q \in Spots(text) |-> <<i, q>>] \in Bijection(Spots(text), new)
    BY DEF Bijection, Injection, Surjection, IsInjective
  <2> QED BY <1>0, <2>1, FS_Bijection DEF ExistsBijection
<1> HIDE DEF new
<1>3. IsFiniteSet(Replaced(o2)) /\ Cardinality(Replaced(o2)) = Len(fs) + Len(more)
  <2>1. /\ IsFiniteSet(Replaced(o2))
        /\ Cardinality(Replaced(o2)) = Len(fs) + Len(more) - Cardinality({})
    BY <1>1, <1>2, FS_Union DEF AccountOf
  <2>2. Len(fs) \in Nat /\ Len(more) \in Nat /\ Cardinality({}) = 0
    BY <1>0, FS_EmptySet DEF AccountOf
  <2> QED BY <2>1, <2>2
<1>4. /\ fs \o more \in Seq(Findings) /\ Len(fs \o more) = Len(fs) + Len(more)
      /\ \A k \in DOMAIN fs : k \in DOMAIN (fs \o more) /\ (fs \o more)[k] = fs[k]
      /\ \A k \in DOMAIN more : /\ Len(fs) + k \in DOMAIN (fs \o more)
                                /\ (fs \o more)[Len(fs) + k] = more[k]
      /\ \A k \in DOMAIN (fs \o more) :
           \/ k \in DOMAIN fs
           \/ k - Len(fs) \in DOMAIN more /\ (fs \o more)[k] = more[k - Len(fs)]
  BY <1>0 DEF AccountOf
<1>5. \A k \in DOMAIN (fs \o more) : (fs \o more)[k].type = (fs \o more)[k].placeholder[1]
  BY <1>0, <1>4 DEF AccountOf
<1>6. UniquePlaceholders(fs \o more) = UniquePlaceholders(fs) \cup UniquePlaceholders(more)
  <2>1. \A k \in DOMAIN more : \E j \in DOMAIN (fs \o more) : (fs \o more)[j] = more[k]
    BY <1>4
  <2>2. \A k \in DOMAIN (fs \o more) :
           \/ \E j \in DOMAIN fs : (fs \o more)[k] = fs[j]
           \/ \E j \in DOMAIN more : (fs \o more)[k] = more[j]
    BY <1>4
  <2>3. \A k \in DOMAIN fs : \E j \in DOMAIN (fs \o more) : (fs \o more)[j] = fs[k]
    BY <1>4
  <2> QED BY <2>1, <2>2, <2>3, PlaceholdersOfBoth, Zenon
<1>7. Names(o2) = Names(o) \cup {text[q] : q \in Spots(text)}
  <2>1. ASSUME NEW n \in Names(o) PROVE n \in Names(o2)
    <3>1. PICK j \in DOMAIN o : \E q \in Spots(o[j]) : n = o[j][q]
      BY ReplacedAre
    <3>2. o2[j] = o[j] /\ j \in DOMAIN o2
      BY <3>1
    <3> QED BY <3>1, <3>2, ReplacedAre
  <2>2. ASSUME NEW q \in Spots(text) PROVE text[q] \in Names(o2)
    BY ReplacedAre
  <2>3. ASSUME NEW n \in Names(o2) PROVE n \in Names(o) \cup {text[q] : q \in Spots(text)}
    <3>1. PICK j \in DOMAIN o2 : \E q \in Spots(o2[j]) : n = o2[j][q]
      BY ReplacedAre
    <3>2. CASE j = i
      BY <3>1, <3>2
    <3>3. CASE j # i
      BY <3>1, <3>3, ReplacedAre
    <3> QED BY <3>2, <3>3
  <2> QED BY <2>1, <2>2, <2>3
<1> QED BY <1>0, <1>3, <1>4, <1>5, <1>6, <1>7 DEF AccountOf

\* An account is of the strings, however the function is written.
LEMMA AccountStays ==
  ASSUME NEW o, NEW fs, AccountOf(o, fs),
         NEW o2, DOMAIN o2 = DOMAIN o, \A i \in DOMAIN o : o2[i] = o[i]
  PROVE  AccountOf(o2, fs)
<1>1. Replaced(o2) = Replaced(o)
  <2>1. \A x : x \in Replaced(o2) <=> x \in Replaced(o)
    BY ReplacedAre
  <2> QED BY <2>1
<1>2. Names(o2) = Names(o)
  <2>1. \A n : n \in Names(o2) <=> n \in Names(o)
    BY ReplacedAre
  <2> QED BY <2>1
<1> QED BY <1>1, <1>2 DEF AccountOf

\* A summary made of such an account fits.
LEMMA SummaryFits ==
  ASSUME NEW o, NEW fs, AccountOf(o, fs),
         NEW types \in {FindingTypes(fs), UniqueFindingTypes(fs)}
  PROVE  Fits(o, Summary(fs, types))
<1>1. ASSUME NEW t \in Types
      PROVE  Count(fs, t) \in Nat /\ (Count(fs, t) > 0 <=> \E k \in DOMAIN fs : fs[k].type = t)
  <2> DEFINE those == {k \in DOMAIN fs : fs[k].type = t}
  <2>1. DOMAIN fs = 1 .. Len(fs) /\ Len(fs) \in Nat
    BY DEF AccountOf
  <2>2. IsFiniteSet(1 .. Len(fs)) /\ those \subseteq 1 .. Len(fs)
    BY <2>1, FS_Interval
  <2>3. IsFiniteSet(those)
    BY <2>2, FS_Subset
  <2>4. Cardinality(those) \in Nat /\ (Cardinality(those) = 0 <=> those = {})
    BY <2>3, FS_CardinalityType, FS_EmptySet
  <2> QED BY <2>4 DEF Count
<1>2. \A t \in Types : types[t] > 0 <=> \E k \in DOMAIN fs : fs[k].type = t
  BY <1>1 DEF FindingTypes, UniqueFindingTypes
<1>3. \A k \in DOMAIN fs : fs[k].type \in Types /\ fs[k].type = fs[k].placeholder[1]
  <2>1. \A k \in DOMAIN fs : fs[k] \in Findings /\ fs[k].type = fs[k].placeholder[1]
    BY DEF AccountOf
  <2> QED BY <2>1 DEF Findings
<1>4. {t \in Types : types[t] > 0} = {p[1] : p \in UniquePlaceholders(fs)}
  BY <1>2, <1>3 DEF UniquePlaceholders
<1> QED BY <1>4 DEF Fits, Summary, AccountOf

\* What the summary of request r is made of, and how it came out.
Accounted(r) ==
  /\ pc[r] # "done" => AccountOf(out[r], found[r]) /\ summary[r] = EmptySummary
  /\ pc[r] = "idle" => found[r] = <<>>
  /\ pc[r] \in {"called", "snapshot"} =>
       \A i \in DOMAIN body[r].fields : out[r][i] = body[r].fields[i].text
  /\ \A i \in todo[r] : out[r][i] = body[r].fields[i].text
  /\ pc[r] = "done" /\ ~snap[r].dryRun => Fits(out[r], summary[r])

AccountInv ==
  /\ DOMAIN found = Requests /\ DOMAIN summary = Requests
  /\ \A r \in Requests : Accounted(r)

\* No string comes with placeholders.
LEMMA PlainTexts ==
  ASSUME GuardInv, NEW b \in Bodies, NEW i \in DOMAIN b.fields
  PROVE  Spots(b.fields[i].text) = {}
  BY ScanAssumption DEF GuardInv, TypeOK

LEMMA MaskAccounts ==
  ASSUME GuardInv, AccountInv, NEW r \in Requests, NEW i \in todo[r], Mask(r, i)
  PROVE  Accounted(r)'
<1> DEFINE text == body[r].fields[i].text
           scan == Scan(cfg.detectors, text, cfg.whitelist)
<1>1. /\ body[r] \in Bodies /\ i \in DOMAIN body[r].fields
      /\ cfg \in GuardConfigs /\ scanner = cfg.detectors
      /\ DOMAIN out[r] = DOMAIN body[r].fields /\ DOMAIN out = Requests
      /\ DOMAIN pc = Requests /\ DOMAIN todo = Requests
  BY DEF GuardInv, TypeOK, Indexed, ScannerFits, EmptyBody
<1>2. Reported(scan.text, scan.findings) /\ Spots(text) = {}
  BY <1>1, ScanAssumption, ZenonT(60) DEF Reported, Findings, UniquePlaceholders
<1>3. /\ pc[r] = "scan" /\ pc'[r] = "mask"
      /\ out' = [out EXCEPT ![r][i] = scan.text]
      /\ todo'[r] = todo[r] \ {i} /\ UNCHANGED <<body, summary>>
      /\ found' = IF body[r].kind = "json" /\ scan.text = text
                  THEN found ELSE [found EXCEPT ![r] = found[r] \o scan.findings]
  BY <1>1 DEF Mask, Collect
<1> HIDE DEF scan
<1>4. /\ out[r][i] = text /\ AccountOf(out[r], found[r]) /\ summary[r] = EmptySummary
      /\ \A j \in todo[r] : out[r][j] = body[r].fields[j].text
  BY <1>3 DEF AccountInv, Accounted
<1>5. /\ DOMAIN out'[r] = DOMAIN out[r] /\ out'[r][i] = scan.text
      /\ \A j \in DOMAIN out[r] \ {i} : out'[r][j] = out[r][j]
  BY <1>1, <1>3
<1>6. AccountOf(out'[r], found'[r])
  <2>1. CASE body[r].kind = "json" /\ scan.text = text
    <3>1. found' = found /\ \A j \in DOMAIN out[r] : out'[r][j] = out[r][j]
      BY <1>3, <1>4, <1>5, <2>1
    <3> QED BY <1>4, <1>5, <3>1, AccountStays
  <2>2. CASE ~(body[r].kind = "json" /\ scan.text = text)
    <3>1. found'[r] = found[r] \o scan.findings
      BY <1>3, <2>2 DEF AccountInv
    <3>3. Spots(out[r][i]) = {} /\ i \in DOMAIN out[r]
      BY <1>1, <1>2, <1>4
    <3>4. AccountOf(out'[r], found[r] \o scan.findings)
      BY <1>2, <1>4, <1>5, <3>3, AccountGrows
    <3> QED BY <3>1, <3>4
  <2> QED BY <2>1, <2>2
<1>7. \A j \in todo'[r] : out'[r][j] = body'[r].fields[j].text
  <2>1. todo[r] \subseteq DOMAIN out[r]
    BY DEF GuardInv, TypeOK
  <2> QED BY <1>3, <1>4, <1>5, <2>1
<1> QED BY <1>3, <1>4, <1>6, <1>7 DEF Accounted

LEMMA RequestKeepsAccount ==
  ASSUME GuardInv, AccountInv, NEW r \in Requests, Call(r) \/ Apply(r)
  PROVE  AccountInv'
<1>a. /\ DOMAIN pc = Requests /\ DOMAIN body = Requests /\ DOMAIN snap = Requests
      /\ DOMAIN todo = Requests /\ DOMAIN out = Requests
      /\ DOMAIN found = Requests /\ DOMAIN summary = Requests
  BY DEF GuardInv, TypeOK, Indexed, AccountInv
<1>b. Accounted(r)
  BY DEF AccountInv
<1>1. /\ DOMAIN found' = Requests /\ DOMAIN summary' = Requests
      /\ \A q \in Requests \ {r} :
           UNCHANGED <<pc[q], body[q], snap[q], todo[q], out[q], found[q], summary[q]>>
  BY <1>a DEF Apply, Call, RLock, Snapshot, DryRun, MaskOne, Mask, Return, local
<1>2. \A q \in Requests \ {r} : Accounted(q)'
  BY <1>1 DEF AccountInv, Accounted
<1>3. CASE Call(r)
  <2>1. PICK b \in Bodies : /\ body'[r] = b /\ out'[r] = TextsOf(b)
                            /\ pc'[r] = IF b.kind = "empty" THEN "done" ELSE "called"
    BY <1>3, <1>a DEF Call
  <2>2. pc[r] = "idle" /\ UNCHANGED <<found, summary, todo>>
    BY <1>3 DEF Call
  <2>3. found[r] = <<>> /\ summary[r] = EmptySummary /\ todo[r] = {}
    BY <1>b, <2>2 DEF Accounted, GuardInv, TypeOK
  <2>4. \A i \in DOMAIN TextsOf(b) : Spots(TextsOf(b)[i]) = {}
    BY PlainTexts DEF TextsOf
  <2>5. Replaced(out'[r]) = {} /\ Names(out'[r]) = {} /\ AccountOf(out'[r], <<>>)
    BY <2>1, <2>4, NothingReplaced
  <2>6. Fits(out'[r], EmptySummary)
    BY <2>5, FS_EmptySet DEF Fits, EmptySummary
  <2>7. \A i \in DOMAIN b.fields : out'[r][i] = b.fields[i].text
    BY <2>1 DEF TextsOf
  <2>8. Accounted(r)'
    BY <2>1, <2>2, <2>3, <2>5, <2>6, <2>7 DEF Accounted
  <2> QED BY <1>1, <1>2, <2>8 DEF AccountInv
<1>4. CASE RLock(r)
  <2>1. /\ UNCHANGED <<body, snap, todo, out, found, summary>>
        /\ pc[r] \in {"called", "mask"} /\ pc'[r] \in {"snapshot", "scan"}
        /\ pc[r] = "mask" => pc'[r] = "scan"
    BY <1>4, <1>a DEF RLock, local
  <2>2. Accounted(r)'
    BY <1>b, <2>1 DEF Accounted
  <2> QED BY <1>1, <1>2, <2>2 DEF AccountInv
<1>5. CASE Snapshot(r)
  <2>1. /\ UNCHANGED <<body, out, found, summary>>
        /\ pc[r] = "snapshot" /\ pc'[r] = "mask" /\ todo'[r] \subseteq DOMAIN body[r].fields
    BY <1>5, <1>a DEF Snapshot
  <2>2. Accounted(r)'
    BY <1>b, <2>1 DEF Accounted
  <2> QED BY <1>1, <1>2, <2>2 DEF AccountInv
<1>6. CASE DryRun(r)
  <2>1. UNCHANGED <<body, todo, out>> /\ pc'[r] = "done" /\ snap'[r].dryRun
    BY <1>6, <1>a DEF DryRun
  <2>2. Accounted(r)'
    BY <1>b, <2>1 DEF Accounted
  <2> QED BY <1>1, <1>2, <2>2 DEF AccountInv
<1>7. CASE MaskOne(r)
  BY <1>1, <1>2, <1>7, MaskAccounts DEF MaskOne, AccountInv
<1>8. CASE Return(r)
  <2>1. /\ UNCHANGED <<body, snap, todo, out, found>>
        /\ pc[r] = "mask" /\ pc'[r] = "done"
        /\ \E types \in {FindingTypes(found[r]), UniqueFindingTypes(found[r])} :
             summary'[r] = Summary(found[r], types)
    BY <1>8, <1>a DEF Return
  <2>2. AccountOf(out[r], found[r])
    BY <1>b, <2>1 DEF Accounted
  <2>3. Fits(out[r], summary'[r])
    BY <2>1, <2>2, SummaryFits
  <2>4. Accounted(r)'
    BY <1>b, <2>1, <2>3 DEF Accounted
  <2> QED BY <1>1, <1>2, <2>4 DEF AccountInv
<1> QED BY <1>3, <1>4, <1>5, <1>6, <1>7, <1>8 DEF Apply

LEMMA NextKeepsAccount == GuardInv /\ AccountInv /\ [Next]_vars => AccountInv'
<1> SUFFICES ASSUME GuardInv, AccountInv, [Next]_vars PROVE AccountInv'
  OBVIOUS
<1>1. CASE Lock \/ Update \/ UNCHANGED vars
  <2>1. UNCHANGED <<pc, body, snap, todo, out, found, summary>>
    BY <1>1 DEF Lock, Update, UpdateConfig, vars, local
  <2> QED BY <2>1 DEF AccountInv, Accounted
<1> QED BY <1>1, RequestKeepsAccount DEF Next

\* What the log and the metrics are told is an account of what was replaced,
\* for any bodies, updates and any scanner that keeps ScanAssumption.
THEOREM SummariesAccount == Spec => []SummaryAccountsForBody
<1>1. Init => AccountInv
  <2> SUFFICES ASSUME Init PROVE AccountInv
    OBVIOUS
  <2>1. AccountOf(<<>>, <<>>)
    BY NothingReplaced
  <2> QED BY <2>1 DEF Init, EmptyBody, AccountInv, Accounted
<1>2. AccountInv => SummaryAccountsForBody
  <2> SUFFICES ASSUME AccountInv, NEW r \in Requests, pc[r] = "done", ~snap[r].dryRun
               PROVE  /\ summary[r].count = Cardinality(Replaced(out[r]))
                      /\ summary[r].placeholders = Names(out[r])
                      /\ {t \in Types : summary[r].types[t] > 0} = {p[1] : p \in Names(out[r])}
    BY DEF SummaryAccountsForBody, Replaced, Names
  <2> QED BY DEF AccountInv, Accounted, Fits
<1> QED
  BY InitGuardInv, NextKeepsGuardInv, NextKeepsAccount, <1>1, <1>2, PTL DEF Spec

=============================================================================
