-------------------------- MODULE SigningAccounts --------------------------
(***************************************************************************)
(* What Signing guarantees about money and inputs: the amount and the fee  *)
(* the user confirms add up, whatever number of inputs and outputs the     *)
(* host streams, amounts taken from a previous transaction are the real    *)
(* ones, BIP 143 signatures stay within what phase 1 counted, and every    *)
(* signature covers the inputs that were counted.                          *)
(***************************************************************************)
EXTENDS SigningProofs, SequenceTheorems, FiniteSetTheorems,
        WellFoundedInduction

-----------------------------------------------------------------------------
(* Sums of sequences.                                                      *)

\* Induction over the natural numbers, with a set in place of a predicate.
LEMMA NatSetInduction ==
  ASSUME NEW T, 0 \in T, \A n \in Nat : n \in T => n + 1 \in T
  PROVE  Nat \subseteq T
<1> SUFFICES ASSUME Nat \ T # {} PROVE FALSE
  OBVIOUS
<1>1. \E x \in Nat \ T : \A y \in Nat \ T : ~(<<y, x>> \in OpToRel(<, Nat))
  <2>1. Nat \ T \subseteq Nat
    OBVIOUS
  <2> QED
    BY <2>1, NatLessThanWellFounded, WFMin
<1>2. \A y, x \in Nat : y < x => <<y, x>> \in OpToRel(<, Nat)
  BY DEF OpToRel
<1>3. PICK x \in Nat \ T : \A y \in Nat \ T : ~(y < x)
  BY <1>1, <1>2
<1>4. x # 0
  OBVIOUS
<1>5. x - 1 \in Nat /\ x - 1 < x /\ x - 1 + 1 = x
  BY <1>4
<1>6. x - 1 \in T
  BY <1>3, <1>5
<1> QED
  BY <1>5, <1>6

\* s holds the sums of the first 0, 1, ..., n elements of f.
PartialSums(s, f, n) == s = [i \in 0 .. n |-> IF i = 0 THEN 0 ELSE s[i - 1] + f[i]]

LEMMA PartialSumsExist ==
  ASSUME NEW f, NEW n \in Nat PROVE \E s : PartialSums(s, f, n)
<1> DEFINE T == {k \in Nat : \E s : PartialSums(s, f, k)}
<1>1. 0 \in T
  <2>1. PartialSums([i \in 0 .. 0 |-> 0], f, 0)
    BY DEF PartialSums
  <2> QED
    BY <2>1
<1>2. ASSUME NEW k \in Nat, k \in T PROVE k + 1 \in T
  <2>1. PICK s : PartialSums(s, f, k)
    BY <1>2
  <2> DEFINE t == [i \in 0 .. k + 1 |-> IF i = k + 1 THEN s[k] + f[k + 1] ELSE s[i]]
  <2>2. \A i \in 0 .. k : s[i] = IF i = 0 THEN 0 ELSE s[i - 1] + f[i]
    BY <2>1 DEF PartialSums
  <2>3. \A i \in 0 .. k : t[i] = s[i]
    OBVIOUS
  <2>4. t[k + 1] = s[k] + f[k + 1]
    OBVIOUS
  <2>5. \A i \in 0 .. k + 1 : t[i] = IF i = 0 THEN 0 ELSE t[i - 1] + f[i]
    <3> TAKE i \in 0 .. k + 1
    <3>1. CASE i = 0
      BY <2>2, <2>3, <3>1
    <3>2. CASE i = k + 1
      <4>1. i - 1 = k /\ i # 0
        BY <3>2
      <4> QED
        BY <2>3, <2>4, <3>2, <4>1
    <3>3. CASE i # 0 /\ i # k + 1
      <4>1. i \in 0 .. k /\ i - 1 \in 0 .. k
        BY <3>3
      <4> HIDE DEF t
      <4> QED
        BY <2>2, <2>3, <3>3, <4>1
    <3> QED
      BY <3>1, <3>2, <3>3
  <2>6. t = [i \in 0 .. k + 1 |-> t[i]]
    OBVIOUS
  <2>7. PartialSums(t, f, k + 1)
    <3> HIDE DEF t
    <3> QED
      BY <2>5, <2>6 DEF PartialSums
  <2> QED
    BY <2>7
<1>3. Nat \subseteq T
  <2> HIDE DEF T
  <2> QED
    BY <1>1, <1>2, NatSetInduction
<1> QED
  BY <1>3

LEMMA SumDef ==
  ASSUME NEW n \in Nat, NEW f \in [1 .. n -> Int]
  PROVE  \E s : PartialSums(s, f, n) /\ SumOf(f) = s[n]
<1>1. f \in Seq(Int) /\ Len(f) = n
  OBVIOUS
<1> DEFINE s == CHOOSE s : s = [i \in 0 .. Len(f) |-> IF i = 0 THEN 0 ELSE s[i - 1] + f[i]]
<1>2. SumOf(f) = s[Len(f)]
  BY DEF SumOf
<1>3. s = [i \in 0 .. Len(f) |-> IF i = 0 THEN 0 ELSE s[i - 1] + f[i]]
  BY <1>1, PartialSumsExist DEF PartialSums
<1> HIDE DEF s
<1>4. PartialSums(s, f, n)
  BY <1>1, <1>3 DEF PartialSums
<1> QED
  BY <1>1, <1>2, <1>4

LEMMA PartialSumsStep ==
  ASSUME NEW n \in Nat, NEW f, NEW s, PartialSums(s, f, n)
  PROVE  s[0] = 0 /\ \A i \in 0 .. n - 1 : s[i + 1] = s[i] + f[i + 1]
<1>1. \A i \in 0 .. n : s[i] = IF i = 0 THEN 0 ELSE s[i - 1] + f[i]
  BY DEF PartialSums
<1>2. 0 \in 0 .. n
  OBVIOUS
<1>3. s[0] = 0
  BY <1>1, <1>2
<1>4. ASSUME NEW i \in 0 .. n - 1 PROVE s[i + 1] = s[i] + f[i + 1]
  <2>1. i + 1 \in 0 .. n /\ i + 1 # 0 /\ (i + 1) - 1 = i
    OBVIOUS
  <2> QED
    BY <1>1, <2>1
<1> QED
  BY <1>3, <1>4

\* A sum of amounts is an amount: adding natural numbers gives one.
LEMMA PartialSumsType ==
  ASSUME NEW n \in Nat, NEW f \in [1 .. n -> Int], NEW s, PartialSums(s, f, n),
         NEW N \in {Int, Nat}, \A i \in 1 .. n : f[i] \in N
  PROVE  s[n] \in N
<1> DEFINE T == {k \in Nat : k <= n => s[k] \in N}
<1>1. 0 \in T
  BY PartialSumsStep
<1>2. ASSUME NEW k \in Nat, k \in T PROVE k + 1 \in T
  <2> SUFFICES ASSUME k + 1 <= n PROVE s[k + 1] \in N
    OBVIOUS
  <2>1. k \in 0 .. n - 1 /\ k + 1 \in 1 .. n /\ s[k] \in N /\ f[k + 1] \in N
    BY <1>2
  <2>2. s[k + 1] = s[k] + f[k + 1]
    BY <2>1, PartialSumsStep
  <2> QED
    BY <2>1, <2>2
<1>3. Nat \subseteq T
  <2> HIDE DEF T
  <2> QED
    BY <1>1, <1>2, NatSetInduction
<1> QED
  BY <1>3

LEMMA SumType ==
  ASSUME NEW n \in Nat, NEW f \in [1 .. n -> Int]
  PROVE  /\ SumOf(f) \in Int
         /\ (\A i \in 1 .. n : f[i] \in Nat) => SumOf(f) \in Nat
  BY SumDef, PartialSumsType

LEMMA SumEmpty == ASSUME NEW f \in [1 .. 0 -> Int] PROVE SumOf(f) = 0
  BY SumDef, PartialSumsStep

\* One element more adds itself to the sum.
LEMMA SumExtends ==
  ASSUME NEW n \in Nat, NEW f \in [1 .. n -> Int], NEW g \in [1 .. n + 1 -> Int],
         \A i \in 1 .. n : g[i] = f[i]
  PROVE  SumOf(g) = SumOf(f) + g[n + 1]
<1>1. PICK s : PartialSums(s, f, n) /\ SumOf(f) = s[n]
  BY SumDef
<1>2. n + 1 \in Nat
  OBVIOUS
<1>3. PICK t : PartialSums(t, g, n + 1) /\ SumOf(g) = t[n + 1]
  BY SumDef, <1>2
<1>4. s[0] = 0 /\ \A i \in 0 .. n - 1 : s[i + 1] = s[i] + f[i + 1]
  BY <1>1, PartialSumsStep
<1>5. t[0] = 0 /\ \A i \in 0 .. n : t[i + 1] = t[i] + g[i + 1]
  <2>1. (n + 1) - 1 = n
    OBVIOUS
  <2> QED
    BY <1>2, <1>3, <2>1, PartialSumsStep
<1> DEFINE T == {k \in Nat : k <= n => s[k] = t[k]}
<1>6. 0 \in T
  BY <1>4, <1>5
<1>7. ASSUME NEW k \in Nat, k \in T PROVE k + 1 \in T
  <2> SUFFICES ASSUME k + 1 <= n PROVE s[k + 1] = t[k + 1]
    OBVIOUS
  <2>1. k \in 0 .. n - 1 /\ k \in 0 .. n /\ k + 1 \in 1 .. n /\ s[k] = t[k]
    BY <1>7
  <2>2. g[k + 1] = f[k + 1]
    BY <2>1
  <2> QED
    BY <1>4, <1>5, <2>1, <2>2
<1>8. Nat \subseteq T
  <2> HIDE DEF T
  <2> QED
    BY <1>6, <1>7, NatSetInduction
<1>9. s[n] = t[n]
  BY <1>8
<1> QED
  BY <1>1, <1>3, <1>5, <1>9

-----------------------------------------------------------------------------
(* What the amounts add up to.                                             *)

\* The sequences that are summed: all amounts, those of the outputs that were
\* shown, of the inputs that brought their amount, and of BIP 143 signatures.
AmountsOf(s) == [i \in DOMAIN s |-> s[i].amount]
Confirmed(s) == [i \in DOMAIN s |-> IF s[i].confirmed THEN s[i].amount ELSE 0]
Brought(s) == [i \in DOMAIN s |-> IF s[i].streamed THEN 0 ELSE s[i].amount]
Charged(s) == [i \in DOMAIN s |-> IF s[i].form = "bip143" THEN s[i].amount ELSE 0]
ConfirmedTotal == SumOf(Confirmed(shown))

HasAmounts(s) == \A i \in DOMAIN s : s[i].amount \in Nat

LEMMA AppendFacts ==
  ASSUME NEW s, IsSequence(s), NEW x
  PROVE  /\ Len(s) \in Nat /\ DOMAIN s = 1 .. Len(s)
         /\ DOMAIN Append(s, x) = 1 .. Len(s) + 1
         /\ \A i \in 1 .. Len(s) : Append(s, x)[i] = s[i]
         /\ Append(s, x)[Len(s) + 1] = x
         /\ IsSequence(Append(s, x))
<1>1. PICK S : s \in Seq(S)
  BY DEF IsSequence
<1>2. s \in Seq(S \cup {x}) /\ x \in S \cup {x}
  BY <1>1
<1>3. Append(s, x) \in Seq(S \cup {x})
  BY <1>2
<1>4. IsSequence(Append(s, x))
  BY <1>3 DEF IsSequence
<1> QED
  BY <1>2, <1>4

LEMMA SequenceFacts ==
  ASSUME NEW s, IsSequence(s) PROVE Len(s) \in Nat /\ DOMAIN s = 1 .. Len(s)
  BY DEF IsSequence

\* Each of the four sums grows by what the new element weighs.
LEMMA WeightAppend ==
  ASSUME NEW n \in Nat, NEW f \in [1 .. n -> Nat], NEW x \in Nat,
         NEW g, g = [i \in 1 .. n + 1 |-> IF i = n + 1 THEN x ELSE f[i]]
  PROVE  SumOf(g) = SumOf(f) + x
<1>1. g \in [1 .. n + 1 -> Int] /\ g[n + 1] = x /\ \A i \in 1 .. n : g[i] = f[i]
  OBVIOUS
<1>2. f \in [1 .. n -> Int]
  OBVIOUS
<1> QED
  BY <1>1, <1>2, SumExtends

LEMMA AmountsAppend ==
  ASSUME NEW s, IsSequence(s), HasAmounts(s), NEW x, x.amount \in Nat
  PROVE  /\ SumOf(AmountsOf(Append(s, x))) = SumOf(AmountsOf(s)) + x.amount
         /\ HasAmounts(Append(s, x))
<1> DEFINE n == Len(s)
           t == Append(s, x)
           f == AmountsOf(s)
           g == AmountsOf(t)
           w == x.amount
<1>1. /\ n \in Nat /\ DOMAIN s = 1 .. n /\ DOMAIN t = 1 .. n + 1
      /\ (\A i \in 1 .. n : t[i] = s[i]) /\ t[n + 1] = x
  BY AppendFacts
<1> HIDE DEF n, t
<1>2. f \in [1 .. n -> Nat]
  BY <1>1 DEF HasAmounts, AmountsOf
<1>3. g = [i \in 1 .. n + 1 |-> IF i = n + 1 THEN w ELSE f[i]]
  BY <1>1 DEF AmountsOf
<1>4. HasAmounts(t)
  BY <1>1 DEF HasAmounts
<1>6. w \in Nat
  OBVIOUS
<1> HIDE DEF f, g, w
<1>5. SumOf(g) = SumOf(f) + w
  BY <1>6, <1>1, <1>2, <1>3, WeightAppend
<1> QED
  BY <1>4, <1>5 DEF f, g, t, w

LEMMA ConfirmedAppend ==
  ASSUME NEW s, IsSequence(s), HasAmounts(s), NEW x, x.amount \in Nat
  PROVE  SumOf(Confirmed(Append(s, x)))
           = SumOf(Confirmed(s)) + (IF x.confirmed THEN x.amount ELSE 0)
<1> DEFINE n == Len(s)
           t == Append(s, x)
           f == Confirmed(s)
           g == Confirmed(t)
           w == IF x.confirmed THEN x.amount ELSE 0
<1>1. /\ n \in Nat /\ DOMAIN s = 1 .. n /\ DOMAIN t = 1 .. n + 1
      /\ (\A i \in 1 .. n : t[i] = s[i]) /\ t[n + 1] = x
  BY AppendFacts
<1> HIDE DEF n, t
<1>2. f \in [1 .. n -> Nat]
  BY <1>1 DEF HasAmounts, Confirmed
<1>3. g = [i \in 1 .. n + 1 |-> IF i = n + 1 THEN w ELSE f[i]]
  BY <1>1 DEF Confirmed
<1>4. w \in Nat
  OBVIOUS
<1> HIDE DEF f, g, w
<1>5. SumOf(g) = SumOf(f) + w
  BY <1>1, <1>2, <1>3, <1>4, WeightAppend
<1> QED
  BY <1>5 DEF f, g, t, w

LEMMA BroughtAppend ==
  ASSUME NEW s, IsSequence(s), HasAmounts(s), NEW x, x.amount \in Nat
  PROVE  SumOf(Brought(Append(s, x)))
           = SumOf(Brought(s)) + (IF x.streamed THEN 0 ELSE x.amount)
<1> DEFINE n == Len(s)
           t == Append(s, x)
           f == Brought(s)
           g == Brought(t)
           w == IF x.streamed THEN 0 ELSE x.amount
<1>1. /\ n \in Nat /\ DOMAIN s = 1 .. n /\ DOMAIN t = 1 .. n + 1
      /\ (\A i \in 1 .. n : t[i] = s[i]) /\ t[n + 1] = x
  BY AppendFacts
<1> HIDE DEF n, t
<1>2. f \in [1 .. n -> Nat]
  BY <1>1 DEF HasAmounts, Brought
<1>3. g = [i \in 1 .. n + 1 |-> IF i = n + 1 THEN w ELSE f[i]]
  BY <1>1 DEF Brought
<1>4. w \in Nat
  OBVIOUS
<1> HIDE DEF f, g, w
<1>5. SumOf(g) = SumOf(f) + w
  BY <1>1, <1>2, <1>3, <1>4, WeightAppend
<1> QED
  BY <1>5 DEF f, g, t, w

LEMMA ChargedAppend ==
  ASSUME NEW s, IsSequence(s), HasAmounts(s), NEW x, x.amount \in Nat
  PROVE  SumOf(Charged(Append(s, x)))
           = SumOf(Charged(s)) + (IF x.form = "bip143" THEN x.amount ELSE 0)
<1> DEFINE n == Len(s)
           t == Append(s, x)
           f == Charged(s)
           g == Charged(t)
           w == IF x.form = "bip143" THEN x.amount ELSE 0
<1>1. /\ n \in Nat /\ DOMAIN s = 1 .. n /\ DOMAIN t = 1 .. n + 1
      /\ (\A i \in 1 .. n : t[i] = s[i]) /\ t[n + 1] = x
  BY AppendFacts
<1> HIDE DEF n, t
<1>2. f \in [1 .. n -> Nat]
  BY <1>1 DEF HasAmounts, Charged
<1>3. g = [i \in 1 .. n + 1 |-> IF i = n + 1 THEN w ELSE f[i]]
  BY <1>1 DEF Charged
<1>4. w \in Nat
  OBVIOUS
<1> HIDE DEF f, g, w
<1>5. SumOf(g) = SumOf(f) + w
  BY <1>1, <1>2, <1>3, <1>4, WeightAppend
<1> QED
  BY <1>5 DEF f, g, t, w

\* Sums of amounts are not negative, and of nothing zero.
LEMMA SumsOfAmounts ==
  ASSUME NEW s, IsSequence(s), HasAmounts(s)
  PROVE  /\ SumOf(AmountsOf(s)) \in Nat /\ SumOf(Confirmed(s)) \in Nat
         /\ SumOf(Brought(s)) \in Nat /\ SumOf(Charged(s)) \in Nat
<1>1. Len(s) \in Nat /\ DOMAIN s = 1 .. Len(s)
  BY SequenceFacts
<1>2. /\ AmountsOf(s) \in [1 .. Len(s) -> Nat] /\ Confirmed(s) \in [1 .. Len(s) -> Nat]
      /\ Brought(s) \in [1 .. Len(s) -> Nat] /\ Charged(s) \in [1 .. Len(s) -> Nat]
  BY <1>1 DEF HasAmounts, AmountsOf, Confirmed, Brought, Charged
<1>3. ASSUME NEW f \in [1 .. Len(s) -> Nat] PROVE SumOf(f) \in Nat
  <2>1. f \in [1 .. Len(s) -> Int] /\ \A i \in 1 .. Len(s) : f[i] \in Nat
    OBVIOUS
  <2> QED
    BY <1>1, <2>1, SumType
<1> QED
  BY <1>2, <1>3

LEMMA SumsOfNothing ==
  /\ SumOf(AmountsOf(<<>>)) = 0 /\ SumOf(Confirmed(<<>>)) = 0
  /\ SumOf(Brought(<<>>)) = 0 /\ SumOf(Charged(<<>>)) = 0
<1>1. DOMAIN << >> = 1 .. 0 /\ 1 .. 0 = {}
  OBVIOUS
<1>2. /\ AmountsOf(<<>>) \in [1 .. 0 -> Int] /\ Confirmed(<<>>) \in [1 .. 0 -> Int]
      /\ Brought(<<>>) \in [1 .. 0 -> Int] /\ Charged(<<>>) \in [1 .. 0 -> Int]
  BY <1>1 DEF AmountsOf, Confirmed, Brought, Charged
<1> QED
  BY <1>2, SumEmpty

\* The running sums of the firmware are the sums of what was streamed, none of
\* them wrapped, and what was confirmed was computed from them.
MoneyInv ==
  /\ IsSequence(ledger) /\ HasAmounts(ledger)
  /\ HasAmounts(shown) /\ HasAmounts(sigs)
  /\ to_spend = SumOf(AmountsOf(ledger))
  /\ spending = SumOf(AmountsOf(shown))
  /\ change_spend + SumOf(Confirmed(shown)) = spending
  /\ authorized_amount + SumOf(Charged(sigs)) = SumOf(Brought(ledger))
  /\ SumOf(Brought(ledger)) <= to_spend
  /\ approved # NotApproved =>
       /\ approved.outs = ShownOuts
       /\ spending <= to_spend
       /\ approved.fee = to_spend - spending
       /\ approved.amount = to_spend - change_spend

\* The kinds of steps, as far as money is concerned.
Still == UNCHANGED <<to_spend, authorized_amount, spending, change_spend,
                     shown, ledger, approved, sigs>>

Resets ==
  /\ to_spend' = 0 /\ authorized_amount' = 0 /\ spending' = 0 /\ change_spend' = 0
  /\ shown' = <<>> /\ ledger' = <<>> /\ approved' = NotApproved /\ sigs' = <<>>

Counts ==
  /\ approved = NotApproved
  /\ \E e : /\ e.amount \in Nat
            /\ ledger' = Append(ledger, e)
            /\ to_spend' = to_spend + e.amount
            /\ authorized_amount' = authorized_amount + (IF e.streamed THEN 0 ELSE e.amount)
  /\ UNCHANGED <<spending, change_spend, shown, approved, sigs>>

Shows ==
  /\ approved = NotApproved
  /\ \E x \in ShownOutputs :
       /\ shown' = Append(shown, x)
       /\ spending' = spending + x.amount
       /\ change_spend' = change_spend + (IF x.confirmed THEN 0 ELSE x.amount)
  /\ \/ approved' = approved
     \/ /\ approved'.outs = ShownOuts'
        /\ spending' <= to_spend
        /\ approved'.fee = to_spend - spending'
        /\ approved'.amount = to_spend - change_spend'
  /\ UNCHANGED <<to_spend, authorized_amount, ledger, sigs>>

Releases ==
  /\ \E s : /\ s.amount \in Nat
            /\ sigs' = Append(sigs, s)
            /\ authorized_amount'
                 = authorized_amount - (IF s.form = "bip143" THEN s.amount ELSE 0)
  /\ UNCHANGED <<to_spend, spending, change_spend, shown, ledger, approved>>

LEMMA MoneyTypes ==
  ASSUME TypeOK, ApprovalInv
  PROVE  /\ to_spend \in Nat /\ authorized_amount \in Nat /\ spending \in Nat
         /\ change_spend \in Nat /\ to_spend < AmountMod /\ spending < AmountMod
         /\ IsSequence(shown) /\ IsSequence(sigs)
<1>1. to_spend \in Amounts /\ authorized_amount \in Amounts /\ spending \in Amounts
      /\ change_spend \in Amounts /\ IsSequence(shown)
  BY DEF TypeOK, IsSequence
<1> QED
  BY <1>1, SigningAssumption DEF Amounts, ApprovalInv

LEMMA MoneyStep ==
  ASSUME TypeOK, ApprovalInv, MoneyInv,
         Still \/ Resets \/ Counts \/ Shows \/ Releases
  PROVE  MoneyInv'
<1>0. /\ to_spend \in Nat /\ authorized_amount \in Nat /\ spending \in Nat
      /\ change_spend \in Nat /\ IsSequence(shown) /\ IsSequence(sigs)
      /\ IsSequence(ledger) /\ HasAmounts(ledger)
      /\ HasAmounts(shown) /\ HasAmounts(sigs)
  BY MoneyTypes DEF MoneyInv
<1>a. /\ SumOf(Brought(ledger)) \in Nat /\ SumOf(Charged(sigs)) \in Nat
      /\ SumOf(Confirmed(shown)) \in Nat
  BY <1>0, SumsOfAmounts
<1>1. CASE Still
  BY <1>1 DEF Still, MoneyInv, ShownOuts
<1>2. CASE Resets
  <2>1. IsSequence(<<>>)
    <3>1. <<>> \in Seq({})
      OBVIOUS
    <3> QED
      BY <3>1 DEF IsSequence
  <2>2. HasAmounts(<<>>)
    BY DEF HasAmounts
  <2> QED
    BY <1>2, <2>1, <2>2, SumsOfNothing DEF Resets, MoneyInv
<1>3. CASE Counts
  <2>1. PICK e : /\ e.amount \in Nat
                 /\ ledger' = Append(ledger, e)
                 /\ to_spend' = to_spend + e.amount
                 /\ authorized_amount' = authorized_amount + (IF e.streamed THEN 0 ELSE e.amount)
    BY <1>3 DEF Counts
  <2>2. /\ IsSequence(ledger') /\ HasAmounts(ledger')
        /\ SumOf(AmountsOf(ledger')) = SumOf(AmountsOf(ledger)) + e.amount
        /\ SumOf(Brought(ledger'))
             = SumOf(Brought(ledger)) + (IF e.streamed THEN 0 ELSE e.amount)
    BY <1>0, <2>1, AppendFacts, AmountsAppend, BroughtAppend
  <2> DEFINE n == e.amount
             w == IF e.streamed THEN 0 ELSE e.amount
  <2>3. n \in Nat /\ w \in Nat /\ w <= n
    BY <2>1
  <2>4. /\ to_spend' = to_spend + n /\ authorized_amount' = authorized_amount + w
        /\ SumOf(AmountsOf(ledger')) = SumOf(AmountsOf(ledger)) + n
        /\ SumOf(Brought(ledger')) = SumOf(Brought(ledger)) + w
    BY <2>1, <2>2
  <2>5. UNCHANGED <<spending, change_spend, shown, approved, sigs>> /\ approved = NotApproved
    BY <1>3 DEF Counts
  <2> HIDE DEF n, w
  <2>6. /\ to_spend' = SumOf(AmountsOf(ledger'))
        /\ authorized_amount' + SumOf(Charged(sigs')) = SumOf(Brought(ledger'))
        /\ SumOf(Brought(ledger')) <= to_spend'
    BY <1>0, <1>a, <2>3, <2>4, <2>5 DEF MoneyInv
  <2> QED
    BY <2>2, <2>5, <2>6 DEF MoneyInv
<1>4. CASE Shows
  <2>1. PICK x \in ShownOutputs :
          /\ shown' = Append(shown, x)
          /\ spending' = spending + x.amount
          /\ change_spend' = change_spend + (IF x.confirmed THEN 0 ELSE x.amount)
    BY <1>4 DEF Shows
  <2> DEFINE n == x.amount
             c == IF x.confirmed THEN x.amount ELSE 0
             w == IF x.confirmed THEN 0 ELSE x.amount
  <2>2. n \in Nat /\ c \in Nat /\ w \in Nat /\ c + w = n
    <3>1. x.amount \in Amounts
      BY DEF ShownOutputs
    <3>2. x.amount \in Nat
      BY <3>1, MessageTypes
    <3>3. CASE x.confirmed
      BY <3>2, <3>3
    <3>4. CASE ~x.confirmed
      BY <3>2, <3>4
    <3> QED
      BY <3>3, <3>4
  <2>3. /\ HasAmounts(shown')
        /\ SumOf(AmountsOf(shown')) = SumOf(AmountsOf(shown)) + n
        /\ SumOf(Confirmed(shown')) = SumOf(Confirmed(shown)) + c
    BY <1>0, <2>1, <2>2, AmountsAppend, ConfirmedAppend
  <2>4. spending' = spending + n /\ change_spend' = change_spend + w
    BY <2>1
  <2>5. /\ UNCHANGED <<to_spend, authorized_amount, ledger, sigs>>
        /\ approved = NotApproved
        /\ \/ approved' = approved
           \/ /\ approved'.outs = ShownOuts'
              /\ spending' <= to_spend
              /\ approved'.fee = to_spend - spending'
              /\ approved'.amount = to_spend - change_spend'
    BY <1>4 DEF Shows
  <2> HIDE DEF n, c, w
  <2>6. spending' = SumOf(AmountsOf(shown'))
    BY <1>0, <2>2, <2>3, <2>4 DEF MoneyInv
  <2>7. change_spend' + SumOf(Confirmed(shown')) = spending'
    BY <1>0, <1>a, <2>2, <2>3, <2>4 DEF MoneyInv
  <2> QED
    BY <2>3, <2>5, <2>6, <2>7 DEF MoneyInv
<1>5. CASE Releases
  <2>1. PICK s : /\ s.amount \in Nat
                 /\ sigs' = Append(sigs, s)
                 /\ authorized_amount'
                      = authorized_amount - (IF s.form = "bip143" THEN s.amount ELSE 0)
    BY <1>5 DEF Releases
  <2> DEFINE w == IF s.form = "bip143" THEN s.amount ELSE 0
  <2>2. w \in Nat
    BY <2>1
  <2>3. HasAmounts(sigs') /\ SumOf(Charged(sigs')) = SumOf(Charged(sigs)) + w
    BY <1>0, <2>1, AmountsAppend, ChargedAppend
  <2>4. authorized_amount' = authorized_amount - w
    BY <2>1
  <2>5. UNCHANGED <<to_spend, spending, change_spend, shown, ledger, approved>>
    BY <1>5 DEF Releases
  <2> HIDE DEF w
  <2>6. authorized_amount' + SumOf(Charged(sigs')) = SumOf(Brought(ledger'))
    BY <1>0, <1>a, <2>2, <2>3, <2>4, <2>5 DEF MoneyInv
  <2>7. ShownOuts' = ShownOuts
    BY <2>5 DEF ShownOuts
  <2> QED
    BY <2>3, <2>5, <2>6, <2>7 DEF MoneyInv
<1> QED
  BY <1>1, <1>2, <1>3, <1>4, <1>5

\* signing.c refuses an amount when the sum, cut to 64 bits, got smaller: what
\* it accepts is the true sum.
LEMMA NoWrap ==
  ASSUME NEW a \in Amounts, NEW b \in Amounts, ~(Wrap(a + b) < a)
  PROVE  Wrap(a + b) = a + b /\ a + b \in Amounts
<1>1. AmountMod \in Nat \ {0} /\ a \in 0 .. AmountMod - 1 /\ b \in 0 .. AmountMod - 1
  BY SigningAssumption DEF Amounts
<1>2. CASE a + b < AmountMod
  <2>1. (a + b) % AmountMod = a + b
    BY <1>1, <1>2
  <2> QED
    BY <1>1, <1>2, <2>1 DEF Wrap, Amounts
<1>3. CASE a + b >= AmountMod
  <2>1. (a + b) % AmountMod = (a + b) - AmountMod
    BY <1>1, <1>3
  <2>2. (a + b) - AmountMod < a
    BY <1>1
  <2> QED
    BY <2>1, <2>2 DEF Wrap
<1> QED
  BY <1>1, <1>2, <1>3

LEMMA Small ==
  ASSUME NEW a \in Nat, NEW b \in Nat, NEW n \in Nat, a <= n, n + b \in Amounts
  PROVE  Wrap(a + b) = a + b
<1>1. AmountMod \in Nat \ {0} /\ a + b \in 0 .. AmountMod - 1
  BY SigningAssumption DEF Amounts
<1>2. (a + b) % AmountMod = a + b
  BY <1>1
<1> QED
  BY <1>2 DEF Wrap

\* What is left of the budget is never more than what was counted.
LEMMA BudgetBounded ==
  ASSUME TypeOK, ApprovalInv, MoneyInv PROVE authorized_amount <= to_spend
<1>1. /\ to_spend \in Nat /\ authorized_amount \in Nat /\ IsSequence(sigs) /\ HasAmounts(sigs)
      /\ IsSequence(ledger) /\ HasAmounts(ledger)
  BY MoneyTypes DEF MoneyInv
<1>2. SumOf(Charged(sigs)) \in Nat /\ SumOf(Brought(ledger)) \in Nat
  BY <1>1, SumsOfAmounts
<1> QED
  BY <1>1, <1>2 DEF MoneyInv

USE DEF control, session, money, wallet, digests, history

LEMMA FailIsStill == ASSUME NEW r, Fail(r) PROVE Still
  BY DEF Fail, Still

LEMMA NotYetApproved ==
  ASSUME ApprovalInv, NEW stage \in Phase1Stages, AtStage(stage)
  PROVE  approved = NotApproved
  BY DEF ApprovalInv, AtStage

LEMMA InputMoney ==
  ASSUME TypeOK, ApprovalInv, MoneyInv, NEW m \in InputMsgs,
         RefuseInput(m) \/ CheckInputWithAmount(m) \/ CheckInputLegacy(m)
  PROVE  Still \/ Counts
<1>1. CASE RefuseInput(m)
  BY <1>1 DEF RefuseInput, Still
<1>2. CASE CheckInputLegacy(m)
  BY <1>2 DEF CheckInputLegacy, Still
<1>3. CASE CheckInputWithAmount(m)
  <2>1. m.amount \in Amounts /\ m.amount \in Nat
    BY MessageTypes DEF Inputs
  <2>2. /\ to_spend \in Amounts /\ authorized_amount \in Nat /\ to_spend \in Nat
        /\ authorized_amount <= to_spend
    BY MoneyTypes, BudgetBounded DEF TypeOK
  <2>3. ~(Wrap(to_spend + m.amount) < to_spend)
    BY <1>3 DEF CheckInputWithAmount, Refused1
  <2>4. Wrap(to_spend + m.amount) = to_spend + m.amount /\ to_spend + m.amount \in Amounts
    BY <2>1, <2>2, <2>3, NoWrap
  <2>5. Wrap(authorized_amount + m.amount) = authorized_amount + m.amount
    BY <2>1, <2>2, <2>4, Small
  <2>6. approved = NotApproved
    BY <1>3, NotYetApproved DEF CheckInputWithAmount, Phase1Stages
  <2> DEFINE e == [prevout |-> m.prevout, amount |-> m.amount, streamed |-> FALSE]
  <2>7. /\ ledger' = Append(ledger, e)
        /\ to_spend' = Wrap(to_spend + m.amount)
        /\ authorized_amount' = Wrap(authorized_amount + m.amount)
        /\ UNCHANGED <<spending, change_spend, shown, approved, sigs>>
    BY <1>3 DEF CheckInputWithAmount
  <2>8. e.amount = m.amount /\ ~e.streamed
    OBVIOUS
  <2> HIDE DEF e
  <2> QED
    BY <2>1, <2>4, <2>5, <2>6, <2>7, <2>8 DEF Counts
<1> QED
  BY <1>1, <1>2, <1>3

LEMMA PrevMoney ==
  ASSUME TypeOK, ApprovalInv, MoneyInv,
         \/ \E meta \in MetaMsgs : PrevMeta(meta)
         \/ \E same \in BOOLEAN : PrevInput(same)
         \/ \E amount \in PrevAmounts, same \in BOOLEAN : PrevOutput(amount, same)
         \/ \E size \in 0 .. 2, same \in BOOLEAN : PrevExtraData(size, same)
  PROVE  Still \/ Counts
<1>1. ASSUME NEW meta \in MetaMsgs, PrevMeta(meta) PROVE Still
  BY <1>1, FailIsStill DEF PrevMeta, Still
<1>2. ASSUME NEW same \in BOOLEAN, PrevInput(same) PROVE Still
  BY <1>2 DEF PrevInput, Still
<1>3. ASSUME NEW size \in 0 .. 2, NEW same \in BOOLEAN, PrevExtraData(size, same) PROVE Still
  BY <1>3, FailIsStill DEF PrevExtraData, Still
<1>4. ASSUME NEW amount \in PrevAmounts, NEW same \in BOOLEAN, PrevOutput(amount, same),
             ~Fail("Failure")
      PROVE  Still \/ Counts
  <2> DEFINE e == [prevout |-> input, amount |-> amount, streamed |-> TRUE]
             wanted == idx2 = input.index
  <2>1. /\ wanted => Wrap(to_spend + amount) >= to_spend
        /\ to_spend' = IF wanted THEN Wrap(to_spend + amount) ELSE to_spend
        /\ ledger' = IF wanted THEN Append(ledger, e) ELSE ledger
        /\ UNCHANGED <<authorized_amount, spending, change_spend, shown, approved, sigs>>
    BY <1>4 DEF PrevOutput
  <2>2. approved = NotApproved
    BY <1>4, NotYetApproved DEF PrevOutput, Phase1Stages
  <2>3. CASE ~wanted
    BY <2>1, <2>3 DEF Still
  <2>4. CASE wanted
    <3>1. amount \in Amounts /\ amount \in Nat /\ to_spend \in Amounts
          /\ authorized_amount \in Nat /\ to_spend \in Nat
      BY MessageTypes, MoneyTypes DEF TypeOK
    <3>2. Wrap(to_spend + amount) \in Nat
      <4>1. to_spend + amount \in Int
        BY <3>1
      <4> QED
        BY <4>1, WrapType, MessageTypes
    <3>3. ~(Wrap(to_spend + amount) < to_spend)
      BY <2>1, <2>4, <3>1, <3>2
    <3>4. Wrap(to_spend + amount) = to_spend + amount
      BY <3>1, <3>3, NoWrap
    <3>5. e.amount = amount /\ e.streamed
      OBVIOUS
    <3>6. authorized_amount' = authorized_amount + 0
      BY <2>1, <3>1
    <3> HIDE DEF e, wanted
    <3> QED
      BY <2>1, <2>2, <2>4, <3>1, <3>4, <3>5, <3>6 DEF Counts
  <2> QED
    BY <2>3, <2>4
<1> QED
  BY <1>1, <1>2, <1>3, <1>4, FailIsStill

LEMMA OutputMoney ==
  ASSUME TypeOK, ApprovalInv, MoneyInv, NEW o \in OutputMsgs,
         RefuseOutput(o) \/ CheckOutput(o)
  PROVE  Still \/ Shows
<1>1. CASE RefuseOutput(o)
  BY <1>1, FailIsStill DEF RefuseOutput
<1>2. CASE CheckOutput(o)
  <2> DEFINE yes == ~SkipsConfirmation(o)
             x == [amount |-> o.amount, script |-> compile_output(o).script,
                   confirmed |-> yes]
  <2>1. o \in Outputs /\ Compiles(o) /\ o.amount \in Amounts
        /\ ~(Wrap(spending + o.amount) < spending)
    BY <1>2, MessageTypes DEF CheckOutput, RefusedOutput, Outputs
  <2>2. spending \in Amounts /\ change_spend \in Nat /\ o.amount \in Nat
    BY <2>1, MoneyTypes, MessageTypes DEF TypeOK
  <2>3. Wrap(spending + o.amount) = spending + o.amount
    BY <2>1, <2>2, NoWrap
  <2>4. yes \in BOOLEAN /\ (~yes => change_spend = 0)
    BY DEF SkipsConfirmation
  <2>5. x \in ShownOutputs
    <3>1. compile_output(o).script \in Scripts
      BY <2>1, CompileType DEF TypeOK
    <3> HIDE DEF yes
    <3> QED
      BY <2>1, <2>4, <3>1 DEF ShownOutputs
  <2>6. shown' = Append(shown, x)
    BY <1>2, Zenon DEF CheckOutput
  <2>7. change_spend' = IF yes THEN change_spend ELSE o.amount
    BY <1>2 DEF CheckOutput
  <2>8. spending' = spending + o.amount
    BY <1>2, <2>3 DEF CheckOutput
  <2>9. UNCHANGED <<to_spend, authorized_amount, ledger, sigs>>
    BY <1>2 DEF CheckOutput
  <2>10. approved = NotApproved
    BY <1>2, NotYetApproved DEF CheckOutput, Phase1Stages
  <2>11. \/ approved' = approved
         \/ /\ approved'.outs = hasher' /\ hasher' = Append(hasher, compile_output(o))
            /\ spending' <= to_spend
            /\ approved'.fee = to_spend - spending'
            /\ approved'.amount = to_spend - change_spend'
    BY <1>2 DEF CheckOutput
  <2>12. Append(hasher, compile_output(o)) = ShownOuts'
    <3>1. compile_output(o) = [amount |-> x.amount, script |-> x.script]
      BY DEF compile_output
    <3>2. hasher = ShownOuts
      BY <1>2 DEF CheckOutput, AtStage, ApprovalInv
    <3> HIDE DEF x
    <3> QED
      BY <2>5, <2>6, <3>1, <3>2, ShownOutsAppend DEF TypeOK
  <2>13. change_spend' = change_spend + (IF x.confirmed THEN 0 ELSE x.amount)
    <3>1. x.confirmed = yes /\ x.amount = o.amount
      OBVIOUS
    <3> HIDE DEF x, yes
    <3>2. CASE yes
      BY <2>2, <2>7, <3>1, <3>2
    <3>3. CASE ~yes
      BY <2>2, <2>4, <2>7, <3>1, <3>3
    <3> QED
      BY <3>2, <3>3
  <2>14. x.amount = o.amount
    OBVIOUS
  <2> HIDE DEF x, yes
  <2> QED
    BY <2>5, <2>6, <2>8, <2>9, <2>10, <2>11, <2>12, <2>13, <2>14 DEF Shows
<1> QED
  BY <1>1, <1>2

LEMMA ChargeMoney ==
  ASSUME TypeOK, NEW m \in InputMsgs, signing_hash_bip143(m),
         UNCHANGED <<to_spend, spending, change_spend, shown, ledger, approved>>
  PROVE  Releases
<1> DEFINE s == [form |-> "bip143", idx |-> idx1, ins |-> Prevouts1,
                 prevout |-> m.prevout, amount |-> m.amount,
                 outs |-> hash_outputs, key |-> Key(m.path)]
<1>1. m.amount \in Nat
  <2>1. m.amount \in Amounts
    BY MessageTypes DEF Inputs
  <2> QED
    BY <2>1, MessageTypes
<1>2. authorized_amount' = authorized_amount - m.amount /\ sigs' = Append(sigs, s)
  BY DEF signing_hash_bip143
<1>3. s.amount = m.amount /\ s.form = "bip143"
  OBVIOUS
<1> HIDE DEF s
<1> QED
  BY <1>1, <1>2, <1>3 DEF Releases

LEMMA SignMoney ==
  ASSUME TypeOK,
         \/ \E m \in InputMsgs : SignInputPart(m) \/ SegwitInput(m) \/ SegwitWitness(m)
         \/ \E o \in OutputMsgs : SignOutputPart(o) \/ SerializeOutput(o)
  PROVE  Still \/ Releases
<1>0. CASE Fail("Failure")
  BY <1>0, FailIsStill
<1>1. ASSUME NEW m \in InputMsgs, SignInputPart(m), ~Fail("Failure") PROVE Still
  BY <1>1 DEF SignInputPart, Still
<1>2. ASSUME NEW m \in InputMsgs, SegwitInput(m), ~Fail("Failure") PROVE Still \/ Releases
  <2>1. /\ UNCHANGED <<to_spend, spending, change_spend, shown, ledger, approved>>
        /\ signing_hash_bip143(m) \/ UNCHANGED <<authorized_amount, sigs>>
    BY <1>2 DEF SegwitInput
  <2> QED
    BY <2>1, ChargeMoney DEF Still
<1>3. ASSUME NEW m \in InputMsgs, SegwitWitness(m), ~Fail("Failure") PROVE Still \/ Releases
  <2>1. /\ UNCHANGED <<to_spend, spending, change_spend, shown, ledger, approved>>
        /\ signing_hash_bip143(m) \/ UNCHANGED <<authorized_amount, sigs>>
    BY <1>3 DEF SegwitWitness
  <2> QED
    BY <2>1, ChargeMoney DEF Still
<1>4. ASSUME NEW o \in OutputMsgs, SerializeOutput(o) PROVE Still
  BY <1>4, FailIsStill DEF SerializeOutput, Still
<1>5. ASSUME NEW o \in OutputMsgs, SignOutputPart(o), ~Fail("Failure") PROVE Still \/ Releases
  <2> DEFINE s == [form |-> "legacy", idx |-> idx1, ins |-> ti.ins,
                   prevout |-> ti.ins[idx1 + 1], amount |-> 0,
                   outs |-> Append(ti.outs, compile_output(o)), key |-> ti.key]
  <2>1. /\ UNCHANGED <<money, shown, ledger, approved>>
        /\ sigs' = sigs \/ sigs' = Append(sigs, s)
    BY <1>5, Zenon DEF SignOutputPart
  <2>2. s.amount = 0 /\ s.form = "legacy"
    OBVIOUS
  <2>3. authorized_amount' = authorized_amount - 0
    <3>1. authorized_amount \in Amounts
      BY DEF TypeOK
    <3>2. authorized_amount \in Nat
      BY <3>1, MessageTypes
    <3> QED
      BY <2>1, <3>2
  <2> HIDE DEF s
  <2> QED
    BY <2>1, <2>2, <2>3 DEF Still, Releases
<1> QED
  BY <1>0, <1>1, <1>2, <1>3, <1>4, <1>5

LEMMA MoneyKinds ==
  ASSUME TypeOK, ApprovalInv, MoneyInv, [Next]_vars
  PROVE  Still \/ Resets \/ Counts \/ Shows \/ Releases
<1>1. CASE TxAck
  BY <1>1, InputMoney, PrevMoney, OutputMoney, SignMoney DEF TxAck
<1>2. CASE signing_init
  BY <1>2 DEF signing_init, Resets
<1>3. CASE CancelOrInitialize \/ TxAckNotSigning
  BY <1>3, FailIsStill DEF CancelOrInitialize, TxAckNotSigning
<1>4. CASE RefuseSignTx \/ OtherKeyRequest \/ UNCHANGED vars
  BY <1>4 DEF RefuseSignTx, OtherKeyRequest, vars, Still
<1> QED
  BY <1>1, <1>2, <1>3, <1>4 DEF Next

LEMMA MoneyInvariant == Spec => []MoneyInv
<1>1. Init => MoneyInv
  <2>1. ASSUME Init PROVE MoneyInv
    <3>1. <<>> \in Seq({})
      OBVIOUS
    <3>2. IsSequence(<<>>) /\ HasAmounts(<<>>)
      BY <3>1 DEF IsSequence, HasAmounts
    <3> QED
      BY <2>1, <3>2, SumsOfNothing DEF Init, MoneyInv
  <2> QED
    BY <2>1
<1>2. TypeOK /\ ApprovalInv /\ MoneyInv /\ [Next]_vars => MoneyInv'
  BY MoneyKinds, MoneyStep
<1> QED
  BY <1>1, <1>2, TypeCorrect, ApprovalInvariant, PTL DEF Spec

\* The fee and the amount the user confirms are exact for any number of
\* inputs and outputs: the 64-bit sums of signing.c never wrapped, and outputs
\* skipped as change are left out of the amount and nothing else is.
THEOREM ConfirmedIsExact == Spec => []ConfirmedAmountsAddUp
<1>1. TypeOK /\ ApprovalInv /\ MoneyInv => ConfirmedAmountsAddUp
  <2> SUFFICES ASSUME TypeOK, ApprovalInv, MoneyInv, approved # NotApproved
               PROVE  /\ approved.fee >= 0
                      /\ approved.fee = Total(ledger) - Total(approved.outs)
                      /\ approved.amount = approved.fee + SumOf(Confirmed(shown))
    BY DEF ConfirmedAmountsAddUp, Confirmed
  <2>1. /\ to_spend \in Nat /\ spending \in Nat /\ change_spend \in Nat
        /\ IsSequence(shown) /\ HasAmounts(shown)
    BY MoneyTypes DEF MoneyInv
  <2>2. SumOf(Confirmed(shown)) \in Nat
    BY <2>1, SumsOfAmounts
  <2>3. Total(ledger) = to_spend
    BY DEF Total, AmountsOf, MoneyInv
  <2>4. Total(approved.outs) = spending
    <3>1. approved.outs = ShownOuts
      BY DEF MoneyInv
    <3>2. [i \in DOMAIN ShownOuts |-> ShownOuts[i].amount] = AmountsOf(shown)
      BY DEF ShownOuts, AmountsOf
    <3> QED
      BY <3>1, <3>2 DEF Total, MoneyInv
  <2>5. /\ spending <= to_spend /\ approved.fee = to_spend - spending
        /\ approved.amount = to_spend - change_spend
        /\ change_spend + SumOf(Confirmed(shown)) = spending
    BY DEF MoneyInv
  <2>6. approved.fee >= 0
    BY <2>1, <2>5, Difference
  <2> QED
    BY <2>1, <2>2, <2>3, <2>4, <2>5, <2>6
<1> QED
  BY <1>1, TypeCorrect, ApprovalInvariant, MoneyInvariant, PTL

\* BIP 143 signatures never spend more than the inputs brought with them in
\* phase 1, however often and with whatever amounts the host streams them again.
THEOREM BudgetIsKept == Spec => []SegwitBudget
<1>1. MoneyInv => SegwitBudget
  BY DEF MoneyInv, SegwitBudget, Bip143Total, BroughtTotal, Charged, Brought
<1> QED
  BY <1>1, MoneyInvariant, PTL

-----------------------------------------------------------------------------
(* The inputs that are counted, verified and signed are the same.          *)

PrevoutsOf(s) == [i \in DOMAIN s |-> s[i].prevout]
IsReal(e) == e.amount = PrevTx[e.prevout.hash].outs[e.prevout.index + 1]
Real(s) == \A i \in DOMAIN s : s[i].streamed => IsReal(s[i])
PrevStages == {"REQUEST_2_PREV_META", "REQUEST_2_PREV_INPUT",
               "REQUEST_2_PREV_OUTPUT", "REQUEST_2_PREV_EXTRADATA"}

\* Has the amount of the input whose previous transaction is being streamed
\* been added already?
Counted == \/ signing_stage = "REQUEST_2_PREV_EXTRADATA"
           \/ signing_stage = "REQUEST_2_PREV_OUTPUT" /\ idx2 > input.index

\* What holds of the inputs so far when the next one is asked for, while a
\* previous transaction is streamed, before and after its amount has been
\* added, and when phase 1 has seen all of them.
Whole ==
  /\ Real(ledger) /\ PrevoutsOf(hasher) = PrevoutsOf(ledger)
  /\ idx1 = Len(ledger) /\ idx1 < inputs_count
Awaiting ==
  /\ Real(ledger) /\ PrevoutsOf(hasher) = Append(PrevoutsOf(ledger), input)
  /\ idx1 = Len(ledger) /\ idx1 < inputs_count
Pending ==
  /\ \A i \in 1 .. Len(ledger) - 1 : ledger[i].streamed => IsReal(ledger[i])
  /\ tp.same => IsReal(ledger[Len(ledger)])
  /\ PrevoutsOf(hasher) = PrevoutsOf(ledger)
  /\ idx1 = Len(ledger) - 1 /\ idx1 < inputs_count
Complete ==
  /\ Real(ledger) /\ PrevoutsOf(hash_check) = PrevoutsOf(ledger)
  /\ Len(ledger) = inputs_count

StageInv ==
  signing =>
    /\ signing_stage = "REQUEST_1_INPUT" => Whole
    /\ signing_stage \in PrevStages => IF Counted THEN Pending ELSE Awaiting
    /\ signing_stage \in {"REQUEST_2_PREV_INPUT", "REQUEST_2_PREV_OUTPUT"}
         => input.index < tp.outs
    /\ signing_stage = "REQUEST_3_OUTPUT" \/ signing_stage \in Phase2Stages => Complete
    /\ signing_stage = "REQUEST_4_INPUT" /\ idx2 # 0 => PrevoutsOf(hasher) = ti.ins
    /\ signing_stage = "REQUEST_4_OUTPUT" => ti.ins = PrevoutsOf(ledger)
    /\ signing_stage \in {"REQUEST_4_INPUT", "REQUEST_4_OUTPUT", "REQUEST_SEGWIT_INPUT"}
         => idx1 < inputs_count

AccountInv == StageInv /\ SignedInputsWereAccounted

LEMMA PrevoutsAppend ==
  ASSUME NEW s, IsSequence(s), NEW x
  PROVE  /\ PrevoutsOf(Append(s, x)) = Append(PrevoutsOf(s), x.prevout)
         /\ IsSequence(PrevoutsOf(s)) /\ Len(PrevoutsOf(s)) = Len(s)
<1> DEFINE n == Len(s)
           t == Append(s, x)
           f == PrevoutsOf(s)
           y == x.prevout
<1>1. /\ n \in Nat /\ DOMAIN s = 1 .. n /\ DOMAIN t = 1 .. n + 1
      /\ (\A i \in 1 .. n : t[i] = s[i]) /\ t[n + 1] = x
  BY AppendFacts
<1> HIDE DEF n, t
<1>2. f = [i \in 1 .. n |-> s[i].prevout]
  BY <1>1 DEF PrevoutsOf
<1>3. f \in Seq({s[i].prevout : i \in 1 .. n}) /\ Len(f) = n
  BY <1>1, <1>2
<1>4. IsSequence(f)
  BY <1>3 DEF IsSequence
<1>5. PrevoutsOf(t) = [i \in 1 .. n + 1 |-> IF i = n + 1 THEN y ELSE f[i]]
  BY <1>1 DEF PrevoutsOf
<1> HIDE DEF f, y
<1>6. Append(f, y) = [i \in 1 .. n + 1 |-> IF i = n + 1 THEN y ELSE f[i]]
  <2> DEFINE g == Append(f, y)
  <2>1. /\ DOMAIN g = 1 .. n + 1 /\ (\A i \in 1 .. n : g[i] = f[i]) /\ g[n + 1] = y
        /\ IsSequence(g)
    BY <1>3, <1>4, AppendFacts
  <2> HIDE DEF g
  <2>2. g = [i \in DOMAIN g |-> g[i]]
    BY <2>1 DEF IsSequence
  <2>3. g = [i \in 1 .. n + 1 |-> IF i = n + 1 THEN y ELSE f[i]]
    BY <1>1, <2>1, <2>2
  <2> QED
    BY <2>3 DEF g
<1> QED
  BY <1>3, <1>4, <1>5, <1>6 DEF f, y, t, n

LEMMA StageTypes ==
  ASSUME TypeOK, MoneyInv
  PROVE  /\ idx1 \in Nat /\ idx2 \in Nat /\ inputs_count \in Nat /\ input.index \in Nat
         /\ IsSequence(hasher) /\ IsSequence(ledger) /\ tp \in TpType
         /\ Len(ledger) \in Nat /\ DOMAIN ledger = 1 .. Len(ledger)
<1>1. input.index \in Nat
  BY DEF TypeOK, Prevouts, NoPrevout
<1>2. IsSequence(hasher) /\ IsSequence(ledger) /\ tp \in TpType
  BY DEF TypeOK, MoneyInv, IsSequence, TpType
<1> QED
  BY <1>1, <1>2, SequenceFacts DEF TypeOK

LEMMA NothingSigned ==
  ASSUME ApprovalInv, NEW stage \in Phase1Stages, AtStage(stage)
  PROVE  sigs = <<>> /\ (sigs' = sigs => SignedInputsWereAccounted')
  BY DEF ApprovalInv, AtStage, SignedInputsWereAccounted

LEMMA SignedKept ==
  ASSUME SignedInputsWereAccounted, UNCHANGED <<sigs, ledger>>
  PROVE  SignedInputsWereAccounted'
  BY DEF SignedInputsWereAccounted

LEMMA ClosedStage == ASSUME ~signing' PROVE StageInv'
  BY DEF StageInv

LEMMA FailAccounts == ASSUME AccountInv, NEW r, Fail(r) PROVE AccountInv'
  BY ClosedStage, SignedKept DEF Fail, AccountInv

\* Phase 1 goes on to the next input when the last one is fully accounted.
LEMMA NextInputStage ==
  ASSUME NEW h, phase1_request_next_input(h),
         Real(ledger'), PrevoutsOf(h) = PrevoutsOf(ledger'), Len(ledger') \in Nat,
         idx1 = Len(ledger') - 1, idx1 < inputs_count, inputs_count' = inputs_count,
         inputs_count \in Nat
  PROVE  StageInv'
<1>1. CASE signing_stage' = "REQUEST_1_INPUT"
  <2>1. idx1' = idx1 + 1 /\ idx1 < inputs_count - 1 /\ hasher' = h
    BY <1>1 DEF phase1_request_next_input
  <2>2. Whole'
    BY <2>1 DEF Whole
  <2>3. signing_stage' \notin PrevStages /\ signing_stage' \notin Phase2Stages
    BY <1>1, StageSets DEF PrevStages, InputStages
  <2> QED
    BY <1>1, <2>2, <2>3 DEF StageInv
<1>2. CASE signing_stage' = "REQUEST_3_OUTPUT"
  <2>1. hash_check' = h /\ idx1 >= inputs_count - 1
    BY <1>2 DEF phase1_request_next_input
  <2>2. Complete'
    BY <2>1 DEF Complete
  <2>3. signing_stage' \notin PrevStages
    BY <1>2 DEF PrevStages
  <2> QED
    BY <1>2, <2>2, <2>3 DEF StageInv
<1> QED
  BY <1>1, <1>2 DEF phase1_request_next_input

LEMMA InputAccounts ==
  ASSUME TypeOK, ApprovalInv, MoneyInv, AccountInv, NEW m \in InputMsgs,
         RefuseInput(m) \/ CheckInputWithAmount(m) \/ CheckInputLegacy(m)
  PROVE  AccountInv'
<1>1. AtStage("REQUEST_1_INPUT") /\ "REQUEST_1_INPUT" \in Phase1Stages
  BY DEF RefuseInput, CheckInputWithAmount, CheckInputLegacy, Phase1Stages
<1>2. SignedInputsWereAccounted'
  BY <1>1, NothingSigned DEF RefuseInput, CheckInputWithAmount, CheckInputLegacy
<1>3. Whole
  BY <1>1 DEF AtStage, AccountInv, StageInv
<1>4. /\ IsSequence(hasher) /\ IsSequence(ledger) /\ inputs_count \in Nat
      /\ Len(ledger) \in Nat /\ DOMAIN ledger = 1 .. Len(ledger)
  BY StageTypes
<1>5. ASSUME signing', signing_check_input(m)
      PROVE  /\ HashAfter(m) = Append(hasher, HashedInput(m))
             /\ PrevoutsOf(HashAfter(m)) = Append(PrevoutsOf(ledger), m.prevout)
  <2>1. HashAfter(m) = Append(hasher, HashedInput(m))
    BY <1>5 DEF signing_check_input, HashAfter
  <2>2. HashedInput(m).prevout = m.prevout
    BY DEF HashedInput
  <2> QED
    BY <1>3, <1>4, <2>1, <2>2, PrevoutsAppend DEF Whole
<1>6. ASSUME signing', CheckInputWithAmount(m) PROVE StageInv'
  <2> DEFINE e == [prevout |-> m.prevout, amount |-> m.amount, streamed |-> FALSE]
  <2>1. /\ ledger' = Append(ledger, e) /\ phase1_request_next_input(HashAfter(m))
        /\ inputs_count' = inputs_count /\ signing_check_input(m)
    BY <1>6 DEF CheckInputWithAmount
  <2>2. e.prevout = m.prevout /\ ~e.streamed
    OBVIOUS
  <2> HIDE DEF e
  <2>3. PrevoutsOf(HashAfter(m)) = PrevoutsOf(ledger')
    BY <1>4, <1>5, <1>6, <2>1, <2>2, PrevoutsAppend
  <2>4. /\ DOMAIN ledger' = 1 .. Len(ledger) + 1 /\ IsSequence(ledger')
        /\ \A i \in 1 .. Len(ledger) : ledger'[i] = ledger[i]
        /\ ledger'[Len(ledger) + 1] = e
    BY <1>4, <2>1, AppendFacts
  <2>5. Len(ledger') = Len(ledger) + 1
    BY <1>4, <2>4, SequenceFacts
  <2>6. Real(ledger')
    <3>1. SUFFICES ASSUME NEW i \in DOMAIN ledger', ledger'[i].streamed
                   PROVE  IsReal(ledger'[i])
      BY DEF Real
    <3>2. i \in 1 .. Len(ledger) /\ ledger'[i] = ledger[i]
      BY <1>4, <2>2, <2>4, <3>1
    <3> QED
      BY <1>3, <1>4, <3>1, <3>2 DEF Whole, Real
  <2>7. idx1 = Len(ledger') - 1 /\ idx1 < inputs_count /\ Len(ledger') \in Nat
    BY <1>3, <1>4, <2>5 DEF Whole
  <2> QED
    BY <1>4, <2>1, <2>3, <2>6, <2>7, NextInputStage
<1>7. ASSUME signing', CheckInputLegacy(m) PROVE StageInv'
  <2>1. /\ signing_stage' = "REQUEST_2_PREV_META" /\ input' = m.prevout
        /\ hasher' = HashAfter(m) /\ signing_check_input(m)
        /\ UNCHANGED <<ledger, idx1, inputs_count>>
    BY <1>7 DEF CheckInputLegacy
  <2>2. PrevoutsOf(hasher') = Append(PrevoutsOf(ledger'), input')
    BY <1>5, <1>7, <2>1
  <2>3. Awaiting' /\ ~Counted'
    BY <1>3, <2>1, <2>2 DEF Whole, Awaiting, Counted
  <2>4. signing_stage' \notin Phase2Stages
    BY <2>1 DEF Phase2Stages, Phase1Stages
  <2> QED
    BY <2>1, <2>3, <2>4 DEF StageInv
<1>8. ASSUME RefuseInput(m) PROVE AccountInv'
  <2>1. ~signing'
    BY <1>8 DEF RefuseInput
  <2> QED
    BY <1>2, <2>1, ClosedStage DEF AccountInv
<1> QED
  BY <1>2, <1>6, <1>7, <1>8, ClosedStage DEF AccountInv

\* No previous transaction passes with another amount than its real one.
LEMMA PrevAccounts ==
  ASSUME TypeOK, ApprovalInv, MoneyInv, AccountInv,
         \/ \E meta \in MetaMsgs : PrevMeta(meta)
         \/ \E same \in BOOLEAN : PrevInput(same)
         \/ \E amount \in PrevAmounts, same \in BOOLEAN : PrevOutput(amount, same)
         \/ \E size \in 0 .. 2, same \in BOOLEAN : PrevExtraData(size, same)
  PROVE  AccountInv'
<1>0. CASE Fail("Failure")
  BY <1>0, FailAccounts
<1>a. /\ IsSequence(ledger) /\ inputs_count \in Nat /\ idx1 \in Nat /\ idx2 \in Nat
      /\ input.index \in Nat /\ tp \in TpType
      /\ Len(ledger) \in Nat /\ DOMAIN ledger = 1 .. Len(ledger)
  BY StageTypes
<1>b. /\ PrevStages \subseteq Phase1Stages
      /\ PrevStages \cap (Phase2Stages \cup {"REQUEST_1_INPUT", "REQUEST_3_OUTPUT",
                           "REQUEST_4_INPUT", "REQUEST_4_OUTPUT", "REQUEST_SEGWIT_INPUT"}) = {}
      /\ "REQUEST_2_PREV_META" \in PrevStages /\ "REQUEST_2_PREV_INPUT" \in PrevStages
      /\ "REQUEST_2_PREV_OUTPUT" \in PrevStages /\ "REQUEST_2_PREV_EXTRADATA" \in PrevStages
  BY DEF PrevStages, Phase1Stages, Phase2Stages
<1>c. ASSUME NEW stage \in PrevStages, AtStage(stage)
      PROVE  /\ IF Counted THEN Pending ELSE Awaiting
             /\ sigs' = sigs => SignedInputsWereAccounted'
  <2>1. stage \in Phase1Stages
    BY <1>b
  <2> QED
    BY <1>c, <2>1, NothingSigned DEF AtStage, AccountInv, StageInv
<1>1. ASSUME NEW meta \in MetaMsgs, PrevMeta(meta), ~Fail("Failure") PROVE AccountInv'
  <2>1. /\ signing_stage = "REQUEST_2_PREV_META" /\ AtStage("REQUEST_2_PREV_META")
        /\ input.index < tp'.outs /\ idx2' = 0
        /\ signing_stage' \in {"REQUEST_2_PREV_INPUT", "REQUEST_2_PREV_OUTPUT"}
        /\ UNCHANGED <<idx1, inputs_count, ledger, hasher, input, sigs>>
    <3>1. meta.outs > input.index /\ tp'.outs = meta.outs
      BY <1>1 DEF PrevMeta
    <3>2. meta.outs \in Nat
      BY MessageTypes
    <3> QED
      BY <1>1, <1>a, <3>1, <3>2 DEF PrevMeta, AtStage
  <2>2. Awaiting /\ SignedInputsWereAccounted'
    BY <1>b, <1>c, <2>1 DEF Counted
  <2>3. Awaiting' /\ ~Counted'
    BY <1>a, <2>1, <2>2 DEF Awaiting, Counted
  <2> QED
    BY <1>b, <2>1, <2>2, <2>3 DEF AccountInv, StageInv
<1>2. ASSUME NEW same \in BOOLEAN, PrevInput(same) PROVE AccountInv'
  <2>1. /\ signing_stage = "REQUEST_2_PREV_INPUT" /\ AtStage("REQUEST_2_PREV_INPUT")
        /\ tp'.outs = tp.outs /\ (signing_stage' = "REQUEST_2_PREV_OUTPUT" => idx2' = 0)
        /\ signing_stage' \in {"REQUEST_2_PREV_INPUT", "REQUEST_2_PREV_OUTPUT"}
        /\ UNCHANGED <<idx1, inputs_count, ledger, hasher, input, sigs>>
    BY <1>2, <1>a DEF PrevInput, AtStage, TpType
  <2>2. Awaiting /\ SignedInputsWereAccounted' /\ input.index < tp.outs
    BY <1>b, <1>c, <2>1 DEF Counted, AccountInv, StageInv, AtStage
  <2>3. Awaiting' /\ ~Counted'
    BY <1>a, <2>1, <2>2 DEF Awaiting, Counted
  <2>4. input'.index < tp'.outs
    BY <2>1, <2>2
  <2> QED
    BY <1>b, <2>1, <2>2, <2>3, <2>4 DEF AccountInv, StageInv
<1>3. ASSUME NEW amount \in PrevAmounts, NEW same \in BOOLEAN, PrevOutput(amount, same),
             ~Fail("Failure")
      PROVE  AccountInv'
  <2> DEFINE e == [prevout |-> input, amount |-> amount, streamed |-> TRUE]
             wanted == idx2 = input.index
             good == tp.same /\ same /\ RealAmount(amount)
             last == idx2 >= tp.outs - 1
  <2>1. AtStage("REQUEST_2_PREV_OUTPUT") /\ signing_stage = "REQUEST_2_PREV_OUTPUT" /\ signing
    BY <1>3 DEF PrevOutput, AtStage
  <2>2. /\ ledger' = IF wanted THEN Append(ledger, e) ELSE ledger
        /\ UNCHANGED <<inputs_count, input, sigs>>
    BY <1>3 DEF PrevOutput
  <2>3. \/ /\ ~last /\ idx2' = idx2 + 1
           /\ UNCHANGED <<signing, signing_stage, idx1, hasher>>
        \/ /\ last /\ signing_stage' = "REQUEST_2_PREV_EXTRADATA"
           /\ UNCHANGED <<signing, idx1, idx2, hasher>>
        \/ last /\ signing_check_prevtx_hash(good)
    BY <1>3, Zenon DEF PrevOutput
  <2>4. tp' = [tp EXCEPT !.same = good]
    BY <1>3, Zenon DEF PrevOutput
  <2>5. IF Counted THEN Pending ELSE Awaiting
    BY <1>b, <1>c, <2>1
  <2>6. input.index < tp.outs
    BY <2>1 DEF AccountInv, StageInv
  <2>7. SignedInputsWereAccounted'
    <3>1. sigs = <<>>
      BY <1>b, <2>1, NothingSigned
    <3> QED
      BY <2>2, <3>1 DEF SignedInputsWereAccounted
  <2>8. e.prevout = input /\ e.amount = amount /\ e.streamed
    OBVIOUS
  <2>9. good => tp.same /\ RealAmount(amount)
    OBVIOUS
  <2> HIDE DEF e, good
  <2>10. tp'.same = good /\ tp'.outs = tp.outs
    BY <1>a, <2>4 DEF TpType
  <2>11. ASSUME idx2 >= input.index
         PROVE  \E n \in Nat \ {0} :
                  /\ Len(ledger') = n /\ DOMAIN ledger' = 1 .. n
                  /\ \A i \in 1 .. n - 1 : ledger'[i].streamed => IsReal(ledger'[i])
                  /\ good => IsReal(ledger'[n])
                  /\ PrevoutsOf(hasher) = PrevoutsOf(ledger')
                  /\ idx1 = n - 1 /\ idx1 < inputs_count
    <3>1. CASE wanted
      <4>1. Awaiting
        BY <1>a, <2>1, <2>5, <3>1 DEF Counted
      <4>2. ledger' = Append(ledger, e)
        BY <2>2, <3>1
      <4>3. /\ DOMAIN ledger' = 1 .. Len(ledger) + 1 /\ IsSequence(ledger')
            /\ \A i \in 1 .. Len(ledger) : ledger'[i] = ledger[i]
            /\ ledger'[Len(ledger) + 1] = e
        BY <1>a, <4>2, AppendFacts
      <4>4. Len(ledger') = Len(ledger) + 1
        BY <1>a, <4>3, SequenceFacts
      <4>5. PrevoutsOf(hasher) = PrevoutsOf(ledger')
        BY <1>a, <2>8, <4>1, <4>2, PrevoutsAppend DEF Awaiting
      <4>6. good => IsReal(e)
        BY <2>8, <2>9, <3>1 DEF RealAmount, IsReal
      <4>7. \A i \in 1 .. Len(ledger) : ledger'[i].streamed => IsReal(ledger'[i])
        BY <1>a, <4>1, <4>3 DEF Awaiting, Real
      <4> DEFINE n == Len(ledger) + 1
      <4>8. n \in Nat \ {0} /\ n - 1 = Len(ledger)
        BY <1>a
      <4>9. idx1 = Len(ledger) /\ idx1 < inputs_count
        BY <4>1 DEF Awaiting
      <4> QED
        BY <4>3, <4>4, <4>5, <4>6, <4>7, <4>8, <4>9
    <3>2. CASE ~wanted
      <4>1. idx2 > input.index
        BY <1>a, <2>11, <3>2
      <4>2. Pending /\ ledger' = ledger
        BY <2>1, <2>2, <2>5, <3>2, <4>1 DEF Counted
      <4>3. idx1 = Len(ledger) - 1 /\ idx1 < inputs_count
        BY <4>2 DEF Pending
      <4>4. Len(ledger) \in Nat \ {0}
        BY <1>a, <4>3
      <4> QED
        BY <1>a, <2>9, <4>2, <4>3, <4>4 DEF Pending
    <3> QED
      BY <3>1, <3>2
  <2>12. CASE ~last /\ idx2' = idx2 + 1 /\ UNCHANGED <<signing, signing_stage, idx1, hasher>>
    <3>1. CASE idx2 >= input.index
      <4>1. PICK n \in Nat \ {0} :
              /\ Len(ledger') = n /\ DOMAIN ledger' = 1 .. n
              /\ \A i \in 1 .. n - 1 : ledger'[i].streamed => IsReal(ledger'[i])
              /\ good => IsReal(ledger'[n])
              /\ PrevoutsOf(hasher) = PrevoutsOf(ledger')
              /\ idx1 = n - 1 /\ idx1 < inputs_count
        BY <2>11, <3>1
      <4>2. Counted'
        BY <1>a, <2>1, <2>2, <2>12, <3>1 DEF Counted
      <4>3. Pending'
        BY <2>2, <2>10, <2>12, <4>1 DEF Pending
      <4>4. signing_stage' = "REQUEST_2_PREV_OUTPUT" /\ input'.index < tp'.outs
        BY <2>1, <2>2, <2>6, <2>10, <2>12
      <4>5. StageInv'
        BY <1>b, <4>2, <4>3, <4>4 DEF StageInv
      <4> QED
        BY <2>7, <4>5 DEF AccountInv
    <3>2. CASE ~(idx2 >= input.index)
      <4>0. ~(idx2 > input.index) /\ idx2 # input.index
        BY <1>a, <3>2
      <4>1. ~Counted /\ ledger' = ledger
        BY <2>1, <2>2, <4>0 DEF Counted
      <4>2. ~Counted'
        <5>1. ~(idx2 + 1 > input.index)
          BY <1>a, <3>2
        <5>2. idx2' = idx2 + 1 /\ input' = input /\ signing_stage' = "REQUEST_2_PREV_OUTPUT"
          BY <2>1, <2>2, <2>12
        <5> QED
          BY <5>1, <5>2 DEF Counted
      <4>3. Awaiting'
        BY <2>2, <2>5, <2>12, <4>1 DEF Awaiting
      <4>4. signing_stage' = "REQUEST_2_PREV_OUTPUT" /\ input'.index < tp'.outs
        BY <2>1, <2>2, <2>6, <2>10, <2>12
      <4>5. StageInv'
        BY <1>b, <4>2, <4>3, <4>4 DEF StageInv
      <4> QED
        BY <2>7, <4>5 DEF AccountInv
    <3> QED
      BY <3>1, <3>2
  <2>13. ASSUME last PROVE idx2 >= input.index
    <3>1. tp.outs \in Nat
      BY <1>a DEF TpType
    <3> QED
      BY <1>a, <2>6, <2>13, <3>1
  <2>14. CASE /\ last /\ signing_stage' = "REQUEST_2_PREV_EXTRADATA"
              /\ UNCHANGED <<signing, idx1, idx2, hasher>>
    <3>1. PICK n \in Nat \ {0} :
            /\ Len(ledger') = n /\ DOMAIN ledger' = 1 .. n
            /\ \A i \in 1 .. n - 1 : ledger'[i].streamed => IsReal(ledger'[i])
            /\ good => IsReal(ledger'[n])
            /\ PrevoutsOf(hasher) = PrevoutsOf(ledger')
            /\ idx1 = n - 1 /\ idx1 < inputs_count
      BY <2>11, <2>13, <2>14
    <3>2. Counted'
      BY <2>14 DEF Counted
    <3>3. Pending'
      BY <2>2, <2>10, <2>14, <3>1 DEF Pending
    <3>4. StageInv'
      BY <1>b, <2>14, <3>2, <3>3 DEF StageInv
    <3> QED
      BY <2>7, <3>4 DEF AccountInv
  <2>15. CASE last /\ signing_check_prevtx_hash(good)
    <3>1. PICK n \in Nat \ {0} :
            /\ Len(ledger') = n /\ DOMAIN ledger' = 1 .. n
            /\ \A i \in 1 .. n - 1 : ledger'[i].streamed => IsReal(ledger'[i])
            /\ good => IsReal(ledger'[n])
            /\ PrevoutsOf(hasher) = PrevoutsOf(ledger')
            /\ idx1 = n - 1 /\ idx1 < inputs_count
      BY <2>11, <2>13, <2>15
    <3>2. good /\ phase1_request_next_input(hasher)
      BY <2>15 DEF signing_check_prevtx_hash
    <3>3. Real(ledger')
      <4> SUFFICES ASSUME NEW i \in 1 .. n, ledger'[i].streamed PROVE IsReal(ledger'[i])
        BY <3>1 DEF Real
      <4>1. n \in Nat => (i = n \/ i \in 1 .. n - 1)
        OBVIOUS
      <4> QED
        BY <3>1, <3>2, <4>1
    <3>4. StageInv'
      BY <1>a, <2>2, <3>1, <3>2, <3>3, NextInputStage
    <3> QED
      BY <2>7, <3>4 DEF AccountInv
  <2> QED
    BY <2>3, <2>12, <2>14, <2>15
<1>4. ASSUME NEW size \in 0 .. 2, NEW same \in BOOLEAN, PrevExtraData(size, same),
             ~Fail("Failure")
      PROVE  AccountInv'
  <2> DEFINE good == tp.same /\ same
  <2>1. AtStage("REQUEST_2_PREV_EXTRADATA") /\ signing_stage = "REQUEST_2_PREV_EXTRADATA"
    BY <1>4 DEF PrevExtraData, AtStage
  <2>2. /\ tp' = [tp EXCEPT !.received = tp.received + size, !.same = good]
        /\ UNCHANGED <<inputs_count, input, ledger, sigs>>
        /\ \/ UNCHANGED <<control, hasher, hash_check>>
           \/ signing_check_prevtx_hash(good)
    BY <1>4, Zenon DEF PrevExtraData
  <2>3. good => tp.same
    OBVIOUS
  <2> HIDE DEF good
  <2>4. tp'.same = good
    BY <1>a, <2>2 DEF TpType
  <2>5. Counted /\ Pending /\ SignedInputsWereAccounted'
    BY <1>b, <1>c, <2>1, <2>2 DEF Counted
  <2>6. CASE UNCHANGED <<control, hasher, hash_check>>
    <3>1. Counted' /\ Pending'
      BY <2>1, <2>2, <2>3, <2>4, <2>5, <2>6 DEF Counted, Pending
    <3>2. signing_stage' = "REQUEST_2_PREV_EXTRADATA"
      BY <2>1, <2>6
    <3>3. StageInv'
      BY <1>b, <3>1, <3>2 DEF StageInv
    <3> QED
      BY <2>5, <3>3 DEF AccountInv
  <2>7. CASE signing_check_prevtx_hash(good)
    <3>1. good /\ phase1_request_next_input(hasher)
      BY <2>7 DEF signing_check_prevtx_hash
    <3>2. idx1 = Len(ledger) - 1 /\ idx1 < inputs_count
          /\ PrevoutsOf(hasher) = PrevoutsOf(ledger)
      BY <2>5 DEF Pending
    <3>3. Real(ledger)
      <4> SUFFICES ASSUME NEW i \in 1 .. Len(ledger), ledger[i].streamed
                   PROVE  IsReal(ledger[i])
        BY <1>a DEF Real
      <4>1. i = Len(ledger) \/ i \in 1 .. Len(ledger) - 1
        <5>1. Len(ledger) \in Nat
          BY <1>a
        <5> QED
          BY <5>1
      <4> QED
        BY <2>3, <2>5, <3>1, <4>1 DEF Pending
    <3>4. StageInv'
      BY <1>a, <2>2, <3>1, <3>2, <3>3, NextInputStage
    <3> QED
      BY <2>5, <3>4 DEF AccountInv
  <2> QED
    BY <2>2, <2>6, <2>7
<1> QED
  BY <1>0, <1>1, <1>2, <1>3, <1>4

LEMMA CompleteKept ==
  ASSUME Complete, UNCHANGED <<ledger, hash_check, inputs_count>> PROVE Complete'
  BY DEF Complete

\* Phases 2 and 3 between two inputs.
LEMMA BetweenInputs ==
  ASSUME Complete',
         signing_stage' \in {"REQUEST_3_OUTPUT", "REQUEST_4_INPUT", "REQUEST_SEGWIT_INPUT",
                             "REQUEST_5_OUTPUT", "REQUEST_SEGWIT_WITNESS"},
         signing_stage' = "REQUEST_4_INPUT" => idx2' = 0,
         signing_stage' \in {"REQUEST_4_INPUT", "REQUEST_SEGWIT_INPUT"} => idx1' < inputs_count'
  PROVE  StageInv'
<1>1. /\ signing_stage' \notin PrevStages /\ signing_stage' # "REQUEST_1_INPUT"
      /\ signing_stage' \notin {"REQUEST_2_PREV_INPUT", "REQUEST_2_PREV_OUTPUT"}
      /\ signing_stage' # "REQUEST_4_OUTPUT"
  BY DEF PrevStages
<1> QED
  BY <1>1 DEF StageInv

LEMMA NextToSignStages ==
  ASSUME NextToSign, idx1 \in Nat, inputs_count \in Nat
  PROVE  \/ /\ signing_stage' = "REQUEST_4_INPUT" /\ idx2' = 0
            /\ idx1' = idx1 + 1 /\ idx1' < inputs_count
         \/ signing_stage' = "REQUEST_SEGWIT_INPUT" /\ idx1' = idx1 + 1 /\ idx1' < inputs_count
         \/ signing_stage' = "REQUEST_5_OUTPUT" /\ idx1 >= inputs_count - 1
<1>1. CASE /\ idx1 < inputs_count - 1 /\ idx1' = idx1 + 1
           /\ phase2_request_next_input(idx1 + 1, next_nonsegwit_input)
  <2>1. idx1 + 1 < inputs_count
    BY <1>1
  <2> QED
    BY <1>1, <2>1 DEF phase2_request_next_input
<1> QED
  BY <1>1 DEF NextToSign

LEMMA OutputAccounts ==
  ASSUME TypeOK, ApprovalInv, MoneyInv, AccountInv, NEW o \in OutputMsgs,
         RefuseOutput(o) \/ CheckOutput(o)
  PROVE  AccountInv'
<1>1. CASE RefuseOutput(o)
  BY <1>1, FailAccounts DEF RefuseOutput
<1>2. CASE CheckOutput(o)
  <2>1. Complete
    BY <1>2 DEF CheckOutput, AtStage, AccountInv, StageInv
  <2>2. UNCHANGED <<ledger, hash_check, inputs_count, sigs>>
    BY <1>2 DEF CheckOutput
  <2>3. \/ signing_stage' = "REQUEST_3_OUTPUT"
        \/ idx1' = 0 /\ phase2_request_next_input(0, next_nonsegwit_input)
    BY <1>2 DEF CheckOutput, AtStage
  <2>4. 0 < inputs_count
    BY <1>2 DEF CheckOutput, AtStage, TypeOK
  <2>5. Complete' /\ SignedInputsWereAccounted'
    BY <2>1, <2>2, CompleteKept, SignedKept DEF AccountInv
  <2>6. StageInv'
    BY <2>2, <2>3, <2>4, <2>5, BetweenInputs DEF phase2_request_next_input
  <2> QED
    BY <2>5, <2>6 DEF AccountInv
<1> QED
  BY <1>1, <1>2

\* One more signature for the inputs that were counted.
LEMMA SignedOneMore ==
  ASSUME ApprovalInv, SignedInputsWereAccounted, ledger' = ledger,
         NEW s, sigs' = Append(sigs, s), s.ins = PrevoutsOf(ledger),
         s.form = "legacy" => s.prevout = ledger[s.idx + 1].prevout
  PROVE  SignedInputsWereAccounted'
<1>1. IsSequence(sigs)
  BY DEF ApprovalInv
<1>2. \A k \in DOMAIN sigs' : sigs'[k] = s \/ (k \in DOMAIN sigs /\ sigs'[k] = sigs[k])
  <2>1. /\ DOMAIN sigs = 1 .. Len(sigs) /\ Len(sigs) \in Nat
        /\ DOMAIN sigs' = 1 .. Len(sigs) + 1
        /\ \A i \in 1 .. Len(sigs) : sigs'[i] = sigs[i]
        /\ sigs'[Len(sigs) + 1] = s
    BY <1>1, AppendFacts
  <2> QED
    BY <2>1
<1> QED
  BY <1>2 DEF SignedInputsWereAccounted, PrevoutsOf

\* BIP 143 takes the digest of the inputs of phase 1, already compared.
LEMMA Bip143Accounts ==
  ASSUME ApprovalInv, SignedInputsWereAccounted, Complete, ledger' = ledger,
         NEW m, signing_hash_bip143(m)
  PROVE  SignedInputsWereAccounted'
<1> DEFINE s == [form |-> "bip143", idx |-> idx1, ins |-> Prevouts1,
                 prevout |-> m.prevout, amount |-> m.amount,
                 outs |-> hash_outputs, key |-> Key(m.path)]
<1>1. sigs' = Append(sigs, s)
  BY DEF signing_hash_bip143
<1>2. s.ins = PrevoutsOf(ledger) /\ s.form # "legacy"
  BY DEF Prevouts1, PrevoutsOf, Complete
<1> HIDE DEF s
<1> QED
  BY <1>1, <1>2, SignedOneMore

LEMMA SignAccounts ==
  ASSUME TypeOK, ApprovalInv, MoneyInv, AccountInv,
         \/ \E m \in InputMsgs : SignInputPart(m) \/ SegwitInput(m) \/ SegwitWitness(m)
         \/ \E o \in OutputMsgs : SignOutputPart(o) \/ SerializeOutput(o)
  PROVE  AccountInv'
<1>0. CASE Fail("Failure")
  BY <1>0, FailAccounts
<1>a. /\ inputs_count \in Nat /\ idx1 \in Nat /\ idx2 \in Nat /\ IsSequence(hasher)
      /\ Len(ledger) \in Nat /\ DOMAIN ledger = 1 .. Len(ledger)
  BY StageTypes
<1>b. /\ signing /\ signing_stage \in Phase2Stages => Complete
      /\ signing /\ signing_stage \in {"REQUEST_4_INPUT", "REQUEST_4_OUTPUT",
                                       "REQUEST_SEGWIT_INPUT"} => idx1 < inputs_count
      /\ SignedInputsWereAccounted
  BY DEF AccountInv, StageInv
<1>c. {"REQUEST_4_INPUT", "REQUEST_4_OUTPUT", "REQUEST_SEGWIT_INPUT",
       "REQUEST_5_OUTPUT", "REQUEST_SEGWIT_WITNESS"} \subseteq Phase2Stages
  BY DEF Phase2Stages, Stages, Phase1Stages
<1>1. ASSUME NEW m \in InputMsgs, SignInputPart(m), ~Fail("Failure") PROVE AccountInv'
  <2> DEFINE before == IF idx2 = 0 THEN <<>> ELSE hasher
             checked == Append(before, HashedInput(m))
             last == idx2 >= inputs_count - 1
             prevs == Append(IF idx2 = 0 THEN <<>> ELSE ti.ins, m.prevout)
  <2>1. signing_stage = "REQUEST_4_INPUT" /\ signing
    BY <1>1 DEF SignInputPart, AtStage
  <2>2. Complete /\ idx1 < inputs_count /\ (idx2 # 0 => PrevoutsOf(hasher) = ti.ins)
    BY <1>b, <1>c, <2>1 DEF AccountInv, StageInv
  <2>3. /\ last => checked = hash_check
        /\ hasher' = IF last THEN <<>> ELSE checked
        /\ idx2' = IF last THEN 0 ELSE idx2 + 1
        /\ signing_stage' = IF last THEN "REQUEST_4_OUTPUT" ELSE "REQUEST_4_INPUT"
    BY <1>1 DEF SignInputPart, InputsMatch
  <2>4. ti'.ins = prevs
    BY <1>1 DEF SignInputPart
  <2>5. UNCHANGED <<ledger, hash_check, inputs_count, sigs, idx1>>
    BY <1>1 DEF SignInputPart
  <2>6. PrevoutsOf(checked) = prevs
    <3>1. IsSequence(<<>>) /\ PrevoutsOf(<<>>) = <<>>
      <4>1. <<>> \in Seq({})
        OBVIOUS
      <4> QED
        BY <4>1 DEF IsSequence, PrevoutsOf
    <3>2. HashedInput(m).prevout = m.prevout
      BY DEF HashedInput
    <3>3. CASE idx2 = 0
      <4>1. PrevoutsOf(Append(<<>>, HashedInput(m))) = Append(PrevoutsOf(<<>>), m.prevout)
        BY <3>1, <3>2, PrevoutsAppend
      <4> QED
        BY <3>1, <3>3, <4>1
    <3>4. CASE idx2 # 0
      <4>1. PrevoutsOf(Append(hasher, HashedInput(m))) = Append(PrevoutsOf(hasher), m.prevout)
        BY <1>a, <3>2, PrevoutsAppend
      <4> QED
        BY <2>2, <3>4, <4>1
    <3> QED
      BY <3>3, <3>4
  <2>7. Complete' /\ SignedInputsWereAccounted' /\ idx1' < inputs_count'
    BY <1>b, <2>2, <2>5, CompleteKept, SignedKept
  <2> HIDE DEF checked, prevs, last
  <2>8. CASE last
    <3>1. ti'.ins = PrevoutsOf(ledger')
      BY <2>2, <2>3, <2>4, <2>5, <2>6, <2>8 DEF Complete
    <3>2. signing_stage' = "REQUEST_4_OUTPUT" /\ signing_stage' \notin PrevStages
      BY <2>3, <2>8 DEF PrevStages
    <3>3. StageInv'
      BY <2>7, <3>1, <3>2 DEF StageInv
    <3> QED
      BY <2>7, <3>3 DEF AccountInv
  <2>9. CASE ~last
    <3>1. PrevoutsOf(hasher') = ti'.ins
      BY <2>3, <2>4, <2>6, <2>9
    <3>2. signing_stage' = "REQUEST_4_INPUT" /\ signing_stage' \notin PrevStages
      BY <2>3, <2>9 DEF PrevStages
    <3>3. StageInv'
      BY <2>7, <3>1, <3>2 DEF StageInv
    <3> QED
      BY <2>7, <3>3 DEF AccountInv
  <2> QED
    BY <2>8, <2>9
<1>2. ASSUME NEW o \in OutputMsgs, SignOutputPart(o), ~Fail("Failure") PROVE AccountInv'
  <2> DEFINE checked == Append(hasher, compile_output(o))
             digest == Append(ti.outs, compile_output(o))
             last == idx2 >= outputs_count - 1
             sig == [form |-> "legacy", idx |-> idx1, ins |-> ti.ins,
                     prevout |-> ti.ins[idx1 + 1], amount |-> 0,
                     outs |-> digest, key |-> ti.key]
  <2>1. signing_stage = "REQUEST_4_OUTPUT" /\ signing
    BY <1>2 DEF SignOutputPart, AtStage
  <2>2. Complete /\ idx1 < inputs_count /\ ti.ins = PrevoutsOf(ledger)
    BY <1>b, <1>c, <2>1 DEF AccountInv, StageInv
  <2>3. /\ ti' = [ti EXCEPT !.outs = digest]
        /\ UNCHANGED <<ledger, hash_check, inputs_count, signing>>
        /\ \/ UNCHANGED <<signing_stage, idx1, sigs>>
           \/ sigs' = Append(sigs, sig) /\ NextToSign
    BY <1>2, Zenon DEF SignOutputPart
  <2>4. /\ sig.ins = ti.ins /\ sig.form = "legacy" /\ sig.idx = idx1
        /\ sig.prevout = ti.ins[idx1 + 1]
    OBVIOUS
  <2> HIDE DEF digest, sig
  <2>5. Complete'
    BY <2>2, <2>3, CompleteKept
  <2>6. CASE UNCHANGED <<signing_stage, idx1, sigs>>
    <3>1. ti'.ins = ti.ins
      BY <2>3
    <3>2. signing_stage' = "REQUEST_4_OUTPUT" /\ signing_stage' \notin PrevStages
      BY <2>1, <2>6 DEF PrevStages
    <3>3. StageInv'
      BY <2>2, <2>3, <2>5, <2>6, <3>1, <3>2 DEF StageInv
    <3> QED
      BY <1>b, <2>3, <2>6, <3>3, SignedKept DEF AccountInv
  <2>7. CASE sigs' = Append(sigs, sig) /\ NextToSign
    <3>1. StageInv'
      BY <1>a, <2>3, <2>5, <2>7, NextToSignStages, BetweenInputs
    <3>2. idx1 + 1 \in DOMAIN ledger
      BY <1>a, <2>2 DEF Complete
    <3>3. sig.prevout = ledger[sig.idx + 1].prevout
      BY <2>2, <2>4, <3>2 DEF PrevoutsOf
    <3>4. SignedInputsWereAccounted'
      BY <1>b, <2>2, <2>3, <2>4, <2>7, <3>3, SignedOneMore
    <3> QED
      BY <3>1, <3>4 DEF AccountInv
  <2> QED
    BY <2>3, <2>6, <2>7
<1>3. ASSUME NEW m \in InputMsgs, SegwitInput(m), ~Fail("Failure") PROVE AccountInv'
  <2>1. signing_stage = "REQUEST_SEGWIT_INPUT" /\ signing
    BY <1>3 DEF SegwitInput, AtStage
  <2>2. Complete
    BY <1>b, <1>c, <2>1
  <2>3. /\ UNCHANGED <<ledger, hash_check, inputs_count>> /\ NextToSign
        /\ signing_hash_bip143(m) \/ sigs' = sigs
    BY <1>3 DEF SegwitInput
  <2>4. Complete' /\ SignedInputsWereAccounted'
    BY <1>b, <2>2, <2>3, CompleteKept, SignedKept, Bip143Accounts
  <2>5. StageInv'
    BY <1>a, <2>3, <2>4, NextToSignStages, BetweenInputs
  <2> QED
    BY <2>4, <2>5 DEF AccountInv
<1>4. ASSUME NEW o \in OutputMsgs, SerializeOutput(o), ~Fail("Failure") PROVE AccountInv'
  <2>1. signing_stage = "REQUEST_5_OUTPUT" /\ signing
    BY <1>4 DEF SerializeOutput, AtStage
  <2>2. Complete
    BY <1>b, <1>c, <2>1
  <2>3. UNCHANGED <<ledger, hash_check, inputs_count, sigs>>
    BY <1>4 DEF SerializeOutput
  <2>4. Complete' /\ SignedInputsWereAccounted'
    BY <1>b, <2>2, <2>3, CompleteKept, SignedKept
  <2>5. signing_stage' \in {"REQUEST_5_OUTPUT", "REQUEST_SEGWIT_WITNESS"}
    BY <1>4, <2>1 DEF SerializeOutput, Finish
  <2>6. StageInv'
    BY <2>4, <2>5, BetweenInputs
  <2> QED
    BY <2>4, <2>6 DEF AccountInv
<1>5. ASSUME NEW m \in InputMsgs, SegwitWitness(m), ~Fail("Failure") PROVE AccountInv'
  <2>1. signing_stage = "REQUEST_SEGWIT_WITNESS" /\ signing
    BY <1>5 DEF SegwitWitness, AtStage
  <2>2. Complete
    BY <1>b, <1>c, <2>1
  <2>3. /\ UNCHANGED <<ledger, hash_check, inputs_count, signing_stage>>
        /\ signing_hash_bip143(m) \/ sigs' = sigs
    BY <1>5 DEF SegwitWitness, Finish
  <2>4. Complete' /\ SignedInputsWereAccounted'
    BY <1>b, <2>2, <2>3, CompleteKept, SignedKept, Bip143Accounts
  <2>5. StageInv'
    BY <2>1, <2>3, <2>4, BetweenInputs
  <2> QED
    BY <2>4, <2>5 DEF AccountInv
<1> QED
  BY <1>0, <1>1, <1>2, <1>3, <1>4, <1>5

LEMMA AccountStep ==
  ASSUME TypeOK, ApprovalInv, MoneyInv, AccountInv, [Next]_vars PROVE AccountInv'
<1>1. CASE TxAck
  BY <1>1, InputAccounts, PrevAccounts, OutputAccounts, SignAccounts DEF TxAck
<1>2. CASE signing_init
  <2>1. /\ ledger' = <<>> /\ hasher' = <<>> /\ sigs' = <<>> /\ idx1' = 0
        /\ inputs_count' \in 1 .. MaxInputs /\ signing_stage' = "REQUEST_1_INPUT"
    BY <1>2 DEF signing_init
  <2>2. 0 < inputs_count'
    BY <2>1, SigningAssumption
  <2>3. /\ SignedInputsWereAccounted' /\ Real(ledger')
        /\ PrevoutsOf(hasher') = PrevoutsOf(ledger') /\ Len(ledger') = 0
    BY <2>1 DEF SignedInputsWereAccounted, Real
  <2>4. Whole'
    BY <2>1, <2>2, <2>3 DEF Whole
  <2>5. signing_stage' \notin PrevStages /\ signing_stage' \notin Phase2Stages
    BY <2>1, StageSets DEF PrevStages, InputStages
  <2>6. StageInv'
    BY <2>1, <2>4, <2>5 DEF StageInv
  <2> QED
    BY <2>3, <2>6 DEF AccountInv
<1>3. CASE CancelOrInitialize \/ TxAckNotSigning
  BY <1>3, FailAccounts DEF CancelOrInitialize, TxAckNotSigning
<1>4. CASE RefuseSignTx \/ OtherKeyRequest \/ UNCHANGED vars
  <2>1. UNCHANGED <<control, inputs_count, input, tp, ti, hasher, hash_check, ledger, sigs>>
    BY <1>4 DEF RefuseSignTx, OtherKeyRequest, vars
  <2>2. /\ Whole' = Whole /\ Awaiting' = Awaiting /\ Pending' = Pending
        /\ Complete' = Complete /\ Counted' = Counted
    BY <2>1 DEF Whole, Awaiting, Pending, Complete, Counted
  <2>3. StageInv'
    BY <2>1, <2>2 DEF AccountInv, StageInv
  <2> QED
    BY <2>1, <2>3, SignedKept DEF AccountInv
<1> QED
  BY <1>1, <1>2, <1>3, <1>4 DEF Next

LEMMA AccountInvariant == Spec => []AccountInv
<1>1. Init => AccountInv
  BY DEF Init, AccountInv, StageInv, SignedInputsWereAccounted
<1>2. TypeOK /\ ApprovalInv /\ MoneyInv /\ AccountInv /\ [Next]_vars => AccountInv'
  BY AccountStep
<1> QED
  BY <1>1, <1>2, TypeCorrect, ApprovalInvariant, MoneyInvariant, PTL DEF Spec

\* The inputs a signature covers are those whose amounts were added up for the
\* fee, in their order, though each was streamed again in phase 2.
THEOREM SignedInputsAreCounted == Spec => []SignedInputsWereAccounted
<1>1. AccountInv => SignedInputsWereAccounted
  BY DEF AccountInv
<1> QED
  BY <1>1, AccountInvariant, PTL

\* Phase 1 leaves an input only when its previous transaction hashed to the
\* one the input names: every streamed amount that counts is the real one.
THEOREM StreamedAmountsAreVerified == Spec => []StreamedAmountsAreReal
<1>1. AccountInv => StreamedAmountsAreReal
  BY DEF AccountInv, StageInv, StreamedAmountsAreReal, Whole, Complete, Real, IsReal
<1> QED
  BY <1>1, AccountInvariant, PTL

-----------------------------------------------------------------------------
(* The chain of legacy inputs.  next_nonsegwit_input is found in phase 1    *)
(* and then again each time the inputs are streamed for a legacy one.       *)

Legacy(l, j) == l[j + 1].streamed
Streams(x, c) == x.kind = "SPENDADDRESS" /\ ~c.force_bip143
Kinds(h, l, c) == \A i \in DOMAIN h : i \in DOMAIN l => (l[i].streamed <=> Streams(h[i], c))
NoneIn(l, a, b) == \A j \in a .. b - 1 : ~Legacy(l, j)

\* next is the first legacy input of l, if there is one; while a previous
\* transaction is streamed, the input it belongs to counts as one.
Heads(next, l) ==
  \/ next = NoLegacyInput /\ NoneIn(l, 0, Len(l))
  \/ next \in 0 .. Len(l) - 1 /\ Legacy(l, next) /\ NoneIn(l, 0, next)
Heading(next, l) ==
  next \in 0 .. Len(l) /\ NoneIn(l, 0, next) /\ (next < Len(l) => Legacy(l, next))
\* next is the first legacy input from i on, or there is none any more.
FirstFrom(next, l, i, n) ==
  \/ next \in i .. n - 1 /\ Legacy(l, next) /\ NoneIn(l, i, next)
  \/ next < i /\ NoneIn(l, i, n)
\* next is the first legacy input after i among the n streamed so far.
Chain(next, h, i, n) ==
  \/ /\ next \in i + 1 .. n - 1 /\ h[next + 1].kind = "SPENDADDRESS"
     /\ \A j \in i + 1 .. next - 1 : h[j + 1].kind # "SPENDADDRESS"
  \/ next = i /\ \A j \in i + 1 .. n - 1 : h[j + 1].kind # "SPENDADDRESS"

SignedFor(s, j) == {k \in DOMAIN s : s[k].form = "legacy" /\ s[k].idx = j}
SignedOnce(s, l, j) == IF Legacy(l, j) THEN \E k : SignedFor(s, j) = {k}
                       ELSE SignedFor(s, j) = {}
\* The legacy inputs below i are signed, and no input from i on.
Progress(s, l, i, n) ==
  /\ \A j \in 0 .. i - 1 : SignedOnce(s, l, j)
  /\ \A j \in i .. n - 1 : SignedFor(s, j) = {}

Before == IF idx2 = 0 THEN <<>> ELSE hasher

ChainInv ==
  signing =>
    /\ signing_stage = "REQUEST_1_INPUT" =>
         Heads(next_nonsegwit_input, ledger) /\ Kinds(hasher, ledger, coin)
    /\ signing_stage \in PrevStages =>
         /\ Kinds(hasher, ledger, coin)
         /\ IF Counted THEN Heads(next_nonsegwit_input, ledger)
            ELSE /\ Heading(next_nonsegwit_input, ledger)
                 /\ Streams(hasher[Len(ledger) + 1], coin)
    /\ signing_stage = "REQUEST_3_OUTPUT" \/ signing_stage \in Phase2Stages =>
         Kinds(hash_check, ledger, coin)
    /\ signing_stage = "REQUEST_3_OUTPUT" =>
         FirstFrom(next_nonsegwit_input, ledger, 0, inputs_count)
    /\ signing_stage \in {"REQUEST_4_INPUT", "REQUEST_4_OUTPUT", "REQUEST_SEGWIT_INPUT"} =>
         Progress(sigs, ledger, idx1, inputs_count)
    /\ signing_stage = "REQUEST_SEGWIT_INPUT" =>
         /\ FirstFrom(next_nonsegwit_input, ledger, idx1, inputs_count)
         /\ next_nonsegwit_input # idx1
    /\ signing_stage = "REQUEST_4_INPUT" =>
         /\ Legacy(ledger, idx1) /\ idx2 < inputs_count /\ Len(Before) = idx2
         /\ Chain(next_nonsegwit_input, Before, idx1, idx2)
    /\ signing_stage = "REQUEST_4_OUTPUT" =>
         /\ FirstFrom(next_nonsegwit_input, ledger, idx1 + 1, inputs_count)
         /\ Legacy(ledger, idx1)
    /\ signing_stage \in {"REQUEST_5_OUTPUT", "REQUEST_SEGWIT_WITNESS"} =>
         Progress(sigs, ledger, inputs_count, inputs_count)

FinishInv ==
  resp = <<"TxFinished">> => \A j \in 0 .. Len(ledger) - 1 : SignedOnce(sigs, ledger, j)

\* What one more signature changes.
LEMMA SignedForAppend ==
  ASSUME NEW s, IsSequence(s), NEW x
  PROVE  /\ \A j : (x.form # "legacy" \/ x.idx # j) =>
              SignedFor(Append(s, x), j) = SignedFor(s, j)
         /\ x.form = "legacy" /\ SignedFor(s, x.idx) = {} =>
              SignedFor(Append(s, x), x.idx) = {Len(s) + 1}
<1> DEFINE n == Len(s)
           t == Append(s, x)
<1>1. /\ n \in Nat /\ DOMAIN s = 1 .. n /\ DOMAIN t = 1 .. n + 1
      /\ (\A i \in 1 .. n : t[i] = s[i]) /\ t[n + 1] = x
  BY AppendFacts
<1> HIDE DEF n, t
<1>2. ASSUME NEW j, x.form # "legacy" \/ x.idx # j PROVE SignedFor(t, j) = SignedFor(s, j)
  <2>1. \A k \in 1 .. n + 1 : k \in 1 .. n \/ k = n + 1
    BY <1>1
  <2>2. \A k \in 1 .. n : k \in 1 .. n + 1
    BY <1>1
  <2> QED
    BY <1>1, <1>2, <2>1, <2>2 DEF SignedFor
<1>3. ASSUME x.form = "legacy", SignedFor(s, x.idx) = {}
      PROVE  SignedFor(t, x.idx) = {n + 1}
  <2>1. \A k \in 1 .. n + 1 : k \in 1 .. n \/ k = n + 1
    BY <1>1
  <2>2. n + 1 \in 1 .. n + 1
    BY <1>1
  <2> QED
    BY <1>1, <1>3, <2>1, <2>2 DEF SignedFor
<1> QED
  BY <1>2, <1>3 DEF n, t

LEMMA ProgressKept ==
  ASSUME NEW s, NEW t, NEW l, NEW i, NEW n, Progress(s, l, i, n),
         \A j : SignedFor(t, j) = SignedFor(s, j)
  PROVE  Progress(t, l, i, n)
  BY DEF Progress, SignedOnce

LEMMA ProgressSkips ==
  ASSUME NEW s, NEW l, NEW i \in Nat, NEW n \in Nat, Progress(s, l, i, n), i < n, ~Legacy(l, i)
  PROVE  Progress(s, l, i + 1, n)
<1>1. i \in i .. n - 1
  OBVIOUS
<1>2. SignedOnce(s, l, i)
  BY <1>1 DEF Progress, SignedOnce
<1>3. \A j \in 0 .. (i + 1) - 1 : j \in 0 .. i - 1 \/ j = i
  OBVIOUS
<1>4. \A j \in i + 1 .. n - 1 : j \in i .. n - 1
  OBVIOUS
<1> QED
  BY <1>2, <1>3, <1>4 DEF Progress

LEMMA ProgressSigns ==
  ASSUME NEW s, IsSequence(s), NEW x, NEW l, NEW i \in Nat, NEW n \in Nat,
         Progress(s, l, i, n), i < n, Legacy(l, i), x.form = "legacy", x.idx = i
  PROVE  Progress(Append(s, x), l, i + 1, n)
<1> DEFINE t == Append(s, x)
<1>1. i \in i .. n - 1
  OBVIOUS
<1>2. /\ \A j : j # i => SignedFor(t, j) = SignedFor(s, j)
      /\ SignedFor(s, i) = {} => SignedFor(t, i) = {Len(s) + 1}
  BY SignedForAppend
<1> HIDE DEF t
<1>3. SignedOnce(t, l, i)
  BY <1>1, <1>2 DEF Progress, SignedOnce
<1>4. \A j \in 0 .. (i + 1) - 1 : (j \in 0 .. i - 1 /\ j # i) \/ j = i
  OBVIOUS
<1>5. \A j \in i + 1 .. n - 1 : j \in i .. n - 1 /\ j # i
  OBVIOUS
<1>6. \A j \in 0 .. (i + 1) - 1 : SignedOnce(t, l, j)
  BY <1>2, <1>3, <1>4 DEF Progress, SignedOnce
<1>7. \A j \in i + 1 .. n - 1 : SignedFor(t, j) = {}
  BY <1>2, <1>5 DEF Progress
<1> QED
  BY <1>6, <1>7 DEF Progress, t

\* Phase 1 hands the chain over to phase 2.
LEMMA HeadsFirst ==
  ASSUME NEW next, NEW l, Len(l) \in Nat, Heads(next, l)
  PROVE  FirstFrom(next, l, 0, Len(l))
  BY DEF Heads, FirstFrom, NoLegacyInput

LEMMA FirstMoves ==
  ASSUME NEW next \in Int, NEW l, NEW i \in Nat, NEW n \in Nat,
         FirstFrom(next, l, i, n), next # i, i < n
  PROVE  FirstFrom(next, l, i + 1, n) /\ ~Legacy(l, i)
<1>1. CASE next \in i .. n - 1 /\ Legacy(l, next) /\ NoneIn(l, i, next)
  <2>1. next \in i + 1 .. n - 1 /\ i \in i .. next - 1
    BY <1>1
  <2>2. ~Legacy(l, i) /\ NoneIn(l, i + 1, next)
    BY <1>1, <2>1 DEF NoneIn
  <2> QED
    BY <1>1, <2>1, <2>2 DEF FirstFrom
<1>2. CASE next < i /\ NoneIn(l, i, n)
  <2>1. next < i + 1 /\ i \in i .. n - 1
    BY <1>2
  <2>2. ~Legacy(l, i) /\ NoneIn(l, i + 1, n)
    BY <1>2, <2>1 DEF NoneIn
  <2> QED
    BY <2>1, <2>2 DEF FirstFrom
<1> QED
  BY <1>1, <1>2 DEF FirstFrom

LEMMA ClosedChain == ASSUME ~signing' PROVE ChainInv'
  BY DEF ChainInv

LEMMA NextInputChain ==
  ASSUME AccountInv', NEW h, phase1_request_next_input(h),
         Heads(next_nonsegwit_input', ledger'), Kinds(h, ledger', coin'),
         Len(ledger') \in Nat
  PROVE  ChainInv'
<1>1. CASE signing_stage' = "REQUEST_1_INPUT"
  <2>1. hasher' = h
    BY <1>1 DEF phase1_request_next_input
  <2>2. signing_stage' \notin PrevStages /\ signing_stage' \notin Phase2Stages
    BY <1>1, StageSets DEF PrevStages, InputStages
  <2> QED
    BY <1>1, <2>1, <2>2 DEF ChainInv
<1>2. CASE signing_stage' = "REQUEST_3_OUTPUT"
  <2>1. hash_check' = h
    BY <1>2 DEF phase1_request_next_input
  <2>2. ASSUME signing' PROVE FirstFrom(next_nonsegwit_input', ledger', 0, inputs_count')
    <3>1. Len(ledger') = inputs_count'
      BY <1>2, <2>2 DEF AccountInv, StageInv, Complete
    <3> QED
      BY <3>1, HeadsFirst
  <2>3. signing_stage' \notin PrevStages
    BY <1>2 DEF PrevStages
  <2> QED
    BY <1>2, <2>1, <2>2, <2>3 DEF ChainInv
<1> QED
  BY <1>1, <1>2 DEF phase1_request_next_input

\* One more input is counted: the chain and the kinds still fit.
LEMMA CountedChain ==
  ASSUME NEW l, IsSequence(l), NEW e, NEW next,
         \/ ~e.streamed /\ Heads(next, l)
         \/ e.streamed /\ Heading(next, l)
  PROVE  Heads(next, Append(l, e))
<1> DEFINE n == Len(l)
           m == Append(l, e)
<1>1. /\ n \in Nat /\ DOMAIN m = 1 .. n + 1 /\ IsSequence(m)
      /\ (\A i \in 1 .. n : m[i] = l[i]) /\ m[n + 1] = e
  BY AppendFacts
<1>2. Len(m) = n + 1
  BY <1>1, SequenceFacts
<1> HIDE DEF n, m
<1>3. \A j \in 0 .. n - 1 : Legacy(m, j) = Legacy(l, j)
  <2> SUFFICES ASSUME NEW j \in 0 .. n - 1 PROVE Legacy(m, j) = Legacy(l, j)
    OBVIOUS
  <2>1. j + 1 \in 1 .. n
    BY <1>1
  <2> QED
    BY <1>1, <2>1 DEF Legacy
<1>4. Legacy(m, n) = e.streamed
  BY <1>1 DEF Legacy
<1>5. CASE ~e.streamed /\ next = NoLegacyInput /\ NoneIn(l, 0, n)
  <2>1. \A j \in 0 .. (n + 1) - 1 : j \in 0 .. n - 1 \/ j = n
    BY <1>1
  <2>2. NoneIn(m, 0, n + 1)
    BY <1>3, <1>4, <1>5, <2>1 DEF NoneIn
  <2> QED
    BY <1>2, <1>5, <2>2 DEF Heads, m
<1>6. CASE next \in 0 .. n - 1 /\ Legacy(l, next) /\ NoneIn(l, 0, next)
  <2>1. \A j \in 0 .. next - 1 : j \in 0 .. n - 1
    BY <1>1, <1>6
  <2>2. Legacy(m, next) /\ NoneIn(m, 0, next)
    BY <1>3, <1>6, <2>1 DEF NoneIn
  <2>3. next \in 0 .. (n + 1) - 1
    BY <1>1, <1>6
  <2> QED
    BY <1>2, <2>2, <2>3 DEF Heads, m
<1>7. CASE e.streamed /\ next = n /\ NoneIn(l, 0, n)
  <2>1. Legacy(m, next) /\ NoneIn(m, 0, next)
    BY <1>3, <1>4, <1>7 DEF NoneIn
  <2>2. next \in 0 .. (n + 1) - 1
    BY <1>1, <1>7
  <2> QED
    BY <1>2, <2>1, <2>2 DEF Heads, m
<1>8. ASSUME Heading(next, l)
      PROVE  \/ next \in 0 .. n - 1 /\ Legacy(l, next) /\ NoneIn(l, 0, next)
             \/ next = n /\ NoneIn(l, 0, n)
  BY <1>1, <1>8 DEF Heading, n
<1> QED
  BY <1>5, <1>6, <1>7, <1>8 DEF Heads, n, m

LEMMA KindsAppend ==
  ASSUME NEW h, NEW l, IsSequence(l), NEW e, NEW c, Kinds(h, l, c),
         e.streamed <=> Streams(h[Len(l) + 1], c)
  PROVE  Kinds(h, Append(l, e), c)
<1>1. /\ Len(l) \in Nat /\ DOMAIN l = 1 .. Len(l) /\ DOMAIN Append(l, e) = 1 .. Len(l) + 1
      /\ (\A i \in 1 .. Len(l) : Append(l, e)[i] = l[i]) /\ Append(l, e)[Len(l) + 1] = e
  BY AppendFacts
<1>2. \A i \in 1 .. Len(l) + 1 : i \in 1 .. Len(l) \/ i = Len(l) + 1
  BY <1>1
<1> QED
  BY <1>1, <1>2 DEF Kinds

LEMMA HashedKinds ==
  ASSUME NEW h, IsSequence(h), NEW x, NEW l, NEW c, Kinds(h, l, c), DOMAIN l = DOMAIN h
  PROVE  Kinds(Append(h, x), l, c)
<1>1. /\ DOMAIN h = 1 .. Len(h) /\ \A i \in 1 .. Len(h) : Append(h, x)[i] = h[i]
  BY AppendFacts
<1> QED
  BY <1>1 DEF Kinds

LEMMA SameLength ==
  ASSUME NEW s, NEW t, IsSequence(s), IsSequence(t), PrevoutsOf(s) = PrevoutsOf(t)
  PROVE  Len(s) = Len(t) /\ DOMAIN s = DOMAIN t
  BY PrevoutsAppend DEF PrevoutsOf

LEMMA InputChain ==
  ASSUME TypeOK, MoneyInv, AccountInv, AccountInv', ChainInv, NEW m \in InputMsgs,
         RefuseInput(m) \/ CheckInputWithAmount(m) \/ CheckInputLegacy(m)
  PROVE  ChainInv'
<1>1. signing /\ signing_stage = "REQUEST_1_INPUT"
  BY DEF RefuseInput, CheckInputWithAmount, CheckInputLegacy, AtStage
<1>2. Heads(next_nonsegwit_input, ledger) /\ Kinds(hasher, ledger, coin) /\ Whole
  BY <1>1 DEF ChainInv, AccountInv, StageInv
<1>3. /\ IsSequence(hasher) /\ IsSequence(ledger) /\ Len(ledger) \in Nat
      /\ DOMAIN ledger = 1 .. Len(ledger)
  BY StageTypes
<1>4. Len(hasher) = Len(ledger) /\ DOMAIN hasher = DOMAIN ledger /\ idx1 = Len(ledger)
  BY <1>2, <1>3, SameLength DEF Whole
<1>5. ASSUME signing', signing_check_input(m)
      PROVE  /\ HashAfter(m) = Append(hasher, HashedInput(m))
             /\ HashAfter(m)[Len(ledger) + 1] = HashedInput(m)
             /\ Kinds(HashAfter(m), ledger, coin)
             /\ HashedInput(m).kind = m.kind
  <2>1. HashAfter(m) = Append(hasher, HashedInput(m))
    BY <1>5 DEF signing_check_input, HashAfter
  <2>2. HashAfter(m)[Len(ledger) + 1] = HashedInput(m)
    BY <1>3, <1>4, <2>1, AppendFacts
  <2>3. Kinds(HashAfter(m), ledger, coin)
    BY <1>2, <1>3, <1>4, <2>1, HashedKinds
  <2> QED
    BY <2>1, <2>2, <2>3 DEF HashedInput
<1>6. ASSUME signing', CheckInputWithAmount(m) PROVE ChainInv'
  <2> DEFINE e == [prevout |-> m.prevout, amount |-> m.amount, streamed |-> FALSE]
  <2>1. /\ ledger' = Append(ledger, e) /\ phase1_request_next_input(HashAfter(m))
        /\ UNCHANGED <<coin, next_nonsegwit_input>> /\ signing_check_input(m)
        /\ AmountInMessage(m)
    BY <1>6 DEF CheckInputWithAmount
  <2>2. ~e.streamed
    OBVIOUS
  <2> HIDE DEF e
  <2>3. ~Streams(HashedInput(m), coin)
    BY <1>5, <1>6, <2>1 DEF Streams, AmountInMessage, IsSegwit, IsLegacy
  <2>4. Kinds(HashAfter(m), ledger', coin')
    BY <1>3, <1>5, <1>6, <2>1, <2>2, <2>3, KindsAppend
  <2>5. Heads(next_nonsegwit_input', ledger')
    BY <1>2, <1>3, <2>1, <2>2, CountedChain
  <2>6. Len(ledger') \in Nat
    BY <1>3, <2>1, AppendFacts, SequenceFacts
  <2> QED
    BY <2>1, <2>4, <2>5, <2>6, NextInputChain
<1>7. ASSUME signing', CheckInputLegacy(m) PROVE ChainInv'
  <2>1. /\ signing_stage' = "REQUEST_2_PREV_META" /\ hasher' = HashAfter(m)
        /\ signing_check_input(m) /\ IsLegacy(m) /\ ~coin.force_bip143
        /\ next_nonsegwit_input' = IF next_nonsegwit_input = NoLegacyInput
                                   THEN idx1 ELSE next_nonsegwit_input
        /\ UNCHANGED <<ledger, coin>>
    BY <1>7 DEF CheckInputLegacy
  <2>2. Streams(hasher'[Len(ledger') + 1], coin')
    BY <1>5, <1>7, <2>1 DEF Streams, IsLegacy
  <2>3. Kinds(hasher', ledger', coin')
    BY <1>5, <1>7, <2>1
  <2>4. Heading(next_nonsegwit_input', ledger')
    <3>1. CASE next_nonsegwit_input = NoLegacyInput
      BY <1>2, <1>3, <1>4, <2>1, <3>1 DEF Heads, Heading, NoLegacyInput
    <3>2. CASE next_nonsegwit_input # NoLegacyInput
      BY <1>2, <1>3, <2>1, <3>2 DEF Heads, Heading
    <3> QED
      BY <3>1, <3>2
  <2>5. ~Counted' /\ signing_stage' \notin Phase2Stages
    BY <2>1 DEF Counted, Phase2Stages, Phase1Stages
  <2> QED
    BY <2>1, <2>2, <2>3, <2>4, <2>5 DEF ChainInv
<1>8. ASSUME RefuseInput(m) PROVE ChainInv'
  <2>1. ~signing'
    BY <1>8 DEF RefuseInput
  <2> QED
    BY <2>1, ClosedChain
<1> QED
  BY <1>6, <1>7, <1>8, ClosedChain

LEMMA FailChain == ASSUME NEW r, Fail(r) PROVE ChainInv'
  BY ClosedChain DEF Fail

LEMMA PrevChain ==
  ASSUME TypeOK, MoneyInv, AccountInv, AccountInv', ChainInv,
         \/ \E meta \in MetaMsgs : PrevMeta(meta)
         \/ \E same \in BOOLEAN : PrevInput(same)
         \/ \E amount \in PrevAmounts, same \in BOOLEAN : PrevOutput(amount, same)
         \/ \E size \in 0 .. 2, same \in BOOLEAN : PrevExtraData(size, same)
  PROVE  ChainInv'
<1>0. CASE Fail("Failure")
  BY <1>0, FailChain
<1>a. /\ IsSequence(ledger) /\ idx2 \in Nat /\ input.index \in Nat /\ tp.outs \in Nat
      /\ Len(ledger) \in Nat
  BY StageTypes DEF TpType
<1>b. /\ PrevStages \cap (Phase2Stages \cup {"REQUEST_1_INPUT", "REQUEST_3_OUTPUT",
                           "REQUEST_4_INPUT", "REQUEST_4_OUTPUT", "REQUEST_SEGWIT_INPUT",
                           "REQUEST_5_OUTPUT", "REQUEST_SEGWIT_WITNESS"}) = {}
      /\ "REQUEST_2_PREV_META" \in PrevStages /\ "REQUEST_2_PREV_INPUT" \in PrevStages
      /\ "REQUEST_2_PREV_OUTPUT" \in PrevStages /\ "REQUEST_2_PREV_EXTRADATA" \in PrevStages
  BY DEF PrevStages, Phase2Stages, Phase1Stages
<1>c. signing /\ signing_stage \in PrevStages =>
        /\ Kinds(hasher, ledger, coin)
        /\ IF Counted THEN Heads(next_nonsegwit_input, ledger)
           ELSE /\ Heading(next_nonsegwit_input, ledger)
                /\ Streams(hasher[Len(ledger) + 1], coin)
  BY DEF ChainInv
\* The stream goes on, and the chain is as before.
<1>d. ASSUME signing, signing_stage \in PrevStages, signing_stage' \in PrevStages,
             Counted' <=> Counted,
             UNCHANGED <<ledger, hasher, coin, next_nonsegwit_input>>
      PROVE  ChainInv'
  BY <1>b, <1>c, <1>d DEF ChainInv
<1>1. ASSUME NEW meta \in MetaMsgs, PrevMeta(meta), ~Fail("Failure") PROVE ChainInv'
  <2>1. /\ signing /\ signing_stage = "REQUEST_2_PREV_META" /\ idx2' = 0
        /\ signing_stage' \in {"REQUEST_2_PREV_INPUT", "REQUEST_2_PREV_OUTPUT"}
        /\ UNCHANGED <<ledger, hasher, coin, next_nonsegwit_input, input>>
    BY <1>1 DEF PrevMeta, AtStage
  <2>2. ~Counted /\ ~Counted'
    BY <1>a, <2>1 DEF Counted
  <2> QED
    BY <1>b, <1>d, <2>1, <2>2
<1>2. ASSUME NEW same \in BOOLEAN, PrevInput(same) PROVE ChainInv'
  <2>1. /\ signing /\ signing_stage = "REQUEST_2_PREV_INPUT"
        /\ (signing_stage' = "REQUEST_2_PREV_OUTPUT" => idx2' = 0)
        /\ signing_stage' \in {"REQUEST_2_PREV_INPUT", "REQUEST_2_PREV_OUTPUT"}
        /\ UNCHANGED <<ledger, hasher, coin, next_nonsegwit_input, input>>
    BY <1>2 DEF PrevInput, AtStage
  <2>2. ~Counted /\ ~Counted'
    BY <1>a, <2>1 DEF Counted
  <2> QED
    BY <1>b, <1>d, <2>1, <2>2
<1>3. ASSUME NEW amount \in PrevAmounts, NEW same \in BOOLEAN, PrevOutput(amount, same),
             ~Fail("Failure")
      PROVE  ChainInv'
  <2> DEFINE e == [prevout |-> input, amount |-> amount, streamed |-> TRUE]
             wanted == idx2 = input.index
             good == tp.same /\ same /\ RealAmount(amount)
             last == idx2 >= tp.outs - 1
  <2>1. signing_stage = "REQUEST_2_PREV_OUTPUT" /\ signing
    BY <1>3 DEF PrevOutput, AtStage
  <2>2. /\ ledger' = IF wanted THEN Append(ledger, e) ELSE ledger
        /\ UNCHANGED <<coin, input, next_nonsegwit_input>>
    BY <1>3 DEF PrevOutput, signing_check_prevtx_hash
  <2>3. \/ /\ ~last /\ idx2' = idx2 + 1
           /\ UNCHANGED <<signing, signing_stage, idx1, hasher>>
        \/ /\ last /\ signing_stage' = "REQUEST_2_PREV_EXTRADATA"
           /\ UNCHANGED <<signing, idx1, idx2, hasher>>
        \/ last /\ signing_check_prevtx_hash(good)
    BY <1>3, Zenon DEF PrevOutput
  <2>4. input.index < tp.outs
    BY <2>1 DEF AccountInv, StageInv
  <2>5. e.streamed
    OBVIOUS
  <2> HIDE DEF e, good
  <2>6. last => idx2 >= input.index
    BY <1>a, <2>4
  <2>7. ASSUME idx2 >= input.index
        PROVE  /\ Heads(next_nonsegwit_input', ledger') /\ Kinds(hasher, ledger', coin')
               /\ Len(ledger') \in Nat
    <3>1. CASE wanted
      <4>1. ~Counted
        BY <1>a, <2>1, <3>1 DEF Counted
      <4>2. Heading(next_nonsegwit_input, ledger) /\ Streams(hasher[Len(ledger) + 1], coin)
            /\ Kinds(hasher, ledger, coin)
        BY <1>b, <1>c, <2>1, <4>1
      <4>3. ledger' = Append(ledger, e)
        BY <2>2, <3>1
      <4>4. Heads(next_nonsegwit_input', ledger')
        BY <1>a, <2>2, <2>5, <4>2, <4>3, CountedChain
      <4>5. Kinds(hasher, ledger', coin')
        BY <1>a, <2>2, <2>5, <4>2, <4>3, KindsAppend
      <4>6. Len(ledger') \in Nat
        BY <1>a, <4>3, AppendFacts, SequenceFacts
      <4> QED
        BY <4>4, <4>5, <4>6
    <3>2. CASE ~wanted
      <4>1. idx2 > input.index
        BY <1>a, <2>7, <3>2
      <4>2. Counted
        BY <2>1, <4>1 DEF Counted
      <4> QED
        BY <1>a, <1>b, <1>c, <2>1, <2>2, <3>2, <4>2
    <3> QED
      BY <3>1, <3>2
  <2>8. CASE ~last /\ idx2' = idx2 + 1 /\ UNCHANGED <<signing, signing_stage, idx1, hasher>>
    <3>1. CASE idx2 >= input.index
      <4>1. idx2 + 1 > input.index
        BY <1>a, <3>1
      <4>2. Counted'
        BY <2>1, <2>2, <2>8, <4>1 DEF Counted
      <4> QED
        BY <1>b, <2>1, <2>7, <2>8, <3>1, <4>2 DEF ChainInv
    <3>2. CASE ~(idx2 >= input.index)
      <4>1. ~(idx2 > input.index) /\ ~(idx2 + 1 > input.index) /\ idx2 # input.index
        BY <1>a, <3>2
      <4>2. ~Counted /\ ~Counted' /\ ledger' = ledger
        BY <2>1, <2>2, <2>8, <4>1 DEF Counted
      <4> QED
        BY <1>b, <1>d, <2>1, <2>2, <2>8, <4>2
    <3> QED
      BY <3>1, <3>2
  <2>9. CASE /\ last /\ signing_stage' = "REQUEST_2_PREV_EXTRADATA"
             /\ UNCHANGED <<signing, idx1, idx2, hasher>>
    <3>1. Counted'
      BY <2>9 DEF Counted
    <3> QED
      BY <1>b, <2>6, <2>7, <2>9, <3>1 DEF ChainInv
  <2>10. CASE last /\ signing_check_prevtx_hash(good)
    <3>1. phase1_request_next_input(hasher)
      BY <2>10 DEF signing_check_prevtx_hash
    <3> QED
      BY <2>6, <2>7, <2>10, <3>1, NextInputChain
  <2> QED
    BY <2>3, <2>8, <2>9, <2>10
<1>4. ASSUME NEW size \in 0 .. 2, NEW same \in BOOLEAN, PrevExtraData(size, same),
             ~Fail("Failure")
      PROVE  ChainInv'
  <2>1. signing_stage = "REQUEST_2_PREV_EXTRADATA" /\ signing
    BY <1>4 DEF PrevExtraData, AtStage
  <2>2. /\ UNCHANGED <<ledger, coin, next_nonsegwit_input>>
        /\ \/ UNCHANGED <<control, hasher, hash_check>>
           \/ phase1_request_next_input(hasher)
    BY <1>4 DEF PrevExtraData, signing_check_prevtx_hash
  <2>3. Counted
    BY <2>1 DEF Counted
  <2>4. CASE UNCHANGED <<control, hasher, hash_check>>
    <3>1. Counted' /\ signing_stage' = signing_stage
      BY <2>1, <2>4 DEF Counted
    <3> QED
      BY <1>b, <1>d, <2>1, <2>2, <2>3, <2>4, <3>1
  <2>5. CASE phase1_request_next_input(hasher)
    BY <1>a, <1>b, <1>c, <2>1, <2>2, <2>3, <2>5, NextInputChain
  <2> QED
    BY <2>2, <2>4, <2>5
<1> QED
  BY <1>0, <1>1, <1>2, <1>3, <1>4

\* Phase 2 turns to input i.
LEMMA EnterInput ==
  ASSUME NEW i \in Nat, idx1' = i, inputs_count' \in Nat, i < inputs_count',
         Kinds(hash_check', ledger', coin'),
         FirstFrom(next_nonsegwit_input', ledger', i, inputs_count'),
         Progress(sigs', ledger', i, inputs_count'),
         \/ signing_stage' = "REQUEST_4_INPUT" /\ idx2' = 0 /\ next_nonsegwit_input' = i
         \/ signing_stage' = "REQUEST_SEGWIT_INPUT" /\ next_nonsegwit_input' # i
  PROVE  ChainInv'
<1>1. /\ signing_stage' \notin PrevStages /\ signing_stage' # "REQUEST_1_INPUT"
      /\ signing_stage' # "REQUEST_3_OUTPUT" /\ signing_stage' # "REQUEST_4_OUTPUT"
      /\ signing_stage' \notin {"REQUEST_5_OUTPUT", "REQUEST_SEGWIT_WITNESS"}
  BY DEF PrevStages
<1>2. CASE signing_stage' = "REQUEST_4_INPUT" /\ idx2' = 0 /\ next_nonsegwit_input' = i
  <2>1. Legacy(ledger', i)
    <3>1. FirstFrom(i, ledger', i, inputs_count')
      BY <1>2
    <3>2. ~(i < i)
      OBVIOUS
    <3> QED
      BY ONLY <3>1, <3>2 DEF FirstFrom
  <2>2. Before' = <<>> /\ Len(<<>>) = 0
    BY <1>2 DEF Before
  <2>3. Chain(i, <<>>, i, 0)
    BY DEF Chain
  <2> QED
    BY <1>1, <1>2, <2>1, <2>2, <2>3 DEF ChainInv
<1>3. CASE signing_stage' = "REQUEST_SEGWIT_INPUT" /\ next_nonsegwit_input' # i
  BY <1>1, <1>3 DEF ChainInv
<1> QED
  BY <1>2, <1>3

\* From one input to the next, or on to the outputs when all are done.
LEMMA NextInputToSign ==
  ASSUME idx1 \in Nat, inputs_count \in Nat, idx1 < inputs_count, NextToSign,
         UNCHANGED <<inputs_count, next_nonsegwit_input>>,
         Kinds(hash_check', ledger', coin'),
         FirstFrom(next_nonsegwit_input, ledger', idx1 + 1, inputs_count),
         Progress(sigs', ledger', idx1 + 1, inputs_count)
  PROVE  ChainInv'
<1>1. CASE /\ idx1 < inputs_count - 1 /\ idx1' = idx1 + 1
           /\ phase2_request_next_input(idx1 + 1, next_nonsegwit_input)
  <2>1. PICK i \in Nat : i = idx1 + 1
    OBVIOUS
  <2>2. i < inputs_count' /\ inputs_count' \in Nat
    BY <1>1, <2>1
  <2>3. \/ signing_stage' = "REQUEST_4_INPUT" /\ idx2' = 0 /\ next_nonsegwit_input' = i
        \/ signing_stage' = "REQUEST_SEGWIT_INPUT" /\ next_nonsegwit_input' # i
    BY <1>1, <2>1 DEF phase2_request_next_input
  <2> QED
    BY <1>1, <2>1, <2>2, <2>3, EnterInput
<1>2. CASE idx1 >= inputs_count - 1 /\ signing_stage' = "REQUEST_5_OUTPUT"
  <2>1. idx1 + 1 = inputs_count
    BY <1>2
  <2>2. Progress(sigs', ledger', inputs_count', inputs_count')
    BY <2>1
  <2>3. signing_stage' \notin PrevStages
    BY <1>2 DEF PrevStages
  <2> QED
    BY <1>2, <2>2, <2>3 DEF ChainInv
<1> QED
  BY <1>1, <1>2 DEF NextToSign

LEMMA OutputChain ==
  ASSUME TypeOK, ApprovalInv, ChainInv, NEW o \in OutputMsgs,
         RefuseOutput(o) \/ CheckOutput(o)
  PROVE  ChainInv'
<1>1. CASE RefuseOutput(o)
  BY <1>1, FailChain DEF RefuseOutput
<1>2. CASE CheckOutput(o)
  <2>1. signing /\ signing_stage = "REQUEST_3_OUTPUT"
    BY <1>2 DEF CheckOutput, AtStage
  <2>2. /\ Kinds(hash_check, ledger, coin)
        /\ FirstFrom(next_nonsegwit_input, ledger, 0, inputs_count)
    BY <2>1 DEF ChainInv
  <2>3. UNCHANGED <<ledger, hash_check, inputs_count, coin, sigs, next_nonsegwit_input>>
    BY <1>2 DEF CheckOutput
  <2>4. CASE signing_stage' = signing_stage
    <3>1. signing_stage' = "REQUEST_3_OUTPUT" /\ signing_stage' \notin PrevStages
      BY <2>1, <2>4 DEF PrevStages
    <3> QED
      BY <2>2, <2>3, <3>1 DEF ChainInv
  <2>5. CASE idx1' = 0 /\ phase2_request_next_input(0, next_nonsegwit_input)
    <3>1. sigs = <<>>
      BY <2>1, StageSets DEF ApprovalInv
    <3>2. Progress(sigs', ledger', 0, inputs_count')
      BY <2>3, <3>1 DEF Progress, SignedFor
    <3>3. 0 < inputs_count' /\ inputs_count' \in Nat
      BY <2>1, <2>3 DEF TypeOK
    <3>4. \/ signing_stage' = "REQUEST_4_INPUT" /\ idx2' = 0 /\ next_nonsegwit_input' = 0
          \/ signing_stage' = "REQUEST_SEGWIT_INPUT" /\ next_nonsegwit_input' # 0
      BY <2>3, <2>5 DEF phase2_request_next_input
    <3> QED
      BY <2>2, <2>3, <2>5, <3>2, <3>3, <3>4, EnterInput
  <2> QED
    BY <1>2, <2>4, <2>5 DEF CheckOutput
<1> QED
  BY <1>1, <1>2

\* One more input goes into the legacy digest of input i.
LEMMA ChainExtends ==
  ASSUME NEW next, NEW h, IsSequence(h), NEW x, NEW i \in Nat, NEW n \in Nat,
         Len(h) = n, Chain(next, h, i, n),
         NEW next2,
         next2 = IF next = i /\ n > i /\ x.kind = "SPENDADDRESS" THEN n ELSE next
  PROVE  Chain(next2, Append(h, x), i, n + 1)
<1> DEFINE t == Append(h, x)
<1>1. (\A k \in 1 .. n : t[k] = h[k]) /\ t[n + 1] = x
  BY AppendFacts
<1> HIDE DEF t
<1>2. \A j \in i + 1 .. n - 1 : t[j + 1] = h[j + 1]
  <2> SUFFICES ASSUME NEW j \in i + 1 .. n - 1 PROVE t[j + 1] = h[j + 1]
    OBVIOUS
  <2>1. j + 1 \in 1 .. n
    OBVIOUS
  <2> QED
    BY <1>1, <2>1
<1>3. CASE /\ next \in i + 1 .. n - 1 /\ h[next + 1].kind = "SPENDADDRESS"
           /\ \A j \in i + 1 .. next - 1 : h[j + 1].kind # "SPENDADDRESS"
  <2>1. next2 = next /\ next \in i + 1 .. (n + 1) - 1
    BY <1>3
  <2>2. \A j \in i + 1 .. next - 1 : j \in i + 1 .. n - 1
    BY <1>3
  <2> QED
    BY <1>2, <1>3, <2>1, <2>2 DEF Chain, t
<1>4. CASE next = i /\ \A j \in i + 1 .. n - 1 : h[j + 1].kind # "SPENDADDRESS"
  <2>1. CASE n > i /\ x.kind = "SPENDADDRESS"
    <3>1. next2 = n /\ n \in i + 1 .. (n + 1) - 1
      BY <1>4, <2>1
    <3> QED
      BY <1>1, <1>2, <1>4, <2>1, <3>1 DEF Chain, t
  <2>2. CASE ~(n > i /\ x.kind = "SPENDADDRESS")
    <3>1. next2 = i
      <4>1. next2 = next \/ (n > i /\ x.kind = "SPENDADDRESS")
        OBVIOUS
      <4> QED
        BY <1>4, <2>2, <4>1
    <3>2. ASSUME NEW j \in i + 1 .. (n + 1) - 1 PROVE t[j + 1].kind # "SPENDADDRESS"
      <4>1. CASE j = n
        <5>1. n > i
          BY <4>1
        <5> QED
          BY <1>1, <2>2, <4>1, <5>1
      <4>2. CASE j # n
        <5>1. j \in i + 1 .. n - 1
          BY <4>2
        <5> QED
          BY <1>2, <1>4, <5>1
      <4> QED
        BY <4>1, <4>2
    <3> QED
      BY <3>1, <3>2 DEF Chain, t
  <2> QED
    BY <2>1, <2>2
<1> QED
  BY <1>3, <1>4 DEF Chain

\* When all inputs have been streamed and compared, the chain is exact.
LEMMA ChainCloses ==
  ASSUME NEW next, NEW h, NEW l, NEW c, NEW i \in Nat, NEW n \in Nat, i < n,
         DOMAIN h = 1 .. n, DOMAIN l = 1 .. n,
         Kinds(h, l, c), Legacy(l, i), Chain(next, h, i, n)
  PROVE  FirstFrom(next, l, i + 1, n)
<1>1. \A j \in 0 .. n - 1 : Legacy(l, j) <=> Streams(h[j + 1], c)
  <2> SUFFICES ASSUME NEW j \in 0 .. n - 1 PROVE Legacy(l, j) <=> Streams(h[j + 1], c)
    OBVIOUS
  <2>1. j + 1 \in 1 .. n
    OBVIOUS
  <2> QED
    BY <2>1 DEF Kinds, Legacy
<1>2. ~c.force_bip143
  <2>1. i \in 0 .. n - 1
    OBVIOUS
  <2> QED
    BY <1>1, <2>1 DEF Streams
<1>3. \A j \in 0 .. n - 1 : Legacy(l, j) <=> h[j + 1].kind = "SPENDADDRESS"
  BY <1>1, <1>2 DEF Streams
<1>4. CASE /\ next \in i + 1 .. n - 1 /\ h[next + 1].kind = "SPENDADDRESS"
           /\ \A j \in i + 1 .. next - 1 : h[j + 1].kind # "SPENDADDRESS"
  <2>1. next \in 0 .. n - 1 /\ \A j \in i + 1 .. next - 1 : j \in 0 .. n - 1
    BY <1>4
  <2> QED
    BY <1>3, <1>4, <2>1 DEF FirstFrom, NoneIn
<1>5. CASE next = i /\ \A j \in i + 1 .. n - 1 : h[j + 1].kind # "SPENDADDRESS"
  <2>1. next < i + 1 /\ \A j \in i + 1 .. n - 1 : j \in 0 .. n - 1
    BY <1>5
  <2> QED
    BY <1>3, <1>5, <2>1 DEF FirstFrom, NoneIn
<1> QED
  BY <1>4, <1>5 DEF Chain

LEMMA ChargeKeepsChain ==
  ASSUME IsSequence(sigs), NEW m, signing_hash_bip143(m)
  PROVE  \A j : SignedFor(sigs', j) = SignedFor(sigs, j)
<1> DEFINE s == [form |-> "bip143", idx |-> idx1, ins |-> Prevouts1,
                 prevout |-> m.prevout, amount |-> m.amount,
                 outs |-> hash_outputs, key |-> Key(m.path)]
<1>1. sigs' = Append(sigs, s)
  BY DEF signing_hash_bip143
<1>2. s.form # "legacy"
  OBVIOUS
<1> HIDE DEF s
<1> QED
  BY <1>1, <1>2, SignedForAppend

\* Only a session that has gone through all inputs is reported finished.
LEMMA FinishedAfterAll ==
  ASSUME inputs_count = Len(ledger), Progress(sigs', ledger', inputs_count, inputs_count),
         ledger' = ledger
  PROVE  FinishInv'
  BY DEF FinishInv, Progress

LEMMA NotFinished ==
  ASSUME NEW r, r # "TxFinished", resp' = <<r>> \/ resp' = <<"Failure", r>>
  PROVE  FinishInv'
<1>1. <<r>> # <<"TxFinished">> /\ <<"Failure", r>> # <<"TxFinished">>
  OBVIOUS
<1> QED
  BY <1>1 DEF FinishInv

LEMMA FailNotFinished ==
  ASSUME NEW r \in {"Failure", "Features"}, Fail(r) PROVE FinishInv'
  BY NotFinished DEF Fail

LEMMA SignChain ==
  ASSUME TypeOK, ApprovalInv, MoneyInv, AccountInv, ChainInv,
         \/ \E m \in InputMsgs : SignInputPart(m) \/ SegwitInput(m) \/ SegwitWitness(m)
         \/ \E o \in OutputMsgs : SignOutputPart(o) \/ SerializeOutput(o)
  PROVE  ChainInv' /\ FinishInv'
<1>0. CASE Fail("Failure")
  BY <1>0, FailChain, FailNotFinished
<1>a. /\ inputs_count \in Nat /\ idx1 \in Nat /\ idx2 \in Nat /\ IsSequence(hasher)
      /\ Len(ledger) \in Nat /\ DOMAIN ledger = 1 .. Len(ledger) /\ IsSequence(sigs)
      /\ next_nonsegwit_input \in Int
  BY StageTypes DEF ApprovalInv, TypeOK, NoLegacyInput
<1>b. /\ signing /\ signing_stage \in Phase2Stages => Complete /\ Kinds(hash_check, ledger, coin)
      /\ signing /\ signing_stage \in {"REQUEST_4_INPUT", "REQUEST_4_OUTPUT",
                                       "REQUEST_SEGWIT_INPUT"} =>
           idx1 < inputs_count /\ Progress(sigs, ledger, idx1, inputs_count)
  BY DEF AccountInv, StageInv, ChainInv
<1>c. {"REQUEST_4_INPUT", "REQUEST_4_OUTPUT", "REQUEST_SEGWIT_INPUT",
       "REQUEST_5_OUTPUT", "REQUEST_SEGWIT_WITNESS"} \subseteq Phase2Stages
  BY DEF Phase2Stages, Stages, Phase1Stages
<1>1. ASSUME NEW m \in InputMsgs, SignInputPart(m), ~Fail("Failure")
      PROVE  ChainInv' /\ FinishInv'
  <2> DEFINE checked == Append(Before, HashedInput(m))
             last == idx2 >= inputs_count - 1
  <2>1. signing_stage = "REQUEST_4_INPUT" /\ signing
    BY <1>1 DEF SignInputPart, AtStage
  <2>2. /\ Complete /\ Kinds(hash_check, ledger, coin) /\ idx1 < inputs_count
        /\ Progress(sigs, ledger, idx1, inputs_count)
    BY <1>b, <1>c, <2>1
  <2>3. /\ Legacy(ledger, idx1) /\ idx2 < inputs_count /\ Len(Before) = idx2
        /\ Chain(next_nonsegwit_input, Before, idx1, idx2)
    BY <2>1 DEF ChainInv
  <2>4. /\ last => checked = hash_check
        /\ hasher' = IF last THEN <<>> ELSE checked
        /\ idx2' = IF last THEN 0 ELSE idx2 + 1
        /\ signing_stage' = IF last THEN "REQUEST_4_OUTPUT" ELSE "REQUEST_4_INPUT"
    BY <1>1 DEF SignInputPart, InputsMatch, Before
  <2>5. /\ UNCHANGED <<ledger, hash_check, inputs_count, sigs, idx1, coin>>
        /\ next_nonsegwit_input' = NextLegacyInput(m) /\ resp' = <<"TxRequest">>
    BY <1>1 DEF SignInputPart
  <2>6. FinishInv'
    BY <2>5, NotFinished
  <2>7. IsSequence(Before)
    <3>1. <<>> \in Seq({})
      OBVIOUS
    <3> QED
      BY <1>a, <3>1 DEF Before, IsSequence
  <2>8. Chain(next_nonsegwit_input', checked, idx1, idx2 + 1)
    <3>1. HashedInput(m).kind = m.kind
      BY DEF HashedInput
    <3>2. next_nonsegwit_input'
            = IF next_nonsegwit_input = idx1 /\ idx2 > idx1
                 /\ HashedInput(m).kind = "SPENDADDRESS"
              THEN idx2 ELSE next_nonsegwit_input
      BY <2>5, <3>1 DEF NextLegacyInput, IsLegacy
    <3> QED
      BY <1>a, <2>3, <2>7, <3>2, ChainExtends
  <2>9. /\ IsSequence(checked) /\ Len(checked) = idx2 + 1
        /\ DOMAIN checked = 1 .. idx2 + 1
    <3>1. IsSequence(checked) /\ DOMAIN checked = 1 .. idx2 + 1
      BY <2>3, <2>7, AppendFacts
    <3> QED
      BY <1>a, <3>1, SequenceFacts
  <2> HIDE DEF checked, last
  <2>10. CASE last
    <3>1. idx2 + 1 = inputs_count
      BY <1>a, <2>3, <2>10 DEF last
    <3>2. FirstFrom(next_nonsegwit_input', ledger, idx1 + 1, inputs_count)
      <4>1. checked = hash_check /\ DOMAIN hash_check = 1 .. inputs_count
        BY <2>4, <2>9, <2>10, <3>1
      <4>2. DOMAIN ledger = 1 .. inputs_count
        BY <1>a, <2>2 DEF Complete
      <4>3. Chain(next_nonsegwit_input', hash_check, idx1, inputs_count)
        BY <2>8, <3>1, <4>1
      <4> QED
        BY <1>a, <2>2, <2>3, <4>1, <4>2, <4>3, ChainCloses
    <3>3. signing_stage' = "REQUEST_4_OUTPUT" /\ signing_stage' \notin PrevStages
      BY <2>4, <2>10 DEF PrevStages
    <3>4. ChainInv'
      BY <2>2, <2>3, <2>5, <3>2, <3>3 DEF ChainInv
    <3> QED
      BY <2>6, <3>4
  <2>11. CASE ~last
    <3>1. Before' = checked /\ idx2' = idx2 + 1
      BY <1>a, <2>4, <2>11 DEF Before
    <3>2. idx2' < inputs_count
      BY <1>a, <2>11, <3>1 DEF last
    <3>3. signing_stage' = "REQUEST_4_INPUT" /\ signing_stage' \notin PrevStages
      BY <2>4, <2>11 DEF PrevStages
    <3>4. Chain(next_nonsegwit_input', Before', idx1', idx2') /\ Len(Before') = idx2'
      BY <2>5, <2>8, <2>9, <3>1
    <3>5. ChainInv'
      BY <2>2, <2>3, <2>5, <3>2, <3>3, <3>4 DEF ChainInv
    <3> QED
      BY <2>6, <3>5
  <2> QED
    BY <2>10, <2>11
<1>2. ASSUME NEW o \in OutputMsgs, SignOutputPart(o), ~Fail("Failure")
      PROVE  ChainInv' /\ FinishInv'
  <2> DEFINE sig == [form |-> "legacy", idx |-> idx1, ins |-> ti.ins,
                     prevout |-> ti.ins[idx1 + 1], amount |-> 0,
                     outs |-> Append(ti.outs, compile_output(o)), key |-> ti.key]
  <2>1. signing_stage = "REQUEST_4_OUTPUT" /\ signing
    BY <1>2 DEF SignOutputPart, AtStage
  <2>2. /\ Complete /\ Kinds(hash_check, ledger, coin) /\ idx1 < inputs_count
        /\ Progress(sigs, ledger, idx1, inputs_count)
        /\ FirstFrom(next_nonsegwit_input, ledger, idx1 + 1, inputs_count)
        /\ Legacy(ledger, idx1)
    BY <1>b, <1>c, <2>1 DEF ChainInv
  <2>3. /\ UNCHANGED <<ledger, hash_check, inputs_count, coin, next_nonsegwit_input>>
        /\ resp' = <<"TxRequest">>
        /\ \/ UNCHANGED <<signing_stage, idx1, sigs>>
           \/ sigs' = Append(sigs, sig) /\ NextToSign
    BY <1>2, Zenon DEF SignOutputPart
  <2>4. sig.form = "legacy" /\ sig.idx = idx1
    OBVIOUS
  <2> HIDE DEF sig
  <2>5. FinishInv'
    BY <2>3, NotFinished
  <2>6. CASE UNCHANGED <<signing_stage, idx1, sigs>>
    <3>1. signing_stage' = "REQUEST_4_OUTPUT" /\ signing_stage' \notin PrevStages
      BY <2>1, <2>6 DEF PrevStages
    <3> QED
      BY <2>2, <2>3, <2>5, <2>6, <3>1 DEF ChainInv
  <2>7. CASE sigs' = Append(sigs, sig) /\ NextToSign
    <3>1. Progress(sigs', ledger', idx1 + 1, inputs_count)
      BY <1>a, <2>2, <2>3, <2>4, <2>7, ProgressSigns
    <3> QED
      BY <1>a, <2>2, <2>3, <2>5, <2>7, <3>1, NextInputToSign
  <2> QED
    BY <2>3, <2>6, <2>7
<1>3. ASSUME NEW m \in InputMsgs, SegwitInput(m), ~Fail("Failure")
      PROVE  ChainInv' /\ FinishInv'
  <2>1. signing_stage = "REQUEST_SEGWIT_INPUT" /\ signing
    BY <1>3 DEF SegwitInput, AtStage
  <2>2. /\ Complete /\ Kinds(hash_check, ledger, coin) /\ idx1 < inputs_count
        /\ Progress(sigs, ledger, idx1, inputs_count)
        /\ FirstFrom(next_nonsegwit_input, ledger, idx1, inputs_count)
        /\ next_nonsegwit_input # idx1
    BY <1>b, <1>c, <2>1 DEF ChainInv
  <2>3. /\ UNCHANGED <<ledger, hash_check, inputs_count, coin, next_nonsegwit_input>>
        /\ resp' = <<"TxRequest">> /\ NextToSign
        /\ signing_hash_bip143(m) \/ sigs' = sigs
    BY <1>3 DEF SegwitInput
  <2>4. FinishInv'
    BY <2>3, NotFinished
  <2>5. FirstFrom(next_nonsegwit_input, ledger, idx1 + 1, inputs_count) /\ ~Legacy(ledger, idx1)
    BY <1>a, <2>2, FirstMoves
  <2>6. Progress(sigs, ledger, idx1 + 1, inputs_count)
    BY <1>a, <2>2, <2>5, ProgressSkips
  <2>7. Progress(sigs', ledger', idx1 + 1, inputs_count)
    BY <1>a, <2>3, <2>6, ProgressKept, ChargeKeepsChain
  <2> QED
    BY <1>a, <2>2, <2>3, <2>4, <2>5, <2>7, NextInputToSign
<1>4. ASSUME NEW o \in OutputMsgs, SerializeOutput(o), ~Fail("Failure")
      PROVE  ChainInv' /\ FinishInv'
  <2>1. signing_stage = "REQUEST_5_OUTPUT" /\ signing
    BY <1>4 DEF SerializeOutput, AtStage
  <2>2. /\ Complete /\ Kinds(hash_check, ledger, coin)
        /\ Progress(sigs, ledger, inputs_count, inputs_count)
    BY <1>b, <1>c, <2>1 DEF ChainInv
  <2>3. UNCHANGED <<ledger, hash_check, inputs_count, coin, sigs>>
    BY <1>4 DEF SerializeOutput
  <2>4. FinishInv'
    BY <2>2, <2>3, FinishedAfterAll DEF Complete
  <2>5. /\ signing_stage' \in {"REQUEST_5_OUTPUT", "REQUEST_SEGWIT_WITNESS"}
        /\ signing_stage' \notin PrevStages
    BY <1>4, <2>1 DEF SerializeOutput, Finish, PrevStages
  <2> QED
    BY <2>2, <2>3, <2>4, <2>5 DEF ChainInv
<1>5. ASSUME NEW m \in InputMsgs, SegwitWitness(m), ~Fail("Failure")
      PROVE  ChainInv' /\ FinishInv'
  <2>1. signing_stage = "REQUEST_SEGWIT_WITNESS" /\ signing
    BY <1>5 DEF SegwitWitness, AtStage
  <2>2. /\ Complete /\ Kinds(hash_check, ledger, coin)
        /\ Progress(sigs, ledger, inputs_count, inputs_count)
    BY <1>b, <1>c, <2>1 DEF ChainInv
  <2>3. /\ UNCHANGED <<ledger, hash_check, inputs_count, signing_stage, coin>>
        /\ signing_hash_bip143(m) \/ sigs' = sigs
    BY <1>5 DEF SegwitWitness, Finish
  <2>4. Progress(sigs', ledger', inputs_count, inputs_count)
    BY <1>a, <2>2, <2>3, ProgressKept, ChargeKeepsChain
  <2>5. FinishInv'
    BY <2>2, <2>3, <2>4, FinishedAfterAll DEF Complete
  <2>6. signing_stage' \notin PrevStages
    BY <2>1, <2>3 DEF PrevStages
  <2> QED
    BY <2>1, <2>2, <2>3, <2>4, <2>5, <2>6 DEF ChainInv
<1> QED
  BY <1>0, <1>1, <1>2, <1>3, <1>4, <1>5

\* Nothing in phase 1 is reported as finished.
LEMMA GatherNotFinished ==
  ASSUME \/ \E m \in InputMsgs : RefuseInput(m) \/ CheckInputWithAmount(m) \/ CheckInputLegacy(m)
         \/ \E meta \in MetaMsgs : PrevMeta(meta)
         \/ \E same \in BOOLEAN : PrevInput(same)
         \/ \E amount \in PrevAmounts, same \in BOOLEAN : PrevOutput(amount, same)
         \/ \E size \in 0 .. 2, same \in BOOLEAN : PrevExtraData(size, same)
         \/ \E o \in OutputMsgs : RefuseOutput(o) \/ CheckOutput(o)
         \/ RefuseSignTx \/ OtherKeyRequest \/ signing_init
         \/ CancelOrInitialize \/ TxAckNotSigning
  PROVE  FinishInv'
<1>1. \E r \in {"TxRequest", "Failure", "Features", "PublicKey"} :
        resp' = <<r>> \/ resp' = <<"Failure", r>>
  BY DEF RefuseInput, CheckInputWithAmount, CheckInputLegacy, CheckedReply, PrevMeta,
         PrevInput, PrevOutput, PrevExtraData, RefuseOutput, CheckOutput, Fail,
         RefuseSignTx, OtherKeyRequest, signing_init, CancelOrInitialize, TxAckNotSigning
<1> QED
  BY <1>1, NotFinished

LEMMA ChainStep ==
  ASSUME TypeOK, ApprovalInv, MoneyInv, AccountInv, AccountInv', ChainInv, FinishInv,
         [Next]_vars
  PROVE  ChainInv' /\ FinishInv'
<1>1. CASE TxAck
  <2>1. CASE \E m \in InputMsgs : RefuseInput(m) \/ CheckInputWithAmount(m) \/ CheckInputLegacy(m)
    BY <2>1, InputChain, GatherNotFinished
  <2>2. CASE \/ \E meta \in MetaMsgs : PrevMeta(meta)
             \/ \E same \in BOOLEAN : PrevInput(same)
             \/ \E amount \in PrevAmounts, same \in BOOLEAN : PrevOutput(amount, same)
             \/ \E size \in 0 .. 2, same \in BOOLEAN : PrevExtraData(size, same)
    <3>1. ChainInv'
      BY <2>2, PrevChain
    <3>2. FinishInv'
      BY <2>2, GatherNotFinished
    <3> QED
      BY <3>1, <3>2
  <2>3. CASE \E o \in OutputMsgs : RefuseOutput(o) \/ CheckOutput(o)
    BY <2>3, OutputChain, GatherNotFinished
  <2>4. CASE \/ \E m \in InputMsgs : SignInputPart(m) \/ SegwitInput(m) \/ SegwitWitness(m)
             \/ \E o \in OutputMsgs : SignOutputPart(o) \/ SerializeOutput(o)
    BY <2>4, SignChain
  <2> QED
    BY <1>1, <2>1, <2>2, <2>3, <2>4 DEF TxAck
<1>2. CASE signing_init
  <2>1. /\ ledger' = <<>> /\ hasher' = <<>> /\ next_nonsegwit_input' = NoLegacyInput
        /\ signing_stage' = "REQUEST_1_INPUT"
    BY <1>2 DEF signing_init
  <2>2. signing_stage' \notin PrevStages /\ signing_stage' \notin Phase2Stages
    BY <2>1, StageSets DEF PrevStages, InputStages
  <2>3. Heads(next_nonsegwit_input', ledger') /\ Kinds(hasher', ledger', coin')
    BY <2>1 DEF Heads, NoneIn, Kinds
  <2>4. ChainInv'
    BY <2>1, <2>2, <2>3 DEF ChainInv
  <2> QED
    BY <1>2, <2>4, GatherNotFinished
<1>3. CASE CancelOrInitialize \/ TxAckNotSigning
  <2>1. ChainInv'
    BY <1>3, FailChain DEF CancelOrInitialize, TxAckNotSigning
  <2> QED
    BY <1>3, <2>1, GatherNotFinished
<1>4. CASE RefuseSignTx \/ OtherKeyRequest \/ UNCHANGED vars
  <2>1. /\ UNCHANGED <<control, inputs_count, coin, input, hasher, hash_check, ledger, sigs>>
        /\ resp' = resp \/ RefuseSignTx \/ OtherKeyRequest
    BY <1>4 DEF RefuseSignTx, OtherKeyRequest, vars
  <2>2. Counted' = Counted /\ Before' = Before
    BY <2>1 DEF Counted, Before
  <2>3. ChainInv'
    BY <2>1, <2>2 DEF ChainInv
  <2>4. FinishInv'
    BY <2>1, GatherNotFinished DEF FinishInv
  <2> QED
    BY <2>3, <2>4
<1> QED
  BY <1>1, <1>2, <1>3, <1>4 DEF Next

LEMMA ChainInvariant == Spec => [](ChainInv /\ FinishInv)
<1>1. Init => ChainInv /\ FinishInv
  BY DEF Init, ChainInv, FinishInv
<1>2. /\ TypeOK /\ ApprovalInv /\ MoneyInv /\ AccountInv /\ AccountInv'
      /\ ChainInv /\ FinishInv /\ [Next]_vars
      => ChainInv' /\ FinishInv'
  BY ChainStep
<1> QED
  BY <1>1, <1>2, TypeCorrect, ApprovalInvariant, MoneyInvariant, AccountInvariant, PTL DEF Spec

\* A session that is reported finished has signed every input that needed its
\* previous transaction exactly once, and no other: each search for the next
\* one, made on the stream of the inputs while the last was being signed, finds
\* it, because the stream is accepted only if it is that of phase 1.
THEOREM EveryLegacyInputIsSignedOnce == Spec => []LegacyInputsSignedOnce
<1>1. MoneyInv /\ FinishInv => LegacyInputsSignedOnce
  <2> SUFFICES ASSUME MoneyInv, FinishInv, resp = <<"TxFinished">>, NEW i \in DOMAIN ledger
               PROVE  Cardinality(SignedFor(sigs, i - 1)) = IF ledger[i].streamed THEN 1 ELSE 0
    BY DEF LegacyInputsSignedOnce, SignedFor
  <2>1. Len(ledger) \in Nat /\ DOMAIN ledger = 1 .. Len(ledger)
    BY SequenceFacts DEF MoneyInv
  <2>2. i - 1 \in 0 .. Len(ledger) - 1 /\ (i - 1) + 1 = i
    BY <2>1
  <2>3. SignedOnce(sigs, ledger, i - 1)
    BY <2>2 DEF FinishInv
  <2>4. Legacy(ledger, i - 1) = ledger[i].streamed
    BY <2>2 DEF Legacy
  <2>5. CASE ledger[i].streamed
    <3>1. PICK k : SignedFor(sigs, i - 1) = {k}
      BY <2>3, <2>4, <2>5 DEF SignedOnce
    <3> QED
      BY <2>5, <3>1, FS_Singleton
  <2>6. CASE ~ledger[i].streamed
    <3>1. SignedFor(sigs, i - 1) = {}
      BY <2>3, <2>4, <2>6 DEF SignedOnce
    <3> QED
      BY <2>6, <3>1, FS_EmptySet
  <2> QED
    BY <2>5, <2>6
<1> QED
  BY <1>1, MoneyInvariant, ChainInvariant, PTL
=============================================================================
