--------------------------- MODULE HandlersProofs ---------------------------
(***************************************************************************)
(* Proofs about Handlers: one answer to each request, nothing answered     *)
(* without what the user agreed to, NEM transactions as they were shown,   *)
(* the key of the answer, and the order of mosaics.                        *)
(***************************************************************************)
EXTENDS Handlers, SequenceTheorems, WellFoundedInduction, TLAPS

-----------------------------------------------------------------------------
(* Lists of anything.                                                      *)

IsList(t) == t \in Seq(Range(t))

LEMMA ListOfSet ==
  ASSUME NEW S, NEW t \in Seq(S)
  PROVE  IsList(t) /\ Range(t) \subseteq S
<1>1. Len(t) \in Nat /\ DOMAIN t = 1 .. Len(t) /\ t \in [1 .. Len(t) -> S]
  BY LenProperties
<1>2. t \in [1 .. Len(t) -> Range(t)]  BY <1>1 DEF Range
<1>3. t \in UNION {[1 .. n -> Range(t)] : n \in Nat}  BY <1>1, <1>2
<1>4. t \in Seq(Range(t))  BY <1>3, SeqDef
<1> QED  BY <1>1, <1>4 DEF IsList, Range

LEMMA ListFacts ==
  ASSUME NEW t, IsList(t)
  PROVE  /\ Len(t) \in Nat /\ DOMAIN t = 1 .. Len(t)
         /\ \A i \in DOMAIN t : t[i] \in Range(t)
         /\ \A x \in Range(t) : \E i \in DOMAIN t : t[i] = x
         /\ (t = <<>>) <=> (Len(t) = 0)
<1>1. t \in Seq(Range(t))  BY DEF IsList
<1>2. Len(t) \in Nat /\ DOMAIN t = 1 .. Len(t)  BY <1>1, LenProperties
<1>3. (t = <<>>) <=> (Len(t) = 0)  BY <1>1, EmptySeq
<1> QED  BY <1>2, <1>3 DEF Range

\* A list given by its elements.
LEMMA ListByElements ==
  ASSUME NEW n \in Nat, NEW t, DOMAIN t = 1 .. n, t = [i \in 1 .. n |-> t[i]]
  PROVE  IsList(t) /\ Len(t) = n
<1>1. t \in [1 .. n -> Range(t)]  BY DEF Range
<1>2. t \in Seq(Range(t))  BY <1>1, SeqDef
<1>3. Len(t) = n  BY <1>2, LenProperties
<1> QED  BY <1>2, <1>3 DEF IsList

\* t is in u, behind s.
Behind(u, s, t) == \A i \in DOMAIN t : u[Len(s) + i] = t[i]
LEMMA ListAppended ==
  ASSUME NEW s, NEW t, IsList(s), IsList(t)
  PROVE  /\ IsList(s \o t) /\ Len(s \o t) = Len(s) + Len(t)
         /\ Range(s \o t) = Range(s) \cup Range(t)
         /\ \A i \in DOMAIN s : (s \o t)[i] = s[i]
         /\ Behind(s \o t, s, t)
         /\ \A i \in DOMAIN (s \o t) :
              \/ i \in DOMAIN s /\ (s \o t)[i] = s[i]
              \/ i - Len(s) \in DOMAIN t /\ (s \o t)[i] = t[i - Len(s)]
<1> DEFINE S == Range(s) \cup Range(t)
           u == s \o t
<1>1. s \in Seq(S) /\ t \in Seq(S)
  <2>1. s \in Seq(Range(s)) /\ t \in Seq(Range(t))  BY DEF IsList
  <2> QED  BY <2>1, SeqMonotonic
<1>2. /\ u \in Seq(S) /\ Len(u) = Len(s) + Len(t)
      /\ \A i \in 1 .. Len(s) + Len(t) : u[i] = IF i <= Len(s) THEN s[i] ELSE t[i - Len(s)]
  BY <1>1, ConcatProperties
<1>3. /\ Len(s) \in Nat /\ DOMAIN s = 1 .. Len(s) /\ Len(t) \in Nat /\ DOMAIN t = 1 .. Len(t)
      /\ DOMAIN u = 1 .. Len(u)
  BY <1>1, <1>2, LenProperties
<1> HIDE DEF u
<1>4. IsList(u) /\ Range(u) \subseteq S  BY <1>2, ListOfSet
<1>5. \A i \in DOMAIN s : i \in DOMAIN u /\ u[i] = s[i]  BY <1>2, <1>3
<1>6. \A i \in DOMAIN t : Len(s) + i \in DOMAIN u /\ u[Len(s) + i] = t[i]
  <2> SUFFICES ASSUME NEW i \in 1 .. Len(t)
               PROVE  Len(s) + i \in DOMAIN u /\ u[Len(s) + i] = t[i]
    BY <1>3
  <2>1. Len(s) + i \in 1 .. Len(s) + Len(t) /\ ~(Len(s) + i <= Len(s)) /\ Len(s) + i - Len(s) = i
    BY <1>3
  <2> QED  BY <1>2, <1>3, <2>1
<1>7. S \subseteq Range(u)  BY <1>5, <1>6 DEF Range
<1>8. \A i \in DOMAIN u : \/ i \in DOMAIN s /\ u[i] = s[i]
                          \/ i - Len(s) \in DOMAIN t /\ u[i] = t[i - Len(s)]
  <2> SUFFICES ASSUME NEW i \in 1 .. Len(s) + Len(t)
               PROVE  \/ i \in DOMAIN s /\ u[i] = s[i]
                      \/ i - Len(s) \in DOMAIN t /\ u[i] = t[i - Len(s)]
    BY <1>2, <1>3
  <2>1. CASE i <= Len(s)  BY <1>2, <1>3, <2>1
  <2>2. CASE ~(i <= Len(s))
    <3>1. i - Len(s) \in 1 .. Len(t)  BY <1>3, <2>2
    <3> QED  BY <1>2, <1>3, <2>2, <3>1
  <2> QED  BY <2>1, <2>2
<1> QED  BY <1>2, <1>4, <1>5, <1>6, <1>7, <1>8 DEF u, Behind

LEMMA ListTail ==
  ASSUME NEW t, IsList(t), t # <<>>
  PROVE  /\ IsList(Tail(t)) /\ Len(Tail(t)) = Len(t) - 1 /\ Head(t) = t[1] /\ 1 \in DOMAIN t
         /\ DOMAIN Tail(t) = 1 .. Len(t) - 1
         /\ \A i \in DOMAIN Tail(t) : i + 1 \in DOMAIN t /\ Tail(t)[i] = t[i + 1]
         /\ \A i \in DOMAIN t : i = 1 \/ (i - 1 \in DOMAIN Tail(t) /\ t[i] = Tail(t)[i - 1])
<1>1. t \in Seq(Range(t))  BY DEF IsList
<1>2. /\ Tail(t) \in Seq(Range(t)) /\ Len(Tail(t)) = Len(t) - 1 /\ Head(t) = t[1]
      /\ \A i \in 1 .. Len(Tail(t)) : Tail(t)[i] = t[i + 1]
  BY <1>1, HeadTailProperties
<1>3. IsList(Tail(t))  BY <1>2, ListOfSet
<1>4. Len(t) \in Nat /\ Len(t) # 0 /\ DOMAIN t = 1 .. Len(t)  BY ONLY ListFacts, IsList(t), t # <<>>
<1>5. DOMAIN Tail(t) = 1 .. Len(t) - 1  BY <1>2, LenProperties
<1>6. 1 \in DOMAIN t
  <2>1. \A n \in Nat : n # 0 => 1 \in 1 .. n  OBVIOUS
  <2> QED  BY <1>4, <2>1
<1>7. ASSUME NEW i \in 1 .. Len(t) - 1 PROVE i + 1 \in 1 .. Len(t)  BY <1>4
<1>8. ASSUME NEW i \in 1 .. Len(t), i # 1 PROVE i - 1 \in 1 .. Len(t) - 1 /\ i - 1 + 1 = i
  BY <1>4, <1>8
<1>9. \A i \in DOMAIN Tail(t) : i + 1 \in DOMAIN t /\ Tail(t)[i] = t[i + 1]
  BY <1>2, <1>4, <1>5, <1>7
<1>10. \A i \in DOMAIN t : i = 1 \/ (i - 1 \in DOMAIN Tail(t) /\ t[i] = Tail(t)[i - 1])
  <2> SUFFICES ASSUME NEW i \in 1 .. Len(t), i # 1
               PROVE  i - 1 \in DOMAIN Tail(t) /\ t[i] = Tail(t)[i - 1]
    BY <1>4
  <2>1. i - 1 \in 1 .. Len(t) - 1 /\ i - 1 + 1 = i  BY <1>8
  <2> QED  BY <1>2, <1>5, <2>1
<1> QED  BY <1>2, <1>3, <1>5, <1>6, <1>9, <1>10

LEMMA Tuples ==
  /\ IsList(<<>>) /\ Range(<<>>) = {} /\ Len(<<>>) = 0
  /\ \A a : IsList(<<a>>) /\ Range(<<a>>) = {a}
  /\ \A a, b : IsList(<<a, b>>) /\ Range(<<a, b>>) = {a, b}
  /\ \A a, b, c : IsList(<<a, b, c>>) /\ Range(<<a, b, c>>) = {a, b, c}
  /\ \A a, b, c, d : IsList(<<a, b, c, d>>) /\ Range(<<a, b, c, d>>) = {a, b, c, d}
<1>1. IsList(<<>>) /\ Range(<<>>) = {} /\ Len(<<>>) = 0  BY DEF IsList, Range
<1>2. \A a : IsList(<<a>>) /\ Range(<<a>>) = {a}  BY DEF IsList, Range
<1>3. \A a, b : IsList(<<a, b>>) /\ Range(<<a, b>>) = {a, b}  BY DEF IsList, Range
<1>4. \A a, b, c : IsList(<<a, b, c>>) /\ Range(<<a, b, c>>) = {a, b, c}  BY DEF IsList, Range
<1>5. \A a, b, c, d : IsList(<<a, b, c, d>>) /\ Range(<<a, b, c, d>>) = {a, b, c, d}
  BY DEF IsList, Range
<1> QED  BY <1>1, <1>2, <1>3, <1>4, <1>5

-----------------------------------------------------------------------------
(* Recursive functions over numbers.                                       *)

\* Induction over the natural numbers, with a set in place of a predicate.
LEMMA NatSetInduction ==
  ASSUME NEW T, 0 \in T, \A n \in Nat : n \in T => n + 1 \in T
  PROVE  Nat \subseteq T
<1> SUFFICES ASSUME Nat \ T # {} PROVE FALSE
  OBVIOUS
<1>1. \E x \in Nat \ T : \A y \in Nat \ T : ~(<<y, x>> \in OpToRel(<, Nat))
  <2>1. Nat \ T \subseteq Nat  OBVIOUS
  <2> QED  BY <2>1, NatLessThanWellFounded, WFMin
<1>2. \A y, x \in Nat : y < x => <<y, x>> \in OpToRel(<, Nat)
  BY DEF OpToRel
<1>3. PICK x \in Nat \ T : \A y \in Nat \ T : ~(y < x)
  BY <1>1, <1>2
<1>4. x # 0  OBVIOUS
<1>5. x - 1 \in Nat /\ x - 1 < x /\ x - 1 + 1 = x
  BY <1>4
<1>6. x - 1 \in T
  BY <1>3, <1>5
<1> QED
  BY <1>5, <1>6

\* What the first value has and each step keeps, every value has.
LEMMA Chain ==
  ASSUME NEW m \in Nat, NEW n \in Nat, m <= n, NEW F, NEW X,
         F[m] \in X[m], \A i \in m + 1 .. n : F[i - 1] \in X[i - 1] => F[i] \in X[i]
  PROVE  \A i \in m .. n : F[i] \in X[i]
<1> DEFINE T == {k \in Nat : m + k <= n => F[m + k] \in X[m + k]}
<1>1. 0 \in T
  <2>1. m + 0 = m  OBVIOUS
  <2> QED  BY <2>1
<1>2. ASSUME NEW k \in Nat, k \in T PROVE k + 1 \in T
  <2> SUFFICES ASSUME m + (k + 1) <= n PROVE F[m + (k + 1)] \in X[m + (k + 1)]
    OBVIOUS
  <2> DEFINE i == m + (k + 1)
  <2>1. i \in m + 1 .. n /\ i - 1 = m + k /\ m + k <= n
    OBVIOUS
  <2>2. F[i - 1] \in X[i - 1]
    BY <1>2, <2>1
  <2> HIDE DEF i
  <2>3. F[i] \in X[i]
    BY <2>1, <2>2
  <2> QED
    BY <2>3 DEF i
<1>3. Nat \subseteq T
  <2> HIDE DEF T
  <2> QED
    BY <1>1, <1>2, NatSetInduction
<1> SUFFICES ASSUME NEW i \in m .. n PROVE F[i] \in X[i]
  OBVIOUS
<1>4. i - m \in Nat /\ m + (i - m) = i /\ i <= n
  OBVIOUS
<1>5. i - m \in T
  BY <1>3, <1>4
<1> QED
  BY <1>4, <1>5

\* A function is defined by its first value and its steps.
Runs(F, m, n, X, base, g) ==
  /\ F \in [m .. n -> X] /\ F[m] = base
  /\ \A i \in m + 1 .. n : F[i] = g[i][F[i - 1]]
LEMMA Recursion ==
  ASSUME NEW m \in Nat, NEW n \in Nat, m <= n, NEW X, NEW base \in X, NEW g,
         \A i \in m + 1 .. n : \A x \in X : g[i][x] \in X
  PROVE  \E F : Runs(F, m, n, X, base, g)
<1> DEFINE Upto(F, k) == /\ F \in [m .. m + k -> X] /\ F[m] = base
                         /\ \A i \in m + 1 .. m + k : F[i] = g[i][F[i - 1]]
           T == {k \in Nat : m + k <= n => \E F : Upto(F, k)}
<1>1. 0 \in T
  <2>1. Upto([i \in m .. m + 0 |-> base], 0)
    OBVIOUS
  <2> QED
    BY <2>1
<1>2. ASSUME NEW k \in Nat, k \in T PROVE k + 1 \in T
  <2> SUFFICES ASSUME m + (k + 1) <= n PROVE \E F : Upto(F, k + 1)
    OBVIOUS
  <2>1. PICK F : Upto(F, k)
    BY <1>2
  <2> DEFINE e == m + (k + 1)
             G == [i \in m .. e |-> IF i = e THEN g[e][F[m + k]] ELSE F[i]]
  <2>2. e \in m + 1 .. n /\ m + k \in m .. m + k /\ e - 1 = m + k /\ e # m /\ e \in Nat
    OBVIOUS
  <2>3. g[e][F[m + k]] \in X
    <3>1. F[m + k] \in X  BY <2>1, <2>2
    <3> HIDE DEF e
    <3> QED  BY <2>2, <3>1
  <2>4. \A i \in m .. e : i = e \/ i \in m .. m + k
    OBVIOUS
  <2>5. \A i \in m .. m + k : F[i] \in X
    BY <2>1
  <2>6. m \in m .. m + k /\ \A i \in m + 1 .. m + k : i \in m .. m + k /\ i - 1 \in m .. m + k
    OBVIOUS
  <2>7. \A i \in m .. m + k : i \in m .. e /\ i # e
    OBVIOUS
  <2>8. e \in m .. e
    OBVIOUS
  <2> HIDE DEF e
  <2>9. G \in [m .. e -> X]
    BY <2>3, <2>4, <2>5
  <2>10. \A i \in m .. m + k : G[i] = F[i]
    BY <2>7
  <2>11. G[e] = g[e][F[m + k]]
    BY <2>8
  <2> HIDE DEF G
  <2>12. G[m] = base
    BY <2>1, <2>6, <2>10
  <2>13. ASSUME NEW i \in m + 1 .. e PROVE G[i] = g[i][G[i - 1]]
    <3>1. CASE i = e
      BY <2>2, <2>10, <2>11, <3>1
    <3>2. CASE i # e
      <4>1. i \in m + 1 .. m + k
        BY <3>2 DEF e
      <4>2. F[i] = g[i][F[i - 1]]
        BY <2>1, <4>1
      <4>3. G[i] = F[i] /\ G[i - 1] = F[i - 1]
        BY <2>6, <2>10, <4>1
      <4> QED
        BY <4>2, <4>3
    <3> QED
      BY <3>1, <3>2
  <2>14. Upto(G, k + 1)
    BY <2>9, <2>12, <2>13 DEF e
  <2> QED
    BY <2>14
<1>3. Nat \subseteq T
  <2> HIDE DEF T
  <2> QED
    BY <1>1, <1>2, NatSetInduction
<1>4. n - m \in Nat /\ m + (n - m) = n
  OBVIOUS
<1>5. \E F : Upto(F, n - m)
  BY <1>3, <1>4
<1>6. PICK F : Upto(F, n - m)
  BY <1>5
<1>7. Runs(F, m, n, X, base, g)
  BY <1>4, <1>6 DEF Runs
<1> QED
  BY <1>7

\* The two from zero.
LEMMA ChainFromZero ==
  ASSUME NEW n \in Nat, NEW F, NEW X,
         F[0] \in X[0], \A i \in 1 .. n : F[i - 1] \in X[i - 1] => F[i] \in X[i]
  PROVE  \A i \in 0 .. n : F[i] \in X[i]
<1>1. 0 \in Nat /\ 0 <= n /\ \A i \in 0 + 1 .. n : F[i - 1] \in X[i - 1] => F[i] \in X[i]
  OBVIOUS
<1> QED
  BY <1>1, Chain

LEMMA RecursionFromZero ==
  ASSUME NEW n \in Nat, NEW X, NEW base \in X, NEW g,
         \A i \in 1 .. n : \A x \in X : g[i][x] \in X
  PROVE  \E F : Runs(F, 0, n, X, base, g)
<1> DEFINE m == 0
<1>1. m \in Nat /\ m <= n /\ m + 1 = 1
  OBVIOUS
<1>2. \A i \in m + 1 .. n : \A x \in X : g[i][x] \in X
  BY <1>1
<1> HIDE DEF m
<1>3. PICK F : Runs(F, m, n, X, base, g)
  BY ONLY base \in X, n \in Nat, <1>1, <1>2, Recursion
<1> QED
  BY <1>3 DEF m

-----------------------------------------------------------------------------
(* nem_canonicalizeMosaics: the merge.                                     *)

TotalSteps(sum, s, name) ==
  sum = [n \in 0 .. Len(s) |->
           IF n = 0 THEN 0
           ELSE IF s[n].name = name THEN (sum[n - 1] + s[n].quantity) % Wrap ELSE sum[n - 1]]
Sums(s, name) == CHOOSE sum : TotalSteps(sum, s, name)
MergeSteps(out, s) ==
  out = [n \in 0 .. Len(s) |-> IF n = 0 THEN <<>> ELSE Add(out[n - 1], s[n])]

Quantities == 0 .. Wrap - 1

LEMMA MosaicFacts ==
  /\ 0 \in Quantities
  /\ \A q, r \in Quantities : (q + r) % Wrap \in Quantities
  /\ \A q \in Quantities : (0 + q) % Wrap = q
<1>1. Wrap \in Nat \ {0}  BY NemAssumption
<1>2. \A w \in Nat \ {0} : \A q, r \in 0 .. w - 1 : (q + r) % w \in 0 .. w - 1  OBVIOUS
<1>3. \A w \in Nat \ {0} : \A q \in 0 .. w - 1 : (0 + q) % w = q  OBVIOUS
<1> QED  BY <1>1, <1>2, <1>3 DEF Quantities

LEMMA Totals ==
  ASSUME NEW s \in Seq(Mosaics), NEW name
  PROVE  /\ Total(s, name) = Sums(s, name)[Len(s)]
         /\ Sums(s, name)[0] = 0
         /\ \A n \in 1 .. Len(s) :
              Sums(s, name)[n] = IF s[n].name = name
                                 THEN (Sums(s, name)[n - 1] + s[n].quantity) % Wrap
                                 ELSE Sums(s, name)[n - 1]
         /\ \A n \in 0 .. Len(s) : Sums(s, name)[n] \in Quantities
<1> DEFINE l == Len(s)
           Q == Quantities
           added(n, x) == IF s[n].name = name THEN (x + s[n].quantity) % Wrap ELSE x
           g == [n \in 1 .. l |-> [x \in Q |-> added(n, x)]]
<1>1. l \in Nat /\ 0 <= l /\ 0 \in Nat /\ 0 + 1 = 1
  BY LenProperties
<1>2. \A n \in 1 .. l : s[n] \in Mosaics
  BY ElementOfSeq
<1>3. \A n \in 1 .. l : s[n].quantity \in Q
  BY <1>2 DEF Mosaics, Quantities
<1>4. \A n \in 1 .. l : \A x \in Q : added(n, x) \in Q
  BY <1>3, MosaicFacts
<1> HIDE DEF l, Q, added
<1>5. \A n \in 1 .. l : \A x \in Q : g[n][x] = added(n, x)
  OBVIOUS
<1> HIDE DEF g
<1>6. PICK F : Runs(F, 0, l, Q, 0, g)
  <2>1. 0 \in Q  BY MosaicFacts DEF Q
  <2>2. \A n \in 1 .. l : \A x \in Q : g[n][x] \in Q
    BY <1>4, <1>5
  <2> QED
    BY ONLY <1>1, <2>1, <2>2, RecursionFromZero
<1>7. \A n \in 1 .. l : n - 1 \in 0 .. l /\ n \in 0 .. l /\ n # 0
  BY <1>1
<1>8. \A n \in 0 .. l : n = 0 \/ n \in 1 .. l
  BY <1>1
<1>9. F \in [0 .. l -> Q] /\ F[0] = 0 /\ \A n \in 1 .. l : F[n] = g[n][F[n - 1]]
  BY <1>1, <1>6 DEF Runs
<1>10. F = [n \in 0 .. l |-> IF n = 0 THEN 0 ELSE added(n, F[n - 1])]
  <2>1. \A n \in 0 .. l : F[n] = IF n = 0 THEN 0 ELSE added(n, F[n - 1])
    BY <1>5, <1>7, <1>8, <1>9
  <2> QED
    BY <1>9, <2>1
<1>11. TotalSteps(F, s, name)
  BY <1>10 DEF TotalSteps, l, added
<1> DEFINE S == Sums(s, name)
<1>12. TotalSteps(S, s, name)
  BY <1>11 DEF Sums
<1>13. Total(s, name) = S[l]
  BY DEF Total, Sums, TotalSteps, l
<1> HIDE DEF S
<1>14. S = [n \in 0 .. l |-> IF n = 0 THEN 0 ELSE added(n, S[n - 1])]
  BY <1>12 DEF TotalSteps, l, added
<1>15. \A n \in 0 .. l : S[n] = IF n = 0 THEN 0 ELSE added(n, S[n - 1])
  BY <1>14
<1>16. 0 \in 0 .. l
  BY <1>1
<1>17. S[0] = 0 /\ \A n \in 1 .. l : S[n] = added(n, S[n - 1])
  BY <1>7, <1>15, <1>16
<1>18. \A n \in 0 .. l : S[n] \in Q
  <2> DEFINE X == [n \in 0 .. l |-> Q]
  <2>1. \A n \in 0 .. l : X[n] = Q
    OBVIOUS
  <2> HIDE DEF X
  <2>2. S[0] \in X[0]
    BY <1>16, <1>17, <2>1, MosaicFacts DEF Q
  <2>3. \A n \in 1 .. l : S[n - 1] \in X[n - 1] => S[n] \in X[n]
    BY <1>1, <1>4, <1>7, <1>17, <2>1
  <2>4. \A n \in 0 .. l : S[n] \in X[n]
    BY ONLY <1>1, <2>2, <2>3, ChainFromZero
  <2> QED
    BY <2>1, <2>4
<1> QED
  BY <1>13, <1>17, <1>18 DEF S, l, added, Q

\* A name that does not occur has no quantity.
LEMMA NoTotal ==
  ASSUME NEW s \in Seq(Mosaics), NEW name, NEW n \in 0 .. Len(s),
         \A i \in 1 .. n : s[i].name # name
  PROVE  Sums(s, name)[n] = 0
<1> DEFINE S == Sums(s, name)
           X == [i \in 0 .. n |-> {0}]
<1>1. Len(s) \in Nat
  BY LenProperties
<1>2. n \in Nat /\ 0 \in Nat /\ 0 <= n /\ 0 + 1 = 1 /\ 0 \in 0 .. n
  BY <1>1
<1>3. S[0] = 0 /\ \A i \in 1 .. Len(s) : S[i] = IF s[i].name = name
                                                THEN (S[i - 1] + s[i].quantity) % Wrap
                                                ELSE S[i - 1]
  BY Totals
<1> HIDE DEF S
<1>4. \A i \in 1 .. n : i \in 1 .. Len(s) /\ i - 1 \in 0 .. n /\ i \in 0 .. n
  BY <1>1
<1>5. \A i \in 1 .. n : S[i] = S[i - 1]
  BY <1>3, <1>4
<1>6. \A i \in 0 .. n : X[i] = {0}
  OBVIOUS
<1> HIDE DEF X
<1>7. S[0] \in X[0]
  BY <1>2, <1>3, <1>6
<1>8. \A i \in 1 .. n : S[i - 1] \in X[i - 1] => S[i] \in X[i]
  BY <1>2, <1>4, <1>5, <1>6
<1>9. \A i \in 0 .. n : S[i] \in X[i]
  BY ONLY <1>2, <1>7, <1>8, ChainFromZero
<1>10. n \in 0 .. n
  BY <1>2
<1> QED
  BY <1>6, <1>9, <1>10 DEF S

\* No two mosaics have the same name.
Distinct(t) == \A i, j \in DOMAIN t : i # j => t[i].name # t[j].name
\* out is the first n mosaics of s, merged.
Merged(out, s, n) ==
  /\ out \in Seq(Mosaics) /\ Distinct(out)
  /\ \A i \in 1 .. n : \E k \in DOMAIN out : out[k].name = s[i].name
  /\ \A k \in DOMAIN out : /\ \E i \in 1 .. n : s[i].name = out[k].name
                           /\ out[k].quantity = Sums(s, out[k].name)[n]

\* What a mosaic is added into.
Into(out, m) ==
  [i \in DOMAIN out |->
     IF out[i].name = m.name THEN [out[i] EXCEPT !.quantity = (@ + m.quantity) % Wrap] ELSE out[i]]

LEMMA MosaicSum ==
  ASSUME NEW a \in Mosaics, NEW b \in Mosaics
  PROVE  LET c == [a EXCEPT !.quantity = (@ + b.quantity) % Wrap]
         IN c \in Mosaics /\ c.name = a.name /\ c.quantity = (a.quantity + b.quantity) % Wrap
<1>1. a.quantity \in Quantities /\ b.quantity \in Quantities
  BY DEF Mosaics, Quantities
<1>2. (a.quantity + b.quantity) % Wrap \in Quantities
  BY <1>1, MosaicFacts
<1> DEFINE q == (a.quantity + b.quantity) % Wrap
<1>3. q \in Quantities  BY <1>2
<1>4. [a EXCEPT !.quantity = (@ + b.quantity) % Wrap] = [a EXCEPT !.quantity = q]
  OBVIOUS
<1> HIDE DEF q
<1>5. LET c == [a EXCEPT !.quantity = q] IN c \in Mosaics /\ c.name = a.name /\ c.quantity = q
  BY <1>3 DEF Mosaics, Quantities
<1> QED
  BY <1>4, <1>5 DEF q

LEMMA IntoFacts ==
  ASSUME NEW out \in Seq(Mosaics), NEW m \in Mosaics
  PROVE  /\ Into(out, m) \in Seq(Mosaics) /\ DOMAIN Into(out, m) = DOMAIN out
         /\ Len(Into(out, m)) = Len(out)
         /\ \A i \in DOMAIN out :
              /\ Into(out, m)[i].name = out[i].name
              /\ Into(out, m)[i].quantity = IF out[i].name = m.name
                                            THEN (out[i].quantity + m.quantity) % Wrap
                                            ELSE out[i].quantity
<1>1. Len(out) \in Nat /\ DOMAIN out = 1 .. Len(out)
  BY LenProperties
<1>2. \A i \in DOMAIN out : out[i] \in Mosaics
  BY <1>1, ElementOfSeq
<1> DEFINE c(i) == [out[i] EXCEPT !.quantity = (@ + m.quantity) % Wrap]
           v(i) == IF out[i].name = m.name THEN c(i) ELSE out[i]
           u == Into(out, m)
<1>3. \A i \in DOMAIN out : /\ c(i) \in Mosaics /\ c(i).name = out[i].name
                            /\ c(i).quantity = (out[i].quantity + m.quantity) % Wrap
  BY <1>2, MosaicSum
<1>4. u = [i \in DOMAIN out |-> v(i)]
  BY DEF Into
<1> HIDE DEF c, u
<1>5. \A i \in DOMAIN out : v(i) \in Mosaics
  BY <1>2, <1>3
<1>6. \A i \in DOMAIN out : /\ v(i).name = out[i].name
                            /\ v(i).quantity = IF out[i].name = m.name
                                               THEN (out[i].quantity + m.quantity) % Wrap
                                               ELSE out[i].quantity
  BY <1>3
<1> HIDE DEF v
<1>7. u \in [1 .. Len(out) -> Mosaics]
  BY <1>1, <1>4, <1>5
<1>8. u \in Seq(Mosaics)
  BY <1>1, <1>7, SeqDef
<1>9. Len(u) = Len(out)
  BY <1>1, <1>7, <1>8, LenProperties
<1>10. DOMAIN u = DOMAIN out /\ \A i \in DOMAIN out : u[i] = v(i)
  BY <1>4
<1> QED
  BY <1>6, <1>8, <1>9, <1>10 DEF u

LEMMA AddType ==
  ASSUME NEW out \in Seq(Mosaics), NEW m \in Mosaics
  PROVE  /\ Add(out, m) \in Seq(Mosaics)
         /\ (\E i \in DOMAIN out : out[i].name = m.name) => Add(out, m) = Into(out, m)
         /\ ~(\E i \in DOMAIN out : out[i].name = m.name) => Add(out, m) = Append(out, m)
<1>1. Append(out, m) \in Seq(Mosaics)
  BY AppendProperties
<1>2. Into(out, m) \in Seq(Mosaics)
  BY IntoFacts
<1> QED
  BY <1>1, <1>2 DEF Add, Into

LEMMA AddMerges ==
  ASSUME NEW s \in Seq(Mosaics), NEW n \in 1 .. Len(s), NEW out, Merged(out, s, n - 1)
  PROVE  Merged(Add(out, s[n]), s, n)
<1> DEFINE m == s[n]
<1>1. Len(s) \in Nat
  BY LenProperties
<1>2. m \in Mosaics
  BY <1>1, ElementOfSeq
<1>3. out \in Seq(Mosaics) /\ Distinct(out)
  BY DEF Merged
<1>4. Len(out) \in Nat /\ DOMAIN out = 1 .. Len(out)
  BY <1>3, LenProperties
<1>5. \A k \in DOMAIN out : out[k] \in Mosaics
  BY <1>3, <1>4, ElementOfSeq
<1>6. \A i \in 1 .. n : i = n \/ i \in 1 .. n - 1
  BY <1>1
<1>7. n \in 1 .. n /\ \A i \in 1 .. n - 1 : i \in 1 .. n
  BY <1>1
<1>8. \A name : Sums(s, name)[n] = IF m.name = name
                                   THEN (Sums(s, name)[n - 1] + m.quantity) % Wrap
                                   ELSE Sums(s, name)[n - 1]
  BY Totals
<1>9. /\ \A i \in 1 .. n - 1 : \E k \in DOMAIN out : out[k].name = s[i].name
      /\ \A k \in DOMAIN out : /\ \E i \in 1 .. n - 1 : s[i].name = out[k].name
                               /\ out[k].quantity = Sums(s, out[k].name)[n - 1]
  BY DEF Merged
<1>10. CASE \E k \in DOMAIN out : out[k].name = m.name
  <2> DEFINE u == Into(out, m)
  <2>1. Add(out, m) = u
    BY <1>2, <1>3, <1>10, AddType
  <2>2. /\ u \in Seq(Mosaics) /\ DOMAIN u = DOMAIN out
        /\ \A k \in DOMAIN out :
             /\ u[k].name = out[k].name
             /\ u[k].quantity = IF out[k].name = m.name
                                THEN (out[k].quantity + m.quantity) % Wrap ELSE out[k].quantity
    BY <1>2, <1>3, IntoFacts
  <2> HIDE DEF u
  <2>3. Distinct(u)
    BY <1>3, <2>2 DEF Distinct
  <2>4. ASSUME NEW i \in 1 .. n PROVE \E k \in DOMAIN u : u[k].name = s[i].name
    <3>1. CASE i = n  BY <1>10, <2>2, <3>1
    <3>2. CASE i \in 1 .. n - 1  BY <1>9, <2>2, <3>2
    <3> QED  BY <1>6, <3>1, <3>2
  <2>5. ASSUME NEW k \in DOMAIN u
        PROVE  /\ \E i \in 1 .. n : s[i].name = u[k].name
               /\ u[k].quantity = Sums(s, u[k].name)[n]
    <3> DEFINE nm == u[k].name
    <3>1. k \in DOMAIN out /\ out[k].name = nm  BY <2>2
    <3>2. \E i \in 1 .. n : s[i].name = nm  BY <1>7, <1>9, <3>1
    <3>3. out[k].quantity = Sums(s, nm)[n - 1]  BY <1>9, <3>1
    <3>4. u[k].quantity = IF nm = m.name
                          THEN (out[k].quantity + m.quantity) % Wrap ELSE out[k].quantity
      BY <2>2, <3>1
    <3>5. Sums(s, nm)[n] = IF m.name = nm THEN (Sums(s, nm)[n - 1] + m.quantity) % Wrap
                           ELSE Sums(s, nm)[n - 1]
      BY <1>8
    <3> HIDE DEF nm, m
    <3>6. u[k].quantity = Sums(s, nm)[n]  BY <3>3, <3>4, <3>5
    <3> QED  BY <3>2, <3>6 DEF nm
  <2>6. Merged(u, s, n)
    BY <2>2, <2>3, <2>4, <2>5 DEF Merged
  <2> QED
    BY <2>1, <2>6
<1>11. CASE ~(\E k \in DOMAIN out : out[k].name = m.name)
  <2> DEFINE u == Append(out, m)
  <2>1. Add(out, m) = u
    BY <1>2, <1>3, <1>11, AddType
  <2>2. /\ u \in Seq(Mosaics) /\ Len(u) = Len(out) + 1
        /\ \A k \in 1 .. Len(out) : u[k] = out[k]
        /\ u[Len(out) + 1] = m
    BY <1>2, <1>3, AppendProperties
  <2>3. DOMAIN u = 1 .. Len(out) + 1
    BY <2>2, LenProperties
  <2> HIDE DEF u
  <2>4. \A k \in DOMAIN u : (k \in DOMAIN out /\ u[k] = out[k]) \/ (k = Len(out) + 1 /\ u[k] = m)
    <3>1. \A k \in 1 .. Len(out) + 1 : k \in 1 .. Len(out) \/ k = Len(out) + 1  BY <1>4
    <3> QED  BY <1>4, <2>2, <2>3, <3>1
  <2>5. /\ \A k \in DOMAIN out : k \in DOMAIN u /\ u[k] = out[k]
        /\ Len(out) + 1 \in DOMAIN u
    BY <1>4, <2>2, <2>3
  <2>6. Distinct(u)
    <3> SUFFICES ASSUME NEW i \in DOMAIN u, NEW j \in DOMAIN u, i # j
                 PROVE  u[i].name # u[j].name
      BY DEF Distinct
    <3>1. CASE i \in DOMAIN out /\ u[i] = out[i] /\ j \in DOMAIN out /\ u[j] = out[j]
      BY <1>3, <3>1 DEF Distinct
    <3> QED
      BY <1>11, <2>4, <3>1
  <2>7. ASSUME NEW i \in 1 .. n PROVE \E k \in DOMAIN u : u[k].name = s[i].name
    <3>1. CASE i = n  BY <2>2, <2>5, <3>1
    <3>2. CASE i \in 1 .. n - 1
      <4>1. PICK k \in DOMAIN out : out[k].name = s[i].name  BY <1>9, <3>2
      <4> QED  BY <2>5, <4>1
    <3> QED  BY <1>6, <3>1, <3>2
  <2>8. ASSUME NEW k \in DOMAIN u
        PROVE  /\ \E i \in 1 .. n : s[i].name = u[k].name
               /\ u[k].quantity = Sums(s, u[k].name)[n]
    <3>1. CASE k \in DOMAIN out /\ u[k] = out[k]
      <4>1. out[k].name # m.name  BY <1>11, <3>1
      <4>2. Sums(s, out[k].name)[n] = Sums(s, out[k].name)[n - 1]  BY <1>8, <4>1
      <4> QED  BY <1>7, <1>9, <3>1, <4>2
    <3>2. CASE u[k] = m
      <4>1. \A i \in 1 .. n - 1 : s[i].name # m.name  BY <1>9, <1>11
      <4>2. n - 1 \in 0 .. Len(s)  BY <1>1
      <4>3. Sums(s, m.name)[n - 1] = 0  BY <4>1, <4>2, NoTotal
      <4>4. Sums(s, m.name)[n] = (0 + m.quantity) % Wrap  BY <1>8, <4>3
      <4>5. m.quantity \in Quantities  BY <1>2 DEF Mosaics, Quantities
      <4>6. Sums(s, m.name)[n] = m.quantity  BY <4>4, <4>5, MosaicFacts
      <4> QED  BY <1>7, <3>2, <4>6
    <3> QED  BY <2>4, <3>1, <3>2
  <2>9. Merged(u, s, n)
    BY <2>2, <2>6, <2>7, <2>8 DEF Merged
  <2> QED
    BY <2>1, <2>9
<1> QED
  BY <1>10, <1>11

LEMMA MergeMerges ==
  ASSUME NEW s \in Seq(Mosaics)
  PROVE  Merged(Merge(s), s, Len(s))
<1> DEFINE l == Len(s)
           X == Seq(Mosaics)
           g == [n \in 1 .. l |-> [x \in X |-> Add(x, s[n])]]
<1>1. l \in Nat
  BY LenProperties
<1>2. \A n \in 1 .. l : s[n] \in Mosaics
  BY ElementOfSeq
<1>3. <<>> \in X /\ \A n \in 1 .. l : \A x \in X : g[n][x] = Add(x, s[n]) /\ Add(x, s[n]) \in X
  <2>1. <<>> \in X  OBVIOUS
  <2>2. \A n \in 1 .. l : \A x \in X : g[n][x] = Add(x, s[n])
    <3> HIDE DEF X, l
    <3> QED  OBVIOUS
  <2>3. \A n \in 1 .. l : \A x \in X : Add(x, s[n]) \in X
    BY <1>2, AddType
  <2> QED
    BY <2>1, <2>2, <2>3
<1> HIDE DEF l, X, g
<1>4. PICK F : Runs(F, 0, l, X, <<>>, g)
  <2>1. \A n \in 1 .. l : \A x \in X : g[n][x] \in X  BY <1>3
  <2> QED  BY ONLY <1>1, <1>3, <2>1, RecursionFromZero
<1>5. F \in [0 .. l -> X] /\ F[0] = <<>> /\ \A n \in 1 .. l : F[n] = g[n][F[n - 1]]
  BY <1>1, <1>4 DEF Runs
<1>6. /\ \A n \in 1 .. l : n - 1 \in 0 .. l /\ n \in 0 .. l /\ n # 0
      /\ \A n \in 0 .. l : n = 0 \/ n \in 1 .. l
      /\ 0 \in 0 .. l /\ l \in 0 .. l
  BY <1>1
<1>7. MergeSteps(F, s)
  <2>1. \A n \in 0 .. l : F[n] = IF n = 0 THEN <<>> ELSE Add(F[n - 1], s[n])
    BY <1>3, <1>5, <1>6
  <2> QED
    BY <1>5, <2>1 DEF MergeSteps, l
<1> DEFINE S == CHOOSE out : MergeSteps(out, s)
<1>8. MergeSteps(S, s)
  BY <1>7
<1>9. Merge(s) = S[l]
  BY DEF Merge, MergeSteps, l
<1> HIDE DEF S
<1>10. \A n \in 0 .. l : S[n] = IF n = 0 THEN <<>> ELSE Add(S[n - 1], s[n])
  BY <1>8 DEF MergeSteps, l
<1> DEFINE Y == [n \in 0 .. l |-> {x \in X : Merged(x, s, n)}]
<1>11. \A n \in 0 .. l : \A x : x \in Y[n] <=> Merged(x, s, n)
  BY DEF Merged, X
<1> HIDE DEF Y
<1>12. S[0] \in Y[0]
  <2>1. DOMAIN <<>> = {} /\ 1 .. 0 = {}  OBVIOUS
  <2>2. <<>> \in Seq(Mosaics)  BY <1>3 DEF X
  <2>3. Merged(<<>>, s, 0)  BY <2>1, <2>2 DEF Merged, Distinct
  <2> QED  BY <1>6, <1>10, <1>11, <2>3
<1>13. ASSUME NEW n \in 1 .. l, S[n - 1] \in Y[n - 1] PROVE S[n] \in Y[n]
  <2>1. Merged(S[n - 1], s, n - 1)  BY <1>6, <1>11, <1>13
  <2>2. Merged(Add(S[n - 1], s[n]), s, n)  BY <2>1, AddMerges DEF l
  <2> QED  BY <1>6, <1>10, <1>11, <2>2
<1>14. \A n \in 0 .. l : S[n] \in Y[n]
  BY ONLY <1>1, <1>12, <1>13, ChainFromZero
<1> QED
  BY <1>6, <1>9, <1>11, <1>14 DEF l

-----------------------------------------------------------------------------
(* nem_canonicalizeMosaics: the sort.                                      *)

Rows(n) == [1 .. n -> Mosaics]
\* The same mosaics in another order.
Sorts(n, t, u) == u \in Rows(n) /\ Distinct(u) /\ Range(u) = Range(t)

LEMMA SwapFacts ==
  ASSUME NEW n \in Nat, NEW t \in Rows(n), NEW i \in 1 .. n, NEW j \in 1 .. n, i # j, Distinct(t)
  PROVE  /\ Sorts(n, t, Swap(t, i, j))
         /\ Swap(t, i, j)[i] = t[j] /\ Swap(t, i, j)[j] = t[i]
         /\ \A k \in 1 .. n : k # i /\ k # j => Swap(t, i, j)[k] = t[k]
<1> DEFINE u == Swap(t, i, j)
<1>1. DOMAIN t = 1 .. n /\ \A k \in 1 .. n : t[k] \in Mosaics
  BY DEF Rows
<1>2. /\ u \in Rows(n) /\ DOMAIN u = 1 .. n /\ u[i] = t[j] /\ u[j] = t[i]
      /\ \A k \in 1 .. n : k # i /\ k # j => u[k] = t[k]
  BY DEF Swap, Rows
<1> HIDE DEF u
<1>3. Range(u) = Range(t)
  BY <1>1, <1>2 DEF Range
<1>4. Distinct(u)
  BY <1>1, <1>2 DEF Distinct
<1> QED
  BY <1>2, <1>3, <1>4 DEF u, Sorts

LEMMA ExchangeFacts ==
  ASSUME NEW n \in Nat, NEW t \in Rows(n), NEW i \in 1 .. n, NEW j \in i + 1 .. n, Distinct(t)
  PROVE  LET u == Exchange(t, i, j)
         IN /\ Sorts(n, t, u) /\ u[i].name < u[j].name /\ u[i].name <= t[i].name
            /\ \A k \in 1 .. n : k # i /\ k # j => u[k] = t[k]
<1>1. j \in 1 .. n /\ i # j
  OBVIOUS
<1>2. DOMAIN t = 1 .. n /\ t[i].name \in Nat /\ t[j].name \in Nat /\ t[i].name # t[j].name
  BY <1>1 DEF Rows, Mosaics, Distinct
<1> DEFINE u == Swap(t, i, j)
<1>3. /\ Sorts(n, t, u) /\ u[i] = t[j] /\ u[j] = t[i]
      /\ \A k \in 1 .. n : k # i /\ k # j => u[k] = t[k]
  BY ONLY n \in Nat, t \in Rows(n), i \in 1 .. n, <1>1, Distinct(t), SwapFacts
<1> HIDE DEF u
<1>4. CASE t[i].name > t[j].name
  <2>1. Exchange(t, i, j) = u  BY <1>4 DEF Exchange, u
  <2>2. u[i].name < u[j].name /\ u[i].name <= t[i].name  BY <1>2, <1>3, <1>4
  <2> QED  BY <1>3, <2>1, <2>2
<1>5. CASE ~(t[i].name > t[j].name)
  <2>1. Exchange(t, i, j) = t  BY <1>5 DEF Exchange
  <2>2. t[i].name < t[j].name /\ t[i].name <= t[i].name  BY <1>2, <1>5
  <2>3. Sorts(n, t, t)  BY DEF Sorts
  <2> QED  BY <2>1, <2>2, <2>3
<1> QED
  BY <1>4, <1>5

\* t comes from s by exchanging from i on, and t[i] is the smallest up to j.
Selected(n, s, t, i, j) ==
  /\ Sorts(n, s, t)
  /\ \A k \in 1 .. n : k < i => t[k] = s[k]
  /\ \A k \in 1 .. n : i < k /\ k <= j => t[i].name < t[k].name

LEMMA ExchangeSelects ==
  ASSUME NEW n \in Nat, NEW s, NEW t, NEW i \in 1 .. n, NEW j \in i + 1 .. n,
         Selected(n, s, t, i, j - 1)
  PROVE  Selected(n, s, Exchange(t, i, j), i, j)
<1> DEFINE u == Exchange(t, i, j)
<1>1. t \in Rows(n) /\ Distinct(t) /\ Range(t) = Range(s)
  BY DEF Selected, Sorts
<1>2. /\ Sorts(n, t, u) /\ u[i].name < u[j].name /\ u[i].name <= t[i].name
      /\ \A k \in 1 .. n : k # i /\ k # j => u[k] = t[k]
  BY <1>1, ExchangeFacts
<1> HIDE DEF u
<1>3. Sorts(n, s, u)
  BY <1>1, <1>2 DEF Sorts
<1>4. ASSUME NEW k \in 1 .. n, k < i PROVE u[k] = s[k]
  <2>1. k # i /\ k # j  BY <1>4
  <2>2. t[k] = s[k]  BY <1>4 DEF Selected
  <2> QED  BY <1>2, <2>1, <2>2
<1>5. ASSUME NEW k \in 1 .. n, i < k, k <= j PROVE u[i].name < u[k].name
  <2>1. CASE k = j  BY <1>2, <2>1
  <2>2. CASE k # j
    <3>1. k # i /\ k <= j - 1  BY <1>5, <2>2
    <3>2. t[i].name < t[k].name  BY <1>5, <3>1 DEF Selected
    <3>3. u[k] = t[k]  BY <1>2, <2>2, <3>1
    <3>4. t[i].name \in Nat /\ t[k].name \in Nat /\ u[i].name \in Nat
      <4>1. u \in Rows(n)  BY <1>3 DEF Sorts
      <4> QED  BY <1>1, <4>1 DEF Rows, Mosaics
    <3> QED  BY <1>2, <3>2, <3>3, <3>4
  <2> QED  BY <2>1, <2>2
<1>6. Selected(n, s, u, i, j)
  BY <1>3, <1>4, <1>5 DEF Selected
<1> QED
  BY <1>6 DEF u

SortFromSteps(t, s, i) ==
  t = [j \in i .. Len(s) |-> IF j = i THEN s ELSE Exchange(t[j - 1], i, j)]
SortSteps(t, s) ==
  t = [i \in 0 .. Len(s) - 1 |-> IF i = 0 THEN s ELSE SortFrom(t[i - 1], i)]

LEMMA RowsAreSeqs ==
  ASSUME NEW n \in Nat, NEW s \in Rows(n)
  PROVE  s \in Seq(Mosaics) /\ Len(s) = n
<1>1. s \in Seq(Mosaics)  BY SeqDef DEF Rows
<1>2. DOMAIN s = 1 .. n  BY DEF Rows
<1> QED  BY <1>1, <1>2, LenProperties

LEMMA SortFromSelects ==
  ASSUME NEW n \in Nat, NEW s \in Rows(n), Distinct(s), NEW i \in 1 .. n
  PROVE  Selected(n, s, SortFrom(s, i), i, n)
<1> DEFINE X == {t \in Rows(n) : Distinct(t)}
           g == [j \in i + 1 .. n |-> [x \in X |-> Exchange(x, i, j)]]
<1>1. Len(s) = n
  BY RowsAreSeqs
<1>2. \A j \in i + 1 .. n : \A x \in X : Exchange(x, i, j) \in X
  BY ExchangeFacts DEF Sorts
<1>3. s \in X
  OBVIOUS
<1> HIDE DEF X
<1>4. \A j \in i + 1 .. n : \A x \in X : g[j][x] = Exchange(x, i, j)
  OBVIOUS
<1> HIDE DEF g
<1>5. i \in Nat /\ i <= n
  OBVIOUS
<1>6. PICK F : Runs(F, i, n, X, s, g)
  <2>1. \A j \in i + 1 .. n : \A x \in X : g[j][x] \in X  BY <1>2, <1>4
  <2> QED  BY ONLY n \in Nat, <1>3, <1>5, <2>1, Recursion
<1>7. F \in [i .. n -> X] /\ F[i] = s /\ \A j \in i + 1 .. n : F[j] = g[j][F[j - 1]]
  BY <1>6 DEF Runs
<1>8. /\ \A j \in i + 1 .. n : j - 1 \in i .. n /\ j \in i .. n /\ j # i
      /\ \A j \in i .. n : j = i \/ j \in i + 1 .. n
      /\ i \in i .. n /\ n \in i .. n
  BY <1>5
<1>9. SortFromSteps(F, s, i)
  <2>1. \A j \in i .. n : F[j] = IF j = i THEN s ELSE Exchange(F[j - 1], i, j)
    BY <1>4, <1>7, <1>8
  <2> QED
    BY <1>1, <1>7, <2>1 DEF SortFromSteps
<1> DEFINE S == CHOOSE t : SortFromSteps(t, s, i)
<1>10. SortFromSteps(S, s, i)
  BY <1>9
<1>11. SortFrom(s, i) = S[n]
  BY <1>1 DEF SortFrom, SortFromSteps
<1> HIDE DEF S
<1>12. \A j \in i .. n : S[j] = IF j = i THEN s ELSE Exchange(S[j - 1], i, j)
  BY <1>1, <1>10 DEF SortFromSteps
<1> DEFINE Y == [j \in i .. n |-> {x \in X : Selected(n, s, x, i, j)}]
<1>13. \A j \in i .. n : \A x : x \in Y[j] <=> Selected(n, s, x, i, j)
  BY DEF Selected, Sorts, X
<1> HIDE DEF Y
<1>14. S[i] \in Y[i]
  <2>1. \A k \in 1 .. n : ~(i < k /\ k <= i)  OBVIOUS
  <2>2. Selected(n, s, s, i, i)  BY <2>1 DEF Selected, Sorts
  <2> QED  BY <1>8, <1>12, <1>13, <2>2
<1>15. ASSUME NEW j \in i + 1 .. n, S[j - 1] \in Y[j - 1] PROVE S[j] \in Y[j]
  <2>1. Selected(n, s, S[j - 1], i, j - 1)  BY <1>8, <1>13, <1>15
  <2>2. Selected(n, s, Exchange(S[j - 1], i, j), i, j)  BY <2>1, ExchangeSelects
  <2> QED  BY <1>8, <1>12, <1>13, <2>2
<1>16. \A j \in i .. n : S[j] \in Y[j]
  BY ONLY n \in Nat, <1>5, <1>14, <1>15, Chain
<1> QED
  BY <1>8, <1>11, <1>13, <1>16

\* The first i are in order, and before the others.
Ordered(n, s, t, i) ==
  /\ Sorts(n, s, t)
  /\ \A a, b \in 1 .. n : a <= i /\ a < b => t[a].name < t[b].name

LEMMA SortFromOrders ==
  ASSUME NEW n \in Nat, NEW s, NEW t, NEW i \in 1 .. n, Ordered(n, s, t, i - 1)
  PROVE  Ordered(n, s, SortFrom(t, i), i)
<1> DEFINE u == SortFrom(t, i)
<1>1. t \in Rows(n) /\ Distinct(t) /\ Range(t) = Range(s)
  BY DEF Ordered, Sorts
<1>2. Selected(n, t, u, i, n)
  BY <1>1, SortFromSelects
<1> HIDE DEF u
<1>3. u \in Rows(n) /\ Distinct(u) /\ Range(u) = Range(t)
  BY <1>2 DEF Selected, Sorts
<1>4. Sorts(n, s, u)
  BY <1>1, <1>3 DEF Sorts
<1>5. DOMAIN u = 1 .. n /\ DOMAIN t = 1 .. n
  BY <1>1, <1>3 DEF Rows
<1>6. ASSUME NEW a \in 1 .. n, NEW b \in 1 .. n, a <= i, a < b
      PROVE  u[a].name < u[b].name
  <2>1. CASE a = i
    <3>1. b <= n  OBVIOUS
    <3> QED  BY <1>2, <1>6, <2>1, <3>1 DEF Selected
  <2>2. CASE a # i
    <3>1. a < i /\ a <= i - 1  BY <1>6, <2>2
    <3>2. u[a] = t[a]  BY <1>2, <3>1 DEF Selected
    <3>3. PICK c \in 1 .. n : t[c] = u[b]
      BY <1>3, <1>5 DEF Range
    <3>4. c > a
      <4>1. SUFFICES ASSUME ~(c > a) PROVE FALSE
        OBVIOUS
      <4>2. c < i /\ c # b  BY <1>6, <3>1, <4>1
      <4>3. u[c] = t[c]  BY <1>2, <4>2 DEF Selected
      <4>4. u[c].name = u[b].name  BY <3>3, <4>3
      <4> QED  BY <1>3, <1>5, <4>2, <4>4 DEF Distinct
    <3>5. t[a].name < t[c].name
      BY <3>1, <3>4 DEF Ordered
    <3> QED
      BY <3>2, <3>3, <3>5
  <2> QED
    BY <2>1, <2>2
<1>7. Ordered(n, s, u, i)
  BY <1>4, <1>6 DEF Ordered
<1> QED
  BY <1>7 DEF u

LEMMA SortOrders ==
  ASSUME NEW n \in Nat \ {0}, NEW s \in Rows(n), Distinct(s)
  PROVE  Ordered(n, s, Sort(s), n)
<1> DEFINE l == n - 1
           X == {t \in Rows(n) : Distinct(t)}
           g == [i \in 1 .. l |-> [x \in X |-> SortFrom(x, i)]]
<1>1. Len(s) = n /\ l \in Nat /\ n \in Nat
  BY RowsAreSeqs
<1>2. \A i \in 1 .. l : i \in 1 .. n
  OBVIOUS
<1>3. \A i \in 1 .. l : \A x \in X : SortFrom(x, i) \in X
  BY <1>1, <1>2, SortFromSelects DEF Selected, Sorts
<1>4. s \in X
  OBVIOUS
<1> HIDE DEF X, l
<1>5. \A i \in 1 .. l : \A x \in X : g[i][x] = SortFrom(x, i)
  OBVIOUS
<1> HIDE DEF g
<1>6. PICK F : Runs(F, 0, l, X, s, g)
  <2>1. \A i \in 1 .. l : \A x \in X : g[i][x] \in X  BY <1>3, <1>5
  <2> QED  BY ONLY <1>1, <1>4, <2>1, RecursionFromZero
<1>7. F \in [0 .. l -> X] /\ F[0] = s /\ \A i \in 1 .. l : F[i] = g[i][F[i - 1]]
  BY <1>1, <1>6 DEF Runs
<1>8. /\ \A i \in 1 .. l : i - 1 \in 0 .. l /\ i \in 0 .. l /\ i # 0
      /\ \A i \in 0 .. l : i = 0 \/ i \in 1 .. l
      /\ 0 \in 0 .. l /\ l \in 0 .. l
  BY <1>1
<1>9. SortSteps(F, s)
  <2>1. \A i \in 0 .. l : F[i] = IF i = 0 THEN s ELSE SortFrom(F[i - 1], i)
    BY <1>5, <1>7, <1>8
  <2> QED
    BY <1>1, <1>7, <2>1 DEF SortSteps, l
<1> DEFINE S == CHOOSE t : SortSteps(t, s)
<1>10. SortSteps(S, s)
  BY <1>9
<1>11. Sort(s) = S[l]
  BY <1>1 DEF Sort, SortSteps, l
<1> HIDE DEF S
<1>12. \A i \in 0 .. l : S[i] = IF i = 0 THEN s ELSE SortFrom(S[i - 1], i)
  BY <1>1, <1>10 DEF SortSteps, l
<1> DEFINE Y == [i \in 0 .. l |-> {x \in X : Ordered(n, s, x, i)}]
<1>13. \A i \in 0 .. l : \A x : x \in Y[i] <=> Ordered(n, s, x, i)
  BY DEF Ordered, Sorts, X
<1> HIDE DEF Y
<1>14. S[0] \in Y[0]
  <2>1. \A a \in 1 .. n : ~(a <= 0)  OBVIOUS
  <2>2. Ordered(n, s, s, 0)  BY <2>1 DEF Ordered, Sorts
  <2> QED  BY <1>8, <1>12, <1>13, <2>2
<1>15. ASSUME NEW i \in 1 .. l, S[i - 1] \in Y[i - 1] PROVE S[i] \in Y[i]
  <2>1. Ordered(n, s, S[i - 1], i - 1)  BY <1>8, <1>13, <1>15
  <2>2. Ordered(n, s, SortFrom(S[i - 1], i), i)  BY <1>1, <1>2, <2>1, SortFromOrders
  <2> QED  BY <1>8, <1>12, <1>13, <2>2
<1>16. \A i \in 0 .. l : S[i] \in Y[i]
  BY ONLY <1>1, <1>14, <1>15, ChainFromZero
<1>17. Ordered(n, s, S[l], l)
  BY <1>8, <1>13, <1>16
<1>18. \A a, b \in 1 .. n : a < b => a <= l
  BY DEF l
<1>19. Ordered(n, s, S[l], n)
  BY <1>17, <1>18 DEF Ordered
<1> QED
  BY <1>11, <1>19

NamesOf(t) == {t[i].name : i \in DOMAIN t}
LEMMA CanonicalFacts ==
  ASSUME NEW s \in Seq(Mosaics)
  PROVE  LET c == nem_canonicalizeMosaics(s)
         IN /\ c \in Seq(Mosaics) /\ NamesOf(c) = NamesOf(s)
            /\ \A i, j \in DOMAIN c : i < j => c[i].name < c[j].name
            /\ \A i \in DOMAIN c : c[i].quantity = Total(s, c[i].name)
<1> DEFINE c == nem_canonicalizeMosaics(s)
           l == Len(s)
<1>1. l \in Nat /\ DOMAIN s = 1 .. l
  BY LenProperties
<1>2. CASE l <= 1
  <2>1. c = s  BY <1>2 DEF nem_canonicalizeMosaics
  <2>2. \A i, j \in DOMAIN s : ~(i < j)  BY <1>1, <1>2
  <2>3. ASSUME NEW i \in DOMAIN s PROVE s[i].quantity = Total(s, s[i].name)
    <3> DEFINE nm == s[i].name
    <3>1. i = 1 /\ l = 1 /\ 1 - 1 = 0  BY <1>1, <1>2
    <3>2. s[i] \in Mosaics  BY <1>1, ElementOfSeq
    <3>3. s[i].quantity \in Quantities  BY <3>2 DEF Mosaics, Quantities
    <3>4. 1 \in 1 .. Len(s)  BY <3>1
    <3>5. Total(s, nm) = Sums(s, nm)[1] /\ Sums(s, nm)[0] = 0  BY <3>1, Totals
    <3>6. Sums(s, nm)[1] = IF s[1].name = nm THEN (Sums(s, nm)[1 - 1] + s[1].quantity) % Wrap
                           ELSE Sums(s, nm)[1 - 1]
      BY <3>4, Totals
    <3>7. Sums(s, nm)[1] = (0 + s[i].quantity) % Wrap  BY <3>1, <3>5, <3>6
    <3> QED  BY <3>3, <3>5, <3>7, MosaicFacts
  <2> QED
    BY <2>1, <2>2, <2>3
<1>3. CASE ~(l <= 1)
  <2> DEFINE m == Merge(s)
             n == Len(m)
  <2>1. Merged(m, s, l)
    BY MergeMerges
  <2>2. c = Sort(m)
    BY <1>3 DEF nem_canonicalizeMosaics
  <2> HIDE DEF m
  <2>3. m \in Seq(Mosaics) /\ Distinct(m)
    BY <2>1 DEF Merged
  <2>4. n \in Nat /\ DOMAIN m = 1 .. n /\ m \in Rows(n)
    BY <2>3, LenProperties DEF Rows
  <2>5. n # 0
    <3>1. 1 \in 1 .. l  BY <1>1, <1>3
    <3>2. \E k \in DOMAIN m : m[k].name = s[1].name  BY <2>1, <3>1 DEF Merged
    <3> QED  BY <2>4, <3>2
  <2> HIDE DEF c, n
  <2>6. Ordered(n, m, c, n)
    BY <2>2, <2>3, <2>4, <2>5, SortOrders
  <2>7. c \in Rows(n) /\ Range(c) = Range(m)
    BY <2>6 DEF Ordered, Sorts
  <2>8. c \in Seq(Mosaics)
    BY <2>4, <2>7, RowsAreSeqs
  <2>9. DOMAIN c = 1 .. n
    BY <2>7 DEF Rows
  <2>10. /\ \A i \in DOMAIN c : \E k \in DOMAIN m : m[k] = c[i]
         /\ \A k \in DOMAIN m : \E i \in DOMAIN c : c[i] = m[k]
    BY <2>7 DEF Range
  <2>11. NamesOf(c) = NamesOf(s)
    <3>1. ASSUME NEW i \in DOMAIN c PROVE \E j \in DOMAIN s : s[j].name = c[i].name
      <4>1. PICK k \in DOMAIN m : m[k] = c[i]  BY <2>10
      <4>2. \E j \in 1 .. l : s[j].name = m[k].name  BY <2>1 DEF Merged
      <4> QED  BY <1>1, <4>1, <4>2
    <3>2. ASSUME NEW j \in DOMAIN s PROVE \E i \in DOMAIN c : c[i].name = s[j].name
      <4>1. PICK k \in DOMAIN m : m[k].name = s[j].name  BY <1>1, <2>1 DEF Merged
      <4> QED  BY <2>10, <4>1
    <3> QED
      BY <3>1, <3>2 DEF NamesOf
  <2>12. \A i, j \in DOMAIN c : i < j => c[i].name < c[j].name
    <3>1. \A i \in 1 .. n : i <= n  BY <2>4
    <3> QED  BY <2>6, <2>9, <3>1 DEF Ordered
  <2>13. ASSUME NEW i \in DOMAIN c PROVE c[i].quantity = Total(s, c[i].name)
    <3>1. PICK k \in DOMAIN m : m[k] = c[i]  BY <2>10
    <3>2. m[k].quantity = Sums(s, m[k].name)[l]  BY <2>1 DEF Merged
    <3>3. Total(s, m[k].name) = Sums(s, m[k].name)[l]  BY Totals
    <3> QED  BY <3>1, <3>2, <3>3
  <2> QED
    BY <2>8, <2>11, <2>12, <2>13 DEF c
<1> QED
  BY <1>1, <1>2, <1>3

-----------------------------------------------------------------------------
(* The dialogs of a NEM transaction show what is written.                  *)

LEMMA Largest ==
  ASSUME NEW n \in Nat, NEW S \in SUBSET (0 .. n), S # {}
  PROVE  \E x \in S : \A y \in S : y <= x
<1> DEFINE T == {n - y : y \in S}
<1>1. T \subseteq Nat /\ T # {}
  <2>1. \A y \in S : y \in 0 .. n /\ n - y \in Nat  OBVIOUS
  <2>2. \A k \in T : k \in Nat  BY <2>1
  <2>3. PICK y \in S : TRUE  OBVIOUS
  <2>4. n - y \in T  BY <2>3
  <2> QED  BY <2>2, <2>4
<1>2. \E k \in T : \A j \in T : ~(<<j, k>> \in OpToRel(<, Nat))
  <2> HIDE DEF T
  <2> QED  BY <1>1, NatLessThanWellFounded, WFMin
<1>3. \A j, k \in Nat : j < k => <<j, k>> \in OpToRel(<, Nat)
  BY DEF OpToRel
<1>4. PICK k \in T : \A j \in T : ~(j < k)
  BY <1>1, <1>2, <1>3
<1>5. PICK x \in S : k = n - x
  BY <1>4
<1>6. \A y \in S : ~(n - y < n - x)
  BY <1>4, <1>5
<1>7. \A y \in S : y <= x
  BY <1>6
<1> QED
  BY <1>7

LEMMA ListWithout ==
  ASSUME NEW t, IsList(t), NEW x \in 0 .. Len(t)
  PROVE  /\ IsList(RemoveAt(t, x))
         /\ \A i \in DOMAIN t : i # x => t[i] \in Range(RemoveAt(t, x))
<1> DEFINE n == Len(t)
           R == Range(t)
           a == SubSeq(t, 1, x - 1)
           b == SubSeq(t, x + 1, n)
<1>1. n \in Nat /\ DOMAIN t = 1 .. n /\ \A i \in 1 .. n : t[i] \in R
  BY ListFacts
<1>2. x \in Int /\ x - 1 \in Int /\ x + 1 \in Int /\ n \in Int /\ 1 \in Int /\ x - 1 - 1 + 1 = x - 1
      /\ n - (x + 1) + 1 = n - x
  BY <1>1
<1>3. /\ \A i \in 1 .. x - 1 : t[i] \in R
      /\ \A i \in x + 1 .. n : t[i] \in R
  BY <1>1
<1> HIDE DEF R, n
<1>4. /\ a \in Seq(R) /\ Len(a) = (IF 1 <= x - 1 THEN x - 1 ELSE 0)
      /\ \A i \in 1 .. x - 1 : a[i] = t[1 + i - 1]
  BY ONLY <1>2, <1>3, SubSeqProperties
<1>5. /\ b \in Seq(R) /\ Len(b) = (IF x + 1 <= n THEN n - x ELSE 0)
      /\ \A i \in 1 .. n - x : b[i] = t[x + 1 + i - 1]
  BY ONLY <1>2, <1>3, SubSeqProperties
<1>6. RemoveAt(t, x) = a \o b
  BY DEF RemoveAt, n
<1> HIDE DEF a, b
<1>7. IsList(a) /\ IsList(b)
  BY <1>4, <1>5, ListOfSet
<1>8. IsList(a \o b) /\ Range(a \o b) = Range(a) \cup Range(b)
  BY <1>7, ListAppended
<1>9. ASSUME NEW i \in 1 .. n, i < x PROVE t[i] \in Range(a)
  <2>1. i \in 1 .. x - 1 /\ 1 + i - 1 = i /\ 1 <= x - 1  BY <1>1, <1>2, <1>9
  <2>2. DOMAIN a = 1 .. x - 1  BY <1>4, <1>7, <2>1, ListFacts
  <2> QED  BY <1>4, <2>1, <2>2 DEF Range
<1>10. ASSUME NEW i \in 1 .. n, i > x PROVE t[i] \in Range(b)
  <2>1. i - x \in 1 .. n - x /\ x + 1 + (i - x) - 1 = i /\ x + 1 <= n  BY <1>1, <1>2, <1>10
  <2>2. DOMAIN b = 1 .. n - x  BY <1>5, <1>7, <2>1, ListFacts
  <2> QED  BY <1>5, <2>1, <2>2 DEF Range
<1>11. \A i \in 1 .. n : i # x => i < x \/ i > x
  BY <1>1, <1>2
<1> QED
  BY <1>1, <1>6, <1>8, <1>9, <1>10, <1>11

LEMMA WhenList ==
  ASSUME NEW b, NEW t, IsList(t)
  PROVE  IsList(When(b, t)) /\ Range(When(b, t)) = IF b THEN Range(t) ELSE {}
<1>1. CASE b  BY <1>1 DEF When
<1>2. CASE ~b  BY <1>2, Tuples DEF When
<1> QED  BY <1>1, <1>2

\* A function of the elements of a list.
LEMMA ListOfImages ==
  ASSUME NEW t, IsList(t), NEW u, NEW f,
         u = [i \in DOMAIN t |-> f[i]]
  PROVE  IsList(u) /\ Len(u) = Len(t) /\ DOMAIN u = DOMAIN t /\ Range(u) = {f[i] : i \in DOMAIN t}
<1>1. Len(t) \in Nat /\ DOMAIN t = 1 .. Len(t)
  BY ListFacts
<1>2. DOMAIN u = 1 .. Len(t) /\ \A i \in DOMAIN t : u[i] = f[i]
  BY <1>1
<1>3. u = [i \in 1 .. Len(t) |-> u[i]]
  BY <1>1
<1>4. IsList(u) /\ Len(u) = Len(t)
  BY ONLY <1>1, <1>2, <1>3, ListByElements
<1> QED
  BY <1>1, <1>2, <1>4 DEF Range

PartsOf(d) == UNION Range(d)

\* What is in no dialog.
Times == Parts({"timestamp", "deadline"})
Empties(t) == IF ~t.payload /\ t.encrypted THEN Parts({"payload"}) ELSE {}

LEMMA TransferShown ==
  ASSUME NEW t, t.mosaics \in Seq(Mosaics)
  PROVE  /\ IsList(nem_askTransfer(t))
         /\ nem_fsmTransfer(t) \subseteq PartsOf(nem_askTransfer(t)) \cup Times \cup Empties(t)
<1> DEFINE s == t.mosaics
           n == Len(s)
           xem == CHOOSE i \in {0} \cup XemAt(s) : \A j \in XemAt(s) : j <= i
           listed == [i \in DOMAIN s |-> layoutNEMTransferMosaic(s[i])]
           u == When(\E i \in DOMAIN s : Definition(s[i]) = "unknown", <<{}>>)
           v == <<Parts({"fee", "amount"}) \cup {MosaicPart(s[i]) : i \in {xem} \ {0}}>>
           w == RemoveAt(listed, xem)
           none == <<Parts({"fee", "amount"})>>
           x == IF s = <<>> THEN none ELSE u \o v \o w
           y == When(t.payload, <<Parts({"payload"})>>)
           z == <<Parts({"recipient"})>>
<1>1. nem_askTransfer(t) = x \o y \o z
  BY DEF nem_askTransfer
<1>2. IsList(s) /\ n \in Nat /\ DOMAIN s = 1 .. n
  BY ListOfSet, ListFacts
<1>3. xem \in 0 .. n
  <2>1. {0} \cup XemAt(s) \in SUBSET (0 .. n)  BY <1>2 DEF XemAt
  <2>2. \E i \in {0} \cup XemAt(s) : \A j \in {0} \cup XemAt(s) : j <= i  BY <1>2, <2>1, Largest
  <2>3. xem \in {0} \cup XemAt(s)  BY <2>2
  <2> QED  BY <2>1, <2>3
<1> HIDE DEF xem
<1>4. IsList(listed) /\ Len(listed) = n /\ DOMAIN listed = 1 .. n
  BY <1>2, ListByElements
<1>5. \A i \in DOMAIN s : listed[i] = layoutNEMTransferMosaic(s[i])
  OBVIOUS
<1> HIDE DEF listed
<1>6. IsList(w) /\ \A i \in DOMAIN s : i # xem => listed[i] \in Range(w)
  BY <1>2, <1>3, <1>4, ListWithout
<1>7. IsList(u)
  BY Tuples, WhenList
<1>8. IsList(v) /\ Range(v) = {Parts({"fee", "amount"}) \cup {MosaicPart(s[i]) : i \in {xem} \ {0}}}
  BY Tuples
<1>9. IsList(none) /\ Range(none) = {Parts({"fee", "amount"})}
  BY Tuples
<1>10. IsList(y) /\ Range(y) = IF t.payload THEN {Parts({"payload"})} ELSE {}
  BY Tuples, WhenList
<1>11. IsList(z) /\ Range(z) = {Parts({"recipient"})}
  BY Tuples
<1> HIDE DEF u, v, w, y, z, none
<1>12. IsList(u \o v) /\ IsList(u \o v \o w) /\ Range(u \o v \o w) = Range(u) \cup Range(v) \cup Range(w)
  BY <1>6, <1>7, <1>8, ListAppended
<1>13. IsList(x)
  BY <1>9, <1>12
<1>14. Parts({"fee", "amount"}) \subseteq PartsOf(x)
  BY <1>8, <1>9, <1>12 DEF PartsOf
<1>15. ASSUME NEW i \in DOMAIN s PROVE MosaicPart(s[i]) \in PartsOf(x)
  <2>1. s # <<>>  BY <1>2
  <2>2. x = u \o v \o w  BY <2>1
  <2>3. CASE i = xem
    <3>1. i # 0  BY <1>2
    <3>2. MosaicPart(s[i]) \in PartsOf(v)  BY <1>8, <2>3, <3>1 DEF PartsOf
    <3> QED  BY <1>12, <2>2, <3>2 DEF PartsOf
  <2>4. CASE i # xem
    <3>1. MosaicPart(s[i]) \in PartsOf(w)
      BY <1>5, <1>6, <2>4 DEF PartsOf, layoutNEMTransferMosaic
    <3> QED  BY <1>12, <2>2, <3>1 DEF PartsOf
  <2> QED
    BY <2>3, <2>4
<1> HIDE DEF x
<1>16. /\ IsList(x \o y) /\ IsList(x \o y \o z)
       /\ Range(x \o y \o z) = Range(x) \cup Range(y) \cup Range(z)
  BY <1>10, <1>11, <1>13, ListAppended
<1>17. PartsOf(x \o y \o z) = PartsOf(x) \cup PartsOf(y) \cup PartsOf(z)
  BY <1>16 DEF PartsOf
<1>18. Parts({"recipient"}) = PartsOf(z) /\ PartsOf(y) = IF t.payload THEN Parts({"payload"}) ELSE {}
  BY <1>10, <1>11 DEF PartsOf
<1>19. ASSUME NEW p \in nem_transaction_create({"recipient", "amount"}
                         \cup IF t.payload \/ t.encrypted THEN {"payload"} ELSE {})
       PROVE  p \in Parts({"recipient"}) \cup Parts({"fee", "amount"}) \cup Times \cup Empties(t)
                   \cup IF t.payload THEN Parts({"payload"}) ELSE {}
  BY DEF nem_transaction_create, Parts, Times, Empties
<1> QED
  BY <1>1, <1>14, <1>15, <1>16, <1>17, <1>18, <1>19 DEF nem_fsmTransfer

LEMMA NamespaceShown ==
  ASSUME NEW t
  PROVE  /\ IsList(nem_askProvisionNamespace(t))
         /\ nem_fsmProvisionNamespace(t)
              \subseteq PartsOf(nem_askProvisionNamespace(t)) \cup Times
                        \cup Parts({"sink"} \cup IF ~t.parent THEN {"namespace"} ELSE {})
<1> DEFINE a == IF t.parent THEN Parts({"namespace", "parent"}) ELSE {}
           b == Parts({"rentalFee", "fee"})
<1>1. nem_askProvisionNamespace(t) = <<a, b>>  BY DEF nem_askProvisionNamespace
<1>2. IsList(<<a, b>>) /\ PartsOf(<<a, b>>) = a \cup b
  <2> HIDE DEF a, b
  <2> QED  BY Tuples DEF PartsOf
<1>3. ASSUME NEW p \in nem_fsmProvisionNamespace(t)
      PROVE  p \in a \cup b \cup Times \cup Parts({"sink"} \cup IF ~t.parent THEN {"namespace"} ELSE {})
  BY DEF nem_fsmProvisionNamespace, nem_transaction_create, Times, Parts
<1> QED  BY <1>1, <1>2, <1>3

LEMMA MosaicShown ==
  ASSUME NEW t
  PROVE  /\ IsList(nem_askMosaicCreation(t))
         /\ nem_fsmMosaicCreation(t)
              \subseteq PartsOf(nem_askMosaicCreation(t)) \cup Times \cup Parts({"sink"})
<1> DEFINE a == Parts({"mosaicName"})
           b == Parts({"description"})
           c == Parts({"supply", "divisibility", "mutable_supply", "transferable"})
           d == Parts({"levy"})
           e == Parts({"levyRecipient"})
           f == Parts({"creationFee", "fee"})
           s == <<a, b, c>>
           u == When(t.levy, <<d, e>>)
           v == <<f>>
<1>1. nem_askMosaicCreation(t) = s \o u \o v  BY DEF nem_askMosaicCreation
<1>2. ASSUME NEW p \in nem_fsmMosaicCreation(t)
      PROVE  p \in a \cup b \cup c \cup (IF t.levy THEN d \cup e ELSE {}) \cup f \cup Times
                   \cup Parts({"sink"})
  BY DEF nem_fsmMosaicCreation, nem_transaction_create, Times, Parts
<1> HIDE DEF a, b, c, d, e, f
<1>3. IsList(s) /\ PartsOf(s) = a \cup b \cup c  BY Tuples DEF PartsOf
<1>4. IsList(u) /\ PartsOf(u) = IF t.levy THEN d \cup e ELSE {}  BY Tuples, WhenList DEF PartsOf
<1>5. IsList(v) /\ PartsOf(v) = f  BY Tuples DEF PartsOf
<1> HIDE DEF s, u, v
<1>6. IsList(s \o u) /\ PartsOf(s \o u) = PartsOf(s) \cup PartsOf(u)
  BY <1>3, <1>4, ListAppended DEF PartsOf
<1>7. IsList(s \o u \o v) /\ PartsOf(s \o u \o v) = PartsOf(s \o u) \cup PartsOf(v)
  BY <1>5, <1>6, ListAppended DEF PartsOf
<1> QED  BY <1>1, <1>2, <1>3, <1>4, <1>5, <1>6, <1>7

LEMMA SupplyShown ==
  ASSUME NEW t
  PROVE  /\ IsList(nem_askSupplyChange(t))
         /\ nem_fsmSupplyChange(t) \subseteq PartsOf(nem_askSupplyChange(t)) \cup Times
<1> DEFINE a == Parts({"mosaicName"})
           b == Parts({"type", "delta"})
           c == Parts({"fee"})
<1>1. nem_askSupplyChange(t) = <<a, b, c>>  BY DEF nem_askSupplyChange
<1>2. ASSUME NEW p \in nem_fsmSupplyChange(t) PROVE p \in a \cup b \cup c \cup Times
  BY DEF nem_fsmSupplyChange, nem_transaction_create, Times, Parts
<1> HIDE DEF a, b, c
<1>3. IsList(<<a, b, c>>) /\ PartsOf(<<a, b, c>>) = a \cup b \cup c  BY Tuples DEF PartsOf
<1> QED  BY <1>1, <1>2, <1>3

LEMMA ImportanceShown ==
  ASSUME NEW t
  PROVE  /\ IsList(nem_askImportanceTransfer(t))
         /\ nem_fsmImportanceTransfer(t)
              \subseteq PartsOf(nem_askImportanceTransfer(t)) \cup Times \cup Parts({"remoteKey"})
<1> DEFINE a == Parts({"mode"})
           b == Parts({"fee"})
<1>1. nem_askImportanceTransfer(t) = <<a, b>>  BY DEF nem_askImportanceTransfer
<1>2. ASSUME NEW p \in nem_fsmImportanceTransfer(t)
      PROVE  p \in a \cup b \cup Times \cup Parts({"remoteKey"})
  BY DEF nem_fsmImportanceTransfer, nem_transaction_create, Times, Parts
<1> HIDE DEF a, b
<1>3. IsList(<<a, b>>) /\ PartsOf(<<a, b>>) = a \cup b  BY Tuples DEF PartsOf
<1> QED  BY <1>1, <1>2, <1>3

LEMMA AggregateShown ==
  ASSUME NEW t, t.modifications \in Seq({"Add", "Delete"}), NEW creation
  PROVE  /\ IsList(nem_askAggregateModification(t, creation))
         /\ nem_fsmAggregateModification(t)
              \subseteq PartsOf(nem_askAggregateModification(t, creation)) \cup Times
<1> DEFINE m == t.modifications
           r == When(creation, <<{}>>)
           s == [i \in DOMAIN m |-> {Modification(t, i)}]
           u == When(t.relative_change # 0, <<Parts({"relative_change"})>>)
           v == <<Parts({"fee"})>>
<1>1. nem_askAggregateModification(t, creation) = r \o s \o u \o v
  BY DEF nem_askAggregateModification
<1>2. IsList(m) /\ Len(m) \in Nat /\ DOMAIN m = 1 .. Len(m)  BY ListOfSet, ListFacts
<1>3. IsList(s) /\ \A i \in DOMAIN m : Modification(t, i) \in PartsOf(s)
  <2>1. IsList(s)  BY <1>2, ListByElements
  <2>2. DOMAIN s = DOMAIN m /\ \A i \in DOMAIN m : s[i] = {Modification(t, i)}  OBVIOUS
  <2> HIDE DEF s
  <2> QED  BY <2>1, <2>2 DEF PartsOf, Range
<1>4. IsList(r)  BY Tuples, WhenList
<1>5. IsList(u) /\ PartsOf(u) = IF t.relative_change # 0 THEN Parts({"relative_change"}) ELSE {}
  <2> DEFINE o == <<Parts({"relative_change"})>>
             changes == t.relative_change # 0
  <2>1. IsList(o) /\ Range(o) = {Parts({"relative_change"})}  BY Tuples
  <2> HIDE DEF o, changes
  <2>2. IsList(When(changes, o)) /\ Range(When(changes, o)) = IF changes THEN Range(o) ELSE {}
    BY <2>1, WhenList
  <2>3. PartsOf(When(changes, o)) = IF changes THEN Parts({"relative_change"}) ELSE {}
    BY <2>1, <2>2 DEF PartsOf
  <2> QED  BY <2>2, <2>3 DEF changes, o
<1>6. IsList(v) /\ PartsOf(v) = Parts({"fee"})  BY Tuples DEF PartsOf
<1>7. ASSUME NEW p \in nem_fsmAggregateModification(t)
      PROVE  p \in PartsOf(s) \cup PartsOf(u) \cup PartsOf(v) \cup Times
  <2>1. CASE p \in {Modification(t, i) : i \in DOMAIN m}  BY <1>3, <2>1
  <2>2. CASE p \in nem_transaction_create(IF t.relative_change # 0 THEN {"relative_change"} ELSE {})
    BY <1>5, <1>6, <2>2 DEF nem_transaction_create, Times, Parts
  <2> QED  BY <2>1, <2>2 DEF nem_fsmAggregateModification
<1> HIDE DEF r, s, u, v
<1>8. IsList(r \o s) /\ PartsOf(r \o s) = PartsOf(r) \cup PartsOf(s)
  BY <1>3, <1>4, ListAppended DEF PartsOf
<1>9. IsList(r \o s \o u) /\ PartsOf(r \o s \o u) = PartsOf(r \o s) \cup PartsOf(u)
  BY <1>5, <1>8, ListAppended DEF PartsOf
<1>10. IsList(r \o s \o u \o v) /\ PartsOf(r \o s \o u \o v) = PartsOf(r \o s \o u) \cup PartsOf(v)
  BY <1>6, <1>9, ListAppended DEF PartsOf
<1> QED  BY <1>1, <1>7, <1>8, <1>9, <1>10

\* The same of every kind.
LEMMA AskShows ==
  ASSUME NEW t \in Transactions, NEW creation
  PROVE  /\ IsList(NemAsk(Canonical(t), creation))
         /\ NemWritten(Canonical(t)) \ Unshown(t) \subseteq PartsOf(NemAsk(Canonical(t), creation))
<1> DEFINE c == Canonical(t)
<1>0. Times \subseteq Unshown(t)  BY DEF Unshown, Times, Parts
<1>1. CASE t.kind = "transfer"
  <2>1. t \in [kind : {"transfer"}, lacks : SUBSET STRING, mosaics : Seq(Mosaics),
               payload : BOOLEAN, encrypted : BOOLEAN]
    BY <1>1 DEF Transactions
  <2>2. c = [t EXCEPT !.mosaics = nem_canonicalizeMosaics(@)]
    BY <1>1 DEF Canonical
  <2>3. nem_canonicalizeMosaics(t.mosaics) \in Seq(Mosaics)
    BY <2>1, CanonicalFacts
  <2>4. c.kind = "transfer" /\ c.mosaics \in Seq(Mosaics) /\ Empties(c) = Empties(t)
    BY <2>1, <2>2, <2>3 DEF Empties
  <2>6. Empties(t) \subseteq Unshown(t)
    BY <1>1 DEF Empties, Unshown, Parts
  <2> HIDE DEF c
  <2>5. NemAsk(c, creation) = nem_askTransfer(c) /\ NemWritten(c) = nem_fsmTransfer(c)
    BY <2>4 DEF NemAsk, NemWritten
  <2> QED
    BY <1>0, <2>4, <2>5, <2>6, TransferShown DEF c
<1>2. CASE t.kind # "transfer"
  <2>1. c = t
    BY <1>2 DEF Canonical
  <2>2. t.kind \in {"namespace", "mosaic", "supply", "importance", "aggregate"}
    BY <1>2 DEF Transactions
  <2> HIDE DEF c
  <2>3. CASE t.kind = "namespace"
    <3>1. NemAsk(t, creation) = nem_askProvisionNamespace(t)
          /\ NemWritten(t) = nem_fsmProvisionNamespace(t)
      BY <2>3 DEF NemAsk, NemWritten
    <3>2. Parts({"sink"} \cup IF ~t.parent THEN {"namespace"} ELSE {}) \subseteq Unshown(t)
      BY <2>3 DEF Unshown, Parts
    <3> QED  BY <1>0, <2>1, <3>1, <3>2, NamespaceShown DEF c
  <2>4. CASE t.kind = "mosaic"
    <3>1. NemAsk(t, creation) = nem_askMosaicCreation(t) /\ NemWritten(t) = nem_fsmMosaicCreation(t)
      BY <2>4 DEF NemAsk, NemWritten
    <3>2. Parts({"sink"}) \subseteq Unshown(t)  BY DEF Unshown, Parts
    <3> QED  BY <1>0, <2>1, <3>1, <3>2, MosaicShown DEF c
  <2>5. CASE t.kind = "supply"
    <3>1. NemAsk(t, creation) = nem_askSupplyChange(t) /\ NemWritten(t) = nem_fsmSupplyChange(t)
      BY <2>5 DEF NemAsk, NemWritten
    <3> QED  BY <1>0, <2>1, <3>1, SupplyShown DEF c
  <2>6. CASE t.kind = "importance"
    <3>1. NemAsk(t, creation) = nem_askImportanceTransfer(t)
          /\ NemWritten(t) = nem_fsmImportanceTransfer(t)
      BY <2>6 DEF NemAsk, NemWritten
    <3>2. Parts({"remoteKey"}) \subseteq Unshown(t)  BY DEF Unshown, Parts
    <3> QED  BY <1>0, <2>1, <3>1, <3>2, ImportanceShown DEF c
  <2>7. CASE t.kind = "aggregate"
    <3>1. NemAsk(t, creation) = nem_askAggregateModification(t, creation)
          /\ NemWritten(t) = nem_fsmAggregateModification(t)
      BY <2>7 DEF NemAsk, NemWritten
    <3>2. t.modifications \in Seq({"Add", "Delete"})  BY <2>7 DEF Transactions
    <3> QED  BY <1>0, <2>1, <3>1, <3>2, AggregateShown DEF c
  <2> QED
    BY <2>2, <2>3, <2>4, <2>5, <2>6, <2>7
<1> QED
  BY <1>1, <1>2

-----------------------------------------------------------------------------
(* The steps of a handler.                                                 *)

Ops(t) == {x.op : x \in Range(t)}
ShownBy(x) ==
  IF x.op = "Ask" THEN x.shows ELSE IF x.op = "Address" THEN Parts({"address"}) ELSE {}
Shown(t) == UNION {ShownBy(x) : x \in Range(t)}

\* The steps that return, if they do not fail.
Ends == {"Answer", "Initialize", "ClearSession"}
EndsLast(t) == \A i \in DOMAIN t : t[i].op \in Ends => i = Len(t)
Serves(t) == \E x \in Range(t) : x.op \in {"Answer", "ClearSession"}

\* The steps that only some requests lead to.
Special == Ends \cup {"Malformed", "Hash", "Build", "RemovePin", "NewPin", "Wipe", "Load", "ApplySettings"}
Allowed(x, r) ==
  /\ x.op = "Answer" /\ x.what = "Features" => r.type = "GetFeatures"
  /\ x.op = "Initialize" => r.type = "Initialize"
  /\ x.op = "ClearSession" => r.type = "ClearSession"
  /\ x.op = "Malformed" => r.type = "EthereumVerifyMessage" /\ r.malformed
  /\ x.op = "Hash" => r.type \in {"EthereumGetAddress", "NEMGetAddress"}
  /\ x.op = "Build" /\ ~x.loud => r.type = "NEMSignTx" /\ r.tx.kind # "transfer"
  /\ x.op \in {"RemovePin", "NewPin", "Wipe", "Load"} => r.type \notin KeyTypes
  /\ x.op = "Load" => r.type = "LoadDevice"
  /\ x.op = "ApplySettings" => r.type = "ApplySettings"

\* A list of steps before the end, and one with its end.
Leading(t, r) == IsList(t) /\ Ops(t) \cap Ends = {} /\ \A x \in Range(t) : Allowed(x, r)
Fits(t, r) == IsList(t) /\ EndsLast(t) /\ \A x \in Range(t) : Allowed(x, r)

\* Where the key comes from: one step, that is replaced by several.
NodeOps == {"Node", "Passphrase", "Root", "WakingUp", "Decrypt", "Derive"}
NoNode(t) == Ops(t) \cap NodeOps = {}
OneNode(t) ==
  \E k \in DOMAIN t : t[k].op = "Node" /\ \A i \in DOMAIN t : i # k => t[i].op \notin NodeOps

\* What has to be shown for r, and the requests that use the key.
Needs(r) ==
  Consent(r) \cup IF r.type = "NEMSignTx" THEN Written(r) \ Unshown(r.tx) ELSE {}
KeyedTypes == KeyTypes \ {"ApplySettings"}

LEMMA Ordinary ==
  ASSUME NEW t, IsList(t), Ops(t) \cap Special = {}, NEW r
  PROVE  Leading(t, r)
<1>1. \A x \in Range(t) : x.op \notin Special  BY DEF Ops
<1>2. \A x \in Range(t) : Allowed(x, r)  BY <1>1 DEF Special, Ends, Allowed
<1>3. Ops(t) \cap Ends = {}  BY DEF Special
<1> QED  BY <1>2, <1>3 DEF Leading

LEMMA Both ==
  ASSUME NEW s, NEW t, IsList(s), IsList(t)
  PROVE  /\ IsList(s \o t) /\ Ops(s \o t) = Ops(s) \cup Ops(t)
         /\ Shown(s \o t) = Shown(s) \cup Shown(t)
         /\ Serves(s \o t) <=> Serves(s) \/ Serves(t)
BY ListAppended DEF Ops, Shown, Serves

LEMMA BothFront ==
  ASSUME NEW r, NEW s, NEW t, Leading(s, r), Leading(t, r)
  PROVE  Leading(s \o t, r)
BY Both, ListAppended DEF Leading

LEMMA BothFit ==
  ASSUME NEW r, NEW s, NEW t, Leading(s, r), Fits(t, r)
  PROVE  Fits(s \o t, r)
<1> DEFINE u == s \o t
<1>1. IsList(s) /\ IsList(t) /\ EndsLast(t)  BY DEF Leading, Fits
<1>2. /\ IsList(u) /\ Len(u) = Len(s) + Len(t) /\ Range(u) = Range(s) \cup Range(t)
      /\ \A i \in DOMAIN u : \/ i \in DOMAIN s /\ u[i] = s[i]
                             \/ i - Len(s) \in DOMAIN t /\ u[i] = t[i - Len(s)]
  BY <1>1, ListAppended
<1>3. Len(s) \in Nat /\ Len(t) \in Nat /\ DOMAIN t = 1 .. Len(t) /\ DOMAIN u = 1 .. Len(u)
      /\ \A i \in DOMAIN s : s[i] \in Range(s)
  BY <1>1, <1>2, ListFacts
<1> HIDE DEF u
<1>4. ASSUME NEW i \in DOMAIN u, u[i].op \in Ends PROVE i = Len(u)
  <2>1. ~(i \in DOMAIN s /\ u[i] = s[i])
    <3>1. \A x \in Range(s) : x.op \notin Ends  BY DEF Leading, Ops
    <3> QED  BY <1>3, <1>4, <3>1
  <2>2. i - Len(s) \in DOMAIN t /\ t[i - Len(s)].op \in Ends  BY <1>2, <1>4, <2>1
  <2>3. i - Len(s) = Len(t)  BY <1>1, <2>2 DEF EndsLast
  <2>4. i \in Int  BY <1>3
  <2> QED  BY <1>2, <1>3, <2>3, <2>4
<1>5. EndsLast(u)  BY <1>4 DEF EndsLast
<1>6. \A x \in Range(u) : Allowed(x, r)  BY <1>2 DEF Leading, Fits
<1> QED  BY <1>2, <1>5, <1>6 DEF Fits, u

LEMMA NodeFirst ==
  ASSUME NEW s, NEW t, IsList(s), IsList(t), OneNode(s), NoNode(t)
  PROVE  OneNode(s \o t)
<1> DEFINE u == s \o t
<1>1. /\ IsList(u) /\ \A i \in DOMAIN s : u[i] = s[i]
      /\ \A i \in DOMAIN u : \/ i \in DOMAIN s /\ u[i] = s[i]
                             \/ i - Len(s) \in DOMAIN t /\ u[i] = t[i - Len(s)]
      /\ Len(u) = Len(s) + Len(t)
  BY ListAppended
<1>2. /\ Len(s) \in Nat /\ Len(t) \in Nat /\ DOMAIN s = 1 .. Len(s) /\ DOMAIN u = 1 .. Len(u)
      /\ \A i \in DOMAIN t : t[i] \in Range(t)
  BY <1>1, ListFacts
<1>3. \A i \in DOMAIN t : t[i].op \notin NodeOps  BY <1>2 DEF NoNode, Ops
<1>4. PICK k \in DOMAIN s : s[k].op = "Node" /\ \A i \in DOMAIN s : i # k => s[i].op \notin NodeOps
  BY DEF OneNode
<1> HIDE DEF u
<1>5. k \in DOMAIN u  BY <1>1, <1>2
<1>6. \A i \in DOMAIN u : i # k => u[i].op \notin NodeOps  BY <1>1, <1>3, <1>4
<1>7. u[k].op = "Node"  BY <1>1, <1>4
<1> QED  BY <1>5, <1>6, <1>7 DEF OneNode, u

LEMMA NodeLater ==
  ASSUME NEW s, NEW t, IsList(s), IsList(t), NoNode(s), OneNode(t)
  PROVE  OneNode(s \o t)
<1> DEFINE u == s \o t
<1>1. /\ IsList(u) /\ \A i \in DOMAIN t : u[Len(s) + i] = t[i]
      /\ \A i \in DOMAIN u : \/ i \in DOMAIN s /\ u[i] = s[i]
                             \/ i - Len(s) \in DOMAIN t /\ u[i] = t[i - Len(s)]
      /\ Len(u) = Len(s) + Len(t)
  <2>1. /\ IsList(u) /\ Len(u) = Len(s) + Len(t)
        /\ Behind(u, s, t)
    BY ONLY IsList(s), IsList(t), ListAppended
  <2>2. \A i \in DOMAIN u : \/ i \in DOMAIN s /\ u[i] = s[i]
                            \/ i - Len(s) \in DOMAIN t /\ u[i] = t[i - Len(s)]
    BY ONLY IsList(s), IsList(t), ListAppended
  <2> QED  BY <2>1, <2>2 DEF Behind
<1>2. /\ Len(s) \in Nat /\ Len(t) \in Nat /\ DOMAIN t = 1 .. Len(t) /\ DOMAIN u = 1 .. Len(u)
      /\ \A i \in DOMAIN s : s[i] \in Range(s)
  BY <1>1, ListFacts
<1>3. \A i \in DOMAIN s : s[i].op \notin NodeOps  BY <1>2 DEF NoNode, Ops
<1>4. PICK k \in DOMAIN t : t[k].op = "Node" /\ \A i \in DOMAIN t : i # k => t[i].op \notin NodeOps
  BY DEF OneNode
<1> HIDE DEF u
<1>5. Len(s) + k \in DOMAIN u  BY <1>1, <1>2
<1>6. \A i \in DOMAIN u : i # Len(s) + k => u[i].op \notin NodeOps
  <2> SUFFICES ASSUME NEW i \in DOMAIN u, i # Len(s) + k PROVE u[i].op \notin NodeOps
    OBVIOUS
  <2>1. CASE i \in DOMAIN s /\ u[i] = s[i]  BY <1>3, <2>1
  <2>2. CASE i - Len(s) \in DOMAIN t /\ u[i] = t[i - Len(s)]
    <3>1. i - Len(s) # k  BY <1>2
    <3> QED  BY <1>4, <2>2, <3>1
  <2> QED  BY <1>1, <2>1, <2>2
<1>7. u[Len(s) + k].op = "Node"  BY <1>1, <1>4
<1> QED  BY <1>5, <1>6, <1>7 DEF OneNode, u

LEMMA WhenSteps ==
  ASSUME NEW b, NEW t, IsList(t)
  PROVE  /\ IsList(When(b, t)) /\ Ops(When(b, t)) \subseteq Ops(t)
         /\ Shown(When(b, t)) = IF b THEN Shown(t) ELSE {}
         /\ \A r : Leading(t, r) => Leading(When(b, t), r)
         /\ NoNode(t) => NoNode(When(b, t))
<1>1. IsList(When(b, t)) /\ Range(When(b, t)) = IF b THEN Range(t) ELSE {}
  BY WhenList
<1>2. Range(When(b, t)) \subseteq Range(t)  BY <1>1
<1>3. Ops(When(b, t)) \subseteq Ops(t)  BY <1>2 DEF Ops
<1>4. Shown(When(b, t)) = IF b THEN Shown(t) ELSE {}
  <2>1. CASE b  BY <1>1, <2>1 DEF Shown
  <2>2. CASE ~b  BY <1>1, <2>2 DEF Shown
  <2> QED  BY <2>1, <2>2
<1> QED  BY <1>1, <1>2, <1>3, <1>4 DEF Leading, NoNode

LEMMA One ==
  ASSUME NEW a
  PROVE  /\ IsList(<<a>>) /\ Ops(<<a>>) = {a.op} /\ Shown(<<a>>) = ShownBy(a)
         /\ \A r : Allowed(a, r) => Fits(<<a>>, r)
         /\ Serves(<<a>>) <=> a.op \in {"Answer", "ClearSession"}
<1>1. IsList(<<a>>) /\ Range(<<a>>) = {a}  BY Tuples
<1>2. Ops(<<a>>) = {a.op} /\ Shown(<<a>>) = ShownBy(a)  BY <1>1 DEF Ops, Shown
<1>3. EndsLast(<<a>>)  BY DEF EndsLast
<1> QED  BY <1>1, <1>2, <1>3 DEF Fits, Serves

LEMMA Two ==
  ASSUME NEW a, NEW b
  PROVE  IsList(<<a, b>>) /\ Ops(<<a, b>>) = {a.op, b.op}
         /\ Shown(<<a, b>>) = ShownBy(a) \cup ShownBy(b)
<1>1. IsList(<<a, b>>) /\ Range(<<a, b>>) = {a, b}  BY Tuples
<1> QED  BY <1>1 DEF Ops, Shown

LEMMA Three ==
  ASSUME NEW a, NEW b, NEW c
  PROVE  IsList(<<a, b, c>>) /\ Ops(<<a, b, c>>) = {a.op, b.op, c.op}
         /\ Shown(<<a, b, c>>) = ShownBy(a) \cup ShownBy(b) \cup ShownBy(c)
<1>1. IsList(<<a, b, c>>) /\ Range(<<a, b, c>>) = {a, b, c}  BY Tuples
<1> QED  BY <1>1 DEF Ops, Shown

LEMMA Four ==
  ASSUME NEW a, NEW b, NEW c, NEW d
  PROVE  IsList(<<a, b, c, d>>) /\ Ops(<<a, b, c, d>>) = {a.op, b.op, c.op, d.op}
         /\ Shown(<<a, b, c, d>>) = ShownBy(a) \cup ShownBy(b) \cup ShownBy(c) \cup ShownBy(d)
<1>1. IsList(<<a, b, c, d>>) /\ Range(<<a, b, c, d>>) = {a, b, c, d}  BY Tuples
<1> QED  BY <1>1 DEF Ops, Shown

\* Longer tuples are shorter ones, joined.
LEMMA Joined2 ==
  ASSUME NEW a, NEW b
  PROVE  <<a, b>> = <<a>> \o <<b>>
<1> DEFINE t == <<a, b>>
           u == <<a>> \o <<b>>
           S == {a, b}
<1>1. t \in Seq(S) /\ <<a>> \in Seq(S) /\ <<b>> \in Seq(S)  OBVIOUS
<1>2. u \in Seq(S) /\ Len(u) = Len(<<a>>) + Len(<<b>>)  BY <1>1, ConcatProperties
<1>3. Len(t) = 2 /\ Len(u) = 2  BY <1>2
<1>4. t[1] = a /\ t[2] = b  OBVIOUS
<1>5. u[1] = a /\ u[2] = b  OBVIOUS
<1>6. \A i \in 1 .. 2 : i = 1 \/ i = 2  OBVIOUS
<1> HIDE DEF t, u
<1>7. \A i \in 1 .. Len(t) : t[i] = u[i]  BY <1>3, <1>4, <1>5, <1>6
<1>8. t = u  BY <1>1, <1>2, <1>3, <1>7, SeqEqual
<1> QED  BY <1>8 DEF t, u

LEMMA Joined3 ==
  ASSUME NEW a, NEW b, NEW c
  PROVE  <<a, b, c>> = <<a, b>> \o <<c>>
<1> DEFINE t == <<a, b, c>>
           u == <<a, b>> \o <<c>>
           S == {a, b, c}
<1>1. t \in Seq(S) /\ <<a, b>> \in Seq(S) /\ <<c>> \in Seq(S)  OBVIOUS
<1>2. u \in Seq(S) /\ Len(u) = Len(<<a, b>>) + Len(<<c>>)  BY <1>1, ConcatProperties
<1>3. Len(t) = 3 /\ Len(u) = 3  BY <1>2
<1>4. t[1] = a /\ t[2] = b /\ t[3] = c  OBVIOUS
<1>5. u[1] = a /\ u[2] = b /\ u[3] = c  OBVIOUS
<1>6. \A i \in 1 .. 3 : i = 1 \/ i = 2 \/ i = 3  OBVIOUS
<1> HIDE DEF t, u
<1>7. \A i \in 1 .. Len(t) : t[i] = u[i]  BY <1>3, <1>4, <1>5, <1>6
<1>8. t = u  BY <1>1, <1>2, <1>3, <1>7, SeqEqual
<1> QED  BY <1>8 DEF t, u

LEMMA Joined4 ==
  ASSUME NEW a, NEW b, NEW c, NEW d
  PROVE  <<a, b, c, d>> = <<a, b, c>> \o <<d>>
<1> DEFINE t == <<a, b, c, d>>
           u == <<a, b, c>> \o <<d>>
           S == {a, b, c, d}
<1>1. t \in Seq(S) /\ <<a, b, c>> \in Seq(S) /\ <<d>> \in Seq(S)  OBVIOUS
<1>2. u \in Seq(S) /\ Len(u) = Len(<<a, b, c>>) + Len(<<d>>)  BY <1>1, ConcatProperties
<1>3. Len(t) = 4 /\ Len(u) = 4  BY <1>2
<1>4. t[1] = a /\ t[2] = b /\ t[3] = c /\ t[4] = d  OBVIOUS
<1>5. u[1] = a /\ u[2] = b /\ u[3] = c /\ u[4] = d  OBVIOUS
<1>6. \A i \in 1 .. 4 : i = 1 \/ i = 2 \/ i = 3 \/ i = 4  OBVIOUS
<1> HIDE DEF t, u
<1>7. \A i \in 1 .. Len(t) : t[i] = u[i]  BY <1>3, <1>4, <1>5, <1>6
<1>8. t = u  BY <1>1, <1>2, <1>3, <1>7, SeqEqual
<1> QED  BY <1>8 DEF t, u

LEMMA Joined5 ==
  ASSUME NEW a, NEW b, NEW c, NEW d, NEW e
  PROVE  <<a, b, c, d, e>> = <<a, b, c, d>> \o <<e>>
<1> DEFINE t == <<a, b, c, d, e>>
           u == <<a, b, c, d>> \o <<e>>
           S == {a, b, c, d, e}
<1>1. t \in Seq(S) /\ <<a, b, c, d>> \in Seq(S) /\ <<e>> \in Seq(S)  OBVIOUS
<1>2. u \in Seq(S) /\ Len(u) = Len(<<a, b, c, d>>) + Len(<<e>>)  BY <1>1, ConcatProperties
<1>3. Len(t) = 5 /\ Len(u) = 5  BY <1>2
<1>4. t[1] = a /\ t[2] = b /\ t[3] = c /\ t[4] = d /\ t[5] = e  OBVIOUS
<1>5. u[1] = a /\ u[2] = b /\ u[3] = c /\ u[4] = d /\ u[5] = e  OBVIOUS
<1>6. \A i \in 1 .. 5 : i = 1 \/ i = 2 \/ i = 3 \/ i = 4 \/ i = 5  OBVIOUS
<1> HIDE DEF t, u
<1>7. \A i \in 1 .. Len(t) : t[i] = u[i]  BY <1>3, <1>4, <1>5, <1>6
<1>8. t = u  BY <1>1, <1>2, <1>3, <1>7, SeqEqual
<1> QED  BY <1>8 DEF t, u

Tuple6(a, b, c, d, e, f) == <<a, b, c, d, e, f>>
LEMMA Joined6 ==
  ASSUME NEW a, NEW b, NEW c, NEW d, NEW e, NEW f
  PROVE  Tuple6(a, b, c, d, e, f) = <<a, b, c, d>> \o <<e, f>>
<1> DEFINE t == <<a, b, c, d, e, f>>
           u == <<a, b, c, d>> \o <<e, f>>
           S == {a, b, c, d, e, f}
<1>1. t \in Seq(S) /\ <<a, b, c, d>> \in Seq(S) /\ <<e, f>> \in Seq(S)  OBVIOUS
<1>2. u \in Seq(S) /\ Len(u) = Len(<<a, b, c, d>>) + Len(<<e, f>>)  BY <1>1, ConcatProperties
<1>3. Len(t) = 6 /\ Len(u) = 6  BY <1>2
<1>4. t[1] = a /\ t[2] = b /\ t[3] = c /\ t[4] = d /\ t[5] = e /\ t[6] = f  OBVIOUS
<1>5. u[1] = a /\ u[2] = b /\ u[3] = c /\ u[4] = d /\ u[5] = e /\ u[6] = f  OBVIOUS
<1>6. \A i \in 1 .. 6 : i = 1 \/ i = 2 \/ i = 3 \/ i = 4 \/ i = 5 \/ i = 6  OBVIOUS
<1> HIDE DEF t, u
<1>7. \A i \in 1 .. Len(t) : t[i] = u[i]  BY <1>3, <1>4, <1>5, <1>6
<1>8. t = u  BY <1>1, <1>2, <1>3, <1>7, SeqEqual
<1> QED  BY <1>8 DEF t, u, Tuple6

Tuple7(a, b, c, d, e, f, g) == <<a, b, c, d, e, f, g>>
LEMMA Joined7 ==
  ASSUME NEW a, NEW b, NEW c, NEW d, NEW e, NEW f, NEW g
  PROVE  Tuple7(a, b, c, d, e, f, g) = <<a, b, c, d>> \o <<e, f, g>>
<1> DEFINE t == <<a, b, c, d, e, f, g>>
           u == <<a, b, c, d>> \o <<e, f, g>>
           S == {a, b, c, d, e, f, g}
<1>1. t \in Seq(S) /\ <<a, b, c, d>> \in Seq(S) /\ <<e, f, g>> \in Seq(S)  OBVIOUS
<1>2. u \in Seq(S) /\ Len(u) = Len(<<a, b, c, d>>) + Len(<<e, f, g>>)  BY <1>1, ConcatProperties
<1>3. Len(t) = 7 /\ Len(u) = 7  BY <1>2
<1>4. t[1] = a /\ t[2] = b /\ t[3] = c /\ t[4] = d /\ t[5] = e /\ t[6] = f /\ t[7] = g  OBVIOUS
<1>5. u[1] = a /\ u[2] = b /\ u[3] = c /\ u[4] = d /\ u[5] = e /\ u[6] = f /\ u[7] = g  OBVIOUS
<1>6. \A i \in 1 .. 7 : i = 1 \/ i = 2 \/ i = 3 \/ i = 4 \/ i = 5 \/ i = 6 \/ i = 7  OBVIOUS
<1> HIDE DEF t, u
<1>7. \A i \in 1 .. Len(t) : t[i] = u[i]  BY <1>3, <1>4, <1>5, <1>6
<1>8. t = u  BY <1>1, <1>2, <1>3, <1>7, SeqEqual
<1> QED  BY <1>8 DEF t, u, Tuple7

Tuple8(a, b, c, d, e, f, g, h) == <<a, b, c, d, e, f, g, h>>
LEMMA Joined8 ==
  ASSUME NEW a, NEW b, NEW c, NEW d, NEW e, NEW f, NEW g, NEW h
  PROVE  Tuple8(a, b, c, d, e, f, g, h) = <<a, b, c, d>> \o <<e, f, g, h>>
<1> DEFINE t == <<a, b, c, d, e, f, g, h>>
           u == <<a, b, c, d>> \o <<e, f, g, h>>
           S == {a, b, c, d, e, f, g, h}
<1>1. t \in Seq(S) /\ <<a, b, c, d>> \in Seq(S) /\ <<e, f, g, h>> \in Seq(S)  OBVIOUS
<1>2. u \in Seq(S) /\ Len(u) = Len(<<a, b, c, d>>) + Len(<<e, f, g, h>>)  BY <1>1, ConcatProperties
<1>3. Len(t) = 8 /\ Len(u) = 8  BY <1>2
<1>4. t[1] = a /\ t[2] = b /\ t[3] = c /\ t[4] = d /\ t[5] = e /\ t[6] = f /\ t[7] = g /\ t[8] = h  OBVIOUS
<1>5. u[1] = a /\ u[2] = b /\ u[3] = c /\ u[4] = d /\ u[5] = e /\ u[6] = f /\ u[7] = g /\ u[8] = h  OBVIOUS
<1>6. \A i \in 1 .. 8 : i = 1 \/ i = 2 \/ i = 3 \/ i = 4 \/ i = 5 \/ i = 6 \/ i = 7 \/ i = 8  OBVIOUS
<1> HIDE DEF t, u
<1>7. \A i \in 1 .. Len(t) : t[i] = u[i]  BY <1>3, <1>4, <1>5, <1>6
<1>8. t = u  BY <1>1, <1>2, <1>3, <1>7, SeqEqual
<1> QED  BY <1>8 DEF t, u, Tuple8

\* The step that gets the key, and none that does.
LEMMA NodeAlone ==
  ASSUME NEW a, a.op = "Node"
  PROVE  OneNode(<<a>>)
<1>1. 1 \in DOMAIN <<a>> /\ <<a>>[1] = a /\ \A i \in DOMAIN <<a>> : i = 1  OBVIOUS
<1> QED  BY <1>1 DEF OneNode

LEMMA NodeInTuple ==
  ASSUME NEW a, NEW b, NEW c, NEW d
  PROVE  /\ a.op = "Node" /\ {b.op} \cap NodeOps = {} => OneNode(<<a, b>>)
         /\ a.op = "Node" /\ {b.op, c.op} \cap NodeOps = {} => OneNode(<<a, b, c>>)
         /\ a.op = "Node" /\ {b.op, c.op, d.op} \cap NodeOps = {} => OneNode(<<a, b, c, d>>)
         /\ {a.op, b.op} \cap NodeOps = {} /\ c.op = "Node" => OneNode(<<a, b, c>>)
         /\ {a.op, b.op, c.op} \cap NodeOps = {} /\ d.op = "Node" => OneNode(<<a, b, c, d>>)
<1>1. /\ IsList(<<a>>) /\ IsList(<<b>>) /\ IsList(<<c>>) /\ IsList(<<d>>)
      /\ Ops(<<b>>) = {b.op} /\ Ops(<<c>>) = {c.op} /\ Ops(<<d>>) = {d.op}
  BY One
<1>2. IsList(<<a, b>>) /\ Ops(<<a, b>>) = {a.op, b.op}  BY Two
<1>3. IsList(<<a, b, c>>) /\ Ops(<<a, b, c>>) = {a.op, b.op, c.op}  BY Three
<1>4. /\ <<a, b>> = <<a>> \o <<b>> /\ <<a, b, c>> = <<a, b>> \o <<c>>
      /\ <<a, b, c, d>> = <<a, b, c>> \o <<d>>
  <2>1. <<a, b>> = <<a>> \o <<b>>  BY Zenon, Joined2
  <2>2. <<a, b, c>> = <<a, b>> \o <<c>>  BY Zenon, Joined3
  <2>3. <<a, b, c, d>> = <<a, b, c>> \o <<d>>  BY Zenon, Joined4
  <2> QED  BY Zenon, <2>1, <2>2, <2>3
<1>5. ASSUME a.op = "Node", {b.op} \cap NodeOps = {} PROVE OneNode(<<a, b>>)
  <2>1. OneNode(<<a>>) /\ NoNode(<<b>>)  BY <1>1, <1>5, NodeAlone DEF NoNode
  <2> QED  BY <1>1, <1>4, <2>1, NodeFirst
<1>6. ASSUME a.op = "Node", {b.op, c.op} \cap NodeOps = {} PROVE OneNode(<<a, b, c>>)
  <2>1. OneNode(<<a, b>>) /\ NoNode(<<c>>)  BY <1>1, <1>5, <1>6 DEF NoNode
  <2> QED  BY <1>1, <1>2, <1>4, <2>1, NodeFirst
<1>7. ASSUME a.op = "Node", {b.op, c.op, d.op} \cap NodeOps = {} PROVE OneNode(<<a, b, c, d>>)
  <2>1. OneNode(<<a, b, c>>) /\ NoNode(<<d>>)  BY <1>1, <1>6, <1>7 DEF NoNode
  <2> QED  BY <1>1, <1>3, <1>4, <2>1, NodeFirst
<1>8. ASSUME {a.op, b.op} \cap NodeOps = {}, c.op = "Node" PROVE OneNode(<<a, b, c>>)
  <2>1. NoNode(<<a, b>>) /\ OneNode(<<c>>)  BY <1>2, <1>8, NodeAlone DEF NoNode
  <2> QED  BY <1>1, <1>2, <1>4, <2>1, NodeLater
<1>9. ASSUME {a.op, b.op, c.op} \cap NodeOps = {}, d.op = "Node" PROVE OneNode(<<a, b, c, d>>)
  <2>1. NoNode(<<a, b, c>>) /\ OneNode(<<d>>)  BY <1>3, <1>9, NodeAlone DEF NoNode
  <2> QED  BY <1>1, <1>3, <1>4, <2>1, NodeLater
<1> QED
  BY <1>5, <1>6, <1>7, <1>8, <1>9

\* What the handler of r is to be.
Serviceable(t, r) ==
  /\ Fits(t, r)
  /\ Serves(t) => /\ Needs(r) \subseteq Shown(t)
                  /\ r.type \in KeyTypes => "Pin" \in Ops(t)
                  /\ r.type \in KeyedTypes => OneNode(t)

\* Ordinary steps, and one at the end.
LEMMA Ending ==
  ASSUME NEW r, NEW s, IsList(s), Ops(s) \cap Special = {}, NEW x, Allowed(x, r)
  PROVE  Fits(s \o <<x>>, r) /\ Ops(s \o <<x>>) = Ops(s) \cup {x.op}
         /\ Shown(s \o <<x>>) = Shown(s) \cup ShownBy(x)
<1>1. Leading(s, r)  BY Ordinary
<1>2. IsList(<<x>>) /\ Fits(<<x>>, r) /\ Ops(<<x>>) = {x.op} /\ Shown(<<x>>) = ShownBy(x)  BY One
<1> QED  BY <1>1, <1>2, Both, BothFit

\* Before the end, with the step that gets the key there or later.
LEMMA KeyHandler ==
  ASSUME NEW r, NEW s, NEW t, Leading(s, r), Fits(t, r),
         "Pin" \in Ops(s), Needs(r) \subseteq Shown(s) \cup Shown(t),
         (OneNode(s) /\ NoNode(t)) \/ (NoNode(s) /\ OneNode(t))
  PROVE  Serviceable(s \o t, r)
<1>1. IsList(s) /\ IsList(t)  BY DEF Leading, Fits
<1>2. Fits(s \o t, r)  BY <1>1, BothFit
<1>3. Ops(s \o t) = Ops(s) \cup Ops(t) /\ Shown(s \o t) = Shown(s) \cup Shown(t)  BY <1>1, Both
<1>4. OneNode(s \o t)  BY <1>1, NodeFirst, NodeLater
<1> QED  BY <1>2, <1>3, <1>4 DEF Serviceable

LEMMA PlainHandler ==
  ASSUME NEW r, r.type \notin KeyTypes, NEW s, NEW t, Leading(s, r), Fits(t, r),
         Serves(t) => Needs(r) \subseteq Shown(s) \cup Shown(t)
  PROVE  Serviceable(s \o t, r)
<1>1. IsList(s) /\ IsList(t)  BY DEF Leading, Fits
<1>2. Fits(s \o t, r)  BY BothFit
<1>3. /\ Shown(s \o t) = Shown(s) \cup Shown(t)
      /\ Serves(s \o t) <=> Serves(s) \/ Serves(t)
  BY <1>1, Both
<1>4. ~Serves(s)  BY DEF Leading, Serves, Ops, Ends
<1> QED  BY <1>2, <1>3, <1>4 DEF Serviceable, KeyedTypes

\* The steps.
LEMMA StepFacts ==
  /\ \A b : Check(b).op = "Check" /\ ShownBy(Check(b)) = {}
  /\ \A shows : Ask(shows).op = "Ask" /\ ShownBy(Ask(shows)) = shows
  /\ \A shows : Confirm(shows).op = "Ask" /\ ShownBy(Confirm(shows)) = shows
  /\ ShowAddress.op = "Address" /\ ShownBy(ShowAddress) = Parts({"address"})
  /\ \A b : Pin(b).op = "Pin" /\ ShownBy(Pin(b)) = {}
  /\ \A what : Answer(what).op = "Answer" /\ ShownBy(Answer(what)) = {} /\ Answer(what).what = what
  /\ \A what : /\ AnswerOnly(what).op = "Answer" /\ ShownBy(AnswerOnly(what)) = {}
               /\ AnswerOnly(what).what = what
  /\ Fail.op = "Failure" /\ FailOnly.op = "Failure"
  /\ ShownBy(Fail) = {} /\ ShownBy(FailOnly) = {}
  /\ \A loud : Build(loud).op = "Build" /\ ShownBy(Build(loud)) = {} /\ Build(loud).loud = loud
  /\ \A op : Step(op).op = op
  /\ Initialized.op = "Initialized" /\ Passphrase.op = "Passphrase" /\ Hash.op = "Hash"
  /\ \A b : Node(b).op = "Node" /\ ShownBy(Node(b)) = {}
  /\ ShownBy(Initialized) = {} /\ ShownBy(Passphrase) = {}
  /\ Own.op = "Answer" /\ Own.what = "own" /\ ShownBy(Own) = {}
  /\ Success.op = "Answer" /\ Success.what = "Success" /\ ShownBy(Success) = {}
  /\ ShownBy(Step("Sign")) = {}
BY DEF Check, Ask, Confirm, Address, ShowAddress, Pin, Answer, AnswerOnly, Fail, FailOnly, Build, Step,
       Initialized, Passphrase, Hash, Node, Own, Success, ShownBy

LEMMA AllowedEnds ==
  ASSUME NEW r
  PROVE  /\ Allowed(Own, r) /\ Allowed(Success, r) /\ Allowed(Fail, r) /\ Allowed(FailOnly, r)
         /\ Allowed(AnswerOnly("Success"), r)
         /\ \A x : x.op \notin Special => Allowed(x, r)
BY StepFacts DEF Allowed, Special, Ends

\* Answering after ordinary steps.
LEMMA Answering ==
  ASSUME NEW r, NEW x, x \in {Own, Success}
  PROVE  Fits(<<x>>, r) /\ NoNode(<<x>>) /\ Shown(<<x>>) = {}
<1>1. Allowed(x, r) /\ x.op = "Answer" /\ ShownBy(x) = {}  BY AllowedEnds, StepFacts
<1> QED  BY <1>1, One DEF NoNode, NodeOps

\* The key before the dialogs of a handler, and its answer behind them.
LEMMA KeyThenDialogs ==
  ASSUME NEW r, NEW s, NEW w, Leading(s, r), IsList(w), OneNode(s), "Pin" \in Ops(s),
         Ops(w) \subseteq {"Ask", "Address"}, Needs(r) \subseteq Shown(w)
  PROVE  Serviceable(s \o w \o <<Own>>, r)
<1>0. IsList(s)  BY DEF Leading
<1>1. /\ IsList(s \o w) /\ Ops(s \o w) = Ops(s) \cup Ops(w)
      /\ Shown(s \o w) = Shown(s) \cup Shown(w)
  BY <1>0, Both
<1>2. NoNode(w)  BY DEF NoNode, NodeOps
<1>3. OneNode(s \o w)  BY <1>0, <1>2, NodeFirst
<1>4. Leading(s \o w, r)
  <2>1. Leading(w, r)  BY Ordinary DEF Special, Ends
  <2> QED  BY <2>1, BothFront
<1>5. Fits(<<Own>>, r) /\ NoNode(<<Own>>) /\ Shown(<<Own>>) = {}  BY Answering
<1> HIDE DEF Own
<1> QED  BY <1>1, <1>3, <1>4, <1>5, KeyHandler

\* A dialog that some requests ask for.
LEMMA Optional ==
  ASSUME NEW b, NEW a, a.op \in {"Ask", "Address"}
  PROVE  LET w == When(b, <<a>>)
         IN /\ IsList(w) /\ Ops(w) \subseteq {"Ask", "Address"}
            /\ Shown(w) = IF b THEN ShownBy(a) ELSE {}
<1> DEFINE t == <<a>>
<1>1. IsList(t) /\ Ops(t) = {a.op} /\ Shown(t) = ShownBy(a)  BY One
<1> HIDE DEF t
<1>2. /\ IsList(When(b, t)) /\ Ops(When(b, t)) \subseteq Ops(t)
      /\ Shown(When(b, t)) = IF b THEN Shown(t) ELSE {}
  BY <1>1, WhenSteps
<1>3. Ops(When(b, t)) \subseteq {"Ask", "Address"}  BY <1>1, <1>2
<1> QED  BY <1>1, <1>2, <1>3 DEF t

LEMMA GetPublicKeyServed ==
  ASSUME NEW r, r.type = "GetPublicKey"
  PROVE  Serviceable(fsm_msgGetPublicKey(r), r)
<1> DEFINE a == Initialized
           b == Pin(TRUE)
           c == Check(r.coin)
           d == Node(r.secp256k1)
           e == Confirm(Parts({"address"}))
           s == <<a, b, c, d>>
           w == When(r.show, <<e>>)
<1>1. fsm_msgGetPublicKey(r) = s \o w \o <<Own>>  BY DEF fsm_msgGetPublicKey
<1>2. /\ a.op = "Initialized" /\ b.op = "Pin" /\ c.op = "Check" /\ d.op = "Node"
      /\ e.op = "Ask" /\ ShownBy(e) = Parts({"address"})
  BY StepFacts
<1> HIDE DEF a, b, c, d, e
<1>3. IsList(s) /\ Ops(s) = {a.op, b.op, c.op, d.op}  BY Four
<1>7. Leading(s, r)  BY <1>2, <1>3, Ordinary DEF Special, Ends
<1>4. OneNode(s)  BY <1>2, NodeInTuple DEF NodeOps
<1>5. IsList(w) /\ Ops(w) \subseteq {"Ask", "Address"}
      /\ Shown(w) = IF r.show THEN Parts({"address"}) ELSE {}
  BY <1>2, Optional
<1>6. Needs(r) \subseteq Shown(w)  BY <1>5 DEF Needs, Consent
<1> HIDE DEF s, w
<1> QED  BY <1>1, <1>2, <1>3, <1>4, <1>5, <1>6, <1>7, KeyThenDialogs

LEMMA CipherKeyValueServed ==
  ASSUME NEW r, r.type = "CipherKeyValue"
  PROVE  Serviceable(fsm_msgCipherKeyValue(r), r)
<1> DEFINE a == Initialized
           b == Check(r.params)
           c == Pin(TRUE)
           d == Node(TRUE)
           e == Ask(Parts({"key"}))
           asks == IF r.encrypt THEN r.ask_on_encrypt ELSE r.ask_on_decrypt
           s == <<a, b, c, d>>
           w == When(asks, <<e>>)
<1>1. fsm_msgCipherKeyValue(r) = s \o w \o <<Own>>  BY DEF fsm_msgCipherKeyValue
<1>2. /\ a.op = "Initialized" /\ b.op = "Check" /\ c.op = "Pin" /\ d.op = "Node"
      /\ e.op = "Ask" /\ ShownBy(e) = Parts({"key"})
  BY StepFacts
<1> HIDE DEF a, b, c, d, e
<1>3. IsList(s) /\ Ops(s) = {a.op, b.op, c.op, d.op}  BY Four
<1>7. Leading(s, r)  BY <1>2, <1>3, Ordinary DEF Special, Ends
<1>4. OneNode(s)  BY <1>2, NodeInTuple DEF NodeOps
<1>5. IsList(w) /\ Ops(w) \subseteq {"Ask", "Address"}
      /\ Shown(w) = IF asks THEN Parts({"key"}) ELSE {}
  BY <1>2, Optional
<1>6. Needs(r) \subseteq Shown(w)  BY <1>5 DEF Needs, Consent
<1> HIDE DEF s, w
<1> QED  BY <1>1, <1>2, <1>3, <1>4, <1>5, <1>6, <1>7, KeyThenDialogs

\* Steps before the end, each allowed.
Middle(a, r) == Allowed(a, r) /\ a.op \notin Ends
LEMMA FrontTuples ==
  ASSUME NEW r, NEW a, Middle(a, r)
  PROVE  /\ Leading(<<a>>, r)
         /\ \A b : Middle(b, r) => Leading(<<a, b>>, r)
         /\ \A b, c : Middle(b, r) /\ Middle(c, r) => Leading(<<a, b, c>>, r)
         /\ \A b, c, d : Middle(b, r) /\ Middle(c, r) /\ Middle(d, r) => Leading(<<a, b, c, d>>, r)
<1>1. IsList(<<a>>) /\ Ops(<<a>>) = {a.op} /\ Range(<<a>>) = {a}  BY One, Tuples
<1>2. ASSUME NEW b, Middle(b, r) PROVE Leading(<<a, b>>, r)
  <2>1. IsList(<<a, b>>) /\ Ops(<<a, b>>) = {a.op, b.op} /\ Range(<<a, b>>) = {a, b}
    BY Two, Tuples
  <2> QED  BY <1>2, <2>1 DEF Leading, Middle
<1>3. ASSUME NEW b, NEW c, Middle(b, r), Middle(c, r) PROVE Leading(<<a, b, c>>, r)
  <2>1. /\ IsList(<<a, b, c>>) /\ Ops(<<a, b, c>>) = {a.op, b.op, c.op}
        /\ Range(<<a, b, c>>) = {a, b, c}
    BY Three, Tuples
  <2> QED  BY <1>3, <2>1 DEF Leading, Middle
<1>4. ASSUME NEW b, NEW c, NEW d, Middle(b, r), Middle(c, r), Middle(d, r)
      PROVE  Leading(<<a, b, c, d>>, r)
  <2>1. /\ IsList(<<a, b, c, d>>) /\ Ops(<<a, b, c, d>>) = {a.op, b.op, c.op, d.op}
        /\ Range(<<a, b, c, d>>) = {a, b, c, d}
    BY Four, Tuples
  <2> QED  BY <1>4, <2>1 DEF Leading, Middle
<1>5. Leading(<<a>>, r)  BY <1>1 DEF Leading, Middle
<1> QED  BY <1>2, <1>3, <1>4, <1>5

LEMMA OrdinaryMiddle ==
  ASSUME NEW r, NEW a, a.op \notin Special
  PROVE  Middle(a, r)
BY AllowedEnds DEF Middle, Special

LEMMA EthereumGetAddressServed ==
  ASSUME NEW r, r.type = "EthereumGetAddress"
  PROVE  Serviceable(fsm_msgEthereumGetAddress(r), r)
<1> DEFINE a == Initialized
           b == Pin(TRUE)
           c == Node(TRUE)
           d == Hash
           e == ShowAddress
           s == <<a, b, c, d>>
           w == When(r.show, <<e>>)
<1>1. fsm_msgEthereumGetAddress(r) = s \o w \o <<Own>>  BY DEF fsm_msgEthereumGetAddress
<1>2. /\ a.op = "Initialized" /\ b.op = "Pin" /\ c.op = "Node" /\ d.op = "Hash"
      /\ e.op = "Address" /\ ShownBy(e) = Parts({"address"})
  BY StepFacts
<1> HIDE DEF a, b, c, d, e
<1>3. s = <<a, b, c>> \o <<d>>  BY Zenon, Joined4
<1>4. IsList(<<a, b, c>>) /\ Ops(<<a, b, c>>) = {a.op, b.op, c.op}  BY Three
<1>7. IsList(<<d>>) /\ Ops(<<d>>) = {d.op}  BY One
<1>8. OneNode(<<a, b, c>>) /\ NoNode(<<d>>)
  BY <1>2, <1>7, NodeInTuple DEF NodeOps, NoNode
<1>9. OneNode(<<a, b, c>> \o <<d>>)  BY Zenon, <1>4, <1>7, <1>8, NodeFirst
<1>10. Leading(<<a, b, c>> \o <<d>>, r)
  <2>1. Leading(<<a, b, c>>, r)  BY <1>2, <1>4, Ordinary DEF Special, Ends
  <2>2. Middle(d, r)  BY <1>2 DEF Middle, Allowed, Ends
  <2>3. Leading(<<d>>, r)  BY <2>2, FrontTuples
  <2> QED  BY Zenon, <2>1, <2>3, BothFront
<1>11. "Pin" \in Ops(<<a, b, c>> \o <<d>>)
  <2>1. Ops(<<a, b, c>> \o <<d>>) = Ops(<<a, b, c>>) \cup Ops(<<d>>)
    BY Zenon, <1>4, <1>7, Both
  <2> QED  BY <1>2, <1>4, <2>1
<1>5. IsList(w) /\ Ops(w) \subseteq {"Ask", "Address"}
      /\ Shown(w) = IF r.show THEN Parts({"address"}) ELSE {}
  BY <1>2, Optional
<1>6. Needs(r) \subseteq Shown(w)  BY <1>5 DEF Needs, Consent
<1> HIDE DEF s, w
<1>12. Leading(s, r) /\ OneNode(s) /\ "Pin" \in Ops(s)  BY Zenon, <1>3, <1>9, <1>10, <1>11
<1> QED  BY <1>1, <1>5, <1>6, <1>12, KeyThenDialogs

LEMMA NEMGetAddressServed ==
  ASSUME NEW r, r.type = "NEMGetAddress"
  PROVE  Serviceable(fsm_msgNEMGetAddress(r), r)
<1> DEFINE a == Check(r.network)
           b == Initialized
           c == Pin(TRUE)
           d == Node(FALSE)
           h == Hash
           e == ShowAddress
           s == <<a, b, c, d, h>>
           w == When(r.show, <<e>>)
<1>1. fsm_msgNEMGetAddress(r) = s \o w \o <<Own>>  BY DEF fsm_msgNEMGetAddress
<1>2. /\ a.op = "Check" /\ b.op = "Initialized" /\ c.op = "Pin" /\ d.op = "Node" /\ h.op = "Hash"
      /\ e.op = "Address" /\ ShownBy(e) = Parts({"address"})
  BY StepFacts
<1> HIDE DEF a, b, c, d, e, h
<1>3. s = <<a, b, c, d>> \o <<h>>  BY Zenon, Joined5
<1>4. IsList(<<a, b, c, d>>) /\ Ops(<<a, b, c, d>>) = {a.op, b.op, c.op, d.op}  BY Four
<1>7. IsList(<<h>>) /\ Ops(<<h>>) = {h.op}  BY One
<1>8. OneNode(<<a, b, c, d>>) /\ NoNode(<<h>>)
  BY <1>2, <1>7, NodeInTuple DEF NodeOps, NoNode
<1>9. OneNode(<<a, b, c, d>> \o <<h>>)  BY Zenon, <1>4, <1>7, <1>8, NodeFirst
<1>10. Leading(<<a, b, c, d>> \o <<h>>, r)
  <2>1. Leading(<<a, b, c, d>>, r)  BY <1>2, <1>4, Ordinary DEF Special, Ends
  <2>2. Middle(h, r)  BY <1>2 DEF Middle, Allowed, Ends
  <2>3. Leading(<<h>>, r)  BY <2>2, FrontTuples
  <2> QED  BY Zenon, <2>1, <2>3, BothFront
<1>11. "Pin" \in Ops(<<a, b, c, d>> \o <<h>>)
  <2>1. Ops(<<a, b, c, d>> \o <<h>>) = Ops(<<a, b, c, d>>) \cup Ops(<<h>>)
    BY Zenon, <1>4, <1>7, Both
  <2> QED  BY <1>2, <1>4, <2>1
<1>5. IsList(w) /\ Ops(w) \subseteq {"Ask", "Address"}
      /\ Shown(w) = IF r.show THEN Parts({"address"}) ELSE {}
  BY <1>2, Optional
<1>6. Needs(r) \subseteq Shown(w)  BY <1>5 DEF Needs, Consent
<1> HIDE DEF s, w
<1>12. Leading(s, r) /\ OneNode(s) /\ "Pin" \in Ops(s)  BY Zenon, <1>3, <1>9, <1>10, <1>11
<1> QED  BY <1>1, <1>5, <1>6, <1>12, KeyThenDialogs

LEMMA GetAddressServed ==
  ASSUME NEW r, r.type = "GetAddress"
  PROVE  Serviceable(fsm_msgGetAddress(r), r)
<1> DEFINE a == Initialized
           b == Pin(TRUE)
           c == Check(r.coin.known)
           d == Node(r.coin.secp256k1)
           e == Check(r.encodes)
           f == Ask(Parts({"risk"}))
           g == ShowAddress
           risky == path_mismatched(r.coin, r.path, r.script)
           s == <<a, b, c, d, e>>
           u == When(risky, <<f>>)
           v == <<g>>
           w == When(r.show, u \o v)
<1>1. fsm_msgGetAddress(r) = s \o w \o <<Own>>  BY DEF fsm_msgGetAddress
<1>2. /\ a.op = "Initialized" /\ b.op = "Pin" /\ c.op = "Check" /\ d.op = "Node"
      /\ e.op = "Check" /\ f.op = "Ask" /\ g.op = "Address" /\ ShownBy(g) = Parts({"address"})
  BY StepFacts
<1> HIDE DEF a, b, c, d, e, f, g, risky
<1>3. s = <<a, b, c, d>> \o <<e>>  BY Zenon, Joined5
<1>4. IsList(<<a, b, c, d>>) /\ Ops(<<a, b, c, d>>) = {a.op, b.op, c.op, d.op}  BY Four
<1>5. IsList(<<e>>) /\ Ops(<<e>>) = {e.op}  BY One
<1>6. OneNode(<<a, b, c, d>>) /\ NoNode(<<e>>)
  BY <1>2, <1>5, NodeInTuple DEF NodeOps, NoNode
<1>7. OneNode(<<a, b, c, d>> \o <<e>>)  BY Zenon, <1>4, <1>5, <1>6, NodeFirst
<1>8. /\ IsList(<<a, b, c, d>> \o <<e>>)
      /\ Ops(<<a, b, c, d>> \o <<e>>) = {a.op, b.op, c.op, d.op} \cup {e.op}
  BY Zenon, <1>4, <1>5, Both
<1> HIDE DEF s
<1>9. OneNode(s) /\ IsList(s) /\ Ops(s) = {"Initialized", "Pin", "Check", "Node"}
  <2>1. OneNode(s) /\ IsList(s)  BY Zenon, <1>3, <1>7, <1>8
  <2>2. Ops(s) = {a.op, b.op, c.op, d.op} \cup {e.op}  BY Zenon, <1>3, <1>8
  <2> QED  BY <1>2, <2>1, <2>2
<1>15. Leading(s, r) /\ "Pin" \in Ops(s)  BY <1>9, Ordinary DEF Special, Ends
<1>10. IsList(u) /\ Ops(u) \subseteq {"Ask", "Address"}  BY <1>2, Optional
<1>11. IsList(v) /\ Ops(v) = {"Address"} /\ Shown(v) = Parts({"address"})  BY <1>2, One
<1> HIDE DEF u, v
<1>12. /\ IsList(u \o v) /\ Ops(u \o v) \subseteq {"Ask", "Address"}
       /\ Shown(u \o v) = Shown(u) \cup Parts({"address"})
  BY <1>10, <1>11, Both
<1>13. /\ IsList(w) /\ Ops(w) \subseteq Ops(u \o v)
       /\ Shown(w) = IF r.show THEN Shown(u \o v) ELSE {}
  BY <1>12, WhenSteps
<1>14. Needs(r) \subseteq Shown(w)  BY <1>12, <1>13 DEF Needs, Consent
<1> HIDE DEF w
<1> QED  BY <1>1, <1>9, <1>12, <1>13, <1>14, <1>15, KeyThenDialogs

\* The dialog and the PIN first, then the key and the answer.
LEMMA DialogThenKey ==
  ASSUME NEW r, NEW s, NEW t, IsList(s), IsList(t),
         Ops(s) \subseteq {"Initialized", "Pin", "Check", "Ask"}, "Pin" \in Ops(s),
         Ops(t) \subseteq {"Node", "Sign", "Ask"}, OneNode(t),
         Needs(r) \subseteq Shown(s) \cup Shown(t)
  PROVE  Serviceable(s \o (t \o <<Own>>), r)
<1>1. Fits(<<Own>>, r) /\ NoNode(<<Own>>) /\ Shown(<<Own>>) = {}  BY Answering
<1> DEFINE o == <<Own>>
<1> HIDE DEF o
<1>2. Fits(o, r) /\ NoNode(o) /\ Shown(o) = {}  BY <1>1 DEF o
<1>3. IsList(o) /\ Leading(t, r)  BY <1>2, Ordinary DEF Fits, Special, Ends
<1>4. Fits(t \o o, r) /\ OneNode(t \o o) /\ Shown(t \o o) = Shown(t)
  <2>1. Fits(t \o o, r)  BY Zenon, <1>2, <1>3, BothFit
  <2>2. OneNode(t \o o)  BY Zenon, <1>2, <1>3, NodeFirst
  <2>3. Shown(t \o o) = Shown(t) \cup Shown(o)  BY Zenon, <1>3, Both
  <2> QED  BY <1>2, <2>1, <2>2, <2>3
<1>5. Leading(s, r) /\ NoNode(s)  BY Ordinary DEF Special, Ends, NoNode, NodeOps
<1>6. Serviceable(s \o (t \o o), r)  BY <1>4, <1>5, KeyHandler
<1> QED  BY <1>6 DEF o

\* SignMessage, SignIdentity and GetECDHSessionKey.
LEMMA SignedServed ==
  ASSUME NEW r, NEW shows, NEW b, NEW k, Needs(r) \subseteq shows
  PROVE  Serviceable(<<Initialized, Ask(shows), Pin(TRUE), Check(b), Node(k), Step("Sign"), Own>>, r)
<1> DEFINE c == Initialized
           d == Ask(shows)
           e == Pin(TRUE)
           f == Check(b)
           g == Node(k)
           h == Step("Sign")
           o == Own
           s == <<c, d, e, f>>
           t == <<g, h>>
<1>1. /\ c.op = "Initialized" /\ d.op = "Ask" /\ e.op = "Pin" /\ f.op = "Check"
      /\ g.op = "Node" /\ h.op = "Sign" /\ ShownBy(d) = shows
  BY StepFacts
<1> HIDE DEF c, d, e, f, g, h, o
<1>2. Tuple7(c, d, e, f, g, h, o) = s \o <<g, h, o>>  BY ONLY Joined7
<1>3. <<g, h, o>> = t \o <<o>>  BY Zenon, Joined3
<1>4. IsList(s) /\ Ops(s) = {c.op, d.op, e.op, f.op} /\ shows \subseteq Shown(s)  BY <1>1, Four
<1>5. IsList(t) /\ Ops(t) = {g.op, h.op}  BY Two
<1>6. OneNode(t)  BY <1>1, NodeInTuple DEF NodeOps
<1> HIDE DEF s, t
<1>7. Serviceable(s \o (t \o <<o>>), r)
  BY <1>1, <1>4, <1>5, <1>6, DialogThenKey DEF o
<1> QED  BY Zenon, <1>2, <1>3, <1>7 DEF Tuple7, c, d, e, f, g, h, o

LEMMA SignMessageServed ==
  ASSUME NEW r, r.type = "SignMessage"
  PROVE  Serviceable(fsm_msgSignMessage(r), r)
<1>1. Needs(r) \subseteq Parts({"message"})  BY DEF Needs, Consent
<1> QED  BY Zenon, <1>1, SignedServed DEF fsm_msgSignMessage

LEMMA IdentityServed ==
  ASSUME NEW r, r.type \in {"SignIdentity", "GetECDHSessionKey"}
  PROVE  Serviceable(Identity(r), r)
<1>1. Needs(r) \subseteq Parts({"identity"})  BY DEF Needs, Consent
<1> QED  BY Zenon, <1>1, SignedServed DEF Identity

LEMMA EthereumSignMessageServed ==
  ASSUME NEW r, r.type = "EthereumSignMessage"
  PROVE  Serviceable(fsm_msgEthereumSignMessage, r)
<1> DEFINE c == Initialized
           d == Ask(Parts({"message"}))
           e == Pin(TRUE)
           g == Node(TRUE)
           h == Step("Sign")
           s == <<c, d, e, g>>
           t == <<h, Own>>
<1>1. fsm_msgEthereumSignMessage = s \o t  BY DEF fsm_msgEthereumSignMessage, ethereum_message_sign
<1>2. /\ c.op = "Initialized" /\ d.op = "Ask" /\ e.op = "Pin"
      /\ g.op = "Node" /\ h.op = "Sign" /\ ShownBy(d) = Parts({"message"})
  BY StepFacts
<1> HIDE DEF c, d, e, g, h
<1>3. IsList(s) /\ Ops(s) = {c.op, d.op, e.op, g.op} /\ Parts({"message"}) \subseteq Shown(s)
  BY <1>2, Four
<1>4. OneNode(s)  BY <1>2, NodeInTuple DEF NodeOps
<1>5. IsList(<<h>>) /\ Ops(<<h>>) = {"Sign"}  BY <1>2, One
<1>6. Fits(<<Own>>, r) /\ NoNode(<<Own>>)  BY Answering
<1>7. Leading(<<h>>, r) /\ NoNode(<<h>>)
  BY <1>5, Ordinary DEF Special, Ends, NoNode, NodeOps
<1>8. t = <<h>> \o <<Own>>  BY Zenon, Joined2
<1>9. Fits(<<h>> \o <<Own>>, r) /\ NoNode(<<h>> \o <<Own>>)
  <2>1. IsList(<<Own>>)  BY Zenon, <1>6 DEF Fits
  <2>2. Ops(<<h>> \o <<Own>>) = Ops(<<h>>) \cup Ops(<<Own>>)  BY Zenon, <1>5, <2>1, Both
  <2>3. Fits(<<h>> \o <<Own>>, r)  BY Zenon, <1>6, <1>7, BothFit
  <2>4. (Ops(<<h>>) \cup Ops(<<Own>>)) \cap NodeOps = {}  BY <1>6, <1>7 DEF NoNode
  <2> QED  BY Zenon, <2>2, <2>3, <2>4 DEF NoNode
<1> HIDE DEF s, t
<1>10. Fits(t, r) /\ NoNode(t)  BY Zenon, <1>8, <1>9
<1>11. Needs(r) \subseteq Parts({"message"})  BY DEF Needs, Consent
<1>12. Leading(s, r)  BY <1>2, <1>3, Ordinary DEF Special, Ends
<1> QED  BY <1>1, <1>2, <1>3, <1>4, <1>10, <1>11, <1>12, KeyHandler

LEMMA NEMDecryptServed ==
  ASSUME NEW r, r.type = "NEMDecryptMessage"
  PROVE  Serviceable(fsm_msgNEMDecryptMessage(r), r)
<1> DEFINE a == Initialized
           b == Check(r.params)
           c == Ask(Parts({"sender"}))
           d == Pin(TRUE)
           e == Node(FALSE)
           f == Step("Sign")
           g == Ask(Parts({"plaintext"}))
           h == Own
           s == <<a, b, c, d>>
           t == <<e, f, g>>
<1>1. fsm_msgNEMDecryptMessage(r) = Tuple8(a, b, c, d, e, f, g, h)
  BY DEF fsm_msgNEMDecryptMessage, Tuple8
<1>2. /\ a.op = "Initialized" /\ b.op = "Check" /\ c.op = "Ask" /\ d.op = "Pin" /\ e.op = "Node"
      /\ f.op = "Sign" /\ g.op = "Ask"
      /\ ShownBy(c) = Parts({"sender"}) /\ ShownBy(g) = Parts({"plaintext"})
  BY StepFacts
<1> HIDE DEF a, b, c, d, e, f, g, h
<1>3. Tuple8(a, b, c, d, e, f, g, h) = s \o <<e, f, g, h>>  BY ONLY Joined8
<1>4. <<e, f, g, h>> = t \o <<h>>  BY Zenon, Joined4
<1>5. IsList(s) /\ Ops(s) = {a.op, b.op, c.op, d.op} /\ Parts({"sender"}) \subseteq Shown(s)
  BY <1>2, Four
<1>6. IsList(t) /\ Ops(t) = {e.op, f.op, g.op} /\ Parts({"plaintext"}) \subseteq Shown(t)
  BY <1>2, Three
<1>7. OneNode(t)  BY <1>2, NodeInTuple DEF NodeOps
<1>8. Needs(r) \subseteq Parts({"sender"}) \cup Parts({"plaintext"})  BY DEF Needs, Consent, Parts
<1> HIDE DEF s, t
<1>9. Serviceable(s \o (t \o <<h>>), r)
  BY <1>2, <1>5, <1>6, <1>7, <1>8, DialogThenKey DEF h
<1> QED  BY Zenon, <1>1, <1>3, <1>4, <1>9

LEMMA CosiServed ==
  ASSUME NEW r, r.type \in {"CosiCommit", "CosiSign"}
  PROVE  Serviceable(Cosi(r), r)
<1> DEFINE a == Initialized
           b == Check(r.params)
           c == Ask(Parts({"data"}))
           d == Pin(TRUE)
           e == Node(FALSE)
           f == Own
           s == <<a, b, c, d>>
           t == <<e>>
<1>1. Cosi(r) = Tuple6(a, b, c, d, e, f)  BY DEF Cosi, Tuple6
<1>2. /\ a.op = "Initialized" /\ b.op = "Check" /\ c.op = "Ask" /\ d.op = "Pin" /\ e.op = "Node"
      /\ ShownBy(c) = Parts({"data"})
  BY StepFacts
<1> HIDE DEF a, b, c, d, e, f
<1>3. Tuple6(a, b, c, d, e, f) = s \o <<e, f>>  BY ONLY Joined6
<1>4. <<e, f>> = t \o <<f>>  BY Zenon, Joined2
<1>5. IsList(s) /\ Ops(s) = {a.op, b.op, c.op, d.op} /\ Parts({"data"}) \subseteq Shown(s)
  BY <1>2, Four
<1>6. IsList(t) /\ Ops(t) = {e.op}  BY One
<1>7. OneNode(t)  BY <1>2, NodeAlone
<1>8. Needs(r) \subseteq Parts({"data"})  BY DEF Needs, Consent
<1> HIDE DEF s, t
<1>9. Serviceable(s \o (t \o <<f>>), r)
  BY <1>2, <1>5, <1>6, <1>7, <1>8, DialogThenKey DEF f
<1> QED  BY Zenon, <1>1, <1>3, <1>4, <1>9

\* A step that some requests ask for.
LEMMA OptionalFront ==
  ASSUME NEW r, NEW b, NEW a, Middle(a, r)
  PROVE  Leading(When(b, <<a>>), r)
<1> DEFINE t == <<a>>
<1>1. Leading(t, r)  BY FrontTuples
<1> HIDE DEF t
<1>2. Leading(When(b, t), r)  BY <1>1, WhenSteps DEF Leading
<1> QED  BY <1>2 DEF t

\* Requests that need nothing shown, and that do not use the key.
LEMMA FitsIsEnough ==
  ASSUME NEW r, r.type \notin KeyTypes, NEW t, Fits(t, r), Needs(r) = {}
  PROVE  Serviceable(t, r)
BY DEF Serviceable, KeyedTypes

LEMMA PingServed ==
  ASSUME NEW r, r.type = "Ping"
  PROVE  Serviceable(fsm_msgPing(r), r)
<1> DEFINE a == Ask(Parts({"ping"}))
           b == Pin(TRUE)
           c == Passphrase
           s == When(r.button, <<a>>)
           t == When(r.pin, <<b>>)
           u == When(r.passphrase, <<c>>)
           o == <<Success>>
<1>1. fsm_msgPing(r) = s \o t \o u \o o  BY DEF fsm_msgPing
<1>2. a.op \notin Special /\ b.op \notin Special /\ c.op \notin Special
  BY StepFacts DEF Special, Ends
<1> HIDE DEF a, b, c
<1>3. Leading(s, r) /\ Leading(t, r) /\ Leading(u, r)  BY <1>2, OrdinaryMiddle, OptionalFront
<1>4. Fits(o, r)  BY Answering
<1> HIDE DEF s, t, u, o
<1>5. Fits(s \o t \o u \o o, r)  BY <1>3, <1>4, BothFront, BothFit
<1>6. r.type \notin KeyTypes /\ Needs(r) = {}  BY DEF KeyTypes, Needs, Consent
<1> QED  BY <1>1, <1>5, <1>6, FitsIsEnough

\* An effect, and its success.
LEMMA EffectFits ==
  ASSUME NEW r, NEW a, Middle(a, r), NEW x, x \in {Own, Success}
  PROVE  Fits(<<a, x>>, r) /\ ShownBy(a) \subseteq Shown(<<a, x>>)
<1>1. Leading(<<a>>, r)  BY FrontTuples
<1>2. Fits(<<x>>, r)  BY Answering
<1>3. Fits(<<a>> \o <<x>>, r)  BY Zenon, <1>1, <1>2, BothFit
<1>4. <<a, x>> = <<a>> \o <<x>>  BY Zenon, Joined2
<1>5. Fits(<<a, x>>, r)  BY Zenon, <1>3, <1>4
<1>6. ShownBy(a) \subseteq Shown(<<a, x>>)  BY Two
<1> QED  BY <1>5, <1>6

LEMMA ChangePinServed ==
  ASSUME NEW r, r.type = "ChangePin"
  PROVE  Serviceable(fsm_msgChangePin(r), r)
<1>1. r.type \notin KeyTypes /\ Needs(r) = {}  BY DEF KeyTypes, Needs, Consent
<1>2. CASE r.remove /\ ~device.pin
  <2>1. fsm_msgChangePin(r) = <<AnswerOnly("Success")>>  BY <1>2 DEF fsm_msgChangePin
  <2>2. Fits(<<AnswerOnly("Success")>>, r)  BY AllowedEnds, One
  <2> QED  BY <1>1, <2>1, <2>2, FitsIsEnough
<1>3. CASE ~(r.remove /\ ~device.pin)
  <2> DEFINE a == Initialized
             b == Ask(Parts({"pin"}))
             c == Pin(FALSE)
             d == IF r.remove THEN Step("RemovePin") ELSE Step("NewPin")
             s == When(~device.pin, <<a>>)
             t == <<b, c>>
             u == <<d, Success>>
  <2>1. s \o <<b, c>> \o u = fsm_msgChangePin(r)  BY Zenon, <1>3 DEF fsm_msgChangePin
  <2>2. a.op \notin Special /\ b.op \notin Special /\ c.op \notin Special
    BY StepFacts DEF Special, Ends
  <2>3. Middle(d, r)
    <3>1. d.op \in {"RemovePin", "NewPin"}  BY StepFacts
    <3> HIDE DEF d
    <3> QED  BY <1>1, <3>1 DEF Middle, Allowed, Ends
  <2> HIDE DEF a, b, c, d
  <2>4. Leading(s, r) /\ Leading(t, r)  BY <2>2, OrdinaryMiddle, OptionalFront, FrontTuples
  <2>5. Fits(u, r)  BY <2>3, EffectFits
  <2> HIDE DEF s, t, u
  <2>6. Fits(s \o t \o u, r)  BY <2>4, <2>5, BothFront, BothFit
  <2>7. Serviceable(s \o t \o u, r)  BY <1>1, <2>6, FitsIsEnough
  <2> QED  BY Zenon, <2>1, <2>7 DEF t
<1> QED  BY <1>2, <1>3

LEMMA WipeDeviceServed ==
  ASSUME NEW r, r.type = "WipeDevice"
  PROVE  Serviceable(fsm_msgWipeDevice(r), r)
<1> DEFINE a == Pin(TRUE)
           b == Ask(Parts({"wipe"}))
           c == Step("Wipe")
           s == When(~r.force, <<a>>)
           t == <<b, c>>
           o == <<Success>>
<1>1. fsm_msgWipeDevice(r) = s \o <<b, c, Success>>  BY DEF fsm_msgWipeDevice
<1>2. /\ a.op \notin Special /\ b.op \notin Special /\ c.op = "Wipe"
      /\ ShownBy(b) = Parts({"wipe"})
  BY StepFacts DEF Special, Ends
<1>3. r.type \notin KeyTypes /\ Needs(r) \subseteq Parts({"wipe"})
  BY DEF KeyTypes, Needs, Consent
<1> HIDE DEF a, b, c
<1>4. Middle(c, r)  BY <1>2, <1>3 DEF Middle, Allowed, Ends
<1>5. Leading(s, r) /\ Leading(t, r)  BY <1>2, <1>4, OrdinaryMiddle, OptionalFront, FrontTuples
<1>6. Fits(o, r)  BY Answering
<1>7. <<b, c, Success>> = <<b, c>> \o <<Success>>  BY Zenon, Joined3
<1>8. Parts({"wipe"}) \subseteq Shown(t)  BY <1>2, Two
<1> HIDE DEF s, t, o
<1>9. IsList(t) /\ IsList(o)  BY <1>5, <1>6 DEF Leading, Fits
<1>10. Fits(t \o o, r) /\ Parts({"wipe"}) \subseteq Shown(t \o o)
  BY <1>5, <1>6, <1>8, <1>9, BothFit, Both
<1>11. Serviceable(s \o (t \o o), r)  BY <1>3, <1>5, <1>10, PlainHandler
<1> QED  BY Zenon, <1>1, <1>7, <1>11 DEF t, o

LEMMA GetEntropyServed ==
  ASSUME NEW r, r.type = "GetEntropy"
  PROVE  Serviceable(fsm_msgGetEntropy, r)
<1> DEFINE a == Ask(Parts({"entropy"}))
           t == <<a, Own>>
<1>1. fsm_msgGetEntropy = t  BY DEF fsm_msgGetEntropy
<1>2. a.op \notin Special /\ ShownBy(a) = Parts({"entropy"})  BY StepFacts DEF Special, Ends
<1> HIDE DEF a
<1>3. Fits(t, r) /\ ShownBy(a) \subseteq Shown(t)  BY <1>2, OrdinaryMiddle, EffectFits
<1> HIDE DEF t
<1>4. r.type \notin KeyTypes /\ Needs(r) = Parts({"entropy"})  BY DEF KeyTypes, Needs, Consent
<1> QED  BY <1>1, <1>2, <1>3, <1>4 DEF Serviceable, KeyedTypes

LEMMA SetU2FCounterServed ==
  ASSUME NEW r, r.type = "SetU2FCounter"
  PROVE  Serviceable(fsm_msgSetU2FCounter, r)
<1> DEFINE a == Ask(Parts({"counter"}))
           t == <<a, Success>>
<1>1. fsm_msgSetU2FCounter = t  BY DEF fsm_msgSetU2FCounter
<1>2. a.op \notin Special /\ ShownBy(a) = Parts({"counter"})  BY StepFacts DEF Special, Ends
<1> HIDE DEF a
<1>3. Fits(t, r) /\ ShownBy(a) \subseteq Shown(t)  BY <1>2, OrdinaryMiddle, EffectFits
<1> HIDE DEF t
<1>4. r.type \notin KeyTypes /\ Needs(r) = Parts({"counter"})  BY DEF KeyTypes, Needs, Consent
<1> QED  BY <1>1, <1>2, <1>3, <1>4 DEF Serviceable, KeyedTypes

LEMMA LoadDeviceServed ==
  ASSUME NEW r, r.type = "LoadDevice"
  PROVE  Serviceable(fsm_msgLoadDevice(r), r)
<1> DEFINE a == Step("NoPin")
           b == Step("NotInitialized")
           c == Ask(Parts({"load"}))
           d == Check(r.checksum)
           e == Step("Load")
           f == Success
           s == <<a, b, c, d>>
           t == <<e, f>>
<1>1. fsm_msgLoadDevice(r) = Tuple6(a, b, c, d, e, f)  BY DEF fsm_msgLoadDevice, Tuple6
<1>2. /\ a.op \notin Special /\ b.op \notin Special /\ c.op \notin Special /\ d.op \notin Special
      /\ e.op = "Load" /\ ShownBy(c) = Parts({"load"})
  BY StepFacts DEF Special, Ends
<1>3. r.type \notin KeyTypes /\ Needs(r) = Parts({"load"})  BY DEF KeyTypes, Needs, Consent
<1> HIDE DEF a, b, c, d, e
<1>4. Middle(e, r)  BY <1>2, <1>3 DEF Middle, Allowed, Ends
<1>5. Leading(s, r) /\ ShownBy(c) \subseteq Shown(s)
  <2>1. Middle(a, r) /\ Middle(b, r) /\ Middle(c, r) /\ Middle(d, r)  BY <1>2, OrdinaryMiddle
  <2>2. Leading(s, r)  BY <2>1, FrontTuples
  <2>3. ShownBy(c) \subseteq Shown(s)  BY Four
  <2> QED  BY <2>2, <2>3
<1>6. Fits(t, r)  BY <1>4, EffectFits
<1> HIDE DEF f
<1>7. Tuple6(a, b, c, d, e, f) = s \o <<e, f>>  BY ONLY Joined6
<1> HIDE DEF s, t
<1>8. Serviceable(s \o t, r)  BY <1>2, <1>3, <1>5, <1>6, PlainHandler
<1> QED  BY Zenon, <1>1, <1>7, <1>8 DEF t

LEMMA ApplySettingsServed ==
  ASSUME NEW r, r.type = "ApplySettings", r.settings \in Seq(STRING)
  PROVE  Serviceable(fsm_msgApplySettings(r), r)
<1> DEFINE a == Check(r.settings # <<>>)
           b == Pin(TRUE)
           s == <<a, b>>
           w == [i \in DOMAIN r.settings |-> Ask(Parts({r.settings[i]}))]
           c == Step("ApplySettings")
           t == <<c, Success>>
<1>1. fsm_msgApplySettings(r) = s \o w \o t  BY DEF fsm_msgApplySettings
<1>2. a.op = "Check" /\ b.op = "Pin" /\ c.op = "ApplySettings"  BY StepFacts
<1> HIDE DEF a, b, c
<1>3. IsList(s) /\ Ops(s) = {"Check", "Pin"}  BY <1>2, Two
<1>4. Middle(c, r)  BY <1>2 DEF Middle, Allowed, Ends, KeyTypes
<1>5. Fits(t, r)  BY <1>4, EffectFits
<1>6. IsList(r.settings) /\ Len(r.settings) \in Nat /\ DOMAIN r.settings = 1 .. Len(r.settings)
  BY ListOfSet, ListFacts
<1>7. /\ DOMAIN w = DOMAIN r.settings
      /\ \A i \in DOMAIN w : w[i].op = "Ask" /\ ShownBy(w[i]) = Parts({r.settings[i]})
  BY StepFacts
<1>8. IsList(w)  BY <1>6, ListByElements
<1> HIDE DEF s, w, t
<1>9. Ops(w) \subseteq {"Ask"}  BY <1>7 DEF Ops, Range
<1>10. Parts({r.settings[i] : i \in DOMAIN r.settings}) \subseteq Shown(w)
  <2> SUFFICES ASSUME NEW i \in DOMAIN r.settings PROVE Part(r.settings[i]) \in Shown(w)
    BY DEF Parts
  <2>1. w[i] \in Range(w) /\ Part(r.settings[i]) \in ShownBy(w[i])  BY <1>7 DEF Range, Parts
  <2> QED  BY <2>1 DEF Shown
<1>11. Needs(r) = Parts({r.settings[i] : i \in DOMAIN r.settings})  BY DEF Needs, Consent
<1>12. /\ IsList(s \o w) /\ Ops(s \o w) = Ops(s) \cup Ops(w)
       /\ Shown(s \o w) = Shown(s) \cup Shown(w)
  BY <1>3, <1>8, Both
<1>13. Ops(s \o w) \cap Special = {}  BY <1>3, <1>9, <1>12 DEF Special, Ends
<1>14. IsList(t) /\ Leading(s \o w, r)  BY <1>5, <1>12, <1>13, Ordinary DEF Fits
<1>15. Fits(s \o w \o t, r)  BY <1>5, <1>14, BothFit
<1>16. /\ Ops(s \o w \o t) = Ops(s \o w) \cup Ops(t)
       /\ Shown(s \o w \o t) = Shown(s \o w) \cup Shown(t)
  BY <1>12, <1>14, Both
<1>17. "Pin" \in Ops(s \o w \o t) /\ Needs(r) \subseteq Shown(s \o w \o t) /\ r.type \notin KeyedTypes
  BY <1>3, <1>10, <1>11, <1>12, <1>16 DEF KeyedTypes
<1> QED  BY <1>1, <1>15, <1>17 DEF Serviceable

\* The dialogs of a valid signature, and the failure otherwise.
LEMMA VerdictFits ==
  ASSUME NEW r, NEW x, x \in {Fail, FailOnly}, NEW b
  PROVE  LET t == IF b THEN Verified ELSE <<x>>
         IN Fits(t, r) /\ (Serves(t) => Parts({"address", "message"}) \subseteq Shown(t))
<1>1. CASE b
  <2> DEFINE c == Ask(Parts({"address"}))
             d == Ask(Parts({"message"}))
             s == <<c, d>>
             o == <<Success>>
  <2>1. Verified = <<c, d, Success>>  BY DEF Verified
  <2>2. /\ c.op \notin Special /\ d.op \notin Special
        /\ ShownBy(c) = Parts({"address"}) /\ ShownBy(d) = Parts({"message"})
    BY StepFacts DEF Special, Ends
  <2> HIDE DEF c, d
  <2>3. Leading(s, r) /\ Shown(s) = Parts({"address"}) \cup Parts({"message"})
    BY <2>2, OrdinaryMiddle, FrontTuples, Two
  <2>4. Fits(o, r)  BY Answering
  <2>5. <<c, d, Success>> = <<c, d>> \o <<Success>>  BY Zenon, Joined3
  <2>6. Parts({"address", "message"}) = Parts({"address"}) \cup Parts({"message"})  BY DEF Parts
  <2> HIDE DEF s, o
  <2>7. IsList(s) /\ IsList(o)  BY <2>3, <2>4 DEF Leading, Fits
  <2>8. Fits(s \o o, r) /\ Parts({"address", "message"}) \subseteq Shown(s \o o)
    BY <2>3, <2>4, <2>6, <2>7, BothFit, Both
  <2>9. Fits(Verified, r) /\ Parts({"address", "message"}) \subseteq Shown(Verified)
    BY Zenon, <2>1, <2>5, <2>8 DEF s, o
  <2> HIDE DEF Verified
  <2> QED  BY <1>1, <2>9
<1>2. CASE ~b
  <2>1. x.op = "Failure" /\ Allowed(x, r)  BY AllowedEnds, StepFacts
  <2> DEFINE t == <<x>>
  <2>2. Fits(t, r) /\ ~Serves(t)  BY <2>1, One
  <2> HIDE DEF t
  <2> QED  BY <1>2, <2>2 DEF t
<1> QED  BY <1>1, <1>2

LEMMA VerifyMessageServed ==
  ASSUME NEW r, r.type = "VerifyMessage"
  PROVE  Serviceable(fsm_msgVerifyMessage(r), r)
<1> DEFINE a == Check(r.params)
           b == Check(r.coin)
           s == <<a, b>>
           t == IF r.valid THEN Verified ELSE <<Fail>>
<1>1. fsm_msgVerifyMessage(r) = s \o t  BY DEF fsm_msgVerifyMessage
<1>2. a.op \notin Special /\ b.op \notin Special  BY StepFacts DEF Special, Ends
<1> HIDE DEF a, b
<1>3. Leading(s, r)  BY <1>2, OrdinaryMiddle, FrontTuples
<1>4. Fits(t, r) /\ (Serves(t) => Parts({"address", "message"}) \subseteq Shown(t))
  BY VerdictFits
<1>5. r.type \notin KeyTypes /\ Needs(r) = Parts({"address", "message"})
  BY DEF KeyTypes, Needs, Consent
<1> HIDE DEF s, t
<1> QED  BY <1>1, <1>3, <1>4, <1>5, PlainHandler

LEMMA EthereumVerifyServed ==
  ASSUME NEW r, r.type = "EthereumVerifyMessage"
  PROVE  Serviceable(fsm_msgEthereumVerifyMessage(r), r)
<1> DEFINE a == Check(r.params)
           b == Step("Malformed")
           s == <<a>>
           u == When(r.malformed, <<b>>)
           t == IF r.valid THEN Verified ELSE <<FailOnly>>
<1>1. fsm_msgEthereumVerifyMessage(r) = s \o u \o t  BY DEF fsm_msgEthereumVerifyMessage
<1>2. a.op \notin Special /\ b.op = "Malformed"  BY StepFacts DEF Special, Ends
<1> HIDE DEF a, b
<1>3. Leading(s, r)  BY <1>2, OrdinaryMiddle, FrontTuples
<1>4. Leading(u, r)
  <2>1. CASE r.malformed
    <3>1. Middle(b, r)  BY <1>2, <2>1 DEF Middle, Allowed, Ends
    <3> QED  BY <3>1, OptionalFront
  <2>2. CASE ~r.malformed
    <3>1. u = <<>>  BY <2>2 DEF When
    <3> QED  BY <3>1, Tuples DEF Leading, Ops
  <2> QED  BY <2>1, <2>2
<1>5. Fits(t, r) /\ (Serves(t) => Parts({"address", "message"}) \subseteq Shown(t))
  BY VerdictFits
<1>6. r.type \notin KeyTypes /\ Needs(r) = Parts({"address", "message"})
  BY DEF KeyTypes, Needs, Consent
<1> HIDE DEF s, t, u
<1>7. Leading(s \o u, r)  BY <1>3, <1>4, BothFront
<1> QED  BY <1>1, <1>5, <1>6, <1>7, PlainHandler

\* The handlers of one step.
LEMMA SingleServed ==
  ASSUME NEW r
  PROVE  /\ r.type = "GetFeatures" => Serviceable(<<AnswerOnly("Features")>>, r)
         /\ r.type = "ApplyFlags" => Serviceable(<<AnswerOnly("Success")>>, r)
         /\ r.type = "Initialize" => Serviceable(<<Step("Initialize")>>, r)
         /\ r.type = "ClearSession" => Serviceable(<<Step("ClearSession")>>, r)
<1>1. ASSUME NEW a, Allowed(a, r), r.type \in {"GetFeatures", "ApplyFlags", "Initialize", "ClearSession"}
      PROVE  Serviceable(<<a>>, r)
  <2>1. Fits(<<a>>, r)  BY <1>1, One
  <2>2. r.type \notin KeyTypes /\ Needs(r) = {}  BY <1>1 DEF KeyTypes, Needs, Consent
  <2> QED  BY <2>1, <2>2, FitsIsEnough
<1>2. r.type = "GetFeatures" => Allowed(AnswerOnly("Features"), r)
  BY StepFacts DEF Allowed
<1>3. Allowed(AnswerOnly("Success"), r)
  BY AllowedEnds
<1>4. r.type = "Initialize" => Allowed(Step("Initialize"), r)
  BY StepFacts DEF Allowed
<1>5. r.type = "ClearSession" => Allowed(Step("ClearSession"), r)
  BY StepFacts DEF Allowed
<1> QED  BY <1>1, <1>2, <1>3, <1>4, <1>5

\* The steps of showing dialogs.
LEMMA DialogSteps ==
  ASSUME NEW r, NEW d, IsList(d)
  PROVE  /\ Leading(Dialogs(d), r) /\ Ops(Dialogs(d)) \subseteq {"Ask"}
         /\ Shown(Dialogs(d)) = PartsOf(d) /\ NoNode(Dialogs(d))
<1> DEFINE w == [i \in DOMAIN d |-> Ask(d[i])]
<1>1. Len(d) \in Nat /\ DOMAIN d = 1 .. Len(d)  BY ListFacts
<1>2. DOMAIN w = DOMAIN d /\ \A i \in DOMAIN w : w[i].op = "Ask" /\ ShownBy(w[i]) = d[i]
  BY StepFacts
<1>3. IsList(w)  BY <1>1, ListByElements
<1>4. w = Dialogs(d)  BY DEF Dialogs
<1> HIDE DEF w
<1>5. Ops(w) \subseteq {"Ask"}  BY <1>2 DEF Ops, Range
<1>6. Shown(w) = PartsOf(d)
  <2>1. \A x \in Range(w) : \E i \in DOMAIN d : ShownBy(x) = d[i]  BY <1>2 DEF Range
  <2>2. \A i \in DOMAIN d : \E x \in Range(w) : ShownBy(x) = d[i]  BY <1>2 DEF Range
  <2>3. ASSUME NEW p \in Shown(w) PROVE p \in PartsOf(d)
    BY <2>1 DEF Shown, PartsOf, Range
  <2>4. ASSUME NEW p \in PartsOf(d) PROVE p \in Shown(w)
    BY <2>2 DEF Shown, PartsOf, Range
  <2> QED  BY <2>3, <2>4
<1>7. Leading(w, r)  BY <1>3, <1>5, Ordinary DEF Special, Ends
<1>8. NoNode(w)  BY <1>5 DEF NoNode, NodeOps
<1> QED  BY <1>4, <1>5, <1>6, <1>7, <1>8

\* What is asked of a transaction and its multisig one is what is written.
LEMMA NeedsOfNem ==
  ASSUME NEW r, r.type = "NEMSignTx", r.tx \in Transactions
  PROVE  LET d == NemAsk(Canonical(r.tx), ~r.has_multisig)
         IN /\ IsList(d) /\ IsList(nem_askMultisig)
            /\ Needs(r) \subseteq PartsOf(d) \cup (IF r.has_multisig THEN PartsOf(nem_askMultisig) ELSE {})
<1> DEFINE d == NemAsk(Canonical(r.tx), ~r.has_multisig)
           inner == NemWritten(Canonical(r.tx))
           un == Unshown(r.tx)
<1>1. IsList(d) /\ inner \ un \subseteq PartsOf(d)  BY AskShows
<1>2. /\ IsList(nem_askMultisig)
      /\ PartsOf(nem_askMultisig) = Parts({"account"}) \cup Parts({"multisigFee"})
  BY Tuples DEF nem_askMultisig, PartsOf
<1>3. Parts({"account", "multisigFee"}) = Parts({"account"}) \cup Parts({"multisigFee"})
  BY DEF Parts
<1> HIDE DEF d, inner, un
<1>7. Parts({"multisigTimestamp", "multisigDeadline"}) \subseteq un  BY DEF un, Unshown, Parts
<1>8. Parts({"account", "multisigFee", "multisigTimestamp", "multisigDeadline"})
        = Parts({"account", "multisigFee"}) \cup Parts({"multisigTimestamp", "multisigDeadline"})
  BY DEF Parts
<1>4. Written(r) \subseteq inner \cup Parts({"multisigTimestamp", "multisigDeadline"})
                         \cup (IF r.has_multisig THEN PartsOf(nem_askMultisig) ELSE {})
  BY <1>2, <1>3, <1>8 DEF Written, nem_fsmMultisig, inner
<1>5. Needs(r) = Written(r) \ un  BY DEF Needs, Consent, un
<1> HIDE DEF nem_askMultisig
<1> QED  BY <1>1, <1>2, <1>4, <1>5, <1>7 DEF d

LEMMA NEMSignTxServed ==
  ASSUME NEW r, r.type = "NEMSignTx", r.tx \in Transactions
  PROVE  Serviceable(fsm_msgNEMSignTx(r), r)
<1> DEFINE tx == Canonical(r.tx)
           multisig == r.has_multisig
           a == Check(r.has_transaction)
           b == Check(r.provided = 1)
           c == Check(nem_validate_common(r.transaction, FALSE))
           d == Check(NemValid(r.tx, ~r.has_multisig))
           e == IF r.has_multisig
                THEN Check(nem_validate_common(r.multisig, TRUE)
                           /\ r.multisig.network = r.transaction.network)
                ELSE Check(~r.cosigning)
           f == Initialized
           g == Pin(TRUE)
           s == <<a, b, c, d>> \o <<e, f, g>>
           outer == Dialogs(nem_askMultisig)
           u == When(multisig, outer)
           k == <<Node(FALSE)>>
           v == Dialogs(NemAsk(tx, ~r.has_multisig))
           w == NemBuild(tx, multisig)
           x == When(multisig, <<Build(TRUE)>>)
           o == <<Own>>
<1>1. fsm_msgNEMSignTx(r) = <<a, b, c, d, e, f, g>> \o u \o k \o v \o w \o x \o o
  BY Zenon DEF fsm_msgNEMSignTx
<1>2. /\ a.op = "Check" /\ b.op = "Check" /\ c.op = "Check" /\ d.op = "Check"
      /\ e.op = "Check" /\ f.op = "Initialized" /\ g.op = "Pin"
  BY StepFacts
<1> HIDE DEF a, b, c, d, e, f, g
<1>3. Tuple7(a, b, c, d, e, f, g) = <<a, b, c, d>> \o <<e, f, g>>  BY ONLY Joined7
<1>4. fsm_msgNEMSignTx(r) = s \o u \o k \o v \o w \o x \o o
  BY Zenon, <1>1, <1>3 DEF Tuple7
<1>5. Leading(s, r) /\ "Pin" \in Ops(s) /\ NoNode(s)
  <2> DEFINE y == <<a, b, c, d>>
             z == <<e, f, g>>
  <2>1. IsList(y) /\ Ops(y) = {"Check"}  BY <1>2, Four
  <2>2. IsList(z) /\ Ops(z) = {"Check", "Initialized", "Pin"}  BY <1>2, Three
  <2> HIDE DEF y, z
  <2>3. IsList(y \o z) /\ Ops(y \o z) = {"Check", "Initialized", "Pin"}  BY <2>1, <2>2, Both
  <2>4. Leading(y \o z, r) /\ "Pin" \in Ops(y \o z) /\ NoNode(y \o z)
    BY <2>3, Ordinary DEF Special, Ends, NoNode, NodeOps
  <2> QED  BY <2>4 DEF y, z
<1>6. /\ IsList(NemAsk(tx, ~r.has_multisig)) /\ IsList(nem_askMultisig)
      /\ Needs(r) \subseteq PartsOf(NemAsk(tx, ~r.has_multisig))
                            \cup (IF multisig THEN PartsOf(nem_askMultisig) ELSE {})
  BY NeedsOfNem
<1>7. /\ Leading(outer, r) /\ NoNode(outer) /\ Shown(outer) = PartsOf(nem_askMultisig)
  <2> HIDE DEF nem_askMultisig
  <2> QED  BY <1>6, DialogSteps
<1>8. Leading(v, r) /\ NoNode(v) /\ Shown(v) = PartsOf(NemAsk(tx, ~r.has_multisig))
  <2> HIDE DEF tx, NemAsk
  <2> QED  BY <1>6, DialogSteps
<1> HIDE DEF outer
<1>9. /\ Leading(u, r) /\ NoNode(u)
      /\ Shown(u) = IF multisig THEN PartsOf(nem_askMultisig) ELSE {}
  <2>1. IsList(outer)  BY <1>7 DEF Leading
  <2> HIDE DEF multisig
  <2> QED  BY <1>7, <2>1, WhenSteps
<1>10. Leading(k, r) /\ OneNode(k)
  <2> DEFINE y == Node(FALSE)
             z == <<y>>
  <2>1. y.op = "Node"  BY StepFacts
  <2> HIDE DEF y
  <2>2. Middle(y, r)  BY <2>1, OrdinaryMiddle DEF Special, Ends
  <2>3. Leading(z, r) /\ OneNode(z)  BY <2>1, <2>2, FrontTuples, NodeAlone
  <2> QED  BY <2>3 DEF y, z
<1>11. Leading(w, r) /\ NoNode(w)
  <2>1. tx.kind = r.tx.kind  BY DEF Canonical, Transactions
  <2>2. CASE multisig /\ tx.kind = "transfer" /\ tx.encrypted
    <3>1. w = <<Fail>>  BY <2>2 DEF NemBuild
    <3>2. Fail.op = "Failure" /\ Middle(Fail, r)
      BY StepFacts, OrdinaryMiddle DEF Special, Ends
    <3> HIDE DEF Fail
    <3>3. Leading(<<Fail>>, r) /\ Ops(<<Fail>>) = {"Failure"}  BY <3>2, FrontTuples, One
    <3> QED  BY <3>1, <3>3 DEF NoNode, NodeOps
  <2>3. CASE ~(multisig /\ tx.kind = "transfer" /\ tx.encrypted)
    <3> DEFINE y == Build(tx.kind = "transfer")
    <3>1. w = <<y>>  BY <2>3 DEF NemBuild
    <3>2. y.op = "Build" /\ (~y.loud => r.tx.kind # "transfer")  BY <2>1, StepFacts
    <3> HIDE DEF y
    <3>3. Middle(y, r)  BY <3>2 DEF Middle, Allowed, Ends
    <3>4. Leading(<<y>>, r) /\ Ops(<<y>>) = {"Build"}  BY <3>2, <3>3, FrontTuples, One
    <3> QED  BY <3>1, <3>4 DEF NoNode, NodeOps
  <2> QED  BY <2>2, <2>3
<1>12. Leading(x, r) /\ NoNode(x)
  <2> DEFINE y == Build(TRUE)
             z == <<y>>
  <2>1. y.op = "Build" /\ y.loud = TRUE  BY StepFacts
  <2> HIDE DEF y
  <2>2. Middle(y, r)  BY <2>1 DEF Middle, Allowed, Ends
  <2>3. Leading(z, r) /\ Ops(z) = {"Build"} /\ IsList(z)  BY <2>1, <2>2, FrontTuples, One
  <2> HIDE DEF z
  <2>4. NoNode(z)  BY <2>3 DEF NoNode, NodeOps
  <2>5. Leading(When(multisig, z), r) /\ NoNode(When(multisig, z))  BY <2>3, <2>4, WhenSteps
  <2> QED  BY <2>5 DEF y, z
<1>13. Fits(o, r) /\ NoNode(o)  BY Answering
<1> HIDE DEF s, u, k, v, w, x, o, tx
<1>14. IsList(s) /\ IsList(u) /\ IsList(k) /\ IsList(v) /\ IsList(w) /\ IsList(x) /\ IsList(o)
  BY <1>5, <1>8, <1>9, <1>10, <1>11, <1>12, <1>13 DEF Leading, Fits
<1>15. /\ Leading(s \o u, r) /\ NoNode(s \o u) /\ "Pin" \in Ops(s \o u)
       /\ Shown(u) \subseteq Shown(s \o u) /\ IsList(s \o u)
  BY <1>5, <1>9, <1>14, BothFront, Both DEF NoNode
<1>16. /\ Leading(s \o u \o k, r) /\ OneNode(s \o u \o k) /\ "Pin" \in Ops(s \o u \o k)
       /\ Shown(u) \subseteq Shown(s \o u \o k) /\ IsList(s \o u \o k)
  BY <1>10, <1>14, <1>15, BothFront, Both, NodeLater
<1>17. /\ Leading(s \o u \o k \o v, r) /\ OneNode(s \o u \o k \o v)
       /\ "Pin" \in Ops(s \o u \o k \o v) /\ IsList(s \o u \o k \o v)
       /\ Shown(u) \cup Shown(v) \subseteq Shown(s \o u \o k \o v)
  BY <1>8, <1>14, <1>16, BothFront, Both, NodeFirst
<1> DEFINE p == s \o u \o k \o v
<1> HIDE DEF p
<1>18. /\ Leading(p, r) /\ OneNode(p) /\ "Pin" \in Ops(p) /\ IsList(p)
       /\ Shown(u) \cup Shown(v) \subseteq Shown(p)
  BY <1>17 DEF p
<1>19. /\ Leading(p \o w, r) /\ OneNode(p \o w) /\ "Pin" \in Ops(p \o w) /\ IsList(p \o w)
       /\ Shown(u) \cup Shown(v) \subseteq Shown(p \o w)
  BY <1>11, <1>14, <1>18, BothFront, Both, NodeFirst
<1>20. /\ Leading(p \o w \o x, r) /\ OneNode(p \o w \o x) /\ "Pin" \in Ops(p \o w \o x)
       /\ IsList(p \o w \o x) /\ Shown(u) \cup Shown(v) \subseteq Shown(p \o w \o x)
  BY <1>12, <1>14, <1>19, BothFront, Both, NodeFirst
<1>21. /\ Fits(p \o w \o x \o o, r) /\ OneNode(p \o w \o x \o o) /\ "Pin" \in Ops(p \o w \o x \o o)
       /\ Shown(u) \cup Shown(v) \subseteq Shown(p \o w \o x \o o)
  BY <1>13, <1>14, <1>20, BothFit, Both, NodeFirst
<1>22. Needs(r) \subseteq Shown(u) \cup Shown(v)  BY <1>6, <1>8, <1>9
<1>23. Serviceable(p \o w \o x \o o, r)  BY <1>21, <1>22 DEF Serviceable
<1> QED  BY Zenon, <1>4, <1>23 DEF p

\* Every handler is what it is to be.
LEMMA HandlerServed ==
  ASSUME NEW r \in Requests
  PROVE  Serviceable(Handler(r), r)
<1>1. /\ r.type \in Types /\ (r.type = "ApplySettings" => r.settings \in Seq(STRING))
      /\ r.type = "NEMSignTx" => r.tx \in Transactions
  BY HandlersAssumption
<1> HIDE DEF Serviceable
<1>2. CASE r.type \in {"GetFeatures", "Initialize", "ClearSession", "ApplyFlags"}
  BY <1>2, SingleServed DEF Handler
<1>3. CASE r.type \in {"Ping", "ChangePin", "WipeDevice", "GetEntropy", "LoadDevice", "SetU2FCounter"}
  BY <1>3, PingServed, ChangePinServed, WipeDeviceServed, GetEntropyServed, LoadDeviceServed,
     SetU2FCounterServed DEF Handler
<1>4. CASE r.type \in {"ApplySettings", "EthereumVerifyMessage", "VerifyMessage", "NEMSignTx"}
  BY <1>1, <1>4, ApplySettingsServed, EthereumVerifyServed, VerifyMessageServed, NEMSignTxServed
     DEF Handler
<1>5. CASE r.type \in {"GetPublicKey", "CipherKeyValue", "GetAddress", "EthereumGetAddress", "NEMGetAddress"}
  BY <1>5, GetPublicKeyServed, CipherKeyValueServed, GetAddressServed, EthereumGetAddressServed,
     NEMGetAddressServed DEF Handler
<1>6. CASE r.type \in {"SignMessage", "SignIdentity", "GetECDHSessionKey", "EthereumSignMessage",
                       "NEMDecryptMessage", "CosiCommit", "CosiSign"}
  BY <1>6, SignMessageServed, IdentityServed, EthereumSignMessageServed, NEMDecryptServed,
     CosiServed DEF Handler, fsm_msgSignIdentity, fsm_msgGetECDHSessionKey, fsm_msgCosiCommit,
                    fsm_msgCosiSign
<1> QED
  BY <1>1, <1>2, <1>3, <1>4, <1>5, <1>6 DEF Types

-----------------------------------------------------------------------------
(* The invariant.                                                          *)

IsFrame(f) == f = [todo |-> f.todo, confirmed |-> f.confirmed, refused |-> f.refused,
                   disturbed |-> f.disturbed, answers |-> f.answers]

\* Only the handler of a malformed signature has answered and goes on.
Answers(f, r) ==
  \/ f.answers = <<>>
  \/ /\ r.type = "EthereumVerifyMessage" /\ r.malformed
     /\ IsList(f.answers) /\ Range(f.answers) \subseteq {"Failure"}

\* A handler that may still serve its request has not been refused anything; what it
\* needs is confirmed or will be shown, and the PIN is known or will be asked for.
FrameHolds(f, r, pinned) ==
  /\ IsFrame(f) /\ Fits(f.todo, r) /\ Answers(f, r)
  /\ Serves(f.todo) => /\ ~f.refused
                       /\ Needs(r) \subseteq f.confirmed \cup Shown(f.todo)
                       /\ r.type \in KeyTypes => pinned \/ "Pin" \in Ops(f.todo)

\* How far the key has come, by what is left to do.
Next1(t, op) == t # <<>> /\ Head(t).op = op
AtRoot(t) == Next1(t, "Root") /\ NoNode(Tail(t))
AtPassphrase(t) == Next1(t, "Passphrase") /\ AtRoot(Tail(t))
AtDerive(t) == Next1(t, "Derive") /\ NoNode(Tail(t))
AtDecrypt(t) == Next1(t, "Decrypt") /\ AtDerive(Tail(t))
AtWakingUp(t) == Next1(t, "WakingUp") /\ AtDecrypt(Tail(t))

\* The key of a handler that was not disturbed.
Once(b) == IF b THEN 1 ELSE 0
KeyHolds(t, r, n, decrypts) ==
  r.type \in KeyedTypes /\ Serves(t) =>
    \/ OneNode(t)
    \/ AtPassphrase(t)
    \/ AtRoot(t)
    \/ AtWakingUp(t) /\ decrypts /\ n = Plain
    \/ AtDecrypt(t) /\ decrypts /\ n = Plain
    \/ AtDerive(t) /\ n = [decrypted |-> Once(decrypts), derived |-> 0]
    \/ NoNode(t) /\ n = [decrypted |-> Once(decrypts), derived |-> 1]

Pinned == ~device.pin \/ session.pin

\* What the device, the session and the node are.
StateHolds ==
  /\ device \in Devices({"none", "mnemonic", "node"})
  /\ session \in [pin : BOOLEAN, passphrase : {"none", "empty", "text"}, seed : BOOLEAN]
  /\ aborted \in BOOLEAN
  /\ node \in [decrypted : Nat, derived : Nat]

\* All the handlers that run are of one request, and the outer ones were disturbed.  One
\* that was not is the first to handle it.
FramesHold ==
  /\ IsList(frames)
  /\ \A i \in DOMAIN frames : FrameHolds(frames[i], request, Pinned)
  /\ \A i \in DOMAIN frames : i < Len(frames) => frames[i].disturbed
  /\ IF frames = <<>> THEN request = NoRequest ELSE request \in Requests
  /\ aborted => frames # <<>> /\ Top.todo = <<Fail>>
  /\ frames # <<>> /\ ~Top.disturbed =>
       KeyHolds(Top.todo, request, node, Decrypts) /\ last.handled = 0

\* What was answered last.
LastHolds ==
  /\ Answered =>
       /\ \/ Len(last.answers) = 1
          \/ last.answers = <<>> /\ Silent(last.request)
          \/ last.request.type = "EthereumVerifyMessage" /\ last.request.malformed
       /\ last.handled = 1 \/ last.disturbed
       /\ Did("Features") =>
            last.aborted \/ last.request.type \in {"GetFeatures", "Initialize"}
  /\ AnswerNeedsConsent /\ NemShowsWhatItSigns /\ KeyIsTheStored

HandlersInv == StateHolds /\ FramesHold /\ LastHolds

-----------------------------------------------------------------------------
(* Going on with a handler.                                                *)

LEMMA ConsFacts ==
  ASSUME NEW x, NEW t, IsList(t)
  PROVE  /\ IsList(<<x>> \o t) /\ <<x>> \o t # <<>> /\ Head(<<x>> \o t) = x /\ Tail(<<x>> \o t) = t
<1> DEFINE o == <<x>>
           u == o \o t
           S == {x} \cup Range(t)
<1>1. IsList(o) /\ Range(o) = {x} /\ Len(o) = 1 /\ DOMAIN o = 1 .. 1 /\ o[1] = x  BY One, Tuples
<1> HIDE DEF o
<1>2. IsList(u) /\ Len(u) = 1 + Len(t) /\ u[1] = x
  <2>1. IsList(u) /\ Len(u) = Len(o) + Len(t)  BY Zenon, <1>1, ListAppended
  <2>2. \A i \in DOMAIN o : u[i] = o[i]  BY Zenon, <1>1, ListAppended
  <2>3. 1 \in DOMAIN o  BY <1>1
  <2> HIDE DEF u
  <2> QED  BY <1>1, <2>1, <2>2, <2>3
<1>3. Behind(u, o, t)  BY Zenon, <1>1, ListAppended
<1>4. Len(t) \in Nat /\ DOMAIN t = 1 .. Len(t)  BY ListFacts
<1> HIDE DEF u
<1>5. u # <<>>  BY <1>2, <1>4, ListFacts
<1>6. /\ IsList(Tail(u)) /\ Len(Tail(u)) = Len(u) - 1 /\ Head(u) = u[1]
      /\ DOMAIN Tail(u) = 1 .. Len(u) - 1
      /\ \A i \in DOMAIN Tail(u) : Tail(u)[i] = u[i + 1]
  BY <1>2, <1>5, ListTail
<1>7. \A i \in 1 .. Len(t) : Tail(u)[i] = t[i]
  <2> SUFFICES ASSUME NEW i \in 1 .. Len(t) PROVE Tail(u)[i] = t[i]  OBVIOUS
  <2>1. i \in DOMAIN Tail(u) /\ i + 1 = 1 + i  BY <1>2, <1>4, <1>6
  <2>2. u[1 + i] = t[i]  BY <1>1, <1>3, <1>4 DEF Behind
  <2> QED  BY <1>6, <2>1, <2>2
<1>8. Tail(u) = t
  <2>1. Len(Tail(u)) = Len(t)  BY <1>2, <1>4, <1>6
  <2> DEFINE T == Range(t) \cup Range(Tail(u))
  <2>2. t \in Seq(Range(t)) /\ Tail(u) \in Seq(Range(Tail(u)))  BY <1>6 DEF IsList
  <2>3. t \in Seq(T) /\ Tail(u) \in Seq(T)  BY <2>2, SeqMonotonic
  <2> HIDE DEF T
  <2> QED  BY <1>7, <2>1, <2>3, SeqEqual
<1> QED  BY <1>2, <1>5, <1>6, <1>8 DEF u, o

\* What the first step adds to the others.
LEMMA RestFacts ==
  ASSUME NEW t, IsList(t), t # <<>>
  PROVE  /\ IsList(Tail(t)) /\ Range(t) = {Head(t)} \cup Range(Tail(t))
         /\ Ops(t) = {Head(t).op} \cup Ops(Tail(t))
         /\ Shown(t) = ShownBy(Head(t)) \cup Shown(Tail(t))
         /\ Serves(t) <=> Head(t).op \in {"Answer", "ClearSession"} \/ Serves(Tail(t))
<1>1. /\ IsList(Tail(t)) /\ Head(t) = t[1] /\ 1 \in DOMAIN t
      /\ \A i \in DOMAIN Tail(t) : i + 1 \in DOMAIN t /\ Tail(t)[i] = t[i + 1]
      /\ \A i \in DOMAIN t : i = 1 \/ (i - 1 \in DOMAIN Tail(t) /\ t[i] = Tail(t)[i - 1])
  BY ListTail
<1>2. Range(t) = {Head(t)} \cup Range(Tail(t))
  <2>1. ASSUME NEW x \in Range(t) PROVE x \in {Head(t)} \cup Range(Tail(t))
    BY <1>1, <2>1 DEF Range
  <2>2. ASSUME NEW x \in {Head(t)} \cup Range(Tail(t)) PROVE x \in Range(t)
    BY <1>1, <2>2 DEF Range
  <2> QED  BY <2>1, <2>2
<1> QED  BY <1>1, <1>2 DEF Ops, Shown, Serves

LEMMA FitsTail ==
  ASSUME NEW t, NEW r, Fits(t, r), t # <<>>
  PROVE  /\ Fits(Tail(t), r) /\ Allowed(Head(t), r)
         /\ Head(t).op \in Ends => Tail(t) = <<>>
<1>1. IsList(t) /\ EndsLast(t) /\ \A x \in Range(t) : Allowed(x, r)  BY DEF Fits
<1>2. /\ IsList(Tail(t)) /\ Len(Tail(t)) = Len(t) - 1 /\ Head(t) = t[1] /\ 1 \in DOMAIN t
      /\ DOMAIN Tail(t) = 1 .. Len(t) - 1
      /\ \A i \in DOMAIN Tail(t) : i + 1 \in DOMAIN t /\ Tail(t)[i] = t[i + 1]
  BY <1>1, ListTail
<1>3. Range(t) = {Head(t)} \cup Range(Tail(t))  BY <1>1, RestFacts
<1>4. Len(t) \in Nat /\ DOMAIN t = 1 .. Len(t)  BY <1>1, ListFacts
<1>5. EndsLast(Tail(t))
  <2> SUFFICES ASSUME NEW i \in DOMAIN Tail(t), Tail(t)[i].op \in Ends PROVE i = Len(Tail(t))
    BY DEF EndsLast
  <2>1. i + 1 \in DOMAIN t /\ t[i + 1].op \in Ends  BY <1>2
  <2>2. i + 1 = Len(t)  BY <1>1, <2>1 DEF EndsLast
  <2> QED  BY <1>2, <1>4, <2>2
<1>6. ASSUME Head(t).op \in Ends PROVE Tail(t) = <<>>
  <2>1. 1 = Len(t)  BY <1>1, <1>2, <1>6 DEF EndsLast
  <2> DEFINE u == Tail(t)
  <2>2. Len(u) = Len(t) - 1 /\ IsList(u)  BY Zenon, <1>2
  <2> HIDE DEF u
  <2>3. Len(u) = 0  BY <2>1, <2>2
  <2>4. u = <<>>  BY <2>2, <2>3, ListFacts
  <2> QED  BY <2>4 DEF u
<1> QED  BY <1>1, <1>2, <1>3, <1>5, <1>6 DEF Fits

LEMMA OneNodeTail ==
  ASSUME NEW t, IsList(t), OneNode(t)
  PROVE  /\ t # <<>>
         /\ Head(t).op = "Node" => NoNode(Tail(t))
         /\ Head(t).op # "Node" => OneNode(Tail(t)) /\ Head(t).op \notin NodeOps
<1>1. PICK k \in DOMAIN t : t[k].op = "Node" /\ \A i \in DOMAIN t : i # k => t[i].op \notin NodeOps
  BY DEF OneNode
<1>2. t # <<>> /\ Len(t) \in Nat /\ DOMAIN t = 1 .. Len(t)
  <2>1. Len(t) \in Nat /\ DOMAIN t = 1 .. Len(t) /\ ((t = <<>>) <=> (Len(t) = 0))  BY ListFacts
  <2>2. Len(t) # 0  BY <1>1, <2>1
  <2> QED  BY <2>1, <2>2
<1>3. /\ IsList(Tail(t)) /\ Head(t) = t[1] /\ 1 \in DOMAIN t /\ DOMAIN Tail(t) = 1 .. Len(t) - 1
      /\ \A i \in DOMAIN Tail(t) : i + 1 \in DOMAIN t /\ Tail(t)[i] = t[i + 1]
      /\ \A i \in DOMAIN t : i = 1 \/ (i - 1 \in DOMAIN Tail(t) /\ t[i] = Tail(t)[i - 1])
  BY <1>2, ListTail
<1>4. CASE k = 1
  <2>1. Head(t).op = "Node"  BY <1>1, <1>3, <1>4
  <2>2. \A i \in DOMAIN Tail(t) : Tail(t)[i].op \notin NodeOps
    <3> SUFFICES ASSUME NEW i \in DOMAIN Tail(t) PROVE Tail(t)[i].op \notin NodeOps  OBVIOUS
    <3>1. i + 1 # 1  BY <1>2, <1>3
    <3> QED  BY <1>1, <1>3, <1>4, <3>1
  <2>3. NoNode(Tail(t))  BY <2>2 DEF NoNode, Ops, Range
  <2> QED  BY <1>2, <2>1, <2>3
<1>5. CASE k # 1
  <2>1. Head(t).op \notin NodeOps  BY <1>1, <1>3, <1>5
  <2>2. Head(t).op # "Node"  BY <2>1 DEF NodeOps
  <2>3. k - 1 \in DOMAIN Tail(t) /\ Tail(t)[k - 1].op = "Node"  BY <1>1, <1>3, <1>5
  <2>4. \A i \in DOMAIN Tail(t) : i # k - 1 => Tail(t)[i].op \notin NodeOps
    <3> SUFFICES ASSUME NEW i \in DOMAIN Tail(t), i # k - 1 PROVE Tail(t)[i].op \notin NodeOps
      OBVIOUS
    <3>1. i + 1 # k  BY <1>2, <1>3
    <3> QED  BY <1>1, <1>3, <3>1
  <2>5. OneNode(Tail(t))  BY <2>3, <2>4 DEF OneNode
  <2> QED  BY <1>2, <2>1, <2>2, <2>5
<1> QED  BY <1>4, <1>5

LEMMA TopSet ==
  ASSUME NEW s, IsList(s), s # <<>>, NEW f, NEW u, u = [s EXCEPT ![Len(s)] = f]
  PROVE  /\ IsList(u) /\ Len(u) = Len(s) /\ DOMAIN u = DOMAIN s /\ u # <<>> /\ u[Len(s)] = f
         /\ \A i \in DOMAIN s : i # Len(s) => u[i] = s[i]
         /\ Len(s) \in DOMAIN s
<1> DEFINE n == Len(s)
<1>1. n \in Nat /\ DOMAIN s = 1 .. n /\ n # 0  BY ListFacts
<1>2. n \in DOMAIN s  BY <1>1
<1>3. /\ DOMAIN u = 1 .. n /\ u[n] = f /\ u = [i \in 1 .. n |-> u[i]]
      /\ \A i \in DOMAIN s : i # n => u[i] = s[i]
  BY <1>1, <1>2
<1> HIDE DEF n
<1>4. IsList(u) /\ Len(u) = n  BY ONLY <1>1, <1>3, ListByElements
<1>5. u # <<>>  BY <1>1, <1>4, ListFacts
<1> QED  BY <1>1, <1>2, <1>3, <1>4, <1>5 DEF n

\* A handler by its fields.
Of5(todo, confirmed, refused, disturbed, answers) ==
  [todo |-> todo, confirmed |-> confirmed, refused |-> refused, disturbed |-> disturbed,
   answers |-> answers]

LEMMA Updates ==
  ASSUME NEW f, IsFrame(f), NEW t, NEW s
  PROVE  /\ [f EXCEPT !.todo = t] = Of5(t, f.confirmed, f.refused, f.disturbed, f.answers)
         /\ [f EXCEPT !.todo = t, !.confirmed = s]
              = Of5(t, s, f.refused, f.disturbed, f.answers)
         /\ [f EXCEPT !.todo = t, !.refused = TRUE]
              = Of5(t, f.confirmed, TRUE, f.disturbed, f.answers)
         /\ [f EXCEPT !.disturbed = TRUE] = Of5(f.todo, f.confirmed, f.refused, TRUE, f.answers)
<1> DEFINE g == Of5(f.todo, f.confirmed, f.refused, f.disturbed, f.answers)
           h == Of5(t, f.confirmed, f.refused, f.disturbed, f.answers)
<1>1. f = g  BY DEF IsFrame, Of5
<1>2. [g EXCEPT !.todo = t] = h  BY DEF Of5
<1>3. ASSUME NEW z
      PROVE  /\ [h EXCEPT !.confirmed = z] = Of5(t, z, f.refused, f.disturbed, f.answers)
             /\ [h EXCEPT !.refused = z] = Of5(t, f.confirmed, z, f.disturbed, f.answers)
             /\ [g EXCEPT !.disturbed = z] = Of5(f.todo, f.confirmed, f.refused, z, f.answers)
  <2>1. [h EXCEPT !.confirmed = z] = Of5(t, z, f.refused, f.disturbed, f.answers)  BY DEF Of5
  <2>2. [h EXCEPT !.refused = z] = Of5(t, f.confirmed, z, f.disturbed, f.answers)  BY DEF Of5
  <2>3. [g EXCEPT !.disturbed = z] = Of5(f.todo, f.confirmed, f.refused, z, f.answers)  BY DEF Of5
  <2> QED  BY <2>1, <2>2, <2>3
<1> HIDE DEF g, h
<1>4. /\ [f EXCEPT !.todo = t, !.confirmed = s]
           = [[f EXCEPT !.todo = t] EXCEPT !.confirmed = s]
      /\ [f EXCEPT !.todo = t, !.refused = TRUE] = [[f EXCEPT !.todo = t] EXCEPT !.refused = TRUE]
  <2>1. [f EXCEPT !.todo = t, !.confirmed = s]
          = [[f EXCEPT !.todo = t] EXCEPT !.confirmed = s]
    OBVIOUS
  <2>2. [f EXCEPT !.todo = t, !.refused = TRUE] = [[f EXCEPT !.todo = t] EXCEPT !.refused = TRUE]
    OBVIOUS
  <2> QED  BY <2>1, <2>2
<1>5. [f EXCEPT !.todo = t] = h  BY <1>1, <1>2
<1>6. /\ [f EXCEPT !.todo = t, !.confirmed = s]
           = Of5(t, s, f.refused, f.disturbed, f.answers)
      /\ [f EXCEPT !.todo = t, !.refused = TRUE]
           = Of5(t, f.confirmed, TRUE, f.disturbed, f.answers)
  BY <1>3, <1>4, <1>5
<1>7. [f EXCEPT !.disturbed = TRUE] = Of5(f.todo, f.confirmed, f.refused, TRUE, f.answers)
  BY <1>1, <1>3
<1> QED  BY <1>5, <1>6, <1>7 DEF h

LEMMA FieldsOf5 ==
  ASSUME NEW t, NEW c, NEW b, NEW d, NEW a
  PROVE  LET f == Of5(t, c, b, d, a)
         IN /\ IsFrame(f) /\ f.todo = t /\ f.confirmed = c /\ f.refused = b
            /\ f.disturbed = d /\ f.answers = a
BY DEF Of5, IsFrame

\* The first step done: what it showed is confirmed, and a PIN is known.
LEMMA RestHolds ==
  ASSUME NEW f, NEW r, NEW p, FrameHolds(f, r, p), f.todo # <<>>,
         Head(f.todo).op \notin {"Answer", "ClearSession"},
         NEW c, f.confirmed \cup ShownBy(Head(f.todo)) \subseteq c,
         NEW q, r.type \in KeyTypes /\ (p \/ Head(f.todo).op = "Pin") => q
  PROVE  FrameHolds(Of5(Tail(f.todo), c, f.refused, f.disturbed, f.answers), r, q)
<1> DEFINE t == f.todo
           u == Tail(t)
           g == Of5(u, c, f.refused, f.disturbed, f.answers)
<1>1. Fits(t, r) /\ Answers(f, r) /\ IsList(t) /\ t # <<>>  BY DEF FrameHolds, Fits
<1>2. /\ IsFrame(g) /\ g.todo = u /\ g.confirmed = c /\ g.refused = f.refused
      /\ g.answers = f.answers
  BY FieldsOf5
<1>3. Fits(u, r)  BY Zenon, <1>1, FitsTail
<1>4. /\ Ops(t) = {Head(t).op} \cup Ops(u) /\ Shown(t) = ShownBy(Head(t)) \cup Shown(u)
      /\ Serves(u) => Serves(t)
  BY <1>1, RestFacts
<1>5. Serves(t) => /\ ~f.refused /\ Needs(r) \subseteq f.confirmed \cup Shown(t)
                   /\ r.type \in KeyTypes => p \/ "Pin" \in Ops(t)
  BY DEF FrameHolds
<1>6. Answers(g, r)  BY <1>1, <1>2 DEF Answers
<1> HIDE DEF g, t, u
<1>7. ASSUME Serves(u)
      PROVE  ~g.refused /\ Needs(r) \subseteq g.confirmed \cup Shown(u)
             /\ (r.type \in KeyTypes => q \/ "Pin" \in Ops(u))
  <2>1. ~g.refused  BY <1>2, <1>4, <1>5, <1>7
  <2>2. Needs(r) \subseteq g.confirmed \cup Shown(u)  BY <1>2, <1>4, <1>5, <1>7 DEF t
  <2>3. r.type \in KeyTypes => q \/ "Pin" \in Ops(u)  BY <1>4, <1>5, <1>7 DEF t
  <2> QED  BY <2>1, <2>2, <2>3
<1> QED  BY <1>2, <1>3, <1>6, <1>7 DEF FrameHolds, g, t, u

\* The first step replaced by others.
LEMMA ReplacedHolds ==
  ASSUME NEW f, NEW r, NEW p, FrameHolds(f, r, p), f.todo # <<>>,
         Head(f.todo).op \notin {"Answer", "ClearSession", "Pin"},
         NEW s, Leading(s, r), ShownBy(Head(f.todo)) \subseteq Shown(s),
         NEW q, r.type \in KeyTypes /\ p => q
  PROVE  FrameHolds(Of5(s \o Tail(f.todo), f.confirmed, f.refused, f.disturbed, f.answers), r, q)
<1> DEFINE t == f.todo
           v == Tail(t)
           u == s \o v
           g == Of5(u, f.confirmed, f.refused, f.disturbed, f.answers)
<1>1. Fits(t, r) /\ Answers(f, r) /\ IsList(t) /\ t # <<>>  BY DEF FrameHolds, Fits
<1> HIDE DEF u
<1>2. /\ IsFrame(g) /\ g.todo = u /\ g.confirmed = f.confirmed /\ g.refused = f.refused
      /\ g.answers = f.answers
  BY FieldsOf5
<1>3. Fits(v, r)  BY Zenon, <1>1, FitsTail
<1>4. Fits(u, r)  BY Zenon, <1>3, BothFit DEF u
<1>5. IsList(s) /\ IsList(v) /\ ~Serves(s)  BY <1>3 DEF Leading, Fits, Serves, Ops, Ends
<1>6. /\ Ops(t) = {Head(t).op} \cup Ops(v) /\ Shown(t) = ShownBy(Head(t)) \cup Shown(v)
      /\ Serves(v) => Serves(t)
  BY <1>1, RestFacts
<1>7. /\ Ops(u) = Ops(s) \cup Ops(v) /\ Shown(u) = Shown(s) \cup Shown(v)
      /\ Serves(u) <=> Serves(s) \/ Serves(v)
  BY Zenon, <1>5, Both DEF u
<1>8. Serves(t) => /\ ~f.refused /\ Needs(r) \subseteq f.confirmed \cup Shown(t)
                   /\ r.type \in KeyTypes => p \/ "Pin" \in Ops(t)
  BY DEF FrameHolds
<1>9. Answers(g, r)  BY <1>1, <1>2 DEF Answers
<1> HIDE DEF g, t, u, v
<1>10. ASSUME Serves(u)
       PROVE  ~g.refused /\ Needs(r) \subseteq g.confirmed \cup Shown(u)
              /\ (r.type \in KeyTypes => q \/ "Pin" \in Ops(u))
  <2>1. ~g.refused  BY <1>2, <1>5, <1>6, <1>7, <1>8, <1>10
  <2>2. Needs(r) \subseteq g.confirmed \cup Shown(u)
    BY <1>2, <1>5, <1>6, <1>7, <1>8, <1>10 DEF t
  <2>3. r.type \in KeyTypes => q \/ "Pin" \in Ops(u)
    BY <1>5, <1>6, <1>7, <1>8, <1>10 DEF t
  <2> QED  BY <2>1, <2>2, <2>3
<1> QED  BY <1>2, <1>4, <1>9, <1>10 DEF FrameHolds, g, t, u, v

\* Only the failure left.
LEMMA FailureHolds ==
  ASSUME NEW f, NEW r, NEW p, FrameHolds(f, r, p), NEW x, x \in {Fail, FailOnly},
         NEW b, NEW q
  PROVE  /\ FrameHolds(Of5(<<x>>, f.confirmed, b, f.disturbed, f.answers), r, q)
         /\ \A n, d : KeyHolds(<<x>>, r, n, d)
<1> DEFINE t == <<x>>
           g == Of5(t, f.confirmed, b, f.disturbed, f.answers)
<1>1. Allowed(x, r) /\ x.op = "Failure"  BY AllowedEnds, StepFacts
<1>2. Fits(t, r) /\ ~Serves(t)  BY <1>1, One
<1> HIDE DEF t
<1>3. IsFrame(g) /\ g.todo = t /\ g.answers = f.answers  BY FieldsOf5
<1>4. Answers(g, r)  BY <1>3 DEF FrameHolds, Answers
<1> HIDE DEF g
<1>5. FrameHolds(g, r, q)  BY <1>2, <1>3, <1>4 DEF FrameHolds
<1>6. \A n, d : KeyHolds(t, r, n, d)  BY <1>2 DEF KeyHolds
<1> QED  BY <1>5, <1>6 DEF g, t

\* A step of the handler itself leaves the key where it is.
LEMMA KeyRest ==
  ASSUME NEW t, NEW r, NEW n, NEW d, KeyHolds(t, r, n, d), IsList(t), t # <<>>,
         Head(t).op \notin NodeOps
  PROVE  KeyHolds(Tail(t), r, n, d)
<1>1. Serves(Tail(t)) => Serves(t)  BY RestFacts
<1>2. ~Next1(t, "Root") /\ ~Next1(t, "Passphrase") /\ ~Next1(t, "Derive") /\ ~Next1(t, "Decrypt")
      /\ ~Next1(t, "WakingUp")
  BY DEF Next1, NodeOps
<1>3. OneNode(t) => OneNode(Tail(t))
  <2>1. Head(t).op # "Node"  BY DEF NodeOps
  <2> QED  BY Zenon, <2>1, OneNodeTail
<1>4. NoNode(t) => NoNode(Tail(t))
  <2>1. Ops(t) = {Head(t).op} \cup Ops(Tail(t))  BY RestFacts
  <2> QED  BY <2>1 DEF NoNode
<1> QED
  BY <1>1, <1>2, <1>3, <1>4 DEF KeyHolds, AtPassphrase, AtRoot, AtWakingUp, AtDecrypt, AtDerive

LEMMA TopHolds ==
  ASSUME FramesHold, frames # <<>>
  PROVE  /\ FrameHolds(Top, request, Pinned) /\ request \in Requests /\ IsFrame(Top)
         /\ IsList(Top.todo) /\ Fits(Top.todo, request)
         /\ Len(frames) \in DOMAIN frames
<1>1. IsList(frames) /\ \A i \in DOMAIN frames : FrameHolds(frames[i], request, Pinned)
  BY DEF FramesHold
<1>2. Len(frames) \in Nat /\ DOMAIN frames = 1 .. Len(frames) /\ Len(frames) # 0
  BY <1>1, ListFacts
<1>3. Len(frames) \in DOMAIN frames  BY <1>2
<1>4. FrameHolds(Top, request, Pinned)  BY <1>1, <1>3 DEF Top
<1>5. request \in Requests  BY DEF FramesHold
<1> QED  BY <1>3, <1>4, <1>5 DEF FrameHolds, Fits

\* Every handler stays as it was, whatever the PIN is then, if the PIN does not get lost.
LEMMA PinStays ==
  ASSUME NEW f, NEW r, NEW p, NEW q, FrameHolds(f, r, p), r.type \in KeyTypes /\ p => q
  PROVE  FrameHolds(f, r, q)
BY DEF FrameHolds

LEMMA TopChanges ==
  ASSUME FramesHold, frames # <<>>, NEW f, SetTop(f), request' = request,
         FrameHolds(f, request, Pinned'), request.type \in KeyTypes /\ Pinned => Pinned',
         f.disturbed = Top.disturbed, aborted' => f.todo = <<Fail>>, last' = last,
         ~f.disturbed => KeyHolds(f.todo, request, node', Decrypts')
  PROVE  FramesHold' /\ frames' # <<>>
<1> DEFINE n == Len(frames)
<1>1. /\ IsList(frames) /\ \A i \in DOMAIN frames : FrameHolds(frames[i], request, Pinned)
      /\ \A i \in DOMAIN frames : i < n => frames[i].disturbed
      /\ request \in Requests
  BY DEF FramesHold
<1>2. frames' = [frames EXCEPT ![n] = f]  BY DEF SetTop
<1>3. /\ IsList(frames') /\ Len(frames') = n /\ DOMAIN frames' = DOMAIN frames /\ frames' # <<>>
      /\ frames'[n] = f /\ \A i \in DOMAIN frames : i # n => frames'[i] = frames[i]
  BY <1>1, <1>2, TopSet
<1>4. n \in Nat /\ DOMAIN frames = 1 .. n  BY <1>1, ListFacts
<1>5. Top' = f  BY <1>3 DEF Top
<1> HIDE DEF n
<1>6. \A i \in DOMAIN frames' : FrameHolds(frames'[i], request', Pinned')
  BY <1>1, <1>3, PinStays
<1>7. \A i \in DOMAIN frames' : i < Len(frames') => frames'[i].disturbed
  BY <1>1, <1>3, <1>4
<1> QED
  BY <1>1, <1>3, <1>5, <1>6, <1>7 DEF FramesHold

LEMMA LastStays ==
  ASSUME LastHolds, last' = last
  PROVE  LastHolds'
<1>1. Answered' <=> Answered  BY DEF Answered
<1>2. \A answer : Did(answer)' <=> Did(answer)  BY DEF Did
<1>3. Served' <=> Served  BY <1>1, <1>2 DEF Served
<1>4. AnswerNeedsConsent'  BY <1>3 DEF LastHolds, AnswerNeedsConsent
<1>5. NemShowsWhatItSigns'  BY <1>1, <1>2 DEF LastHolds, NemShowsWhatItSigns
<1>6. KeyIsTheStored'  BY <1>3 DEF LastHolds, KeyIsTheStored
<1> QED  BY <1>1, <1>2, <1>4, <1>5, <1>6 DEF LastHolds

\* The kinds of steps: on to the rest, to the failure, to other steps.
Onward ==
  \E c : /\ Top.confirmed \cup ShownBy(step) \subseteq c
         /\ SetTop(Of5(Rest, c, Top.refused, Top.disturbed, Top.answers))
Failing ==
  \E x \in {Fail, FailOnly} : \E b :
    /\ aborted' => x = Fail
    /\ SetTop(Of5(<<x>>, Top.confirmed, b, Top.disturbed, Top.answers))
Replacing ==
  \E s : /\ Leading(s, request) /\ ShownBy(step) \subseteq Shown(s)
         /\ SetTop(Of5(s \o Rest, Top.confirmed, Top.refused, Top.disturbed, Top.answers))
         /\ ~Top.disturbed => KeyHolds(s \o Rest, request, node', Decrypts')

\* What the other variables do in a step.
Beside ==
  /\ StateHolds' /\ request' = request /\ last' = last
  /\ request.type \in KeyTypes /\ Pinned => Pinned'

LEMMA NotAborted ==
  ASSUME FramesHold, frames # <<>>, Top.todo # <<>>, step.op # "Failure"
  PROVE  ~aborted
<1>1. ASSUME aborted PROVE FALSE
  <2>1. Top.todo = <<Fail>>  BY <1>1 DEF FramesHold
  <2>2. step = Fail  BY <2>1 DEF step
  <2> QED  BY <2>2, StepFacts
<1> QED  BY <1>1

LEMMA StepOn ==
  ASSUME HandlersInv, frames # <<>>, Top.todo # <<>>, Onward, Beside, aborted' = aborted,
         step.op \notin {"Answer", "ClearSession", "Failure"},
         request.type \in KeyTypes /\ step.op = "Pin" => Pinned',
         ~Top.disturbed => KeyHolds(Rest, request, node', Decrypts')
  PROVE  HandlersInv'
<1>1. FramesHold /\ LastHolds  BY DEF HandlersInv
<1>2. FrameHolds(Top, request, Pinned)  BY <1>1, TopHolds
<1>3. ~aborted'  BY <1>1, NotAborted
<1>4. PICK c : /\ Top.confirmed \cup ShownBy(step) \subseteq c
               /\ SetTop(Of5(Rest, c, Top.refused, Top.disturbed, Top.answers))
  BY DEF Onward
<1>5. PICK f : f = Of5(Rest, c, Top.refused, Top.disturbed, Top.answers)  OBVIOUS
<1>6. f.todo = Rest /\ f.disturbed = Top.disturbed  BY <1>5, FieldsOf5
<1>7. FrameHolds(f, request, Pinned')
  <2>1. request.type \in KeyTypes /\ (Pinned \/ Head(Top.todo).op = "Pin") => Pinned'
    BY DEF Beside, step
  <2>2. /\ Top.confirmed \cup ShownBy(Head(Top.todo)) \subseteq c
        /\ Head(Top.todo).op \notin {"Answer", "ClearSession"}
    BY <1>4 DEF step
  <2>3. FrameHolds(Of5(Tail(Top.todo), c, Top.refused, Top.disturbed, Top.answers),
                   request, Pinned')
    BY Zenon, <1>2, <2>1, <2>2, RestHolds
  <2> QED  BY Zenon, <1>5, <2>3 DEF Rest
<1>8. FramesHold'  BY <1>1, <1>3, <1>4, <1>5, <1>6, <1>7, TopChanges DEF Beside
<1> QED  BY <1>1, <1>8, LastStays DEF HandlersInv, Beside

LEMMA StepFailing ==
  ASSUME HandlersInv, frames # <<>>, Failing, Beside
  PROVE  HandlersInv'
<1>1. FramesHold /\ LastHolds  BY DEF HandlersInv
<1>2. FrameHolds(Top, request, Pinned)  BY <1>1, TopHolds
<1>0. PICK x \in {Fail, FailOnly} :
        \E b : /\ aborted' => x = Fail
              /\ SetTop(Of5(<<x>>, Top.confirmed, b, Top.disturbed, Top.answers))
  BY Zenon DEF Failing
<1>3. PICK b :
        /\ aborted' => x = Fail
        /\ SetTop(Of5(<<x>>, Top.confirmed, b, Top.disturbed, Top.answers))
  BY Zenon, <1>0
<1>4. PICK t : t = <<x>>  OBVIOUS
<1>5. PICK f : f = Of5(t, Top.confirmed, b, Top.disturbed, Top.answers)  OBVIOUS
<1>6. f.todo = t /\ f.disturbed = Top.disturbed  BY <1>5, FieldsOf5
<1>7. FrameHolds(f, request, Pinned') /\ KeyHolds(t, request, node', Decrypts')
  BY <1>2, <1>4, <1>5, FailureHolds
<1>8. SetTop(f) /\ (aborted' => t = <<Fail>>)  BY <1>3, <1>4, <1>5
<1>9. FramesHold'  BY <1>1, <1>6, <1>7, <1>8, TopChanges DEF Beside
<1> QED  BY <1>1, <1>9, LastStays DEF HandlersInv, Beside

LEMMA StepReplaced ==
  ASSUME HandlersInv, frames # <<>>, Top.todo # <<>>, Replacing, Beside, aborted' = aborted,
         step.op \notin {"Answer", "ClearSession", "Failure", "Pin"}
  PROVE  HandlersInv'
<1>1. FramesHold /\ LastHolds  BY DEF HandlersInv
<1>2. FrameHolds(Top, request, Pinned)  BY <1>1, TopHolds
<1>3. ~aborted'  BY <1>1, NotAborted
<1>4. PICK s : /\ Leading(s, request) /\ ShownBy(step) \subseteq Shown(s)
               /\ SetTop(Of5(s \o Rest, Top.confirmed, Top.refused, Top.disturbed, Top.answers))
               /\ ~Top.disturbed => KeyHolds(s \o Rest, request, node', Decrypts')
  BY DEF Replacing
<1>5. PICK t : t = s \o Rest  OBVIOUS
<1>6. PICK f : f = Of5(t, Top.confirmed, Top.refused, Top.disturbed, Top.answers)  OBVIOUS
<1>7. f.todo = t /\ f.disturbed = Top.disturbed  BY <1>6, FieldsOf5
<1>8. FrameHolds(f, request, Pinned')
  <2>1. FrameHolds(Of5(s \o Tail(Top.todo), Top.confirmed, Top.refused, Top.disturbed, Top.answers),
                   request, Pinned')
    BY <1>2, <1>4, ReplacedHolds DEF Beside, step
  <2> QED  BY Zenon, <1>5, <1>6, <2>1 DEF Rest
<1>9. SetTop(f) /\ (~f.disturbed => KeyHolds(f.todo, request, node', Decrypts'))
  BY Zenon, <1>4, <1>5, <1>6, <1>7
<1>10. FramesHold'  BY <1>1, <1>3, <1>7, <1>8, <1>9, TopChanges DEF Beside
<1> QED  BY <1>1, <1>10, LastStays DEF HandlersInv, Beside

LEMMA NowFacts ==
  ASSUME HandlersInv, NEW op, Now(op)
  PROVE  /\ frames # <<>> /\ Top.todo # <<>> /\ step.op = op /\ StateHolds /\ FramesHold
         /\ IsFrame(Top) /\ IsList(Top.todo) /\ Allowed(step, request) /\ request \in Requests
         /\ op # "Failure" => ~aborted
         /\ op \notin {"Ask", "Address"} => ShownBy(step) = {}
<1>1. frames # <<>> /\ Top.todo # <<>> /\ step.op = op  BY DEF Now, step
<1>2. StateHolds /\ FramesHold  BY DEF HandlersInv
<1>3. IsFrame(Top) /\ IsList(Top.todo) /\ Fits(Top.todo, request) /\ request \in Requests
  BY <1>1, <1>2, TopHolds
<1>4. Allowed(step, request)  BY Zenon, <1>1, <1>3, FitsTail DEF step
<1>5. op # "Failure" => ~aborted  BY <1>1, <1>2, NotAborted
<1>6. op \notin {"Ask", "Address"} => ShownBy(step) = {}  BY <1>1 DEF ShownBy
<1> QED  BY <1>1, <1>2, <1>3, <1>4, <1>5, <1>6

LEMMA Moves ==
  ASSUME IsFrame(Top)
  PROVE  /\ Proceeds /\ ShownBy(step) = {} => Onward
         /\ \A shows : Agrees(shows) /\ ShownBy(step) \subseteq shows => Onward
         /\ Fails => Failing
         /\ Goes(<<FailOnly>>) /\ ~aborted' => Failing
         /\ Refuses => Failing
<1>1. ASSUME Proceeds, ShownBy(step) = {} PROVE Onward
  <2>1. [Top EXCEPT !.todo = Rest] = Of5(Rest, Top.confirmed, Top.refused, Top.disturbed, Top.answers)
    BY Updates
  <2>2. SetTop(Of5(Rest, Top.confirmed, Top.refused, Top.disturbed, Top.answers))
    BY Zenon, <1>1, <2>1 DEF Proceeds, Goes
  <2>3. PICK c : c = Top.confirmed  OBVIOUS
  <2>4. Top.confirmed \cup ShownBy(step) \subseteq c  BY <1>1, <2>3
  <2> QED  BY Zenon, <2>2, <2>3, <2>4 DEF Onward
<1>2. ASSUME NEW shows, Agrees(shows), ShownBy(step) \subseteq shows PROVE Onward
  <2>1. PICK c : c = Top.confirmed \cup shows  OBVIOUS
  <2>2. SetTop([Top EXCEPT !.todo = Rest, !.confirmed = c])  BY <1>2, <2>1 DEF Agrees
  <2>3. [Top EXCEPT !.todo = Rest, !.confirmed = c]
          = Of5(Rest, c, Top.refused, Top.disturbed, Top.answers)
    BY Updates
  <2>4. SetTop(Of5(Rest, c, Top.refused, Top.disturbed, Top.answers))  BY Zenon, <2>2, <2>3
  <2>5. Top.confirmed \cup ShownBy(step) \subseteq c  BY <1>2, <2>1
  <2> QED  BY Zenon, <2>4, <2>5 DEF Onward
<1>3. ASSUME NEW x \in {Fail, FailOnly}, Goes(<<x>>), aborted' => x = Fail PROVE Failing
  <2>1. [Top EXCEPT !.todo = <<x>>]
          = Of5(<<x>>, Top.confirmed, Top.refused, Top.disturbed, Top.answers)
    <3> DEFINE t == <<x>>
    <3> HIDE DEF t
    <3>1. [Top EXCEPT !.todo = t] = Of5(t, Top.confirmed, Top.refused, Top.disturbed, Top.answers)
      BY Updates
    <3> QED  BY <3>1 DEF t
  <2>2. SetTop(Of5(<<x>>, Top.confirmed, Top.refused, Top.disturbed, Top.answers))
    BY Zenon, <1>3, <2>1 DEF Goes
  <2>3. PICK b : b = Top.refused  OBVIOUS
  <2> QED  BY Zenon, <1>3, <2>2, <2>3 DEF Failing
<1>4. ASSUME Refuses PROVE Failing
  <2>1. [Top EXCEPT !.todo = <<Fail>>, !.refused = TRUE]
          = Of5(<<Fail>>, Top.confirmed, TRUE, Top.disturbed, Top.answers)
    BY Updates
  <2>2. SetTop(Of5(<<Fail>>, Top.confirmed, TRUE, Top.disturbed, Top.answers))
    BY Zenon, <1>4, <2>1 DEF Refuses
  <2>3. Fail \in {Fail, FailOnly}  OBVIOUS
  <2> QED  BY Zenon, <2>2, <2>3 DEF Failing
<1>5. Fails => Failing  BY <1>3 DEF Fails
<1>6. Goes(<<FailOnly>>) /\ ~aborted' => Failing  BY <1>3
<1> QED  BY <1>1, <1>2, <1>4, <1>5, <1>6

\* A step that does nothing to the key.
LEMMA OrdinaryStep ==
  ASSUME HandlersInv, frames # <<>>, Top.todo # <<>>, Onward, Beside, aborted' = aborted,
         step.op \notin NodeOps, step.op \notin {"Answer", "ClearSession", "Failure"},
         request.type \in KeyTypes /\ step.op = "Pin" => Pinned',
         request.type \in KeyedTypes => node' = node /\ Decrypts' = Decrypts
  PROVE  HandlersInv'
<1>1. FramesHold  BY DEF HandlersInv
<1>2. IsList(Top.todo)  BY <1>1, TopHolds
<1>3. ASSUME ~Top.disturbed PROVE KeyHolds(Rest, request, node', Decrypts')
  <2>1. CASE request.type \in KeyedTypes
    <3>1. KeyHolds(Top.todo, request, node, Decrypts)  BY <1>1, <1>3 DEF FramesHold
    <3>2. KeyHolds(Rest, request, node, Decrypts)  BY Zenon, <1>2, <3>1, KeyRest DEF Rest, step
    <3> QED  BY Zenon, <2>1, <3>2
  <2>2. CASE request.type \notin KeyedTypes  BY <2>2 DEF KeyHolds
  <2> QED  BY <2>1, <2>2
<1> QED  BY <1>3, StepOn

\* What happens beside steps that leave the device and the session.
LEMMA QuietFacts ==
  ASSUME StateHolds, device' = device, session' = session, request' = request, last' = last,
         aborted' \in BOOLEAN, node' \in [decrypted : Nat, derived : Nat]
  PROVE  Beside /\ Decrypts' = Decrypts /\ Pinned' = Pinned
<1>1. Pinned' = Pinned  BY DEF Pinned
<1>2. Decrypts' = Decrypts  BY DEF Decrypts
<1>3. StateHolds'  BY DEF StateHolds
<1> QED  BY <1>1, <1>2, <1>3 DEF Beside

LEMMA ChecksHold ==
  ASSUME HandlersInv,
         CheckParam \/ CHECK_INITIALIZED \/ CHECK_NOT_INITIALIZED \/ CHECK_NO_PIN
  PROVE  HandlersInv'
<1>1. PICK op \in {"Check", "Initialized", "NotInitialized", "NoPin"} :
        Now(op) /\ Quiet /\ (Proceeds \/ Fails \/ Goes(<<FailOnly>>))
  BY DEF CheckParam, CHECK_INITIALIZED, CHECK_NOT_INITIALIZED, CHECK_NO_PIN
<1>2. /\ frames # <<>> /\ Top.todo # <<>> /\ step.op = op /\ StateHolds /\ IsFrame(Top)
      /\ ~aborted /\ ShownBy(step) = {}
  BY <1>1, NowFacts
<1>3. Beside /\ Decrypts' = Decrypts /\ aborted' = aborted /\ node' = node
  BY <1>1, <1>2, QuietFacts DEF Quiet, StateHolds
<1>4. CASE Proceeds
  BY <1>1, <1>2, <1>3, <1>4, Moves, OrdinaryStep DEF NodeOps
<1>5. CASE Fails
  BY <1>1, <1>2, <1>3, <1>5, Moves, StepFailing
<1>6. CASE Goes(<<FailOnly>>)
  BY <1>1, <1>2, <1>3, <1>6, Moves, StepFailing
<1> QED  BY <1>1, <1>4, <1>5, <1>6

\* The PIN, known or asked for.
LEMMA PinsHold ==
  ASSUME HandlersInv, PinCached \/ PinAsked
  PROVE  HandlersInv'
<1>1. Now("Pin")  BY DEF PinCached, PinAsked
<1>2. /\ frames # <<>> /\ Top.todo # <<>> /\ step.op = "Pin" /\ StateHolds /\ IsFrame(Top)
      /\ ~aborted /\ ShownBy(step) = {}
  BY <1>1, NowFacts
<1>3. ASSUME session' = [session EXCEPT !.pin = TRUE], Proceeds,
             UNCHANGED <<device, aborted, request, node, last>>
      PROVE  HandlersInv'
  <2>1. session'.pin = TRUE /\ session'.passphrase = session.passphrase
        /\ session' \in [pin : BOOLEAN, passphrase : {"none", "empty", "text"}, seed : BOOLEAN]
    BY <1>2, <1>3 DEF StateHolds
  <2>2. Pinned'  BY <2>1 DEF Pinned
  <2>3. Decrypts' = Decrypts  BY <1>3, <2>1 DEF Decrypts
  <2>4. Beside  BY <1>2, <1>3, <2>1, <2>2 DEF Beside, StateHolds
  <2>5. Onward  BY <1>2, <1>3, Moves
  <2> QED  BY <1>2, <1>3, <2>2, <2>3, <2>4, <2>5, OrdinaryStep DEF NodeOps
<1>4. ASSUME Refuses, aborted' \in BOOLEAN, UNCHANGED <<device, session, request, node, last>>
      PROVE  HandlersInv'
  <2>1. Beside  BY <1>2, <1>4, QuietFacts DEF StateHolds
  <2>2. Failing  BY <1>2, <1>4, Moves
  <2> QED  BY <1>2, <2>1, <2>2, StepFailing
<1>5. CASE PinCached
  BY <1>3, <1>5 DEF PinCached
<1>6. CASE PinAsked
  <2>1. aborted \in BOOLEAN /\ UNCHANGED <<device, request, node, last>>
    BY <1>2, <1>6 DEF StateHolds, PinAsked, Shows
  <2>2. \/ session' = [session EXCEPT !.pin = TRUE] /\ Proceeds /\ aborted' = aborted
        \/ session' = session /\ aborted' \in BOOLEAN /\ Refuses
    BY <1>6, <2>1 DEF PinAsked, Abort
  <2> QED  BY <1>3, <1>4, <2>1, <2>2
<1> QED  BY <1>5, <1>6

LEMMA KeyReplaced ==
  ASSUME NEW t, NEW r, NEW n, NEW d, KeyHolds(t, r, n, d), IsList(t), t # <<>>,
         Head(t).op \notin NodeOps, NEW s, IsList(s), NoNode(s), ~Serves(s)
  PROVE  KeyHolds(s \o Tail(t), r, n, d)
<1> DEFINE v == Tail(t)
           u == s \o v
<1>1. IsList(v) /\ (Serves(v) => Serves(t)) /\ Ops(t) = {Head(t).op} \cup Ops(v)
  BY RestFacts
<1> HIDE DEF v
<1>2. /\ Ops(u) = Ops(s) \cup Ops(v)
      /\ Serves(u) <=> Serves(s) \/ Serves(v)
  BY Zenon, <1>1, Both
<1>3. OneNode(v) => OneNode(u)  BY Zenon, <1>1, NodeLater
<1> HIDE DEF u
<1>4. ~Next1(t, "Root") /\ ~Next1(t, "Passphrase") /\ ~Next1(t, "Derive") /\ ~Next1(t, "Decrypt")
      /\ ~Next1(t, "WakingUp")
  BY DEF Next1, NodeOps
<1>5. OneNode(t) => OneNode(u)
  <2>1. Head(t).op # "Node"  BY DEF NodeOps
  <2>2. OneNode(t) => OneNode(Tail(t))  BY Zenon, <2>1, OneNodeTail
  <2> QED  BY <1>3, <2>2 DEF v
<1>6. NoNode(t) => NoNode(u)  BY <1>1, <1>2 DEF NoNode
<1>7. KeyHolds(u, r, n, d)
  BY <1>1, <1>2, <1>4, <1>5, <1>6
     DEF KeyHolds, AtPassphrase, AtRoot, AtWakingUp, AtDecrypt, AtDerive
<1> QED  BY <1>7 DEF u, v

\* A dialog: agreed to, refused or aborted.
LEMMA DialogsHold ==
  ASSUME HandlersInv, protectButton \/ fsm_layoutAddress
  PROVE  HandlersInv'
<1>1. PICK op \in {"Ask", "Address"} : Now(op) /\ Shows /\ UNCHANGED session
  BY DEF protectButton, fsm_layoutAddress
<1>2. /\ frames # <<>> /\ Top.todo # <<>> /\ step.op = op /\ StateHolds /\ IsFrame(Top)
      /\ FramesHold /\ ~aborted
  BY <1>1, NowFacts
<1>3. /\ device' = device /\ session' = session /\ request' = request /\ node' = node
      /\ last' = last
  BY <1>1 DEF Shows
<1>4. ASSUME Refuses, aborted' \in BOOLEAN PROVE HandlersInv'
  <2>1. Beside  BY <1>2, <1>3, <1>4, QuietFacts DEF StateHolds
  <2>2. Failing  BY <1>2, <1>4, Moves
  <2> QED  BY <1>2, <2>1, <2>2, StepFailing
<1>5. ASSUME aborted' = aborted
      PROVE  Beside /\ Decrypts' = Decrypts
  BY <1>2, <1>3, <1>5, QuietFacts DEF StateHolds
<1>6. ASSUME NEW shows, Agrees(shows), ShownBy(step) \subseteq shows, aborted' = aborted
      PROVE  HandlersInv'
  <2>1. Onward  BY <1>2, <1>6, Moves
  <2> QED  BY <1>2, <1>3, <1>5, <1>6, <2>1, OrdinaryStep DEF NodeOps
<1>7. CASE op = "Ask"
  <2>1. protectButton
    BY <1>1, <1>2, <1>7 DEF fsm_layoutAddress, Now, step
  <2>2. ShownBy(step) = step.shows  BY <1>2, <1>7 DEF ShownBy
  <2>3. PICK shows : shows = step.shows  OBVIOUS
  <2>4. \/ Agrees(step.shows) /\ aborted' = aborted
        \/ Refuses /\ aborted' \in BOOLEAN
    <3>1. aborted \in BOOLEAN  BY <1>2 DEF StateHolds
    <3> QED  BY <2>1, <3>1 DEF protectButton, Abort
  <2>5. \/ Agrees(shows) /\ aborted' = aborted
        \/ Refuses /\ aborted' \in BOOLEAN
    BY Zenon, <2>3, <2>4
  <2>6. ShownBy(step) \subseteq shows  BY <2>2, <2>3
  <2> QED  BY <1>4, <1>6, <2>5, <2>6
<1>8. CASE op = "Address"
  <2>1. fsm_layoutAddress
    BY <1>1, <1>2, <1>8 DEF protectButton, Now, step
  <2>2. ShownBy(step) = Parts({"address"})  BY <1>2, <1>8 DEF ShownBy
  <2>3. CASE Agrees(Parts({"address"})) /\ aborted' = aborted
    BY <1>6, <2>2, <2>3
  <2>4. CASE frames' = frames /\ aborted' = aborted
    <3>1. Top' = Top  BY <2>4 DEF Top
    <3>2. Beside /\ Decrypts' = Decrypts /\ Pinned' = Pinned
      BY <1>2, <1>3, <2>4, QuietFacts DEF StateHolds
    <3>3. FramesHold'
      BY <1>2, <1>3, <2>4, <3>1, <3>2 DEF FramesHold
    <3> QED  BY <1>3, <3>2, <3>3, LastStays DEF HandlersInv, Beside
  <2>5. CASE Goes(<<Address(~step.qrcode)>> \o Rest) /\ aborted' = aborted
    <3>1. PICK x : x = Address(~step.qrcode)  OBVIOUS
    <3>2. x.op = "Address" /\ ShownBy(x) = Parts({"address"})  BY <3>1 DEF Address, ShownBy
    <3>3. PICK s : s = <<x>>  OBVIOUS
    <3>4. IsList(s) /\ Ops(s) = {"Address"} /\ Shown(s) = Parts({"address"})  BY <3>2, <3>3, One
    <3>5. Leading(s, request)  BY <3>4, Ordinary DEF Special, Ends
    <3>6. NoNode(s) /\ ~Serves(s)  BY <3>4 DEF NoNode, NodeOps, Serves, Ops
    <3>7. PICK t : t = s \o Rest  OBVIOUS
    <3>8. Goes(t)
      <4>1. Goes(<<x>> \o Rest)  BY Zenon, <2>5, <3>1
      <4> QED  BY Zenon, <3>3, <3>7, <4>1
    <3>9. [Top EXCEPT !.todo = t]
            = Of5(t, Top.confirmed, Top.refused, Top.disturbed, Top.answers)
      BY <1>2, Updates
    <3>10. SetTop(Of5(t, Top.confirmed, Top.refused, Top.disturbed, Top.answers))
      BY Zenon, <3>8, <3>9 DEF Goes
    <3>11. Beside /\ Decrypts' = Decrypts  BY <1>5, <2>5
    <3>12. ASSUME ~Top.disturbed PROVE KeyHolds(t, request, node', Decrypts')
      <4>1. KeyHolds(Top.todo, request, node, Decrypts)  BY <1>2, <3>12 DEF FramesHold
      <4>2. IsList(Top.todo) /\ Head(Top.todo).op \notin NodeOps
        BY <1>2, <1>8, TopHolds DEF step, NodeOps
      <4>3. KeyHolds(s \o Tail(Top.todo), request, node, Decrypts)
        BY Zenon, <1>2, <3>4, <3>6, <4>1, <4>2, KeyReplaced
      <4> QED  BY Zenon, <1>3, <3>7, <3>11, <4>3 DEF Rest
    <3>13. Replacing
      <4>1. ShownBy(step) \subseteq Shown(s)  BY <2>2, <3>4
      <4> QED  BY Zenon, <3>5, <3>7, <3>10, <3>12, <4>1 DEF Replacing
    <3> QED  BY <1>2, <1>8, <2>5, <3>11, <3>13, StepReplaced
  <2> QED
    BY <1>2, <1>4, <2>1, <2>3, <2>4, <2>5 DEF fsm_layoutAddress, Abort
<1> QED  BY <1>1, <1>7, <1>8

LEMMA Regroup ==
  ASSUME NEW a, NEW b, NEW c, IsList(a), IsList(b), IsList(c),
         NEW s, s = a \o b, NEW u, u = b \o c
  PROVE  s \o c = a \o u
<1> DEFINE S == Range(a) \cup Range(b) \cup Range(c)
<1>1. a \in Seq(Range(a)) /\ b \in Seq(Range(b)) /\ c \in Seq(Range(c))  BY DEF IsList
<1>2. Range(a) \subseteq S /\ Range(b) \subseteq S /\ Range(c) \subseteq S  OBVIOUS
<1> HIDE DEF S
<1>3. a \in Seq(S) /\ b \in Seq(S) /\ c \in Seq(S)  BY <1>1, <1>2, SeqMonotonic
<1>4. (a \o b) \o c = a \o (b \o c)  BY ONLY <1>3, ConcatAssociative
<1> QED  BY Zenon, <1>4

\* What is known of the key at each step that makes it.
LEMMA KeyAt ==
  ASSUME NEW t, NEW r, NEW n, NEW d, KeyHolds(t, r, n, d), IsList(t), t # <<>>,
         r.type \in KeyedTypes, Serves(t)
  PROVE  /\ Head(t).op = "Node" => NoNode(Tail(t))
         /\ Head(t).op = "Passphrase" => AtRoot(Tail(t))
         /\ Head(t).op = "Root" => NoNode(Tail(t))
         /\ Head(t).op = "WakingUp" => AtDecrypt(Tail(t)) /\ d /\ n = Plain
         /\ Head(t).op = "Decrypt" => AtDerive(Tail(t)) /\ d /\ n = Plain
         /\ Head(t).op = "Derive" => /\ NoNode(Tail(t))
                                     /\ n = [decrypted |-> Once(d), derived |-> 0]
<1> DEFINE op == Head(t).op
<1>1. OneNode(t) => /\ op = "Node" => NoNode(Tail(t))
                    /\ op # "Node" => op \notin NodeOps
  BY Zenon, OneNodeTail
<1>2. NoNode(t) => op \notin NodeOps
  <2>1. op \in Ops(t)  BY RestFacts
  <2> HIDE DEF op
  <2> QED  BY <2>1 DEF NoNode
<1> HIDE DEF op
<1>3. /\ Next1(t, "Root") => op = "Root"
      /\ Next1(t, "Passphrase") => op = "Passphrase"
      /\ Next1(t, "Derive") => op = "Derive"
      /\ Next1(t, "Decrypt") => op = "Decrypt"
      /\ Next1(t, "WakingUp") => op = "WakingUp"
  BY DEF Next1, op
<1>4. CASE op \notin NodeOps  BY <1>4 DEF op, NodeOps
<1>5. CASE op \in NodeOps
  <2>1. ~NoNode(t)  BY <1>2, <1>5
  <2>2. OneNode(t) => op = "Node" /\ NoNode(Tail(t))  BY <1>1, <1>5
  <2>3. \/ OneNode(t) \/ AtPassphrase(t) \/ AtRoot(t)
        \/ AtWakingUp(t) /\ d /\ n = Plain
        \/ AtDecrypt(t) /\ d /\ n = Plain
        \/ AtDerive(t) /\ n = [decrypted |-> Once(d), derived |-> 0]
    BY <2>1 DEF KeyHolds
  <2>4. op = "Node" => OneNode(t)
    BY <1>3, <2>3 DEF AtPassphrase, AtRoot, AtWakingUp, AtDecrypt, AtDerive
  <2>5. op = "Passphrase" => AtRoot(Tail(t))
    BY <1>3, <2>2, <2>3 DEF AtPassphrase, AtRoot, AtWakingUp, AtDecrypt, AtDerive
  <2>6. op = "Root" => NoNode(Tail(t))
    BY <1>3, <2>2, <2>3 DEF AtPassphrase, AtRoot, AtWakingUp, AtDecrypt, AtDerive
  <2>7. op = "WakingUp" => AtDecrypt(Tail(t)) /\ d /\ n = Plain
    BY <1>3, <2>2, <2>3 DEF AtPassphrase, AtRoot, AtWakingUp, AtDecrypt, AtDerive
  <2>8. op = "Decrypt" => AtDerive(Tail(t)) /\ d /\ n = Plain
    BY <1>3, <2>2, <2>3 DEF AtPassphrase, AtRoot, AtWakingUp, AtDecrypt, AtDerive
  <2>9. op = "Derive" => NoNode(Tail(t)) /\ n = [decrypted |-> Once(d), derived |-> 0]
    BY <1>3, <2>2, <2>3 DEF AtPassphrase, AtRoot, AtWakingUp, AtDecrypt, AtDerive
  <2> QED  BY <2>2, <2>4, <2>5, <2>6, <2>7, <2>8, <2>9 DEF op
<1> QED  BY <1>4, <1>5

\* What the key may be for what follows, from what it is.
LEMMA KeyLater ==
  ASSUME NEW t, IsList(t), t # <<>>, NEW r, NEW n, NEW d, NEW m, NEW e,
         KeyHolds(t, r, n, d),
         \/ Head(t).op = "Passphrase"
         \/ Head(t).op = "WakingUp" /\ m = n /\ e = d
         \/ Head(t).op = "Decrypt" /\ e = d /\ (n = Plain => m = [decrypted |-> 1, derived |-> 0])
         \/ /\ Head(t).op = "Derive" /\ e = d
            /\ n = [decrypted |-> Once(d), derived |-> 0]
                 => m = [decrypted |-> Once(d), derived |-> 1]
  PROVE  KeyHolds(Tail(t), r, m, e)
<1> SUFFICES ASSUME r.type \in KeyedTypes, Serves(Tail(t)) PROVE KeyHolds(Tail(t), r, m, e)
  BY DEF KeyHolds
<1>1. Serves(t)  BY RestFacts
<1>2. /\ Head(t).op = "Passphrase" => AtRoot(Tail(t))
      /\ Head(t).op = "WakingUp" => AtDecrypt(Tail(t)) /\ d /\ n = Plain
      /\ Head(t).op = "Decrypt" => AtDerive(Tail(t)) /\ d /\ n = Plain
      /\ Head(t).op = "Derive" => NoNode(Tail(t)) /\ n = [decrypted |-> Once(d), derived |-> 0]
  BY <1>1, KeyAt
<1>3. CASE Head(t).op = "Passphrase"  BY <1>2, <1>3 DEF KeyHolds
<1>4. CASE Head(t).op = "WakingUp" /\ m = n /\ e = d  BY <1>2, <1>4 DEF KeyHolds
<1>5. CASE Head(t).op = "Decrypt" /\ e = d /\ (n = Plain => m = [decrypted |-> 1, derived |-> 0])
  <2>1. Once(e) = 1  BY <1>2, <1>5 DEF Once
  <2> QED  BY <1>2, <1>5, <2>1 DEF KeyHolds
<1>6. CASE /\ Head(t).op = "Derive" /\ e = d
           /\ n = [decrypted |-> Once(d), derived |-> 0]
                => m = [decrypted |-> Once(d), derived |-> 1]
  <2>1. NoNode(Tail(t)) /\ m = [decrypted |-> Once(e), derived |-> 1]  BY <1>2, <1>6
  <2> QED  BY <2>1 DEF KeyHolds
<1> QED  BY <1>3, <1>4, <1>5, <1>6

\* A step that brings the key on.
LEMMA KeyStep ==
  ASSUME HandlersInv, frames # <<>>, Top.todo # <<>>, Onward, Beside, aborted' = aborted,
         \/ step.op = "Passphrase"
         \/ step.op = "WakingUp" /\ node' = node /\ Decrypts' = Decrypts
         \/ /\ step.op = "Decrypt" /\ Decrypts' = Decrypts
            /\ node = Plain => node' = [decrypted |-> 1, derived |-> 0]
         \/ /\ step.op = "Derive" /\ Decrypts' = Decrypts
            /\ node = [decrypted |-> Once(Decrypts), derived |-> 0]
                 => node' = [decrypted |-> Once(Decrypts), derived |-> 1]
  PROVE  HandlersInv'
<1>1. FramesHold /\ IsList(Top.todo)  BY TopHolds DEF HandlersInv
<1>2. ASSUME ~Top.disturbed PROVE KeyHolds(Rest, request, node', Decrypts')
  <2>1. KeyHolds(Top.todo, request, node, Decrypts)  BY <1>1, <1>2 DEF FramesHold
  <2>2. PICK t, d, e : t = Top.todo /\ d = Decrypts /\ e = Decrypts'  OBVIOUS
  <2>3. PICK n, m : n = node /\ m = node'  OBVIOUS
  <2>4. \/ Head(t).op = "Passphrase"
        \/ Head(t).op = "WakingUp" /\ m = n /\ e = d
        \/ Head(t).op = "Decrypt" /\ e = d /\ (n = Plain => m = [decrypted |-> 1, derived |-> 0])
        \/ /\ Head(t).op = "Derive" /\ e = d
           /\ n = [decrypted |-> Once(d), derived |-> 0]
                => m = [decrypted |-> Once(d), derived |-> 1]
    BY Zenon, <2>2, <2>3 DEF step
  <2>5. KeyHolds(t, request, n, d) /\ IsList(t) /\ t # <<>>  BY Zenon, <1>1, <2>1, <2>2, <2>3
  <2>6. KeyHolds(Tail(t), request, m, e)  BY Zenon, <2>4, <2>5, KeyLater
  <2> QED  BY Zenon, <2>2, <2>3, <2>6 DEF Rest
<1>3. step.op \notin {"Answer", "ClearSession", "Failure", "Pin"}  OBVIOUS
<1> QED  BY <1>2, <1>3, StepOn

\* The passphrase, known or asked for.
LEMMA PassphraseHolds ==
  ASSUME HandlersInv, protectPassphrase
  PROVE  HandlersInv'
<1>1. Now("Passphrase")  BY DEF protectPassphrase
<1>2. /\ frames # <<>> /\ Top.todo # <<>> /\ step.op = "Passphrase" /\ StateHolds /\ IsFrame(Top)
      /\ ~aborted /\ ShownBy(step) = {}
  BY <1>1, NowFacts
<1>3. \/ Proceeds /\ Quiet
      \/ /\ Proceeds /\ UNCHANGED <<device, request, node, last, aborted>>
         /\ \E p \in {"empty", "text"} : session' = [session EXCEPT !.passphrase = p]
      \/ Refuses /\ UNCHANGED <<device, request, node, last, session>> /\ aborted' \in BOOLEAN
  <2>1. aborted \in BOOLEAN  BY <1>2 DEF StateHolds
  <2> QED  BY <2>1 DEF protectPassphrase, Abort
<1>4. ASSUME Proceeds, Beside, aborted' = aborted PROVE HandlersInv'
  <2>1. Onward  BY <1>2, <1>4, Moves
  <2> QED  BY <1>2, <1>4, <2>1, KeyStep
<1>5. CASE Proceeds /\ Quiet
  <2>1. Beside /\ aborted' = aborted  BY <1>2, <1>5, QuietFacts DEF Quiet, StateHolds
  <2> QED  BY <1>4, <1>5, <2>1
<1>6. CASE /\ Proceeds /\ UNCHANGED <<device, request, node, last, aborted>>
           /\ \E p \in {"empty", "text"} : session' = [session EXCEPT !.passphrase = p]
  <2>1. /\ session' \in [pin : BOOLEAN, passphrase : {"none", "empty", "text"}, seed : BOOLEAN]
        /\ session'.pin = session.pin
    BY <1>2, <1>6 DEF StateHolds
  <2>2. Pinned' = Pinned  BY <1>6, <2>1 DEF Pinned
  <2>3. Beside  BY <1>2, <1>6, <2>1, <2>2 DEF Beside, StateHolds
  <2> QED  BY <1>4, <1>6, <2>3
<1>7. CASE Refuses /\ UNCHANGED <<device, request, node, last, session>> /\ aborted' \in BOOLEAN
  <2>1. Beside  BY <1>2, <1>7, QuietFacts DEF StateHolds
  <2>2. Failing  BY <1>2, <1>7, Moves
  <2> QED  BY <1>2, <2>1, <2>2, StepFailing
<1> QED  BY <1>3, <1>5, <1>6, <1>7

\* Waking up, and the decryption and the derivation of the static node.
LEMMA NodeStepsHold ==
  ASSUME HandlersInv, get_root_node_callback \/ Decrypt \/ fsm_getDerivedNode
  PROVE  HandlersInv'
<1> SUFFICES ASSUME get_root_node_callback \/ Decrypt \/ (fsm_getDerivedNode /\ node' # node)
             PROVE  HandlersInv'
  <2> SUFFICES ASSUME fsm_getDerivedNode, node' = node PROVE HandlersInv'
    OBVIOUS
  <2>1. /\ Now("Derive") /\ UNCHANGED <<device, session, aborted, request, last>>
        /\ Fails \/ (node' = [node EXCEPT !.derived = @ + 1] /\ Proceeds)
    BY DEF fsm_getDerivedNode
  <2>2. frames # <<>> /\ StateHolds /\ IsFrame(Top)  BY <2>1, NowFacts
  <2>3. node \in [decrypted : Nat, derived : Nat] /\ aborted \in BOOLEAN  BY <2>2 DEF StateHolds
  <2>4. node' # [node EXCEPT !.derived = @ + 1]
    <3>1. node.derived \in Nat /\ [node EXCEPT !.derived = @ + 1].derived = node.derived + 1
      BY <2>3
    <3>2. node.derived + 1 # node.derived  BY <3>1
    <3> QED  BY <3>1, <3>2
  <2>5. Fails  BY Zenon, <2>1, <2>4
  <2>6. Beside  BY <2>1, <2>2, <2>3, QuietFacts
  <2>7. Failing  BY <2>2, <2>5, Moves
  <2> QED  BY <2>2, <2>6, <2>7, StepFailing
<1>1. PICK op \in {"WakingUp", "Decrypt", "Derive"} :
        /\ Now(op) /\ Proceeds /\ UNCHANGED <<device, session, aborted, request, last>>
        /\ op = "WakingUp" => node' = node
        /\ op = "Decrypt" => node' = [node EXCEPT !.decrypted = @ + 1]
        /\ op = "Derive" => node' = [node EXCEPT !.derived = @ + 1]
  BY DEF get_root_node_callback, Decrypt, fsm_getDerivedNode
<1>2. /\ frames # <<>> /\ Top.todo # <<>> /\ step.op = op /\ StateHolds /\ IsFrame(Top)
      /\ ~aborted /\ ShownBy(step) = {}
  BY <1>1, NowFacts
<1>3. node \in [decrypted : Nat, derived : Nat]  BY <1>2 DEF StateHolds
<1>4. node' \in [decrypted : Nat, derived : Nat]
  <2>1. CASE op = "WakingUp"  BY <1>1, <1>3, <2>1
  <2>2. CASE op = "Decrypt"  BY <1>1, <1>3, <2>2
  <2>3. CASE op = "Derive"  BY <1>1, <1>3, <2>3
  <2> QED  BY <2>1, <2>2, <2>3
<1>5. op = "Decrypt" /\ node = Plain => node' = [decrypted |-> 1, derived |-> 0]
  BY <1>1 DEF Plain
<1>6. ASSUME op = "Derive", NEW d, d = Once(Decrypts), node = [decrypted |-> d, derived |-> 0]
      PROVE  node' = [decrypted |-> d, derived |-> 1]
  BY <1>1, <1>6
<1>7. Beside /\ Decrypts' = Decrypts /\ aborted' = aborted
  BY <1>1, <1>2, <1>4, QuietFacts DEF StateHolds
<1>8. Onward  BY <1>1, <1>2, Moves
<1>9. \/ step.op = "WakingUp" /\ node' = node /\ Decrypts' = Decrypts
      \/ /\ step.op = "Decrypt" /\ Decrypts' = Decrypts
         /\ node = Plain => node' = [decrypted |-> 1, derived |-> 0]
      \/ /\ step.op = "Derive" /\ Decrypts' = Decrypts
         /\ node = [decrypted |-> Once(Decrypts), derived |-> 0]
              => node' = [decrypted |-> Once(Decrypts), derived |-> 1]
  <2>1. PICK d : d = Once(Decrypts)  OBVIOUS
  <2>2. op = "Derive" /\ node = [decrypted |-> d, derived |-> 0]
          => node' = [decrypted |-> d, derived |-> 1]
    BY <1>6, <2>1
  <2> QED  BY <1>1, <1>2, <1>5, <1>7, <2>1, <2>2
<1> QED  BY <1>2, <1>7, <1>8, <1>9, KeyStep

\* The steps to the key, put before the rest.
LEMMA StepsTo ==
  ASSUME HandlersInv, frames # <<>>, Top.todo # <<>>, Beside, aborted' = aborted,
         step.op \in {"Node", "Root"}, NEW s, IsList(s), Ops(s) \subseteq NodeOps,
         NEW t, t = s \o Rest, Goes(t),
         ~Top.disturbed => KeyHolds(t, request, node', Decrypts')
  PROVE  HandlersInv'
<1>1. FramesHold /\ IsFrame(Top) /\ IsList(Top.todo)  BY TopHolds DEF HandlersInv
<1>2. Leading(s, request)  BY Ordinary DEF NodeOps, Special, Ends
<1>3. [Top EXCEPT !.todo = t]
        = Of5(t, Top.confirmed, Top.refused, Top.disturbed, Top.answers)
  BY <1>1, Updates
<1>4. SetTop(Of5(t, Top.confirmed, Top.refused, Top.disturbed, Top.answers))
  BY Zenon, <1>3 DEF Goes
<1>5. ShownBy(step) \subseteq Shown(s)  BY DEF ShownBy
<1>6. Replacing  BY Zenon, <1>2, <1>4, <1>5 DEF Replacing
<1>7. step.op \notin {"Answer", "ClearSession", "Failure", "Pin"}  OBVIOUS
<1> QED  BY <1>6, <1>7, StepReplaced

LEMMA PutBefore ==
  ASSUME NEW x, NEW v, IsList(v), NEW op, x.op = op, op \notin {"Answer", "ClearSession"}
  PROVE  /\ IsList(<<x>> \o v) /\ Next1(<<x>> \o v, op) /\ Tail(<<x>> \o v) = v
         /\ Serves(<<x>> \o v) => Serves(v)
<1>1. PICK u : u = <<x>> \o v  OBVIOUS
<1>2. IsList(u) /\ u # <<>> /\ Head(u) = x /\ Tail(u) = v  BY Zenon, <1>1, ConsFacts
<1>3. Next1(u, op)  BY <1>2 DEF Next1
<1>4. Serves(u) => Serves(v)  BY <1>2, RestFacts
<1> QED  BY Zenon, <1>1, <1>2, <1>3, <1>4

\* storage_getRootNode puts the steps to the root before the rest.
LEMMA GetRootHolds ==
  ASSUME HandlersInv, storage_getRootNode
  PROVE  HandlersInv'
<1>1. Now("Node") /\ Quiet  BY DEF storage_getRootNode
<1>2. /\ frames # <<>> /\ Top.todo # <<>> /\ step.op = "Node" /\ StateHolds /\ IsFrame(Top)
      /\ FramesHold /\ IsList(Top.todo) /\ ~aborted /\ ShownBy(step) = {}
  BY <1>1, NowFacts
<1>3. Beside /\ Decrypts' = Decrypts /\ aborted' = aborted /\ node' = node
  BY <1>1, <1>2, QuietFacts DEF Quiet, StateHolds
<1>4. CASE Fails
  BY <1>1, <1>2, <1>3, <1>4, Moves, StepFailing
<1>5. PICK root, pass : root = Step("Root") /\ pass = Passphrase  OBVIOUS
<1>6. root.op = "Root" /\ pass.op = "Passphrase"  BY <1>5 DEF Passphrase, Step
<1>7. PICK one, two : one = <<root>> /\ two = <<pass>>  OBVIOUS
<1>8. IsList(one) /\ Ops(one) = {"Root"} /\ IsList(two) /\ Ops(two) = {"Passphrase"}
  BY <1>6, <1>7, One
<1>9. IsList(Rest)  BY <1>2, RestFacts DEF Rest
<1>10. PICK v, t, u : v = Rest /\ t = one \o v /\ u = two \o t  OBVIOUS
<1>11. "Root" \notin {"Answer", "ClearSession"} /\ "Passphrase" \notin {"Answer", "ClearSession"}
  OBVIOUS
<1>12. /\ IsList(t) /\ Next1(t, "Root") /\ Tail(t) = v
       /\ Serves(t) => Serves(v)
  BY Zenon, <1>6, <1>7, <1>9, <1>10, PutBefore, <1>11
<1>13. /\ IsList(u) /\ Next1(u, "Passphrase") /\ Tail(u) = t
       /\ Serves(u) => Serves(t)
  BY Zenon, <1>6, <1>7, <1>10, <1>12, <1>11, PutBefore
<1>14. ASSUME ~Top.disturbed, request.type \in KeyedTypes, Serves(v)
       PROVE  AtRoot(t) /\ AtPassphrase(u)
  <2>1. KeyHolds(Top.todo, request, node, Decrypts)  BY <1>2, <1>14 DEF FramesHold
  <2>2. Serves(Top.todo)  BY <1>2, <1>10, <1>14, RestFacts DEF Rest
  <2>3. Head(Top.todo).op = "Node"  BY <1>2 DEF step
  <2>4. NoNode(v)  BY Zenon, <1>2, <1>10, <1>14, <2>1, <2>2, <2>3, KeyAt DEF Rest
  <2> QED  BY <1>12, <1>13, <2>4 DEF AtRoot, AtPassphrase
<1>15. ~Top.disturbed =>
         /\ KeyHolds(t, request, node', Decrypts')
         /\ KeyHolds(u, request, node', Decrypts')
  BY Zenon, <1>12, <1>13, <1>14 DEF KeyHolds
<1>16. /\ step.op \in {"Node", "Root"}
       /\ Ops(one) \subseteq NodeOps
  BY <1>2, <1>8 DEF NodeOps
<1>17. ASSUME Goes(t) PROVE HandlersInv'
  BY Zenon, <1>2, <1>3, <1>8, <1>10, <1>15, <1>17, StepsTo, <1>16
<1>18. ASSUME Goes(u) PROVE HandlersInv'
  <2>1. PICK s : s = two \o one  OBVIOUS
  <2>2. IsList(s) /\ Ops(s) = Ops(two) \cup Ops(one)  BY Zenon, <1>8, <2>1, Both
  <2>3. Ops(s) \subseteq NodeOps  BY <1>8, <2>2 DEF NodeOps
  <2>4. u = s \o Rest
    <3>1. IsList(v)  BY <1>9, <1>10
    <3>2. s \o v = two \o t  BY <1>8, <1>10, <2>1, <3>1, Regroup
    <3> QED  BY Zenon, <1>10, <3>2
  <2> QED  BY Zenon, <1>2, <1>3, <1>15, <1>18, <2>2, <2>3, <2>4, StepsTo, <1>16
<1>19. \/ Fails
       \/ Goes((<<>> \o <<Step("Root")>>) \o Rest)
       \/ Goes((<<Passphrase>> \o <<Step("Root")>>) \o Rest)
  BY Zenon DEF storage_getRootNode
<1>20. (<<>> \o <<Step("Root")>>) \o Rest = t
  <2>1. <<>> \o one = one
    <3>1. one \in Seq(Range(one))  BY <1>8 DEF IsList
    <3> QED  BY <3>1, ConcatEmptySeq
  <2> QED  BY Zenon, <1>5, <1>7, <1>10, <2>1
<1>21. (<<Passphrase>> \o <<Step("Root")>>) \o Rest = u
  <2>1. IsList(v)  BY <1>9, <1>10
  <2>2. PICK s : s = two \o one  OBVIOUS
  <2>3. s \o v = two \o t  BY <1>8, <1>10, <2>1, <2>2, Regroup
  <2> QED  BY Zenon, <1>5, <1>7, <1>10, <2>2, <2>3
<1> QED  BY Zenon, <1>4, <1>17, <1>18, <1>19, <1>20, <1>21

LEMMA TwoJoined ==
  ASSUME NEW x, NEW y
  PROVE  <<x>> \o <<y>> = <<x, y>>
<1>1. PICK p, q, z : p = <<x>> /\ q = <<y>> /\ z = <<x, y>>  OBVIOUS
<1>2. /\ p \in Seq({x, y}) /\ Len(p) = 1 /\ p[1] = x /\ q \in Seq({x, y}) /\ Len(q) = 1 /\ q[1] = y
      /\ z \in Seq({x, y}) /\ Len(z) = 2 /\ z[1] = x /\ z[2] = y
  BY <1>1
<1>3. PICK u : u = p \o q  OBVIOUS
<1>4. /\ u \in Seq({x, y}) /\ Len(u) = Len(p) + Len(q)
      /\ \A i \in 1 .. Len(p) + Len(q) : u[i] = IF i <= Len(p) THEN p[i] ELSE q[i - Len(p)]
  BY ONLY <1>2, <1>3, ConcatProperties
<1>5. Len(u) = 2 /\ u[1] = x /\ u[2] = y  BY ONLY <1>2, <1>4
<1>6. u = z
  <2>1. \A i \in 1 .. Len(u) : u[i] = z[i]  BY ONLY <1>2, <1>5
  <2>2. Len(u) = Len(z)  BY <1>2, <1>5
  <2> QED  BY ONLY <1>2, <1>4, <2>1, <2>2, SeqEqual
<1> QED  BY Zenon, <1>1, <1>3, <1>6

\* storage_loadNode puts the steps from the root to the node of the path.
LEMMA LoadNodeHolds ==
  ASSUME HandlersInv, storage_loadNode
  PROVE  HandlersInv'
<1>1. /\ Now("Root") /\ UNCHANGED <<device, aborted, request, last>>
      /\ session' = [session EXCEPT !.seed = @ \/ device.has = "mnemonic"]
      /\ node' \in {node, Plain}
  BY DEF storage_loadNode
<1>2. /\ frames # <<>> /\ Top.todo # <<>> /\ step.op = "Root" /\ StateHolds /\ IsFrame(Top)
      /\ FramesHold /\ IsList(Top.todo) /\ ~aborted /\ ShownBy(step) = {}
  BY <1>1, NowFacts
<1>3. /\ session' \in [pin : BOOLEAN, passphrase : {"none", "empty", "text"}, seed : BOOLEAN]
      /\ session'.pin = session.pin /\ session'.passphrase = session.passphrase
  BY <1>1, <1>2 DEF StateHolds
<1>4. Pinned' = Pinned  BY <1>1, <1>3 DEF Pinned
<1>5. Decrypts' = Decrypts  BY <1>1, <1>3 DEF Decrypts
<1>6. StateHolds'  BY <1>1, <1>2, <1>3 DEF StateHolds, Plain
<1>7. Beside /\ aborted' = aborted  BY <1>1, <1>4, <1>6 DEF Beside
<1>31. CASE Fails
  <2>1. Failing  BY <1>2, <1>31, Moves
  <2> QED  BY <1>2, <1>7, <2>1, StepFailing
<1>8. PICK wake, dec, der :
        wake = Step("WakingUp") /\ dec = Step("Decrypt") /\ der = Step("Derive")
  OBVIOUS
<1>9. wake.op = "WakingUp" /\ dec.op = "Decrypt" /\ der.op = "Derive"  BY <1>8 DEF Step
<1>10. PICK a, b, c : a = <<wake>> /\ b = <<dec>> /\ c = <<der>>  OBVIOUS
<1>11. /\ IsList(a) /\ Ops(a) = {"WakingUp"} /\ IsList(b) /\ Ops(b) = {"Decrypt"}
       /\ IsList(c) /\ Ops(c) = {"Derive"}
  BY <1>9, <1>10, One
<1>12. PICK v : v = Rest  OBVIOUS
<1>13. IsList(v)  BY <1>2, <1>12, RestFacts DEF Rest
<1>14. PICK t, u, w : t = c \o v /\ u = b \o t /\ w = a \o u  OBVIOUS
<1>15. /\ "WakingUp" \notin {"Answer", "ClearSession"} /\ "Decrypt" \notin {"Answer", "ClearSession"}
       /\ "Derive" \notin {"Answer", "ClearSession"}
  OBVIOUS
<1>16. IsList(t) /\ Next1(t, "Derive") /\ Tail(t) = v /\ (Serves(t) => Serves(v))
  BY Zenon, <1>9, <1>10, <1>13, <1>14, <1>15, PutBefore
<1>17. IsList(u) /\ Next1(u, "Decrypt") /\ Tail(u) = t /\ (Serves(u) => Serves(t))
  BY Zenon, <1>9, <1>10, <1>14, <1>15, <1>16, PutBefore
<1>18. IsList(w) /\ Next1(w, "WakingUp") /\ Tail(w) = u /\ (Serves(w) => Serves(u))
  BY Zenon, <1>9, <1>10, <1>14, <1>15, <1>17, PutBefore
<1>19. ASSUME ~Top.disturbed, request.type \in KeyedTypes, Serves(v)
       PROVE  AtDerive(t) /\ AtWakingUp(w)
  <2>1. KeyHolds(Top.todo, request, node, Decrypts)  BY <1>2, <1>19 DEF FramesHold
  <2>2. Serves(Top.todo)  BY <1>2, <1>12, <1>19, RestFacts DEF Rest
  <2>3. Head(Top.todo).op = "Root"  BY <1>2 DEF step
  <2>4. NoNode(v)  BY Zenon, <1>2, <1>12, <1>19, <2>1, <2>2, <2>3, KeyAt DEF Rest
  <2> QED  BY <1>16, <1>17, <1>18, <2>4 DEF AtDerive, AtDecrypt, AtWakingUp
<1>20. ASSUME ~Top.disturbed, node' = Plain
       PROVE  /\ ~Decrypts => KeyHolds(t, request, node', Decrypts')
              /\ Decrypts => KeyHolds(w, request, node', Decrypts')
  <2>1. ~Decrypts => node' = [decrypted |-> Once(Decrypts'), derived |-> 0]
    BY <1>5, <1>20 DEF Plain, Once
  <2>2. Serves(t) /\ request.type \in KeyedTypes => AtDerive(t)
    BY <1>16, <1>19, <1>20
  <2>3. Serves(w) /\ request.type \in KeyedTypes => AtWakingUp(w)
    BY <1>16, <1>17, <1>18, <1>19, <1>20
  <2>4. Decrypts => Decrypts' /\ node' = Plain  BY <1>5, <1>20
  <2> QED  BY Zenon, <2>1, <2>2, <2>3, <2>4 DEF KeyHolds
<1>21. step.op \in {"Node", "Root"} /\ Ops(c) \subseteq NodeOps  BY <1>2, <1>11 DEF NodeOps
<1>22. ASSUME ~Decrypts, node' = Plain, Goes(t) PROVE HandlersInv'
  BY Zenon, <1>2, <1>7, <1>11, <1>12, <1>14, <1>20, <1>21, <1>22, StepsTo
<1>23. PICK ab, s : ab = a \o b /\ s = ab \o c  OBVIOUS
<1>24. IsList(ab) /\ Ops(ab) = {"WakingUp", "Decrypt"}
  <2>1. IsList(ab) /\ Ops(ab) = Ops(a) \cup Ops(b)  BY Zenon, <1>11, <1>23, Both
  <2> QED  BY <1>11, <2>1
<1>25. IsList(s) /\ Ops(s) \subseteq NodeOps
  <2>1. IsList(s) /\ Ops(s) = Ops(ab) \cup Ops(c)  BY Zenon, <1>11, <1>23, <1>24, Both
  <2> QED  BY <1>11, <1>24, <2>1 DEF NodeOps
<1>26. w = s \o v
  <2>1. s \o v = ab \o t  BY <1>11, <1>13, <1>14, <1>23, <1>24, Regroup
  <2>2. ab \o t = a \o u  BY <1>11, <1>14, <1>16, <1>23, Regroup
  <2> QED  BY Zenon, <1>14, <2>1, <2>2
<1>27. ASSUME Decrypts, node' = Plain, Goes(w) PROVE HandlersInv'
  BY Zenon, <1>2, <1>7, <1>12, <1>20, <1>21, <1>25, <1>26, <1>27, StepsTo
<1>28. \/ Fails
       \/ ~Decrypts /\ node' = Plain /\ Goes((<<>> \o <<Step("Derive")>>) \o Rest)
       \/ /\ Decrypts /\ node' = Plain
          /\ Goes((<<Step("WakingUp"), Step("Decrypt")>> \o <<Step("Derive")>>) \o Rest)
  BY Zenon DEF storage_loadNode
<1>29. (<<>> \o <<Step("Derive")>>) \o Rest = t
  <2>1. <<>> \o c = c
    <3>1. c \in Seq(Range(c))  BY <1>11 DEF IsList
    <3> QED  BY <3>1, ConcatEmptySeq
  <2> QED  BY Zenon, <1>8, <1>10, <1>12, <1>14, <2>1
<1>30. (<<Step("WakingUp"), Step("Decrypt")>> \o <<Step("Derive")>>) \o Rest = w
  <2>1. <<wake, dec>> = ab
    <3>1. <<wake>> \o <<dec>> = <<wake, dec>>  BY Zenon, TwoJoined
    <3> QED  BY Zenon, <1>10, <1>23, <3>1
  <2> QED  BY Zenon, <1>8, <1>10, <1>12, <1>23, <1>26, <2>1
<1> QED  BY Zenon, <1>22, <1>27, <1>28, <1>29, <1>30, <1>31

-----------------------------------------------------------------------------
(* The effects.                                                            *)

\* An effect that no request for the key leads to.
LEMMA EffectHolds ==
  ASSUME HandlersInv, NEW op \in {"RemovePin", "NewPin", "Wipe", "Load"}, Now(op), Proceeds,
         device' \in Devices({"none", "mnemonic", "node"}),
         session' \in [pin : BOOLEAN, passphrase : {"none", "empty", "text"}, seed : BOOLEAN],
         UNCHANGED <<aborted, request, node, last>>
  PROVE  HandlersInv'
<1>1. /\ frames # <<>> /\ Top.todo # <<>> /\ step.op = op /\ StateHolds /\ IsFrame(Top)
      /\ Allowed(step, request) /\ ShownBy(step) = {}
  BY NowFacts
<1>2. request.type \notin KeyTypes  BY <1>1 DEF Allowed
<1>3. Beside  BY <1>1, <1>2 DEF Beside, StateHolds
<1>4. Onward  BY <1>1, Moves
<1>5. request.type \notin KeyedTypes  BY <1>2 DEF KeyedTypes
<1> QED  BY <1>1, <1>2, <1>3, <1>4, <1>5, OrdinaryStep DEF NodeOps

LEMMA EffectsHold ==
  ASSUME HandlersInv, RemovePin \/ protectChangePin \/ storage_wipe \/ storage_loadDevice
  PROVE  HandlersInv'
<1> DEFINE D == Devices({"none", "mnemonic", "node"})
           S == [pin : BOOLEAN, passphrase : {"none", "empty", "text"}, seed : BOOLEAN]
<1>1. StateHolds  BY DEF HandlersInv
<1>2. Removed \in S /\ session_clear(TRUE) \in S /\ Empty \in D
  BY <1>1 DEF StateHolds, Removed, session_clear, NoSession, Empty, Devices
<1>3. \A b \in BOOLEAN : [device EXCEPT !.pin = b] \in D  BY <1>1 DEF StateHolds, Devices
<1> HIDE DEF D, S
<1>4. CASE RemovePin
  BY <1>2, <1>3, <1>4, EffectHolds DEF RemovePin, D, S
<1>5. CASE protectChangePin
  <2>1. CASE /\ \E set \in BOOLEAN : device' = [device EXCEPT !.pin = set]
             /\ session' = Removed /\ Proceeds /\ UNCHANGED aborted
    BY <1>2, <1>3, <1>5, <2>1, EffectHolds DEF protectChangePin, D, S
  <2>2. CASE UNCHANGED <<device, session>> /\ aborted' \in BOOLEAN /\ (Fails \/ Refuses)
    <3>1. Now("NewPin") /\ UNCHANGED <<request, node, last>>  BY <1>5 DEF protectChangePin
    <3>2. frames # <<>> /\ IsFrame(Top)  BY <3>1, NowFacts
    <3>3. Beside  BY <1>1, <2>2, <3>1, QuietFacts DEF StateHolds
    <3>4. Failing
      BY <2>2, <3>2, Moves
    <3> QED  BY <3>2, <3>3, <3>4, StepFailing
  <2>3. aborted \in BOOLEAN  BY <1>1 DEF StateHolds
  <2> QED  BY <1>5, <2>1, <2>2, <2>3 DEF protectChangePin, Abort
<1>6. CASE storage_wipe
  BY <1>2, <1>6, EffectHolds DEF storage_wipe, D, S
<1>7. CASE storage_loadDevice
  <2>1. Now("Load")  BY <1>7 DEF storage_loadDevice
  <2>2. request.type = "LoadDevice" /\ request \in Requests  BY <2>1, NowFacts DEF Allowed
  <2>3. request.device \in D  BY <2>2, HandlersAssumption DEF D
  <2> QED  BY <1>2, <1>7, <2>3, EffectHolds DEF storage_loadDevice, D, S
<1> QED  BY <1>4, <1>5, <1>6, <1>7

\* Settings do not change the PIN, and are not for the key.
LEMMA SettingsHold ==
  ASSUME HandlersInv, ApplySettings
  PROVE  HandlersInv'
<1>1. Now("ApplySettings") /\ Proceeds /\ UNCHANGED <<aborted, request, node, last>>
  BY DEF ApplySettings
<1>2. /\ frames # <<>> /\ Top.todo # <<>> /\ step.op = "ApplySettings" /\ StateHolds
      /\ IsFrame(Top) /\ Allowed(step, request) /\ ShownBy(step) = {}
  BY <1>1, NowFacts
<1>3. /\ device' \in Devices({"none", "mnemonic", "node"}) /\ device'.pin = device.pin
      /\ session' \in [pin : BOOLEAN, passphrase : {"none", "empty", "text"}, seed : BOOLEAN]
      /\ session'.pin = session.pin
  <2>1. \/ UNCHANGED <<device, session>>
        \/ /\ \E on \in BOOLEAN : device' = [device EXCEPT !.passphrase = on]
           /\ session' = [session EXCEPT !.passphrase = "none", !.seed = FALSE]
    BY DEF ApplySettings
  <2>2. CASE UNCHANGED <<device, session>>  BY <1>2, <2>2 DEF StateHolds
  <2>3. CASE /\ \E on \in BOOLEAN : device' = [device EXCEPT !.passphrase = on]
             /\ session' = [session EXCEPT !.passphrase = "none", !.seed = FALSE]
    BY <1>2, <2>3 DEF StateHolds, Devices
  <2> QED  BY <2>1, <2>2, <2>3
<1>4. Pinned' = Pinned  BY <1>3 DEF Pinned
<1>5. Beside  BY <1>1, <1>2, <1>3, <1>4 DEF Beside, StateHolds
<1>6. Onward  BY <1>1, <1>2, Moves
<1>7. request.type \notin KeyedTypes  BY <1>2 DEF Allowed, KeyedTypes
<1> QED  BY <1>1, <1>2, <1>5, <1>6, <1>7, OrdinaryStep DEF NodeOps

LEMMA SignHolds ==
  ASSUME HandlersInv, NEW op \in {"Sign", "Hash", "Build"}, Now(op), Quiet, Proceeds \/ Fails
  PROVE  HandlersInv'
<1>1. /\ frames # <<>> /\ Top.todo # <<>> /\ step.op = op /\ StateHolds /\ IsFrame(Top)
      /\ ~aborted /\ ShownBy(step) = {}
  BY NowFacts
<1>2. Beside /\ Decrypts' = Decrypts /\ aborted' = aborted /\ node' = node
  BY <1>1, QuietFacts DEF Quiet, StateHolds
<1>3. CASE Proceeds  BY <1>1, <1>2, <1>3, Moves, OrdinaryStep DEF NodeOps
<1>4. CASE Fails  BY <1>1, <1>2, <1>4, Moves, StepFailing
<1> QED  BY <1>3, <1>4

LEMMA AnswersSet ==
  ASSUME NEW f, IsFrame(f), NEW t, NEW a, NEW g, g = [f EXCEPT !.todo = t, !.answers = a]
  PROVE  g = Of5(t, f.confirmed, f.refused, f.disturbed, a)
<1>1. PICK h : h = [f EXCEPT !.todo = t]  OBVIOUS
<1>2. h = Of5(t, f.confirmed, f.refused, f.disturbed, f.answers)  BY <1>1, Updates
<1>3. g = [h EXCEPT !.answers = a]  BY <1>1
<1> QED  BY <1>2, <1>3 DEF Of5

\* A malformed signature is answered, and the handler goes on.
LEMMA MalformedHolds ==
  ASSUME HandlersInv, Malformed
  PROVE  HandlersInv'
<1>1. Now("Malformed") /\ Quiet
      /\ SetTop([Top EXCEPT !.todo = Rest, !.answers = Append(Top.answers, "Failure")])
  BY DEF Malformed
<1>2. /\ frames # <<>> /\ Top.todo # <<>> /\ step.op = "Malformed" /\ StateHolds /\ IsFrame(Top)
      /\ FramesHold /\ ~aborted /\ Allowed(step, request) /\ ShownBy(step) = {}
  BY <1>1, NowFacts
<1>3. Beside /\ aborted' = aborted /\ node' = node
  BY <1>1, <1>2, QuietFacts DEF Quiet, StateHolds
<1>4. request.type = "EthereumVerifyMessage" /\ request.malformed  BY <1>2 DEF Allowed
<1>5. request.type \notin KeyTypes  BY <1>4 DEF KeyTypes
<1>6. FrameHolds(Top, request, Pinned)  BY <1>2, TopHolds
<1>7. PICK a : a = Append(Top.answers, "Failure")  OBVIOUS
<1>8. IsList(a) /\ Range(a) \subseteq {"Failure"}
  <2>1. Top.answers \in Seq({"Failure"})
    <3>1. CASE Top.answers = <<>>  BY <3>1
    <3>2. CASE IsList(Top.answers) /\ Range(Top.answers) \subseteq {"Failure"}
      BY <3>2, SeqMonotonic DEF IsList
    <3> QED  BY <1>6, <3>1, <3>2 DEF FrameHolds, Answers
  <2>2. a \in Seq({"Failure"})  BY <1>7, <2>1
  <2> QED  BY <2>2, ListOfSet
<1>9. PICK h : h = Of5(Rest, Top.confirmed, Top.refused, Top.disturbed, Top.answers)  OBVIOUS
<1>10. PICK f : f = Of5(Rest, Top.confirmed, Top.refused, Top.disturbed, a)  OBVIOUS
<1>11. FrameHolds(h, request, Pinned')
  <2>1. PICK c : c = Top.confirmed  OBVIOUS
  <2>2. /\ Top.confirmed \cup ShownBy(Head(Top.todo)) \subseteq c
        /\ Head(Top.todo).op \notin {"Answer", "ClearSession"}
        /\ request.type \in KeyTypes /\ (Pinned \/ Head(Top.todo).op = "Pin") => Pinned'
    BY <1>2, <1>5, <2>1 DEF step
  <2>3. FrameHolds(Of5(Tail(Top.todo), c, Top.refused, Top.disturbed, Top.answers),
                   request, Pinned')
    BY Zenon, <1>2, <1>6, <2>2, RestHolds
  <2> QED  BY Zenon, <1>9, <2>1, <2>3 DEF Rest
<1>12. /\ f.todo = h.todo /\ f.confirmed = h.confirmed /\ f.refused = h.refused
       /\ f.disturbed = Top.disturbed /\ f.answers = a /\ IsFrame(f)
  BY <1>9, <1>10, FieldsOf5
<1>13. FrameHolds(f, request, Pinned')
  <2>1. Answers(f, request)  BY <1>4, <1>8, <1>12 DEF Answers
  <2> QED  BY <1>11, <1>12, <2>1 DEF FrameHolds
<1>14. SetTop(f)
  <2>1. PICK g : g = [Top EXCEPT !.todo = Rest, !.answers = a]  OBVIOUS
  <2>2. IsFrame(Top)  BY <1>2
  <2>3. g = Of5(Rest, Top.confirmed, Top.refused, Top.disturbed, a)
    BY Zenon, <2>1, <2>2, AnswersSet
  <2>4. SetTop(g)  BY Zenon, <1>1, <1>7, <2>1
  <2> QED  BY Zenon, <1>10, <2>3, <2>4
<1>15. KeyHolds(f.todo, request, node', Decrypts')  BY <1>5 DEF KeyHolds, KeyedTypes
<1>16. FramesHold'
  BY <1>2, <1>3, <1>5, <1>12, <1>13, <1>14, <1>15, TopChanges DEF Beside
<1> QED  BY <1>3, <1>16, LastStays DEF HandlersInv, Beside

-----------------------------------------------------------------------------
(* Beginning a handler, and the main loop.                                 *)

LEMMA FrameFacts ==
  ASSUME NEW r \in Requests
  PROVE  /\ \A q : FrameHolds(Frame(r), r, q)
         /\ \A n, d : KeyHolds(Frame(r).todo, r, n, d)
         /\ ~Frame(r).disturbed /\ Frame(r).todo = Handler(r)
<1>1. Serviceable(Handler(r), r)  BY HandlerServed
<1>2. PICK t, f, c, b, a :
        t = Handler(r) /\ f = Frame(r) /\ c = {} /\ b = FALSE /\ a = <<>>
  OBVIOUS
<1>3. f = Of5(t, c, b, b, a)  BY Zenon, <1>2 DEF Frame, Of5
<1>4. /\ IsFrame(f) /\ f.todo = t /\ f.confirmed = {} /\ f.refused = FALSE
      /\ f.disturbed = FALSE /\ f.answers = <<>>
  <2>1. /\ IsFrame(f) /\ f.todo = t /\ f.confirmed = c /\ f.refused = b
        /\ f.disturbed = b /\ f.answers = a
    BY <1>3, FieldsOf5
  <2> QED  BY Zenon, <1>2, <2>1
<1>5. /\ Fits(t, r)
      /\ Serves(t) => /\ Needs(r) \subseteq Shown(t) /\ (r.type \in KeyTypes => "Pin" \in Ops(t))
                      /\ (r.type \in KeyedTypes => OneNode(t))
  BY <1>1, <1>2 DEF Serviceable
<1>6. Answers(f, r)  BY <1>4 DEF Answers
<1>7. \A q : FrameHolds(f, r, q)  BY <1>4, <1>5, <1>6 DEF FrameHolds
<1>8. \A n, d : KeyHolds(t, r, n, d)  BY <1>5 DEF KeyHolds
<1> QED  BY Zenon, <1>2, <1>4, <1>7, <1>8

\* u begins with s.
Begins(u, s) == \A i \in DOMAIN s : u[i] = s[i]
LEMMA ListWith ==
  ASSUME NEW s, IsList(s), NEW f
  PROVE  LET u == Append(s, f)
         IN /\ IsList(u) /\ Len(u) = Len(s) + 1 /\ DOMAIN u = 1 .. Len(s) + 1 /\ u # <<>>
            /\ u[Len(u)] = f /\ Begins(u, s)
<1> SUFFICES ASSUME NEW u, u = Append(s, f)
             PROVE  /\ IsList(u) /\ Len(u) = Len(s) + 1 /\ DOMAIN u = 1 .. Len(s) + 1 /\ u # <<>>
                    /\ u[Len(u)] = f /\ Begins(u, s)
  BY Zenon
<1> DEFINE S == Range(s) \cup {f}
<1>1. s \in Seq(S)
  <2>1. s \in Seq(Range(s))  BY DEF IsList
  <2> QED  BY <2>1, SeqMonotonic
<1>2. f \in S  OBVIOUS
<1>3. Len(s) \in Nat /\ DOMAIN s = 1 .. Len(s)  BY ListFacts
<1> HIDE DEF S
<1>4. /\ u \in Seq(S) /\ Len(u) = Len(s) + 1 /\ u[Len(s) + 1] = f
      /\ \A i \in 1 .. Len(s) : u[i] = s[i]
  BY <1>1, <1>2, AppendProperties
<1>5. IsList(u)  BY <1>4, ListOfSet
<1>6. DOMAIN u = 1 .. Len(s) + 1 /\ u # <<>>  BY <1>3, <1>4, <1>5, ListFacts
<1> QED  BY <1>3, <1>4, <1>5, <1>6 DEF Begins

\* A packet while waking up: the same request is handled again, inside.
LEMMA ReenterHolds ==
  ASSUME HandlersInv, Reenter
  PROVE  HandlersInv'
<1>1. Now("WakingUp") /\ Quiet
      /\ frames' = Append([frames EXCEPT ![Len(frames)].disturbed = TRUE], Frame(request))
  BY DEF Reenter
<1>2. /\ frames # <<>> /\ StateHolds /\ FramesHold /\ IsFrame(Top) /\ request \in Requests
      /\ ~aborted
  BY <1>1, NowFacts
<1>0. last.handled = 0 /\ last' = last  BY <1>1, <1>2 DEF Reenter, FramesHold, Quiet
<1>3. Beside /\ Pinned' = Pinned /\ Decrypts' = Decrypts /\ aborted' = aborted /\ node' = node
  BY <1>1, <1>2, QuietFacts DEF Quiet, StateHolds
<1>4. PICK g : g = Of5(Top.todo, Top.confirmed, Top.refused, TRUE, Top.answers)  OBVIOUS
<1>5. [Top EXCEPT !.disturbed = TRUE] = g  BY <1>2, <1>4, Updates
<1>6. PICK u : u = [frames EXCEPT ![Len(frames)] = g]  OBVIOUS
<1>7. [frames EXCEPT ![Len(frames)].disturbed = TRUE] = u
  <2>1. [frames EXCEPT ![Len(frames)].disturbed = TRUE]
          = [frames EXCEPT ![Len(frames)] = [Top EXCEPT !.disturbed = TRUE]]
    BY DEF Top
  <2> QED  BY Zenon, <1>5, <1>6, <2>1
<1>8. PICK f : f = Frame(request)  OBVIOUS
<1>9. frames' = Append(u, f)  BY Zenon, <1>1, <1>7, <1>8
<1>10. /\ IsList(frames) /\ \A i \in DOMAIN frames : FrameHolds(frames[i], request, Pinned)
       /\ \A i \in DOMAIN frames : i < Len(frames) => frames[i].disturbed
  BY <1>2 DEF FramesHold
<1>11. Len(frames) \in Nat /\ DOMAIN frames = 1 .. Len(frames)  BY <1>10, ListFacts
<1>12. /\ IsList(u) /\ Len(u) = Len(frames) /\ DOMAIN u = DOMAIN frames /\ u[Len(frames)] = g
       /\ \A i \in DOMAIN frames : i # Len(frames) => u[i] = frames[i]
  BY Zenon, <1>2, <1>6, <1>10, TopSet
<1>13. /\ IsList(frames') /\ Len(frames') = Len(u) + 1 /\ DOMAIN frames' = 1 .. Len(u) + 1
       /\ frames' # <<>> /\ frames'[Len(frames')] = f
       /\ \A i \in DOMAIN u : frames'[i] = u[i]
  <2>1. PICK w : w = frames'  OBVIOUS
  <2>2. w = Append(u, f) /\ IsList(u)  BY Zenon, <1>9, <1>12, <2>1
  <2>3. /\ IsList(w) /\ Len(w) = Len(u) + 1 /\ DOMAIN w = 1 .. Len(u) + 1
        /\ w # <<>> /\ w[Len(w)] = f /\ Begins(w, u)
    BY Zenon, <2>2, ListWith
  <2> QED  BY Zenon, <2>1, <2>3 DEF Begins
<1>14. FrameHolds(g, request, Pinned') /\ g.disturbed = TRUE
  <2>1. FrameHolds(Top, request, Pinned)  BY <1>2, TopHolds
  <2>2. /\ IsFrame(g) /\ g.todo = Top.todo /\ g.confirmed = Top.confirmed
        /\ g.refused = Top.refused /\ g.disturbed = TRUE /\ g.answers = Top.answers
    <3>1. PICK b : b = TRUE  OBVIOUS
    <3>2. g = Of5(Top.todo, Top.confirmed, Top.refused, b, Top.answers)  BY Zenon, <1>4, <3>1
    <3>3. /\ IsFrame(g) /\ g.todo = Top.todo /\ g.confirmed = Top.confirmed
          /\ g.refused = Top.refused /\ g.disturbed = b /\ g.answers = Top.answers
      BY <3>2, FieldsOf5
    <3> QED  BY <3>1, <3>3
  <2> QED  BY <1>3, <2>1, <2>2 DEF FrameHolds, Answers
<1>15. /\ FrameHolds(f, request, Pinned') /\ ~f.disturbed
       /\ KeyHolds(f.todo, request, node', Decrypts')
  BY Zenon, <1>2, <1>8, FrameFacts
<1>16. Top' = f  BY <1>13 DEF Top
<1>17. \A i \in DOMAIN frames' : FrameHolds(frames'[i], request', Pinned')
  <2> SUFFICES ASSUME NEW i \in DOMAIN frames' PROVE FrameHolds(frames'[i], request, Pinned')
    BY <1>3 DEF Beside
  <2>1. CASE i = Len(frames')  BY <1>13, <1>15, <2>1
  <2>2. CASE i = Len(frames)  BY <1>11, <1>12, <1>13, <1>14, <2>2
  <2>3. CASE i # Len(frames') /\ i # Len(frames)
    <3>1. i \in DOMAIN frames /\ frames'[i] = frames[i]  BY <1>11, <1>12, <1>13, <2>3
    <3> QED  BY <1>3, <1>10, <3>1
  <2> QED  BY <2>1, <2>2, <2>3
<1>18. \A i \in DOMAIN frames' : i < Len(frames') => frames'[i].disturbed
  <2> SUFFICES ASSUME NEW i \in DOMAIN frames', i < Len(frames') PROVE frames'[i].disturbed
    OBVIOUS
  <2>1. i \in DOMAIN frames /\ frames'[i] = u[i]  BY <1>11, <1>12, <1>13
  <2>2. CASE i = Len(frames)  BY <1>12, <1>14, <2>1, <2>2
  <2>3. CASE i # Len(frames)  BY <1>10, <1>11, <1>12, <2>1, <2>3
  <2> QED  BY <2>2, <2>3
<1>19. FramesHold'
  BY <1>0, <1>2, <1>3, <1>13, <1>15, <1>16, <1>17, <1>18 DEF FramesHold, Beside
<1> QED  BY <1>3, <1>19, LastStays DEF HandlersInv, Beside

\* Nothing is answered yet when a request comes in.
LEMMA ReceiveHolds ==
  ASSUME HandlersInv, NEW r \in Requests, Receive(r)
  PROVE  HandlersInv'
<1>1. /\ request' = r /\ frames' = <<Frame(r)>> /\ last' = Nothing
      /\ UNCHANGED <<device, session, aborted, node>> /\ frames = <<>>
  BY DEF Receive
<1>2. StateHolds /\ ~aborted  BY <1>1 DEF HandlersInv, FramesHold
<1>3. StateHolds'  BY <1>1, <1>2 DEF StateHolds
<1>4. PICK f : f = Frame(r)  OBVIOUS
<1>5. PICK u : u = <<f>>  OBVIOUS
<1>6. frames' = u  BY Zenon, <1>1, <1>4, <1>5
<1>7. IsList(u) /\ Len(u) = 1 /\ DOMAIN u = {1} /\ u # <<>> /\ u[1] = f
  BY <1>5, Tuples
<1>8. /\ FrameHolds(f, r, Pinned') /\ ~f.disturbed /\ KeyHolds(f.todo, r, node', Decrypts')
  BY Zenon, <1>4, FrameFacts
<1>9. Top' = f  BY <1>6, <1>7 DEF Top
<1>10. \A i \in DOMAIN frames' : FrameHolds(frames'[i], request', Pinned')
  BY <1>1, <1>6, <1>7, <1>8
<1>11. \A i \in DOMAIN frames' : ~(i < Len(frames'))  BY <1>6, <1>7
<1>12. IsList(frames') /\ frames' # <<>>  BY <1>6, <1>7
<1>13. request' \in Requests /\ ~aborted' /\ last'.handled = 0  BY <1>1, <1>2 DEF Nothing
<1>14. FramesHold'
  BY <1>1, <1>8, <1>9, <1>10, <1>11, <1>12, <1>13 DEF FramesHold
<1>15. ~Answered'  BY <1>1 DEF Answered, Nothing
<1>16. ~Served'  BY <1>15 DEF Served
<1>17. LastHolds'
  BY <1>15, <1>16 DEF LastHolds, AnswerNeedsConsent, NemShowsWhatItSigns, KeyIsTheStored
<1> QED  BY <1>3, <1>14, <1>17 DEF HandlersInv

LEMMA LockHolds ==
  ASSUME HandlersInv, Lock
  PROVE  HandlersInv'
<1>1. /\ frames = <<>> /\ session' = session_clear(TRUE)
      /\ UNCHANGED <<device, aborted, request, frames, node, last>>
  BY DEF Lock
<1>2. StateHolds /\ FramesHold /\ LastHolds  BY DEF HandlersInv
<1>3. session' \in [pin : BOOLEAN, passphrase : {"none", "empty", "text"}, seed : BOOLEAN]
  BY <1>1, <1>2 DEF StateHolds, session_clear, NoSession
<1>4. StateHolds'  BY <1>1, <1>2, <1>3 DEF StateHolds
<1>5. DOMAIN frames = {}  BY <1>1
<1>6. FramesHold'  BY <1>1, <1>2, <1>5 DEF FramesHold
<1> QED  BY <1>1, <1>2, <1>4, <1>6, LastStays DEF HandlersInv

-----------------------------------------------------------------------------
(* Returning.                                                              *)

LEMMA ListFront ==
  ASSUME NEW s, IsList(s), s # <<>>, NEW u, u = SubSeq(s, 1, Len(s) - 1)
  PROVE  /\ IsList(u) /\ Len(u) = Len(s) - 1 /\ Len(s) \in Nat \ {0}
         /\ DOMAIN s = 1 .. Len(s) /\ DOMAIN u = 1 .. Len(s) - 1
         /\ Begins(s, u)
         /\ (u = <<>>) <=> (Len(s) = 1)
<1>1. Len(s) \in Nat \ {0} /\ DOMAIN s = 1 .. Len(s)  BY ListFacts
<1>2. s \in Seq(Range(s))  BY DEF IsList
<1>3. /\ u \in Seq(Range(s)) /\ Len(u) = Len(s) - 1 /\ \A i \in 1 .. Len(s) - 1 : u[i] = s[i]
  <2>1. /\ 1 \in 1 .. Len(s) + 1 /\ Len(s) - 1 \in 1 - 1 .. Len(s)
        /\ Len(s) - 1 - 1 + 1 = Len(s) - 1
    BY <1>1
  <2>2. /\ u \in Seq(Range(s))
        /\ Len(u) = IF 1 <= Len(s) - 1 THEN Len(s) - 1 - 1 + 1 ELSE 0
        /\ \A i \in 1 .. Len(s) - 1 - 1 + 1 : u[i] = s[1 + i - 1]
    BY <1>1, <1>2, SubSeqProperties
  <2> QED  BY <1>1, <2>1, <2>2
<1>4. IsList(u)  BY <1>3, ListOfSet
<1>5. DOMAIN u = 1 .. Len(u) /\ ((u = <<>>) <=> (Len(u) = 0))  BY <1>4, ListFacts
<1>6. DOMAIN u = 1 .. Len(s) - 1 /\ ((u = <<>>) <=> (Len(s) = 1))  BY ONLY <1>1, <1>3, <1>5
<1>7. Begins(s, u)  BY <1>3, <1>6 DEF Begins
<1> QED  BY Zenon, <1>1, <1>3, <1>4, <1>6, <1>7

\* The handlers that are left were disturbed.
LEMMA ReturnHolds ==
  ASSUME FramesHold, frames # <<>>, frames' = SubSeq(frames, 1, Len(frames) - 1),
         request' = IF Len(frames) = 1 THEN NoRequest ELSE request, ~aborted',
         request.type \in KeyTypes /\ Pinned => Pinned'
  PROVE  FramesHold'
<1>1. /\ IsList(frames) /\ \A i \in DOMAIN frames : FrameHolds(frames[i], request, Pinned)
      /\ \A i \in DOMAIN frames : i < Len(frames) => frames[i].disturbed
      /\ request \in Requests
  BY DEF FramesHold
<1>2. PICK u : u = frames'  OBVIOUS
<1>3. u = SubSeq(frames, 1, Len(frames) - 1)  BY Zenon, <1>2
<1>4. /\ IsList(u) /\ Len(u) = Len(frames) - 1 /\ Len(frames) \in Nat \ {0}
      /\ DOMAIN frames = 1 .. Len(frames) /\ DOMAIN u = 1 .. Len(frames) - 1
      /\ Begins(frames, u)
      /\ (u = <<>>) <=> (Len(frames) = 1)
  BY Zenon, <1>1, <1>3, ListFront
<1>5. \A i \in DOMAIN u : i \in DOMAIN frames /\ i < Len(frames) /\ u[i] = frames[i]
  BY <1>4 DEF Begins
<1>6. \A i \in DOMAIN u : FrameHolds(u[i], request', Pinned')
  <2> SUFFICES ASSUME NEW i \in DOMAIN u PROVE FrameHolds(u[i], request', Pinned')  OBVIOUS
  <2>1. FrameHolds(frames[i], request, Pinned)  BY <1>1, <1>5
  <2>2. request' = request  BY <1>4
  <2>3. FrameHolds(frames[i], request, Pinned')  BY Zenon, <2>1, PinStays
  <2>4. u[i] = frames[i]  BY <1>5
  <2> QED  BY Zenon, <2>2, <2>3, <2>4
<1>7. \A i \in DOMAIN u : u[i].disturbed  BY <1>1, <1>5
<1>8. u # <<>> => u[Len(u)].disturbed
  <2>1. u # <<>> => Len(u) \in DOMAIN u  BY <1>4
  <2> QED  BY <1>7, <2>1
<1>9. IF u = <<>> THEN request' = NoRequest ELSE request' \in Requests  BY <1>1, <1>4
<1>10. Top' = u[Len(u)]  BY <1>2 DEF Top
<1> QED
  BY <1>2, <1>4, <1>6, <1>7, <1>8, <1>9, <1>10 DEF FramesHold

\* What has to be true of an answer.
LEMMA LastReturned ==
  ASSUME NEW a, Returns(a), last.handled = 0 \/ Top.disturbed,
         \/ Len(a) = 1
         \/ a = <<>> /\ Silent(request)
         \/ request.type = "EthereumVerifyMessage" /\ request.malformed,
         "Features" \in Range(a) => aborted \/ request.type \in {"GetFeatures", "Initialize"},
         "own" \in Range(a) \/ "Success" \in Range(a) =>
           /\ ~Top.refused /\ Needs(request) \subseteq Top.confirmed
           /\ request.type \in KeyTypes => Pinned
           /\ request.type \in KeyedTypes /\ ~Top.disturbed
                => node = [decrypted |-> Once(Decrypts), derived |-> 1]
  PROVE  LastHolds'
<1>1. PICK r, c, f, d : r = request /\ c = Top.confirmed /\ f = Top.refused /\ d = Top.disturbed
  OBVIOUS
<1>2. PICK b, n, p, e, h :
        b = aborted /\ n = node /\ p = Pinned /\ e = Decrypts /\ h = last.handled + 1
  OBVIOUS
<1>3. PICK l : l = last'  OBVIOUS
<1>4. l = [request |-> r, answers |-> a, confirmed |-> c, refused |-> f, disturbed |-> d,
           aborted |-> b, node |-> n, pinned |-> p, decrypts |-> e, handled |-> h]
  BY Zenon, <1>1, <1>2, <1>3 DEF Returns, Pinned
<1>5. /\ l.request = r /\ l.answers = a /\ l.confirmed = c /\ l.refused = f /\ l.disturbed = d
      /\ l.aborted = b /\ l.node = n /\ l.pinned = p /\ l.decrypts = e
      /\ l.handled = h
  BY Zenon, <1>4
<1>6. /\ Did("own")' => "own" \in Range(a)
      /\ Did("Success")' => "Success" \in Range(a)
      /\ Did("Features")' => "Features" \in Range(a)
  <2>1. last'.answers = a  BY Zenon, <1>3, <1>5
  <2> QED  BY <2>1 DEF Did, Range
<1>7. ASSUME Served'
      PROVE  /\ ~f /\ Needs(r) \subseteq c /\ (r.type \in KeyTypes => p)
             /\ r.type \in KeyedTypes /\ ~d => n = [decrypted |-> Once(e), derived |-> 1]
  <2>1. "own" \in Range(a) \/ "Success" \in Range(a)  BY Zenon, <1>6, <1>7 DEF Served
  <2> QED  BY Zenon, <1>1, <1>2, <2>1
<1>8. AnswerNeedsConsent'
  <2> SUFFICES ASSUME Served'
               PROVE  /\ ~l.refused /\ Consent(l.request) \subseteq l.confirmed
                      /\ l.request.type \in KeyTypes => l.pinned
    BY Zenon, <1>3 DEF AnswerNeedsConsent
  <2>1. Consent(r) \subseteq c  BY <1>7 DEF Needs
  <2> QED  BY Zenon, <1>5, <1>7, <2>1
<1>9. NemShowsWhatItSigns'
  <2> SUFFICES ASSUME Answered', r.type = "NEMSignTx", Did("own")'
               PROVE  Written(r) \ Unshown(r.tx) \subseteq c
    BY Zenon, <1>3, <1>5 DEF NemShowsWhatItSigns
  <2>1. Served'  BY Zenon DEF Served
  <2> QED  BY <1>7, <2>1 DEF Needs
<1>10. KeyIsTheStored'
  <2> SUFFICES ASSUME Served', r.type \in KeyTypes \ {"ApplySettings"}, ~d
               PROVE  n = [decrypted |-> IF e THEN 1 ELSE 0, derived |-> 1]
    BY Zenon, <1>3, <1>5 DEF KeyIsTheStored
  <2>1. r.type \in KeyedTypes  BY DEF KeyedTypes
  <2> QED  BY Zenon, <1>7, <2>1 DEF Once
<1>11. \/ Len(l.answers) = 1
       \/ l.answers = <<>> /\ Silent(l.request)
       \/ l.request.type = "EthereumVerifyMessage" /\ l.request.malformed
  BY Zenon, <1>1, <1>5
<1>12. Did("Features")' => l.aborted \/ l.request.type \in {"GetFeatures", "Initialize"}
  <2> SUFFICES ASSUME Did("Features")' PROVE b \/ r.type \in {"GetFeatures", "Initialize"}
    BY Zenon, <1>5
  <2> QED  BY Zenon, <1>1, <1>2, <1>6
<1>13. l.handled = 1 \/ l.disturbed
  <2>1. last.handled = 0 => h = 1  BY <1>2
  <2> QED  BY Zenon, <1>1, <1>5, <2>1
<1> QED  BY Zenon, <1>3, <1>8, <1>9, <1>10, <1>11, <1>12, <1>13 DEF LastHolds

\* Returning leaves the invariant, if the answers are right and no PIN gets lost.
LEMMA Returned ==
  ASSUME HandlersInv, frames # <<>>, NEW a, Returns(a), ~aborted', device' = device,
         node' = node,
         session' \in [pin : BOOLEAN, passphrase : {"none", "empty", "text"}, seed : BOOLEAN],
         request.type \in KeyTypes => session'.pin = session.pin,
         \/ Len(a) = 1
         \/ a = <<>> /\ Silent(request)
         \/ request.type = "EthereumVerifyMessage" /\ request.malformed,
         "Features" \in Range(a) => aborted \/ request.type \in {"GetFeatures", "Initialize"},
         "own" \in Range(a) \/ "Success" \in Range(a) =>
           /\ ~Top.refused /\ Needs(request) \subseteq Top.confirmed
           /\ request.type \in KeyTypes => Pinned
           /\ request.type \in KeyedTypes /\ ~Top.disturbed
                => node = [decrypted |-> Once(Decrypts), derived |-> 1],
         aborted' \in BOOLEAN
  PROVE  HandlersInv'
<1>1. StateHolds /\ FramesHold  BY DEF HandlersInv
<1>0. last.handled = 0 \/ Top.disturbed  BY <1>1 DEF FramesHold
<1>2. LastHolds'  BY Zenon, <1>0, LastReturned
<1>3. StateHolds'  BY <1>1 DEF StateHolds
<1>4. request.type \in KeyTypes /\ Pinned => Pinned'  BY DEF Pinned
<1>5. /\ frames' = SubSeq(frames, 1, Len(frames) - 1)
      /\ request' = IF Len(frames) = 1 THEN NoRequest ELSE request
  BY Zenon DEF Returns
<1>6. FramesHold'  BY Zenon, <1>1, <1>4, <1>5, ReturnHolds
<1> QED  BY Zenon, <1>2, <1>3, <1>6 DEF HandlersInv

\* One more answer.
LEMMA OneMore ==
  ASSUME NEW f, NEW r, Answers(f, r), NEW x
  PROVE  LET a == Append(f.answers, x)
         IN /\ Len(a) = 1 \/ (r.type = "EthereumVerifyMessage" /\ r.malformed)
            /\ Range(a) \subseteq {"Failure", x}
<1> SUFFICES ASSUME NEW a, a = Append(f.answers, x)
             PROVE  /\ Len(a) = 1 \/ (r.type = "EthereumVerifyMessage" /\ r.malformed)
                    /\ Range(a) \subseteq {"Failure", x}
  BY Zenon
<1>1. CASE f.answers = <<>>
  <2>1. a = <<x>>  BY <1>1
  <2>2. Range(a) = {x} /\ Len(a) = 1  BY <2>1, Tuples
  <2> QED  BY <2>2
<1>2. CASE /\ r.type = "EthereumVerifyMessage" /\ r.malformed
           /\ IsList(f.answers) /\ Range(f.answers) \subseteq {"Failure"}
  <2>1. f.answers \in Seq({"Failure", x})
    <3>1. f.answers \in Seq(Range(f.answers))  BY <1>2 DEF IsList
    <3>2. Range(f.answers) \subseteq {"Failure", x}  BY <1>2
    <3> QED  BY ONLY <3>1, <3>2, SeqMonotonic
  <2>2. a \in Seq({"Failure", x})  BY ONLY <2>1, a = Append(f.answers, x), AppendProperties
  <2>3. Range(a) \subseteq {"Failure", x}  BY <2>2, ListOfSet
  <2> QED  BY <1>2, <2>3
<1> QED  BY <1>1, <1>2 DEF Answers

\* The answer of a handler whose steps are done.
LEMMA Ended ==
  ASSUME HandlersInv, NEW op \in {"Answer", "ClearSession"}, Now(op)
  PROVE  /\ ~Top.refused /\ Needs(request) \subseteq Top.confirmed
         /\ request.type \in KeyTypes => Pinned
         /\ request.type \in KeyedTypes /\ ~Top.disturbed
              => node = [decrypted |-> Once(Decrypts), derived |-> 1]
<1>1. /\ frames # <<>> /\ Top.todo # <<>> /\ step.op = op /\ FramesHold /\ IsList(Top.todo)
      /\ ShownBy(step) = {}
  BY NowFacts
<1>2. FrameHolds(Top, request, Pinned) /\ Fits(Top.todo, request)  BY <1>1, TopHolds
<1>3. PICK t : t = Top.todo  OBVIOUS
<1>4. Head(t).op = op /\ ShownBy(Head(t)) = {}  BY <1>1, <1>3 DEF step
<1>5. Tail(t) = <<>>  BY <1>1, <1>2, <1>3, <1>4, FitsTail DEF Ends
<1>6. /\ Ops(t) = {op} \cup Ops(<<>>) /\ Shown(t) = Shown(<<>>) /\ Serves(t)
  BY <1>1, <1>3, <1>4, <1>5, RestFacts
<1>7. Ops(<<>>) = {} /\ Shown(<<>>) = {}  BY Tuples DEF Ops, Shown
<1>8. Ops(t) = {op} /\ Shown(t) = {}  BY <1>6, <1>7
<1>9. /\ ~Top.refused /\ Needs(request) \subseteq Top.confirmed \cup Shown(t)
      /\ request.type \in KeyTypes => Pinned \/ "Pin" \in Ops(t)
  BY <1>2, <1>3, <1>6 DEF FrameHolds
<1>10. ASSUME request.type \in KeyedTypes, ~Top.disturbed
       PROVE  node = [decrypted |-> Once(Decrypts), derived |-> 1]
  <2>1. KeyHolds(t, request, node, Decrypts)  BY <1>1, <1>3, <1>10 DEF FramesHold
  <2>2. ~OneNode(t)
    <3>1. ASSUME OneNode(t) PROVE "Node" \in Ops(t)
      BY <3>1 DEF OneNode, Ops, Range
    <3> QED  BY <1>8, <3>1
  <2>3. /\ ~AtPassphrase(t) /\ ~AtRoot(t) /\ ~AtWakingUp(t) /\ ~AtDecrypt(t) /\ ~AtDerive(t)
    BY <1>4 DEF AtPassphrase, AtRoot, AtWakingUp, AtDecrypt, AtDerive, Next1
  <2> QED  BY Zenon, <1>6, <1>10, <2>1, <2>2, <2>3 DEF KeyHolds
<1> QED  BY <1>8, <1>9, <1>10

\* What clearing the session leaves.
LEMMA Cleared ==
  ASSUME StateHolds, NEW b \in BOOLEAN
  PROVE  /\ session_clear(b)
              \in [pin : BOOLEAN, passphrase : {"none", "empty", "text"}, seed : BOOLEAN]
         /\ ~b => session_clear(b).pin = session.pin
BY DEF StateHolds, session_clear, NoSession

LEMMA FailureSent ==
  ASSUME HandlersInv, fsm_sendFailure
  PROVE  HandlersInv'
<1>1. /\ Now("Failure") /\ aborted' = FALSE /\ UNCHANGED <<device, node>>
      /\ Returns(Append(Top.answers, IF aborted THEN "Features" ELSE "Failure"))
      /\ session' = IF aborted THEN session_clear(FALSE) ELSE session
  BY DEF fsm_sendFailure
<1>2. frames # <<>> /\ StateHolds /\ FramesHold  BY <1>1, NowFacts
<1>3. Answers(Top, request)  BY <1>2, TopHolds DEF FrameHolds
<1>4. PICK x : x = IF aborted THEN "Features" ELSE "Failure"  OBVIOUS
<1>5. PICK a : a = Append(Top.answers, x)  OBVIOUS
<1>6. Returns(a)  BY Zenon, <1>1, <1>4, <1>5
<1>7. /\ Len(a) = 1 \/ (request.type = "EthereumVerifyMessage" /\ request.malformed)
      /\ Range(a) \subseteq {"Failure", x}
  BY Zenon, <1>3, <1>5, OneMore
<1>8. "own" \notin Range(a) /\ "Success" \notin Range(a) /\ ("Features" \in Range(a) => aborted)
  BY <1>4, <1>7
<1>9. /\ session' \in [pin : BOOLEAN, passphrase : {"none", "empty", "text"}, seed : BOOLEAN]
      /\ session'.pin = session.pin
  BY <1>1, <1>2, Cleared DEF StateHolds
<1>10. ~aborted' /\ aborted' \in BOOLEAN /\ device' = device /\ node' = node  BY <1>1
<1> QED  BY Zenon, <1>2, <1>6, <1>7, <1>8, <1>9, <1>10, Returned

LEMMA AnswerSent ==
  ASSUME HandlersInv, msg_write
  PROVE  HandlersInv'
<1>1. /\ Now("Answer") /\ UNCHANGED <<device, session, aborted, node>>
      /\ Returns(Append(Top.answers, step.what))
  BY DEF msg_write
<1>2. /\ frames # <<>> /\ StateHolds /\ FramesHold /\ step.op = "Answer" /\ ~aborted
      /\ Allowed(step, request)
  BY <1>1, NowFacts
<1>3. Answers(Top, request)  BY <1>2, TopHolds DEF FrameHolds
<1>4. PICK x : x = step.what  OBVIOUS
<1>5. PICK a : a = Append(Top.answers, x)  OBVIOUS
<1>6. Returns(a)  BY Zenon, <1>1, <1>4, <1>5
<1>7. /\ Len(a) = 1 \/ (request.type = "EthereumVerifyMessage" /\ request.malformed)
      /\ Range(a) \subseteq {"Failure", x}
  BY Zenon, <1>3, <1>5, OneMore
<1>8. "Features" \in Range(a) => request.type \in {"GetFeatures", "Initialize"}
  BY <1>2, <1>4, <1>7 DEF Allowed
<1>9. /\ session' \in [pin : BOOLEAN, passphrase : {"none", "empty", "text"}, seed : BOOLEAN]
      /\ session'.pin = session.pin /\ ~aborted' /\ aborted' \in BOOLEAN
      /\ device' = device /\ node' = node
  BY <1>1, <1>2 DEF StateHolds
<1>10. /\ ~Top.refused /\ Needs(request) \subseteq Top.confirmed
       /\ request.type \in KeyTypes => Pinned
       /\ request.type \in KeyedTypes /\ ~Top.disturbed
            => node = [decrypted |-> Once(Decrypts), derived |-> 1]
  <2>1. "Answer" \in {"Answer", "ClearSession"}  OBVIOUS
  <2> QED  BY Zenon, <1>1, <2>1, Ended
<1> QED  BY Zenon, <1>2, <1>6, <1>7, <1>8, <1>9, <1>10, Returned

LEMMA InitializeSent ==
  ASSUME HandlersInv, fsm_msgInitialize \/ fsm_msgClearSession
  PROVE  HandlersInv'
<1>1. StateHolds  BY DEF HandlersInv
<1>2. session_clear(FALSE).pin = session.pin
      /\ \A b \in BOOLEAN : session_clear(b)
           \in [pin : BOOLEAN, passphrase : {"none", "empty", "text"}, seed : BOOLEAN]
  BY <1>1, Cleared
<1>3. CASE fsm_msgInitialize
  <2>1. /\ Now("Initialize") /\ Returns(<<"Features">>) /\ UNCHANGED <<device, aborted, node>>
        /\ session' \in {session, session_clear(FALSE)}
    BY <1>3 DEF fsm_msgInitialize
  <2>2. frames # <<>> /\ request.type = "Initialize" /\ ~aborted
    BY <2>1, NowFacts DEF Allowed
  <2>3. PICK a : a = <<"Features">>  OBVIOUS
  <2>4. Returns(a)  BY Zenon, <2>1, <2>3
  <2>5. Len(a) = 1 /\ Range(a) = {"Features"}  BY <2>3, Tuples
  <2>6. "own" \notin Range(a) /\ "Success" \notin Range(a)  BY <2>5
  <2>7. /\ session' \in [pin : BOOLEAN, passphrase : {"none", "empty", "text"}, seed : BOOLEAN]
        /\ session'.pin = session.pin /\ ~aborted' /\ aborted' \in BOOLEAN
        /\ device' = device /\ node' = node
    BY <1>1, <1>2, <2>1, <2>2 DEF StateHolds
  <2>8. request.type \in {"GetFeatures", "Initialize"}  BY <2>2
  <2> QED  BY Zenon, <2>2, <2>4, <2>5, <2>6, <2>7, <2>8, Returned
<1>4. CASE fsm_msgClearSession
  <2>1. /\ Now("ClearSession") /\ Returns(<<"Success">>) /\ UNCHANGED <<device, aborted, node>>
        /\ session' = session_clear(TRUE)
    BY <1>4 DEF fsm_msgClearSession
  <2>2. frames # <<>> /\ request.type = "ClearSession" /\ ~aborted
    BY <2>1, NowFacts DEF Allowed
  <2>3. PICK a : a = <<"Success">>  OBVIOUS
  <2>4. Returns(a)  BY Zenon, <2>1, <2>3
  <2>5. Len(a) = 1 /\ Range(a) = {"Success"}  BY <2>3, Tuples
  <2>6. "Features" \notin Range(a) /\ request.type \notin KeyTypes  BY <2>2, <2>5 DEF KeyTypes
  <2>7. /\ session' \in [pin : BOOLEAN, passphrase : {"none", "empty", "text"}, seed : BOOLEAN]
        /\ ~aborted' /\ aborted' \in BOOLEAN /\ device' = device /\ node' = node
    BY <1>1, <1>2, <2>1, <2>2 DEF StateHolds
  <2>8. /\ ~Top.refused /\ Needs(request) \subseteq Top.confirmed
        /\ request.type \in KeyTypes => Pinned
        /\ request.type \in KeyedTypes /\ ~Top.disturbed
             => node = [decrypted |-> Once(Decrypts), derived |-> 1]
    <3>1. "ClearSession" \in {"Answer", "ClearSession"}  OBVIOUS
    <3> QED  BY Zenon, <2>1, <3>1, Ended
  <2> QED  BY Zenon, <2>2, <2>4, <2>5, <2>6, <2>7, <2>8, Returned
<1> QED  BY <1>3, <1>4

\* A handler that just returns.
LEMMA SilentReturned ==
  ASSUME HandlersInv, NEW op \in {"Hash", "Build"}, Now(op), Returns(Top.answers),
         UNCHANGED <<device, session, aborted, node>>, Silent(request)
  PROVE  HandlersInv'
<1>1. /\ frames # <<>> /\ StateHolds /\ FramesHold /\ ~aborted  BY NowFacts
<1>2. request.type # "EthereumVerifyMessage"  BY DEF Silent
<1>3. Answers(Top, request)  BY <1>1, TopHolds DEF FrameHolds
<1>4. PICK a : a = Top.answers  OBVIOUS
<1>5. a = <<>>  BY <1>2, <1>3, <1>4 DEF Answers
<1>6. Range(a) = {}  BY <1>5, Tuples
<1>7. "own" \notin Range(a) /\ "Success" \notin Range(a) /\ "Features" \notin Range(a)  BY <1>6
<1>8. /\ session' \in [pin : BOOLEAN, passphrase : {"none", "empty", "text"}, seed : BOOLEAN]
      /\ session'.pin = session.pin /\ ~aborted' /\ aborted' \in BOOLEAN
      /\ device' = device /\ node' = node
  BY <1>1 DEF StateHolds
<1>9. Returns(a)  BY Zenon, <1>4
<1> QED  BY Zenon, <1>1, <1>5, <1>7, <1>8, <1>9, Returned

\* A transaction that does not fit, and is no transfer, is not answered.
LEMMA FitsHold ==
  ASSUME HandlersInv, NemFits
  PROVE  HandlersInv'
<1>1. Now("Build")  BY DEF NemFits
<1>2. CASE Quiet /\ (Proceeds \/ Fails)  BY <1>1, <1>2, SignHolds
<1>3. CASE ~step.loud /\ Returns(Top.answers) /\ UNCHANGED <<device, session, aborted, node>>
  <2>1. step.op = "Build" /\ Allowed(step, request)  BY <1>1, NowFacts
  <2>2. request.type = "NEMSignTx" /\ request.tx.kind # "transfer"  BY <1>3, <2>1 DEF Allowed
  <2>3. Silent(request)  BY <2>2 DEF Silent
  <2> QED  BY <1>1, <1>3, <2>3, SilentReturned
<1> QED  BY <1>2, <1>3 DEF NemFits

\* Nor is a request for an address that cannot be had.
LEMMA HashedHolds ==
  ASSUME HandlersInv, Hashed
  PROVE  HandlersInv'
<1>1. Now("Hash")  BY DEF Hashed
<1>2. CASE Quiet /\ Proceeds  BY <1>1, <1>2, SignHolds
<1>3. CASE Returns(Top.answers) /\ UNCHANGED <<device, session, aborted, node>>
  <2>1. step.op = "Hash" /\ Allowed(step, request)  BY <1>1, NowFacts
  <2>2. Silent(request)  BY <2>1 DEF Allowed, Silent
  <2> QED  BY <1>1, <1>3, <2>2, SilentReturned
<1> QED  BY <1>2, <1>3 DEF Hashed

-----------------------------------------------------------------------------
(* The theorems.                                                           *)

LEMMA HandlersStart == Init => HandlersInv
<1> SUFFICES ASSUME Init PROVE HandlersInv  OBVIOUS
<1>1. StateHolds
  <2>1. device \in Devices({"none", "mnemonic", "node"})
    <3>1. CASE device = Empty  BY <3>1 DEF Empty, Devices
    <3>2. CASE device \in Devices({"mnemonic", "node"})  BY <3>2 DEF Devices
    <3> QED  BY <3>1, <3>2 DEF Init
  <2>2. session \in [pin : BOOLEAN, passphrase : {"none", "empty", "text"}, seed : BOOLEAN]
    BY DEF Init, NoSession
  <2> QED  BY <2>1, <2>2 DEF Init, StateHolds, Plain
<1>2. frames = <<>> /\ request = NoRequest /\ ~aborted  BY DEF Init
<1>3. IsList(frames) /\ DOMAIN frames = {}  BY <1>2, Tuples
<1>4. FramesHold  BY <1>2, <1>3 DEF FramesHold
<1>5. ~Answered  BY DEF Init, Answered, Nothing
<1>6. ~Served  BY <1>5 DEF Served
<1>7. LastHolds
  BY <1>5, <1>6 DEF LastHolds, AnswerNeedsConsent, NemShowsWhatItSigns, KeyIsTheStored
<1> QED  BY <1>1, <1>4, <1>7 DEF HandlersInv

LEMMA HandlersStutter ==
  ASSUME HandlersInv, UNCHANGED vars
  PROVE  HandlersInv'
<1>1. UNCHANGED <<device, session, aborted, request, frames, node, screen, last>>
  BY DEF vars
<1>2. StateHolds'  BY <1>1 DEF HandlersInv, StateHolds
<1>3. Top' = Top  BY <1>1 DEF Top
<1>4. Pinned' = Pinned  BY <1>1 DEF Pinned
<1>5. Decrypts' = Decrypts  BY <1>1 DEF Decrypts
<1>6. FramesHold'  BY <1>1, <1>3, <1>4, <1>5 DEF HandlersInv, FramesHold
<1> QED  BY <1>1, <1>2, <1>6, LastStays DEF HandlersInv

LEMMA HandlersStep == HandlersInv /\ [Next]_vars => HandlersInv'
<1> SUFFICES ASSUME HandlersInv, [Next]_vars PROVE HandlersInv'  OBVIOUS
<1>1. CASE UNCHANGED vars  BY <1>1, HandlersStutter
<1>2. CASE \E r \in Requests : Receive(r)  BY <1>2, ReceiveHolds
<1>3. CASE CheckParam \/ CHECK_INITIALIZED \/ CHECK_NOT_INITIALIZED \/ CHECK_NO_PIN
  BY <1>3, ChecksHold
<1>4. CASE PinCached \/ PinAsked  BY <1>4, PinsHold
<1>5. CASE protectButton \/ fsm_layoutAddress  BY <1>5, DialogsHold
<1>6. CASE protectPassphrase  BY <1>6, PassphraseHolds
<1>7. CASE storage_getRootNode  BY <1>7, GetRootHolds
<1>8. CASE storage_loadNode  BY <1>8, LoadNodeHolds
<1>9. CASE get_root_node_callback \/ Decrypt \/ fsm_getDerivedNode  BY <1>9, NodeStepsHold
<1>10. CASE Reenter  BY <1>10, ReenterHolds
<1>11. CASE Sign  BY <1>11, SignHolds DEF Sign
<1>21. CASE Hashed  BY <1>21, HashedHolds
<1>12. CASE NemFits  BY <1>12, FitsHold
<1>13. CASE RemovePin \/ protectChangePin \/ storage_wipe \/ storage_loadDevice
  BY <1>13, EffectsHold
<1>14. CASE ApplySettings  BY <1>14, SettingsHold
<1>15. CASE Malformed  BY <1>15, MalformedHolds
<1>16. CASE fsm_sendFailure  BY <1>16, FailureSent
<1>17. CASE msg_write  BY <1>17, AnswerSent
<1>18. CASE fsm_msgInitialize \/ fsm_msgClearSession  BY <1>18, InitializeSent
<1>19. CASE Lock  BY <1>19, LockHolds
<1>20. CASE Next
  BY Zenon, <1>2, <1>3, <1>4, <1>5, <1>6, <1>7, <1>8, <1>9, <1>10, <1>11, <1>12, <1>13,
     <1>14, <1>15, <1>16, <1>17, <1>18, <1>19, <1>20, <1>21 DEF Next
<1> QED  BY <1>1, <1>20

\* What every reachable state satisfies: how far each running handler has come with the
\* consent, the PIN and the key that its answer needs (fsm.c).
THEOREM HandlersHold == Spec => []HandlersInv
<1>1. Init => HandlersInv  BY HandlersStart
<1>2. HandlersInv /\ [Next]_vars => HandlersInv'  BY HandlersStep
<1> QED  BY <1>1, <1>2, PTL DEF Spec

\* Each time a request is handled the host gets one answer, but for the handlers that
\* OneAnswer names; a request is handled once, unless a packet came while the device was
\* waking up (storage.c:706); and an Initialize inside a dialog is not left over for the
\* next request (fsm_sendFailure).
THEOREM RequestsAreAnsweredOnce == Spec => []OneAnswer
<1>1. HandlersInv => OneAnswer
  <2> SUFFICES ASSUME HandlersInv, Answered
               PROVE  /\ \/ Len(last.answers) = 1
                         \/ last.answers = <<>> /\ Silent(last.request)
                         \/ last.request.type = "EthereumVerifyMessage" /\ last.request.malformed
                      /\ last.handled = 1 \/ last.disturbed
                      /\ Did("Features") =>
                           last.aborted \/ last.request.type \in {"GetFeatures", "Initialize"}
                      /\ ~aborted \/ frames # <<>>
    BY Zenon DEF OneAnswer
  <2>1. ~aborted \/ frames # <<>>  BY DEF HandlersInv, FramesHold
  <2> QED  BY Zenon, <2>1 DEF HandlersInv, LastHolds
<1> QED  BY <1>1, HandlersHold, PTL

\* No request is served without the dialogs it needs, nor with the key without the PIN.
THEOREM AnswersHaveConsent == Spec => []AnswerNeedsConsent
<1>1. HandlersInv => AnswerNeedsConsent  BY DEF HandlersInv, LastHolds
<1> QED  BY <1>1, HandlersHold, PTL

\* Every part of a NEM transaction that gets signed was shown and agreed to, for every
\* list of mosaics and every combination of fields, but for the parts that Unshown names:
\* the timestamps and deadlines, the sinks, the remote account, the name of a namespace
\* without a parent, and what is written for an encrypted payload that is empty (nem2.c).
THEOREM SignedNemPartsAreShown == Spec => []NemShowsWhatItSigns
<1>1. HandlersInv => NemShowsWhatItSigns  BY DEF HandlersInv, LastHolds
<1> QED  BY <1>1, HandlersHold, PTL

\* The key of an answer is the stored node, decrypted once and derived once, for any
\* passphrase, unless a packet came while its handler was waking the device up (fsm_getDerivedNode, storage_getRootNode).
THEOREM AnswersUseTheStoredKey == Spec => []KeyIsTheStored
<1>1. HandlersInv => KeyIsTheStored  BY DEF HandlersInv, LastHolds
<1> QED  BY <1>1, HandlersHold, PTL

\* Canonicalizing puts the mosaics of any transfer in order and adds up the duplicates,
\* modulo the width of a quantity (nem_canonicalizeMosaics).
THEOREM MosaicsBecomeCanonical == Spec => []CanonicalMosaics
<1>1. HandlersInv => CanonicalMosaics
  <2> SUFFICES ASSUME HandlersInv, request.type = "NEMSignTx", request.tx.kind = "transfer"
               PROVE  LET s == request.tx.mosaics  c == nem_canonicalizeMosaics(s)
                          names(t) == {t[i].name : i \in DOMAIN t}
                      IN /\ names(c) = names(s)
                         /\ \A i, j \in DOMAIN c : i < j => c[i].name < c[j].name
                         /\ \A i \in DOMAIN c : c[i].quantity = Total(s, c[i].name)
    BY Zenon DEF CanonicalMosaics
  <2>1. request \in Requests  BY DEF HandlersInv, FramesHold, NoRequest
  <2>2. request.tx \in Transactions  BY <2>1, HandlersAssumption
  <2>3. request.tx.mosaics \in Seq(Mosaics)
    <3>1. PICK t : t = request.tx  OBVIOUS
    <3>2. t \in [kind : {"transfer"}, lacks : SUBSET STRING, mosaics : Seq(Mosaics),
                 payload : BOOLEAN, encrypted : BOOLEAN]
      BY <2>2, <3>1 DEF Transactions
    <3> QED  BY <3>1, <3>2
  <2> QED  BY Zenon, <2>3, CanonicalFacts DEF NamesOf
<1> QED  BY <1>1, HandlersHold, PTL
=============================================================================
