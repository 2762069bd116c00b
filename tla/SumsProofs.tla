----------------------------- MODULE SumsProofs -----------------------------
(***************************************************************************)
(* What the sum of a sequence is when a number is added to it or taken off *)
(* it, which is what its uses need: a message that is sent and received    *)
(* (SelfTest), a record that is read (ArchiveScan).                        *)
(***************************************************************************)
EXTENDS Sums, Integers, WellFoundedInduction, TLAPS

(***************************************************************************)
(* Induction, of sets of naturals: the library's theorems of induction     *)
(* take a predicate, this one a set.                                       *)
(***************************************************************************)

LEMMA LeastNatural ==
    ASSUME NEW S, S \subseteq Nat, S # {}
    PROVE  \E n \in S : \A m \in S : ~(m < n)
<1> DEFINE R == OpToRel(LAMBDA x, y : x < y, Nat)
<1>1. IsWellFoundedOn(R, Nat)
  BY NatLessThanWellFounded
<1>2. PICK n \in S : \A m \in S : <<m, n>> \notin R
  <2> HIDE DEF R
  <2> QED BY <1>1, WFMin
<1>3. ASSUME NEW m \in S, m < n PROVE FALSE
  <2>1. <<m, n>> \in R
    BY <1>3 DEF OpToRel
  <2> QED BY <2>1, <1>2
<1> QED BY <1>3

LEMMA SetInduction ==
    ASSUME NEW S, 0 \in S, \A n \in Nat : n \in S => n + 1 \in S
    PROVE  Nat \subseteq S
<1> SUFFICES ASSUME Nat \ S # {} PROVE FALSE
  OBVIOUS
<1>1. PICK n \in Nat \ S : \A m \in Nat \ S : ~(m < n)
  BY LeastNatural
<1>2. n # 0 /\ n - 1 \in Nat /\ n - 1 \in S
  BY <1>1
<1> QED BY <1>1, <1>2

(***************************************************************************)
(* Sums.                                                                   *)
(***************************************************************************)

\* f adds the first numbers of w up, one by one.
AddsTo(f, w, m) ==
    /\ f \in [0..m -> Nat]
    /\ f[0] = 0
    /\ \A n \in 1..m : f[n] = f[n - 1] + w[n]
AddsUp(f, w) == AddsTo(f, w, Len(w))

LEMMA SumExists ==
    ASSUME NEW w \in Seq(Nat)
    PROVE  \E f : AddsUp(f, w)
<1> DEFINE S == {n \in Nat : n <= Len(w) => \E f : AddsTo(f, w, n)}
<1>1. 0 \in S
  <2> DEFINE f == [k \in 0..0 |-> 0]
  <2>1. AddsTo(f, w, 0)
    BY DEF AddsTo
  <2> QED BY <2>1
<1>2. ASSUME NEW n \in Nat, n \in S PROVE n + 1 \in S
  <2> SUFFICES ASSUME n + 1 <= Len(w) PROVE \E g : AddsTo(g, w, n + 1)
    OBVIOUS
  <2>1. n <= Len(w)
    OBVIOUS
  <2>2. PICK f : AddsTo(f, w, n)
    BY <1>2, <2>1
  <2>3. n + 1 \in 1..Len(w) /\ w[n + 1] \in Nat /\ f[n] \in Nat
    BY <2>2 DEF AddsTo
  <2> DEFINE g == [k \in 0..(n + 1) |-> IF k <= n THEN f[k] ELSE f[n] + w[n + 1]]
  <2>4. g \in [0..(n + 1) -> Nat] /\ g[0] = 0
    BY <2>2, <2>3 DEF AddsTo
  <2>5. ASSUME NEW k \in 1..(n + 1) PROVE g[k] = g[k - 1] + w[k]
    <3>1. CASE k <= n
      BY <2>2, <3>1 DEF AddsTo
    <3>2. CASE k = n + 1
      BY <3>2
    <3> QED BY <3>1, <3>2
  <2>6. AddsTo(g, w, n + 1)
    <3> HIDE DEF g
    <3> QED BY <2>4, <2>5 DEF AddsTo
  <2> QED BY <2>6
<1>3. Nat \subseteq S
  <2> HIDE DEF S
  <2> QED BY <1>1, <1>2, SetInduction
<1>4. Len(w) \in S
  <2> HIDE DEF S
  <2>1. Len(w) \in Nat
    OBVIOUS
  <2> QED BY <1>3, <2>1
<1> QED BY <1>4 DEF AddsUp

LEMMA SumUnique ==
    ASSUME NEW w \in Seq(Nat), NEW f, NEW g, AddsUp(f, w),
           g = [n \in 0..Len(w) |-> IF n = 0 THEN 0 ELSE g[n - 1] + w[n]]
    PROVE  g = f
<1> DEFINE S == {n \in Nat : n <= Len(w) => g[n] = f[n]}
<1>1. 0 \in S
  BY DEF AddsUp, AddsTo
<1>2. ASSUME NEW n \in Nat, n \in S PROVE n + 1 \in S
  <2> SUFFICES ASSUME n + 1 <= Len(w) PROVE g[n + 1] = f[n + 1]
    OBVIOUS
  <2>1. g[n] = f[n]
    BY <1>2
  <2>2. n + 1 \in 1..Len(w) /\ n + 1 \in 0..Len(w) /\ n + 1 # 0 /\ (n + 1) - 1 = n
    OBVIOUS
  <2>3. g[n + 1] = g[n] + w[n + 1]
    BY <2>2
  <2>4. f[n + 1] = f[n] + w[n + 1]
    BY <2>2 DEF AddsUp, AddsTo
  <2> QED BY <2>1, <2>3, <2>4
<1>3. Nat \subseteq S
  <2> HIDE DEF S
  <2> QED BY <1>1, <1>2, SetInduction
<1>4. ASSUME NEW n \in 0..Len(w) PROVE g[n] = f[n]
  <2>1. n \in S
    <3> HIDE DEF S
    <3>1. n \in Nat
      OBVIOUS
    <3> QED BY <1>3, <3>1
  <2> QED BY <2>1
<1>5. f \in [0..Len(w) -> Nat]
  BY DEF AddsUp, AddsTo
<1>6. g = [n \in 0..Len(w) |-> g[n]]
  OBVIOUS
<1> QED BY <1>4, <1>5, <1>6

LEMMA SumIs ==
    ASSUME NEW w \in Seq(Nat), NEW f, AddsUp(f, w)
    PROVE  SumSeq(w) = f[Len(w)]
<1> DEFINE step(g) == [n \in 0..Len(w) |-> IF n = 0 THEN 0 ELSE g[n - 1] + w[n]]
           sum == CHOOSE g : g = step(g)
<1>1. f = step(f)
  <2>1. \A n \in 0..Len(w) : f[n] = step(f)[n]
    BY DEF AddsUp, AddsTo
  <2>2. f \in [0..Len(w) -> Nat] /\ f = [n \in 0..Len(w) |-> f[n]]
    BY DEF AddsUp, AddsTo
  <2> QED BY <2>1, <2>2
<1>2. sum = step(sum)
  <2> HIDE DEF step
  <2> QED BY <1>1
<1>3. sum = f
  <2> HIDE DEF sum
  <2> QED BY <1>2, SumUnique
<1>4. SumSeq(w) = sum[Len(w)]
  BY DEF SumSeq
<1> QED BY <1>3, <1>4

LEMMA SumNat ==
    ASSUME NEW w \in Seq(Nat)
    PROVE  SumSeq(w) \in Nat
<1>1. PICK f : AddsUp(f, w)
  BY SumExists
<1>2. Len(w) \in 0..Len(w)
  OBVIOUS
<1> QED BY <1>1, <1>2, SumIs DEF AddsUp, AddsTo

LEMMA SumEmpty == SumSeq(<<>>) = 0
<1>1. <<>> \in Seq(Nat) /\ Len(<<>>) = 0
  OBVIOUS
<1>2. PICK f : AddsUp(f, <<>>)
  BY <1>1, SumExists
<1> QED BY <1>1, <1>2, SumIs DEF AddsUp, AddsTo

LEMMA SumAppend ==
    ASSUME NEW w \in Seq(Nat), NEW x \in Nat
    PROVE  SumSeq(Append(w, x)) = SumSeq(w) + x
<1> DEFINE n == Len(w)
           v == Append(w, x)
<1>0. v \in Seq(Nat) /\ Len(v) = n + 1 /\ n \in Nat /\ v[n + 1] = x
      /\ \A k \in 1..n : v[k] = w[k]
  OBVIOUS
<1>1. PICK f : AddsUp(f, w)
  BY SumExists
<1>2. f \in [0..n -> Nat] /\ f[0] = 0 /\ \A k \in 1..n : f[k] = f[k - 1] + w[k]
  BY <1>1 DEF AddsUp, AddsTo
<1> DEFINE g == [k \in 0..(n + 1) |-> IF k <= n THEN f[k] ELSE f[n] + x]
<1> HIDE DEF v, n
<1>3. g \in [0..(n + 1) -> Nat] /\ g[0] = 0 /\ g[n + 1] = f[n] + x
  BY <1>0, <1>2
<1>4. ASSUME NEW k \in 1..(n + 1) PROVE g[k] = g[k - 1] + v[k]
  <2>1. CASE k <= n
    BY <1>0, <1>2, <2>1
  <2>2. CASE k = n + 1
    BY <1>0, <2>2
  <2> QED BY <1>0, <2>1, <2>2
<1>5. AddsUp(g, v)
  <2> HIDE DEF g
  <2> QED BY <1>0, <1>3, <1>4 DEF AddsUp, AddsTo
<1>6. SumSeq(v) = g[n + 1] /\ SumSeq(w) = f[n]
  <2> HIDE DEF g
  <2> QED BY <1>0, <1>1, <1>5, SumIs DEF n
<1> QED BY <1>3, <1>6 DEF v

LEMMA SumTail ==
    ASSUME NEW w \in Seq(Nat), w # <<>>
    PROVE  SumSeq(w) = Head(w) + SumSeq(Tail(w))
<1> DEFINE n == Len(w)
           v == Tail(w)
<1>0. v \in Seq(Nat) /\ Len(v) = n - 1 /\ n \in Nat \ {0} /\ Head(w) = w[1] /\ w[1] \in Nat
      /\ \A k \in 2..n : v[k - 1] = w[k] /\ w[k] \in Nat
  OBVIOUS
<1>1. PICK f : AddsUp(f, v)
  BY <1>0, SumExists
<1> HIDE DEF v, n
<1>2. f \in [0..(n - 1) -> Nat] /\ f[0] = 0 /\ \A k \in 1..(n - 1) : f[k] = f[k - 1] + v[k]
  BY <1>0, <1>1 DEF AddsUp, AddsTo
<1> DEFINE g == [k \in 0..n |-> IF k = 0 THEN 0 ELSE w[1] + f[k - 1]]
<1>3. g \in [0..n -> Nat] /\ g[0] = 0 /\ g[n] = w[1] + f[n - 1]
  BY <1>0, <1>2
<1>4. ASSUME NEW k \in 1..n PROVE g[k] = g[k - 1] + w[k]
  <2>1. CASE k = 1
    BY <1>0, <1>2, <2>1
  <2>2. CASE k # 1
    <3>1. k \in 2..n /\ k - 1 \in 1..(n - 1) /\ k - 1 # 0
      BY <1>0, <2>2
    <3> DEFINE j == k - 1
    <3>2. f[j] = f[j - 1] + w[k]
      BY <1>0, <1>2, <3>1
    <3>3. g[k] = w[1] + f[j] /\ g[j] = w[1] + f[j - 1]
      BY <1>0, <3>1
    <3>4. f[j - 1] \in Nat /\ w[k] \in Nat
      <4>1. j - 1 \in 0..(n - 1)
        BY <1>0, <3>1
      <4> QED BY <1>0, <1>2, <3>1, <4>1
    <3>5. g[k] = g[j] + w[k]
      <4> HIDE DEF g, j
      <4> QED BY <1>0, <3>2, <3>3, <3>4
    <3> QED BY <3>5
  <2> QED BY <2>1, <2>2
<1>5. AddsUp(g, w)
  <2> HIDE DEF g
  <2> QED BY <1>0, <1>3, <1>4 DEF AddsUp, AddsTo, n
<1>6. SumSeq(w) = g[n] /\ SumSeq(v) = f[n - 1]
  <2> HIDE DEF g
  <2> QED BY <1>0, <1>1, <1>5, SumIs DEF n
<1> QED BY <1>0, <1>3, <1>6 DEF v

\* What was added last is in the sum.
LEMMA SumLast ==
    ASSUME NEW w \in Seq(Nat), w # <<>>
    PROVE  w[Len(w)] <= SumSeq(w)
<1>1. PICK f : AddsUp(f, w)
  BY SumExists
<1>2. Len(w) \in 1..Len(w) /\ Len(w) - 1 \in 0..Len(w) /\ w[Len(w)] \in Nat
  OBVIOUS
<1>3. f[Len(w)] = f[Len(w) - 1] + w[Len(w)] /\ f[Len(w) - 1] \in Nat
  BY <1>1, <1>2 DEF AddsUp, AddsTo
<1>4. SumSeq(w) = f[Len(w)]
  BY <1>1, SumIs
<1> QED BY <1>2, <1>3, <1>4

=============================================================================
