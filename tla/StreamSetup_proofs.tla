------------------------- MODULE StreamSetup_proofs -------------------------
(***************************************************************************)
(* Proofs about StreamSetup for any pool, any presets, files and typed      *)
(* equations, and every bound.                                              *)
(***************************************************************************)
EXTENDS StreamSetup, FiniteSetTheorems, SequenceTheorems, WellFoundedInduction, TLAPS

(***************************************************************************)
(* Lists.                                                                   *)
(***************************************************************************)
\* Induction over the numbers, for a set of them.
LEMMA NatByOne ==
  ASSUME NEW S, 0 \in S, \A n \in Nat : n \in S => n + 1 \in S
  PROVE  \A n \in Nat : n \in S
<1> DEFINE R == OpToRel(<, Nat)
<1> HIDE DEF R
<1> SUFFICES ASSUME Nat \ S # {} PROVE FALSE
  OBVIOUS
<1>1. PICK x \in Nat \ S : \A y \in Nat \ S : ~(<<y, x>> \in R)
  BY WFMin, NatLessThanWellFounded DEF R
<1>2. x - 1 \in Nat /\ x - 1 < x
  BY <1>1
<1>3. <<x - 1, x>> \in R
  BY <1>1, <1>2 DEF OpToRel, R
<1>4. x - 1 \in S
  BY <1>1, <1>2, <1>3
<1> QED
  BY <1>1, <1>2, <1>4

KeptUpTo(f, list, T, m) ==
  [n \in 0..m |-> IF n = 0 THEN <<>>
                  ELSE IF list[n] \in T THEN Append(f[n - 1], list[n]) ELSE f[n - 1]]

\* The function Kept is defined by exists, for a list of any length.
LEMMA KeptExists ==
  ASSUME NEW list, NEW T
  PROVE  \A m \in Nat : \E f : f = KeptUpTo(f, list, T, m)
<1> DEFINE S == {m \in Nat : \E f : f = KeptUpTo(f, list, T, m)}
<1>1. 0 \in S
  <2> DEFINE g == [n \in 0..0 |-> <<>>]
  <2>1. g = KeptUpTo(g, list, T, 0)
    BY DEF KeptUpTo
  <2> QED
    BY <2>1
<1>2. ASSUME NEW m \in Nat, m \in S PROVE m + 1 \in S
  <2>1. PICK f : f = KeptUpTo(f, list, T, m)
    BY <1>2
  <2> DEFINE g == [n \in 0..(m + 1) |->
                     IF n = m + 1
                     THEN IF list[n] \in T THEN Append(f[n - 1], list[n]) ELSE f[n - 1]
                     ELSE f[n]]
  <2>2. \A n \in 0..m : f[n] = IF n = 0 THEN <<>>
                  ELSE IF list[n] \in T THEN Append(f[n - 1], list[n]) ELSE f[n - 1]
    BY <2>1 DEF KeptUpTo
  <2>3. \A n \in 0..m : g[n] = f[n]
    OBVIOUS
  <2>4. \A n \in 0..(m + 1) : g[n] = KeptUpTo(g, list, T, m + 1)[n]
    <3> TAKE n \in 0..(m + 1)
    <3>1. CASE n = m + 1
      BY <3>1, <2>3 DEF KeptUpTo
    <3>2. CASE n \in 0..m
      <4>1. g[n] = f[n] /\ (n # 0 => g[n - 1] = f[n - 1])
        BY <3>2, <2>3
      <4> HIDE DEF g
      <4> QED
        BY <3>2, <2>2, <4>1 DEF KeptUpTo
    <3> QED
      BY <3>1, <3>2
  <2>5. g = KeptUpTo(g, list, T, m + 1)
    BY <2>4 DEF KeptUpTo
  <2> QED
    BY <2>5
<1> HIDE DEF S
<1>3. \A m \in Nat : m \in S
  BY <1>1, <1>2, NatByOne
<1> QED
  BY <1>3 DEF S

LEMMA KeptBySteps ==
  ASSUME NEW S, NEW list \in Seq(S), NEW T
  PROVE  \E f : /\ Kept(list, T) = f[Len(list)]
                /\ f[0] = <<>>
                /\ \A n \in 1..Len(list) :
                     f[n] = IF list[n] \in T THEN Append(f[n - 1], list[n]) ELSE f[n - 1]
<1> DEFINE f == CHOOSE f : f = KeptUpTo(f, list, T, Len(list))
<1>1. Kept(list, T) = f[Len(list)]
  BY DEF Kept, KeptUpTo
<1>2. f = KeptUpTo(f, list, T, Len(list))
  BY KeptExists
<1> HIDE DEF f
<1>3. \A n \in 0..Len(list) : f[n] = IF n = 0 THEN <<>>
              ELSE IF list[n] \in T THEN Append(f[n - 1], list[n]) ELSE f[n - 1]
  BY <1>2 DEF KeptUpTo
<1> QED
  BY <1>1, <1>3

\* e leads from the places of r to those of the elements of T among the first m.
Embeds(r, e, list, T, m) ==
  /\ \A k \in 1..Len(r) : e[k] \in 1..m
  /\ \A j, k \in 1..Len(r) : j < k => e[j] < e[k]
  /\ \A k \in 1..Len(r) : r[k] = list[e[k]] /\ r[k] \in T
  /\ \A i \in 1..m : list[i] \in T => \E k \in 1..Len(r) : e[k] = i

LEMMA EmbedsMore ==
  ASSUME NEW V, NEW list \in Seq(V), NEW T, NEW m \in Nat, m + 1 <= Len(list),
         NEW r \in Seq(V), NEW e, Embeds(r, e, list, T, m), list[m + 1] \in T
  PROVE  \E g : Embeds(Append(r, list[m + 1]), g, list, T, m + 1)
<1> DEFINE n == Len(r) + 1
           x == list[m + 1]
           g == [k \in 1..n |-> IF k = n THEN m + 1 ELSE e[k]]
           q == Append(r, x)
<1>1. x \in V /\ Len(r) \in Nat
  OBVIOUS
<1>2. q \in Seq(V) /\ Len(q) = n /\ q[n] = x /\ \A k \in 1..Len(r) : q[k] = r[k]
  BY <1>1
<1>3. /\ \A k \in 1..Len(r) : e[k] \in 1..m
      /\ \A j, k \in 1..Len(r) : j < k => e[j] < e[k]
      /\ \A k \in 1..Len(r) : r[k] = list[e[k]] /\ r[k] \in T
      /\ \A i \in 1..m : list[i] \in T => \E k \in 1..Len(r) : e[k] = i
  BY DEF Embeds
<1>4. g[n] = m + 1 /\ \A k \in 1..Len(r) : g[k] = e[k]
  BY <1>1
<1>5. \A k \in 1..n : k # n => k \in 1..Len(r)
  BY <1>1
<1>6. \A k \in 1..n : g[k] \in 1..(m + 1)
  <2> SUFFICES ASSUME NEW k \in 1..n PROVE g[k] \in 1..(m + 1)
    OBVIOUS
  <2>1. CASE k = n
    BY <2>1, <1>4
  <2>2. CASE k \in 1..Len(r)
    <3>1. g[k] = e[k] /\ e[k] \in 1..m
      BY <2>2, <1>3, <1>4
    <3> QED
      BY <3>1
  <2> QED
    BY <2>1, <2>2, <1>5
<1> HIDE DEF g, q
<1>7. \A j, k \in 1..n : j < k => g[j] < g[k]
  <2> SUFFICES ASSUME NEW j \in 1..n, NEW k \in 1..n, j < k PROVE g[j] < g[k]
    OBVIOUS
  <2>1. j \in 1..Len(r)
    BY <1>1
  <2>2. g[j] = e[j] /\ e[j] \in 1..m
    BY <2>1, <1>3, <1>4
  <2>3. CASE k = n
    BY <2>2, <2>3, <1>4
  <2>4. CASE k \in 1..Len(r)
    <3>1. g[k] = e[k] /\ e[j] < e[k]
      BY <2>1, <2>4, <1>3, <1>4
    <3> QED
      BY <2>2, <3>1
  <2> QED
    BY <2>3, <2>4, <1>5
<1>8. \A k \in 1..n : q[k] = list[g[k]] /\ q[k] \in T
  BY <1>2, <1>3, <1>4, <1>5
<1>9. \A i \in 1..(m + 1) : list[i] \in T => \E k \in 1..n : g[k] = i
  <2> SUFFICES ASSUME NEW i \in 1..(m + 1), list[i] \in T PROVE \E k \in 1..n : g[k] = i
    OBVIOUS
  <2>1. CASE i = m + 1
    BY <2>1, <1>4, <1>1
  <2>2. CASE i \in 1..m
    <3>1. PICK k \in 1..Len(r) : e[k] = i
      BY <2>2, <1>3
    <3> QED
      BY <3>1, <1>4, <1>1
  <2> QED
    BY <2>1, <2>2
<1>10. Embeds(q, g, list, T, m + 1)
  BY <1>2, <1>6, <1>7, <1>8, <1>9 DEF Embeds
<1> QED
  BY <1>10 DEF q

LEMMA EmbedsOn ==
  ASSUME NEW V, NEW list \in Seq(V), NEW T, NEW m \in Nat, m + 1 <= Len(list),
         NEW r \in Seq(V), NEW e, Embeds(r, e, list, T, m), list[m + 1] \notin T
  PROVE  Embeds(r, e, list, T, m + 1)
<1>1. /\ \A k \in 1..Len(r) : e[k] \in 1..m
      /\ \A j, k \in 1..Len(r) : j < k => e[j] < e[k]
      /\ \A k \in 1..Len(r) : r[k] = list[e[k]] /\ r[k] \in T
      /\ \A i \in 1..m : list[i] \in T => \E k \in 1..Len(r) : e[k] = i
  BY DEF Embeds
<1>2. 1..m \subseteq 1..(m + 1) /\ \A i \in 1..(m + 1) : i # m + 1 => i \in 1..m
  OBVIOUS
<1>3. \A i \in 1..(m + 1) : list[i] \in T => i \in 1..m
  BY <1>2
<1> QED
  BY <1>1, <1>2, <1>3 DEF Embeds

\* What is kept of a list: its elements of T, each from a place of its own.
LEMMA KeptEmbeds ==
  ASSUME NEW V, NEW list \in Seq(V), NEW T
  PROVE  /\ Kept(list, T) \in Seq(V)
         /\ Len(Kept(list, T)) <= Len(list)
         /\ \E e : Embeds(Kept(list, T), e, list, T, Len(list))
<1>1. PICK f : /\ Kept(list, T) = f[Len(list)]
               /\ f[0] = <<>>
               /\ \A n \in 1..Len(list) :
                    f[n] = IF list[n] \in T THEN Append(f[n - 1], list[n]) ELSE f[n - 1]
  BY KeptBySteps
<1> DEFINE Good(m) == /\ f[m] \in Seq(V)
                      /\ Len(f[m]) <= m
                      /\ \E e : Embeds(f[m], e, list, T, m)
           S == {m \in Nat : m <= Len(list) => Good(m)}
<1>2. Good(0)
  <2>1. f[0] \in Seq(V) /\ Len(f[0]) = 0
    BY <1>1
  <2>2. Embeds(f[0], <<>>, list, T, 0)
    BY <2>1 DEF Embeds
  <2> QED
    BY <2>1, <2>2
<1>3. ASSUME NEW m \in Nat, m + 1 <= Len(list), Good(m) PROVE Good(m + 1)
  <2>1. /\ f[m + 1] = IF list[m + 1] \in T THEN Append(f[m], list[m + 1]) ELSE f[m]
        /\ list[m + 1] \in V
    BY <1>1, <1>3
  <2>2. PICK e : Embeds(f[m], e, list, T, m)
    BY <1>3
  <2>3. CASE list[m + 1] \in T
    <3>1. \E g : Embeds(f[m + 1], g, list, T, m + 1)
      BY <2>1, <2>2, <2>3, <1>3, EmbedsMore
    <3>2. f[m + 1] \in Seq(V) /\ Len(f[m + 1]) = Len(f[m]) + 1
      BY <2>1, <2>3, <1>3
    <3> QED
      BY <3>1, <3>2, <1>3
  <2>4. CASE list[m + 1] \notin T
    <3>1. Embeds(f[m + 1], e, list, T, m + 1)
      BY <2>1, <2>2, <2>4, <1>3, EmbedsOn
    <3>2. f[m + 1] = f[m]
      BY <2>1, <2>4
    <3>3. Len(f[m]) \in Nat
      BY <1>3
    <3> QED
      BY <3>1, <3>2, <3>3, <1>3
  <2> QED
    BY <2>3, <2>4
<1> HIDE DEF Good
<1>4. 0 \in S
  BY <1>2
<1>5. ASSUME NEW m \in Nat, m \in S PROVE m + 1 \in S
  BY <1>5, <1>3
<1> HIDE DEF S
<1>6. Len(list) \in S /\ Len(list) \in Nat
  BY <1>4, <1>5, NatByOne
<1>7. Good(Len(list))
  BY <1>6 DEF S
<1> QED
  BY <1>7, <1>1 DEF Good

\* Every place of r has a place of list of its own, with the same element.
DrawnFrom(r, list) ==
  \E e : /\ \A k \in DOMAIN r : e[k] \in DOMAIN list /\ r[k] = list[e[k]]
         /\ \A j, k \in DOMAIN r : e[j] = e[k] => j = k

\* No id occurs twice.
Apart(chs) == \A i, j \in DOMAIN chs : chs[i].id = chs[j].id => i = j

LEMMA DrawnKeeps ==
  ASSUME NEW r, NEW list, DrawnFrom(r, list)
  PROVE  /\ IsInjective(list) => IsInjective(r)
         /\ Apart(list) => Apart(r)
         /\ ToSet(r) \subseteq ToSet(list)
         /\ IdsOf(r) \subseteq IdsOf(list)
<1>1. PICK e : /\ \A k \in DOMAIN r : e[k] \in DOMAIN list /\ r[k] = list[e[k]]
               /\ \A j, k \in DOMAIN r : e[j] = e[k] => j = k
  BY DEF DrawnFrom
<1>2. IsInjective(list) => IsInjective(r)
  BY <1>1 DEF IsInjective
<1>3. Apart(list) => Apart(r)
  BY <1>1 DEF Apart
<1>4. ToSet(r) \subseteq ToSet(list)
  BY <1>1 DEF ToSet
<1>5. IdsOf(r) \subseteq IdsOf(list)
  BY <1>1 DEF IdsOf
<1> QED
  BY <1>2, <1>3, <1>4, <1>5

LEMMA KeptDrawn ==
  ASSUME NEW V, NEW list \in Seq(V), NEW T
  PROVE  DrawnFrom(Kept(list, T), list)
<1> DEFINE r == Kept(list, T)
<1>1. r \in Seq(V)
  BY KeptEmbeds
<1>2. PICK e : Embeds(r, e, list, T, Len(list))
  BY KeptEmbeds
<1> HIDE DEF r
<1>3. /\ \A k \in 1..Len(r) : e[k] \in 1..Len(list)
      /\ \A j, k \in 1..Len(r) : j < k => e[j] < e[k]
      /\ \A k \in 1..Len(r) : r[k] = list[e[k]]
  BY <1>2 DEF Embeds
<1>4. DOMAIN r = 1..Len(r) /\ DOMAIN list = 1..Len(list) /\ Len(r) \in Nat /\ Len(list) \in Nat
  BY <1>1
<1>5. \A j, k \in 1..Len(r) : e[j] = e[k] => j = k
  <2> SUFFICES ASSUME NEW j \in 1..Len(r), NEW k \in 1..Len(r), e[j] = e[k], j # k
               PROVE  FALSE
    OBVIOUS
  <2>1. e[j] \in Int /\ e[k] \in Int
    BY <1>3, <1>4
  <2>2. j < k \/ k < j
    BY <1>4
  <2> QED
    BY <2>1, <2>2, <1>3
<1>6. DrawnFrom(r, list)
  BY <1>3, <1>4, <1>5 DEF DrawnFrom
<1> QED
  BY <1>6 DEF r

LEMMA KeptIs ==
  ASSUME NEW V, NEW list \in Seq(V), NEW T
  PROVE  /\ Kept(list, T) \in Seq(V)
         /\ Len(Kept(list, T)) <= Len(list)
         /\ ToSet(Kept(list, T)) = ToSet(list) \cap T
<1> DEFINE r == Kept(list, T)
<1>1. r \in Seq(V) /\ Len(r) <= Len(list)
  BY KeptEmbeds
<1>2. PICK e : Embeds(r, e, list, T, Len(list))
  BY KeptEmbeds
<1> HIDE DEF r
<1>3. /\ \A k \in 1..Len(r) : e[k] \in 1..Len(list)
      /\ \A k \in 1..Len(r) : r[k] = list[e[k]] /\ r[k] \in T
      /\ \A i \in 1..Len(list) : list[i] \in T => \E k \in 1..Len(r) : e[k] = i
  BY <1>2 DEF Embeds
<1>4. DOMAIN r = 1..Len(r) /\ DOMAIN list = 1..Len(list)
  BY <1>1
<1>5. ToSet(r) \subseteq ToSet(list) \cap T
  BY <1>3, <1>4 DEF ToSet
<1>6. ToSet(list) \cap T \subseteq ToSet(r)
  <2> SUFFICES ASSUME NEW i \in DOMAIN list, list[i] \in T PROVE list[i] \in ToSet(r)
    BY DEF ToSet
  <2>1. PICK k \in 1..Len(r) : e[k] = i
    BY <1>3, <1>4
  <2> QED
    BY <2>1, <1>3, <1>4 DEF ToSet
<1>7. /\ r \in Seq(V) /\ Len(r) <= Len(list)
      /\ ToSet(r) = ToSet(list) \cap T
  BY <1>1, <1>5, <1>6
<1> QED
  BY <1>7 DEF r

LEMMA DroppedIs ==
  ASSUME NEW V, NEW list \in Seq(V), NEW T
  PROVE  /\ Dropped(list, T) \in Seq(V)
         /\ Len(Dropped(list, T)) <= Len(list)
         /\ ToSet(Dropped(list, T)) = ToSet(list) \ T
         /\ DrawnFrom(Dropped(list, T), list)
<1>1. ToSet(list) \cap (ToSet(list) \ T) = ToSet(list) \ T
  OBVIOUS
<1> QED
  BY <1>1, KeptIs, KeptDrawn DEF Dropped

LEMMA PrefixIs ==
  ASSUME NEW V, NEW list \in Seq(V), NEW n \in Int, n <= Len(list)
  PROVE  /\ SubSeq(list, 1, n) \in Seq(V)
         /\ Len(SubSeq(list, 1, n)) = IF 1 <= n THEN n ELSE 0
         /\ \A i \in 1..n : SubSeq(list, 1, n)[i] = list[i]
         /\ DrawnFrom(SubSeq(list, 1, n), list)
<1> DEFINE r == SubSeq(list, 1, n)
<1>1. \A i \in 1..n : i \in 1..Len(list) /\ list[i] \in V
  OBVIOUS
<1>2. /\ r \in Seq(V) /\ Len(r) = IF 1 <= n THEN n - 1 + 1 ELSE 0
      /\ \A i \in 1..(n - 1 + 1) : r[i] = list[1 + i - 1]
  BY <1>1, SubSeqProperties, SMTT(30)
<1> HIDE DEF r
<1>3. n - 1 + 1 = n /\ \A i \in 1..n : 1 + i - 1 = i
  OBVIOUS
<1>4. DOMAIN r = 1..n
  <2>1. DOMAIN r = 1..Len(r)
    BY <1>2
  <2> QED
    BY <2>1, <1>2
<1>5. \A i \in 1..n : r[i] = list[i]
  BY <1>2, <1>3
<1>6. DrawnFrom(r, list)
  <2> DEFINE e == [k \in 1..n |-> k]
  <2>1. \A k \in DOMAIN r : e[k] = k /\ k \in DOMAIN list
    BY <1>4, <1>1
  <2> HIDE DEF e
  <2> QED
    BY <2>1, <1>4, <1>5 DEF DrawnFrom
<1>7. Len(r) = IF 1 <= n THEN n ELSE 0
  BY <1>2, <1>3
<1> QED
  BY <1>2, <1>5, <1>6, <1>7 DEF r

LEMMA CutIs ==
  ASSUME NEW V, NEW list \in Seq(V), NEW n \in Nat
  PROVE  /\ Cut(list, n) \in Seq(V)
         /\ Len(Cut(list, n)) <= n
         /\ DrawnFrom(Cut(list, n), list)
<1> DEFINE m == IF n < Len(list) THEN n ELSE Len(list)
<1>1. m \in Nat /\ m <= Len(list) /\ m <= n /\ (IF 1 <= m THEN m ELSE 0) <= n
  OBVIOUS
<1>2. Cut(list, n) = SubSeq(list, 1, m)
  BY DEF Cut
<1> HIDE DEF m
<1>3. /\ SubSeq(list, 1, m) \in Seq(V)
      /\ Len(SubSeq(list, 1, m)) = IF 1 <= m THEN m ELSE 0
      /\ DrawnFrom(SubSeq(list, 1, m), list)
  <2>1. m \in Int
    BY <1>1
  <2> QED
    BY <2>1, <1>1, PrefixIs
<1>4. Len(Cut(list, n)) <= n
  BY <1>1, <1>2, <1>3
<1> QED
  BY <1>2, <1>3, <1>4

LEMMA RemoveAtIs ==
  ASSUME NEW V, NEW list \in Seq(V), NEW i \in DOMAIN list
  PROVE  /\ RemoveAt(list, i) \in Seq(V)
         /\ Len(RemoveAt(list, i)) = Len(list) - 1
         /\ \A k \in 1..(Len(list) - 1) :
              RemoveAt(list, i)[k] = list[IF k < i THEN k ELSE k + 1]
<1> DEFINE a == SubSeq(list, 1, i - 1)
           b == SubSeq(list, i + 1, Len(list))
<1>1. i \in 1..Len(list) /\ Len(list) \in Nat
  OBVIOUS
<1>2. /\ a \in Seq(V) /\ Len(a) = i - 1
      /\ \A k \in 1..(i - 1) : a[k] = list[k]
  <2>1. i - 1 \in Int /\ i - 1 <= Len(list) /\ (IF 1 <= i - 1 THEN i - 1 ELSE 0) = i - 1
    BY <1>1
  <2> QED
    BY <2>1, PrefixIs
<1>3. /\ b \in Seq(V) /\ Len(b) = Len(list) - i
      /\ \A k \in 1..(Len(list) - i) : b[k] = list[i + k]
  <2>1. /\ i + 1 \in Int /\ Len(list) \in Int
        /\ \A k \in (i + 1)..Len(list) : list[k] \in V
    BY <1>1
  <2>2. /\ b \in Seq(V)
        /\ Len(b) = IF i + 1 <= Len(list) THEN Len(list) - (i + 1) + 1 ELSE 0
        /\ \A k \in 1..(Len(list) - (i + 1) + 1) : b[k] = list[(i + 1) + k - 1]
    BY <2>1, SubSeqProperties, SMTT(30)
  <2> HIDE DEF b
  <2>3. Len(list) - (i + 1) + 1 = Len(list) - i
    BY <1>1
  <2>4. ASSUME NEW k \in 1..(Len(list) - i) PROVE b[k] = list[i + k]
    <3>1. b[k] = list[(i + 1) + k - 1]
      BY <2>2, <2>3
    <3>2. (i + 1) + k - 1 = i + k
      BY <1>1
    <3> QED
      BY <3>1, <3>2
  <2>5. Len(b) = Len(list) - i
    <3>1. (IF i + 1 <= Len(list) THEN Len(list) - (i + 1) + 1 ELSE 0) = Len(list) - i
      BY <1>1
    <3> QED
      BY <2>2, <3>1
  <2> QED
    BY <2>2, <2>4, <2>5
<1>4. RemoveAt(list, i) = a \o b
  BY DEF RemoveAt
<1> HIDE DEF a, b
<1>5. /\ a \o b \in Seq(V)
      /\ Len(a \o b) = Len(a) + Len(b)
      /\ \A k \in 1..(Len(a) + Len(b)) :
           (a \o b)[k] = IF k <= Len(a) THEN a[k] ELSE b[k - Len(a)]
  BY <1>2, <1>3, ConcatProperties, ZenonT(30)
<1>6. Len(a) + Len(b) = Len(list) - 1
  BY <1>1, <1>2, <1>3
<1>7. \A k \in 1..(Len(list) - 1) : (a \o b)[k] = list[IF k < i THEN k ELSE k + 1]
  <2> SUFFICES ASSUME NEW k \in 1..(Len(list) - 1)
               PROVE  (a \o b)[k] = list[IF k < i THEN k ELSE k + 1]
    OBVIOUS
  <2>1. (a \o b)[k] = IF k <= Len(a) THEN a[k] ELSE b[k - Len(a)]
    BY <1>5, <1>6
  <2>2. CASE k < i
    <3>1. k <= Len(a) /\ k \in 1..(i - 1)
      BY <2>2, <1>1, <1>2
    <3> QED
      BY <2>1, <2>2, <3>1, <1>2
  <2>3. CASE ~(k < i)
    <3> DEFINE j == k - Len(a)
    <3>1. ~(k <= Len(a)) /\ j \in 1..(Len(list) - i) /\ i + j = k + 1
      BY <2>3, <1>1, <1>2
    <3>2. (a \o b)[k] = b[j]
      BY <2>1, <3>1
    <3> HIDE DEF j
    <3> QED
      BY <2>3, <3>1, <3>2, <1>3
  <2> QED
    BY <2>2, <2>3
<1> QED
  BY <1>4, <1>5, <1>6, <1>7

LEMMA RemoveAtDrawn ==
  ASSUME NEW V, NEW list \in Seq(V), NEW i \in DOMAIN list
  PROVE  DrawnFrom(RemoveAt(list, i), list)
<1> DEFINE r == RemoveAt(list, i)
           n == Len(list) - 1
           e == [k \in 1..n |-> IF k < i THEN k ELSE k + 1]
<1>1. i \in 1..Len(list) /\ Len(list) \in Nat /\ DOMAIN list = 1..Len(list)
  OBVIOUS
<1>2. r \in Seq(V) /\ Len(r) = n /\ \A k \in 1..n : r[k] = list[IF k < i THEN k ELSE k + 1]
  BY RemoveAtIs
<1> HIDE DEF r
<1>3. DOMAIN r = 1..n
  BY <1>2
<1>4. \A k \in 1..n : e[k] = IF k < i THEN k ELSE k + 1
  OBVIOUS
<1> HIDE DEF e
<1>5. \A k \in 1..n : e[k] \in DOMAIN list
  BY <1>1, <1>4
<1>6. \A j, k \in 1..n : e[j] = e[k] => j = k
  BY <1>1, <1>4
<1>7. \A k \in 1..n : r[k] = list[e[k]]
  BY <1>2, <1>4
<1>8. DrawnFrom(r, list)
  BY <1>3, <1>5, <1>6, <1>7 DEF DrawnFrom
<1> QED
  BY <1>8 DEF r

LEMMA ConcatIs ==
  ASSUME NEW V, NEW a \in Seq(V), NEW b \in Seq(V)
  PROVE  /\ a \o b \in Seq(V)
         /\ Len(a \o b) = Len(a) + Len(b)
         /\ \A k \in 1..Len(a) : (a \o b)[k] = a[k]
         /\ \A k \in 1..Len(b) : (a \o b)[Len(a) + k] = b[k]
         /\ \A k \in 1..Len(a \o b) : k \in 1..Len(a) \/ k - Len(a) \in 1..Len(b)
<1> DEFINE r == a \o b
<1>1. /\ r \in Seq(V)
      /\ Len(r) = Len(a) + Len(b)
      /\ \A k \in 1..(Len(a) + Len(b)) :
           r[k] = IF k <= Len(a) THEN a[k] ELSE b[k - Len(a)]
  BY ConcatProperties, ZenonT(30)
<1> HIDE DEF r
<1>2. Len(a) \in Nat /\ Len(b) \in Nat
  OBVIOUS
<1>3. \A k \in 1..Len(a) : r[k] = a[k]
  BY <1>1, <1>2
<1>4. ASSUME NEW k \in 1..Len(b) PROVE r[Len(a) + k] = b[k]
  <2> DEFINE j == Len(a) + k
  <2>1. j \in 1..(Len(a) + Len(b)) /\ ~(j <= Len(a)) /\ j - Len(a) = k
    BY <1>2
  <2> HIDE DEF j
  <2>2. r[j] = b[k]
    BY <2>1, <1>1
  <2> QED
    BY <2>2 DEF j
<1>5. \A k \in 1..Len(r) : k \in 1..Len(a) \/ k - Len(a) \in 1..Len(b)
  BY <1>1, <1>2
<1>6. /\ r \in Seq(V) /\ Len(r) = Len(a) + Len(b)
      /\ \A k \in 1..Len(a) : r[k] = a[k]
      /\ \A k \in 1..Len(b) : r[Len(a) + k] = b[k]
      /\ \A k \in 1..Len(r) : k \in 1..Len(a) \/ k - Len(a) \in 1..Len(b)
  BY <1>1, <1>3, <1>4, <1>5
<1> QED
  BY <1>6 DEF r

\* The same of a concatenation under a name.
Joined(a, b) == a \o b

LEMMA JoinedIs ==
  ASSUME NEW V, NEW a \in Seq(V), NEW b \in Seq(V)
  PROVE  /\ Joined(a, b) \in Seq(V)
         /\ Len(Joined(a, b)) = Len(a) + Len(b)
         /\ \A k \in 1..Len(a) : Joined(a, b)[k] = a[k]
         /\ \A k \in 1..Len(b) : Joined(a, b)[Len(a) + k] = b[k]
         /\ \A k \in 1..Len(Joined(a, b)) : k \in 1..Len(a) \/ k - Len(a) \in 1..Len(b)
  BY ConcatIs DEF Joined

\* Two lists one after the other.
LEMMA ConcatKeeps ==
  ASSUME NEW V, NEW a \in Seq(V), NEW b \in Seq(V)
  PROVE  /\ ToSet(a \o b) = ToSet(a) \cup ToSet(b)
         /\ IdsOf(a \o b) = IdsOf(a) \cup IdsOf(b)
         /\ IsInjective(a) /\ IsInjective(b) /\ ToSet(a) \cap ToSet(b) = {}
              => IsInjective(a \o b)
         /\ Apart(a) /\ Apart(b) /\ IdsOf(a) \cap IdsOf(b) = {} => Apart(a \o b)
<1> DEFINE r == a \o b
           n == Len(a)
<1>1. /\ r \in Seq(V) /\ Len(r) = n + Len(b)
      /\ \A k \in 1..n : r[k] = a[k]
      /\ \A k \in 1..Len(b) : r[n + k] = b[k]
      /\ \A k \in 1..Len(r) : k \in 1..n \/ k - n \in 1..Len(b)
  BY ConcatIs
<1>2. /\ DOMAIN a = 1..n /\ DOMAIN b = 1..Len(b) /\ n \in Nat /\ Len(b) \in Nat
  OBVIOUS
<1> HIDE DEF r, n
<1>3. DOMAIN r = 1..Len(r)
  BY <1>1
<1>4. \A k \in DOMAIN r : \/ k \in DOMAIN a /\ r[k] = a[k]
                          \/ k - n \in DOMAIN b /\ r[k] = b[k - n]
  <2> SUFFICES ASSUME NEW k \in DOMAIN r, k - n \in DOMAIN b
               PROVE  r[k] = b[k - n]
    BY <1>1, <1>2, <1>3
  <2>1. n + (k - n) = k
    BY <1>1, <1>2, <1>3
  <2> QED
    BY <2>1, <1>1, <1>2
<1>5. \A k \in DOMAIN a : k \in DOMAIN r /\ r[k] = a[k]
  BY <1>1, <1>2, <1>3
<1>6. \A k \in DOMAIN b : n + k \in DOMAIN r /\ r[n + k] = b[k]
  BY <1>1, <1>2, <1>3
<1>7. \A j, k \in DOMAIN r : j - n = k - n => j = k
  BY <1>1, <1>2, <1>3
<1>8. ToSet(r) = ToSet(a) \cup ToSet(b)
  <2>1. ASSUME NEW k \in DOMAIN r PROVE r[k] \in ToSet(a) \cup ToSet(b)
    BY <1>4 DEF ToSet
  <2>2. \A k \in DOMAIN a : a[k] \in ToSet(r)
    BY <1>5 DEF ToSet
  <2>3. \A k \in DOMAIN b : b[k] \in ToSet(r)
    BY <1>6 DEF ToSet
  <2> QED
    BY <2>1, <2>2, <2>3 DEF ToSet
<1>9. IdsOf(r) = IdsOf(a) \cup IdsOf(b)
  <2>1. ASSUME NEW k \in DOMAIN r PROVE r[k].id \in IdsOf(a) \cup IdsOf(b)
    BY <1>4 DEF IdsOf
  <2>2. \A k \in DOMAIN a : a[k].id \in IdsOf(r)
    BY <1>5 DEF IdsOf
  <2>3. \A k \in DOMAIN b : b[k].id \in IdsOf(r)
    BY <1>6 DEF IdsOf
  <2> QED
    BY <2>1, <2>2, <2>3 DEF IdsOf
<1>10. IsInjective(a) /\ IsInjective(b) /\ ToSet(a) \cap ToSet(b) = {} => IsInjective(r)
  <2> SUFFICES ASSUME IsInjective(a), IsInjective(b), ToSet(a) \cap ToSet(b) = {},
                      NEW j \in DOMAIN r, NEW k \in DOMAIN r, r[j] = r[k]
               PROVE  j = k
    BY DEF IsInjective
  <2>1. CASE j \in DOMAIN a /\ r[j] = a[j] /\ k \in DOMAIN a /\ r[k] = a[k]
    BY <2>1 DEF IsInjective
  <2>2. CASE /\ j - n \in DOMAIN b /\ r[j] = b[j - n]
             /\ k - n \in DOMAIN b /\ r[k] = b[k - n]
    BY <2>2, <1>7 DEF IsInjective
  <2>3. ASSUME NEW x \in DOMAIN a, NEW y \in DOMAIN b, a[x] = b[y] PROVE FALSE
    BY <2>3 DEF ToSet
  <2> QED
    BY <2>1, <2>2, <2>3, <1>4
<1>11. Apart(a) /\ Apart(b) /\ IdsOf(a) \cap IdsOf(b) = {} => Apart(r)
  <2> SUFFICES ASSUME Apart(a), Apart(b), IdsOf(a) \cap IdsOf(b) = {},
                      NEW j \in DOMAIN r, NEW k \in DOMAIN r, r[j].id = r[k].id
               PROVE  j = k
    BY DEF Apart
  <2>1. CASE j \in DOMAIN a /\ r[j] = a[j] /\ k \in DOMAIN a /\ r[k] = a[k]
    BY <2>1 DEF Apart
  <2>2. CASE /\ j - n \in DOMAIN b /\ r[j] = b[j - n]
             /\ k - n \in DOMAIN b /\ r[k] = b[k - n]
    BY <2>2, <1>7 DEF Apart
  <2>3. ASSUME NEW x \in DOMAIN a, NEW y \in DOMAIN b, a[x].id = b[y].id PROVE FALSE
    BY <2>3 DEF IdsOf
  <2> QED
    BY <2>1, <2>2, <2>3, <1>4
<1> QED
  BY <1>8, <1>9, <1>10, <1>11 DEF r

LEMMA InsertAtIs ==
  ASSUME NEW V, NEW list \in Seq(V), NEW i \in 1..(Len(list) + 1), NEW x \in V
  PROVE  /\ InsertAt(list, i, x) \in Seq(V)
         /\ Len(InsertAt(list, i, x)) = Len(list) + 1
         /\ \A k \in 1..(i - 1) : InsertAt(list, i, x)[k] = list[k]
         /\ InsertAt(list, i, x)[i] = x
         /\ \A k \in i..Len(list) : InsertAt(list, i, x)[k + 1] = list[k]
<1> DEFINE a == SubSeq(list, 1, i - 1)
           b == SubSeq(list, i, Len(list))
           c == a \o <<x>>
           r == Joined(c, b)
<1>1. Len(list) \in Nat /\ i - 1 \in Nat /\ i \in Int /\ i - 1 <= Len(list)
  OBVIOUS
<1>2. a \in Seq(V) /\ Len(a) = i - 1 /\ \A k \in 1..(i - 1) : a[k] = list[k]
  <2>1. i - 1 \in Int /\ (IF 1 <= i - 1 THEN i - 1 ELSE 0) = i - 1
    BY <1>1
  <2> QED
    BY <2>1, <1>1, PrefixIs
<1>3. b \in Seq(V) /\ Len(b) = Len(list) - i + 1 /\ \A k \in i..Len(list) : b[k - i + 1] = list[k]
  <2>1. /\ i \in Int /\ Len(list) \in Int
        /\ \A k \in i..Len(list) : list[k] \in V
    BY <1>1
  <2>2. /\ b \in Seq(V)
        /\ Len(b) = IF i <= Len(list) THEN Len(list) - i + 1 ELSE 0
        /\ \A k \in 1..(Len(list) - i + 1) : b[k] = list[i + k - 1]
    BY <2>1, SubSeqProperties, SMTT(30)
  <2> HIDE DEF b
  <2>3. (IF i <= Len(list) THEN Len(list) - i + 1 ELSE 0) = Len(list) - i + 1
    BY <1>1
  <2>4. ASSUME NEW k \in i..Len(list) PROVE b[k - i + 1] = list[k]
    <3> DEFINE j == k - i + 1
    <3>1. j \in 1..(Len(list) - i + 1) /\ i + j - 1 = k
      BY <1>1
    <3> HIDE DEF j
    <3>2. b[j] = list[k]
      BY <3>1, <2>2
    <3> QED
      BY <3>2 DEF j
  <2> QED
    BY <2>2, <2>3, <2>4
<1>4. InsertAt(list, i, x) = r
  BY DEF InsertAt, Joined
<1>5. <<x>> \in Seq(V) /\ Len(<<x>>) = 1 /\ <<x>>[1] = x
  OBVIOUS
<1> HIDE DEF a, b
<1>6. /\ c \in Seq(V) /\ Len(c) = i
      /\ \A k \in 1..(i - 1) : c[k] = list[k]
      /\ c[i] = x
  <2> DEFINE d == <<x>>
  <2>0. d \in Seq(V) /\ Len(d) = 1 /\ d[1] = x
    BY <1>5
  <2> HIDE DEF d
  <2>6. a \in Seq(V) /\ d \in Seq(V)
    BY <1>2, <2>0
  <2> DEFINE q == Joined(a, d)
  <2>1. /\ q \in Seq(V) /\ Len(q) = Len(a) + Len(d)
        /\ \A k \in 1..Len(a) : q[k] = a[k]
        /\ \A k \in 1..Len(d) : q[Len(a) + k] = d[k]
    BY <2>6, JoinedIs
  <2>3. /\ q \in Seq(V) /\ Len(q) = Len(a) + Len(d)
        /\ \A k \in 1..Len(a) : q[k] = a[k]
        /\ q[Len(a) + 1] = d[1]
    BY <2>1, <2>0
  <2> HIDE DEF q
  <2>4. Len(a) + Len(d) = i /\ Len(a) + 1 = i
    BY <1>1, <1>2, <2>0
  <2>5. q \in Seq(V) /\ Len(q) = i /\ (\A k \in 1..(i - 1) : q[k] = list[k]) /\ q[i] = x
    BY <2>0, <2>3, <2>4, <1>2
  <2> QED
    BY <2>5 DEF q, d, Joined
<1> HIDE DEF c
<1>12. b \in Seq(V) /\ c \in Seq(V)
  BY <1>3, <1>6
<1>7. /\ r \in Seq(V) /\ Len(r) = Len(c) + Len(b)
      /\ \A k \in 1..Len(c) : r[k] = c[k]
      /\ \A k \in 1..Len(b) : r[Len(c) + k] = b[k]
  BY <1>12, JoinedIs
<1> HIDE DEF r
<1>8. Len(r) = Len(list) + 1
  BY <1>1, <1>3, <1>6, <1>7
<1>9. /\ \A k \in 1..(i - 1) : r[k] = list[k]
      /\ r[i] = x
  BY <1>1, <1>6, <1>7
<1>10. ASSUME NEW k \in i..Len(list) PROVE r[k + 1] = list[k]
  <2>1. k - i + 1 \in 1..Len(b) /\ i + (k - i + 1) = k + 1
    BY <1>1, <1>3
  <2> QED
    BY <2>1, <1>3, <1>6, <1>7
<1>11. r \in Seq(V)
  BY <1>7
<1> QED
  BY <1>4, <1>11, <1>8, <1>9, <1>10 DEF r

LEMMA MovedIs ==
  ASSUME NEW V, NEW list \in Seq(V), NEW i \in DOMAIN list, NEW j \in DOMAIN list
  PROVE  /\ Moved(list, i, j) \in Seq(V)
         /\ Len(Moved(list, i, j)) = Len(list)
         /\ DrawnFrom(Moved(list, i, j), list)
<1> DEFINE a == RemoveAt(list, i)
           n == Len(list)
           r == InsertAt(a, j, list[i])
           e == [k \in 1..n |-> IF k = j THEN i
                                ELSE LET m == IF k < j THEN k ELSE k - 1
                                     IN  IF m < i THEN m ELSE m + 1]
<1>1. i \in 1..n /\ j \in 1..n /\ n \in Nat /\ DOMAIN list = 1..n /\ list[i] \in V
  OBVIOUS
<1>2. /\ a \in Seq(V) /\ Len(a) = n - 1
      /\ \A k \in 1..(n - 1) : a[k] = list[IF k < i THEN k ELSE k + 1]
  BY RemoveAtIs
<1>3. j \in 1..(Len(a) + 1) /\ Len(a) + 1 = n
  BY <1>1, <1>2
<1> HIDE DEF a, n
<1>11. a \in Seq(V) /\ j \in 1..(Len(a) + 1) /\ list[i] \in V
  BY <1>1, <1>2, <1>3
<1>4. /\ r \in Seq(V) /\ Len(r) = Len(a) + 1
      /\ \A k \in 1..(j - 1) : r[k] = a[k]
      /\ r[j] = list[i]
      /\ \A k \in j..Len(a) : r[k + 1] = a[k]
  BY SMTT(30), <1>11, InsertAtIs
<1> HIDE DEF r
<1>5. \A k \in 1..n : e[k] = IF k = j THEN i
                             ELSE IF k < j THEN IF k < i THEN k ELSE k + 1
                                           ELSE IF k - 1 < i THEN k - 1 ELSE k - 1 + 1
  OBVIOUS
<1> HIDE DEF e
<1>6. ASSUME NEW k \in 1..n PROVE r[k] = list[e[k]] /\ e[k] \in 1..n
  <2>1. CASE k = j
    BY <2>1, <1>1, <1>4, <1>5
  <2>2. CASE k < j
    <3>1. k \in 1..(j - 1) /\ k \in 1..(n - 1)
      BY <2>2, <1>1
    <3>2. e[k] = IF k < i THEN k ELSE k + 1
      BY <2>2, <1>1, <1>5
    <3>3. r[k] = list[IF k < i THEN k ELSE k + 1]
      BY <3>1, <1>2, <1>4
    <3>4. (IF k < i THEN k ELSE k + 1) \in 1..n
      BY <3>1, <1>1
    <3> QED
      BY <3>2, <3>3, <3>4
  <2>3. CASE j < k
    <3> DEFINE m == k - 1
    <3>1. m \in j..Len(a) /\ m \in 1..(n - 1) /\ m + 1 = k
      BY <2>3, <1>1, <1>3
    <3>2. e[k] = IF m < i THEN m ELSE m + 1
      BY <2>3, <1>1, <1>5
    <3> HIDE DEF m
    <3>3. r[k] = list[IF m < i THEN m ELSE m + 1]
      BY <3>1, <1>2, <1>4
    <3>4. (IF m < i THEN m ELSE m + 1) \in 1..n
      BY <3>1, <1>1
    <3> QED
      BY <3>2, <3>3, <3>4
  <2> QED
    BY <2>1, <2>2, <2>3, <1>1
<1>7. ASSUME NEW k \in 1..n, NEW l \in 1..n, e[k] = e[l] PROVE k = l
  <2> DEFINE Goes(m, q) == \/ m = j /\ q = i
                           \/ m < j /\ m < i /\ q = m
                           \/ m < j /\ m >= i /\ q = m + 1
                           \/ m > j /\ m - 1 < i /\ q = m - 1
                           \/ m > j /\ m - 1 >= i /\ q = m
  <2>1. ASSUME NEW m \in 1..n PROVE Goes(m, e[m])
    BY <1>1, <1>5
  <2>2. Goes(k, e[k]) /\ Goes(l, e[k])
    BY <1>7, <2>1
  <2>3. e[k] \in Int
    BY <1>1, <1>6
  <2> QED
    BY <1>1, <2>2, <2>3
<1>8. DOMAIN r = 1..n
  BY <1>3, <1>4
<1>9. DrawnFrom(r, list)
  BY SMTT(30), <1>1, <1>6, <1>7, <1>8 DEF DrawnFrom
<1>10. Moved(list, i, j) = r /\ Len(r) = n
  BY <1>3, <1>4 DEF Moved, r, a
<1> QED
  BY <1>4, <1>9, <1>10 DEF n

(***************************************************************************)
(* Sizes.                                                                   *)
(***************************************************************************)
\* A list without repetition is as long as its set is large.
LEMMA LenIsCard ==
  ASSUME NEW V, NEW list \in Seq(V), IsInjective(list)
  PROVE  IsFiniteSet(ToSet(list)) /\ Cardinality(ToSet(list)) = Len(list)
<1> DEFINE n == Len(list)
           f == [i \in 1..n |-> list[i]]
<1>1. n \in Nat /\ DOMAIN list = 1..n
  OBVIOUS
<1> HIDE DEF n
<1>2. f \in Bijection(1..n, ToSet(list))
  <2>1. f \in [1..n -> ToSet(list)]
    BY <1>1 DEF ToSet
  <2>2. \A j, k \in 1..n : f[j] = f[k] => j = k
    BY <1>1 DEF IsInjective
  <2>3. \A x \in ToSet(list) : \E k \in 1..n : f[k] = x
    BY <1>1 DEF ToSet
  <2> HIDE DEF f
  <2> QED
    BY <2>1, <2>2, <2>3 DEF Bijection, Injection, Surjection, IsInjective
<1>3. IsFiniteSet(1..n) /\ Cardinality(1..n) = n
  BY <1>1, FS_Interval
<1>4. ExistsBijection(1..n, ToSet(list))
  BY <1>2 DEF ExistsBijection
<1> QED
  BY <1>3, <1>4, FS_Bijection DEF n

\* A list of channels apart has as many ids.
LEMMA IdsCard ==
  ASSUME NEW V, NEW chs \in Seq(V), Apart(chs)
  PROVE  IsFiniteSet(IdsOf(chs)) /\ Cardinality(IdsOf(chs)) = Len(chs)
<1> DEFINE n == Len(chs)
           f == [i \in 1..n |-> chs[i].id]
<1>1. n \in Nat /\ DOMAIN chs = 1..n
  OBVIOUS
<1> HIDE DEF n
<1>2. f \in Bijection(1..n, IdsOf(chs))
  <2>1. f \in [1..n -> IdsOf(chs)]
    BY <1>1 DEF IdsOf
  <2>2. \A j, k \in 1..n : f[j] = f[k] => j = k
    BY <1>1 DEF Apart
  <2>3. \A x \in IdsOf(chs) : \E k \in 1..n : f[k] = x
    BY <1>1 DEF IdsOf
  <2> HIDE DEF f
  <2> QED
    BY <2>1, <2>2, <2>3 DEF Bijection, Injection, Surjection, IsInjective
<1>3. IsFiniteSet(1..n) /\ Cardinality(1..n) = n
  BY <1>1, FS_Interval
<1>4. ExistsBijection(1..n, IdsOf(chs))
  BY <1>2 DEF ExistsBijection
<1> QED
  BY <1>3, <1>4, FS_Bijection DEF n

LEMMA IdsFinite == IsFiniteSet(Ids) /\ Cardinality(Ids) \in Nat
<1>1. IsFiniteSet(ToSet(PoolOrder))
  BY OrdersAssumption, LenIsCard
<1>2. IsFiniteSet({Preset[i].id : i \in DOMAIN Preset})
  <2>1. Apart(Preset)
    BY PresetAssumption DEF Apart
  <2>2. IsFiniteSet(IdsOf(Preset))
    BY <2>1, PresetAssumption, IdsCard
  <2> QED
    BY <2>2 DEF IdsOf
<1>3. IsFiniteSet(Custom)
  BY SetupAssumption
<1>4. IsFiniteSet(Ids)
  BY <1>1, <1>2, <1>3, FS_Union DEF Ids
<1> QED
  BY <1>4, FS_CardinalityType

\* A list of the page, which has no channel twice, is one of Lists.
Listed(list) == list \in Seq(Ids) /\ IsInjective(list)

LEMMA ListedIs ==
  ASSUME NEW list, Listed(list)
  PROVE  list \in Lists
<1>1. list \in Seq(Ids) /\ IsInjective(list) /\ Len(list) \in Nat
  BY DEF Listed
<1>2. ToSet(list) \in SUBSET Ids
  BY <1>1 DEF ToSet
<1>3. Cardinality(ToSet(list)) <= Cardinality(Ids)
  BY <1>2, IdsFinite, FS_Subset
<1>4. Len(list) <= Cardinality(Ids)
  BY <1>1, <1>3, LenIsCard
<1>5. Len(list) \in 0..Cardinality(Ids)
  BY <1>1, <1>4, IdsFinite
<1>6. list \in [1..Len(list) -> Ids]
  BY <1>1
<1> QED
  BY <1>5, <1>6 DEF Lists

LEMMA AppendListed ==
  ASSUME NEW list, Listed(list), NEW id \in Ids, id \notin ToSet(list)
  PROVE  /\ Listed(Append(list, id))
         /\ ToSet(Append(list, id)) = ToSet(list) \cup {id}
<1> DEFINE r == Append(list, id)
           n == Len(list)
<1>1. list \in Seq(Ids) /\ IsInjective(list) /\ n \in Nat /\ DOMAIN list = 1..n
  BY DEF Listed
<1>2. /\ r \in Seq(Ids) /\ DOMAIN r = 1..(n + 1)
      /\ r[n + 1] = id /\ \A k \in 1..n : r[k] = list[k]
  BY <1>1
<1> HIDE DEF r, n
<1>3. \A k \in 1..(n + 1) : k \in 1..n \/ k = n + 1
  BY <1>1
<1>4. \A k \in 1..n : list[k] # id
  BY <1>1 DEF ToSet
<1>5. IsInjective(r)
  BY <1>1, <1>2, <1>3, <1>4 DEF IsInjective
<1>6. ToSet(r) = ToSet(list) \cup {id}
  <2>1. \A k \in 1..n : list[k] \in ToSet(r)
    BY <1>1, <1>2 DEF ToSet
  <2>2. id \in ToSet(r)
    BY <1>1, <1>2 DEF ToSet
  <2>3. \A k \in 1..(n + 1) : r[k] \in ToSet(list) \cup {id}
    BY <1>1, <1>2, <1>3 DEF ToSet
  <2> QED
    BY <1>1, <1>2, <2>1, <2>2, <2>3 DEF ToSet
<1> QED
  BY <1>2, <1>5, <1>6 DEF Listed, r

\* A list drawn from another one.
LEMMA DrawnListed ==
  ASSUME NEW list, Listed(list), NEW r \in Seq(Ids), DrawnFrom(r, list)
  PROVE  Listed(r) /\ ToSet(r) \subseteq ToSet(list)
  BY DrawnKeeps DEF Listed

LEMMA ChangedListed ==
  ASSUME NEW list, Listed(list), NEW i \in DOMAIN list, NEW id \in Ids
  PROVE  /\ Listed(ChangedAt(list, i, id))
         /\ ToSet(ChangedAt(list, i, id)) \subseteq ToSet(list) \cup {id}
<1> DEFINE r == ChangedAt(list, i, id)
<1>1. list \in Seq(Ids) /\ IsInjective(list) /\ DOMAIN list = 1..Len(list) /\ Len(list) \in Nat
  BY DEF Listed
<1>2. /\ DOMAIN r = DOMAIN list
      /\ \A k \in DOMAIN list : /\ k = i => r[k] = id
                                /\ k # i /\ list[k] = id => r[k] = list[i]
                                /\ k # i /\ list[k] # id => r[k] = list[k]
  BY DEF ChangedAt
<1>3. r = [k \in 1..Len(list) |-> r[k]]
  BY <1>1 DEF ChangedAt
<1> HIDE DEF r
<1>4. \A k \in DOMAIN list : r[k] \in Ids /\ r[k] \in ToSet(list) \cup {id}
  BY <1>1, <1>2 DEF ToSet
<1>5. r \in Seq(Ids)
  BY <1>1, <1>3, <1>4
<1>6. IsInjective(r)
  BY <1>1, <1>2 DEF IsInjective
<1>7. ToSet(r) \subseteq ToSet(list) \cup {id}
  BY <1>2, <1>4 DEF ToSet
<1> QED
  BY <1>5, <1>6, <1>7 DEF Listed, r

(***************************************************************************)
(* The pool.                                                                *)
(***************************************************************************)
Channels == [id : Ids, base : BOOLEAN, hz : SUBSET Waves]

\* A pool, one a standard may have, and its equations nobody typed.
AnyPool(chs) ==
  /\ chs \in Seq(Channels)
  /\ Apart(chs)
  /\ \A i \in DOMAIN chs : chs[i].base = (chs[i].id \in ToSet(PoolOrder))
  /\ ToSet(PoolOrder) \subseteq IdsOf(chs)
Pool(chs, std) == AnyPool(chs) /\ Len(chs) <= MaxChannels[std]
Tuned(chs, f, T) == \A i \in DOMAIN chs : chs[i].id \notin T => chs[i].hz \subseteq {f}

\* The same channels with other equations.
Rewritten(chs, r) ==
  /\ r \in Seq(Channels) /\ Len(r) = Len(chs)
  /\ \A i \in DOMAIN chs : r[i].id = chs[i].id
  /\ \A i \in DOMAIN chs : r[i].base = chs[i].base

LEMMA RewrittenPool ==
  ASSUME NEW chs, NEW std, Pool(chs, std), NEW r, Rewritten(chs, r)
  PROVE  Pool(r, std) /\ IdsOf(r) = IdsOf(chs) /\ DOMAIN r = DOMAIN chs
<1>1. /\ chs \in Seq(Channels) /\ Apart(chs)
      /\ \A i \in DOMAIN chs : chs[i].base = (chs[i].id \in ToSet(PoolOrder))
      /\ ToSet(PoolOrder) \subseteq IdsOf(chs) /\ Len(chs) <= MaxChannels[std]
  BY DEF Pool, AnyPool
<1>2. r \in Seq(Channels) /\ Len(r) = Len(chs)
  BY DEF Rewritten
<1>3. DOMAIN r = DOMAIN chs
  BY <1>1, <1>2
<1>4. \A i \in DOMAIN chs : r[i].id = chs[i].id
  BY DEF Rewritten
<1>5. \A i \in DOMAIN chs : r[i].base = chs[i].base
  BY DEF Rewritten
<1>6. Apart(r)
  BY <1>1, <1>3, <1>4 DEF Apart
<1>7. IdsOf(r) = IdsOf(chs)
  BY <1>3, <1>4 DEF IdsOf
<1>8. \A i \in DOMAIN r : r[i].base = (r[i].id \in ToSet(PoolOrder))
  BY <1>1, <1>3, <1>4, <1>5, Zenon
<1>9. Len(r) <= MaxChannels[std]
  BY <1>1, <1>2
<1> QED
  BY <1>1, <1>2, <1>3, <1>6, <1>7, <1>8, <1>9 DEF Pool, AnyPool

\* One channel with another equation.
LEMMA WithHz ==
  ASSUME NEW c \in Channels, NEW hz \in SUBSET Waves, NEW r, r = [c EXCEPT !.hz = hz]
  PROVE  r \in Channels /\ r.id = c.id /\ r.base = c.base /\ r.hz = hz
<1>1. /\ c.id \in Ids /\ c.base \in BOOLEAN
      /\ c = [id |-> c.id, base |-> c.base, hz |-> c.hz]
  BY Zenon DEF Channels
<1>2. r = [id |-> c.id, base |-> c.base, hz |-> hz]
  BY <1>1, Zenon
<1> QED
  BY <1>1, <1>2, Zenon DEF Channels

RetunedTo(chs, old, new) ==
  [i \in DOMAIN chs |-> [chs[i] EXCEPT !.hz = AtFrequency(@, old, new)]]

LEMMA RetunedIs ==
  ASSUME NEW chs \in Seq(Channels), NEW old \in Frequencies, NEW new \in Frequencies,
         NEW r, r = RetunedTo(chs, old, new)
  PROVE  /\ Rewritten(chs, r)
         /\ \A T : Tuned(chs, old, T) => Tuned(r, new, T)
<1>1. \A i \in DOMAIN chs : r[i] = [chs[i] EXCEPT !.hz = AtFrequency(chs[i].hz, old, new)]
  BY DEF RetunedTo
<1>2. DOMAIN r = DOMAIN chs /\ DOMAIN chs = 1..Len(chs) /\ Len(chs) \in Nat
  BY DEF RetunedTo
<1>3. r = [i \in 1..Len(chs) |-> r[i]]
  BY <1>2 DEF RetunedTo
<1>4. ASSUME NEW i \in DOMAIN chs
      PROVE  /\ r[i] \in Channels /\ r[i].id = chs[i].id /\ r[i].base = chs[i].base
             /\ r[i].hz = AtFrequency(chs[i].hz, old, new)
  <2>1. chs[i] \in Channels
    BY <1>2
  <2>2. chs[i].hz \subseteq Waves
    BY <2>1 DEF Channels
  <2>3. AtFrequency(chs[i].hz, old, new) \in SUBSET Waves
    BY <2>2 DEF AtFrequency, Waves
  <2> QED
    BY <1>1, <2>1, <2>3, WithHz
<1>5. r \in Seq(Channels) /\ Len(r) = Len(chs)
  BY <1>2, <1>3, <1>4
<1>6. Rewritten(chs, r)
  BY <1>4, <1>5 DEF Rewritten
<1>7. ASSUME NEW T, Tuned(chs, old, T) PROVE Tuned(r, new, T)
  BY <1>2, <1>4, <1>7 DEF Tuned, AtFrequency
<1> QED
  BY <1>6, <1>7

(***************************************************************************)
(* A change of the store, and the settings.                                 *)
(***************************************************************************)
Paths  == ConfigPaths \cup {"channels", "activeMu"}
Fields == Paths \cup {"dirty", "views"}

\* Settings of the right kind, and a rate that is their product.
Settings(s) ==
  /\ DOMAIN s = Fields
  /\ s.std \in Standards /\ s.freq \in Frequencies /\ s.spc \in Nat /\ s.asdu \in {1, 4}
  /\ s.rate = s.spc * s.freq

\* From s to r every path that changed is among those to announce, and the
\* subscribers have not been called.
Marked(s, r) ==
  /\ r.views = s.views
  /\ s.dirty \subseteq r.dirty
  /\ \A k \in Paths : k \notin r.dirty => r[k] = s[k]

LEMMA MarkedThen ==
  ASSUME NEW s, NEW m, NEW r, Marked(s, m), Marked(m, r)
  PROVE  Marked(s, r)
<1>1. r.views = s.views /\ s.dirty \subseteq m.dirty /\ m.dirty \subseteq r.dirty
  BY DEF Marked
<1>2. ASSUME NEW k \in Paths, k \notin r.dirty PROVE r[k] = s[k]
  BY <1>1, <1>2 DEF Marked
<1> QED
  BY <1>1, <1>2 DEF Marked

\* What setConfig() is called with.
Update(s, u) ==
  /\ DOMAIN u \subseteq ConfigPaths
  /\ "std" \in DOMAIN u => u["std"] \in Standards
  /\ "freq" \in DOMAIN u => u["freq"] \in Frequencies
  /\ "spc" \in DOMAIN u => u["spc"] \in Nat
  /\ "asdu" \in DOMAIN u => u["asdu"] \in {1, 4}
  /\ "rate" \in DOMAIN u => u["rate"] = Updated(s, u, "spc") * Updated(s, u, "freq")

\* The store in r is that in s but for the fields in S.
But(s, r, S) == DOMAIN r = Fields /\ \A k \in Fields \ S : r[k] = s[k]

LEMMA WrittenIs ==
  ASSUME NEW s, DOMAIN s = Fields, NEW u, DOMAIN u \subseteq ConfigPaths,
         NEW w, w = Written(s, u)
  PROVE  /\ But(s, w, ConfigPaths \cup {"dirty"})
         /\ \A k \in ConfigPaths : w[k] = Updated(s, u, k)
         /\ w.dirty = s.dirty \cup Changed(s, u)
         /\ Marked(s, w)
<1>1. DOMAIN w = Fields
  BY DEF Written
<1>2. w.channels = s.channels /\ w.activeMu = s.activeMu /\ w.views = s.views
  BY DEF Written, Fields, Paths, ConfigPaths
<1>3. w.dirty = s.dirty \cup Changed(s, u)
  BY DEF Written, Fields, Paths, ConfigPaths
<1>4. \A k \in ConfigPaths : w[k] = Updated(s, u, k)
  BY DEF Written, Fields, Paths, ConfigPaths
<1>5. But(s, w, ConfigPaths \cup {"dirty"})
  BY <1>1, <1>2 DEF But, Fields, Paths
<1>6. ASSUME NEW k \in ConfigPaths, k \notin w.dirty PROVE w[k] = s[k]
  BY <1>3, <1>4, <1>6 DEF Changed, Updated
<1>7. Marked(s, w)
  BY <1>2, <1>3, <1>6 DEF Marked, Paths
<1> QED
  BY <1>3, <1>4, <1>5, <1>7

LEMMA ButMarked ==
  ASSUME NEW s, NEW r, NEW S, But(s, r, S), s.dirty \subseteq r.dirty,
         \A k \in S : k = "dirty" \/ (k \in r.dirty /\ k # "views")
  PROVE  Marked(s, r)
<1>1. /\ DOMAIN r = Fields
      /\ \A k \in Fields : k \notin S => r[k] = s[k]
  BY DEF But
<1>2. r.views = s.views
  BY <1>1 DEF Fields
<1>3. ASSUME NEW k \in Paths, k \notin r.dirty PROVE r[k] = s[k]
  <2>1. k \in Fields /\ k # "dirty" /\ k \notin S
    BY <1>3 DEF Fields, Paths, ConfigPaths
  <2> QED
    BY <1>1, <2>1
<1> QED
  BY <1>2, <1>3 DEF Marked

LEMMA RateComputedIs ==
  ASSUME NEW s, DOMAIN s = Fields, NEW r, r = RateComputed(s)
  PROVE  /\ But(s, r, {"rate", "dirty"})
         /\ r.rate = r.spc * r.freq
         /\ Marked(s, r)
<1>1. CASE s.rate = s.spc * s.freq
  BY <1>1 DEF RateComputed, But, Marked
<1>2. CASE s.rate # s.spc * s.freq
  <2> DEFINE p == s.spc * s.freq
  <2>1. r = [s EXCEPT !.rate = p, !.dirty = s.dirty \cup {"rate"}]
    BY <1>2 DEF RateComputed
  <2> HIDE DEF p
  <2>2. But(s, r, {"rate", "dirty"}) /\ r.rate = p /\ r.dirty = s.dirty \cup {"rate"}
    BY <2>1 DEF But, Fields, Paths, ConfigPaths
  <2>3. r.spc = s.spc /\ r.freq = s.freq /\ r.views = s.views
    BY <2>2 DEF But, Fields, Paths, ConfigPaths
  <2>4. Marked(s, r)
    BY <2>2, ButMarked
  <2>5. r.rate = r.spc * r.freq
    BY <2>2, <2>3 DEF p
  <2> QED
    BY <2>2, <2>4, <2>5
<1> QED
  BY <1>1, <1>2

LEMMA RetunedStore ==
  ASSUME NEW s, DOMAIN s = Fields, NEW old, NEW new, NEW r, r = Retuned(s, old, new)
  PROVE  /\ But(s, r, {"channels", "dirty"})
         /\ r.channels = RetunedTo(s.channels, old, new)
         /\ Marked(s, r)
<1> DEFINE c == RetunedTo(s.channels, old, new)
<1>1. r = [s EXCEPT !.channels = c, !.dirty = s.dirty \cup {"channels"}]
  BY Zenon DEF Retuned, RetunedTo
<1> HIDE DEF c
<1>2. /\ But(s, r, {"channels", "dirty"}) /\ r.channels = c
      /\ r.dirty = s.dirty \cup {"channels"}
  BY <1>1 DEF But, Fields, Paths, ConfigPaths
<1>3. Marked(s, r)
  BY <1>2, ButMarked
<1> QED
  BY <1>2, <1>3 DEF c

\* setConfig(): the fields given are written, the rate stays the product, and
\* the equations follow the system frequency.
LEMMA SetConfigIs ==
  ASSUME NEW s, Settings(s), NEW u, Update(s, u), NEW r, r = SetConfig(s, u)
  PROVE  /\ Settings(r)
         /\ Marked(s, r)
         /\ \A k \in {"std", "freq", "spc", "asdu", "selected"} : r[k] = Updated(s, u, k)
         /\ r.activeMu = s.activeMu
         /\ r.channels = IF r.freq = s.freq THEN s.channels
                                            ELSE RetunedTo(s.channels, s.freq, r.freq)
<1> DEFINE w == Written(s, u)
           q == IF DOMAIN u \cap {"freq", "spc"} # {} THEN RateComputed(w) ELSE w
<1>1. DOMAIN s = Fields /\ DOMAIN u \subseteq ConfigPaths
  BY DEF Settings, Update
<1>2. /\ But(s, w, ConfigPaths \cup {"dirty"})
      /\ \A k \in ConfigPaths : w[k] = Updated(s, u, k)
      /\ Marked(s, w)
  BY <1>1, WrittenIs
<1>3. DOMAIN w = Fields
  BY <1>2 DEF But
<1>4. r = IF "freq" \in Changed(s, u) THEN Retuned(q, s.freq, q.freq) ELSE q
  BY DEF SetConfig
<1> HIDE DEF w
<1>5. /\ But(w, q, {"rate", "dirty"})
      /\ Marked(w, q)
      /\ q.rate = q.spc * q.freq
  <2>1. CASE DOMAIN u \cap {"freq", "spc"} # {}
    BY <2>1, <1>3, RateComputedIs
  <2>2. CASE DOMAIN u \cap {"freq", "spc"} = {}
    <3>1. q = w
      BY <2>2
    <3>2. w.spc = s.spc /\ w.freq = s.freq /\ Updated(s, u, "spc") = s.spc
          /\ Updated(s, u, "freq") = s.freq
      BY <2>2, <1>2 DEF Updated, ConfigPaths
    <3>3. w.rate = s.spc * s.freq
      <4>1. CASE "rate" \in DOMAIN u
        BY <4>1, <1>2, <3>2 DEF Update, Updated, ConfigPaths
      <4>2. CASE "rate" \notin DOMAIN u
        BY <4>2, <1>2 DEF Settings, Updated, ConfigPaths
      <4> QED
        BY <4>1, <4>2
    <3> QED
      BY <3>1, <3>2, <3>3, <1>3 DEF But, Marked
  <2> QED
    BY <2>1, <2>2
<1> HIDE DEF q
<1>6. DOMAIN q = Fields /\ Marked(s, q)
  BY <1>2, <1>5, MarkedThen DEF But
<1>7. /\ \A k \in {"std", "freq", "spc", "asdu", "selected"} : q[k] = Updated(s, u, k)
      /\ q.activeMu = s.activeMu /\ q.channels = s.channels
  BY <1>2, <1>5 DEF But, Fields, Paths, ConfigPaths
<1>8. Settings(q)
  <2>1. /\ q.std = Updated(s, u, "std") /\ q.freq = Updated(s, u, "freq")
        /\ q.spc = Updated(s, u, "spc") /\ q.asdu = Updated(s, u, "asdu")
    BY <1>7
  <2>2. /\ Updated(s, u, "std") \in Standards /\ Updated(s, u, "freq") \in Frequencies
        /\ Updated(s, u, "spc") \in Nat /\ Updated(s, u, "asdu") \in {1, 4}
    BY DEF Updated, Update, Settings
  <2> QED
    BY <1>5, <1>6, <2>1, <2>2 DEF Settings
<1>9. "freq" \in Changed(s, u) <=> q.freq # s.freq
  <2>1. q.freq = Updated(s, u, "freq")
    BY <1>7
  <2> QED
    BY <2>1 DEF Changed, Updated
<1>10. CASE q.freq = s.freq
  BY <1>4, <1>6, <1>7, <1>8, <1>9, <1>10
<1>11. CASE q.freq # s.freq
  <2>1. r = Retuned(q, s.freq, q.freq)
    BY <1>4, <1>9, <1>11
  <2>2. /\ But(q, r, {"channels", "dirty"})
        /\ r.channels = RetunedTo(q.channels, s.freq, q.freq)
        /\ Marked(q, r)
    BY <2>1, <1>6, RetunedStore
  <2>3. /\ \A k \in {"std", "freq", "spc", "asdu", "selected"} : r[k] = Updated(s, u, k)
        /\ r.activeMu = s.activeMu /\ r.rate = q.rate
        /\ r.std = q.std /\ r.freq = q.freq /\ r.spc = q.spc /\ r.asdu = q.asdu
    BY <1>7, <2>2 DEF But, Fields, Paths, ConfigPaths
  <2>4. Settings(r)
    BY <1>8, <2>2, <2>3 DEF Settings, But
  <2>5. Marked(s, r)
    BY <1>6, <2>2, MarkedThen
  <2> QED
    BY <1>7, <1>11, <2>2, <2>3, <2>4, <2>5
<1> QED
  BY <1>10, <1>11

(***************************************************************************)
(* What the subscribers show.                                               *)
(***************************************************************************)
Viewers == {"settings", "standard", "tree", "channels"}

\* A subscriber that watches none of the paths to announce shows the state.
FreshBut(s) ==
  \A v \in Viewers : WatchedBy[v] \cap s.dirty = {} => s.views[v] = Shows(s)[v]

SettingsShown(s) == [freq |-> s.freq, spc |-> s.spc, rate |-> s.rate]
TreeShown(s)     == [list |-> s.activeMu.list, asdu |-> s.asdu, rate |-> s.rate]
ChannelsShown(s) == [i \in DOMAIN s.channels |-> <<s.channels[i].id, s.channels[i].hz>>]

LEMMA ShowsIs ==
  ASSUME NEW s
  PROVE  /\ DOMAIN Shows(s) = Viewers
         /\ Shows(s)["settings"] = SettingsShown(s)
         /\ Shows(s)["standard"] = s.std
         /\ Shows(s)["tree"] = TreeShown(s)
         /\ Shows(s)["channels"] = ChannelsShown(s)
         /\ Shows(s) = [v \in Viewers |-> Shows(s)[v]]
<1> DEFINE a == SettingsShown(s)
           b == TreeShown(s)
           c == ChannelsShown(s)
<1>1. Shows(s) = [settings |-> a, standard |-> s.std, tree |-> b, channels |-> c]
  BY DEF Shows, SettingsShown, TreeShown, ChannelsShown
<1> HIDE DEF a, b, c
<1>2. /\ DOMAIN Shows(s) = Viewers
      /\ Shows(s)["settings"] = a /\ Shows(s)["standard"] = s.std
      /\ Shows(s)["tree"] = b /\ Shows(s)["channels"] = c
  BY <1>1 DEF Viewers
<1>3. Shows(s) = [v \in Viewers |-> Shows(s)[v]]
  BY <1>1, <1>2 DEF Viewers
<1> QED
  BY <1>2, <1>3 DEF a, b, c

LEMMA WatchedIs ==
  /\ DOMAIN WatchedBy = Viewers
  /\ WatchedBy["settings"] = {"freq", "spc", "rate", "std"}
  /\ WatchedBy["standard"] = {"std"}
  /\ WatchedBy["tree"] = ConfigPaths \cup {"activeMu"}
  /\ WatchedBy["channels"] = {"channels", "std", "freq"}
  BY DEF WatchedBy, Viewers

LEMMA MarkedFresh ==
  ASSUME NEW s, NEW r, FreshBut(s), Marked(s, r)
  PROVE  FreshBut(r)
<1> SUFFICES ASSUME NEW v \in Viewers, WatchedBy[v] \cap r.dirty = {}
             PROVE  r.views[v] = Shows(r)[v]
  BY DEF FreshBut
<1>1. \A k \in Paths : k \in WatchedBy[v] => r[k] = s[k]
  BY DEF Marked
<1>2. WatchedBy[v] \cap s.dirty = {}
  BY DEF Marked
<1>3. r.views[v] = Shows(s)[v]
  BY <1>2 DEF FreshBut, Marked
<1>4. Shows(s)[v] = Shows(r)[v]
  <2>1. CASE v = "settings"
    <3>1. r.freq = s.freq /\ r.spc = s.spc /\ r.rate = s.rate
      BY <1>1, <2>1, WatchedIs DEF Paths, ConfigPaths
    <3>2. SettingsShown(r) = SettingsShown(s)
      BY <3>1 DEF SettingsShown
    <3> QED
      BY <2>1, <3>2, ShowsIs
  <2>2. CASE v = "standard"
    <3>1. r.std = s.std
      BY <1>1, <2>2, WatchedIs DEF Paths, ConfigPaths
    <3> QED
      BY <2>2, <3>1, ShowsIs
  <2>3. CASE v = "tree"
    <3>1. r.activeMu = s.activeMu /\ r.asdu = s.asdu /\ r.rate = s.rate
      BY <1>1, <2>3, WatchedIs DEF Paths, ConfigPaths
    <3>2. TreeShown(r) = TreeShown(s)
      BY <3>1 DEF TreeShown
    <3> QED
      BY <2>3, <3>2, ShowsIs
  <2>4. CASE v = "channels"
    <3>1. r.channels = s.channels
      BY <1>1, <2>4, WatchedIs DEF Paths, ConfigPaths
    <3>2. ChannelsShown(r) = ChannelsShown(s)
      BY <3>1 DEF ChannelsShown
    <3> QED
      BY <2>4, <3>2, ShowsIs
  <2> QED
    BY <2>1, <2>2, <2>3, <2>4 DEF Viewers
<1> QED
  BY <1>3, <1>4

(***************************************************************************)
(* A notification.                                                          *)
(***************************************************************************)
\* The fields no subscriber writes back.
Kinds == {"std", "freq", "asdu", "selected", "channels", "activeMu"}

LEMMA UpdateSpc ==
  ASSUME NEW s, Settings(s), NEW n \in Nat, NEW u, u = [spc |-> n]
  PROVE  /\ Update(s, u) /\ Updated(s, u, "spc") = n
         /\ \A k \in {"std", "freq", "asdu", "selected"} : Updated(s, u, k) = s[k]
<1>1. DOMAIN u = {"spc"} /\ u["spc"] = n
  OBVIOUS
<1> QED
  BY <1>1 DEF Update, Updated, ConfigPaths

LEMMA UpdateRate ==
  ASSUME NEW s, Settings(s), NEW u, u = [rate |-> s.freq * s.spc]
  PROVE  /\ Update(s, u)
         /\ \A k \in {"std", "freq", "spc", "asdu", "selected"} : Updated(s, u, k) = s[k]
<1>1. DOMAIN u = {"rate"} /\ u["rate"] = s.freq * s.spc
  OBVIOUS
<1>2. s.freq \in Nat /\ s.spc \in Nat
  BY DEF Settings, Frequencies
<1>3. s.freq * s.spc = s.spc * s.freq
  BY <1>2
<1> QED
  BY <1>1, <1>3 DEF Update, Updated, ConfigPaths

LEMMA RateUpdatedIs ==
  ASSUME NEW s, Settings(s), NEW r, r = RateUpdated(s)
  PROVE  Settings(r) /\ Marked(s, r) /\ \A k \in Kinds : r[k] = s[k]
<1> DEFINE u == [rate |-> s.freq * s.spc]
<1>1. /\ Update(s, u)
      /\ \A k \in {"std", "freq", "spc", "asdu", "selected"} : Updated(s, u, k) = s[k]
  BY UpdateRate
<1>2. r = SetConfig(s, u)
  BY DEF RateUpdated
<1> HIDE DEF u
<1>3. /\ Settings(r) /\ Marked(s, r)
      /\ \A k \in {"std", "freq", "spc", "asdu", "selected"} : r[k] = Updated(s, u, k)
      /\ r.activeMu = s.activeMu
      /\ r.channels = IF r.freq = s.freq THEN s.channels
                                         ELSE RetunedTo(s.channels, s.freq, r.freq)
  BY <1>1, <1>2, SetConfigIs
<1>4. r.std = s.std /\ r.freq = s.freq /\ r.asdu = s.asdu /\ r.selected = s.selected
  BY <1>1, <1>3
<1>5. r.channels = s.channels
  BY <1>3, <1>4
<1> QED
  BY <1>3, <1>4, <1>5 DEF Kinds

LEMMA DropdownIs ==
  ASSUME NEW s, Settings(s), NEW r, r = DropdownRebuilt(s)
  PROVE  Settings(r) /\ Marked(s, r) /\ \A k \in Kinds : r[k] = s[k]
<1> DEFINE u == [spc |-> 80]
<1>1. CASE r = s
  BY <1>1 DEF Marked
<1>2. CASE r = SetConfig(s, u)
  <2>1. /\ Update(s, u)
        /\ \A k \in {"std", "freq", "asdu", "selected"} : Updated(s, u, k) = s[k]
    BY UpdateSpc
  <2> HIDE DEF u
  <2>2. /\ Settings(r) /\ Marked(s, r)
        /\ \A k \in {"std", "freq", "spc", "asdu", "selected"} : r[k] = Updated(s, u, k)
        /\ r.activeMu = s.activeMu
        /\ r.channels = IF r.freq = s.freq THEN s.channels
                                           ELSE RetunedTo(s.channels, s.freq, r.freq)
    BY <1>2, <2>1, SetConfigIs
  <2>3. r.std = s.std /\ r.freq = s.freq /\ r.asdu = s.asdu /\ r.selected = s.selected
    BY <2>1, <2>2
  <2>4. r.channels = s.channels
    BY <2>2, <2>3
  <2> QED
    BY <2>2, <2>3, <2>4 DEF Kinds
<1>3. r = s \/ r = SetConfig(s, u)
  BY DEF DropdownRebuilt
<1> QED
  BY <1>1, <1>2, <1>3

LEMMA SyncedIs ==
  ASSUME NEW s, Settings(s), NEW r, r = SettingsSynced(s)
  PROVE  Settings(r) /\ Marked(s, r) /\ \A k \in Kinds : r[k] = s[k]
<1>1. CASE r = s
  BY <1>1 DEF Marked
<1>2. CASE r = RateUpdated(DropdownRebuilt(s))
  <2> DEFINE d == DropdownRebuilt(s)
  <2>1. Settings(d) /\ Marked(s, d) /\ \A k \in Kinds : d[k] = s[k]
    BY DropdownIs
  <2> HIDE DEF d
  <2>2. r = RateUpdated(d)
    BY <1>2 DEF d
  <2>3. Settings(r) /\ Marked(d, r) /\ \A k \in Kinds : r[k] = d[k]
    BY <2>1, <2>2, RateUpdatedIs
  <2>4. Marked(s, r)
    BY <2>1, <2>3, MarkedThen
  <2> QED
    BY <2>1, <2>3, <2>4
<1>3. r = s \/ r = RateUpdated(DropdownRebuilt(s))
  BY DEF SettingsSynced
<1> QED
  BY <1>1, <1>2, <1>3

LEMMA RefreshedIs ==
  ASSUME NEW s, DOMAIN s = Fields, FreshBut(s), NEW r,
         r = [Refreshed(s) EXCEPT !.dirty = {}]
  PROVE  But(s, r, {"dirty", "views"}) /\ r.dirty = {} /\ r.views = Shows(r)
<1> DEFINE views == [v \in DOMAIN WatchedBy |->
                       IF WatchedBy[v] \cap s.dirty # {} THEN Shows(s)[v] ELSE s.views[v]]
<1>1. r = [[s EXCEPT !.views = views] EXCEPT !.dirty = {}]
  BY Zenon DEF Refreshed
<1>2. views = Shows(s)
  <2>1. DOMAIN WatchedBy = Viewers
    BY WatchedIs
  <2>2. ASSUME NEW v \in Viewers PROVE views[v] = Shows(s)[v]
    <3>1. CASE WatchedBy[v] \cap s.dirty # {}
      BY <2>1, <3>1
    <3>2. CASE WatchedBy[v] \cap s.dirty = {}
      <4>1. views[v] = s.views[v]
        BY <2>1, <3>2
      <4> QED
        BY <3>2, <4>1 DEF FreshBut
    <3> QED
      BY <3>1, <3>2
  <2>5. views = [v \in Viewers |-> views[v]]
    BY <2>1
  <2> HIDE DEF views
  <2>4. Shows(s) = [v \in Viewers |-> Shows(s)[v]]
    BY ShowsIs
  <2> QED
    BY <2>2, <2>4, <2>5
<1> HIDE DEF views
<1>3. But(s, r, {"dirty", "views"}) /\ r.dirty = {} /\ r.views = views
  BY <1>1 DEF But, Fields
<1>4. /\ r.freq = s.freq /\ r.spc = s.spc /\ r.rate = s.rate /\ r.std = s.std
      /\ r.activeMu = s.activeMu /\ r.asdu = s.asdu /\ r.channels = s.channels
  BY <1>3 DEF But, Fields, Paths, ConfigPaths
<1>5. /\ SettingsShown(r) = SettingsShown(s) /\ TreeShown(r) = TreeShown(s)
      /\ ChannelsShown(r) = ChannelsShown(s)
  BY <1>4 DEF SettingsShown, TreeShown, ChannelsShown
<1>6. Shows(r) = Shows(s)
  <2>1. /\ Shows(r)["settings"] = Shows(s)["settings"] /\ Shows(r)["tree"] = Shows(s)["tree"]
        /\ Shows(r)["standard"] = Shows(s)["standard"]
        /\ Shows(r)["channels"] = Shows(s)["channels"]
    BY ZenonT(30), <1>4, <1>5, ShowsIs
  <2>3. \A v \in Viewers : Shows(r)[v] = Shows(s)[v]
    BY <2>1 DEF Viewers
  <2>2. Shows(r) = [v \in Viewers |-> Shows(r)[v]] /\ Shows(s) = [v \in Viewers |-> Shows(s)[v]]
    BY ShowsIs
  <2> QED
    BY <2>2, <2>3
<1> QED
  BY <1>2, <1>3, <1>6

\* After a notification every subscriber shows the state, whatever one of
\* them wrote back.
LEMMA NotifiedIs ==
  ASSUME NEW s, Settings(s), FreshBut(s), NEW r, r = Notified(s)
  PROVE  /\ Settings(r) /\ r.dirty = {} /\ r.views = Shows(r)
         /\ \A k \in Kinds : r[k] = s[k]
<1> DEFINE t == SettingsSynced(s)
<1>1. Settings(t) /\ Marked(s, t) /\ \A k \in Kinds : t[k] = s[k]
  BY SyncedIs
<1> HIDE DEF t
<1>2. FreshBut(t) /\ DOMAIN t = Fields
  BY <1>1, MarkedFresh DEF Settings
<1>3. r = [Refreshed(t) EXCEPT !.dirty = {}]
  BY DEF Notified, t
<1>4. But(t, r, {"dirty", "views"}) /\ r.dirty = {} /\ r.views = Shows(r)
  BY <1>2, <1>3, RefreshedIs
<1>5. /\ DOMAIN r = Fields /\ r.std = t.std /\ r.freq = t.freq /\ r.spc = t.spc
      /\ r.rate = t.rate /\ r.asdu = t.asdu
  BY <1>4 DEF But, Fields, Paths, ConfigPaths
<1>6. Settings(r)
  BY <1>1, <1>5 DEF Settings
<1>7. \A k \in Kinds : r[k] = t[k]
  BY <1>4 DEF But, Fields, Paths, ConfigPaths, Kinds
<1> QED
  BY <1>1, <1>4, <1>6, <1>7

(***************************************************************************)
(* The store between two callbacks.                                         *)
(***************************************************************************)
Contents(s, T, O) ==
  /\ Pool(s.channels, s.std)
  /\ Listed(s.selected)
  /\ ToSet(s.selected) \subseteq IdsOf(s.channels) \cup O
  /\ Tuned(s.channels, s.freq, T)

\* T: the channels whose equation was typed; O: those removed from the pool
\* but not from the selection.
StoreOK(s, T, O) ==
  /\ Settings(s)
  /\ s.dirty = {} /\ s.views = Shows(s)
  /\ Contents(s, T, O)

LEMMA StoreWeaker ==
  ASSUME NEW s, NEW T, NEW O, StoreOK(s, T, O), NEW T2, NEW O2,
         T \subseteq T2, O \subseteq O2
  PROVE  StoreOK(s, T2, O2)
<1>1. /\ Settings(s) /\ s.dirty = {} /\ s.views = Shows(s)
      /\ Pool(s.channels, s.std) /\ Listed(s.selected)
      /\ ToSet(s.selected) \subseteq IdsOf(s.channels) \cup O
      /\ Tuned(s.channels, s.freq, T)
  BY DEF StoreOK, Contents
<1>2. Tuned(s.channels, s.freq, T2)
  BY <1>1 DEF Tuned
<1>3. ToSet(s.selected) \subseteq IdsOf(s.channels) \cup O2
  BY <1>1
<1> QED
  BY <1>1, <1>2, <1>3 DEF StoreOK, Contents

\* A change of the store followed by its notification.
LEMMA Announces ==
  ASSUME NEW s, NEW T, NEW O, StoreOK(s, T, O),
         NEW m, Settings(m), Marked(s, m), NEW T2, NEW O2, Contents(m, T2, O2),
         NEW r, r = Notified(m)
  PROVE  StoreOK(r, T2, O2) /\ \A k \in Kinds : r[k] = m[k]
<1>1. FreshBut(s)
  BY DEF StoreOK, FreshBut
<1>2. FreshBut(m)
  BY <1>1, MarkedFresh
<1>3. /\ Settings(r) /\ r.dirty = {} /\ r.views = Shows(r)
      /\ \A k \in Kinds : r[k] = m[k]
  BY <1>2, NotifiedIs
<1>4. /\ r.std = m.std /\ r.freq = m.freq /\ r.selected = m.selected
      /\ r.channels = m.channels
  BY <1>3 DEF Kinds
<1>5. Contents(r, T2, O2)
  BY <1>4 DEF Contents
<1> QED
  BY <1>3, <1>5 DEF StoreOK

\* setConfig() of settings other than the standard and the selection.
LEMMA ConfigKeeps ==
  ASSUME NEW s, Settings(s), NEW T, NEW O, Contents(s, T, O),
         NEW u, Update(s, u), "std" \notin DOMAIN u, "selected" \notin DOMAIN u,
         NEW r, r = SetConfig(s, u)
  PROVE  /\ Settings(r) /\ Marked(s, r) /\ Contents(r, T, O)
         /\ r.activeMu = s.activeMu /\ r.std = s.std
<1>1. /\ Settings(r) /\ Marked(s, r)
      /\ r.std = Updated(s, u, "std") /\ r.selected = Updated(s, u, "selected")
      /\ r.activeMu = s.activeMu
      /\ r.channels = IF r.freq = s.freq THEN s.channels
                                         ELSE RetunedTo(s.channels, s.freq, r.freq)
  BY SetConfigIs
<1>2. r.std = s.std /\ r.selected = s.selected
  BY <1>1 DEF Updated
<1>3. Pool(s.channels, s.std) /\ Tuned(s.channels, s.freq, T)
  BY DEF Contents
<1>4. CASE r.freq = s.freq
  BY <1>1, <1>2, <1>4 DEF Contents
<1>5. CASE r.freq # s.freq
  <2> DEFINE c == r.channels
  <2>1. c = RetunedTo(s.channels, s.freq, r.freq)
    BY <1>1, <1>5
  <2>2. s.channels \in Seq(Channels) /\ s.freq \in Frequencies /\ r.freq \in Frequencies
    BY <1>1, <1>3 DEF Pool, AnyPool, Settings
  <2>3. Rewritten(s.channels, c) /\ Tuned(c, r.freq, T)
    BY <1>3, <2>1, <2>2, RetunedIs
  <2>4. Pool(c, r.std) /\ IdsOf(c) = IdsOf(s.channels)
    BY <1>2, <1>3, <2>3, RewrittenPool
  <2> QED
    BY <1>1, <1>2, <2>3, <2>4 DEF Contents
<1> QED
  BY <1>1, <1>2, <1>4, <1>5

LEMMA ConfigOK ==
  ASSUME NEW s, NEW T, NEW O, StoreOK(s, T, O),
         NEW u, Update(s, u), "std" \notin DOMAIN u, "selected" \notin DOMAIN u,
         NEW r, r = Notified(SetConfig(s, u))
  PROVE  StoreOK(r, T, O) /\ r.activeMu = s.activeMu
<1> DEFINE m == SetConfig(s, u)
<1>1. Settings(s) /\ Contents(s, T, O)
  BY DEF StoreOK
<1>2. Settings(m) /\ Marked(s, m) /\ Contents(m, T, O) /\ m.activeMu = s.activeMu
  BY <1>1, ConfigKeeps
<1> HIDE DEF m
<1>3. r = Notified(m)
  BY DEF m
<1>4. StoreOK(r, T, O) /\ \A k \in Kinds : r[k] = m[k]
  BY <1>2, <1>3, Announces
<1> QED
  BY <1>2, <1>4 DEF Kinds

LEMMA ThenRateOK ==
  ASSUME NEW s, NEW T, NEW O, StoreOK(s, T, O), NEW r, r = ThenRate(s)
  PROVE  StoreOK(r, T, O) /\ r.activeMu = s.activeMu
<1> DEFINE u == [rate |-> s.freq * s.spc]
<1>1. Update(s, u)
  BY UpdateRate DEF StoreOK
<1>2. "std" \notin DOMAIN u /\ "selected" \notin DOMAIN u
  OBVIOUS
<1>3. r = Notified(SetConfig(s, u))
  BY DEF ThenRate, RateUpdated
<1> HIDE DEF u
<1> QED
  BY <1>1, <1>2, <1>3, ConfigOK

\* The selection becomes a list of channels that are known.
LEMMA SelectOK ==
  ASSUME NEW s, NEW T, NEW O, StoreOK(s, T, O), NEW list, Listed(list),
         ToSet(list) \subseteq IdsOf(s.channels) \cup O, NEW r, r = Select(s, list)
  PROVE  StoreOK(r, T, O) /\ r.activeMu = s.activeMu
<1> DEFINE u == [selected |-> list]
           m == SetConfig(s, u)
<1>1. DOMAIN u = {"selected"} /\ u["selected"] = list
  OBVIOUS
<1> HIDE DEF u
<1>2. Settings(s) /\ Update(s, u)
  BY <1>1 DEF StoreOK, Update, ConfigPaths
<1>3. /\ Settings(m) /\ Marked(s, m)
      /\ m.std = Updated(s, u, "std") /\ m.freq = Updated(s, u, "freq")
      /\ m.selected = Updated(s, u, "selected")
      /\ m.activeMu = s.activeMu
      /\ m.channels = IF m.freq = s.freq THEN s.channels
                                         ELSE RetunedTo(s.channels, s.freq, m.freq)
  BY <1>2, SetConfigIs
<1> HIDE DEF m
<1>4. m.std = s.std /\ m.freq = s.freq /\ m.selected = list
  BY <1>1, <1>3 DEF Updated
<1>5. m.channels = s.channels
  BY <1>3, <1>4
<1>6. Contents(m, T, O)
  BY <1>4, <1>5 DEF StoreOK, Contents
<1>7. r = Notified(m)
  BY DEF Select, m, u
<1>8. StoreOK(r, T, O) /\ \A k \in Kinds : r[k] = m[k]
  BY <1>3, <1>6, <1>7, Announces
<1> QED
  BY <1>3, <1>8 DEF Kinds

\* The pool becomes another one and is announced.
LEMMA PoolOK ==
  ASSUME NEW s, NEW T, NEW O, StoreOK(s, T, O), NEW chs, Pool(chs, s.std),
         NEW list, Listed(list), NEW T2, NEW O2, Tuned(chs, s.freq, T2),
         ToSet(list) \subseteq IdsOf(chs) \cup O2,
         NEW m, m.channels = chs, m.selected = list, But(s, m, {"channels", "selected", "dirty"}),
         m.dirty = {"channels", "selected"} \/ (m.dirty = {"channels"} /\ list = s.selected),
         NEW r, r = Notified(m)
  PROVE  StoreOK(r, T2, O2) /\ r.activeMu = s.activeMu
<1>1. Settings(s) /\ s.dirty = {}
  BY DEF StoreOK
<1>2. /\ m.std = s.std /\ m.freq = s.freq /\ m.spc = s.spc /\ m.rate = s.rate
      /\ m.asdu = s.asdu /\ m.activeMu = s.activeMu /\ m.views = s.views /\ DOMAIN m = Fields
  BY DEF But, Fields, Paths, ConfigPaths
<1>3. Settings(m)
  BY <1>1, <1>2 DEF Settings
<1>4. Marked(s, m)
  <2>1. ASSUME NEW k \in Paths, k \notin m.dirty PROVE m[k] = s[k]
    BY <2>1 DEF But, Fields, Paths, ConfigPaths
  <2> QED
    BY <1>1, <1>2, <2>1 DEF Marked
<1>5. Contents(m, T2, O2)
  BY <1>2 DEF Contents
<1>6. StoreOK(r, T2, O2) /\ \A k \in Kinds : r[k] = m[k]
  BY <1>3, <1>4, <1>5, Announces
<1> QED
  BY <1>2, <1>6 DEF Kinds

(***************************************************************************)
(* Lists of channels.                                                       *)
(***************************************************************************)
LEMMA IdsOfSet ==
  ASSUME NEW chs
  PROVE  IdsOf(chs) = {c.id : c \in ToSet(chs)}
  BY DEF IdsOf, ToSet

\* What Find() gives is the channel of the id.
LEMMA FindIs ==
  ASSUME NEW chs, NEW id \in IdsOf(chs)
  PROVE  /\ \E i \in DOMAIN chs : chs[i].id = id /\ Find(chs, id) = chs[i]
         /\ Apart(chs) => \A i \in DOMAIN chs : chs[i].id = id => Find(chs, id) = chs[i]
<1> DEFINE w == CHOOSE i \in DOMAIN chs : chs[i].id = id
<1>1. \E i \in DOMAIN chs : chs[i].id = id
  BY DEF IdsOf
<1>2. w \in DOMAIN chs /\ chs[w].id = id
  BY <1>1
<1>3. Find(chs, id) = chs[w]
  BY DEF Find
<1> HIDE DEF w
<1> QED
  BY <1>2, <1>3 DEF Apart

LEMMA OrderIs ==
  ASSUME NEW std \in Standards
  PROVE  /\ Order(std) \in Seq(ToSet(PoolOrder)) /\ IsInjective(Order(std))
         /\ ToSet(Order(std)) = ToSet(PoolOrder)
         /\ Len(Order(std)) = Len(PoolOrder) /\ Len(PoolOrder) \in Nat
         /\ ToSet(PoolOrder) \subseteq Ids
<1>1. /\ LEOrder \in Seq(ToSet(PoolOrder)) /\ PoolOrder \in Seq(ToSet(PoolOrder))
      /\ IsInjective(LEOrder) /\ IsInjective(PoolOrder) /\ ToSet(LEOrder) = ToSet(PoolOrder)
  BY OrdersAssumption
<1>2. Len(LEOrder) = Len(PoolOrder)
  BY <1>1, LenIsCard
<1>3. Order(std) = LEOrder \/ Order(std) = PoolOrder
  BY DEF Order
<1>4. ToSet(PoolOrder) \subseteq Ids
  BY DEF Ids
<1>5. Len(PoolOrder) \in Nat
  BY <1>1
<1> QED
  BY <1>1, <1>2, <1>3, <1>4, <1>5

LEMMA RoomIs ==
  ASSUME NEW std \in Standards
  PROVE  MaxChannels[std] \in Nat /\ Len(PoolOrder) <= MaxChannels[std]
  BY RoomAssumption, OrderIs

\* A pool of the base channels alone, in the order of the standard.
LEMMA BasePool ==
  ASSUME NEW std \in Standards, NEW chs,
         chs = [i \in DOMAIN Order(std) |-> chs[i]],
         \A i \in DOMAIN Order(std) : /\ chs[i].id = Order(std)[i] /\ chs[i].base = TRUE
                                      /\ chs[i] \in Channels
  PROVE  /\ Pool(chs, std) /\ Len(chs) = Len(PoolOrder)
         /\ IdsOf(chs) = ToSet(PoolOrder)
<1> DEFINE o == Order(std)
           n == Len(o)
<1>1. /\ o \in Seq(ToSet(PoolOrder)) /\ IsInjective(o) /\ ToSet(o) = ToSet(PoolOrder)
      /\ n = Len(PoolOrder) /\ n \in Nat /\ DOMAIN o = 1..n
  BY OrderIs
<1>2. /\ chs = [i \in DOMAIN o |-> chs[i]]
      /\ \A i \in DOMAIN o : chs[i].id = o[i] /\ chs[i] \in Channels
  OBVIOUS
<1>3. \A i \in DOMAIN o : chs[i].base = TRUE
  OBVIOUS
<1> HIDE DEF o, n
<1>4. chs \in Seq(Channels) /\ Len(chs) = n /\ DOMAIN chs = DOMAIN o
  BY <1>1, <1>2
<1>5. Apart(chs)
  BY <1>1, <1>2, <1>4 DEF Apart, IsInjective
<1>6. IdsOf(chs) = ToSet(PoolOrder)
  <2>1. \A i \in DOMAIN chs : chs[i].id = o[i]
    BY <1>2, <1>4
  <2>2. IdsOf(chs) = ToSet(o)
    BY <1>4, <2>1 DEF IdsOf, ToSet
  <2> QED
    BY <1>1, <2>2
<1>7. \A i \in DOMAIN chs : chs[i].base = (chs[i].id \in ToSet(PoolOrder))
  <2>1. \A i \in DOMAIN chs : chs[i].id \in ToSet(PoolOrder)
    BY <1>6 DEF IdsOf
  <2> QED
    BY <1>3, <1>4, <2>1, Zenon
<1>8. Len(chs) <= MaxChannels[std]
  BY <1>1, <1>4, RoomIs
<1> QED
  BY <1>1, <1>4, <1>5, <1>6, <1>7, <1>8 DEF Pool, AnyPool

LEMMA InitialIs ==
  ASSUME NEW std \in Standards, NEW f \in Frequencies,
         NEW chs, chs = InitialChannels(std, f)
  PROVE  /\ Pool(chs, std) /\ IdsOf(chs) = ToSet(PoolOrder)
         /\ \A T : Tuned(chs, f, T)
<1>1. /\ DOMAIN chs = DOMAIN Order(std)
      /\ \A i \in DOMAIN Order(std) : chs[i] = Channel(Order(std)[i], TRUE, {f})
  BY Zenon DEF InitialChannels
<1>2. chs = [i \in DOMAIN Order(std) |-> chs[i]]
  BY DEF InitialChannels
<1>3. ASSUME NEW i \in DOMAIN Order(std)
      PROVE  /\ chs[i] \in Channels /\ chs[i].id = Order(std)[i] /\ chs[i].base = TRUE
             /\ chs[i].hz = {f}
  <2>1. Order(std)[i] \in Ids
    BY OrderIs DEF ToSet
  <2> DEFINE id == Order(std)[i]
             c == chs[i]
             h == {f}
  <2>2. h \in SUBSET Waves
    BY DEF Waves
  <2>3. c = Channel(id, TRUE, h) /\ id \in Ids
    BY <1>1, <2>1
  <2> HIDE DEF id, c, h
  <2>4. c \in Channels /\ c.id = id /\ c.base = TRUE /\ c.hz = h
    BY <2>2, <2>3 DEF Channel, Channels
  <2> QED
    BY <2>4 DEF id, c, h
<1>4. \A i \in DOMAIN Order(std) : /\ chs[i].id = Order(std)[i] /\ chs[i].base = TRUE
                                   /\ chs[i] \in Channels
  BY <1>3, Zenon
<1>5. Pool(chs, std) /\ IdsOf(chs) = ToSet(PoolOrder)
  BY <1>2, <1>4, BasePool
<1> QED
  BY <1>1, <1>3, <1>5 DEF Tuned

\* Channels after those of a pool.
LEMMA MorePool ==
  ASSUME NEW chs, NEW std, AnyPool(chs), MaxChannels[std] \in Nat,
         NEW more \in Seq(Channels), Apart(more), IdsOf(chs) \cap IdsOf(more) = {},
         \A i \in DOMAIN more : more[i].base = (more[i].id \in ToSet(PoolOrder)),
         Len(chs) + Len(more) <= MaxChannels[std],
         NEW r, r = Joined(chs, more)
  PROVE  /\ Pool(r, std) /\ IdsOf(r) = IdsOf(chs) \cup IdsOf(more)
         /\ \A f, T : Tuned(chs, f, T) /\ Tuned(more, f, T) => Tuned(r, f, T)
<1>1. /\ chs \in Seq(Channels) /\ Apart(chs)
      /\ \A i \in DOMAIN chs : chs[i].base = (chs[i].id \in ToSet(PoolOrder))
      /\ ToSet(PoolOrder) \subseteq IdsOf(chs)
  BY DEF Pool, AnyPool
<1>2. /\ ToSet(r) = ToSet(chs) \cup ToSet(more)
      /\ IdsOf(r) = IdsOf(chs) \cup IdsOf(more)
      /\ Apart(r)
  BY <1>1, ConcatKeeps DEF Joined
<1>3. r \in Seq(Channels) /\ Len(r) = Len(chs) + Len(more)
  BY <1>1, JoinedIs
<1>4. ASSUME NEW i \in DOMAIN r
      PROVE  \/ \E j \in DOMAIN chs : r[i] = chs[j]
             \/ \E j \in DOMAIN more : r[i] = more[j]
  BY <1>2 DEF ToSet
<1>5. \A i \in DOMAIN r : r[i].base = (r[i].id \in ToSet(PoolOrder))
  BY <1>1, <1>4, Zenon
<1>6. ASSUME NEW f, NEW T, Tuned(chs, f, T), Tuned(more, f, T) PROVE Tuned(r, f, T)
  BY <1>4, <1>6 DEF Tuned
<1>7. Len(r) <= MaxChannels[std]
  BY <1>3
<1> QED
  BY <1>1, <1>2, <1>3, <1>5, <1>6, <1>7 DEF Pool, AnyPool

\* A pool with some channels taken out, none of them a base channel.
LEMMA LessPool ==
  ASSUME NEW chs, NEW std, Pool(chs, std), NEW S, MaxChannels[std] \in Nat,
         \A i \in DOMAIN chs : chs[i].base = TRUE => chs[i] \in S,
         NEW r, r = Kept(chs, S)
  PROVE  /\ Pool(r, std)
         /\ IdsOf(r) = {c.id : c \in ToSet(chs) \cap S}
         /\ \A f, T : Tuned(chs, f, T) => Tuned(r, f, T)
<1>1. /\ chs \in Seq(Channels) /\ Apart(chs)
      /\ \A i \in DOMAIN chs : chs[i].base = (chs[i].id \in ToSet(PoolOrder))
      /\ ToSet(PoolOrder) \subseteq IdsOf(chs) /\ Len(chs) <= MaxChannels[std]
  BY DEF Pool, AnyPool
<1>2. r \in Seq(Channels) /\ Len(r) <= Len(chs) /\ ToSet(r) = ToSet(chs) \cap S
  BY <1>1, KeptIs
<1>3. DrawnFrom(r, chs)
  BY <1>1, KeptDrawn
<1>4. Apart(r)
  BY <1>1, <1>3, DrawnKeeps
<1>5. IdsOf(r) = {c.id : c \in ToSet(chs) \cap S}
  BY <1>2, IdsOfSet
<1>6. ASSUME NEW i \in DOMAIN r PROVE \E j \in DOMAIN chs : r[i] = chs[j]
  BY <1>2 DEF ToSet
<1>7. \A i \in DOMAIN r : r[i].base = (r[i].id \in ToSet(PoolOrder))
  BY <1>1, <1>6, Zenon
<1>8. ASSUME NEW f, NEW T, Tuned(chs, f, T) PROVE Tuned(r, f, T)
  BY <1>6, <1>8 DEF Tuned
<1>9. ASSUME NEW id \in ToSet(PoolOrder) PROVE id \in IdsOf(r)
  <2>1. PICK j \in DOMAIN chs : chs[j].id = id
    BY <1>1 DEF IdsOf
  <2>2. chs[j].base = TRUE
    BY <1>1, <2>1, Zenon
  <2>3. chs[j] \in ToSet(chs) \cap S
    BY <2>2 DEF ToSet
  <2> QED
    BY <1>5, <2>1, <2>3
<1>10. Len(r) <= MaxChannels[std]
  <2>1. Len(r) \in Nat /\ Len(chs) \in Nat
    BY <1>1, <1>2
  <2> QED
    BY <1>1, <1>2, <2>1
<1> QED
  BY <1>2, <1>4, <1>5, <1>7, <1>8, <1>9, <1>10 DEF Pool, AnyPool

(***************************************************************************)
(* The standard.                                                            *)
(***************************************************************************)
LEMMA BaseForIs ==
  ASSUME NEW s, NEW std \in Standards, AnyPool(s.channels),
         s.freq \in Frequencies, NEW chs, chs = BaseFor(s, std)
  PROVE  /\ Pool(chs, std) /\ Len(chs) = Len(PoolOrder)
         /\ IdsOf(chs) = ToSet(PoolOrder)
         /\ \A T : Tuned(s.channels, s.freq, T) => Tuned(chs, s.freq, T)
         /\ \A i \in DOMAIN chs : \E j \in DOMAIN s.channels :
              chs[i].id = s.channels[j].id /\ chs[i].hz = s.channels[j].hz
<1>1. /\ s.channels \in Seq(Channels) /\ ToSet(PoolOrder) \subseteq IdsOf(s.channels)
  BY DEF Pool, AnyPool
<1>2. DOMAIN chs = DOMAIN Order(std) /\ chs = [i \in DOMAIN Order(std) |-> chs[i]]
  BY DEF BaseFor
<1>3. ASSUME NEW i \in DOMAIN Order(std)
      PROVE  /\ chs[i] \in Channels /\ chs[i].id = Order(std)[i] /\ chs[i].base = TRUE
             /\ \E j \in DOMAIN s.channels :
                  Order(std)[i] = s.channels[j].id /\ chs[i].hz = s.channels[j].hz
  <2> DEFINE id == Order(std)[i]
             c == chs[i]
             h == Find(s.channels, id).hz
  <2>1. id \in ToSet(PoolOrder) /\ id \in Ids
    BY OrderIs DEF ToSet
  <2>2. id \in IdsOf(s.channels)
    BY <1>1, <2>1
  <2>3. c = Channel(id, TRUE, h)
    BY <2>2 DEF BaseFor
  <2> HIDE DEF id, c
  <2>4. PICK j \in DOMAIN s.channels : s.channels[j].id = id /\ Find(s.channels, id) = s.channels[j]
    BY <2>2, FindIs
  <2>5. h \in SUBSET Waves /\ h = s.channels[j].hz
    <3>1. s.channels[j] \in Channels
      BY <1>1
    <3> QED
      BY <2>4, <3>1 DEF Channels
  <2> HIDE DEF h
  <2>6. c \in Channels /\ c.id = id /\ c.base = TRUE /\ c.hz = h
    BY <2>1, <2>3, <2>5 DEF Channel, Channels
  <2> QED
    BY <2>4, <2>5, <2>6 DEF id, c
<1>4. \A i \in DOMAIN Order(std) : /\ chs[i].id = Order(std)[i] /\ chs[i].base = TRUE
                                   /\ chs[i] \in Channels
  BY <1>3, Zenon
<1>5. /\ Pool(chs, std) /\ Len(chs) = Len(PoolOrder)
      /\ IdsOf(chs) = ToSet(PoolOrder)
  BY <1>2, <1>4, BasePool
<1>6. ASSUME NEW i \in DOMAIN chs
      PROVE  \E j \in DOMAIN s.channels :
               chs[i].id = s.channels[j].id /\ chs[i].hz = s.channels[j].hz
  <2>1. PICK j \in DOMAIN s.channels :
               Order(std)[i] = s.channels[j].id /\ chs[i].hz = s.channels[j].hz
    BY <1>2, <1>3
  <2>2. chs[i].id = Order(std)[i]
    BY <1>2, <1>3
  <2> QED
    BY <2>1, <2>2
<1>7. ASSUME NEW T, Tuned(s.channels, s.freq, T) PROVE Tuned(chs, s.freq, T)
  BY <1>6, <1>7 DEF Tuned
<1> QED
  BY <1>5, <1>6, <1>7

LEMMA CustomForIs ==
  ASSUME NEW s, NEW std \in Standards, AnyPool(s.channels),
         NEW chs, chs = CustomFor(s, std)
  PROVE  /\ chs \in Seq(Channels) /\ Apart(chs)
         /\ Len(PoolOrder) + Len(chs) <= MaxChannels[std]
         /\ IdsOf(chs) \cap ToSet(PoolOrder) = {}
         /\ \A i \in DOMAIN chs : chs[i].base = (chs[i].id \in ToSet(PoolOrder))
         /\ \A T : Tuned(s.channels, s.freq, T) => Tuned(chs, s.freq, T)
         /\ ToSet(chs) \subseteq ToSet(s.channels)
<1>1. /\ s.channels \in Seq(Channels) /\ Apart(s.channels)
      /\ \A i \in DOMAIN s.channels :
           s.channels[i].base = (s.channels[i].id \in ToSet(PoolOrder))
  BY DEF Pool, AnyPool
<1>2. MaxChannels[std] \in Nat /\ Len(PoolOrder) <= MaxChannels[std] /\ Len(PoolOrder) \in Nat
      /\ Len(Order(std)) = Len(PoolOrder)
  BY RoomIs, OrderIs
<1>3. CASE ~AllowsCustom(std)
  <2>1. chs = <<>>
    BY <1>3 DEF CustomFor
  <2>2. chs \in Seq(Channels) /\ Len(chs) = 0 /\ DOMAIN chs = {}
    BY <2>1
  <2> QED
    BY <1>2, <2>2 DEF Apart, IdsOf, Tuned, ToSet
<1>4. CASE AllowsCustom(std)
  <2> DEFINE S == {ch \in ToSet(s.channels) : ~ch.base}
             k == Kept(s.channels, S)
             n == MaxChannels[std] - Len(Order(std))
  <2>1. chs = Cut(k, n)
    BY <1>4 DEF CustomFor
  <2>2. n \in Nat /\ Len(PoolOrder) + n = MaxChannels[std]
    BY <1>2
  <2>3. k \in Seq(Channels) /\ ToSet(k) = ToSet(s.channels) \cap S /\ DrawnFrom(k, s.channels)
    BY <1>1, KeptIs, KeptDrawn
  <2> HIDE DEF n, k
  <2>4. chs \in Seq(Channels) /\ Len(chs) <= n /\ DrawnFrom(chs, k)
    BY <2>1, <2>2, <2>3, CutIs
  <2>5. Apart(chs) /\ ToSet(chs) \subseteq ToSet(k)
    BY <1>1, <2>3, <2>4, DrawnKeeps
  <2>6. ASSUME NEW i \in DOMAIN chs
        PROVE  \E j \in DOMAIN s.channels : chs[i] = s.channels[j] /\ ~s.channels[j].base
    <3>1. chs[i] \in S
      BY <2>3, <2>5 DEF ToSet
    <3> QED
      BY <3>1 DEF ToSet
  <2>7. \A i \in DOMAIN chs : chs[i].id \notin ToSet(PoolOrder)
    BY <1>1, <2>6, Zenon
  <2>8. \A i \in DOMAIN chs : chs[i].base = (chs[i].id \in ToSet(PoolOrder))
    BY <1>1, <2>6, Zenon
  <2>9. ASSUME NEW T, Tuned(s.channels, s.freq, T) PROVE Tuned(chs, s.freq, T)
    BY <2>6, <2>9 DEF Tuned
  <2>10. IdsOf(chs) \cap ToSet(PoolOrder) = {}
    BY <2>7 DEF IdsOf
  <2>11. Len(PoolOrder) + Len(chs) <= MaxChannels[std]
    <3>1. Len(chs) \in Nat
      BY <2>4
    <3> QED
      BY <1>2, <2>2, <2>4, <3>1
  <2> QED
    BY <2>3, <2>4, <2>5, <2>8, <2>9, <2>10, <2>11
<1> QED
  BY <1>3, <1>4

LEMMA SelectionForIs ==
  ASSUME NEW s, NEW std \in Standards, Listed(s.selected), NEW chs,
         ToSet(PoolOrder) \subseteq IdsOf(chs), NEW list, list = SelectionFor(s, std, chs)
  PROVE  /\ Listed(list) /\ ToSet(list) \subseteq IdsOf(chs)
         /\ SubSeq(list, 1, Len(Kept(s.selected, IdsOf(chs)))) = Kept(s.selected, IdsOf(chs))
<1> DEFINE k == Kept(s.selected, IdsOf(chs))
           o == OrderGiven(std)
           d == Dropped(o, ToSet(k))
<1>1. s.selected \in Seq(Ids) /\ IsInjective(s.selected)
  BY DEF Listed
<1>2. k \in Seq(Ids) /\ ToSet(k) \subseteq IdsOf(chs) /\ DrawnFrom(k, s.selected)
  BY <1>1, KeptIs, KeptDrawn
<1>3. IsInjective(k)
  BY <1>1, <1>2, DrawnKeeps
<1>4. o \in Seq(Ids) /\ IsInjective(o) /\ ToSet(o) \subseteq ToSet(PoolOrder)
  <2>1. CASE o = LEOrder
    <3>1. LEOrder \in Seq(ToSet(PoolOrder)) /\ IsInjective(LEOrder) /\ ToSet(LEOrder) = ToSet(PoolOrder)
      BY OrdersAssumption
    <3>2. ToSet(PoolOrder) \subseteq Ids
      BY DEF Ids
    <3>3. LEOrder \in Seq(Ids)
      BY <3>1, <3>2
    <3> QED
      BY <2>1, <3>1, <3>3
  <2>2. CASE o = <<>>
    <3> DEFINE e == <<>>
    <3>1. e \in Seq(Ids) /\ DOMAIN e = {}
      OBVIOUS
    <3> HIDE DEF e
    <3>2. IsInjective(e) /\ ToSet(e) = {}
      BY <3>1 DEF IsInjective, ToSet
    <3>3. o = e
      BY <2>2 DEF e
    <3> QED
      BY <3>1, <3>2, <3>3
  <2> QED
    BY <2>1, <2>2 DEF OrderGiven
<1> HIDE DEF o
<1>5. d \in Seq(Ids) /\ ToSet(d) = ToSet(o) \ ToSet(k) /\ DrawnFrom(d, o)
  BY <1>4, DroppedIs
<1>6. IsInjective(d)
  BY <1>4, <1>5, DrawnKeeps
<1>7. list = Joined(k, d)
  BY DEF SelectionFor, Joined, o
<1> HIDE DEF k, d
<1>8. /\ list \in Seq(Ids) /\ Len(list) = Len(k) + Len(d)
      /\ \A i \in 1..Len(k) : list[i] = k[i]
  BY <1>2, <1>5, <1>7, JoinedIs
<1>9. ToSet(list) = ToSet(k) \cup ToSet(d) /\ IsInjective(list)
  <2>1. ToSet(k) \cap ToSet(d) = {}
    BY <1>5
  <2> QED
    BY <1>2, <1>3, <1>5, <1>6, <1>7, <2>1, ConcatKeeps DEF Joined
<1>10. SubSeq(list, 1, Len(k)) = k
  <2>1. Len(k) \in Nat /\ Len(d) \in Nat /\ Len(k) \in Int /\ Len(k) <= Len(list)
    BY <1>2, <1>5, <1>8
  <2> DEFINE p == SubSeq(list, 1, Len(k))
  <2>2. /\ p \in Seq(Ids) /\ Len(p) = IF 1 <= Len(k) THEN Len(k) ELSE 0
        /\ \A i \in 1..Len(k) : p[i] = list[i]
    BY <1>8, <2>1, PrefixIs
  <2> HIDE DEF p
  <2>3. Len(p) = Len(k)
    BY <2>1, <2>2
  <2>4. \A i \in 1..Len(k) : p[i] = k[i]
    BY <1>8, <2>2
  <2>5. p = k
    BY <1>2, <2>2, <2>3, <2>4
  <2> QED
    BY <2>5 DEF p
<1>11. Listed(list) /\ ToSet(list) \subseteq IdsOf(chs)
  BY <1>2, <1>4, <1>5, <1>8, <1>9 DEF Listed
<1> QED
  BY <1>10, <1>11 DEF k

\* A switch of standard leaves a pool the new standard allows and a selection
\* from it; what it keeps it keeps as it was.
LEMMA StandardOK ==
  ASSUME NEW s, NEW T, NEW O, StoreOK(s, T, O), NEW std \in Standards, std # s.std,
         NEW r, r = SetStandard(s, std)
  PROVE  /\ StoreOK(r, T, O) /\ r.activeMu = s.activeMu
         /\ \A id \in IdsOf(s.channels) \cap IdsOf(r.channels) :
              Find(r.channels, id).hz = Find(s.channels, id).hz
         /\ SubSeq(r.selected, 1, Len(Kept(s.selected, IdsOf(r.channels))))
              = Kept(s.selected, IdsOf(r.channels))
<1> DEFINE u == [std |-> std, spc |-> 80]
           w == SetConfig(s, u)
           chs == BaseFor(w, std) \o CustomFor(w, std)
           list == SelectionFor(w, std, chs)
           m == Rebuilt(w, std)
<1>1. DOMAIN u = {"std", "spc"} /\ u["std"] = std /\ u["spc"] = 80
  OBVIOUS
<1> HIDE DEF u
<1>2. /\ Settings(s) /\ Pool(s.channels, s.std) /\ Listed(s.selected)
      /\ Tuned(s.channels, s.freq, T) /\ s.dirty = {}
  BY DEF StoreOK, Contents
<1>3. Update(s, u)
  BY <1>1 DEF Update, ConfigPaths
<1>4. /\ Settings(w) /\ Marked(s, w)
      /\ w.std = Updated(s, u, "std") /\ w.freq = Updated(s, u, "freq")
      /\ w.selected = Updated(s, u, "selected")
      /\ w.activeMu = s.activeMu
      /\ w.channels = IF w.freq = s.freq THEN s.channels
                                         ELSE RetunedTo(s.channels, s.freq, w.freq)
  BY <1>2, <1>3, SetConfigIs
<1> HIDE DEF w
<1>5. w.std = std /\ w.freq = s.freq /\ w.selected = s.selected
  BY <1>1, <1>4 DEF Updated
<1>6. w.channels = s.channels
  BY <1>4, <1>5
<1>7. w.freq \in Frequencies /\ AnyPool(w.channels) /\ DOMAIN w = Fields
  BY <1>2, <1>4, <1>6 DEF Settings, Pool
<1> DEFINE base == BaseFor(w, std)
           cust == CustomFor(w, std)
<1>10. m = [w EXCEPT !.channels = chs, !.selected = list,
                     !.dirty = w.dirty \cup {"channels", "selected"}]
  BY DEF Rebuilt
<1>11. chs = Joined(base, cust)
  BY DEF Joined
<1>27. base = BaseFor(w, std) /\ cust = CustomFor(w, std)
  OBVIOUS
<1> HIDE DEF base, cust, list, chs
<1>8. /\ Pool(base, std) /\ Len(base) = Len(PoolOrder) /\ IdsOf(base) = ToSet(PoolOrder)
      /\ \A U : Tuned(w.channels, w.freq, U) => Tuned(base, w.freq, U)
      /\ \A i \in DOMAIN base : \E j \in DOMAIN w.channels :
           base[i].id = w.channels[j].id /\ base[i].hz = w.channels[j].hz
  BY <1>7, <1>27, BaseForIs
<1>9. /\ cust \in Seq(Channels) /\ Apart(cust)
      /\ Len(PoolOrder) + Len(cust) <= MaxChannels[std]
      /\ IdsOf(cust) \cap ToSet(PoolOrder) = {}
      /\ \A i \in DOMAIN cust : cust[i].base = (cust[i].id \in ToSet(PoolOrder))
      /\ \A U : Tuned(w.channels, w.freq, U) => Tuned(cust, w.freq, U)
      /\ ToSet(cust) \subseteq ToSet(w.channels)
  BY <1>7, <1>27, CustomForIs
<1>12. MaxChannels[std] \in Nat
  BY RoomIs
<1>13. /\ IdsOf(base) \cap IdsOf(cust) = {} /\ Len(base) + Len(cust) <= MaxChannels[std]
       /\ AnyPool(base)
  BY <1>8, <1>9 DEF Pool
<1>14. /\ Pool(chs, std) /\ IdsOf(chs) = IdsOf(base) \cup IdsOf(cust)
       /\ \A f, U : Tuned(base, f, U) /\ Tuned(cust, f, U) => Tuned(chs, f, U)
  BY <1>8, <1>9, <1>11, <1>12, <1>13, MorePool
<1>15. ToSet(PoolOrder) \subseteq IdsOf(chs) /\ Tuned(chs, s.freq, T)
  BY <1>2, <1>5, <1>6, <1>8, <1>9, <1>14
<1>16. /\ Listed(list) /\ ToSet(list) \subseteq IdsOf(chs)
       /\ SubSeq(list, 1, Len(Kept(w.selected, IdsOf(chs)))) = Kept(w.selected, IdsOf(chs))
  BY <1>2, <1>5, <1>15, SelectionForIs DEF list
<1>17. /\ But(w, m, {"channels", "selected", "dirty"}) /\ m.channels = chs /\ m.selected = list
       /\ m.dirty = w.dirty \cup {"channels", "selected"}
  BY <1>7, <1>10 DEF But, Fields, Paths, ConfigPaths
<1> HIDE DEF m
<1>18. Marked(w, m)
  BY <1>17, ButMarked
<1>19. Marked(s, m)
  BY <1>4, <1>18, MarkedThen
<1>20. /\ m.std = w.std /\ m.freq = w.freq /\ m.spc = w.spc /\ m.rate = w.rate
       /\ m.asdu = w.asdu /\ m.activeMu = w.activeMu /\ DOMAIN m = Fields
  BY <1>17 DEF But, Fields, Paths, ConfigPaths
<1>21. Settings(m)
  BY <1>4, <1>20 DEF Settings
<1>22. Contents(m, T, O)
  BY <1>5, <1>14, <1>15, <1>16, <1>17, <1>20 DEF Contents
<1>23. r = Notified(m)
  BY DEF SetStandard, m, w, u
<1>24. StoreOK(r, T, O) /\ \A k \in Kinds : r[k] = m[k]
  BY <1>19, <1>21, <1>22, <1>23, Announces
<1>25. r.channels = chs /\ r.selected = list /\ r.activeMu = s.activeMu
  BY <1>4, <1>17, <1>20, <1>24 DEF Kinds
<1>26. ASSUME NEW id \in IdsOf(s.channels) \cap IdsOf(chs)
       PROVE  Find(chs, id).hz = Find(s.channels, id).hz
  <2>1. PICK i \in DOMAIN chs : chs[i].id = id /\ Find(chs, id) = chs[i]
    BY FindIs
  <2>2. ToSet(chs) = ToSet(base) \cup ToSet(cust)
    BY <1>8, <1>9, <1>11, ConcatKeeps DEF Pool, AnyPool, Joined
  <2>3. \E j \in DOMAIN s.channels : s.channels[j].id = id /\ s.channels[j].hz = chs[i].hz
    <3>1. chs[i] \in ToSet(base) \/ chs[i] \in ToSet(w.channels)
      BY <1>9, <2>2 DEF ToSet
    <3>2. CASE chs[i] \in ToSet(base)
      <4>1. PICK k \in DOMAIN base : base[k] = chs[i]
        BY <3>2 DEF ToSet
      <4> QED
        BY <1>6, <1>8, <2>1, <4>1
    <3>3. CASE chs[i] \in ToSet(w.channels)
      BY <1>6, <2>1, <3>3 DEF ToSet
    <3> QED
      BY <3>1, <3>2, <3>3
  <2>4. PICK j \in DOMAIN s.channels : s.channels[j].id = id /\ s.channels[j].hz = chs[i].hz
    BY <2>3
  <2>5. Find(s.channels, id) = s.channels[j]
    BY <1>2, <2>4, FindIs DEF Pool, AnyPool
  <2> QED
    BY <2>1, <2>4, <2>5
<1> QED
  BY <1>5, <1>16, <1>24, <1>25, <1>26

(***************************************************************************)
(* The operations on the pool.                                              *)
(***************************************************************************)
WithPool(s, chs) == [s EXCEPT !.channels = chs, !.dirty = s.dirty \cup {"channels"}]

LEMMA NewPool ==
  ASSUME NEW s, DOMAIN s = Fields, s.dirty = {}, NEW chs
  PROVE  LET m == WithPool(s, chs)
         IN  /\ But(s, m, {"channels", "selected", "dirty"}) /\ m.channels = chs
             /\ m.selected = s.selected /\ m.dirty = {"channels"}
<1> DEFINE m == WithPool(s, chs)
<1>1. /\ DOMAIN m = Fields /\ m.channels = chs /\ m.dirty = s.dirty \cup {"channels"}
      /\ \A k \in Fields : k # "channels" /\ k # "dirty" => m[k] = s[k]
  BY DEF Fields, Paths, WithPool
<1> HIDE DEF m
<1>2. m.dirty = {"channels"}
  BY <1>1
<1>3. m.selected = s.selected
  BY <1>1 DEF Fields, Paths, ConfigPaths
<1>4. But(s, m, {"channels", "selected", "dirty"})
  BY <1>1 DEF But
<1> QED
  BY <1>1, <1>2, <1>3, <1>4 DEF m

LEMMA ResetOK ==
  ASSUME NEW s, NEW T, NEW O, StoreOK(s, T, O), NEW r, r = ResetChannels(s), NEW O2,
         ToSet(s.selected) \subseteq ToSet(PoolOrder) \cup O2
  PROVE  StoreOK(r, {}, O2) /\ r.activeMu = s.activeMu
<1> DEFINE chs == InitialChannels(s.std, s.freq)
           m == WithPool(s, chs)
<1>1. DOMAIN s = Fields /\ s.std \in Standards /\ s.freq \in Frequencies /\ s.dirty = {}
      /\ Listed(s.selected)
  BY DEF StoreOK, Settings, Contents
<1>2. Pool(chs, s.std) /\ IdsOf(chs) = ToSet(PoolOrder) /\ Tuned(chs, s.freq, {})
  BY <1>1, InitialIs
<1>3. r = Notified(m)
  BY DEF ResetChannels, SetChannels, WithPool
<1> HIDE DEF chs
<1>4. /\ But(s, m, {"channels", "selected", "dirty"}) /\ m.channels = chs
      /\ m.selected = s.selected /\ m.dirty = {"channels"}
  BY <1>1, NewPool
<1> HIDE DEF m
<1>5. ToSet(s.selected) \subseteq IdsOf(chs) \cup O2
  BY <1>2
<1> QED
  BY <1>1, <1>2, <1>3, <1>4, <1>5, PoolOK

LEMMA ClearOK ==
  ASSUME NEW s, NEW T, NEW O, StoreOK(s, T, O), NEW r, r = ClearCustom(s), NEW O2,
         ToSet(s.selected) \subseteq ToSet(PoolOrder) \cup O2
  PROVE  StoreOK(r, T, O2) /\ r.activeMu = s.activeMu
<1> DEFINE S == {ch \in ToSet(s.channels) : ch.base}
           chs == Kept(s.channels, S)
           m == WithPool(s, chs)
<1>1. DOMAIN s = Fields /\ s.std \in Standards /\ s.dirty = {} /\ Listed(s.selected)
      /\ Pool(s.channels, s.std) /\ Tuned(s.channels, s.freq, T)
  BY DEF StoreOK, Settings, Contents
<1>2. r = Notified(m)
  BY Zenon DEF ClearCustom, WithPool
<1>3. \A i \in DOMAIN s.channels : s.channels[i].base = TRUE => s.channels[i] \in S
  BY Zenon DEF ToSet
<1>4. MaxChannels[s.std] \in Nat
  BY <1>1, RoomIs
<1> HIDE DEF S
<1>5. Pool(chs, s.std) /\ \A f, U : Tuned(s.channels, f, U) => Tuned(chs, f, U)
  BY <1>1, <1>3, <1>4, LessPool
<1> HIDE DEF chs
<1>6. /\ But(s, m, {"channels", "selected", "dirty"}) /\ m.channels = chs
      /\ m.selected = s.selected /\ m.dirty = {"channels"}
  BY <1>1, NewPool
<1> HIDE DEF m
<1>7. ToSet(s.selected) \subseteq IdsOf(chs) \cup O2
  BY <1>5 DEF Pool, AnyPool
<1>8. Tuned(chs, s.freq, T)
  BY <1>1, <1>5
<1> QED
  BY <1>1, <1>2, <1>5, <1>6, <1>7, <1>8, PoolOK

\* The equations of the pool become others.
LEMMA RewriteOK ==
  ASSUME NEW s, NEW T, NEW O, StoreOK(s, T, O), NEW chs, Rewritten(s.channels, chs),
         NEW T2, Tuned(chs, s.freq, T2), NEW r, r = Notified(WithPool(s, chs))
  PROVE  StoreOK(r, T2, O) /\ r.activeMu = s.activeMu
<1> DEFINE m == WithPool(s, chs)
<1>1. DOMAIN s = Fields /\ s.dirty = {} /\ Listed(s.selected) /\ Pool(s.channels, s.std)
      /\ ToSet(s.selected) \subseteq IdsOf(s.channels) \cup O
  BY DEF StoreOK, Settings, Contents
<1>2. /\ But(s, m, {"channels", "selected", "dirty"}) /\ m.channels = chs
      /\ m.selected = s.selected /\ m.dirty = {"channels"}
  BY <1>1, NewPool
<1>3. r = Notified(m)
  OBVIOUS
<1> HIDE DEF m
<1>4. Pool(chs, s.std) /\ IdsOf(chs) = IdsOf(s.channels)
  BY <1>1, RewrittenPool
<1>5. ToSet(s.selected) \subseteq IdsOf(chs) \cup O
  BY <1>1, <1>4
<1> QED
  BY <1>1, <1>2, <1>3, <1>4, <1>5, PoolOK

HzAt(chs, id, hz) ==
  [i \in DOMAIN chs |-> IF chs[i].id = id THEN [chs[i] EXCEPT !.hz = hz] ELSE chs[i]]

LEMMA HzAtIs ==
  ASSUME NEW chs \in Seq(Channels), NEW id, NEW hz \in SUBSET Waves
  PROVE  /\ Rewritten(chs, HzAt(chs, id, hz))
         /\ \A f, T : Tuned(chs, f, T) => Tuned(HzAt(chs, id, hz), f, T \cup {id})
<1> DEFINE r == HzAt(chs, id, hz)
<1>1. DOMAIN r = DOMAIN chs /\ DOMAIN chs = 1..Len(chs) /\ Len(chs) \in Nat
  BY DEF HzAt
<1>2. r = [i \in 1..Len(chs) |-> r[i]]
  BY <1>1 DEF HzAt
<1>3. ASSUME NEW i \in DOMAIN chs
      PROVE  /\ chs[i].id = id => r[i] = [chs[i] EXCEPT !.hz = hz]
             /\ chs[i].id # id => r[i] = chs[i]
  BY DEF HzAt
<1> HIDE DEF r
<1>4. ASSUME NEW i \in DOMAIN chs
      PROVE  /\ r[i] \in Channels /\ r[i].id = chs[i].id /\ r[i].base = chs[i].base
             /\ chs[i].id # id => r[i].hz = chs[i].hz
  <2> DEFINE c == chs[i]
             q == r[i]
  <2>1. c \in Channels
    BY <1>1
  <2>2. CASE chs[i].id = id
    <3>1. q = [c EXCEPT !.hz = hz]
      BY <1>3, <2>2
    <3> HIDE DEF c, q
    <3>3. q \in Channels /\ q.id = c.id /\ q.base = c.base /\ q.hz = hz
      BY <2>1, <3>1 DEF Channels
    <3>2. r[i] \in Channels /\ r[i].id = chs[i].id /\ r[i].base = chs[i].base
      BY <3>3 DEF c, q
    <3> QED
      BY <2>2, <3>2
  <2>3. CASE chs[i].id # id
    BY <1>3, <2>1, <2>3
  <2> QED
    BY <2>2, <2>3
<1>5. r \in Seq(Channels) /\ Len(r) = Len(chs)
  BY <1>1, <1>2, <1>4
<1>6. Rewritten(chs, r)
  BY <1>4, <1>5 DEF Rewritten
<1>7. ASSUME NEW f, NEW T, Tuned(chs, f, T) PROVE Tuned(r, f, T \cup {id})
  BY <1>1, <1>4, <1>7 DEF Tuned
<1> QED
  BY <1>6, <1>7 DEF r

LEMMA EquationOK ==
  ASSUME NEW s, NEW T, NEW O, StoreOK(s, T, O), NEW id, NEW hz \in SUBSET Waves,
         NEW r, r = UpdateEquation(s, id, hz)
  PROVE  StoreOK(r, T \cup {id}, O) /\ r.activeMu = s.activeMu
<1>1. CASE id \notin IdsOf(s.channels)
  <2>1. r = s
    BY <1>1 DEF UpdateEquation
  <2>2. T \subseteq T \cup {id} /\ O \subseteq O
    OBVIOUS
  <2> DEFINE U == T \cup {id}
  <2> HIDE DEF U
  <2>3. StoreOK(s, U, O)
    BY <2>2, StoreWeaker DEF U
  <2> QED
    BY <2>1, <2>3 DEF U
<1>2. CASE id \in IdsOf(s.channels)
  <2> DEFINE chs == HzAt(s.channels, id, hz)
             U == T \cup {id}
  <2>1. r = Notified(WithPool(s, chs))
    BY <1>2, Zenon DEF UpdateEquation, WithPool, HzAt
  <2>2. s.channels \in Seq(Channels) /\ Tuned(s.channels, s.freq, T)
    BY DEF StoreOK, Contents, Pool, AnyPool
  <2>3. Rewritten(s.channels, chs) /\ Tuned(chs, s.freq, U)
    BY <2>2, HzAtIs
  <2> HIDE DEF chs, U
  <2>4. StoreOK(r, U, O) /\ r.activeMu = s.activeMu
    BY <2>1, <2>3, RewriteOK
  <2> QED
    BY <2>4 DEF U
<1> QED
  BY <1>1, <1>2

LEMMA TemplateOK ==
  ASSUME NEW s, NEW T, NEW O, StoreOK(s, T, O), NEW r, r = SetChannels(s, Templated(s))
  PROVE  StoreOK(r, T \ ToSet(PoolOrder), O) /\ r.activeMu = s.activeMu
<1> DEFINE chs == Templated(s)
           old == s.channels
           U == T \ ToSet(PoolOrder)
<1>1. /\ s.freq \in Frequencies /\ old \in Seq(Channels) /\ Tuned(old, s.freq, T)
  BY DEF StoreOK, Settings, Contents, Pool, AnyPool
<1>2. r = Notified(WithPool(s, chs))
  BY DEF SetChannels, WithPool
<1>3. DOMAIN chs = DOMAIN old /\ DOMAIN old = 1..Len(old) /\ Len(old) \in Nat
  BY <1>1 DEF Templated
<1>4. chs = [i \in 1..Len(old) |-> chs[i]]
  BY <1>3 DEF Templated
<1> DEFINE h == {s.freq}
<1>5. ASSUME NEW i \in DOMAIN old
      PROVE  /\ old[i].id \in ToSet(PoolOrder) => chs[i] = [old[i] EXCEPT !.hz = h]
             /\ old[i].id \notin ToSet(PoolOrder) => chs[i] = old[i]
  BY DEF Templated
<1>6. h \in SUBSET Waves
  BY <1>1 DEF Waves
<1> HIDE DEF chs, old, h, U
<1>7. ASSUME NEW i \in DOMAIN old
      PROVE  /\ chs[i] \in Channels /\ chs[i].id = old[i].id /\ chs[i].base = old[i].base
             /\ chs[i].hz = IF old[i].id \in ToSet(PoolOrder) THEN h ELSE old[i].hz
  <2>1. old[i] \in Channels
    BY <1>1, <1>3
  <2>2. CASE old[i].id \in ToSet(PoolOrder)
    <3>1. chs[i] = [old[i] EXCEPT !.hz = h]
      BY <1>5, <2>2
    <3>2. /\ chs[i] \in Channels /\ chs[i].id = old[i].id /\ chs[i].base = old[i].base
          /\ chs[i].hz = h
      BY <1>6, <2>1, <3>1, WithHz
    <3> QED
      BY <2>2, <3>2
  <2>3. CASE old[i].id \notin ToSet(PoolOrder)
    BY <1>5, <2>1, <2>3
  <2> QED
    BY <2>2, <2>3
<1>8. chs \in Seq(Channels) /\ Len(chs) = Len(old)
  BY <1>3, <1>4, <1>7
<1>9. Rewritten(old, chs)
  BY <1>7, <1>8 DEF Rewritten
<1>10. Tuned(chs, s.freq, U)
  <2> SUFFICES ASSUME NEW i \in DOMAIN chs, chs[i].id \notin U
               PROVE  chs[i].hz \subseteq {s.freq}
    BY DEF Tuned
  <2>1. CASE old[i].id \in ToSet(PoolOrder)
    BY <1>3, <1>7, <2>1 DEF h
  <2>2. CASE old[i].id \notin ToSet(PoolOrder)
    BY <1>1, <1>3, <1>7, <2>2 DEF U, Tuned
  <2> QED
    BY <2>1, <2>2
<1>11. StoreOK(r, U, O) /\ r.activeMu = s.activeMu
  BY <1>2, <1>9, <1>10, RewriteOK DEF old
<1> QED
  BY <1>11 DEF U

\* A pool and a selection written together.
WithBoth(s, chs, list) ==
  [s EXCEPT !.channels = chs, !.selected = list,
            !.dirty = s.dirty \cup {"channels", "selected"}]

LEMMA NewBoth ==
  ASSUME NEW s, DOMAIN s = Fields, s.dirty = {}, NEW chs, NEW list
  PROVE  LET m == WithBoth(s, chs, list)
         IN  /\ But(s, m, {"channels", "selected", "dirty"}) /\ m.channels = chs
             /\ m.selected = list /\ m.dirty = {"channels", "selected"}
<1> DEFINE m == WithBoth(s, chs, list)
<1>1. /\ DOMAIN m = Fields /\ m.channels = chs /\ m.selected = list
      /\ m.dirty = s.dirty \cup {"channels", "selected"}
      /\ \A k \in Fields : k # "channels" /\ k # "selected" /\ k # "dirty" => m[k] = s[k]
  BY DEF Fields, Paths, ConfigPaths, WithBoth
<1> HIDE DEF m
<1>2. m.dirty = {"channels", "selected"}
  BY <1>1
<1>4. But(s, m, {"channels", "selected", "dirty"})
  BY <1>1 DEF But
<1> QED
  BY <1>1, <1>2, <1>4 DEF m

LEMMA BothOK ==
  ASSUME NEW s, NEW T, NEW O, StoreOK(s, T, O), NEW chs, Pool(chs, s.std),
         NEW list, Listed(list), NEW T2, NEW O2, Tuned(chs, s.freq, T2),
         ToSet(list) \subseteq IdsOf(chs) \cup O2,
         NEW r, r = Notified(WithBoth(s, chs, list))
  PROVE  StoreOK(r, T2, O2) /\ r.activeMu = s.activeMu
<1> DEFINE m == WithBoth(s, chs, list)
<1>1. DOMAIN s = Fields /\ s.dirty = {}
  BY DEF StoreOK, Settings
<1>2. /\ But(s, m, {"channels", "selected", "dirty"}) /\ m.channels = chs
      /\ m.selected = list /\ m.dirty = {"channels", "selected"}
  BY <1>1, NewBoth
<1>3. r = Notified(m)
  OBVIOUS
<1> HIDE DEF m
<1> QED
  BY <1>2, <1>3, PoolOK

LEMMA AppendPool ==
  ASSUME NEW chs, NEW std, Pool(chs, std), NEW c \in Channels, c.id \notin IdsOf(chs),
         c.base = FALSE, MaxChannels[std] \in Nat, Len(chs) < MaxChannels[std]
  PROVE  /\ Pool(Append(chs, c), std)
         /\ IdsOf(Append(chs, c)) = IdsOf(chs) \cup {c.id}
         /\ \A f, T : Tuned(chs, f, T) => Tuned(Append(chs, c), f, T \cup {c.id})
<1> DEFINE r == Append(chs, c)
           n == Len(chs)
<1>1. /\ chs \in Seq(Channels) /\ Apart(chs) /\ n \in Nat /\ DOMAIN chs = 1..n
      /\ ToSet(PoolOrder) \subseteq IdsOf(chs)
  BY DEF Pool, AnyPool
<1>8. \A i \in DOMAIN chs : chs[i].base = (chs[i].id \in ToSet(PoolOrder))
  BY DEF Pool, AnyPool
<1>2. /\ r \in Seq(Channels) /\ DOMAIN r = 1..(n + 1) /\ Len(r) = n + 1
      /\ r[n + 1] = c /\ \A k \in 1..n : r[k] = chs[k]
  BY <1>1
<1> HIDE DEF r
<1>3. \A k \in DOMAIN r : \/ k \in DOMAIN chs /\ r[k] = chs[k]
                          \/ k = n + 1 /\ r[k] = c
  <2> TAKE k \in DOMAIN r
  <2>1. k \in 1..n \/ k = n + 1
    BY <1>1, <1>2
  <2> QED
    BY <1>1, <1>2, <2>1
<1>9. Len(r) <= MaxChannels[std]
  BY <1>1, <1>2
<1> HIDE DEF n
<1>4. \A k \in DOMAIN chs : chs[k].id # c.id
  BY DEF IdsOf
<1>5. Apart(r)
  BY <1>1, <1>3, <1>4 DEF Apart
<1>6. IdsOf(r) = IdsOf(chs) \cup {c.id}
  <2>1. \A k \in 1..n : chs[k].id \in IdsOf(r)
    BY <1>1, <1>2 DEF IdsOf
  <2>2. c.id \in IdsOf(r)
    <3>1. n + 1 \in DOMAIN r
      BY <1>1, <1>2
    <3>2. r[n + 1].id = c.id
      BY <1>2
    <3> QED
      BY <3>1, <3>2 DEF IdsOf
  <2>3. \A k \in DOMAIN r : r[k].id \in IdsOf(chs) \cup {c.id}
    BY <1>3 DEF IdsOf
  <2> QED
    BY <1>1, <2>1, <2>2, <2>3 DEF IdsOf
<1>7. ASSUME NEW f, NEW T, Tuned(chs, f, T) PROVE Tuned(r, f, T \cup {c.id})
  BY <1>3, <1>7 DEF Tuned
<1>10. c.base = (c.id \in ToSet(PoolOrder))
  <2>1. (c.id \in ToSet(PoolOrder)) = FALSE
    BY <1>1
  <2> QED
    BY <2>1
<1>11. \A k \in DOMAIN r : r[k].base = (r[k].id \in ToSet(PoolOrder))
  BY <1>3, <1>8, <1>10, Zenon
<1> QED
  BY <1>1, <1>2, <1>5, <1>6, <1>7, <1>9, <1>11 DEF Pool, AnyPool, r

LEMMA AddOK ==
  ASSUME NEW s, NEW T, NEW O, StoreOK(s, T, O), NEW id \in Ids,
         NEW hz \in SUBSET Waves, CanAdd(s, id), NEW r, r = AddChannel(s, id, hz)
  PROVE  StoreOK(r, T \cup {id}, O \ {id}) /\ r.activeMu = s.activeMu
<1> DEFINE h == AtFrequency(hz, 50, s.freq)
           c == Channel(id, FALSE, h)
           chs == Append(s.channels, c)
           list == IF id \in ToSet(s.selected) THEN s.selected ELSE Append(s.selected, id)
           U == T \cup {id}
           P == O \ {id}
<1>1. /\ s.std \in Standards /\ s.freq \in Frequencies /\ Pool(s.channels, s.std)
      /\ Listed(s.selected) /\ ToSet(s.selected) \subseteq IdsOf(s.channels) \cup O
      /\ Tuned(s.channels, s.freq, T)
  BY DEF StoreOK, Settings, Contents
<1>2. id \notin IdsOf(s.channels) /\ Len(s.channels) < MaxChannels[s.std]
  BY DEF CanAdd
<1>3. MaxChannels[s.std] \in Nat
  BY <1>1, RoomIs
<1>4. h \in SUBSET Waves
  BY <1>1 DEF AtFrequency, Waves
<1>5. r = Notified(WithBoth(s, chs, list))
  BY Zenon DEF AddChannel, WithBoth
<1> HIDE DEF h
<1>6. c \in Channels /\ c.id = id /\ c.base = FALSE
  BY <1>4 DEF Channel, Channels
<1> HIDE DEF c
<1>7. /\ Pool(chs, s.std) /\ IdsOf(chs) = IdsOf(s.channels) \cup {id}
      /\ Tuned(chs, s.freq, U)
  BY <1>1, <1>2, <1>3, <1>6, AppendPool
<1>8. Listed(list) /\ ToSet(list) \subseteq ToSet(s.selected) \cup {id}
  <2>1. CASE id \in ToSet(s.selected)
    BY <1>1, <2>1
  <2>2. CASE id \notin ToSet(s.selected)
    <3>1. list = Append(s.selected, id)
      BY <2>2
    <3> HIDE DEF list
    <3> QED
      BY <1>1, <2>2, <3>1, AppendListed
  <2> QED
    BY <2>1, <2>2
<1> HIDE DEF chs, list, U
<1>9. ToSet(list) \subseteq IdsOf(chs) \cup P
  BY <1>1, <1>7, <1>8
<1> HIDE DEF P
<1>10. StoreOK(r, U, P) /\ r.activeMu = s.activeMu
  BY <1>5, <1>7, <1>8, <1>9, BothOK
<1> QED
  BY <1>10 DEF U, P

LEMMA RemoveOK ==
  ASSUME NEW s, NEW T, NEW O, StoreOK(s, T, O), NEW id, NEW r, r = RemoveChannel(s, id)
  PROVE  StoreOK(r, T, O) /\ r.activeMu = s.activeMu
<1>1. CASE ~(id \in IdsOf(s.channels) /\ ~Find(s.channels, id).base)
  BY <1>1 DEF RemoveChannel
<1>2. CASE id \in IdsOf(s.channels) /\ ~Find(s.channels, id).base
  <2> DEFINE S == {ch \in ToSet(s.channels) : ch.id # id}
             chs == Kept(s.channels, S)
             list == Dropped(s.selected, {id})
  <2>1. /\ s.std \in Standards /\ Pool(s.channels, s.std) /\ Apart(s.channels)
        /\ Listed(s.selected) /\ ToSet(s.selected) \subseteq IdsOf(s.channels) \cup O
        /\ Tuned(s.channels, s.freq, T) /\ s.selected \in Seq(Ids)
    BY DEF StoreOK, Settings, Contents, Pool, AnyPool, Listed
  <2>2. r = Notified(WithBoth(s, chs, list))
    BY <1>2, Zenon DEF RemoveChannel, WithBoth
  <2>3. MaxChannels[s.std] \in Nat
    BY <2>1, RoomIs
  <2>4. ASSUME NEW i \in DOMAIN s.channels, s.channels[i].base = TRUE
        PROVE  s.channels[i] \in S
    <3>1. s.channels[i].id = id => Find(s.channels, id) = s.channels[i]
      BY <1>2, <2>1, FindIs
    <3>2. s.channels[i].id # id
      BY <1>2, <2>4, <3>1, Zenon
    <3> QED
      BY <3>2 DEF ToSet
  <2>5. ToSet(s.channels) \cap S = S
    OBVIOUS
  <2>6. {c.id : c \in S} = IdsOf(s.channels) \ {id}
    BY DEF IdsOf, ToSet
  <2> HIDE DEF S
  <2>7. /\ Pool(chs, s.std) /\ IdsOf(chs) = {c.id : c \in ToSet(s.channels) \cap S}
        /\ \A f, U : Tuned(s.channels, f, U) => Tuned(chs, f, U)
    BY <2>1, <2>3, <2>4, LessPool
  <2>8. list \in Seq(Ids) /\ ToSet(list) = ToSet(s.selected) \ {id} /\ DrawnFrom(list, s.selected)
    BY <2>1, DroppedIs
  <2>9. Listed(list)
    BY <2>1, <2>8, DrawnListed
  <2> HIDE DEF chs, list
  <2>10. ToSet(list) \subseteq IdsOf(chs) \cup O
    BY <2>1, <2>5, <2>6, <2>7, <2>8
  <2>11. Tuned(chs, s.freq, T)
    BY <2>1, <2>7
  <2> QED
    BY <2>2, <2>7, <2>9, <2>10, <2>11, BothOK
<1> QED
  BY <1>1, <1>2

LEMMA PresetsAre ==
  ASSUME NEW s, s.std \in Standards, s.freq \in Frequencies, Pool(s.channels, s.std),
         NEW more, more = PresetChannels(s)
  PROVE  /\ more \in Seq(Channels) /\ Apart(more)
         /\ IdsOf(s.channels) \cap IdsOf(more) = {}
         /\ \A i \in DOMAIN more : more[i].base = (more[i].id \in ToSet(PoolOrder))
         /\ Len(s.channels) + Len(more) <= MaxChannels[s.std]
         /\ \A T : Tuned(more, s.freq, T)
<1> DEFINE PV == [id : {Preset[i].id : i \in DOMAIN Preset}, tuned : BOOLEAN]
           S == {p \in ToSet(Preset) : p.id \notin IdsOf(s.channels)}
           fresh == Kept(Preset, S)
           n == MaxChannels[s.std] - Len(s.channels)
           taken == Cut(fresh, n)
           h == [i \in DOMAIN taken |-> IF taken[i].tuned THEN {s.freq} ELSE {}]
<1>1. Preset \in Seq(PV) /\ Apart(Preset)
  BY PresetAssumption DEF Apart
<1>2. /\ s.channels \in Seq(Channels) /\ ToSet(PoolOrder) \subseteq IdsOf(s.channels)
      /\ Len(s.channels) \in Nat /\ Len(s.channels) <= MaxChannels[s.std]
      /\ MaxChannels[s.std] \in Nat
  BY RoomIs DEF Pool, AnyPool
<1>3. n \in Nat /\ Len(s.channels) + n = MaxChannels[s.std]
  BY <1>2
<1>4. more = [i \in DOMAIN taken |-> Channel(taken[i].id, FALSE,
                                               IF taken[i].tuned THEN {s.freq} ELSE {})]
  BY DEF PresetChannels
<1> HIDE DEF PV, n
<1>5. fresh \in Seq(PV) /\ DrawnFrom(fresh, Preset) /\ ToSet(fresh) = ToSet(Preset) \cap S
  BY <1>1, KeptIs, KeptDrawn
<1> HIDE DEF fresh
<1>6. taken \in Seq(PV) /\ Len(taken) <= n /\ DrawnFrom(taken, fresh)
  BY <1>3, <1>5, CutIs
<1> HIDE DEF taken
<1>7. Apart(taken) /\ ToSet(taken) \subseteq S
  BY <1>1, <1>5, <1>6, DrawnKeeps
<1>8. DOMAIN taken = 1..Len(taken) /\ Len(taken) \in Nat
  BY <1>6
<1>9. ASSUME NEW i \in DOMAIN taken
      PROVE  /\ more[i] \in Channels /\ more[i].id = taken[i].id /\ more[i].base = FALSE
             /\ more[i].hz \subseteq {s.freq}
             /\ more[i].id \notin IdsOf(s.channels)
  <2> DEFINE c == more[i]
             id == taken[i].id
             z == IF taken[i].tuned THEN {s.freq} ELSE {}
  <2>1. c = Channel(id, FALSE, z)
    BY <1>4
  <2>2. z \subseteq {s.freq} /\ z \in SUBSET Waves
    BY DEF Waves
  <2>3. taken[i] \in PV /\ taken[i] \in S
    <3>1. taken[i] \in ToSet(taken)
      BY DEF ToSet
    <3>2. taken[i] \in PV
      BY <1>6
    <3> HIDE DEF S
    <3> QED
      BY <1>7, <3>1, <3>2
  <2>4. id \in Ids
    BY <2>3 DEF PV, Ids
  <2>5. id \notin IdsOf(s.channels)
    BY <2>3
  <2> HIDE DEF c, id, z
  <2>6. c \in Channels /\ c.id = id /\ c.base = FALSE /\ c.hz = z
    BY <2>1, <2>2, <2>4 DEF Channel, Channels
  <2> QED
    BY <2>2, <2>5, <2>6 DEF c, id
<1> DEFINE d == DOMAIN taken
<1>10. DOMAIN more = d /\ more = [i \in d |-> more[i]]
  BY <1>4
<1>17. \A i \in d : more[i] \in Channels /\ more[i].id = taken[i].id
  BY <1>9, Zenon
<1>18. \A i \in d : more[i].hz \subseteq {s.freq} /\ more[i].id \notin IdsOf(s.channels)
  BY <1>9, Zenon
<1>19. \A i \in d : more[i].base = FALSE
  BY <1>9, Zenon
<1>20. d = 1..Len(taken)
  BY <1>8
<1> HIDE DEF d
<1>11. more \in Seq(Channels) /\ Len(more) = Len(taken)
  BY <1>8, <1>10, <1>17, <1>20
<1>12. Apart(more)
  BY <1>7, <1>10, <1>17 DEF Apart, d
<1>13. IdsOf(s.channels) \cap IdsOf(more) = {}
  BY <1>10, <1>18 DEF IdsOf
<1>14. ASSUME NEW i \in DOMAIN more
       PROVE  more[i].base = (more[i].id \in ToSet(PoolOrder))
  <2>1. (more[i].id \in ToSet(PoolOrder)) = FALSE
    BY <1>2, <1>10, <1>18
  <2>2. more[i].base = FALSE
    BY <1>10, <1>19
  <2> QED
    BY <2>1, <2>2
<1>15. Len(s.channels) + Len(more) <= MaxChannels[s.std]
  BY <1>2, <1>3, <1>6, <1>8, <1>11
<1>16. \A T : Tuned(more, s.freq, T)
  BY <1>10, <1>18 DEF Tuned
<1> QED
  BY <1>11, <1>12, <1>13, <1>14, <1>15, <1>16

LEMMA PresetsOK ==
  ASSUME NEW s, NEW T, NEW O, StoreOK(s, T, O), NEW r, r = AddPresets(s)
  PROVE  StoreOK(r, T, O) /\ r.activeMu = s.activeMu
<1> DEFINE more == PresetChannels(s)
           chs == Joined(s.channels, more)
           m == WithPool(s, chs)
<1>1. CASE r = s
  BY <1>1
<1>2. CASE r = Notified(m)
  <2>1. /\ DOMAIN s = Fields /\ s.dirty = {} /\ s.std \in Standards /\ s.freq \in Frequencies
        /\ Pool(s.channels, s.std) /\ AnyPool(s.channels)
        /\ Listed(s.selected) /\ ToSet(s.selected) \subseteq IdsOf(s.channels) \cup O
        /\ Tuned(s.channels, s.freq, T)
    BY DEF StoreOK, Settings, Contents, Pool
  <2>2. /\ more \in Seq(Channels) /\ Apart(more)
        /\ IdsOf(s.channels) \cap IdsOf(more) = {}
        /\ \A i \in DOMAIN more : more[i].base = (more[i].id \in ToSet(PoolOrder))
        /\ Len(s.channels) + Len(more) <= MaxChannels[s.std]
        /\ \A U : Tuned(more, s.freq, U)
    BY <2>1, PresetsAre
  <2> HIDE DEF more
  <2>3. MaxChannels[s.std] \in Nat
    BY <2>1, RoomIs
  <2> DEFINE old == s.channels
             std == s.std
  <2>7. chs = Joined(old, more)
    OBVIOUS
  <2>8. /\ AnyPool(old) /\ MaxChannels[std] \in Nat /\ IdsOf(old) \cap IdsOf(more) = {}
        /\ Len(old) + Len(more) <= MaxChannels[std]
    BY <2>1, <2>2, <2>3
  <2> HIDE DEF chs, old, std
  <2>9. /\ Pool(chs, std) /\ IdsOf(chs) = IdsOf(old) \cup IdsOf(more)
        /\ \A f, U : Tuned(old, f, U) /\ Tuned(more, f, U) => Tuned(chs, f, U)
    BY <2>2, <2>7, <2>8, MorePool
  <2>4. /\ Pool(chs, s.std) /\ IdsOf(chs) = IdsOf(s.channels) \cup IdsOf(more)
        /\ \A f, U : Tuned(s.channels, f, U) /\ Tuned(more, f, U) => Tuned(chs, f, U)
    BY <2>9 DEF old, std
  <2> HIDE DEF chs
  <2>5. /\ But(s, m, {"channels", "selected", "dirty"}) /\ m.channels = chs
        /\ m.selected = s.selected /\ m.dirty = {"channels"}
    BY <2>1, NewPool
  <2> HIDE DEF m
  <2>6. Tuned(chs, s.freq, T) /\ ToSet(s.selected) \subseteq IdsOf(chs) \cup O
    BY <2>1, <2>2, <2>4
  <2> QED
    BY <1>2, <2>1, <2>4, <2>5, <2>6, PoolOK
<1>3. r = s \/ r = Notified(m)
  BY Zenon DEF AddPresets, WithPool, Joined
<1> QED
  BY <1>1, <1>2, <1>3

LEMMA ResetConfigOK ==
  ASSUME NEW s, NEW T, NEW O, StoreOK(s, T, O), NEW r, r = ResetConfig(s)
  PROVE  StoreOK(r, {}, {}) /\ r.activeMu = s.activeMu
<1> DEFINE u == InitialConfig
           w == SetConfig(s, u)
           chs == InitialChannels("9-2LE", 60)
           m == WithPool(w, chs)
<1>1. /\ DOMAIN u = {"std", "freq", "spc", "rate", "asdu", "selected"}
      /\ u["std"] = "9-2LE" /\ u["freq"] = 60 /\ u["spc"] = 80 /\ u["rate"] = 4800
      /\ u["asdu"] = 1 /\ u["selected"] = LEOrder
  BY DEF InitialConfig
<1> HIDE DEF u
<1>2. /\ Updated(s, u, "std") = "9-2LE" /\ Updated(s, u, "freq") = 60
      /\ Updated(s, u, "spc") = 80 /\ Updated(s, u, "selected") = LEOrder
  BY <1>1 DEF Updated
<1>3. Update(s, u) /\ Settings(s)
  BY <1>1, <1>2 DEF Update, ConfigPaths, StoreOK, Standards, Frequencies
<1>4. /\ Settings(w) /\ Marked(s, w) /\ w.activeMu = s.activeMu
      /\ w.std = Updated(s, u, "std") /\ w.freq = Updated(s, u, "freq")
      /\ w.selected = Updated(s, u, "selected")
  BY <1>3, SetConfigIs
<1> HIDE DEF w
<1>5. w.std = "9-2LE" /\ w.freq = 60 /\ w.selected = LEOrder /\ DOMAIN w = Fields
  BY <1>2, <1>4 DEF Settings
<1>6. r = Notified(m)
  BY Zenon DEF ResetConfig, WithPool, m, w, u
<1>7. "9-2LE" \in Standards /\ 60 \in Frequencies
  BY DEF Standards, Frequencies
<1>8. Pool(chs, "9-2LE") /\ IdsOf(chs) = ToSet(PoolOrder) /\ Tuned(chs, 60, {})
  BY <1>7, InitialIs
<1> HIDE DEF chs
<1>9. /\ But(w, m, {"channels", "dirty"}) /\ m.channels = chs
      /\ m.dirty = w.dirty \cup {"channels"}
  <2>1. m = [w EXCEPT !.channels = chs, !.dirty = w.dirty \cup {"channels"}]
    BY DEF WithPool
  <2> HIDE DEF m
  <2> QED
    BY <1>5, <2>1 DEF But, Fields, Paths
<1> HIDE DEF m
<1>10. Marked(w, m)
  BY <1>9, ButMarked
<1>11. Marked(s, m)
  BY <1>4, <1>10, MarkedThen
<1>12. /\ m.std = w.std /\ m.freq = w.freq /\ m.spc = w.spc /\ m.rate = w.rate
       /\ m.asdu = w.asdu /\ m.activeMu = w.activeMu /\ m.selected = w.selected
       /\ DOMAIN m = Fields
  BY <1>9 DEF But, Fields, Paths, ConfigPaths
<1>13. Settings(m)
  BY <1>4, <1>12 DEF Settings
<1>14. Listed(LEOrder) /\ ToSet(LEOrder) = ToSet(PoolOrder)
  <2>1. LEOrder \in Seq(ToSet(PoolOrder)) /\ IsInjective(LEOrder) /\ ToSet(LEOrder) = ToSet(PoolOrder)
    BY OrdersAssumption
  <2>2. ToSet(PoolOrder) \subseteq Ids
    BY DEF Ids
  <2>3. LEOrder \in Seq(Ids)
    BY <2>1, <2>2
  <2> QED
    BY <2>1, <2>3 DEF Listed
<1>15. Contents(m, {}, {})
  BY <1>5, <1>8, <1>9, <1>12, <1>14 DEF Contents
<1>16. StoreOK(r, {}, {}) /\ \A k \in Kinds : r[k] = m[k]
  BY <1>6, <1>11, <1>13, <1>15, Announces
<1> QED
  BY <1>4, <1>12, <1>16 DEF Kinds

(***************************************************************************)
(* A file.                                                                  *)
(***************************************************************************)
EquatedUpTo(f, s, eqs, m) ==
  [n \in 0..m |-> IF n = 0 THEN s ELSE UpdateEquation(f[n - 1], eqs[n].id, eqs[n].hz)]

LEMMA EquatedExists ==
  ASSUME NEW s, NEW eqs
  PROVE  \A m \in Nat : \E f : f = EquatedUpTo(f, s, eqs, m)
<1> DEFINE S == {m \in Nat : \E f : f = EquatedUpTo(f, s, eqs, m)}
<1>1. 0 \in S
  <2> DEFINE g == [n \in 0..0 |-> s]
  <2>1. g = EquatedUpTo(g, s, eqs, 0)
    BY DEF EquatedUpTo
  <2> QED
    BY <2>1
<1>2. ASSUME NEW m \in Nat, m \in S PROVE m + 1 \in S
  <2>1. PICK f : f = EquatedUpTo(f, s, eqs, m)
    BY <1>2
  <2> DEFINE g == [n \in 0..(m + 1) |->
                     IF n = m + 1 THEN UpdateEquation(f[n - 1], eqs[n].id, eqs[n].hz)
                                  ELSE f[n]]
  <2>2. \A n \in 0..m : f[n] = IF n = 0 THEN s
                               ELSE UpdateEquation(f[n - 1], eqs[n].id, eqs[n].hz)
    BY <2>1 DEF EquatedUpTo
  <2>3. \A n \in 0..m : g[n] = f[n]
    OBVIOUS
  <2>4. \A n \in 0..(m + 1) : g[n] = EquatedUpTo(g, s, eqs, m + 1)[n]
    <3> TAKE n \in 0..(m + 1)
    <3>1. CASE n = m + 1
      BY <3>1, <2>3 DEF EquatedUpTo
    <3>2. CASE n \in 0..m
      <4>1. g[n] = f[n] /\ (n # 0 => g[n - 1] = f[n - 1])
        BY <3>2, <2>3
      <4> HIDE DEF g
      <4> QED
        BY <3>2, <2>2, <4>1 DEF EquatedUpTo
    <3> QED
      BY <3>1, <3>2
  <2>5. g = EquatedUpTo(g, s, eqs, m + 1)
    BY <2>4 DEF EquatedUpTo
  <2> QED
    BY <2>5
<1> HIDE DEF S
<1>3. \A m \in Nat : m \in S
  BY <1>1, <1>2, NatByOne
<1> QED
  BY <1>3 DEF S

LEMMA EquatedOK ==
  ASSUME NEW s, NEW T, NEW O, StoreOK(s, T, O),
         NEW eqs \in Seq([id : Ids, hz : SUBSET Waves]),
         NEW r, r = Equated(s, eqs)
  PROVE  StoreOK(r, T \cup {e.id : e \in ToSet(eqs)}, O) /\ r.activeMu = s.activeMu
<1> DEFINE f == CHOOSE f : f = EquatedUpTo(f, s, eqs, Len(eqs))
           U == T \cup {e.id : e \in ToSet(eqs)}
           N == Len(eqs)
           S == {n \in Nat : n <= N => StoreOK(f[n], U, O) /\ f[n].activeMu = s.activeMu}
<1>1. r = f[N]
  BY DEF Equated, EquatedUpTo
<1>2. f = EquatedUpTo(f, s, eqs, N)
  BY EquatedExists
<1>3. N \in Nat /\ \A i \in 1..N : /\ eqs[i].hz \in SUBSET Waves /\ eqs[i].id \in U
  <2>1. N \in Nat /\ DOMAIN eqs = 1..N
    OBVIOUS
  <2> SUFFICES ASSUME NEW i \in 1..N
               PROVE  eqs[i].hz \in SUBSET Waves /\ eqs[i].id \in U
    BY <2>1
  <2>2. eqs[i] \in [id : Ids, hz : SUBSET Waves]
    <3> DEFINE V == [id : Ids, hz : SUBSET Waves]
    <3>1. eqs \in Seq(V)
      OBVIOUS
    <3> HIDE DEF V
    <3>2. eqs[i] \in V
      BY <2>1, <3>1
    <3> QED
      BY <3>2 DEF V
  <2>3. eqs[i] \in ToSet(eqs)
    BY <2>1 DEF ToSet
  <2> HIDE DEF N
  <2>4. eqs[i].id \in {e.id : e \in ToSet(eqs)}
    <3> DEFINE x == eqs[i]
    <3>1. x \in ToSet(eqs)
      BY <2>3
    <3> HIDE DEF x
    <3>2. x.id \in {e.id : e \in ToSet(eqs)}
      BY <3>1
    <3> QED
      BY <3>2 DEF x
  <2>5. eqs[i].hz \in SUBSET Waves
    BY <2>2
  <2> QED
    BY <2>4, <2>5
<1> HIDE DEF f, N
<1>4. \A n \in 0..N : f[n] = IF n = 0 THEN s ELSE UpdateEquation(f[n - 1], eqs[n].id, eqs[n].hz)
  BY <1>2 DEF EquatedUpTo
<1>5. T \subseteq U
  OBVIOUS
<1> HIDE DEF U
<1>6. 0 \in S
  <2>1. f[0] = s
    BY <1>3, <1>4
  <2>2. StoreOK(s, U, O)
    BY <1>5, StoreWeaker
  <2> QED
    BY <2>1, <2>2
<1>7. ASSUME NEW n \in Nat, n \in S PROVE n + 1 \in S
  <2> SUFFICES ASSUME n + 1 <= N
               PROVE  StoreOK(f[n + 1], U, O) /\ f[n + 1].activeMu = s.activeMu
    OBVIOUS
  <2> DEFINE id == eqs[n + 1].id
             hz == eqs[n + 1].hz
             p == f[n]
             q == f[n + 1]
  <2>1. n + 1 \in 1..N /\ n + 1 \in 0..N /\ n <= N /\ (n + 1) - 1 = n /\ n + 1 # 0
    BY <1>3
  <2>2. q = UpdateEquation(p, id, hz)
    BY <1>4, <2>1
  <2>3. StoreOK(p, U, O) /\ p.activeMu = s.activeMu
    BY <1>7, <2>1
  <2>4. hz \in SUBSET Waves /\ id \in U
    BY <1>3, <2>1
  <2> HIDE DEF id, hz, p, q
  <2>5. StoreOK(q, U \cup {id}, O) /\ q.activeMu = p.activeMu
    BY <2>2, <2>3, <2>4, EquationOK
  <2>6. U \cup {id} = U
    BY <2>4
  <2>7. StoreOK(q, U, O) /\ q.activeMu = s.activeMu
    BY <2>3, <2>5, <2>6
  <2> QED
    BY <2>7 DEF q
<1>8. \A n \in Nat : n \in S
  <2> HIDE DEF S
  <2> QED
    BY <1>6, <1>7, NatByOne
<1>9. StoreOK(f[N], U, O) /\ f[N].activeMu = s.activeMu
  BY <1>3, <1>8
<1> QED
  BY <1>1, <1>9 DEF U

LEMMA FileSettingsOK ==
  ASSUME NEW s, NEW T, NEW O, StoreOK(s, T, O), NEW file \in Files,
         NEW r, r = FileSettings(s, file)
  PROVE  StoreOK(r, T, O) /\ r.activeMu = s.activeMu
<1> DEFINE u == [freq |-> file.freq]
           f == IF "freq" \in DOMAIN file THEN SetConfig(s, u) ELSE s
           v == [spc |-> file.spc]
           m == IF "spc" \in DOMAIN file THEN SetConfig(f, v) ELSE f
<1>1. r = Notified(m)
  BY DEF FileSettings
<1>2. Settings(s) /\ Contents(s, T, O)
  BY DEF StoreOK
<1>3. /\ "freq" \in DOMAIN file => file.freq \in Frequencies
      /\ "spc" \in DOMAIN file => file.spc \in Nat
  BY FilesAssumption
<1>4. Settings(f) /\ Marked(s, f) /\ Contents(f, T, O) /\ f.activeMu = s.activeMu
  <2>1. CASE "freq" \notin DOMAIN file
    BY <1>2, <2>1 DEF Marked
  <2>2. CASE "freq" \in DOMAIN file
    <3>1. DOMAIN u = {"freq"} /\ u["freq"] \in Frequencies
      BY <1>3, <2>2
    <3>2. f = SetConfig(s, u)
      BY <2>2
    <3> HIDE DEF u, f
    <3>3. Update(s, u) /\ "std" \notin DOMAIN u /\ "selected" \notin DOMAIN u
      BY <3>1 DEF Update, ConfigPaths
    <3> QED
      BY <1>2, <3>2, <3>3, ConfigKeeps
  <2> QED
    BY <2>1, <2>2
<1> HIDE DEF f
<1>5. Settings(m) /\ Marked(f, m) /\ Contents(m, T, O) /\ m.activeMu = f.activeMu
  <2>1. CASE "spc" \notin DOMAIN file
    BY <1>4, <2>1 DEF Marked
  <2>2. CASE "spc" \in DOMAIN file
    <3>1. DOMAIN v = {"spc"} /\ v["spc"] \in Nat
      BY <1>3, <2>2
    <3>2. m = SetConfig(f, v)
      BY <2>2
    <3> HIDE DEF v, m
    <3>3. Update(f, v) /\ "std" \notin DOMAIN v /\ "selected" \notin DOMAIN v
      BY <3>1 DEF Update, ConfigPaths
    <3> QED
      BY <1>4, <3>2, <3>3, ConfigKeeps
  <2> QED
    BY <2>1, <2>2
<1> HIDE DEF m
<1>6. Marked(s, m)
  BY <1>4, <1>5, MarkedThen
<1>7. StoreOK(r, T, O) /\ \A k \in Kinds : r[k] = m[k]
  BY <1>1, <1>5, <1>6, Announces
<1> QED
  BY <1>4, <1>5, <1>7 DEF Kinds

LoadedIds(file) ==
  IF "equations" \in DOMAIN file THEN {e.id : e \in ToSet(file.equations)} ELSE {}

LEMMA FileOK ==
  ASSUME NEW s, NEW T, NEW O, StoreOK(s, T, O), NEW file \in Files,
         NEW r, r = FileApplied(s, file)
  PROVE  StoreOK(r, T \cup LoadedIds(file), O) /\ r.activeMu = s.activeMu
<1> DEFINE a == IF "std" \in DOMAIN file THEN SetStandard(s, file.std) ELSE s
           b == FileSettings(a, file)
           c == FileEquations(b, file)
           U == T \cup LoadedIds(file)
<1>1. StoreOK(a, T, O) /\ a.activeMu = s.activeMu
  <2>1. CASE "std" \notin DOMAIN file
    BY <2>1
  <2>2. CASE "std" \in DOMAIN file /\ file.std = s.std
    BY <2>2 DEF SetStandard
  <2>3. CASE "std" \in DOMAIN file /\ file.std # s.std
    <3>1. file.std \in Standards /\ a = SetStandard(s, file.std)
      BY <2>3, FilesAssumption
    <3> HIDE DEF a
    <3> QED
      BY <2>3, <3>1, StandardOK
  <2> QED
    BY <2>1, <2>2, <2>3
<1> HIDE DEF a
<1>2. StoreOK(b, T, O) /\ b.activeMu = a.activeMu
  BY <1>1, FileSettingsOK
<1> HIDE DEF b
<1>3. StoreOK(c, U, O) /\ c.activeMu = b.activeMu
  <2>1. CASE "equations" \notin DOMAIN file
    <3>1. c = b
      BY <2>1 DEF FileEquations
    <3>2. T \subseteq U /\ O \subseteq O
      OBVIOUS
    <3> HIDE DEF U, c
    <3> QED
      BY <1>2, <3>1, <3>2, StoreWeaker
  <2>2. CASE "equations" \in DOMAIN file
    <3>1. c = Equated(b, file.equations)
      BY <2>2 DEF FileEquations
    <3>2. file.equations \in Seq([id : Ids, hz : SUBSET Waves])
      BY <2>2, FilesAssumption
    <3>3. U = T \cup {e.id : e \in ToSet(file.equations)}
      BY <2>2 DEF LoadedIds
    <3> DEFINE eqs == file.equations
    <3> HIDE DEF U, c, eqs
    <3>4. StoreOK(c, T \cup {e.id : e \in ToSet(eqs)}, O) /\ c.activeMu = b.activeMu
      BY <1>2, <3>1, <3>2, EquatedOK DEF eqs
    <3> QED
      BY <3>3, <3>4 DEF eqs
  <2> QED
    BY <2>1, <2>2
<1>4. r = IF "selected" \in DOMAIN file THEN SetSelected(c, file.selected) ELSE c
  BY DEF FileApplied, a, b
<1> HIDE DEF c, U
<1>5. StoreOK(r, U, O) /\ r.activeMu = c.activeMu
  <2>1. CASE "selected" \notin DOMAIN file
    BY <1>3, <1>4, <2>1
  <2>2. CASE "selected" \in DOMAIN file
    <3> DEFINE list == Kept(file.selected, IdsOf(c.channels))
    <3>1. file.selected \in Seq(Ids) /\ IsInjective(file.selected)
      BY <2>2, FilesAssumption
    <3>2. list \in Seq(Ids) /\ ToSet(list) \subseteq IdsOf(c.channels)
          /\ DrawnFrom(list, file.selected)
      BY <3>1, KeptIs, KeptDrawn
    <3>3. Listed(list)
      BY <3>1, <3>2, DrawnKeeps DEF Listed
    <3>4. r = Select(c, list)
      BY <1>4, <2>2 DEF SetSelected
    <3> HIDE DEF list
    <3> QED
      BY <1>3, <3>2, <3>3, <3>4, SelectOK
  <2> QED
    BY <2>1, <2>2
<1> QED
  BY <1>1, <1>2, <1>3, <1>5 DEF U

(***************************************************************************)
(* The inductive invariant: the store between two callbacks, the list of    *)
(* publishers, whose ids are given once and whose channel lists are legal,  *)
(* and the starts under way: what they took and what they sent.             *)
(***************************************************************************)
Publishers == [id : Nat, number : Nat, list : Seq(Ids), count : Nat]

PubsOK ==
  /\ pubs \in Seq(Publishers) /\ Apart(pubs) /\ Len(pubs) <= MaxStreams
  /\ \A i \in DOMAIN pubs : IsInjective(pubs[i].list) /\ pubs[i].id \in 1..(nextId - 1)

\* Channels taken when Start is pressed: as many as the standard allows, and
\* those nobody typed at the frequency asked for.
Taken(pool, limit, asked, T) ==
  /\ IsFiniteSet(IdsOf(pool)) /\ limit \in Nat /\ Cardinality(IdsOf(pool)) <= limit
  /\ \A j \in DOMAIN pool : /\ asked \in Frequencies
                            /\ pool[j].id \in T \/ pool[j].hz \subseteq {asked}

\* A frame of channels chs, of those taken, sent with frequency f.
FrameOK(chs, f, limit, asked, T) ==
  /\ Len(chs) <= limit
  /\ Cardinality(IdsOf(chs)) = Len(chs)
  /\ \A k \in DOMAIN chs : /\ 50 \in chs[k].hz => f = 50
                           /\ \/ chs[k].id \in T
                              \/ chs[k].hz \subseteq {f}
                              \/ asked = 60 /\ f = 50

StartFields == {"next", "pool", "limit", "asked", "typed", "conf"}
StartOK(c) ==
  /\ DOMAIN c = StartFields /\ c.next \in 0..(MaxStreams + 1)
  /\ Taken(c.pool, c.limit, c.asked, c.typed)
  /\ FrameOK(c.conf.chs, c.conf.freq, c.limit, c.asked, c.typed)
StartsOK == DOMAIN starts = Starters /\ \A t \in Starters : StartOK(starts[t])

Scalars ==
  /\ nextId \in Nat \ {0} /\ chosen \in 0..nextId /\ running \in BOOLEAN
  /\ typed \subseteq Ids /\ orphans \subseteq Ids /\ events \in 0..MaxEvents

IInv == StoreOK(store, typed, orphans) /\ PubsOK /\ FrameIsChosen /\ StartsOK /\ Scalars

\* A callback that leaves the publishers alone and the store in order.
StoreKept ==
  /\ Event /\ UNCHANGED <<pubs, nextId, chosen, running, starts>>
  /\ StoreOK(store', typed', orphans') /\ store'.activeMu = store.activeMu
  /\ typed' \subseteq Ids /\ orphans' \subseteq Ids

LEMMA EventIs ==
  ASSUME events \in 0..MaxEvents, Event
  PROVE  events' \in 0..MaxEvents
<1>1. MaxEvents \in Nat
  BY SetupAssumption
<1> QED
  BY <1>1 DEF Event

LEMMA StoreKeptOK ==
  ASSUME IInv, StoreKept
  PROVE  IInv'
<1>1. UNCHANGED <<pubs, nextId, chosen, running, starts>> /\ store'.activeMu = store.activeMu
  BY DEF StoreKept
<1>2. PubsOK'
  BY <1>1 DEF IInv, PubsOK, Apart
<1>3. FrameIsChosen'
  BY <1>1 DEF IInv, FrameIsChosen, MuOf
<1>4. StartsOK'
  BY <1>1 DEF IInv, StartsOK
<1>5. Scalars'
  <2>1. events' \in 0..MaxEvents
    BY EventIs DEF IInv, Scalars, StoreKept
  <2> QED
    BY <1>1, <2>1 DEF IInv, Scalars, StoreKept
<1>6. StoreOK(store, typed, orphans)'
  BY DEF StoreKept
<1> QED
  BY <1>2, <1>3, <1>4, <1>5, <1>6 DEF IInv

LEMMA StoreKeptWhen ==
  ASSUME IInv, Event, UNCHANGED <<pubs, nextId, chosen, running, starts>>,
         StoreOK(store', typed', orphans') /\ store'.activeMu = store.activeMu,
         typed' \subseteq Ids, orphans' \subseteq Ids
  PROVE  IInv'
<1>1. StoreKept
  BY DEF StoreKept
<1> QED
  BY <1>1, StoreKeptOK

LEMMA LoadedAre ==
  ASSUME NEW file \in Files
  PROVE  LoadedIds(file) \subseteq Ids
<1> DEFINE V == [id : Ids, hz : SUBSET Waves]
           eqs == file.equations
<1>1. CASE "equations" \notin DOMAIN file
  BY <1>1 DEF LoadedIds
<1>2. CASE "equations" \in DOMAIN file
  <2>1. eqs \in Seq(V)
    BY <1>2, FilesAssumption
  <2>2. LoadedIds(file) = {e.id : e \in ToSet(eqs)}
    BY <1>2 DEF LoadedIds
  <2> HIDE DEF eqs, V
  <2>3. \A e \in ToSet(eqs) : e \in V
    BY <2>1 DEF ToSet
  <2>4. \A e \in ToSet(eqs) : e.id \in Ids
    BY <2>3 DEF V
  <2> QED
    BY <2>2, <2>4
<1> QED
  BY <1>1, <1>2

(***************************************************************************)
(* The panels.                                                              *)
(***************************************************************************)
LEMMA ChosenOK ==
  ASSUME NEW s, NEW T, NEW O, StoreOK(s, T, O)
  PROVE  /\ \A f \in Frequencies : \A r :
              r = Notified(SetConfig(s, [freq |-> f]))
              => StoreOK(r, T, O) /\ r.activeMu = s.activeMu
         /\ \A n \in Nat : \A r :
              r = Notified(SetConfig(s, [spc |-> n]))
              => StoreOK(r, T, O) /\ r.activeMu = s.activeMu
         /\ \A n \in {1, 4} : \A r :
              r = Notified(SetConfig(s, [asdu |-> n]))
              => StoreOK(r, T, O) /\ r.activeMu = s.activeMu
<1>1. ASSUME NEW f \in Frequencies, NEW r, r = Notified(SetConfig(s, [freq |-> f]))
      PROVE  StoreOK(r, T, O) /\ r.activeMu = s.activeMu
  <2> DEFINE u == [freq |-> f]
  <2>1. DOMAIN u = {"freq"} /\ u["freq"] \in Frequencies
    OBVIOUS
  <2>2. r = Notified(SetConfig(s, u))
    BY <1>1
  <2> HIDE DEF u
  <2>3. Update(s, u) /\ "std" \notin DOMAIN u /\ "selected" \notin DOMAIN u
    BY <2>1 DEF Update, ConfigPaths
  <2> QED
    BY <2>2, <2>3, ConfigOK
<1>2. ASSUME NEW n \in Nat, NEW r, r = Notified(SetConfig(s, [spc |-> n]))
      PROVE  StoreOK(r, T, O) /\ r.activeMu = s.activeMu
  <2> DEFINE u == [spc |-> n]
  <2>1. DOMAIN u = {"spc"} /\ u["spc"] \in Nat
    OBVIOUS
  <2>2. r = Notified(SetConfig(s, u))
    BY <1>2
  <2> HIDE DEF u
  <2>3. Update(s, u) /\ "std" \notin DOMAIN u /\ "selected" \notin DOMAIN u
    BY <2>1 DEF Update, ConfigPaths
  <2> QED
    BY <2>2, <2>3, ConfigOK
<1>3. ASSUME NEW n \in {1, 4}, NEW r, r = Notified(SetConfig(s, [asdu |-> n]))
      PROVE  StoreOK(r, T, O) /\ r.activeMu = s.activeMu
  <2> DEFINE u == [asdu |-> n]
  <2>1. DOMAIN u = {"asdu"} /\ u["asdu"] \in {1, 4}
    OBVIOUS
  <2>2. r = Notified(SetConfig(s, u))
    BY <1>3
  <2> HIDE DEF u
  <2>3. Update(s, u) /\ "std" \notin DOMAIN u /\ "selected" \notin DOMAIN u
    BY <2>1 DEF Update, ConfigPaths
  <2> QED
    BY <2>2, <2>3, ConfigOK
<1> QED
  BY <1>1, <1>2, <1>3

LEMMA StoreStepOK ==
  ASSUME IInv, StoreStep
  PROVE  IInv'
<1>1. StoreOK(store, typed, orphans) /\ typed \subseteq Ids /\ orphans \subseteq Ids
  BY DEF IInv, Scalars
<1>2. ASSUME NEW std \in Standards, ChooseStandard(std) PROVE IInv'
  <2>1. /\ Event /\ UNCHANGED <<pubs, nextId, chosen, running, starts>>
        /\ std # store.std /\ store' = SetStandard(store, std)
        /\ typed' = typed /\ orphans' = orphans
    BY <1>2 DEF ChooseStandard, StoreBecomes
  <2>2. StoreOK(store', typed, orphans) /\ store'.activeMu = store.activeMu
    BY <1>1, <2>1, StandardOK
  <2> QED
    BY <1>1, <2>1, <2>2, StoreKeptWhen
<1>3. ASSUME NEW f \in Frequencies, ChooseFrequency(f) PROVE IInv'
  <2> DEFINE m == Notified(SetConfig(store, [freq |-> f]))
  <2>1. /\ Event /\ UNCHANGED <<pubs, nextId, chosen, running, starts>>
        /\ store' = ThenRate(m) /\ typed' = typed /\ orphans' = orphans
    BY <1>3 DEF ChooseFrequency, StoreBecomes
  <2>2. StoreOK(m, typed, orphans) /\ m.activeMu = store.activeMu
    BY <1>1, ChosenOK
  <2> HIDE DEF m
  <2>3. StoreOK(store', typed, orphans) /\ store'.activeMu = store.activeMu
    BY <2>1, <2>2, ThenRateOK
  <2> QED
    BY <1>1, <2>1, <2>3, StoreKeptWhen
<1>4. ASSUME NEW n \in Rates, ChooseSpc(n) PROVE IInv'
  <2> DEFINE m == Notified(SetConfig(store, [spc |-> n]))
  <2>1. /\ Event /\ UNCHANGED <<pubs, nextId, chosen, running, starts>>
        /\ store' = ThenRate(m) /\ typed' = typed /\ orphans' = orphans
    BY <1>4 DEF ChooseSpc, StoreBecomes
  <2>2. n \in Nat
    BY SetupAssumption
  <2>3. StoreOK(m, typed, orphans) /\ m.activeMu = store.activeMu
    BY <1>1, <2>2, ChosenOK
  <2> HIDE DEF m
  <2>4. StoreOK(store', typed, orphans) /\ store'.activeMu = store.activeMu
    BY <2>1, <2>3, ThenRateOK
  <2> QED
    BY <1>1, <2>1, <2>4, StoreKeptWhen
<1>5. ASSUME NEW n \in {1, 4}, ChooseAsdu(n) PROVE IInv'
  <2>1. /\ Event /\ UNCHANGED <<pubs, nextId, chosen, running, starts>>
        /\ store' = Notified(SetConfig(store, [asdu |-> n]))
        /\ typed' = typed /\ orphans' = orphans
    BY <1>5 DEF ChooseAsdu, StoreBecomes
  <2>2. StoreOK(store', typed, orphans) /\ store'.activeMu = store.activeMu
    BY ZenonT(30), <1>1, <2>1, ChosenOK
  <2> QED
    BY <1>1, <2>1, <2>2, StoreKeptWhen
<1>6. ASSUME NEW id \in Ids, NEW hz \in Typed, ApplyEquation(id, hz) PROVE IInv'
  <2>1. /\ Event /\ UNCHANGED <<pubs, nextId, chosen, running, starts>>
        /\ store' = UpdateEquation(store, id, hz)
        /\ typed' = typed \cup {id} /\ orphans' = orphans
    BY <1>6 DEF ApplyEquation, StoreBecomes
  <2>2. hz \in SUBSET Waves
    BY SetupAssumption
  <2>3. StoreOK(store', typed \cup {id}, orphans) /\ store'.activeMu = store.activeMu
    BY <1>1, <2>1, <2>2, EquationOK
  <2> QED
    BY <1>1, <2>1, <2>3, StoreKeptWhen
<1>7. ASSUME NEW id \in Ids, NEW hz \in Typed, CreateChannel(id, hz) PROVE IInv'
  <2>1. /\ Event /\ UNCHANGED <<pubs, nextId, chosen, running, starts>>
        /\ CanAdd(store, id) /\ store' = AddChannel(store, id, hz)
        /\ typed' = typed \cup {id} /\ orphans' = orphans \ {id}
    BY <1>7 DEF CreateChannel, StoreBecomes
  <2>2. hz \in SUBSET Waves
    BY SetupAssumption
  <2>3. StoreOK(store', typed \cup {id}, orphans \ {id}) /\ store'.activeMu = store.activeMu
    BY <1>1, <2>1, <2>2, AddOK
  <2> QED
    BY <1>1, <2>1, <2>3, StoreKeptWhen
<1>8. ASSUME ApplyTemplate PROVE IInv'
  <2>1. /\ Event /\ UNCHANGED <<pubs, nextId, chosen, running, starts>>
        /\ store' = SetChannels(store, Templated(store))
        /\ typed' = typed \ ToSet(PoolOrder) /\ orphans' = orphans
    BY <1>8 DEF ApplyTemplate, StoreBecomes
  <2>2. StoreOK(store', typed \ ToSet(PoolOrder), orphans) /\ store'.activeMu = store.activeMu
    BY <1>1, <2>1, TemplateOK
  <2> QED
    BY <1>1, <2>1, <2>2, StoreKeptWhen
<1>9. ASSUME NEW file \in Files, LoadConfig(file) PROVE IInv'
  <2>1. /\ Event /\ UNCHANGED <<pubs, nextId, chosen, running, starts>>
        /\ store' = FileApplied(store, file)
        /\ typed' = typed \cup LoadedIds(file) /\ orphans' = orphans
    BY <1>9 DEF LoadConfig, StoreBecomes, LoadedIds
  <2>2. StoreOK(store', typed \cup LoadedIds(file), orphans)
        /\ store'.activeMu = store.activeMu
    BY <1>1, <2>1, FileOK
  <2>3. typed' \subseteq Ids
    BY <1>1, <2>1, LoadedAre
  <2> QED
    BY <1>1, <2>1, <2>2, <2>3, StoreKeptWhen
<1> QED
  BY <1>2, <1>3, <1>4, <1>5, <1>6, <1>7, <1>8, <1>9 DEF StoreStep

(***************************************************************************)
(* The methods only the console reaches.                                    *)
(***************************************************************************)
LEMMA ConsoleEditOK ==
  ASSUME IInv, ConsoleEdit
  PROVE  IInv'
<1> DEFINE list == store.selected
<1>1. /\ StoreOK(store, typed, orphans) /\ typed \subseteq Ids /\ orphans \subseteq Ids
      /\ Listed(list) /\ ToSet(list) \subseteq IdsOf(store.channels) \cup orphans
      /\ list \in Seq(Ids)
  BY DEF IInv, Scalars, StoreOK, Contents, Listed
<1>2. typed' = typed /\ orphans' = orphans
  BY DEF ConsoleEdit
<1> SUFFICES ASSUME NEW r, StoreBecomes(r),
                    \/ StoreOK(r, typed, orphans) /\ r.activeMu = store.activeMu
                    \/ \E q : /\ r = Select(store, q) /\ Listed(q)
                              /\ ToSet(q) \subseteq IdsOf(store.channels) \cup orphans
             PROVE  IInv'
  <2>1. ASSUME NEW n \in {1, 4}, StoreBecomes(SetNoASDU(store, n)) PROVE IInv'
    <3> DEFINE r == SetNoASDU(store, n)
    <3>1. r = store \/ r = Notified(SetConfig(store, [asdu |-> n]))
      BY DEF SetNoASDU
    <3> HIDE DEF r
    <3>2. StoreOK(r, typed, orphans) /\ r.activeMu = store.activeMu
      BY ZenonT(30), <1>1, <3>1, ChosenOK
    <3>3. StoreBecomes(r)
      BY <2>1 DEF r
    <3> QED
      BY <3>2, <3>3
  <2>2. ASSUME NEW id \in Ids, id \in ToSet(list), StoreBecomes(RemoveSelected(store, id))
        PROVE  IInv'
    <3> DEFINE q == Dropped(list, {id})
               r == RemoveSelected(store, id)
    <3>1. r = Select(store, q)
      BY <2>2 DEF RemoveSelected
    <3>2. q \in Seq(Ids) /\ DrawnFrom(q, list)
      BY <1>1, DroppedIs
    <3> HIDE DEF q, list
    <3>3. Listed(q) /\ ToSet(q) \subseteq ToSet(list)
      BY <1>1, <3>2, DrawnListed
    <3>4. StoreBecomes(r)
      BY <2>2
    <3> HIDE DEF r
    <3> QED
      BY <1>1, <3>1, <3>3, <3>4
  <2>3. ASSUME NEW i \in DOMAIN list, NEW j \in DOMAIN list,
               StoreBecomes(ReorderSelected(store, i, j))
        PROVE  IInv'
    <3> DEFINE q == Moved(list, i, j)
               r == ReorderSelected(store, i, j)
    <3>1. r = Select(store, q)
      BY DEF ReorderSelected
    <3>2. q \in Seq(Ids) /\ DrawnFrom(q, list)
      BY <1>1, MovedIs
    <3> HIDE DEF q, list
    <3>3. Listed(q) /\ ToSet(q) \subseteq ToSet(list)
      BY <1>1, <3>2, DrawnListed
    <3>4. StoreBecomes(r)
      BY <2>3
    <3> HIDE DEF r
    <3> QED
      BY <1>1, <3>1, <3>3, <3>4
  <2>4. ASSUME NEW i \in DOMAIN list, NEW id \in Ids,
               StoreBecomes(ChangeSelectedAt(store, i, id))
        PROVE  IInv'
    <3> DEFINE q == ChangedAt(list, i, id)
               r == ChangeSelectedAt(store, i, id)
    <3>1. r = store \/ (r = Select(store, q) /\ id \in IdsOf(store.channels))
      BY DEF ChangeSelectedAt
    <3>2. Listed(q) /\ ToSet(q) \subseteq ToSet(list) \cup {id}
      BY <1>1, ChangedListed
    <3>3. StoreBecomes(r)
      BY <2>4
    <3> HIDE DEF q, list, r
    <3>4. CASE r = store
      BY <1>1, <3>3, <3>4
    <3>5. CASE r = Select(store, q) /\ id \in IdsOf(store.channels)
      <4>1. ToSet(q) \subseteq IdsOf(store.channels) \cup orphans
        BY <1>1, <3>2, <3>5
      <4> QED
        BY <3>2, <3>3, <3>5, <4>1
    <3> QED
      BY <3>1, <3>4, <3>5
  <2>5. ASSUME StoreBecomes(AddPresets(store)) PROVE IInv'
    <3> DEFINE r == AddPresets(store)
    <3>1. StoreOK(r, typed, orphans) /\ r.activeMu = store.activeMu
      BY <1>1, PresetsOK
    <3>2. StoreBecomes(r)
      BY <2>5
    <3> HIDE DEF r
    <3> QED
      BY <3>1, <3>2
  <2> QED
    BY <2>1, <2>2, <2>3, <2>4, <2>5 DEF ConsoleEdit
<1>3. /\ Event /\ UNCHANGED <<pubs, nextId, chosen, running, starts>> /\ store' = r
  BY DEF StoreBecomes
<1>4. StoreOK(r, typed, orphans) /\ r.activeMu = store.activeMu
  BY <1>1, SelectOK
<1> QED
  BY <1>1, <1>2, <1>3, <1>4, StoreKeptWhen

LEMMA ConsoleStepOK ==
  ASSUME IInv, ConsoleStep
  PROVE  IInv'
<1>1. /\ StoreOK(store, typed, orphans) /\ typed \subseteq Ids /\ orphans \subseteq Ids
  BY DEF IInv, Scalars
<1>2. ASSUME NEW id \in Custom, ConsoleRemove(id) PROVE IInv'
  <2>1. /\ Event /\ UNCHANGED <<pubs, nextId, chosen, running, starts>>
        /\ store' = RemoveChannel(store, id) /\ typed' = typed /\ orphans' = orphans
    BY <1>2 DEF ConsoleRemove, StoreBecomes
  <2>2. StoreOK(store', typed, orphans) /\ store'.activeMu = store.activeMu
    BY <1>1, <2>1, RemoveOK
  <2> QED
    BY <1>1, <2>1, <2>2, StoreKeptWhen
<1>3. ASSUME ConsoleClear PROVE IInv'
  <2> DEFINE list == store.selected
             O2 == orphans \cup (ToSet(list) \ ToSet(PoolOrder))
  <2>1. /\ Event /\ UNCHANGED <<pubs, nextId, chosen, running, starts>> /\ orphans' = O2
        /\ \/ store' = ClearCustom(store) /\ typed' = typed
           \/ store' = ResetChannels(store) /\ typed' = {}
    BY <1>3 DEF ConsoleClear, StoreBecomes
  <2>2. ToSet(list) \subseteq Ids
    BY <1>1 DEF StoreOK, Contents, Listed, ToSet
  <2>3. O2 \subseteq Ids /\ ToSet(list) \subseteq ToSet(PoolOrder) \cup O2
    BY <1>1, <2>2
  <2> HIDE DEF O2
  <2>4. CASE store' = ClearCustom(store) /\ typed' = typed
    <3>1. StoreOK(store', typed, O2) /\ store'.activeMu = store.activeMu
      BY <1>1, <2>3, <2>4, ClearOK
    <3> QED
      BY <1>1, <2>1, <2>3, <2>4, <3>1, StoreKeptWhen
  <2>5. CASE store' = ResetChannels(store) /\ typed' = {}
    <3>1. StoreOK(store', {}, O2) /\ store'.activeMu = store.activeMu
      BY <1>1, <2>3, <2>5, ResetOK
    <3> QED
      BY <1>1, <2>1, <2>3, <2>5, <3>1, StoreKeptWhen
  <2> QED
    BY <2>1, <2>4, <2>5
<1>4. ASSUME ConsoleReset PROVE IInv'
  <2>1. /\ Event /\ UNCHANGED <<pubs, nextId, chosen, running, starts>>
        /\ store' = ResetConfig(store) /\ typed' = {} /\ orphans' = {}
    BY <1>4 DEF ConsoleReset, StoreBecomes
  <2>2. StoreOK(store', {}, {}) /\ store'.activeMu = store.activeMu
    BY <1>1, <2>1, ResetConfigOK
  <2> QED
    BY <1>1, <2>1, <2>2, StoreKeptWhen
<1> QED
  BY <1>2, <1>3, <1>4, ConsoleEditOK DEF ConsoleStep

(***************************************************************************)
(* The streams.                                                             *)
(***************************************************************************)
LEMMA UiOK ==
  ASSUME NEW s, NEW T, NEW O, StoreOK(s, T, O), NEW mu, NEW r, r = Notified(SetUi(s, mu))
  PROVE  StoreOK(r, T, O) /\ r.activeMu = mu
<1> DEFINE m == SetUi(s, mu)
<1>1. Settings(s) /\ DOMAIN s = Fields /\ s.dirty = {} /\ Contents(s, T, O)
  BY DEF StoreOK, Settings
<1>2. /\ DOMAIN m = Fields /\ m.activeMu = mu /\ m.dirty = s.dirty \cup {"activeMu"}
      /\ \A k \in Fields : k # "activeMu" /\ k # "dirty" => m[k] = s[k]
  BY <1>1 DEF SetUi, Fields, Paths, ConfigPaths
<1> HIDE DEF m
<1>3. But(s, m, {"activeMu", "dirty"}) /\ s.dirty \subseteq m.dirty
      /\ \A k \in {"activeMu", "dirty"} : k = "dirty" \/ (k \in m.dirty /\ k # "views")
  BY <1>2 DEF But
<1>4. Marked(s, m)
  BY <1>3, ButMarked
<1>5. /\ m.std = s.std /\ m.freq = s.freq /\ m.spc = s.spc /\ m.asdu = s.asdu
      /\ m.rate = s.rate /\ m.selected = s.selected /\ m.channels = s.channels
  BY <1>2 DEF Fields, Paths, ConfigPaths
<1>6. Settings(m)
  BY <1>1, <1>2, <1>5 DEF Settings
<1>7. Contents(m, T, O)
  BY <1>1, <1>5 DEF Contents
<1>8. r = Notified(m)
  BY DEF m
<1>9. StoreOK(r, T, O) /\ \A k \in Kinds : r[k] = m[k]
  BY <1>4, <1>6, <1>7, <1>8, Announces
<1> QED
  BY <1>2, <1>9 DEF Kinds

\* The channels the server is sent are those of the selection that exist.
LEMMA ServerIdsAre ==
  ASSUME NEW s, NEW T, NEW O, StoreOK(s, T, O)
  PROVE  /\ Listed(ServerIds(s)) /\ ToSet(ServerIds(s)) \subseteq IdsOf(s.channels)
         /\ IdsOf(ForServer(s)) = ToSet(ServerIds(s))
<1> DEFINE ids == Kept(s.selected, IdsOf(s.channels))
           list == ServerIds(s)
           pool == ForServer(s)
<1>1. Listed(s.selected) /\ s.selected \in Seq(Ids)
  BY DEF StoreOK, Contents, Listed
<1>2. /\ ids \in Seq(Ids) /\ DrawnFrom(ids, s.selected)
      /\ ToSet(ids) \subseteq IdsOf(s.channels)
  BY <1>1, KeptIs, KeptDrawn
<1>3. Listed(ids)
  BY <1>1, <1>2, DrawnListed
<1>4. DOMAIN pool = DOMAIN ids /\ \A i \in DOMAIN ids : pool[i].id = ids[i]
  BY DEF ForServer
<1>5. list = [i \in DOMAIN pool |-> pool[i].id]
  BY DEF ServerIds
<1> HIDE DEF ids, pool, list
<1>6. ids = [i \in DOMAIN ids |-> ids[i]]
  BY <1>2
<1>7. list = ids
  BY <1>4, <1>5, <1>6
<1>8. IdsOf(pool) = ToSet(ids)
  BY <1>4 DEF IdsOf, ToSet
<1> QED
  BY <1>2, <1>3, <1>7, <1>8 DEF list, pool

LEMMA SeedIs ==
  ASSUME NEW s, NEW T, NEW O, StoreOK(s, T, O)
  PROVE  Listed(Seed(s))
<1>1. Listed(s.selected)
  BY DEF StoreOK, Contents
<1> QED
  BY <1>1, ServerIdsAre DEF Seed

LEMMA ResizedIs ==
  ASSUME NEW s, NEW T, NEW O, StoreOK(s, T, O), NEW list, Listed(list), NEW n \in Nat
  PROVE  Listed(Resized(s, list, n))
<1>1. list \in Seq(Ids) /\ IsInjective(list) /\ Len(list) \in Nat
  BY DEF Listed
<1>2. CASE n <= Len(list)
  <2> DEFINE r == SubSeq(list, 1, n)
  <2>1. r \in Seq(Ids) /\ DrawnFrom(r, list)
    BY <1>1, <1>2, PrefixIs
  <2>2. Resized(s, list, n) = r
    BY <1>2 DEF Resized
  <2> HIDE DEF r
  <2> QED
    BY <2>1, <2>2, DrawnListed
<1>3. CASE ~(n <= Len(list))
  <2> DEFINE all == ServerIds(s)
             d == Dropped(all, ToSet(list))
             k == n - Len(list)
             c == Cut(d, k)
             r == list \o c
  <2>1. Listed(all) /\ all \in Seq(Ids) /\ IsInjective(all)
    BY ServerIdsAre DEF Listed
  <2>2. k \in Nat
    BY <1>1, <1>3
  <2>3. Resized(s, list, n) = r
    BY <1>3 DEF Resized
  <2> HIDE DEF all, k
  <2>4. /\ d \in Seq(Ids) /\ DrawnFrom(d, all)
        /\ ToSet(d) = ToSet(all) \ ToSet(list)
    BY <2>1, DroppedIs
  <2> HIDE DEF d
  <2>5. c \in Seq(Ids) /\ DrawnFrom(c, d)
    BY <2>2, <2>4, CutIs
  <2> HIDE DEF c
  <2>6. IsInjective(d)
    BY <2>1, <2>4, DrawnKeeps
  <2>7. IsInjective(c) /\ ToSet(c) \subseteq ToSet(d)
    BY <2>5, <2>6, DrawnKeeps
  <2>8. ToSet(list) \cap ToSet(c) = {}
    BY <2>4, <2>7
  <2>9. IsInjective(r)
    BY <1>1, <2>5, <2>7, <2>8, ConcatKeeps
  <2>10. r \in Seq(Ids)
    BY <1>1, <2>5, ConcatIs
  <2> QED
    BY <2>3, <2>9, <2>10 DEF Listed
<1> QED
  BY <1>2, <1>3

\* What startAll() takes of the store: of the channels of the pool, at the
\* frequency of the store those nobody typed.
LEMMA ForServerTaken ==
  ASSUME NEW s, NEW T, NEW O, StoreOK(s, T, O), NEW pool, pool = ForServer(s)
  PROVE  Taken(pool, MaxChannels[s.std], s.freq, T)
<1> DEFINE ids == Kept(s.selected, IdsOf(s.channels))
           A == IdsOf(s.channels)
<1>1. /\ s.freq \in Frequencies /\ s.std \in Standards /\ Pool(s.channels, s.std)
      /\ Tuned(s.channels, s.freq, T) /\ s.selected \in Seq(Ids)
  BY DEF StoreOK, Settings, Contents, Listed
<1>2. ids \in Seq(Ids) /\ ToSet(ids) \subseteq A
  BY <1>1, KeptIs
<1>3. /\ DOMAIN pool = DOMAIN ids
      /\ \A j \in DOMAIN ids :
           pool[j] = [id |-> ids[j],
                      hz |-> AtFrequency(Find(s.channels, ids[j]).hz, 50, s.freq)]
  BY DEF ForServer
<1>4. IdsOf(pool) \subseteq A
  BY ServerIdsAre
<1>5. /\ IsFiniteSet(A) /\ Cardinality(A) = Len(s.channels)
      /\ Len(s.channels) <= MaxChannels[s.std] /\ Len(s.channels) \in Nat
      /\ MaxChannels[s.std] \in Nat
  <2>1. s.channels \in Seq(Channels) /\ Len(s.channels) <= MaxChannels[s.std]
    BY <1>1 DEF Pool, AnyPool
  <2>2. IsFiniteSet(A) /\ Cardinality(A) = Len(s.channels)
    BY <1>1, IdsCard DEF Pool, AnyPool
  <2> QED
    BY <1>1, <2>1, <2>2, RoomIs
<1> HIDE DEF ids, A
<1>6. /\ IsFiniteSet(IdsOf(pool))
      /\ Cardinality(IdsOf(pool)) <= MaxChannels[s.std]
  <2>1. IsFiniteSet(IdsOf(pool)) /\ Cardinality(IdsOf(pool)) <= Cardinality(A)
    BY <1>4, <1>5, FS_Subset
  <2>2. Cardinality(IdsOf(pool)) \in Nat
    BY <2>1, FS_CardinalityType
  <2> QED
    BY <1>5, <2>1, <2>2
<1>7. ASSUME NEW j \in DOMAIN pool
      PROVE  pool[j].id \in T \/ pool[j].hz \subseteq {s.freq}
  <2> DEFINE i == CHOOSE i \in DOMAIN s.channels : s.channels[i].id = ids[j]
             old == Find(s.channels, ids[j]).hz
             new == AtFrequency(old, 50, s.freq)
             id == ids[j]
             c == pool[j]
  <2>1. ids[j] \in A
    BY <1>2, <1>3 DEF ToSet
  <2>2. \E k \in DOMAIN s.channels : s.channels[k].id = ids[j]
    BY <2>1 DEF A, IdsOf
  <2>3. i \in DOMAIN s.channels /\ s.channels[i].id = ids[j]
    BY <2>2
  <2>4. old = s.channels[i].hz
    BY DEF Find
  <2> HIDE DEF i
  <2>5. ids[j] \in T \/ old \subseteq {s.freq}
    BY <1>1, <2>3, <2>4 DEF Tuned
  <2> HIDE DEF old
  <2>6. ids[j] \in T \/ new \subseteq {s.freq}
    BY <2>5 DEF AtFrequency
  <2>7. c = [id |-> id, hz |-> new]
    BY <1>3 DEF old
  <2> HIDE DEF new, id, c
  <2>8. c.id = id /\ c.hz = new
    BY <2>7
  <2> QED
    BY <2>6, <2>8 DEF id, c
<1> QED
  BY <1>1, <1>5, <1>6, <1>7 DEF Taken

LEMMA AtFrequencyFits ==
  ASSUME NEW hz, NEW f \in Frequencies, NEW asked
  PROVE  /\ 50 \in AtFrequency(hz, 50, f) => f = 50
         /\ (asked \in Frequencies /\ hz \subseteq {asked})
            => AtFrequency(hz, 50, f) \subseteq {f} \/ (asked = 60 /\ f = 50)
<1>1. ASSUME 50 \in AtFrequency(hz, 50, f) PROVE f = 50
  <2>1. PICK g \in hz : 50 = IF g = 50 THEN f ELSE g
    BY <1>1 DEF AtFrequency
  <2> QED
    BY <2>1
<1>2. ASSUME asked \in Frequencies, hz \subseteq {asked}, ~(asked = 60 /\ f = 50)
      PROVE  AtFrequency(hz, 50, f) \subseteq {f}
  <2>1. asked = 50 \/ asked = f
    BY <1>2 DEF Frequencies
  <2> QED
    BY <1>2, <2>1 DEF AtFrequency
<1> QED
  BY <1>1, <1>2

\* What Start configures for one stream, of the channels it took.
LEMMA PubChannelsOK ==
  ASSUME NEW pool, NEW limit, NEW asked, NEW T, Taken(pool, limit, asked, T),
         NEW p, Listed(p.list), NEW f \in Frequencies,
         NEW chs, chs = PubChannels(p, pool, f)
  PROVE  FrameOK(chs, f, limit, asked, T)
<1> DEFINE ids == Kept(p.list, IdsOf(pool))
           n == Len(ids)
<1>1. p.list \in Seq(Ids)
  BY DEF Listed
<1>2. ids \in Seq(Ids) /\ DrawnFrom(ids, p.list) /\ ToSet(ids) \subseteq IdsOf(pool)
  BY <1>1, KeptIs, KeptDrawn
<1>3. /\ DOMAIN chs = DOMAIN ids /\ chs = [k \in DOMAIN ids |-> chs[k]]
      /\ \A k \in DOMAIN ids :
           chs[k] = [id |-> ids[k], hz |-> AtFrequency(Find(pool, ids[k]).hz, 50, f)]
  BY DEF PubChannels
<1> HIDE DEF ids
<1>4. Listed(ids) /\ IsInjective(ids) /\ n \in Nat /\ DOMAIN ids = 1..n
  BY <1>2, DrawnListed DEF Listed
<1> HIDE DEF n
<1>5. ASSUME NEW k \in DOMAIN ids
      PROVE  /\ chs[k].id = ids[k]
             /\ 50 \in chs[k].hz => f = 50
             /\ \/ chs[k].id \in T
                \/ chs[k].hz \subseteq {f}
                \/ asked = 60 /\ f = 50
  <2> DEFINE i == CHOOSE i \in DOMAIN pool : pool[i].id = ids[k]
             old == Find(pool, ids[k]).hz
             hz == AtFrequency(old, 50, f)
             c == chs[k]
             id == ids[k]
  <2>1. ids[k] \in IdsOf(pool)
    BY <1>2 DEF ToSet
  <2>2. \E j \in DOMAIN pool : pool[j].id = ids[k]
    BY <2>1 DEF IdsOf
  <2>3. i \in DOMAIN pool /\ pool[i].id = ids[k]
    BY <2>2
  <2>4. old = pool[i].hz
    BY DEF Find
  <2> HIDE DEF i
  <2>5. asked \in Frequencies /\ (ids[k] \in T \/ old \subseteq {asked})
    BY <2>3, <2>4 DEF Taken
  <2>6. c = [id |-> id, hz |-> hz]
    BY <1>3
  <2> HIDE DEF old
  <2>7. /\ 50 \in hz => f = 50
        /\ old \subseteq {asked} => hz \subseteq {f} \/ (asked = 60 /\ f = 50)
    BY <2>5, AtFrequencyFits
  <2> HIDE DEF hz, c, id
  <2>8. c.id = id /\ c.hz = hz
    BY <2>6
  <2>9. id \in T \/ hz \subseteq {f} \/ (asked = 60 /\ f = 50)
    BY <2>5, <2>7 DEF id
  <2>10. /\ c.id = id /\ (50 \in c.hz => f = 50)
         /\ c.id \in T \/ c.hz \subseteq {f} \/ (asked = 60 /\ f = 50)
    BY <2>7, <2>8, <2>9
  <2> QED
    BY <2>10 DEF c, id
<1> DEFINE V == {chs[k] : k \in 1..n}
<1>6. chs \in Seq(V) /\ Len(chs) = n
  <2>1. chs = [k \in 1..n |-> chs[k]] /\ \A k \in 1..n : chs[k] \in V
    BY <1>3, <1>4
  <2> HIDE DEF V
  <2> QED
    BY <1>4, <2>1
<1> HIDE DEF V
<1>7. Apart(chs)
  BY <1>3, <1>4, <1>5 DEF Apart, IsInjective
<1>8. IdsOf(chs) = ToSet(ids)
  BY <1>3, <1>5 DEF IdsOf, ToSet
<1>9. Cardinality(IdsOf(chs)) = Len(chs)
  BY <1>6, <1>7, IdsCard
<1>10. Len(chs) <= limit
  <2>1. /\ IsFiniteSet(IdsOf(pool)) /\ limit \in Nat
        /\ Cardinality(IdsOf(pool)) <= limit
    BY DEF Taken
  <2>2. /\ Cardinality(IdsOf(chs)) <= Cardinality(IdsOf(pool))
        /\ Cardinality(IdsOf(pool)) \in Nat
    BY <1>2, <1>8, <2>1, FS_Subset, FS_CardinalityType
  <2> QED
    BY <1>4, <1>6, <1>9, <2>1, <2>2
<1>11. \A k \in DOMAIN chs : /\ 50 \in chs[k].hz => f = 50
                             /\ \/ chs[k].id \in T
                                \/ chs[k].hz \subseteq {f}
                                \/ asked = 60 /\ f = 50
  BY <1>3, <1>5
<1> QED
  BY <1>9, <1>10, <1>11 DEF FrameOK

LEMMA NoFrameOK ==
  ASSUME NEW e, e = <<>>, NEW f, NEW limit \in Nat, NEW asked, NEW T
  PROVE  Taken(e, limit, asked, T) /\ FrameOK(e, f, limit, asked, T)
<1>1. DOMAIN e = {} /\ Len(e) = 0
  OBVIOUS
<1>2. IdsOf(e) = {}
  BY <1>1 DEF IdsOf
<1>3. IsFiniteSet(IdsOf(e)) /\ Cardinality(IdsOf(e)) = 0
  BY <1>2, FS_EmptySet
<1>4. \A k \in DOMAIN e : FALSE
  BY <1>1
<1> QED
  BY ONLY <1>1, <1>3, <1>4, limit \in Nat DEF Taken, FrameOK

LEMMA IdleOK == StartOK(Idle)
<1>1. /\ DOMAIN Idle = StartFields /\ Idle.next = 0 /\ Idle.pool = <<>> /\ Idle.limit = 0
      /\ Idle.conf.chs = <<>>
  BY DEF Idle, NoConf, StartFields
<1>2. MaxStreams \in Nat
  BY SetupAssumption
<1>3. Idle.limit \in Nat /\ Idle.next \in 0..(MaxStreams + 1)
  BY <1>1, <1>2
<1> DEFINE c == Idle
<1> HIDE DEF c
<1>4. /\ Taken(c.pool, c.limit, c.asked, c.typed)
      /\ FrameOK(c.conf.chs, c.conf.freq, c.limit, c.asked, c.typed)
  BY <1>1, <1>3, NoFrameOK DEF c
<1>5. DOMAIN c = StartFields /\ c.next \in 0..(MaxStreams + 1)
  BY <1>1, <1>3 DEF c
<1> QED
  BY <1>4, <1>5 DEF StartOK, c

LEMMA PubsAre ==
  ASSUME IInv
  PROVE  /\ pubs \in Seq(Publishers) /\ DOMAIN pubs = 1..Len(pubs) /\ Len(pubs) \in Nat
         /\ \A i \in DOMAIN pubs : /\ pubs[i] \in Publishers /\ Listed(pubs[i].list)
                                   /\ pubs[i].id \in 1..(nextId - 1)
<1>1. /\ pubs \in Seq(Publishers)
      /\ \A i \in DOMAIN pubs : IsInjective(pubs[i].list) /\ pubs[i].id \in 1..(nextId - 1)
  BY DEF IInv, PubsOK
<1>2. DOMAIN pubs = 1..Len(pubs) /\ Len(pubs) \in Nat
  BY <1>1
<1>3. \A i \in DOMAIN pubs : pubs[i] \in Publishers
  <2> DEFINE V == Publishers
  <2> HIDE DEF V
  <2>1. pubs \in Seq(V)
    BY <1>1 DEF V
  <2> QED
    BY <2>1 DEF V
<1>4. \A i \in DOMAIN pubs : pubs[i].list \in Seq(Ids)
  BY <1>3 DEF Publishers
<1> QED
  BY <1>1, <1>2, <1>3, <1>4 DEF Listed

LEMMA ListOf ==
  ASSUME NEW V, NEW n \in Nat, NEW r, r = [k \in 1..n |-> r[k]],
         \A k \in 1..n : r[k] \in V
  PROVE  r \in Seq(V) /\ Len(r) = n
OBVIOUS

\* One publisher's list replaced.
WithList(q, i, list) == [q EXCEPT ![i].list = list, ![i].count = Len(list)]

LEMMA ListReplaced ==
  ASSUME NEW q \in Seq(Publishers), NEW i \in DOMAIN q, NEW list \in Seq(Ids),
         NEW r, r = WithList(q, i, list)
  PROVE  /\ r \in Seq(Publishers) /\ DOMAIN r = DOMAIN q /\ Len(r) = Len(q)
         /\ \A k \in DOMAIN q : r[k].id = q[k].id /\ (k # i => r[k] = q[k])
         /\ r[i].list = list
<1> DEFINE n == Len(q)
           V == Publishers
<1>1. n \in Nat /\ DOMAIN q = 1..n
  OBVIOUS
<1>2. q[i] \in V
  <2> HIDE DEF V
  <2>1. q \in Seq(V)
    BY DEF V
  <2> QED
    BY <2>1
<1>3. DOMAIN r = DOMAIN q /\ r = [k \in DOMAIN q |-> r[k]]
  BY DEF WithList
<1>4. \A k \in DOMAIN q : k # i => r[k] = q[k]
  BY DEF WithList
<1>5. r[i] = [id |-> q[i].id, number |-> q[i].number, list |-> list, count |-> Len(list)]
  BY <1>2 DEF Publishers, WithList
<1>6. r[i] \in V /\ r[i].id = q[i].id /\ r[i].list = list
  <2>1. Len(list) \in Nat /\ q[i].id \in Nat /\ q[i].number \in Nat
    BY <1>2 DEF Publishers
  <2> QED
    BY <1>5, <2>1 DEF Publishers
<1> HIDE DEF V
<1>7. \A k \in DOMAIN q : r[k] \in V
  <2>1. q \in Seq(V)
    BY DEF V
  <2> QED
    BY <1>4, <1>6, <2>1
<1>8. r \in Seq(V) /\ Len(r) = n
  BY <1>1, <1>3, <1>7, ListOf
<1> QED
  BY <1>3, <1>4, <1>6, <1>8 DEF V

\* An edited list, shown or not.
LEMMA ListBecomesOK ==
  ASSUME IInv, NEW i \in DOMAIN pubs, NEW list, Listed(list), Event,
         pubs' = WithList(pubs, i, list),
         \/ /\ store' = Notified(SetUi(store, MuOf(pubs'[i])))
            /\ chosen' = pubs[i].id
         \/ store' = store /\ chosen' = chosen /\ pubs[i].id # chosen,
         UNCHANGED <<nextId, running, starts, typed, orphans>>
  PROVE  IInv'
<1>1. list \in Seq(Ids) /\ IsInjective(list)
  BY DEF Listed
<1>2. /\ pubs' \in Seq(Publishers) /\ DOMAIN pubs' = DOMAIN pubs /\ Len(pubs') = Len(pubs)
      /\ \A k \in DOMAIN pubs : pubs'[k].id = pubs[k].id /\ (k # i => pubs'[k] = pubs[k])
      /\ pubs'[i].list = list
  <2> DEFINE q == pubs
             r == pubs'
  <2>1. q \in Seq(Publishers) /\ i \in DOMAIN q /\ r = WithList(q, i, list)
    BY PubsAre
  <2> HIDE DEF q, r
  <2>2. /\ r \in Seq(Publishers) /\ DOMAIN r = DOMAIN q /\ Len(r) = Len(q)
        /\ \A k \in DOMAIN q : r[k].id = q[k].id /\ (k # i => r[k] = q[k])
        /\ r[i].list = list
    BY <1>1, <2>1, ListReplaced
  <2> QED
    BY <2>2 DEF q, r
<1>3. PubsOK'
  <2>1. \A k \in DOMAIN pubs' :
          IsInjective(pubs'[k].list) /\ pubs'[k].id \in 1..(nextId' - 1)
    <3> SUFFICES ASSUME NEW k \in DOMAIN pubs
                 PROVE  IsInjective(pubs'[k].list) /\ pubs'[k].id \in 1..(nextId' - 1)
      BY <1>2
    <3>1. IsInjective(pubs[k].list) /\ pubs[k].id \in 1..(nextId' - 1)
      BY DEF IInv, PubsOK
    <3>2. IsInjective(pubs'[k].list)
      BY <1>1, <1>2, <3>1
    <3> QED
      BY <1>2, <3>1, <3>2
  <2>2. Apart(pubs')
    BY <1>2 DEF IInv, PubsOK, Apart
  <2> QED
    BY <1>2, <2>1, <2>2 DEF IInv, PubsOK
<1>4. StoreOK(store, typed, orphans)' /\ FrameIsChosen' /\ chosen' \in 0..nextId
  <2>1. CASE store' = Notified(SetUi(store, MuOf(pubs'[i]))) /\ chosen' = pubs[i].id
    <3>1. StoreOK(store', typed, orphans) /\ store'.activeMu = MuOf(pubs'[i])
      BY <2>1, UiOK DEF IInv
    <3>2. pubs'[i].id = chosen'
      BY <1>2, <2>1
    <3>3. FrameIsChosen'
      BY <1>2, <3>1, <3>2 DEF FrameIsChosen, MuOf
    <3>4. pubs[i].id \in 1..(nextId - 1) /\ nextId \in Nat
      BY PubsAre DEF IInv, Scalars
    <3>5. chosen' \in 0..nextId
      BY <2>1, <3>4
    <3> QED
      BY <3>1, <3>3, <3>5
  <2>2. CASE store' = store /\ chosen' = chosen /\ pubs[i].id # chosen
    <3>1. FrameIsChosen'
      <4> SUFFICES ASSUME store.activeMu # NoMu
                   PROVE  \E k \in DOMAIN pubs' :
                            pubs'[k].id = chosen /\ store.activeMu = MuOf(pubs'[k])
        BY <2>2 DEF FrameIsChosen, MuOf
      <4>1. PICK k \in DOMAIN pubs : pubs[k].id = chosen /\ store.activeMu = MuOf(pubs[k])
        BY DEF IInv, FrameIsChosen
      <4>2. pubs'[k] = pubs[k]
        BY <1>2, <2>2, <4>1
      <4> QED
        BY <1>2, <4>1, <4>2
    <3> QED
      BY <2>2, <3>1 DEF IInv, Scalars
  <2> QED
    BY <2>1, <2>2
<1>5. StartsOK'
  BY DEF IInv, StartsOK
<1>6. events' \in 0..MaxEvents
  BY EventIs DEF IInv, Scalars
<1>7. Scalars'
  BY <1>4, <1>6 DEF IInv, Scalars
<1> QED
  BY <1>3, <1>4, <1>5, <1>7 DEF IInv

\* The stream under inspection, which the frame's controls edit.
LEMMA EditActiveOK ==
  ASSUME IInv, HasActiveMu, NEW list, Listed(list), EditActive(list)
  PROVE  IInv'
<1> DEFINE i == Place(chosen)
<1>1. i \in DOMAIN pubs /\ pubs[i].id = chosen
  BY DEF HasActiveMu, Place
<1> HIDE DEF i
<1>2. /\ Event /\ pubs' = WithList(pubs, i, list)
      /\ store' = Notified(SetUi(store, MuOf(pubs'[i]))) /\ chosen' = chosen
      /\ UNCHANGED <<nextId, running, starts, typed, orphans>>
  BY DEF EditActive, ListBecomes, WithList, i
<1> QED
  BY <1>1, <1>2, ListBecomesOK

LEMMA ActiveListIs ==
  ASSUME IInv, HasActiveMu
  PROVE  Listed(ActiveList) /\ ActiveList \in Seq(Ids)
<1>1. Place(chosen) \in DOMAIN pubs
  BY DEF HasActiveMu, Place
<1> QED
  BY <1>1, PubsAre DEF ActiveList, Listed

LEMMA AddPublisherOK ==
  ASSUME IInv, AddPublisher
  PROVE  IInv'
<1> DEFINE seed == Seed(store)
           n == Len(pubs)
           p == [id |-> nextId, number |-> n + 1, list |-> seed, count |-> Len(seed)]
           V == Publishers
           q == pubs
           r == pubs'
<1>1. /\ Event /\ n < MaxStreams /\ r = Append(q, p) /\ nextId' = nextId + 1
      /\ UNCHANGED <<store, chosen, running, starts, typed, orphans>>
  BY DEF AddPublisher, ListEdit
<1>2. seed \in Seq(Ids) /\ IsInjective(seed)
  BY SeedIs DEF IInv, Listed
<1>3. n \in Nat /\ DOMAIN q = 1..n /\ q \in Seq(V) /\ nextId \in Nat \ {0}
  BY PubsAre DEF IInv, Scalars
<1>4. p \in V /\ p.id = nextId /\ p.list = seed
  <2> HIDE DEF n, seed
  <2>1. n + 1 \in Nat /\ Len(seed) \in Nat /\ nextId \in Nat
    BY <1>2, <1>3
  <2> QED
    BY <1>2, <2>1 DEF Publishers
<1> HIDE DEF n, seed, V, q, r, p
<1>5. /\ r \in Seq(V) /\ Len(r) = n + 1 /\ DOMAIN r = 1..(n + 1)
      /\ r[n + 1] = p /\ \A k \in 1..n : r[k] = q[k]
  BY <1>1, <1>3, <1>4 DEF n, q
<1>6. \A k \in 1..(n + 1) : k \in 1..n \/ k = n + 1
  BY <1>3
<1>7. \A k \in 1..n : q[k].id \in 1..(nextId - 1) /\ IsInjective(q[k].list)
  BY <1>3 DEF IInv, PubsOK, q
<1>8. \A k \in 1..n : q[k].id # nextId /\ q[k].id \in 1..(nextId' - 1)
  BY <1>1, <1>3, <1>7
<1>9. \A k \in DOMAIN r : IsInjective(r[k].list) /\ r[k].id \in 1..(nextId' - 1)
  <2>1. nextId \in 1..(nextId' - 1)
    BY <1>1, <1>3
  <2> SUFFICES ASSUME NEW k \in 1..(n + 1)
               PROVE  IsInjective(r[k].list) /\ r[k].id \in 1..(nextId' - 1)
    BY <1>5
  <2>2. CASE k = n + 1
    BY <1>2, <1>4, <1>5, <2>1, <2>2
  <2>3. CASE k \in 1..n
    BY <1>5, <1>7, <1>8, <2>3
  <2> QED
    BY <1>6, <2>2, <2>3
<1>10. Apart(r)
  <2> SUFFICES ASSUME NEW j \in 1..(n + 1), NEW k \in 1..(n + 1), r[j].id = r[k].id
               PROVE  j = k
    BY <1>5 DEF Apart
  <2>1. CASE j \in 1..n /\ k \in 1..n
    BY <1>3, <1>5, <2>1 DEF IInv, PubsOK, Apart, q
  <2>2. CASE j \in 1..n /\ k = n + 1
    BY <1>4, <1>5, <1>8, <2>2
  <2>3. CASE j = n + 1 /\ k \in 1..n
    BY <1>4, <1>5, <1>8, <2>3
  <2> QED
    BY <1>6, <2>1, <2>2, <2>3
<1>11. Len(r) <= MaxStreams
  <2>1. MaxStreams \in Nat
    BY SetupAssumption
  <2> QED
    BY <1>1, <1>3, <1>5, <2>1
<1>12. PubsOK'
  BY <1>5, <1>9, <1>10, <1>11 DEF PubsOK, r, V
<1>13. FrameIsChosen'
  <2> SUFFICES ASSUME store.activeMu # NoMu
               PROVE  \E k \in DOMAIN r : r[k].id = chosen /\ store.activeMu = MuOf(r[k])
    BY <1>1 DEF FrameIsChosen, MuOf, r
  <2>1. PICK k \in 1..n : q[k].id = chosen /\ store.activeMu = MuOf(q[k])
    BY <1>3 DEF IInv, FrameIsChosen, q
  <2>2. k \in DOMAIN r
    BY <1>3, <1>5
  <2> QED
    BY <1>5, <2>1, <2>2
<1>14. events' \in 0..MaxEvents
  BY <1>1, EventIs DEF IInv, Scalars
<1>15. nextId' \in Nat \ {0} /\ chosen' \in 0..nextId'
  BY <1>1, <1>3 DEF IInv, Scalars
<1>16. Scalars'
  BY <1>1, <1>14, <1>15 DEF IInv, Scalars
<1> QED
  BY <1>1, <1>12, <1>13, <1>16 DEF IInv, StartsOK

LEMMA RemovePublisherOK ==
  ASSUME IInv, NEW i \in DOMAIN pubs, RemovePublisher(i)
  PROVE  IInv'
<1> DEFINE n == Len(pubs)
           q == pubs
           r == pubs'
           V == Publishers
<1>1. /\ Event /\ r = RemoveAt(q, i)
      /\ \/ q[i].id = chosen /\ chosen' = 0 /\ store' = Notified(SetUi(store, NoMu))
         \/ q[i].id # chosen /\ chosen' = chosen /\ store' = store
      /\ UNCHANGED <<nextId, running, starts, typed, orphans>>
  BY DEF RemovePublisher, ListEdit
<1>2. n \in Nat /\ DOMAIN q = 1..n /\ q \in Seq(V) /\ i \in DOMAIN q /\ Len(q) = n
  BY PubsAre
<1> HIDE DEF n, q, r, V
<1>3. r \in Seq(V) /\ Len(r) = n - 1
      /\ \A k \in 1..(n - 1) : r[k] = q[IF k < i THEN k ELSE k + 1]
  BY <1>1, <1>2, RemoveAtIs
<1>4. DrawnFrom(r, q)
  BY <1>1, <1>2, RemoveAtDrawn
<1>5. DOMAIN r = 1..(n - 1)
  BY <1>2, <1>3
<1>6. \A k \in DOMAIN r : IsInjective(r[k].list) /\ r[k].id \in 1..(nextId' - 1)
  <2> TAKE k \in DOMAIN r
  <2>1. (IF k < i THEN k ELSE k + 1) \in DOMAIN q
    BY <1>2, <1>5
  <2> QED
    BY <1>1, <1>3, <1>5, <2>1 DEF IInv, PubsOK, q
<1>7. Apart(r)
  BY <1>4, DrawnKeeps DEF IInv, PubsOK, q
<1>8. Len(r) <= MaxStreams
  <2>1. n <= MaxStreams /\ MaxStreams \in Nat
    BY SetupAssumption DEF IInv, PubsOK, n
  <2> QED
    BY <1>2, <1>3, <2>1
<1>9. PubsOK'
  BY <1>3, <1>6, <1>7, <1>8 DEF PubsOK, r, V
<1>10. StoreOK(store, typed, orphans)' /\ FrameIsChosen' /\ chosen' \in 0..nextId
  <2>1. CASE chosen' = 0 /\ store' = Notified(SetUi(store, NoMu))
    <3>1. StoreOK(store', typed, orphans) /\ store'.activeMu = NoMu
      BY <2>1, UiOK DEF IInv
    <3> QED
      BY <1>1, <2>1, <3>1 DEF FrameIsChosen, IInv, Scalars
  <2>2. CASE q[i].id # chosen /\ chosen' = chosen /\ store' = store
    <3>1. FrameIsChosen'
      <4> SUFFICES ASSUME store.activeMu # NoMu
                   PROVE  \E k \in DOMAIN r : r[k].id = chosen /\ store.activeMu = MuOf(r[k])
        BY <2>2 DEF FrameIsChosen, MuOf, r
      <4>1. PICK j \in DOMAIN q : q[j].id = chosen /\ store.activeMu = MuOf(q[j])
        BY DEF IInv, FrameIsChosen, q
      <4> DEFINE k == IF j < i THEN j ELSE j - 1
      <4>2. j # i
        BY <2>2, <4>1
      <4>3. k \in 1..(n - 1) /\ (IF k < i THEN k ELSE k + 1) = j
        BY <1>2, <4>2
      <4> HIDE DEF k
      <4>4. r[k] = q[j]
        BY <1>3, <4>3
      <4> QED
        BY <1>5, <4>1, <4>3, <4>4
    <3> QED
      BY <1>1, <2>2, <3>1 DEF IInv, Scalars
  <2> QED
    BY <1>1, <2>1, <2>2
<1>11. events' \in 0..MaxEvents
  BY <1>1, EventIs DEF IInv, Scalars
<1>12. Scalars'
  BY <1>1, <1>10, <1>11 DEF IInv, Scalars
<1> QED
  BY <1>1, <1>9, <1>10, <1>12 DEF IInv, StartsOK

LEMMA ResizeChannelsOK ==
  ASSUME IInv, NEW i \in DOMAIN pubs, NEW n \in Nat, ResizeChannels(i, n)
  PROVE  IInv'
<1> DEFINE list == Resized(store, pubs[i].list, n)
<1>1. /\ Event /\ pubs' = WithList(pubs, i, list)
      /\ \/ store' = Notified(SetUi(store, MuOf(pubs'[i]))) /\ chosen = pubs[i].id
         \/ store' = store /\ chosen # pubs[i].id
      /\ chosen' = chosen /\ UNCHANGED <<nextId, running, starts, typed, orphans>>
  BY DEF ResizeChannels, ListBecomes, WithList
<1>2. Listed(list)
  BY PubsAre, ResizedIs DEF IInv
<1> HIDE DEF list
<1> QED
  BY <1>1, <1>2, ListBecomesOK

LEMMA SelectPublisherOK ==
  ASSUME IInv, NEW i \in DOMAIN pubs, SelectPublisher(i)
  PROVE  IInv'
<1> DEFINE list == pubs[i].list
<1>1. /\ Event /\ pubs' = WithList(pubs, i, list)
      /\ store' = Notified(SetUi(store, MuOf(pubs'[i]))) /\ chosen' = pubs[i].id
      /\ UNCHANGED <<nextId, running, starts, typed, orphans>>
  BY DEF SelectPublisher, ListBecomes, WithList
<1>2. Listed(list)
  BY PubsAre
<1> HIDE DEF list
<1> QED
  BY <1>1, <1>2, ListBecomesOK

LEMMA MuEditOK ==
  ASSUME IInv
  PROVE  /\ \A i : RemoveMuChannelAt(i) => IInv'
         /\ \A i, j : ReorderMuChannel(i, j) => IInv'
         /\ \A i : \A id \in Ids : ChangeMuChannelAt(i, id) => IInv'
<1> DEFINE list == ActiveList
<1>1. ASSUME HasActiveMu PROVE Listed(list) /\ list \in Seq(Ids)
  BY <1>1, ActiveListIs
<1>2. ASSUME NEW i, RemoveMuChannelAt(i) PROVE IInv'
  <2> DEFINE r == RemoveAt(list, i)
  <2>1. HasActiveMu /\ i \in DOMAIN list /\ EditActive(r)
    BY <1>2 DEF RemoveMuChannelAt
  <2>2. Listed(list) /\ list \in Seq(Ids)
    BY <1>1, <2>1
  <2> HIDE DEF list
  <2>3. r \in Seq(Ids) /\ DrawnFrom(r, list)
    BY <2>1, <2>2, RemoveAtIs, RemoveAtDrawn
  <2> HIDE DEF r
  <2>4. Listed(r)
    BY <2>2, <2>3, DrawnListed
  <2> QED
    BY <2>1, <2>4, EditActiveOK
<1>3. ASSUME NEW i, NEW j, ReorderMuChannel(i, j) PROVE IInv'
  <2> DEFINE r == Moved(list, i, j)
  <2>1. HasActiveMu /\ i \in DOMAIN list /\ j \in DOMAIN list /\ EditActive(r)
    BY <1>3 DEF ReorderMuChannel
  <2>2. Listed(list) /\ list \in Seq(Ids)
    BY <1>1, <2>1
  <2> HIDE DEF list
  <2>3. r \in Seq(Ids) /\ DrawnFrom(r, list)
    BY <2>1, <2>2, MovedIs
  <2> HIDE DEF r
  <2>4. Listed(r)
    BY <2>2, <2>3, DrawnListed
  <2> QED
    BY <2>1, <2>4, EditActiveOK
<1>4. ASSUME NEW i, NEW id \in Ids, ChangeMuChannelAt(i, id) PROVE IInv'
  <2> DEFINE r == ChangedAt(list, i, id)
  <2>1. HasActiveMu /\ i \in DOMAIN list /\ EditActive(r)
    BY <1>4 DEF ChangeMuChannelAt
  <2>2. Listed(list)
    BY <1>1, <2>1
  <2> HIDE DEF list
  <2>3. Listed(r)
    BY <2>1, <2>2, ChangedListed
  <2> HIDE DEF r
  <2> QED
    BY <2>1, <2>3, EditActiveOK
<1> QED
  BY <1>2, <1>3, <1>4

LEMMA DropChannelOK ==
  ASSUME IInv, NEW id \in Ids, DropChannel(id)
  PROVE  IInv'
<1>1. CASE HasActiveMu
  <2> DEFINE list == ActiveList
             r == Append(list, id)
  <2>1. id \notin ToSet(list) /\ EditActive(r)
    BY <1>1 DEF DropChannel
  <2>2. Listed(list)
    BY <1>1, ActiveListIs
  <2> HIDE DEF list
  <2>3. Listed(r)
    BY <2>1, <2>2, AppendListed
  <2> HIDE DEF r
  <2> QED
    BY <1>1, <2>1, <2>3, EditActiveOK
<1>2. CASE ~HasActiveMu
  <2> DEFINE list == Append(store.selected, id)
  <2>1. /\ Event /\ UNCHANGED <<pubs, nextId, chosen, running, starts>>
        /\ store' = AddSelected(store, id) /\ typed' = typed /\ orphans' = orphans
        /\ id \in IdsOf(store.channels) /\ id \notin ToSet(store.selected)
    BY <1>2 DEF DropChannel, StoreBecomes
  <2>2. /\ StoreOK(store, typed, orphans) /\ Listed(store.selected)
        /\ ToSet(store.selected) \subseteq IdsOf(store.channels) \cup orphans
        /\ typed \subseteq Ids /\ orphans \subseteq Ids
    BY DEF IInv, StoreOK, Contents, Scalars
  <2>3. Listed(list) /\ ToSet(list) = ToSet(store.selected) \cup {id}
    BY <2>1, <2>2, AppendListed
  <2>4. store' = store \/ store' = Select(store, list)
    BY <2>1 DEF AddSelected
  <2> HIDE DEF list
  <2>5. ToSet(list) \subseteq IdsOf(store.channels) \cup orphans
    BY <2>1, <2>2, <2>3
  <2>6. StoreOK(store', typed, orphans) /\ store'.activeMu = store.activeMu
    BY <2>2, <2>3, <2>4, <2>5, SelectOK
  <2> QED
    BY <2>1, <2>2, <2>6, StoreKeptWhen
<1> QED
  BY <1>1, <1>2

LEMMA EditHeaderOK ==
  ASSUME IInv, NEW i \in DOMAIN pubs, EditHeader(i, 9)
  PROVE  IInv'
<1> DEFINE q == pubs
           r == pubs'
           n == Len(pubs)
           V == Publishers
<1>1. /\ Event /\ r = [q EXCEPT ![i].number = 9]
      /\ UNCHANGED <<store, nextId, chosen, running, starts, typed, orphans>>
  BY DEF EditHeader
<1>2. q \in Seq(V) /\ n \in Nat /\ DOMAIN q = 1..n /\ Len(q) = n
      /\ \A k \in DOMAIN q : q[k] \in V
  BY PubsAre
<1> HIDE DEF q, r, n
<1>3. DOMAIN r = DOMAIN q /\ r = [k \in DOMAIN q |-> r[k]]
      /\ \A k \in DOMAIN q : k # i => r[k] = q[k]
  BY <1>1
<1>4. i \in DOMAIN q
  BY DEF q
<1>5. r[i] = [id |-> q[i].id, number |-> 9, list |-> q[i].list, count |-> q[i].count]
  BY <1>1, <1>2, <1>4 DEF Publishers
<1>6. r[i] \in V /\ r[i].id = q[i].id /\ r[i].list = q[i].list
  <2>1. q[i].id \in Nat /\ q[i].list \in Seq(Ids) /\ q[i].count \in Nat
    BY <1>2, <1>4 DEF Publishers
  <2> QED
    BY <1>5, <2>1 DEF Publishers
<1> HIDE DEF V
<1>7. \A k \in DOMAIN q : r[k] \in V /\ r[k].id = q[k].id /\ r[k].list = q[k].list
  BY <1>2, <1>3, <1>6
<1>8. r \in Seq(V) /\ Len(r) = n
  BY <1>2, <1>3, <1>7, ListOf
<1>9. Apart(r) /\ Len(r) <= MaxStreams
      /\ \A k \in DOMAIN r : IsInjective(r[k].list) /\ r[k].id \in 1..(nextId' - 1)
  <2>1. Apart(q) /\ Len(q) <= MaxStreams
        /\ \A k \in DOMAIN q : IsInjective(q[k].list) /\ q[k].id \in 1..(nextId' - 1)
    BY <1>1 DEF IInv, PubsOK, q
  <2>2. Apart(r)
    BY <1>3, <1>7, <2>1 DEF Apart
  <2>3. \A k \in DOMAIN r : IsInjective(r[k].list) /\ r[k].id \in 1..(nextId' - 1)
    <3> SUFFICES ASSUME NEW k \in DOMAIN q
                 PROVE  IsInjective(r[k].list) /\ r[k].id \in 1..(nextId' - 1)
      BY <1>3
    <3> QED
      BY <1>7, <2>1
  <2> QED
    BY <1>2, <1>8, <2>1, <2>2, <2>3
<1>10. PubsOK'
  BY <1>8, <1>9 DEF PubsOK, r, V
<1>11. FrameIsChosen'
  <2> SUFFICES ASSUME store.activeMu # NoMu
               PROVE  \E k \in DOMAIN r : r[k].id = chosen /\ store.activeMu = MuOf(r[k])
    BY <1>1 DEF FrameIsChosen, MuOf, r
  <2>1. PICK k \in DOMAIN q : q[k].id = chosen /\ store.activeMu = MuOf(q[k])
    BY DEF IInv, FrameIsChosen, q
  <2>2. MuOf(r[k]) = MuOf(q[k])
    BY <1>7 DEF MuOf
  <2> QED
    BY <1>3, <1>7, <2>1, <2>2
<1>12. events' \in 0..MaxEvents
  BY <1>1, EventIs DEF IInv, Scalars
<1>13. Scalars'
  BY <1>1, <1>12 DEF IInv, Scalars
<1> QED
  BY <1>1, <1>10, <1>11, <1>13 DEF IInv, StartsOK

\* A step of one start, to a record that is in order.
LEMMA StartMoves ==
  ASSUME IInv, NEW t \in Starters, StartOK(starts'[t]), DOMAIN starts' = DOMAIN starts,
         \A u \in Starters \ {t} : starts'[u] = starts[u],
         UNCHANGED <<store, pubs, nextId, chosen, typed, orphans>>,
         running' \in BOOLEAN, events' \in 0..MaxEvents
  PROVE  IInv'
<1>1. StartsOK'
  BY DEF IInv, StartsOK
<1>2. Scalars'
  BY DEF IInv, Scalars
<1>3. PubsOK'
  BY DEF IInv, PubsOK, Apart
<1>4. FrameIsChosen'
  BY DEF IInv, FrameIsChosen, MuOf
<1> QED
  BY <1>1, <1>2, <1>3, <1>4 DEF IInv

LEMMA StartAllOK ==
  ASSUME IInv, NEW t \in Starters, StartAll(t)
  PROVE  IInv'
<1> DEFINE pool == ForServer(store)
           limit == MaxChannels[store.std]
           c == [next |-> 1, pool |-> pool, limit |-> limit, asked |-> store.freq,
                 typed |-> typed, conf |-> NoConf]
<1>1. /\ Event /\ starts' = [starts EXCEPT ![t] = c]
      /\ UNCHANGED <<store, pubs, nextId, chosen, running, typed, orphans>>
  BY DEF StartAll
<1>2. Taken(pool, limit, store.freq, typed)
  BY ForServerTaken DEF IInv
<1>3. DOMAIN starts = Starters
  BY DEF IInv, StartsOK
<1> HIDE DEF pool, limit
<1>4. /\ DOMAIN c = StartFields /\ c.next = 1 /\ c.pool = pool /\ c.limit = limit
      /\ c.asked = store.freq /\ c.typed = typed /\ c.conf.chs = <<>>
  BY DEF NoConf, StartFields
<1> HIDE DEF c
<1>5. FrameOK(<<>>, c.conf.freq, limit, store.freq, typed)
  <2>1. limit \in Nat
    BY <1>2 DEF Taken
  <2> QED
    BY <2>1, NoFrameOK
<1>6. StartOK(c)
  <2>1. MaxStreams \in Nat
    BY SetupAssumption
  <2> QED
    BY <1>2, <1>4, <1>5, <2>1 DEF StartOK
<1>7. starts'[t] = c /\ DOMAIN starts' = DOMAIN starts
      /\ \A u \in Starters \ {t} : starts'[u] = starts[u]
  BY <1>1, <1>3
<1>8. events' \in 0..MaxEvents /\ running' \in BOOLEAN
  BY <1>1, EventIs DEF IInv, Scalars
<1> QED
  BY <1>1, <1>6, <1>7, <1>8, StartMoves

LEMMA ConfigureNextOK ==
  ASSUME IInv, NEW t \in Starters, ConfigureNext(t)
  PROVE  IInv'
<1> DEFINE c == starts[t]
           d == starts'[t]
           chs == PubChannels(pubs[c.next], c.pool, store.freq)
           conf == [chs |-> chs, freq |-> store.freq]
<1>1. /\ c.next \in DOMAIN pubs
      /\ starts' = [starts EXCEPT ![t].next = @ + 1, ![t].conf = conf]
      /\ UNCHANGED <<store, pubs, nextId, chosen, running, typed, orphans, events>>
  BY DEF ConfigureNext
<1>2. DOMAIN starts = Starters /\ StartOK(c)
  BY DEF IInv, StartsOK
<1>3. FrameOK(chs, store.freq, c.limit, c.asked, c.typed)
  <2>1. Listed(pubs[c.next].list)
    BY <1>1, PubsAre
  <2>2. store.freq \in Frequencies
    BY DEF IInv, StoreOK, Settings
  <2>3. Taken(c.pool, c.limit, c.asked, c.typed)
    BY <1>2 DEF StartOK
  <2> HIDE DEF c
  <2> QED
    BY <2>1, <2>2, <2>3, PubChannelsOK
<1>4. c.next + 1 \in 0..(MaxStreams + 1)
  <2>1. Len(pubs) <= MaxStreams /\ DOMAIN pubs = 1..Len(pubs) /\ Len(pubs) \in Nat
    BY PubsAre DEF IInv, PubsOK
  <2>2. MaxStreams \in Nat
    BY SetupAssumption
  <2> QED
    BY <1>1, <2>1, <2>2
<1>5. conf.chs = chs /\ conf.freq = store.freq
  OBVIOUS
<1> HIDE DEF chs, conf
<1>6. /\ d = [c EXCEPT !.next = c.next + 1, !.conf = conf]
      /\ DOMAIN starts' = DOMAIN starts
      /\ \A u \in Starters \ {t} : starts'[u] = starts[u]
  BY <1>1, <1>2
<1>7. DOMAIN c = StartFields
  BY <1>2 DEF StartOK
<1> HIDE DEF c, d
<1>8. /\ DOMAIN d = StartFields /\ d.next = c.next + 1 /\ d.conf = conf
      /\ d.pool = c.pool /\ d.limit = c.limit /\ d.asked = c.asked /\ d.typed = c.typed
  BY <1>6, <1>7 DEF StartFields
<1>9. StartOK(d)
  BY <1>2, <1>3, <1>4, <1>5, <1>8 DEF StartOK
<1>10. events' \in 0..MaxEvents /\ running' \in BOOLEAN
  BY <1>1 DEF IInv, Scalars
<1> QED
  BY <1>1, <1>6, <1>9, <1>10, StartMoves DEF d

LEMMA StartFailsOK ==
  ASSUME IInv, NEW t \in Starters, StartFails(t)
  PROVE  IInv'
<1>1. /\ starts' = [starts EXCEPT ![t] = Idle] /\ DOMAIN starts = Starters
      /\ UNCHANGED <<store, pubs, nextId, chosen, running, typed, orphans, events>>
  BY DEF StartFails, IInv, StartsOK
<1>2. starts'[t] = Idle /\ DOMAIN starts' = DOMAIN starts
      /\ \A u \in Starters \ {t} : starts'[u] = starts[u]
  BY <1>1
<1>3. events' \in 0..MaxEvents /\ running' \in BOOLEAN
  BY <1>1 DEF IInv, Scalars
<1> QED
  BY <1>1, <1>2, <1>3, IdleOK, StartMoves

LEMMA StartEndsOK ==
  ASSUME IInv, NEW t \in Starters, StartEnds(t)
  PROVE  IInv'
<1>1. /\ starts' = [starts EXCEPT ![t] = Idle] /\ DOMAIN starts = Starters
      /\ running' = TRUE
      /\ UNCHANGED <<store, pubs, nextId, chosen, typed, orphans, events>>
  BY DEF StartEnds, IInv, StartsOK
<1>2. starts'[t] = Idle /\ DOMAIN starts' = DOMAIN starts
      /\ \A u \in Starters \ {t} : starts'[u] = starts[u]
  BY <1>1
<1>3. events' \in 0..MaxEvents /\ running' \in BOOLEAN
  BY <1>1 DEF IInv, Scalars
<1> QED
  BY <1>1, <1>2, <1>3, IdleOK, StartMoves

LEMMA StreamStepOK ==
  ASSUME IInv, StreamStep
  PROVE  IInv'
<1>1. \A n \in 1..Cardinality(Ids) : n \in Nat
  BY IdsFinite
<1>2. ASSUME NEW i \in DOMAIN pubs, NEW n \in 1..Cardinality(Ids), ResizeChannels(i, n)
      PROVE  IInv'
  BY <1>1, <1>2, ResizeChannelsOK
<1> QED
  BY <1>2, AddPublisherOK, RemovePublisherOK, SelectPublisherOK, MuEditOK, DropChannelOK,
     EditHeaderOK, StartAllOK, ConfigureNextOK, StartFailsOK, StartEndsOK
  DEF StreamStep

LEMMA EndOfRunOK ==
  ASSUME IInv, EndOfRun
  PROVE  IInv'
<1>1. /\ running' = FALSE
      /\ UNCHANGED <<store, pubs, nextId, chosen, starts, typed, orphans, events>>
  BY DEF EndOfRun
<1>2. StartsOK'
  BY <1>1 DEF IInv, StartsOK
<1>3. Scalars'
  BY <1>1 DEF IInv, Scalars
<1>4. PubsOK'
  BY <1>1 DEF IInv, PubsOK, Apart
<1>5. FrameIsChosen'
  BY <1>1 DEF IInv, FrameIsChosen, MuOf
<1> QED
  BY <1>1, <1>2, <1>3, <1>4, <1>5 DEF IInv

LEMMA NewStoreOK ==
  ASSUME NEW r, r = NewStore
  PROVE  StoreOK(r, {}, {}) /\ r.activeMu = NoMu
<1> DEFINE chs == InitialChannels("9-2LE", 60)
           s == [std |-> "9-2LE", freq |-> 60, spc |-> 80, rate |-> 4800, asdu |-> 1,
                 selected |-> LEOrder, channels |-> chs,
                 activeMu |-> NoMu, dirty |-> {}, views |-> <<>>]
           views == Shows(s)
<1>1. r = [s EXCEPT !.views = views]
  BY DEF NewStore
<1>2. "9-2LE" \in Standards /\ 60 \in Frequencies
  BY DEF Standards, Frequencies
<1>3. Pool(chs, "9-2LE") /\ IdsOf(chs) = ToSet(PoolOrder) /\ Tuned(chs, 60, {})
  BY <1>2, InitialIs
<1> HIDE DEF chs
<1>4. /\ DOMAIN s = Fields /\ s.std = "9-2LE" /\ s.freq = 60 /\ s.spc = 80 /\ s.rate = 4800
      /\ s.asdu = 1 /\ s.selected = LEOrder /\ s.channels = chs /\ s.activeMu = NoMu
      /\ s.dirty = {}
  BY DEF Fields, Paths, ConfigPaths
<1> HIDE DEF s, views
<1>5. /\ DOMAIN r = Fields /\ r.std = "9-2LE" /\ r.freq = 60 /\ r.spc = 80 /\ r.rate = 4800
      /\ r.asdu = 1 /\ r.selected = LEOrder /\ r.channels = chs /\ r.activeMu = NoMu
      /\ r.dirty = {} /\ r.views = views
  BY <1>1, <1>4 DEF Fields, Paths, ConfigPaths
<1>6. r.views = Shows(r)
  <2>1. Shows(r) = Shows(s)
    BY <1>4, <1>5 DEF Shows
  <2> QED
    BY <1>5, <2>1 DEF views
<1>7. Listed(LEOrder) /\ ToSet(LEOrder) = ToSet(PoolOrder)
  <2>1. /\ LEOrder \in Seq(ToSet(PoolOrder)) /\ IsInjective(LEOrder)
        /\ ToSet(LEOrder) = ToSet(PoolOrder)
    BY OrdersAssumption
  <2>2. ToSet(PoolOrder) \subseteq Ids
    BY DEF Ids
  <2>3. LEOrder \in Seq(Ids)
    BY <2>1, <2>2
  <2> QED
    BY <2>1, <2>3 DEF Listed
<1>8. Settings(r)
  BY <1>2, <1>5 DEF Settings
<1>9. Contents(r, {}, {})
  BY <1>3, <1>5, <1>7 DEF Contents
<1> QED
  BY <1>5, <1>6, <1>8, <1>9 DEF StoreOK

LEMMA SetupInit == Init => IInv
<1> SUFFICES ASSUME Init
             PROVE  IInv
  OBVIOUS
<1>1. /\ store = NewStore /\ pubs = <<>> /\ nextId = 1 /\ chosen = 0 /\ running = FALSE
      /\ starts = [t \in Starters |-> Idle] /\ typed = {} /\ orphans = {} /\ events = 0
  BY DEF Init
<1>2. StoreOK(store, typed, orphans) /\ store.activeMu = NoMu
  BY <1>1, NewStoreOK
<1>3. PubsOK
  <2>1. MaxStreams \in Nat
    BY SetupAssumption
  <2> QED
    BY <1>1, <2>1 DEF PubsOK, Apart
<1>4. StartsOK
  BY <1>1, IdleOK DEF StartsOK
<1>5. Scalars
  <2>1. MaxEvents \in Nat
    BY SetupAssumption
  <2>2. running \in BOOLEAN
    BY <1>1
  <2>3. nextId \in Nat \ {0} /\ chosen \in 0..nextId /\ events \in 0..MaxEvents
    BY <1>1, <2>1
  <2>4. typed \subseteq Ids /\ orphans \subseteq Ids
    BY <1>1
  <2> QED
    BY <2>2, <2>3, <2>4 DEF Scalars
<1> QED
  BY <1>2, <1>3, <1>4, <1>5 DEF IInv, FrameIsChosen

LEMMA SetupStep == IInv /\ [Next]_vars => IInv'
<1> SUFFICES ASSUME IInv, [Next]_vars
             PROVE  IInv'
  OBVIOUS
<1>1. CASE UNCHANGED vars
  <2>1. UNCHANGED <<store, pubs, nextId, chosen, running, starts, typed, orphans, events>>
    BY <1>1 DEF vars
  <2> QED
    BY <2>1 DEF IInv, PubsOK, Apart, FrameIsChosen, MuOf, StartsOK, Scalars
<1>2. CASE Done
  <2>1. UNCHANGED <<store, pubs, nextId, chosen, running, starts, typed, orphans, events>>
    BY <1>2 DEF Done, vars
  <2> QED
    BY <2>1 DEF IInv, PubsOK, Apart, FrameIsChosen, MuOf, StartsOK, Scalars
<1> QED
  BY <1>1, <1>2, StoreStepOK, ConsoleStepOK, StreamStepOK, EndOfRunOK DEF Next

\* Whatever the callbacks, the store is in order between two of them: its
\* settings, its pool, its selection, what its subscribers show; the streams
\* have lists of their own, without repetition, and ids given once.
THEOREM SetupInvariant == Spec => []IInv
  BY SetupInit, SetupStep, PTL DEF Spec

(***************************************************************************)
(* What follows.                                                            *)
(***************************************************************************)
LEMMA EmptyListed == Listed(<<>>)
  BY DEF Listed, IsInjective

LEMMA SetupTypeOK ==
  ASSUME IInv
  PROVE  TypeOK
<1>1. /\ Settings(store) /\ Listed(store.selected) /\ store.dirty = {}
      /\ Pool(store.channels, store.std)
  BY DEF IInv, StoreOK, Contents
<1>2. /\ store.std \in Standards /\ store.freq \in Frequencies /\ store.spc \in Nat
      /\ store.asdu \in {1, 4} /\ store.rate = store.spc * store.freq
  BY <1>1 DEF Settings
<1>3. store.rate \in Nat
  BY <1>2 DEF Frequencies
<1>4. store.selected \in Lists
  BY <1>1, ListedIs
<1>5. \A i \in DOMAIN store.channels :
        store.channels[i] \in [id : Ids, base : BOOLEAN, hz : SUBSET Waves]
  <2> DEFINE chs == store.channels
  <2>1. chs \in Seq(Channels)
    BY <1>1 DEF Pool, AnyPool
  <2> HIDE DEF chs
  <2>2. \A i \in DOMAIN chs : chs[i] \in Channels
    BY <2>1
  <2> QED
    BY <2>2 DEF chs, Channels
<1>6. \A i \in DOMAIN pubs : /\ pubs[i].id \in 1..nextId /\ pubs[i].list \in Lists
                             /\ pubs[i].count \in Nat
  <2> TAKE i \in DOMAIN pubs
  <2>1. /\ pubs[i] \in Publishers /\ Listed(pubs[i].list)
        /\ pubs[i].id \in 1..(nextId - 1) /\ nextId \in Nat
    BY PubsAre DEF IInv, Scalars
  <2>2. pubs[i].count \in Nat
    BY <2>1 DEF Publishers
  <2>3. pubs[i].id \in 1..nextId
    BY <2>1
  <2> QED
    BY <2>1, <2>2, <2>3, ListedIs
<1>7. store.activeMu.id \in 0..nextId /\ store.activeMu.list \in Lists
  <2>1. nextId \in Nat \ {0}
    BY DEF IInv, Scalars
  <2>2. CASE store.activeMu = NoMu
    <3>1. store.activeMu.id = 0 /\ store.activeMu.list = <<>>
      BY <2>2 DEF NoMu
    <3> QED
      BY <2>1, <3>1, EmptyListed, ListedIs
  <2>3. CASE store.activeMu # NoMu
    <3>1. PICK i \in DOMAIN pubs : store.activeMu = MuOf(pubs[i])
      BY <2>3 DEF IInv, FrameIsChosen
    <3>2. store.activeMu.id = pubs[i].id /\ store.activeMu.list = pubs[i].list
      BY <3>1 DEF MuOf
    <3>3. pubs[i].id \in 1..nextId /\ pubs[i].list \in Lists
      BY <1>6
    <3> QED
      BY <2>1, <3>2, <3>3
  <2> QED
    BY <2>2, <2>3
<1>8. Len(pubs) <= MaxStreams /\ Scalars
      /\ \A t \in Starters : starts[t].next \in 0..(MaxStreams + 1)
  BY DEF IInv, PubsOK, StartsOK, StartOK
<1> QED
  BY <1>1, <1>2, <1>3, <1>4, <1>5, <1>6, <1>7, <1>8 DEF TypeOK, Scalars

\* The announced rate is the product of the settings it comes from, the frame
\* has no channel twice and none the pool lacks but for those a whole-pool
\* reset took away, the pool fits the standard and holds every base channel
\* once, and the frame shown is that of the chosen stream: after every
\* sequence of callbacks of the panels, the console and the streams.
THEOREM StoreStaysConsistent == Spec => []StoreConsistent
<1>1. ASSUME IInv PROVE StoreConsistent
  <2>1. TypeOK
    BY <1>1, SetupTypeOK
  <2>2. RateIsProduct
    BY <1>1 DEF IInv, StoreOK, Settings, RateIsProduct
  <2>3. SelectionKnown
    BY <1>1 DEF IInv, StoreOK, Contents, Listed, SelectionKnown
  <2>4. PoolFits
    <3>1. Pool(store.channels, store.std)
      BY <1>1 DEF IInv, StoreOK, Contents
    <3>2. Cardinality(IdsOf(store.channels)) = Len(store.channels)
      BY <3>1, IdsCard DEF Pool, AnyPool
    <3> QED
      BY <3>1, <3>2 DEF Pool, AnyPool, PoolFits
  <2>5. FrameIsChosen
    BY <1>1 DEF IInv
  <2> QED
    BY <2>1, <2>2, <2>3, <2>4, <2>5 DEF StoreConsistent
<1> QED
  BY <1>1, SetupInvariant, PTL

\* Whatever comes between the press of Start and the configuration of a stream,
\* the frame configured is legal: no channel twice, no more than the standard
\* allowed at the press, no 50 Hz sinusoid on a 60 Hz system, and an equation
\* nobody typed at the frequency it is sent with, unless that went from 60 to
\* 50 Hz in between; in the store it is always at the frequency of the system.
THEOREM StartIsLegal == Spec => []SentIsLegal
<1>1. ASSUME IInv PROVE SentIsLegal
  <2>1. \A t \in Starters : FrameOK(starts[t].conf.chs, starts[t].conf.freq,
                                    starts[t].limit, starts[t].asked, starts[t].typed)
    BY <1>1 DEF IInv, StartsOK, StartOK
  <2>2. SentFits
    BY <2>1 DEF FrameOK, SentFits
  <2>3. InTune
    <3>1. Tuned(store.channels, store.freq, typed)
      BY <1>1 DEF IInv, StoreOK, Contents
    <3>2. \A i \in DOMAIN store.channels :
            store.channels[i].id \notin typed
            => store.channels[i].hz \subseteq {store.freq}
      BY <3>1 DEF Tuned
    <3>3. ASSUME NEW t \in Starters, NEW k \in DOMAIN starts[t].conf.chs
          PROVE  /\ 50 \in starts[t].conf.chs[k].hz => starts[t].conf.freq = 50
                 /\ \/ starts[t].conf.chs[k].id \in starts[t].typed
                    \/ starts[t].conf.chs[k].hz \subseteq {starts[t].conf.freq}
                    \/ starts[t].asked = 60 /\ starts[t].conf.freq = 50
      BY <2>1 DEF FrameOK
    <3> QED
      BY <3>2, <3>3 DEF InTune
  <2> QED
    BY <2>2, <2>3 DEF SentIsLegal
<1> QED
  BY <1>1, SetupInvariant, PTL

\* No subscriber is left showing an earlier state: every change is announced
\* on a path its readers watch, the writes the subscribers make themselves
\* included.
THEOREM ViewsStayFresh == Spec => []ViewsFresh
<1>1. IInv => ViewsFresh
  BY DEF IInv, StoreOK, ViewsFresh
<1> QED
  BY <1>1, SetupInvariant, PTL

\* A switch of standard takes the equation of every channel it keeps along,
\* and leaves the kept part of the selection first and in its order.
THEOREM SwitchKeepsEquations == Spec => StandardKeepsEquations
<1>1. ASSUME IInv, [Next]_vars
      PROVE  [\A std \in Standards : ChooseStandard(std) =>
                /\ \A id \in IdsOf(store.channels) \cap IdsOf(store'.channels) :
                     Find(store'.channels, id).hz = Find(store.channels, id).hz
                /\ LET kept == Kept(store.selected, IdsOf(store'.channels))
                   IN  SubSeq(store'.selected, 1, Len(kept)) = kept]_vars
  <2> SUFFICES ASSUME NEW std \in Standards, ChooseStandard(std)
               PROVE  /\ \A id \in IdsOf(store.channels) \cap IdsOf(store'.channels) :
                           Find(store'.channels, id).hz = Find(store.channels, id).hz
                      /\ LET kept == Kept(store.selected, IdsOf(store'.channels))
                         IN  SubSeq(store'.selected, 1, Len(kept)) = kept
    OBVIOUS
  <2>1. std # store.std /\ store' = SetStandard(store, std)
    BY DEF ChooseStandard, StoreBecomes
  <2>2. StoreOK(store, typed, orphans)
    BY <1>1 DEF IInv
  <2> QED
    BY <2>1, <2>2, StandardOK
<1> QED
  BY <1>1, SetupInvariant, PTL DEF Spec, StandardKeepsEquations
=============================================================================
