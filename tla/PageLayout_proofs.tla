-------------------------- MODULE PageLayout_proofs --------------------------
(***************************************************************************)
(* Proofs about PageLayout for every set of table columns, every width of  *)
(* the window and any number of events: what a resize leaves of the widths,*)
(* what a reload brings back, and that no part of the document is lost or  *)
(* doubled, whatever is moved where.                                       *)
(***************************************************************************)
EXTENDS PageLayout, SequenceTheorems, WellFoundedInduction, TLAPS

-----------------------------------------------------------------------------
(* Widths: what the handle makes of two of them, and what is on the screen.*)
LEMMA SplitKeeps ==
  ASSUME NEW a \in Nat, NEW b \in Nat, NEW dx \in Int
  PROVE  LET w == Split(a, b, dx)
         IN  /\ w \in Int \X Int /\ Total(w) = a + b
             /\ a + b >= 2 * MinWidth => w[1] >= MinWidth /\ w[2] >= MinWidth
  BY RoomAssumption DEF Split, Total

LEMMA Quotient ==
  ASSUME NEW a \in Nat, NEW r \in Nat, NEW t \in Nat \ {0}
  PROVE  (a * r) \div t \in Nat
<1>1. a * r \in Nat OBVIOUS
<1> DEFINE x == a * r
<1>2. x \in Nat BY <1>1
<1> HIDE DEF x
<1>3. x \div t \in Nat BY <1>2
<1> QED BY <1>3 DEF x

\* The widths of a track that is not measured are ratios, positive ones.
Fits(grid) == grid.w \in Width /\ (~grid.px => Restorable(grid.w))

LEMMA RenderedFits ==
  ASSUME NEW p, Fits(p.grid), p.push \in {"none", "frame", "fault"}
  PROVE  Rendered(p) \in Width
<1>1. CASE p.grid.px BY <1>1 DEF Rendered, Fits
<1>2. CASE ~p.grid.px
  <2> DEFINE a == p.grid.w[1]
             b == p.grid.w[2]
             r == Room[p.push]
             t == Total(p.grid.w)
  <2>1. a \in Nat /\ b \in Nat /\ a > 0 /\ t = a + b
    BY <1>2 DEF Fits, Restorable, Width, Total
  <2>2. r \in Nat BY RoomAssumption
  <2>3. Rendered(p) = <<(a * r) \div t, (b * r) \div t>> BY <1>2 DEF Rendered
  <2> HIDE DEF a, b, r, t
  <2>4. t \in Nat \ {0} BY <2>1
  <2>5. (a * r) \div t \in Nat /\ (b * r) \div t \in Nat
    BY <2>1, <2>2, <2>4, Quotient
  <2> QED BY <2>3, <2>5 DEF Width
<1> QED BY <1>1, <1>2

(* Sums of lists of numbers, taken apart and put together.                 *)
\* Induction over the numbers, for a set of them.
LEMMA NatByOne ==
  ASSUME NEW S, 0 \in S, \A n \in Nat : n \in S => n + 1 \in S
  PROVE  \A n \in Nat : n \in S
<1> DEFINE R == OpToRel(<, Nat)
<1> HIDE DEF R
<1> SUFFICES ASSUME Nat \ S # {} PROVE FALSE
  OBVIOUS
<1>1. PICK x \in Nat \ S : \A y \in Nat \ S : ~(<<y, x>> \in R)
  BY WFMin, NatLessThanWellFounded DEF R
<1>2. x - 1 \in Nat /\ x - 1 < x
  BY <1>1
<1>3. <<x - 1, x>> \in R
  BY <1>1, <1>2 DEF OpToRel, R
<1>4. x - 1 \in S
  BY <1>1, <1>2, <1>3
<1> QED
  BY <1>1, <1>2, <1>4

SumUpTo(f, w, m) == [n \in 0..m |-> IF n = 0 THEN 0 ELSE f[n - 1] + w[n]]

\* The function Sum is defined by exists, whatever the length.
LEMMA SumExists ==
  ASSUME NEW w
  PROVE  \A m \in Nat : \E f : f = SumUpTo(f, w, m)
<1> DEFINE S == {m \in Nat : \E f : f = SumUpTo(f, w, m)}
<1>1. 0 \in S
  <2> DEFINE g == [n \in 0..0 |-> 0]
  <2>1. g = SumUpTo(g, w, 0)
    BY DEF SumUpTo
  <2> QED
    BY <2>1
<1>2. ASSUME NEW m \in Nat, m \in S PROVE m + 1 \in S
  <2>1. PICK f : f = SumUpTo(f, w, m)
    BY <1>2
  <2> DEFINE g == [n \in 0..(m + 1) |-> IF n = m + 1 THEN f[n - 1] + w[n] ELSE f[n]]
  <2>2. \A n \in 0..m : f[n] = IF n = 0 THEN 0 ELSE f[n - 1] + w[n]
    BY <2>1 DEF SumUpTo
  <2>3. \A n \in 0..m : g[n] = f[n]
    OBVIOUS
  <2>4. \A n \in 0..(m + 1) : g[n] = SumUpTo(g, w, m + 1)[n]
    <3> TAKE n \in 0..(m + 1)
    <3>1. CASE n = m + 1
      BY <3>1, <2>3 DEF SumUpTo
    <3>2. CASE n \in 0..m
      <4>1. g[n] = f[n] /\ (n # 0 => g[n - 1] = f[n - 1])
        BY <3>2, <2>3
      <4> HIDE DEF g
      <4> QED
        BY <3>2, <2>2, <4>1 DEF SumUpTo
    <3> QED
      BY <3>1, <3>2
  <2>5. g = SumUpTo(g, w, m + 1)
    BY <2>4 DEF SumUpTo
  <2> QED
    BY <2>5
<1> HIDE DEF S
<1>3. \A m \in Nat : m \in S
  BY <1>1, <1>2, NatByOne
<1> QED
  BY <1>3 DEF S

\* A function adds up the numbers of w.
AddsUp(f, w) ==
  /\ f[0] = 0
  /\ \A n \in 1..Len(w) : f[n] = f[n - 1] + w[n]

LEMMA SumBySteps ==
  ASSUME NEW w \in Seq(Nat)
  PROVE  \E f : Sum(w) = f[Len(w)] /\ AddsUp(f, w)
<1> DEFINE f == CHOOSE f : f = SumUpTo(f, w, Len(w))
<1>1. Sum(w) = f[Len(w)]
  BY DEF Sum, SumUpTo
<1>2. f = SumUpTo(f, w, Len(w))
  BY SumExists
<1> HIDE DEF f
<1>3. \A n \in 0..Len(w) : f[n] = IF n = 0 THEN 0 ELSE f[n - 1] + w[n]
  BY <1>2 DEF SumUpTo
<1> QED
  BY <1>1, <1>3 DEF AddsUp

LEMMA SumNat ==
  ASSUME NEW w \in Seq(Nat), NEW f, AddsUp(f, w)
  PROVE  \A n \in 0..Len(w) : f[n] \in Nat
<1> DEFINE S == {n \in Nat : n <= Len(w) => f[n] \in Nat}
<1>1. 0 \in S
  BY DEF AddsUp
<1>2. ASSUME NEW n \in Nat, n \in S PROVE n + 1 \in S
  <2>1. n + 1 <= Len(w) => f[n + 1] = f[n] + w[n + 1] /\ w[n + 1] \in Nat
    BY DEF AddsUp
  <2> QED
    BY <1>2, <2>1
<1> HIDE DEF S
<1>3. \A n \in Nat : n \in S
  BY <1>1, <1>2, NatByOne
<1> QED
  BY <1>3 DEF S

LEMMA SumShort ==
  ASSUME NEW w \in Seq(Nat)
  PROVE  /\ Len(w) = 0 => Sum(w) = 0
         /\ Len(w) = 1 => Sum(w) = w[1]
         /\ Len(w) = 2 => Sum(w) = w[1] + w[2]
         /\ Len(w) = 3 => Sum(w) = w[1] + w[2] + w[3]
<1>1. PICK f : Sum(w) = f[Len(w)] /\ AddsUp(f, w)
  BY SumBySteps
<1>2. f[0] = 0 /\ \A n \in 1..Len(w) : f[n] = f[n - 1] + w[n]
  BY <1>1 DEF AddsUp
<1>6. \A n \in 1..Len(w) : w[n] \in Nat
  OBVIOUS
<1>7. /\ Len(w) >= 1 => f[1] = f[0] + w[1] /\ w[1] \in Nat
      /\ Len(w) >= 2 => f[2] = f[1] + w[2] /\ w[2] \in Nat
      /\ Len(w) >= 3 => f[3] = f[2] + w[3] /\ w[3] \in Nat
  <2>1. Len(w) >= 1 => f[1] = f[1 - 1] + w[1] BY <1>2
  <2>2. Len(w) >= 2 => f[2] = f[2 - 1] + w[2] BY <1>2
  <2>3. Len(w) >= 3 => f[3] = f[3 - 1] + w[3] BY <1>2
  <2> QED BY <1>6, <2>1, <2>2, <2>3
<1>3. Len(w) = 1 => f[1] = w[1]
  BY <1>2, <1>7
<1>4. Len(w) = 2 => f[2] = w[1] + w[2]
  BY <1>2, <1>7
<1>5. Len(w) = 3 => f[3] = w[1] + w[2] + w[3]
  BY <1>2, <1>7
<1> QED
  BY <1>1, <1>2, <1>3, <1>4, <1>5

-----------------------------------------------------------------------------
(* The nodes of the document: a leaf, or the host with the middle column's *)
(* tool bar in it; and how often a part is among a few of them.            *)
Leaf == [kind : {"bar", "body", "place"}, of : Columns, kids : {<<>>}]
TheHost == [Part("host", "middle") EXCEPT !.kids = <<Bar("middle")>>]
Node == Leaf \cup {TheHost}
Body(c) == Part("body", c)
Place(c) == Part("place", c)
Is(n, x) == IF n = x THEN 1 ELSE 0

LEMMA Leaves ==
  ASSUME NEW c \in Columns
  PROVE  Bar(c) \in Leaf /\ Body(c) \in Leaf /\ Place(c) \in Leaf
  BY DEF Bar, Body, Place, Part, Leaf

LEMMA LeafIs ==
  ASSUME NEW n \in Leaf
  PROVE  n = Part(n.kind, n.of) /\ n.kids = <<>> /\ n # TheHost
  BY DEF Leaf, Part, TheHost

LEMMA HostIs ==
  /\ TheHost.kind = "host" /\ TheHost.of = "middle" /\ TheHost.kids = <<Bar("middle")>>
  /\ Part("host", "middle") \notin Leaf
  BY DEF TheHost, Part, Leaf

LEMMA TopsIs ==
  ASSUME NEW x \in Leaf
  PROVE  Tops(<<>>, x) = 0 /\ Tops(<<Bar("middle")>>, x) = Is(Bar("middle"), x)
<1>1. Tops(<<>>, x) = 0
  <2> DEFINE w == [i \in DOMAIN <<>> |-> Own(<<>>[i], x)]
  <2>1. w = <<>> OBVIOUS
  <2>2. Tops(<<>>, x) = Sum(w) BY DEF Tops
  <2> HIDE DEF w
  <2>3. w \in Seq(Nat) /\ Len(w) = 0 BY <2>1
  <2> QED BY <2>2, <2>3, SumShort
<1>2. Tops(<<Bar("middle")>>, x) = Is(Bar("middle"), x)
  <2> DEFINE b == Bar("middle")
             w == [i \in DOMAIN <<b>> |-> Own(<<b>>[i], x)]
  <2>1. b \in Leaf BY Leaves DEF Columns
  <2>2. Tops(<<b>>, x) = Sum(w) BY DEF Tops
  <2>3. Own(b, x) = Is(b, x) BY <2>1, LeafIs DEF Own, Is
  <2> HIDE DEF b
  <2>4. w = <<Is(b, x)>> BY <2>3
  <2> HIDE DEF w
  <2>5. Is(b, x) \in Nat BY DEF Is
  <2>6. w \in Seq(Nat) /\ Len(w) = 1 /\ w[1] = Is(b, x) BY <2>4, <2>5
  <2>7. Sum(w) = Is(b, x) BY <2>6, SumShort
  <2> QED BY <2>2, <2>7 DEF b
<1> QED BY <1>1, <1>2

LEMMA WeightIs ==
  ASSUME NEW x \in Leaf
  PROVE  /\ \A n \in Leaf : Weight(n, x) = Is(n, x)
         /\ Weight(TheHost, x) = Is(Bar("middle"), x)
<1>1. ASSUME NEW n \in Leaf PROVE Weight(n, x) = Is(n, x)
  <2>1. Tops(n.kids, x) = 0 BY LeafIs, TopsIs
  <2>2. Own(n, x) = Is(n, x) BY LeafIs DEF Own, Is
  <2> QED BY <2>1, <2>2 DEF Weight, Is
<1>2. Weight(TheHost, x) = Is(Bar("middle"), x)
  <2>1. Own(TheHost, x) = 0 BY HostIs DEF Own
  <2>2. Tops(TheHost.kids, x) = Is(Bar("middle"), x) BY HostIs, TopsIs
  <2> QED BY <2>1, <2>2 DEF Weight, Is
<1> QED BY <1>1, <1>2

LEMMA WithinIs ==
  ASSUME NEW x \in Leaf, NEW a \in Node, NEW b \in Node, NEW c \in Node
  PROVE  /\ Within(<<>>, x) = 0
         /\ Within(<<a>>, x) = Weight(a, x)
         /\ Within(<<a, b>>, x) = Weight(a, x) + Weight(b, x)
         /\ Within(<<a, b, c>>, x) = Weight(a, x) + Weight(b, x) + Weight(c, x)
<1> DEFINE A == Weight(a, x)
           B == Weight(b, x)
           C == Weight(c, x)
           Ws(s) == [i \in DOMAIN s |-> Weight(s[i], x)]
<1>1. A \in Nat /\ B \in Nat /\ C \in Nat
  BY WeightIs DEF Node, Is
<1>2. \A s : Within(s, x) = Sum(Ws(s))
  BY DEF Within
<1>3. Ws(<<>>) = <<>> /\ Ws(<<a>>) = <<A>>
  OBVIOUS
<1>4. Ws(<<a, b>>) = <<A, B>>
  OBVIOUS
<1>5. Ws(<<a, b, c>>) = <<A, B, C>>
  OBVIOUS
<1> HIDE DEF A, B, C, Ws
<1>6. Sum(<<A>>) = A /\ Sum(<<A, B>>) = A + B /\ Sum(<<A, B, C>>) = A + B + C
  <2>1. <<A>> \in Seq(Nat) /\ Len(<<A>>) = 1 BY <1>1
  <2>2. <<A, B>> \in Seq(Nat) /\ Len(<<A, B>>) = 2 BY <1>1
  <2>3. <<A, B, C>> \in Seq(Nat) /\ Len(<<A, B, C>>) = 3 BY <1>1
  <2> QED BY <2>1, <2>2, <2>3, SumShort
<1>7. Within(<<>>, x) = 0
  <2> DEFINE w == Ws(<<>>)
  <2>1. w = <<>> BY <1>3
  <2> HIDE DEF w
  <2>3. w \in Seq(Nat) /\ Len(w) = 0 BY <2>1
  <2>2. Sum(w) = 0 BY <2>3, SumShort
  <2> QED BY <1>2, <2>2 DEF w
<1> QED
  BY <1>2, <1>3, <1>4, <1>5, <1>6, <1>7 DEF A, B, C

KeptUpTo(f, s, T, m) ==
  [n \in 0..m |-> IF n = 0 THEN <<>>
                  ELSE IF s[n] \in T THEN Append(f[n - 1], s[n]) ELSE f[n - 1]]

\* The function Kept is defined by exists, for a list of any length.
LEMMA KeptExists ==
  ASSUME NEW s, NEW T
  PROVE  \A m \in Nat : \E f : f = KeptUpTo(f, s, T, m)
<1> DEFINE S == {m \in Nat : \E f : f = KeptUpTo(f, s, T, m)}
<1>1. 0 \in S
  <2> DEFINE g == [n \in 0..0 |-> <<>>]
  <2>1. g = KeptUpTo(g, s, T, 0)
    BY DEF KeptUpTo
  <2> QED
    BY <2>1
<1>2. ASSUME NEW m \in Nat, m \in S PROVE m + 1 \in S
  <2>1. PICK f : f = KeptUpTo(f, s, T, m)
    BY <1>2
  <2> DEFINE g == [n \in 0..(m + 1) |->
                     IF n = m + 1
                     THEN IF s[n] \in T THEN Append(f[n - 1], s[n]) ELSE f[n - 1]
                     ELSE f[n]]
  <2>2. \A n \in 0..m : f[n] = IF n = 0 THEN <<>>
                  ELSE IF s[n] \in T THEN Append(f[n - 1], s[n]) ELSE f[n - 1]
    BY <2>1 DEF KeptUpTo
  <2>3. \A n \in 0..m : g[n] = f[n]
    OBVIOUS
  <2>4. \A n \in 0..(m + 1) : g[n] = KeptUpTo(g, s, T, m + 1)[n]
    <3> TAKE n \in 0..(m + 1)
    <3>1. CASE n = m + 1
      BY <3>1, <2>3 DEF KeptUpTo
    <3>2. CASE n \in 0..m
      <4>1. g[n] = f[n] /\ (n # 0 => g[n - 1] = f[n - 1])
        BY <3>2, <2>3
      <4> HIDE DEF g
      <4> QED
        BY <3>2, <2>2, <4>1 DEF KeptUpTo
    <3> QED
      BY <3>1, <3>2
  <2>5. g = KeptUpTo(g, s, T, m + 1)
    BY <2>4 DEF KeptUpTo
  <2> QED
    BY <2>5
<1> HIDE DEF S
<1>3. \A m \in Nat : m \in S
  BY <1>1, <1>2, NatByOne
<1> QED
  BY <1>3 DEF S

LEMMA KeptBySteps ==
  ASSUME NEW S, NEW s \in Seq(S), NEW T
  PROVE  \E f : /\ Kept(s, T) = f[Len(s)]
                /\ f[0] = <<>>
                /\ \A n \in 1..Len(s) :
                     f[n] = IF s[n] \in T THEN Append(f[n - 1], s[n]) ELSE f[n - 1]
<1> DEFINE f == CHOOSE f : f = KeptUpTo(f, s, T, Len(s))
<1>1. Kept(s, T) = f[Len(s)]
  BY DEF Kept, KeptUpTo
<1>2. f = KeptUpTo(f, s, T, Len(s))
  BY KeptExists
<1> HIDE DEF f
<1>3. \A n \in 0..Len(s) : f[n] = IF n = 0 THEN <<>>
              ELSE IF s[n] \in T THEN Append(f[n - 1], s[n]) ELSE f[n - 1]
  BY <1>2 DEF KeptUpTo
<1> QED
  BY <1>1, <1>3


LEMMA Appending ==
  ASSUME NEW a, NEW b, NEW c
  PROVE  /\ Append(<<>>, a) = <<a>> /\ Append(<<a>>, b) = <<a, b>>
         /\ <<a>> \o <<b>> = <<a, b>> /\ <<a>> \o <<b, c>> = <<a, b, c>>
<1> DEFINE S == {a, b, c}
           e == <<>>
           u == <<a>>
           v == <<a, b>>
           w == <<a, b, c>>
           x == <<b>>
           y == <<b, c>>
<1>1. e \in Seq(S) /\ Len(e) = 0 /\ u \in Seq(S) /\ Len(u) = 1 /\ u[1] = a
  OBVIOUS
<1>2. v \in Seq(S) /\ Len(v) = 2 /\ v[1] = a /\ v[2] = b
  OBVIOUS
<1>3. w \in Seq(S) /\ Len(w) = 3 /\ w[1] = a /\ w[2] = b /\ w[3] = c
  OBVIOUS
<1>4. x \in Seq(S) /\ Len(x) = 1 /\ x[1] = b
  OBVIOUS
<1>5. y \in Seq(S) /\ Len(y) = 2 /\ y[1] = b /\ y[2] = c
  OBVIOUS
<1>6. a \in S /\ b \in S
  OBVIOUS
<1> HIDE DEF S, e, u, v, w, x, y
<1>7. Append(e, a) = u
  <2>1. /\ Append(e, a) \in Seq(S) /\ Len(Append(e, a)) = 1
        /\ Append(e, a)[1] = a
    BY <1>1, <1>6
  <2> QED BY <1>1, <2>1, SeqEqual
<1>9. u \o x = v
  <2>1. /\ u \o x \in Seq(S) /\ Len(u \o x) = 2
        /\ (u \o x)[1] = a /\ (u \o x)[2] = b
    <3> DEFINE t == u \o x
    <3>1. /\ t \in Seq(S) /\ Len(t) = Len(u) + Len(x)
          /\ \A i \in 1 .. Len(u) + Len(x) :
               t[i] = IF i <= Len(u) THEN u[i] ELSE x[i - Len(u)]
      BY <1>1, <1>4, ConcatProperties
    <3> HIDE DEF t
    <3>2. Len(t) = 2 /\ \A i \in 1 .. 2 : t[i] = IF i <= 1 THEN u[i] ELSE x[i - 1]
      BY <1>1, <1>4, <3>1
    <3>3. t[1] = a /\ t[2] = b
      BY <1>1, <1>4, <3>2
    <3> QED BY <3>1, <3>2, <3>3 DEF t
  <2> QED BY <1>2, <2>1, SeqEqual
<1>10. u \o y = w
  <2>1. /\ u \o y \in Seq(S) /\ Len(u \o y) = 3
        /\ (u \o y)[1] = a /\ (u \o y)[2] = b /\ (u \o y)[3] = c
    <3> DEFINE t == u \o y
    <3>1. /\ t \in Seq(S) /\ Len(t) = Len(u) + Len(y)
          /\ \A i \in 1 .. Len(u) + Len(y) :
               t[i] = IF i <= Len(u) THEN u[i] ELSE y[i - Len(u)]
      BY <1>1, <1>5, ConcatProperties
    <3> HIDE DEF t
    <3>2. Len(t) = 3 /\ \A i \in 1 .. 3 : t[i] = IF i <= 1 THEN u[i] ELSE y[i - 1]
      BY <1>1, <1>5, <3>1
    <3>3. t[1] = a /\ t[2] = b /\ t[3] = c
      BY <1>1, <1>5, <3>2
    <3> QED BY <3>1, <3>2, <3>3 DEF t
  <2> QED BY <1>3, <2>1, SeqEqual
<1>8. Append(u, b) = v
  <2>1. Append(u, b) = u \o <<b>> BY <1>1, <1>6, AppendIsConcat
  <2> QED BY <1>9, <2>1 DEF x
<1> QED BY <1>7, <1>8, <1>9, <1>10 DEF e, u, v, w, x, y

\* Of two or three elements the ones in T are kept.
LEMMA KeptOfTwo ==
  ASSUME NEW a, NEW b, NEW T
  PROVE  /\ a \in T /\ b \notin T => Kept(<<a, b>>, T) = <<a>>
         /\ a \notin T /\ b \in T => Kept(<<a, b>>, T) = <<b>>
<1> DEFINE s == <<a, b>>
           S == {a, b}
<1>1. s \in Seq(S) /\ Len(s) = 2 /\ s[1] = a /\ s[2] = b
  OBVIOUS
<1> HIDE DEF s, S
<1>0. s \in Seq(S) BY <1>1
<1>2. PICK f : /\ Kept(s, T) = f[Len(s)]
               /\ f[0] = <<>>
               /\ \A n \in 1..Len(s) :
                    f[n] = IF s[n] \in T THEN Append(f[n - 1], s[n]) ELSE f[n - 1]
  BY <1>0, KeptBySteps
<1>3. f[1] = IF a \in T THEN Append(<<>>, a) ELSE <<>>
  <2>1. f[1] = IF s[1] \in T THEN Append(f[1 - 1], s[1]) ELSE f[1 - 1] BY <1>1, <1>2
  <2>2. f[1] = IF a \in T THEN Append(f[0], a) ELSE f[0] BY <1>1, <2>1
  <2> QED BY Zenon, <1>2, <2>2
<1>4. f[2] = IF b \in T THEN Append(f[1], b) ELSE f[1]
  <2>1. f[2] = IF s[2] \in T THEN Append(f[2 - 1], s[2]) ELSE f[2 - 1] BY <1>1, <1>2
  <2> QED BY <1>1, <2>1
<1>5. Append(<<>>, a) = <<a>> /\ Append(<<>>, b) = <<b>>
  BY Appending
<1>6. Kept(s, T) = f[2] BY <1>1, <1>2
<1> QED BY <1>3, <1>4, <1>5, <1>6 DEF s

LEMMA KeptOfThree ==
  ASSUME NEW a, NEW b, NEW c, NEW T
  PROVE  LET k == Kept(<<a, b, c>>, T)
         IN  /\ a \in T /\ b \notin T /\ c \notin T => k = <<a>>
             /\ a \notin T /\ b \in T /\ c \notin T => k = <<b>>
             /\ a \in T /\ b \notin T /\ c \in T => k = <<a, c>>
             /\ a \notin T /\ b \in T /\ c \in T => k = <<b, c>>
<1> DEFINE s == <<a, b, c>>
           S == {a, b, c}
<1>1. s \in Seq(S) /\ Len(s) = 3 /\ s[1] = a /\ s[2] = b /\ s[3] = c
  OBVIOUS
<1> HIDE DEF s, S
<1>0. s \in Seq(S) BY <1>1
<1>2. PICK f : /\ Kept(s, T) = f[Len(s)]
               /\ f[0] = <<>>
               /\ \A n \in 1..Len(s) :
                    f[n] = IF s[n] \in T THEN Append(f[n - 1], s[n]) ELSE f[n - 1]
  BY <1>0, KeptBySteps
<1>3. f[1] = IF a \in T THEN Append(<<>>, a) ELSE <<>>
  <2>1. f[1] = IF s[1] \in T THEN Append(f[1 - 1], s[1]) ELSE f[1 - 1] BY <1>1, <1>2
  <2>2. f[1] = IF a \in T THEN Append(f[0], a) ELSE f[0] BY <1>1, <2>1
  <2> QED BY Zenon, <1>2, <2>2
<1>4. f[2] = IF b \in T THEN Append(f[1], b) ELSE f[1]
  <2>1. f[2] = IF s[2] \in T THEN Append(f[2 - 1], s[2]) ELSE f[2 - 1] BY <1>1, <1>2
  <2> QED BY <1>1, <2>1
<1>5. f[3] = IF c \in T THEN Append(f[2], c) ELSE f[2]
  <2>1. f[3] = IF s[3] \in T THEN Append(f[3 - 1], s[3]) ELSE f[3 - 1] BY <1>1, <1>2
  <2> QED BY <1>1, <2>1
<1>6. /\ Append(<<>>, a) = <<a>> /\ Append(<<>>, b) = <<b>>
      /\ Append(<<a>>, c) = <<a, c>> /\ Append(<<b>>, c) = <<b, c>>
  BY Appending
<1>7. Kept(s, T) = f[3] BY <1>1, <1>2
<1> QED BY <1>3, <1>4, <1>5, <1>6, <1>7 DEF s

-----------------------------------------------------------------------------
(* The document: what is in a column that stands, and in one popped out    *)
(* and its panel.                                                          *)
Tracks == {"left", "right"}
Contents(c) == IF c = "left" THEN <<Body(c)>> ELSE <<TheHost, Body(c)>>
Standing(c) ==
  IF c = "left" THEN {<<Bar(c), Body(c)>>}
  ELSE {<<TheHost, Bar(c), Body(c)>>, <<Bar(c), TheHost, Body(c)>>}
ColumnIs(c, col, panel, out) ==
  IF out THEN col = <<Bar(c), Place(c)>> /\ panel = Contents(c)
  ELSE col \in Standing(c) /\ panel = <<>>
Function(f) == f = [c \in Columns |-> f[c]]
Doc(p) ==
  /\ Function(p.cols) /\ Function(p.panel)
  /\ p.cols["middle"] = <<>> /\ p.panel["middle"] = <<>>
  /\ p.popped \subseteq Tracks
  /\ \A c \in Tracks : ColumnIs(c, p.cols[c], p.panel[c], c \in p.popped)

LEMMA Parts ==
  ASSUME NEW c \in Columns
  PROVE  /\ Bar(c) \in ToolBars /\ Body(c) \notin ToolBars /\ Place(c) \notin ToolBars
         /\ TheHost \notin ToolBars /\ Bar(c) # Place(c)
  BY DEF ToolBars, Bar, Body, Place, Part, TheHost

LEMMA TwoSet == ASSUME NEW a, NEW b PROVE ToSet(<<a, b>>) = {a, b}
  BY DEF ToSet
LEMMA ThreeSet == ASSUME NEW a, NEW b, NEW c PROVE ToSet(<<a, b, c>>) = {a, b, c}
  BY DEF ToSet

\* A column popped out: the tool bar and a placeholder stay, the rest goes.
LEMMA PoppedOut ==
  ASSUME NEW c \in Tracks, NEW s \in Standing(c)
  PROVE  /\ Dropped(s, ToolBars) = Contents(c)
         /\ Append(Kept(s, ToolBars), Place(c)) = <<Bar(c), Place(c)>>
<1> DEFINE a == Bar(c)
           b == Body(c)
           h == TheHost
<1>1. c \in Columns BY DEF Tracks, Columns
<1>2. a \in ToolBars /\ b \notin ToolBars /\ h \notin ToolBars BY <1>1, Parts
<1>3. Dropped(s, ToolBars) = Contents(c) /\ Kept(s, ToolBars) = <<a>>
  <2>1. CASE s = <<a, b>>
    <3>1. Kept(s, ToolBars) = <<a>> BY <1>2, <2>1, KeptOfTwo
    <3>2. ToSet(s) \ ToolBars = {b} BY <1>2, <2>1, TwoSet
    <3>3. a \notin {b} BY <1>2
    <3> HIDE DEF a, b
    <3>4. Dropped(s, ToolBars) = <<b>> BY <2>1, <3>2, <3>3, KeptOfTwo DEF Dropped
    <3>5. c = "left"
      <4>1. c # "left" => Len(s) = 3 BY DEF Standing
      <4>2. Len(s) = 2 BY <2>1
      <4> QED BY <4>1, <4>2
    <3> QED BY <3>1, <3>4, <3>5 DEF Contents, b
  <2>2. CASE c # "left" /\ s = <<h, a, b>>
    <3>1. Kept(s, ToolBars) = <<a>> BY <1>2, <2>2, KeptOfThree
    <3>2. ToSet(s) \ ToolBars = {h, b} BY <1>2, <2>2, ThreeSet
    <3>3. a \notin {h, b} BY <1>2
    <3> HIDE DEF a, b, h
    <3>4. Dropped(s, ToolBars) = <<h, b>> BY <2>2, <3>2, <3>3, KeptOfThree DEF Dropped
    <3> QED BY <2>2, <3>1, <3>4 DEF Contents, b, h
  <2>3. CASE c # "left" /\ s = <<a, h, b>>
    <3>1. Kept(s, ToolBars) = <<a>> BY <1>2, <2>3, KeptOfThree
    <3>2. ToSet(s) \ ToolBars = {h, b} BY <1>2, <2>3, ThreeSet
    <3>3. a \notin {h, b} BY <1>2
    <3> HIDE DEF a, b, h
    <3>4. Dropped(s, ToolBars) = <<h, b>> BY <2>3, <3>2, <3>3, KeptOfThree DEF Dropped
    <3> QED BY <2>3, <3>1, <3>4 DEF Contents, b, h
  <2> QED BY <2>1, <2>2, <2>3 DEF Standing
<1>4. Append(<<a>>, Place(c)) = <<a, Place(c)>>
  BY Appending
<1> QED BY <1>3, <1>4

\* One snapped back: what comes back is below the tool bar.
LEMMA SnappedBack ==
  ASSUME NEW c \in Tracks
  PROVE  Dropped(<<Bar(c), Place(c)>>, {Place(c)}) \o Contents(c) \in Standing(c)
<1> DEFINE a == Bar(c)
           b == Body(c)
           z == Place(c)
           h == TheHost
<1>1. a # z
  <2>1. c \in Columns BY DEF Tracks, Columns
  <2> QED BY <2>1, Parts
<1>2. ToSet(<<a, z>>) \ {z} = {a} BY <1>1, TwoSet
<1> HIDE DEF a, b, z, h
<1>3. Dropped(<<a, z>>, {z}) = <<a>> BY <1>1, <1>2, KeptOfTwo DEF Dropped
<1>4. <<a>> \o <<b>> = <<a, b>> /\ <<a>> \o <<h, b>> = <<a, h, b>>
  BY Appending
<1>5. Contents(c) = IF c = "left" THEN <<b>> ELSE <<h, b>> BY DEF Contents, b, h
<1>6. Standing(c) = IF c = "left" THEN {<<a, b>>} ELSE {<<h, a, b>>, <<a, h, b>>}
  BY DEF Standing, a, b, h
<1>7. Dropped(<<a, z>>, {z}) \o Contents(c) \in Standing(c)
  BY <1>3, <1>4, <1>5, <1>6
<1> QED BY <1>7 DEF a, z

\* How often a part is in such a document.
Copies(p, x) == Placed(p.cols, x) + Placed(p.panel, x)

LEMMA CopiesInDoc ==
  ASSUME NEW p, Doc(p), NEW x \in Leaf
  PROVE  Copies(p, x) =
           Is(Bar("left"), x) + Is(Body("left"), x) + Is(Bar("middle"), x)
             + Is(Bar("right"), x) + Is(Body("right"), x)
             + (IF "left" \in p.popped THEN Is(Place("left"), x) ELSE 0)
             + (IF "right" \in p.popped THEN Is(Place("right"), x) ELSE 0)
<1> DEFINE In(c) == Within(p.cols[c], x) + Within(p.panel[c], x)
<1>1. \A c \in Tracks : Bar(c) \in Node /\ Body(c) \in Node /\ Place(c) \in Node
                        /\ Weight(Bar(c), x) = Is(Bar(c), x)
                        /\ Weight(Body(c), x) = Is(Body(c), x)
                        /\ Weight(Place(c), x) = Is(Place(c), x)
  BY Leaves, WeightIs DEF Tracks, Columns, Node
<1>2. TheHost \in Node /\ Weight(TheHost, x) = Is(Bar("middle"), x)
  BY WeightIs DEF Node
<1>3. Within(<<>>, x) = 0
  BY <1>2, WithinIs
<1>4. \A n, m : Is(n, m) \in {0, 1}
  BY DEF Is
<1>5. ASSUME NEW c \in Tracks
      PROVE  /\ Within(p.cols[c], x) \in Nat /\ Within(p.panel[c], x) \in Nat
             /\ In(c) = Is(Bar(c), x) + Is(Body(c), x)
                  + (IF c = "left" THEN 0 ELSE Is(Bar("middle"), x))
                  + (IF c \in p.popped THEN Is(Place(c), x) ELSE 0)
  <2> DEFINE a == Bar(c)
             b == Body(c)
             z == Place(c)
             h == TheHost
             m == Is(Bar("middle"), x)
  <2>1. ColumnIs(c, p.cols[c], p.panel[c], c \in p.popped) BY DEF Doc
  <2>2. /\ a \in Node /\ b \in Node /\ z \in Node /\ h \in Node
        /\ Weight(a, x) = Is(a, x) /\ Weight(b, x) = Is(b, x) /\ Weight(z, x) = Is(z, x)
        /\ Weight(h, x) = m
    BY <1>1, <1>2
  <2>3. /\ Is(a, x) \in {0, 1} /\ Is(b, x) \in {0, 1} /\ Is(z, x) \in {0, 1}
        /\ m \in {0, 1}
    BY <1>4
  <2>4. Contents(c) = (IF c = "left" THEN <<b>> ELSE <<h, b>>)
        /\ Standing(c) = IF c = "left" THEN {<<a, b>>} ELSE {<<h, a, b>>, <<a, h, b>>}
    BY DEF Contents, Standing
  <2> HIDE DEF a, b, z, h, m
  <2>5. /\ Within(<<a, z>>, x) = Is(a, x) + Is(z, x) /\ Within(<<b>>, x) = Is(b, x)
        /\ Within(<<h, b>>, x) = m + Is(b, x) /\ Within(<<a, b>>, x) = Is(a, x) + Is(b, x)
        /\ Within(<<h, a, b>>, x) = m + Is(a, x) + Is(b, x)
        /\ Within(<<a, h, b>>, x) = Is(a, x) + m + Is(b, x)
    <3>1. \A n, k, l \in Node :
            /\ Within(<<n>>, x) = Weight(n, x)
            /\ Within(<<n, k>>, x) = Weight(n, x) + Weight(k, x)
            /\ Within(<<n, k, l>>, x) = Weight(n, x) + Weight(k, x) + Weight(l, x)
      BY WithinIs
    <3>2. /\ Within(<<a, z>>, x) = Weight(a, x) + Weight(z, x)
          /\ Within(<<b>>, x) = Weight(b, x)
          /\ Within(<<h, b>>, x) = Weight(h, x) + Weight(b, x)
          /\ Within(<<a, b>>, x) = Weight(a, x) + Weight(b, x)
      BY <2>2, <3>1
    <3>3. /\ Within(<<h, a, b>>, x) = Weight(h, x) + Weight(a, x) + Weight(b, x)
          /\ Within(<<a, h, b>>, x) = Weight(a, x) + Weight(h, x) + Weight(b, x)
      BY <2>2, <3>1
    <3> QED BY <2>2, <3>2, <3>3
  <2>6. CASE c \in p.popped
    <3>1. p.cols[c] = <<a, z>> /\ p.panel[c] = IF c = "left" THEN <<b>> ELSE <<h, b>>
      BY <2>1, <2>4, <2>6 DEF ColumnIs, a, z
    <3>2. /\ Within(p.cols[c], x) = Is(a, x) + Is(z, x)
          /\ Within(p.panel[c], x) = (IF c = "left" THEN 0 ELSE m) + Is(b, x)
      BY <2>3, <2>5, <3>1
    <3>3. In(c) = Is(a, x) + Is(b, x) + (IF c = "left" THEN 0 ELSE m) + Is(z, x)
      BY <2>3, <3>2
    <3> QED BY <2>3, <2>6, <3>2, <3>3 DEF a, b, z, m
  <2>7. CASE c \notin p.popped
    <3>1. /\ p.panel[c] = <<>>
          /\ p.cols[c] \in IF c = "left" THEN {<<a, b>>} ELSE {<<h, a, b>>, <<a, h, b>>}
      BY <2>1, <2>4, <2>7 DEF ColumnIs
    <3>2. /\ Within(p.cols[c], x) = Is(a, x) + Is(b, x) + IF c = "left" THEN 0 ELSE m
          /\ Within(p.panel[c], x) = 0
      BY <1>3, <2>3, <2>5, <3>1
    <3>3. In(c) = Is(a, x) + Is(b, x) + (IF c = "left" THEN 0 ELSE m) + 0
      BY <2>3, <3>2
    <3> QED BY <2>3, <2>7, <3>2, <3>3 DEF a, b, m
  <2> QED BY <2>6, <2>7
<1>6. Within(p.cols["middle"], x) = 0 /\ Within(p.panel["middle"], x) = 0
  BY <1>3 DEF Doc
<1>7. "left" \in Tracks /\ "right" \in Tracks BY DEF Tracks
<1>8. /\ Within(p.cols["left"], x) \in Nat /\ Within(p.panel["left"], x) \in Nat
      /\ Within(p.cols["right"], x) \in Nat /\ Within(p.panel["right"], x) \in Nat
  BY <1>5, <1>7
<1>9. Copies(p, x) = In("left") + In("right")
  BY <1>6, <1>8 DEF Copies, Placed
<1>10. /\ In("left") = Is(Bar("left"), x) + Is(Body("left"), x)
            + (IF "left" \in p.popped THEN Is(Place("left"), x) ELSE 0)
       /\ In("right") = Is(Bar("right"), x) + Is(Body("right"), x) + Is(Bar("middle"), x)
            + (IF "right" \in p.popped THEN Is(Place("right"), x) ELSE 0)
  BY <1>4, <1>5, <1>7
<1> HIDE DEF In
<1>11. /\ Is(Bar("left"), x) \in Nat /\ Is(Body("left"), x) \in Nat
       /\ Is(Bar("middle"), x) \in Nat /\ Is(Bar("right"), x) \in Nat
       /\ Is(Body("right"), x) \in Nat /\ Is(Place("left"), x) \in Nat
       /\ Is(Place("right"), x) \in Nat
  BY <1>4
<1> QED BY <1>9, <1>10, <1>11

LEMMA Counted ==
  ASSUME NEW p, Doc(p)
  PROVE  /\ \A c \in Columns : Copies(p, Bar(c)) = 1
         /\ \A c \in Tracks : Copies(p, Body(c)) = 1
         /\ \A c \in Columns : Copies(p, Place(c)) = IF c \in p.popped THEN 1 ELSE 0
<1>1. \A c, d : /\ Is(Bar(c), Bar(d)) = (IF c = d THEN 1 ELSE 0)
                /\ Is(Body(c), Body(d)) = (IF c = d THEN 1 ELSE 0)
                /\ Is(Place(c), Place(d)) = (IF c = d THEN 1 ELSE 0)
                /\ Is(Bar(c), Body(d)) = 0 /\ Is(Bar(c), Place(d)) = 0
                /\ Is(Body(c), Bar(d)) = 0 /\ Is(Body(c), Place(d)) = 0
                /\ Is(Place(c), Bar(d)) = 0 /\ Is(Place(c), Body(d)) = 0
  BY DEF Is, Bar, Body, Place, Part
<1>2. \A c \in Columns : Bar(c) \in Leaf /\ Body(c) \in Leaf /\ Place(c) \in Leaf
  BY Leaves
<1>3. ASSUME NEW c \in Columns PROVE Copies(p, Bar(c)) = 1
  BY <1>1, <1>2, CopiesInDoc DEF Columns
<1>4. ASSUME NEW c \in Tracks PROVE Copies(p, Body(c)) = 1
  BY <1>1, <1>2, CopiesInDoc DEF Columns, Tracks
<1>5. ASSUME NEW c \in Columns
      PROVE  Copies(p, Place(c)) = IF c \in p.popped THEN 1 ELSE 0
  BY <1>1, <1>2, CopiesInDoc DEF Columns, Doc, Tracks
<1> QED BY <1>3, <1>4, <1>5

-----------------------------------------------------------------------------
(* What an operation may change of the page.                               *)
PageFields == {"cols", "panel", "popped", "maxed", "active", "frame", "fault",
               "push", "grid", "menu", "table"}
PrefFields == {"frame", "fault", "widths", "shown"}

Changes(p, q, S) ==
  /\ DOMAIN p = PageFields /\ DOMAIN q = PageFields
  /\ \A k \in PageFields \ S : q[k] = p[k]

LEMMA LayoutChanges ==
  ASSUME NEW p, DOMAIN p = PageFields, NEW f
  PROVE  /\ Changes(p, Refreshed(p, f), {"grid"})
         /\ Refreshed(p, f).grid = [px |-> FALSE, w |-> Ratios(f)]
         /\ Changes(p, ClearMaximized(p), {"active"})
         /\ ClearMaximized(p).active =
              p.active \ UNION {FirstBar(p, d) : d \in Columns}
         /\ Changes(p, Restored(p), {"active", "maxed"})
         /\ Restored(p).active = ClearMaximized(p).active /\ Restored(p).maxed = "none"
         /\ Changes(p, Outside(p), {"menu"}) /\ Outside(p).menu = NoMenu
<1>1. /\ Changes(p, Refreshed(p, f), {"grid"})
      /\ Refreshed(p, f).grid = [px |-> FALSE, w |-> Ratios(f)]
  BY DEF Changes, Refreshed, PageFields
<1>2. /\ Changes(p, ClearMaximized(p), {"active"})
      /\ ClearMaximized(p).active =
           p.active \ UNION {FirstBar(p, d) : d \in Columns}
  <2> DEFINE U == UNION {FirstBar(p, d) : d \in Columns}
  <2>1. ClearMaximized(p) = [p EXCEPT !.active = @ \ U] BY DEF ClearMaximized
  <2> HIDE DEF U
  <2>2. /\ Changes(p, ClearMaximized(p), {"active"})
        /\ ClearMaximized(p).active = p.active \ U
    BY <2>1 DEF Changes, PageFields
  <2> QED BY <2>2 DEF U
<1>3. /\ Changes(p, Restored(p), {"active", "maxed"})
      /\ Restored(p).active = ClearMaximized(p).active /\ Restored(p).maxed = "none"
  <2> DEFINE q == ClearMaximized(p)
  <2>1. Restored(p) = [q EXCEPT !.maxed = "none"] BY DEF Restored
  <2>2. Changes(p, q, {"active"}) BY <1>2
  <2> HIDE DEF q
  <2>3. /\ Changes(p, Restored(p), {"active", "maxed"})
        /\ Restored(p).active = q.active /\ Restored(p).maxed = "none"
    BY <2>1, <2>2 DEF Changes, PageFields
  <2> QED BY <2>3 DEF q
<1>4. Changes(p, Outside(p), {"menu"}) /\ Outside(p).menu = NoMenu
  BY DEF Changes, Outside, PageFields
<1> QED BY <1>1, <1>2, <1>3, <1>4

\* A page is whole: everything is in the document, what is marked are columns,
\* and what is maximised is one that has its children.
Marked(p) == p.active \subseteq Columns /\ p.maxed \in {"none"} \cup (Tracks \ p.popped)
Whole(p) == Doc(p) /\ Marked(p)

LEMMA WholeSame ==
  ASSUME NEW p, Whole(p), NEW q, Changes(p, q, PageFields \ {"cols", "panel", "popped",
                                                             "active", "maxed"})
  PROVE  Whole(q)
<1>1. /\ q.cols = p.cols /\ q.panel = p.panel /\ q.popped = p.popped
      /\ q.active = p.active /\ q.maxed = p.maxed
  BY DEF Changes, PageFields
<1> QED BY <1>1 DEF Whole, Doc, Marked

\* The columns and panels with one of each replaced.
LEMMA Replaced ==
  ASSUME NEW p, Doc(p), NEW c \in Tracks, NEW col, NEW panel, NEW q,
         q.cols = [p.cols EXCEPT ![c] = col], q.panel = [p.panel EXCEPT ![c] = panel],
         q.popped \subseteq Tracks, q.popped \ {c} = p.popped \ {c},
         ColumnIs(c, col, panel, c \in q.popped)
  PROVE  Doc(q)
<1>1. c # "middle" /\ c \in Columns /\ "middle" \in Columns /\ Tracks \subseteq Columns
  BY DEF Tracks, Columns
<1> DEFINE C == p.cols
           P == p.panel
<1>2. C = [d \in Columns |-> C[d]] /\ P = [d \in Columns |-> P[d]]
  BY DEF Doc, Function
<1> HIDE DEF C, P
<1>3. /\ q.cols = [d \in Columns |-> IF d = c THEN col ELSE C[d]]
      /\ q.panel = [d \in Columns |-> IF d = c THEN panel ELSE P[d]]
  BY <1>2 DEF C, P
<1>4. Function(q.cols) /\ Function(q.panel)
  BY <1>3 DEF Function
<1>5. q.cols["middle"] = <<>> /\ q.panel["middle"] = <<>>
  BY <1>1, <1>3 DEF Doc, C, P
<1>6. ASSUME NEW d \in Tracks
      PROVE  ColumnIs(d, q.cols[d], q.panel[d], d \in q.popped)
  <2>1. CASE d = c
    <3>1. q.cols[d] = col /\ q.panel[d] = panel BY <1>1, <1>3, <2>1
    <3> QED BY <2>1, <3>1
  <2>2. CASE d # c
    <3>1. q.cols[d] = p.cols[d] /\ q.panel[d] = p.panel[d]
      BY <1>1, <1>3, <2>2 DEF C, P
    <3>2. (d \in q.popped) = (d \in p.popped) BY <2>2
    <3> QED BY <3>1, <3>2 DEF Doc
  <2> QED BY <2>1, <2>2
<1> HIDE DEF C, P
<1> QED BY <1>4, <1>5, <1>6 DEF Doc

LEMMA ColumnsWhole ==
  ASSUME NEW p, Whole(p), DOMAIN p = PageFields, NEW c \in Columns
  PROVE  /\ Whole(Restored(p)) /\ Changes(p, Restored(p), {"active", "maxed"})
         /\ c \notin p.popped => Whole(Maximize(p, c))
         /\ Changes(p, Maximize(p, c), {"active", "maxed"})
         /\ Whole(PopOut(p, c))
         /\ Changes(p, PopOut(p, c), {"active", "maxed", "cols", "panel", "popped"})
         /\ c \in p.popped => Whole(SnapBack(p, c))
         /\ Changes(p, SnapBack(p, c), {"cols", "panel", "popped"})
<1> DEFINE k == ClearMaximized(p)
<1>0. Changes(p, p, {}) BY DEF Changes
<1>1. Changes(p, k, {"active"}) /\ k.active \subseteq Columns
  <2>1. \A q, d : FirstBar(q, d) \subseteq Columns BY DEF FirstBar
  <2>2. UNION {FirstBar(p, d) : d \in Columns} \subseteq Columns BY <2>1
  <2>3. /\ Changes(p, k, {"active"})
        /\ k.active = p.active \ UNION {FirstBar(p, d) : d \in Columns}
    BY LayoutChanges
  <2> QED BY <2>2, <2>3 DEF Whole, Marked
<1>2. Whole(Restored(p)) /\ Changes(p, Restored(p), {"active", "maxed"})
      /\ Restored(p).maxed = "none"
  <2> DEFINE q == Restored(p)
  <2>1. Changes(p, q, {"active", "maxed"}) /\ q.active \subseteq Columns /\ q.maxed = "none"
    BY <1>1, LayoutChanges
  <2> HIDE DEF q
  <2>2. q.cols = p.cols /\ q.panel = p.panel /\ q.popped = p.popped
    BY <2>1 DEF Changes, PageFields
  <2>3. Whole(q) BY <2>1, <2>2 DEF Whole, Doc, Marked
  <2> QED BY <2>1, <2>3 DEF q
<1>3. /\ c \notin p.popped => Whole(Maximize(p, c))
      /\ Changes(p, Maximize(p, c), {"active", "maxed"})
  <2> DEFINE m == [k EXCEPT !.maxed = c, !.active = @ \cup FirstBar(k, c)]
  <2>1. Maximize(p, c) = IF c = "middle" THEN p ELSE m BY DEF Maximize
  <2>2. FirstBar(k, c) \subseteq Columns BY DEF FirstBar
  <2> HIDE DEF k
  <2>3. /\ Changes(p, m, {"active", "maxed"}) /\ m.maxed = c
        /\ m.active = k.active \cup FirstBar(k, c)
    BY <1>1 DEF Changes, PageFields
  <2> HIDE DEF m
  <2>4. m.cols = p.cols /\ m.panel = p.panel /\ m.popped = p.popped
    BY <2>3 DEF Changes, PageFields
  <2>5. c \notin p.popped /\ c # "middle" => Whole(m)
    BY <1>1, <2>2, <2>3, <2>4 DEF Whole, Doc, Marked, Tracks, Columns
  <2>6. Changes(p, p, {"active", "maxed"}) BY DEF Changes
  <2> QED BY <2>1, <2>3, <2>5, <2>6
<1>4. /\ Whole(PopOut(p, c))
      /\ Changes(p, PopOut(p, c), {"active", "maxed", "cols", "panel", "popped"})
  <2> DEFINE q == IF HasMaximized(p) THEN Restored(p) ELSE p
  <2>1. Whole(q) /\ Changes(p, q, {"active", "maxed"}) /\ q.maxed = "none"
    BY <1>0, <1>2 DEF HasMaximized, Changes
  <2> DEFINE x == Dropped(q.cols[c], ToolBars)
             y == Append(Kept(q.cols[c], ToolBars), Place(c))
             r == [q EXCEPT !.panel[c] = x, !.cols[c] = y, !.popped = @ \cup {c}]
  <2>2. PopOut(p, c) = IF c \in p.popped \/ c = "middle" THEN p ELSE r
    BY Zenon DEF PopOut, Place
  <2> HIDE DEF q
  <2>3. CASE c \in p.popped \/ c = "middle"
    BY <2>2, <2>3 DEF Changes
  <2>4. CASE ~(c \in p.popped \/ c = "middle")
    <3>1. c \in Tracks BY <2>4 DEF Tracks, Columns
    <3>2. q.popped = p.popped /\ DOMAIN q = PageFields BY <2>1 DEF Changes, PageFields
    <3>3. ColumnIs(c, q.cols[c], q.panel[c], FALSE)
      <4>1. (c \in q.popped) = FALSE BY <2>4, <3>2
      <4> QED BY <2>1, <3>1, <4>1 DEF Whole, Doc
    <3>4. q.cols[c] \in Standing(c) BY <3>3 DEF ColumnIs
    <3>5. x = Contents(c) /\ y = <<Bar(c), Place(c)>> BY <3>1, <3>4, PoppedOut
    <3> HIDE DEF x, y
    <3>6. ColumnIs(c, y, x, c \in q.popped \cup {c}) BY <3>5 DEF ColumnIs
    <3>7. /\ Changes(q, r, {"cols", "panel", "popped"})
          /\ r.cols = [q.cols EXCEPT ![c] = y] /\ r.panel = [q.panel EXCEPT ![c] = x]
          /\ r.popped = q.popped \cup {c}
      BY <3>2 DEF Changes, PageFields
    <3> HIDE DEF r
    <3>12. r.popped \subseteq Tracks /\ r.popped \ {c} = q.popped \ {c}
           /\ ColumnIs(c, y, x, c \in r.popped)
      BY <2>1, <3>1, <3>6, <3>7 DEF Whole, Doc
    <3>13. Doc(q) BY <2>1 DEF Whole
    <3>8. Doc(r) BY <3>1, <3>7, <3>12, <3>13, Replaced
    <3>9. r.active = q.active /\ r.maxed = "none"
      BY <2>1, <3>7 DEF Changes, PageFields
    <3>10. Whole(r) BY <2>1, <3>8, <3>9 DEF Whole, Marked
    <3>11. Changes(p, r, {"active", "maxed", "cols", "panel", "popped"})
      BY <2>1, <3>7 DEF Changes
    <3> QED BY <2>2, <2>4, <3>10, <3>11
  <2> QED BY <2>3, <2>4
<1>5. /\ c \in p.popped => Whole(SnapBack(p, c))
      /\ Changes(p, SnapBack(p, c), {"cols", "panel", "popped"})
  <2> DEFINE y == Dropped(p.cols[c], {Place(c)}) \o p.panel[c]
             r == [p EXCEPT !.cols[c] = y, !.panel[c] = <<>>, !.popped = @ \ {c}]
  <2>1. SnapBack(p, c) = r BY DEF SnapBack, Place
  <2>2. c \in p.popped => y \in Standing(c) /\ c \in Tracks
    <3> SUFFICES ASSUME c \in p.popped PROVE y \in Standing(c) /\ c \in Tracks
      OBVIOUS
    <3>1. c \in Tracks BY DEF Whole, Doc
    <3>2. ColumnIs(c, p.cols[c], p.panel[c], TRUE)
      <4>1. (c \in p.popped) = TRUE OBVIOUS
      <4> QED BY <3>1, <4>1 DEF Whole, Doc
    <3>3. p.cols[c] = <<Bar(c), Place(c)>> /\ p.panel[c] = Contents(c)
      BY <3>2 DEF ColumnIs
    <3> QED BY <3>1, <3>3, SnappedBack
  <2> HIDE DEF y
  <2>3. /\ Changes(p, r, {"cols", "panel", "popped"})
        /\ r.cols = [p.cols EXCEPT ![c] = y] /\ r.panel = [p.panel EXCEPT ![c] = <<>>]
        /\ r.popped = p.popped \ {c}
    BY DEF Changes, PageFields
  <2> HIDE DEF r
  <2>4. ASSUME c \in p.popped PROVE Whole(r)
    <3>1. ColumnIs(c, y, <<>>, c \in r.popped) BY <2>2, <2>3, <2>4 DEF ColumnIs
    <3>4. r.popped \subseteq Tracks /\ r.popped \ {c} = p.popped \ {c} /\ Doc(p)
      BY <2>3 DEF Whole, Doc
    <3>2. Doc(r) BY <2>2, <2>3, <2>4, <3>1, <3>4, Replaced
    <3>3. r.active = p.active /\ r.maxed = p.maxed
      BY <2>3 DEF Changes, PageFields
    <3> QED BY <2>3, <3>2, <3>3 DEF Whole, Marked
  <2> QED BY <2>1, <2>3, <2>4
<1> QED BY <1>2, <1>3, <1>4, <1>5

\* A tool bar that can be clicked to maximise its column is in a column that
\* stands.
LEMMA BarStands ==
  ASSUME Doc(page), NEW c \in Tracks, BarShown(c)
  PROVE  c \notin page.popped
<1> DEFINE In(s) == \E n \in ToSet(s) : HasBar(n, c)
<1>0. c \in Columns /\ c # "middle" BY DEF Tracks, Columns
<1>1. \A n \in {Body("left"), Body("right"), TheHost} : ~HasBar(n, c)
  <2>1. \A d \in Tracks : Body(d) # Bar(c) /\ Body(d).kids = <<>>
    BY DEF Body, Bar, Part
  <2>2. Bar(c) \notin ToSet(<<>>) BY DEF ToSet
  <2>3. TheHost # Bar(c) /\ ToSet(TheHost.kids) = {Bar("middle")}
    <3>1. TheHost # Bar(c)
      <4>1. TheHost.kind = "host" /\ Bar(c).kind = "bar" BY HostIs DEF Bar, Part
      <4> QED BY <4>1
    <3>2. \A b : ToSet(<<b>>) = {b} BY DEF ToSet
    <3> QED BY <3>1, <3>2, HostIs
  <2>4. Bar("middle") # Bar(c) BY <1>0 DEF Bar, Part
  <2> QED BY <2>1, <2>2, <2>3, <2>4 DEF HasBar, Tracks
<1>2. \A d \in Columns : ~In(page.panel[d])
  <2> TAKE d \in Columns
  <2>1. ToSet(<<>>) = {} BY DEF ToSet
  <2>2. \A b : ToSet(<<b>>) = {b} BY DEF ToSet
  <2>3. /\ ToSet(Contents("left")) = {Body("left")}
        /\ ToSet(Contents("right")) = {TheHost, Body("right")}
    BY <2>2, TwoSet DEF Contents
  <2>4. CASE d = "middle" BY <2>1, <2>4 DEF Doc
  <2>5. CASE d \in Tracks
    <3>1. page.panel[d] \in {<<>>, Contents(d)} BY <2>5 DEF Doc, ColumnIs
    <3> QED BY <1>1, <2>1, <2>3, <2>5, <3>1 DEF Tracks
  <2> QED BY <2>4, <2>5 DEF Tracks, Columns
<1>3. PICK d \in Columns : /\ In(page.cols[d])
                           /\ Bar(c) \in ToSet(page.cols[d]) => d \notin page.popped
  BY <1>2 DEF BarShown
<1>4. \A e \in Tracks : ~HasBar(Place(e), c) /\ (e # c => ~HasBar(Bar(e), c))
  <2>1. \A e \in Tracks : /\ Place(e) # Bar(c) /\ Place(e).kids = <<>>
                          /\ Bar(e).kids = <<>> /\ (e # c => Bar(e) # Bar(c))
    BY DEF Place, Bar, Part
  <2>2. Bar(c) \notin ToSet(<<>>) BY DEF ToSet
  <2> QED BY <2>1, <2>2 DEF HasBar
<1>5. d \in Tracks
  <2>1. ToSet(<<>>) = {} BY DEF ToSet
  <2>2. d = "middle" => ~In(page.cols[d]) BY <2>1 DEF Doc
  <2> QED BY <1>3, <2>2 DEF Tracks, Columns
<1>6. ToSet(page.cols[d]) \subseteq {Bar(d), Body(d), Place(d), TheHost}
      /\ Bar(d) \in ToSet(page.cols[d])
  <2>1. page.cols[d] \in Standing(d) \cup {<<Bar(d), Place(d)>>}
    BY <1>5 DEF Doc, ColumnIs
  <2> QED BY <2>1, TwoSet, ThreeSet DEF Standing
<1>7. d = c
  BY <1>1, <1>3, <1>4, <1>5, <1>6 DEF Tracks
<1> QED BY <1>3, <1>6, <1>7

-----------------------------------------------------------------------------
(* A pair <<page, prefs>>: whole, what is remembered of it, and what a     *)
(* side bar may change of it.                                              *)
Saved(f) ==
  /\ DOMAIN f = PrefFields /\ f.widths \in Width \cup {<<>>}
  /\ f.frame \in {"unset", "shown", "hidden"} /\ f.fault \in {"unset", "shown", "hidden"}
Laid(p) ==
  /\ DOMAIN p = PageFields /\ Fits(p.grid)
  /\ p.push \in {"none", "frame", "fault"}
Tidy(p) ==
  /\ p.frame \in BOOLEAN /\ p.fault \in BOOLEAN /\ ~(p.frame /\ p.fault)
  /\ p.push = IF p.frame THEN "frame" ELSE IF p.fault THEN "fault" ELSE "none"
SideBars(p, f) ==
  Tidy(p) /\ p.frame = (f.frame # "hidden") /\ p.fault = (f.fault = "shown")

Bars == {"frame", "fault", "push", "grid"}
Moved(p, f, r) ==
  /\ r = <<r[1], r[2]>> /\ Laid(r[1]) /\ Saved(r[2])
  /\ Changes(p, r[1], Bars)
  /\ r[1].grid = p.grid \/ r[1].grid.w = Ratios(f)
  /\ \A k \in PrefFields \ {"frame", "fault"} : r[2][k] = f[k]

(* What follows when a side bar is brought in line, closed or shown.       *)
InLine(p, f, r, push) ==
  /\ r = <<r[1], f>> /\ Laid(r[1]) /\ Changes(p, r[1], {"push", "grid"})
  /\ r[1].push = push /\ r[1].grid.w = Ratios(f)
FrameIsClosed(p, f, r) ==
  /\ Moved(p, f, r) /\ Tidy(r[1]) /\ r[1].frame = FALSE /\ r[1].fault = FALSE
  /\ r[2].frame = "hidden" /\ r[2].fault = f.fault
FaultIsClosed(p, f, r) ==
  /\ Moved(p, f, r) /\ Tidy(r[1]) /\ r[1].frame = FALSE /\ r[1].fault = FALSE
  /\ r[2].fault = "hidden" /\ r[2].frame = f.frame
FrameIsShown(p, f, r) ==
  /\ Moved(p, f, r) /\ r[1].frame = TRUE /\ r[1].fault = FALSE
  /\ r[1].push = "frame" /\ r[2].frame = f.frame
  /\ r[2].fault = IF p.fault THEN "hidden" ELSE f.fault
FaultIsShown(p, f, r) ==
  /\ Moved(p, f, r) /\ r[1].fault = TRUE /\ r[1].frame = FALSE
  /\ r[1].push = "fault" /\ r[2].fault = f.fault
  /\ r[2].frame = IF p.frame THEN "hidden" ELSE f.frame

BarsMoved(p, f, r) == Moved(p, f, r) /\ SideBars(r[1], r[2])

LEMMA RefreshedLaid ==
  ASSUME NEW p, DOMAIN p = PageFields, p.push \in {"none", "frame", "fault"},
         NEW f, Saved(f)
  PROVE  /\ Laid(Refreshed(p, f)) /\ Changes(p, Refreshed(p, f), {"grid"})
         /\ Refreshed(p, f).grid.w = Ratios(f)
<1> DEFINE r == Refreshed(p, f)
<1>1. Changes(p, r, {"grid"}) /\ r.grid = [px |-> FALSE, w |-> Ratios(f)]
  BY LayoutChanges
<1> HIDE DEF r
<1>2. r.push = p.push /\ DOMAIN r = PageFields BY <1>1 DEF Changes, PageFields
<1>3. Ratios(f) \in Width /\ Restorable(Ratios(f))
  BY DEF Saved, Ratios, Restorable, Equal, Width
<1>4. Fits(r.grid) BY <1>1, <1>3 DEF Fits
<1> QED BY <1>1, <1>2, <1>4 DEF Laid, r

LEMMA Syncing ==
  ASSUME NEW p, NEW f, DOMAIN p = PageFields, Saved(f),
         p.push \in {"none", "frame", "fault"}, p.frame \in BOOLEAN, p.fault \in BOOLEAN
  PROVE  /\ InLine(p, f, FrameSynced(<<p, f>>), IF p.frame THEN "frame" ELSE "none")
         /\ InLine(p, f, FaultSynced(<<p, f>>),
                   IF p.fault THEN "fault" ELSE IF p.frame THEN p.push ELSE "none")
<1>1. \A x \in {"none", "frame", "fault"} :
        LET q == [p EXCEPT !.push = x]
            r == Refreshed(q, f)
        IN  /\ Laid(r) /\ Changes(p, r, {"push", "grid"})
            /\ r.push = x /\ r.grid.w = Ratios(f)
  <2> TAKE x \in {"none", "frame", "fault"}
  <2> DEFINE q == [p EXCEPT !.push = x]
             r == Refreshed(q, f)
  <2>1. Changes(p, q, {"push"}) /\ q.push = x BY DEF Changes, PageFields
  <2> HIDE DEF q
  <2>2. DOMAIN q = PageFields BY <2>1 DEF Changes, PageFields
  <2>3. Laid(r) /\ Changes(q, r, {"grid"}) /\ r.grid.w = Ratios(f)
    BY <2>1, <2>2, RefreshedLaid
  <2> HIDE DEF r
  <2>4. Changes(p, r, {"push", "grid"}) /\ r.push = x
    BY <2>1, <2>3 DEF Changes, PageFields
  <2> QED BY <2>3, <2>4 DEF r, q
<1> DEFINE x == IF p.frame THEN "frame" ELSE "none"
           y == IF p.fault THEN "fault" ELSE IF p.frame THEN p.push ELSE "none"
<1>2. x \in {"none", "frame", "fault"} /\ y \in {"none", "frame", "fault"} OBVIOUS
<1>3. FrameSynced(<<p, f>>) = <<Refreshed([p EXCEPT !.push = x], f), f>>
  BY DEF FrameSynced
<1>4. FaultSynced(<<p, f>>) = <<Refreshed([p EXCEPT !.push = y], f), f>>
  <2>1. y = CASE p.fault -> "fault" [] ~p.fault /\ ~p.frame -> "none" [] OTHER -> p.push
    OBVIOUS
  <2> HIDE DEF y
  <2> QED BY <2>1 DEF FaultSynced
<1> DEFINE R(v) == Refreshed([p EXCEPT !.push = v], f)
<1>5. \A v \in {"none", "frame", "fault"} :
        /\ Laid(R(v)) /\ Changes(p, R(v), {"push", "grid"})
        /\ R(v).push = v /\ R(v).grid.w = Ratios(f)
  BY <1>1
<1>6. FrameSynced(<<p, f>>) = <<R(x), f>> /\ FaultSynced(<<p, f>>) = <<R(y), f>>
  BY <1>3, <1>4
<1> HIDE DEF R
<1>7. InLine(p, f, FrameSynced(<<p, f>>), x) /\ InLine(p, f, FaultSynced(<<p, f>>), y)
  BY <1>2, <1>5, <1>6 DEF InLine
<1> QED BY <1>7

(* Closing the bar that is open, or neither, leaves none open.             *)
LEMMA Closing ==
  ASSUME NEW p, NEW f, Laid(p), Saved(f), Tidy(p)
  PROVE  /\ p.frame => FrameIsClosed(p, f, CloseFrame(<<p, f>>))
         /\ p.fault => FaultIsClosed(p, f, CloseFault(<<p, f>>))
<1>1. ASSUME p.frame PROVE FrameIsClosed(p, f, CloseFrame(<<p, f>>))
  <2> DEFINE q == [p EXCEPT !.frame = FALSE]
             g == [f EXCEPT !.frame = "hidden"]
             r == FrameSynced(<<q, g>>)
  <2>1. Changes(p, q, {"frame"}) /\ q.frame = FALSE
    BY DEF Changes, Laid, PageFields
  <2>2. Saved(g) /\ g.frame = "hidden" /\ \A k \in PrefFields \ {"frame"} : g[k] = f[k]
    BY DEF Saved, PrefFields
  <2>3. CloseFrame(<<p, f>>) = r BY DEF CloseFrame
  <2> HIDE DEF q, g
  <2>4. DOMAIN q = PageFields /\ q.push = p.push /\ q.fault = p.fault
    BY <2>1 DEF Changes, PageFields
  <2>5. /\ r = <<r[1], g>> /\ Laid(r[1]) /\ Changes(q, r[1], {"push", "grid"})
        /\ r[1].push = "none" /\ r[1].grid.w = Ratios(g)
    <3>1. /\ q.push \in {"none", "frame", "fault"}
          /\ q.frame \in BOOLEAN /\ q.fault \in BOOLEAN
      BY <2>1, <2>4 DEF Laid, Tidy
    <3>2. q.frame = FALSE BY <2>1
    <3> HIDE DEF r
    <3> QED BY <2>2, <2>4, <3>1, <3>2, Syncing DEF r, InLine
  <2> HIDE DEF r
  <2>6. r[2] = g BY <2>5
  <2>12. r[1].grid.w = Ratios(f)
    <3>1. g.widths = f.widths BY <2>2 DEF PrefFields
    <3> QED BY <2>5, <3>1 DEF Ratios
  <2>7. Changes(p, r[1], Bars) /\ r[1].frame = FALSE /\ r[1].fault = p.fault
    BY <2>1, <2>4, <2>5 DEF Changes, PageFields, Bars
  <2>8. p.fault = FALSE BY <1>1 DEF Tidy
  <2>9. g.fault = f.fault BY <2>2 DEF PrefFields
  <2>10. Tidy(r[1]) BY <2>2, <2>5, <2>7, <2>8, <2>9 DEF Tidy
  <2>11. Moved(p, f, r) BY <2>2, <2>5, <2>6, <2>7, <2>12 DEF Moved
  <2> QED BY <2>2, <2>3, <2>6, <2>7, <2>8, <2>9, <2>10, <2>11 DEF FrameIsClosed, FaultIsClosed
<1>2. ASSUME p.fault PROVE FaultIsClosed(p, f, CloseFault(<<p, f>>))
  <2> DEFINE q == [p EXCEPT !.fault = FALSE]
             g == [f EXCEPT !.fault = "hidden"]
             r == FaultSynced(<<q, g>>)
  <2>1. Changes(p, q, {"fault"}) /\ q.fault = FALSE
    BY DEF Changes, Laid, PageFields
  <2>2. Saved(g) /\ g.fault = "hidden" /\ \A k \in PrefFields \ {"fault"} : g[k] = f[k]
    BY DEF Saved, PrefFields
  <2>3. CloseFault(<<p, f>>) = r BY DEF CloseFault
  <2> HIDE DEF q, g
  <2>4. DOMAIN q = PageFields /\ q.push = p.push /\ q.frame = p.frame
    BY <2>1 DEF Changes, PageFields
  <2>5. /\ r = <<r[1], g>> /\ Laid(r[1]) /\ Changes(q, r[1], {"push", "grid"})
        /\ r[1].push = (IF q.frame THEN q.push ELSE "none") /\ r[1].grid.w = Ratios(g)
    <3>1. /\ q.push \in {"none", "frame", "fault"}
          /\ q.frame \in BOOLEAN /\ q.fault \in BOOLEAN
      BY <2>1, <2>4 DEF Laid, Tidy
    <3>2. q.fault = FALSE BY <2>1
    <3> HIDE DEF r
    <3> QED BY <2>2, <2>4, <3>1, <3>2, Syncing DEF r, InLine
  <2> HIDE DEF r
  <2>6. r[2] = g BY <2>5
  <2>12. r[1].grid.w = Ratios(f)
    <3>1. g.widths = f.widths BY <2>2 DEF PrefFields
    <3> QED BY <2>5, <3>1 DEF Ratios
  <2>7. Changes(p, r[1], Bars) /\ r[1].fault = FALSE /\ r[1].frame = p.frame
    BY <2>1, <2>4, <2>5 DEF Changes, PageFields, Bars
  <2>8. p.frame = FALSE BY <1>2 DEF Tidy
  <2>9. g.frame = f.frame BY <2>2 DEF PrefFields
  <2>10. Tidy(r[1]) BY <2>2, <2>4, <2>5, <2>7, <2>8, <2>9 DEF Tidy
  <2>11. Moved(p, f, r) BY <2>2, <2>5, <2>6, <2>7, <2>12 DEF Moved
  <2> QED BY <2>2, <2>3, <2>6, <2>7, <2>8, <2>9, <2>10, <2>11 DEF FrameIsClosed, FaultIsClosed
<1> QED BY <1>1, <1>2

(* Showing a bar closes the other, and what is written of it afterwards    *)
(* is all that the two differ in.                                          *)
LEMMA Showing ==
  ASSUME NEW p, NEW f, Laid(p), Saved(f), Tidy(p)
  PROVE  /\ FrameIsShown(p, f, FrameShown(<<p, f>>))
         /\ FaultIsShown(p, f, FaultShown(<<p, f>>))
<1>0. Moved(p, f, <<p, f>>) BY DEF Moved, Changes, Laid
<1>1. FrameIsShown(p, f, FrameShown(<<p, f>>))
  <2> DEFINE o == IF p.fault THEN CloseFault(<<p, f>>) ELSE <<p, f>>
             a == o[1]
             g == o[2]
             b == [a EXCEPT !.frame = TRUE]
             r == FrameSynced(<<b, g>>)
  <2>1. FrameShown(<<p, f>>) = r BY DEF FrameShown
  <2>2. Moved(p, f, o) /\ a.fault = FALSE /\ g.frame = f.frame
        /\ g.fault = IF p.fault THEN "hidden" ELSE f.fault
    <3>1. CASE p.fault
      <4>1. o = CloseFault(<<p, f>>) BY <3>1
      <4> HIDE DEF o
      <4>2. FaultIsClosed(p, f, o) BY <3>1, <4>1, Closing
      <4> QED BY <3>1, <4>2 DEF FaultIsClosed
    <3>2. CASE ~p.fault BY <1>0, <3>2 DEF Tidy
    <3> QED BY <3>1, <3>2
  <2> HIDE DEF o
  <2>3. Laid(a) /\ Saved(g) /\ Changes(p, a, Bars) BY <2>2 DEF Moved
  <2>4. \A k \in PrefFields \ {"frame", "fault"} : g[k] = f[k] BY <2>2 DEF Moved
  <2>5. Changes(a, b, {"frame"}) /\ b.frame = TRUE BY <2>3 DEF Changes, Laid, PageFields
  <2> HIDE DEF a, b, g
  <2>6. DOMAIN b = PageFields /\ b.push = a.push /\ b.fault = FALSE
    BY <2>2, <2>5 DEF Changes, PageFields
  <2>7. /\ r = <<r[1], g>> /\ Laid(r[1]) /\ Changes(b, r[1], {"push", "grid"})
        /\ r[1].push = "frame" /\ r[1].grid.w = Ratios(g)
    <3>1. /\ b.push \in {"none", "frame", "fault"}
          /\ b.frame \in BOOLEAN /\ b.fault \in BOOLEAN
      BY <2>3, <2>5, <2>6 DEF Laid
    <3> HIDE DEF r
    <3> QED BY <2>3, <2>5, <2>6, <3>1, Syncing DEF r, InLine
  <2> HIDE DEF r
  <2>8. Changes(p, r[1], Bars) /\ r[1].frame = TRUE /\ r[1].fault = FALSE
    BY <2>3, <2>5, <2>6, <2>7 DEF Changes, PageFields, Bars
  <2>9. r[2] = g BY <2>7
  <2>11. r[1].grid.w = Ratios(f)
    <3>1. g.widths = f.widths BY <2>4 DEF PrefFields
    <3> QED BY <2>7, <3>1 DEF Ratios
  <2>10. Moved(p, f, r) BY <2>3, <2>4, <2>7, <2>8, <2>9, <2>11 DEF Moved
  <2> QED BY <2>1, <2>2, <2>7, <2>8, <2>9, <2>10 DEF g, FrameIsShown, FaultIsShown
<1>2. FaultIsShown(p, f, FaultShown(<<p, f>>))
  <2> DEFINE o == IF p.frame THEN CloseFrame(<<p, f>>) ELSE <<p, f>>
             a == o[1]
             g == o[2]
             b == [a EXCEPT !.fault = TRUE]
             r == FaultSynced(<<b, g>>)
  <2>1. FaultShown(<<p, f>>) = r BY DEF FaultShown
  <2>2. Moved(p, f, o) /\ a.frame = FALSE /\ g.fault = f.fault
        /\ g.frame = IF p.frame THEN "hidden" ELSE f.frame
    <3>1. CASE p.frame
      <4>1. o = CloseFrame(<<p, f>>) BY <3>1
      <4> HIDE DEF o
      <4>2. FrameIsClosed(p, f, o) BY <3>1, <4>1, Closing
      <4> QED BY <3>1, <4>2 DEF FrameIsClosed
    <3>2. CASE ~p.frame BY <1>0, <3>2 DEF Tidy
    <3> QED BY <3>1, <3>2
  <2> HIDE DEF o
  <2>3. Laid(a) /\ Saved(g) /\ Changes(p, a, Bars) BY <2>2 DEF Moved
  <2>4. \A k \in PrefFields \ {"frame", "fault"} : g[k] = f[k] BY <2>2 DEF Moved
  <2>5. Changes(a, b, {"fault"}) /\ b.fault = TRUE BY <2>3 DEF Changes, Laid, PageFields
  <2> HIDE DEF a, b, g
  <2>6. DOMAIN b = PageFields /\ b.push = a.push /\ b.frame = FALSE
    BY <2>2, <2>5 DEF Changes, PageFields
  <2>7. /\ r = <<r[1], g>> /\ Laid(r[1]) /\ Changes(b, r[1], {"push", "grid"})
        /\ r[1].push = "fault" /\ r[1].grid.w = Ratios(g)
    <3>1. /\ b.push \in {"none", "frame", "fault"}
          /\ b.frame \in BOOLEAN /\ b.fault \in BOOLEAN
      BY <2>3, <2>5, <2>6 DEF Laid
    <3> HIDE DEF r
    <3> QED BY <2>3, <2>5, <2>6, <3>1, Syncing DEF r, InLine
  <2> HIDE DEF r
  <2>8. Changes(p, r[1], Bars) /\ r[1].fault = TRUE /\ r[1].frame = FALSE
    BY <2>3, <2>5, <2>6, <2>7 DEF Changes, PageFields, Bars
  <2>9. r[2] = g BY <2>7
  <2>11. r[1].grid.w = Ratios(f)
    <3>1. g.widths = f.widths BY <2>4 DEF PrefFields
    <3> QED BY <2>7, <3>1 DEF Ratios
  <2>10. Moved(p, f, r) BY <2>3, <2>4, <2>7, <2>8, <2>9, <2>11 DEF Moved
  <2> QED BY <2>1, <2>2, <2>7, <2>8, <2>9, <2>10 DEF g, FrameIsShown, FaultIsShown
<1> QED BY <1>1, <1>2

(* A side bar opened is remembered as opened.                              *)
LEMMA Opening ==
  ASSUME NEW p, NEW f, Laid(p), Saved(f), SideBars(p, f)
  PROVE  BarsMoved(p, f, OpenFrame(<<p, f>>)) /\ BarsMoved(p, f, OpenFault(<<p, f>>))
<1>1. BarsMoved(p, f, OpenFrame(<<p, f>>))
  <2> DEFINE o == FrameShown(<<p, f>>)
             a == o[1]
             g == [o[2] EXCEPT !.frame = "shown"]
             r == OpenFrame(<<p, f>>)
  <2>1. r = <<a, g>> BY DEF OpenFrame
  <2>2. /\ Moved(p, f, o) /\ a.frame = TRUE /\ a.fault = FALSE
        /\ a.push = "frame" /\ o[2].fault # "shown"
    <3>1. Tidy(p) BY DEF SideBars
    <3>2. FrameIsShown(p, f, o) BY <3>1, Showing
    <3> HIDE DEF o, g, r
    <3> QED BY <3>2 DEF SideBars, FrameIsShown
  <2> HIDE DEF o, r
  <2>3. Saved(g) /\ g.frame = "shown" /\ g.fault # "shown"
        /\ \A k \in PrefFields \ {"frame", "fault"} : g[k] = f[k]
    BY <2>2 DEF Moved, Saved, PrefFields
  <2> HIDE DEF g
  <2>4. Moved(p, f, r) BY <2>1, <2>2, <2>3 DEF Moved
  <2>5. SideBars(a, g) BY <2>2, <2>3 DEF SideBars, Tidy
  <2> QED BY <2>1, <2>4, <2>5 DEF r, BarsMoved
<1>2. BarsMoved(p, f, OpenFault(<<p, f>>))
  <2> DEFINE o == FaultShown(<<p, f>>)
             a == o[1]
             g == [o[2] EXCEPT !.fault = "shown"]
             r == OpenFault(<<p, f>>)
  <2>1. r = <<a, g>> BY DEF OpenFault
  <2>2. /\ Moved(p, f, o) /\ a.frame = FALSE /\ a.fault = TRUE
        /\ a.push = "fault" /\ o[2].frame = "hidden"
    <3>1. Tidy(p) BY DEF SideBars
    <3>2. FaultIsShown(p, f, o) BY <3>1, Showing
    <3> HIDE DEF o, g, r
    <3> QED BY <3>2 DEF SideBars, FaultIsShown
  <2> HIDE DEF o, r
  <2>3. Saved(g) /\ g.fault = "shown" /\ g.frame = "hidden"
        /\ \A k \in PrefFields \ {"frame", "fault"} : g[k] = f[k]
    BY <2>2 DEF Moved, Saved, PrefFields
  <2> HIDE DEF g
  <2>4. Moved(p, f, r) BY <2>1, <2>2, <2>3 DEF Moved
  <2>5. SideBars(a, g) BY <2>2, <2>3 DEF SideBars, Tidy
  <2> QED BY <2>1, <2>4, <2>5 DEF r, BarsMoved
<1> QED BY <1>1, <1>2

-----------------------------------------------------------------------------
(* The columns of the table are never none.                                *)
LEMMA KeysShown ==
  ASSUME NEW f
  PROVE  VisibleKeys(f) # {} /\ VisibleKeys(f) \subseteq Keys
  BY KeysAssumption DEF VisibleKeys

Table(p, f) ==
  /\ p.table = VisibleKeys(f) /\ DOMAIN p.menu = {"open", "checked"}
  /\ p.menu.checked \subseteq Keys
  /\ p.menu.open => p.menu.checked = p.table
Good(p, f) == Laid(p) /\ Saved(f) /\ SideBars(p, f) /\ Table(p, f)

-----------------------------------------------------------------------------
(* A page loaded shows what is remembered, in two columns of the saved      *)
(* ratio with all that belongs in them, and with nothing maximised.         *)
Fine(p, f) == Good(p, f) /\ Whole(p)
Ratio(p, f) == p.grid.w = f.widths \/ p.grid.w = Ratios(f)

\* The page as it is drawn, with the middle column moved into its host.
LEMMA FreshIsWhole ==
  ASSUME NEW f
  PROVE  LET p == [Fresh(f) EXCEPT !.cols = MoveFrameToRight(@)]
         IN  /\ Whole(p) /\ DOMAIN p = PageFields
             /\ p.frame = FALSE /\ p.fault = FALSE /\ p.push = "none"
             /\ p.menu = NoMenu /\ p.table = VisibleKeys(f)
<1> DEFINE cols == Fresh(f).cols
           moved == MoveFrameToRight(cols)
           p == [Fresh(f) EXCEPT !.cols = moved]
<1>1. /\ cols = [c \in Columns |-> IF c = "middle" THEN <<Bar(c)>> ELSE <<Bar(c), Body(c)>>]
      /\ Fresh(f).panel = [c \in Columns |-> <<>>]
      /\ Fresh(f).popped = {} /\ Fresh(f).maxed = "none" /\ Fresh(f).active = {}
      /\ Fresh(f).frame = FALSE /\ Fresh(f).fault = FALSE /\ Fresh(f).push = "none"
      /\ Fresh(f).menu = NoMenu /\ Fresh(f).table = VisibleKeys(f)
      /\ DOMAIN Fresh(f) = PageFields
  BY DEF Fresh, Body, PageFields
<1> HIDE DEF cols
<1>2. moved = [cols EXCEPT !["right"] = <<TheHost>> \o cols["right"], !["middle"] = <<>>]
  <2>1. cols["middle"] = <<Bar("middle")>> BY <1>1 DEF Columns
  <2> QED BY <2>1 DEF MoveFrameToRight, TheHost
<1>3. <<TheHost>> \o cols["right"] = <<TheHost, Bar("right"), Body("right")>>
  <2>1. cols["right"] = <<Bar("right"), Body("right")>> BY <1>1 DEF Columns
  <2> QED BY <2>1, Appending
<1> HIDE DEF moved
<1>4. /\ Changes(Fresh(f), p, {"cols"}) /\ p.cols = moved
  BY <1>1 DEF Changes, PageFields
<1> HIDE DEF p
<1>5. /\ p.panel = [c \in Columns |-> <<>>] /\ p.popped = {} /\ p.maxed = "none"
      /\ p.active = {} /\ p.frame = FALSE /\ p.fault = FALSE /\ p.push = "none"
      /\ p.menu = NoMenu /\ p.table = VisibleKeys(f) /\ DOMAIN p = PageFields
  BY <1>1, <1>4 DEF Changes, PageFields
<1> DEFINE right == <<TheHost, Bar("right"), Body("right")>>
<1>6. /\ Function(p.cols) /\ p.cols["middle"] = <<>>
      /\ p.cols["left"] = <<Bar("left"), Body("left")>> /\ p.cols["right"] = right
  <2>1. moved = [cols EXCEPT !["right"] = right, !["middle"] = <<>>] BY <1>2, <1>3
  <2> HIDE DEF right
  <2> QED BY <1>1, <1>4, <2>1 DEF Columns, Function
<1>7. Function(p.panel) /\ \A c \in Columns : p.panel[c] = <<>>
  BY <1>5 DEF Function
<1>8. ASSUME NEW c \in Tracks PROVE ColumnIs(c, p.cols[c], p.panel[c], c \in p.popped)
  <2>1. p.cols[c] \in Standing(c) BY <1>6 DEF Tracks, Standing
  <2>2. p.panel[c] = <<>> /\ c \notin p.popped BY <1>5, <1>7 DEF Tracks, Columns
  <2> QED BY <2>1, <2>2 DEF ColumnIs
<1>9. Doc(p) BY <1>5, <1>6, <1>7, <1>8 DEF Doc, Columns
<1>10. Whole(p) BY <1>5, <1>9 DEF Whole, Marked
<1> QED BY <1>5, <1>10 DEF p, moved, cols

LEMMA Loading ==
  ASSUME NEW f, Saved(f)
  PROVE  LET r == Loaded(f)
         IN  /\ r = <<r[1], r[2]>> /\ Fine(r[1], r[2])
             /\ r[1].frame = (f.frame # "hidden" /\ f.fault # "shown")
             /\ r[1].fault = (f.fault = "shown")
             /\ r[1].grid.w = Ratios(f) /\ r[2].widths = f.widths
<1> DEFINE fresh == [Fresh(f) EXCEPT !.cols = MoveFrameToRight(@)]
           a == Refreshed(fresh, f)
           framed == IF f.frame # "hidden" THEN FrameShown(<<a, f>>) ELSE FrameSynced(<<a, f>>)
           p == framed[1]
           h == framed[2]
           r == IF f.fault = "shown" THEN FaultShown(framed) ELSE FaultSynced(framed)
           Bare(q) == /\ q.frame = FALSE /\ q.fault = FALSE /\ q.push = "none"
                      /\ q.menu = NoMenu /\ q.table = VisibleKeys(f)
<1>1. Loaded(f) = r BY DEF Loaded
<1>2. Whole(fresh) /\ DOMAIN fresh = PageFields /\ Bare(fresh) BY FreshIsWhole
<1> HIDE DEF fresh
<1>3. Laid(a) /\ Bare(a) /\ Whole(a) /\ a.grid.w = Ratios(f)
  <2>1. Laid(a) /\ Changes(fresh, a, {"grid"}) /\ a.grid.w = Ratios(f)
    BY <1>2, RefreshedLaid
  <2> HIDE DEF a
  <2>2. Changes(fresh, a, PageFields \ {"cols", "panel", "popped", "active", "maxed"})
    BY <2>1 DEF Changes, PageFields
  <2>3. Whole(a) BY <1>2, <2>2, WholeSame
  <2> QED BY <1>2, <2>1, <2>3 DEF Changes, PageFields
<1> HIDE DEF a
<1>4. Tidy(a) BY <1>3 DEF Tidy
<1>5. /\ Moved(a, f, framed) /\ Tidy(p) /\ p.fault = FALSE
      /\ p.frame = (f.frame # "hidden") /\ h.frame = f.frame /\ h.fault = f.fault
  <2>1. CASE f.frame # "hidden"
    <3> DEFINE s == FrameShown(<<a, f>>)
    <3>1. FrameIsShown(a, f, s) BY <1>3, <1>4, Showing
    <3>2. framed = s BY <2>1
    <3> HIDE DEF s, framed
    <3> QED BY <1>3, <2>1, <3>1, <3>2 DEF Tidy, FrameIsShown
  <2>2. CASE ~(f.frame # "hidden")
    <3> DEFINE s == FrameSynced(<<a, f>>)
    <3>0. InLine(a, f, s, IF a.frame THEN "frame" ELSE "none")
      BY <1>3, Syncing DEF Laid
    <3>1. InLine(a, f, s, "none") BY <1>3, <3>0
    <3>2. framed = s BY <2>2
    <3> HIDE DEF s, framed
    <3>3. Changes(a, s[1], Bars) /\ s[1].frame = FALSE /\ s[1].fault = FALSE
      BY <1>3, <3>1 DEF Changes, PageFields, Bars, InLine
    <3>4. Moved(a, f, s) /\ s[2] = f BY <3>1, <3>3 DEF Moved, InLine
    <3> QED BY <2>2, <3>1, <3>2, <3>3, <3>4 DEF Tidy, InLine
  <2> QED BY <2>1, <2>2
<1> HIDE DEF framed
<1>6. /\ framed = <<p, h>> /\ Laid(p) /\ Saved(h) /\ p.grid.w = Ratios(f)
      /\ h.widths = f.widths /\ h.shown = f.shown
  BY <1>3, <1>5 DEF Moved, PrefFields
<1>7. Ratios(h) = Ratios(f) BY <1>6 DEF Ratios
<1>8. /\ Moved(p, h, r) /\ Tidy(r[1]) /\ r[1].fault = (f.fault = "shown")
      /\ r[1].frame = (f.frame # "hidden" /\ f.fault # "shown")
      /\ r[2].frame = (IF f.fault = "shown" /\ p.frame THEN "hidden" ELSE f.frame)
      /\ r[2].fault = f.fault
  <2> HIDE DEF p, h
  <2>1. CASE f.fault = "shown"
    <3> DEFINE s == FaultShown(<<p, h>>)
    <3>1. FaultIsShown(p, h, s) BY <1>5, <1>6, Showing
    <3>2. r = s BY <1>6, <2>1
    <3> HIDE DEF s, r
    <3> QED BY <1>5, <2>1, <3>1, <3>2 DEF Tidy, FaultIsShown
  <2>2. CASE f.fault # "shown"
    <3> DEFINE s == FaultSynced(<<p, h>>)
    <3>1. InLine(p, h, s, IF p.fault THEN "fault" ELSE IF p.frame THEN p.push ELSE "none")
      BY <1>5, <1>6, Syncing DEF Laid, Tidy
    <3>2. r = s BY <1>6, <2>2
    <3> HIDE DEF s, r
    <3>3. Changes(p, s[1], Bars) /\ s[1].frame = p.frame /\ s[1].fault = FALSE
      BY <1>5, <3>1 DEF Changes, PageFields, Bars, InLine
    <3>4. Moved(p, h, s) /\ s[2] = h BY <1>6, <3>1, <3>3 DEF Moved, InLine
    <3> QED BY <1>5, <2>2, <3>1, <3>2, <3>3, <3>4 DEF Tidy, InLine
  <2> QED BY <2>1, <2>2
<1> HIDE DEF r
<1>9. SideBars(r[1], r[2]) BY <1>5, <1>8 DEF SideBars
<1>10. /\ r[1].menu = NoMenu /\ r[1].table = VisibleKeys(f)
  BY <1>3, <1>5, <1>8 DEF Moved, Changes, Bars, PageFields
<1>11. r[2].shown = f.shown /\ r[2].widths = f.widths
  BY <1>6, <1>8 DEF Moved, PrefFields
<1>12. Table(r[1], r[2]) BY <1>10, <1>11 DEF Table, VisibleKeys, NoMenu
<1>13. r = <<r[1], r[2]>> /\ Laid(r[1]) /\ Saved(r[2]) BY <1>8 DEF Moved
<1>14. Changes(a, r[1], PageFields \ {"cols", "panel", "popped", "active", "maxed"})
  BY <1>3, <1>5, <1>8 DEF Moved, Changes, Bars, PageFields, Laid
<1>15. Whole(r[1]) BY <1>3, <1>14, WholeSame
<1>16. r[1].grid.w = Ratios(f) BY <1>6, <1>7, <1>8 DEF Moved
<1>17. Fine(r[1], r[2]) BY <1>9, <1>12, <1>13, <1>15 DEF Fine, Good
<1> QED BY <1>1, <1>8, <1>11, <1>13, <1>16, <1>17

-----------------------------------------------------------------------------
(* What each operation keeps of a page that is in order.                    *)
Columnar == {"cols", "panel", "popped", "maxed", "active"}

LEMMA Rearranged ==
  ASSUME NEW p, NEW f, Good(p, f), NEW q, Changes(p, q, Columnar)
  PROVE  Good(q, f) /\ q.grid = p.grid
<1>1. /\ q.frame = p.frame /\ q.fault = p.fault /\ q.push = p.push /\ q.grid = p.grid
      /\ q.menu = p.menu /\ q.table = p.table /\ DOMAIN q = PageFields
  BY DEF Changes, Columnar, PageFields
<1>2. Laid(q) BY <1>1 DEF Laid, Good
<1>3. SideBars(q, f) BY <1>1 DEF SideBars, Tidy, Good
<1>4. Table(q, f) BY <1>1 DEF Table, Good
<1> QED BY <1>1, <1>2, <1>3, <1>4 DEF Good

\* A page of which only the menu, the table or the widths are changed.
LEMMA Redrawn ==
  ASSUME NEW p, NEW f, Fine(p, f), NEW q, NEW g,
         Changes(p, q, {"menu", "table", "grid"}), Fits(q.grid), Table(q, g),
         Saved(g), g.frame = f.frame, g.fault = f.fault
  PROVE  Fine(q, g)
<1>1. /\ q.frame = p.frame /\ q.fault = p.fault /\ q.push = p.push /\ DOMAIN q = PageFields
  BY DEF Changes, PageFields
<1>2. Laid(q) BY <1>1 DEF Laid, Good, Fine
<1>3. SideBars(q, g) BY <1>1 DEF SideBars, Tidy, Good, Fine
<1>4. Changes(p, q, PageFields \ {"cols", "panel", "popped", "active", "maxed"})
  BY DEF Changes, PageFields
<1>5. Whole(q) BY <1>4, WholeSame DEF Fine
<1> QED BY <1>2, <1>3, <1>5 DEF Good, Fine

LEMMA OutsideKeeps ==
  ASSUME NEW p, NEW f, Fine(p, f)
  PROVE  Fine(Outside(p), f) /\ Outside(p).grid = p.grid
<1> DEFINE q == Outside(p)
<1>1. Changes(p, q, {"menu"}) /\ q.menu = NoMenu BY LayoutChanges DEF Fine, Good, Laid
<1> HIDE DEF q
<1>2. q.grid = p.grid /\ q.table = p.table BY <1>1 DEF Changes, PageFields
<1>3. Table(q, f) BY <1>1, <1>2 DEF Table, NoMenu, Good, Fine
<1>4. Changes(p, q, {"menu", "table", "grid"}) /\ Fits(q.grid) /\ Saved(f)
  BY <1>1, <1>2 DEF Changes, Fine, Good, Laid
<1>5. Fine(q, f) BY <1>3, <1>4, Redrawn
<1> QED BY <1>2, <1>5 DEF q

LEMMA ColumnsKeep ==
  ASSUME NEW p, NEW f, Fine(p, f), NEW c \in Columns
  PROVE  /\ Fine(Restored(p), f) /\ Restored(p).grid = p.grid
         /\ c \notin p.popped => Fine(Maximize(p, c), f)
         /\ Maximize(p, c).grid = p.grid
         /\ Fine(PopOut(p, c), f) /\ PopOut(p, c).grid = p.grid
         /\ c \in p.popped => Fine(SnapBack(p, c), f)
         /\ SnapBack(p, c).grid = p.grid
<1>0. DOMAIN p = PageFields /\ Whole(p) /\ Good(p, f) BY DEF Fine, Good, Laid
<1>1. /\ Whole(Restored(p)) /\ Changes(p, Restored(p), {"active", "maxed"})
      /\ c \notin p.popped => Whole(Maximize(p, c))
      /\ Changes(p, Maximize(p, c), {"active", "maxed"})
      /\ Whole(PopOut(p, c))
      /\ Changes(p, PopOut(p, c), {"active", "maxed", "cols", "panel", "popped"})
      /\ c \in p.popped => Whole(SnapBack(p, c))
      /\ Changes(p, SnapBack(p, c), {"cols", "panel", "popped"})
  BY <1>0, ColumnsWhole
<1>2. \A q, S : Changes(p, q, S) /\ S \subseteq Columnar => Good(q, f) /\ q.grid = p.grid
  <2> TAKE q, S
  <2> HAVE Changes(p, q, S) /\ S \subseteq Columnar
  <2>1. Changes(p, q, Columnar) BY DEF Changes
  <2> QED BY <1>0, <2>1, Rearranged
<1>3. /\ {"active", "maxed"} \subseteq Columnar
      /\ {"active", "maxed", "cols", "panel", "popped"} \subseteq Columnar
      /\ {"cols", "panel", "popped"} \subseteq Columnar
  BY DEF Columnar
<1> QED BY <1>1, <1>2, <1>3 DEF Fine

LEMMA BarsKeep ==
  ASSUME NEW p, NEW f, Fine(p, f)
  PROVE  /\ \A r : BarsMoved(p, f, r) =>
                /\ Fine(r[1], r[2]) /\ r = <<r[1], r[2]>>
                /\ Ratio(p, f) => Ratio(r[1], r[2])
         /\ p.frame => BarsMoved(p, f, CloseFrame(<<p, f>>))
         /\ p.fault => BarsMoved(p, f, CloseFault(<<p, f>>))
         /\ BarsMoved(p, f, OpenFrame(<<p, f>>)) /\ BarsMoved(p, f, OpenFault(<<p, f>>))
<1>0. Good(p, f) /\ Whole(p) BY DEF Fine
<1>1. ASSUME NEW r, BarsMoved(p, f, r)
      PROVE  /\ Fine(r[1], r[2]) /\ r = <<r[1], r[2]>>
             /\ Ratio(p, f) => Ratio(r[1], r[2])
  <2> DEFINE q == r[1]
             g == r[2]
  <2>1. /\ r = <<q, g>> /\ Laid(q) /\ Saved(g) /\ SideBars(q, g) /\ Changes(p, q, Bars)
        /\ g.shown = f.shown /\ g.widths = f.widths
        /\ q.grid = p.grid \/ q.grid.w = Ratios(f)
    BY <1>1 DEF BarsMoved, Moved, PrefFields
  <2> HIDE DEF q, g
  <2>2. q.menu = p.menu /\ q.table = p.table
    BY <2>1 DEF Changes, Bars, PageFields
  <2>3. Table(q, g) BY <1>0, <2>1, <2>2 DEF Table, VisibleKeys, Good
  <2>4. Changes(p, q, PageFields \ {"cols", "panel", "popped", "active", "maxed"})
    BY <2>1 DEF Changes, Bars, PageFields
  <2>5. Whole(q) BY <1>0, <2>4, WholeSame
  <2>6. Ratio(p, f) => Ratio(q, g) BY <2>1 DEF Ratio, Ratios
  <2> QED BY <2>1, <2>3, <2>5, <2>6 DEF Good, Fine, q, g
<1>2. ASSUME p.frame PROVE BarsMoved(p, f, CloseFrame(<<p, f>>))
  <2> DEFINE r == CloseFrame(<<p, f>>)
  <2>1. FrameIsClosed(p, f, r) BY <1>0, <1>2, Closing DEF Good, SideBars
  <2> HIDE DEF r
  <2>2. f.fault # "shown" BY <1>0, <1>2 DEF Good, SideBars, Tidy
  <2> QED BY <2>1, <2>2 DEF FrameIsClosed, BarsMoved, SideBars, r
<1>3. ASSUME p.fault PROVE BarsMoved(p, f, CloseFault(<<p, f>>))
  <2> DEFINE r == CloseFault(<<p, f>>)
  <2>1. FaultIsClosed(p, f, r) BY <1>0, <1>3, Closing DEF Good, SideBars
  <2> HIDE DEF r
  <2>2. f.frame = "hidden" BY <1>0, <1>3 DEF Good, SideBars, Tidy
  <2> QED BY <2>1, <2>2 DEF FaultIsClosed, BarsMoved, SideBars, r
<1>4. BarsMoved(p, f, OpenFrame(<<p, f>>)) /\ BarsMoved(p, f, OpenFault(<<p, f>>))
  BY <1>0, Opening DEF Good
<1> QED BY <1>1, <1>2, <1>3, <1>4

-----------------------------------------------------------------------------
(* The inductive invariant: the page is in order, with nothing lost of the  *)
(* document, and agrees with what is remembered; unless the handle is held, *)
(* the columns have the saved ratio.                                        *)
Bounded == events \in 0..MaxEvents
Held == grip \in Width \cup {<<>>} /\ (grip = <<>> => Ratio(page, prefs))
Layout == Fine(page, prefs) /\ Held /\ Bounded
InOrder == Fine(page, prefs) /\ Held

\* A click with nothing held.
LEMMA Clicked ==
  ASSUME NEW p, NEW f, Fine(p, f), Ratio(p, f), ClickBoth(<<p, f>>)
  PROVE  InOrder'
<1>1. page' = Outside(p) /\ prefs' = f /\ grip' = grip /\ grip = <<>>
  BY DEF ClickBoth, Become
<1>2. Fine(Outside(p), f) /\ Outside(p).grid = p.grid BY OutsideKeeps
<1>3. Ratio(Outside(p), f) BY <1>2 DEF Ratio
<1> QED BY <1>1, <1>2, <1>3 DEF InOrder, Held

LEMMA ClickedPage ==
  ASSUME NEW p, Fine(p, prefs), p.grid = page.grid, Held, Click(p)
  PROVE  InOrder'
<1>1. page' = Outside(p) /\ prefs' = prefs /\ grip' = grip /\ grip = <<>>
  BY DEF Click
<1>2. Fine(Outside(p), prefs) /\ Outside(p).grid = p.grid BY OutsideKeeps
<1>3. Ratio(Outside(p), prefs) BY <1>1, <1>2 DEF Ratio, Held
<1> QED BY <1>1, <1>2, <1>3 DEF InOrder, Held

LEMMA InitLayout == Init => Layout
<1> SUFFICES ASSUME Init PROVE Layout
  OBVIOUS
<1>1. PICK keys \in SUBSET OldKeys :
        LET pf == Loaded([Installed EXCEPT !.shown = keys])
        IN  page = pf[1] /\ prefs = pf[2]
  BY DEF Init
<1> DEFINE f == [Installed EXCEPT !.shown = keys]
           r == Loaded(f)
<1>2. Saved(f) BY DEF Saved, Installed, PrefFields
<1>3. page = r[1] /\ prefs = r[2] BY <1>1
<1> HIDE DEF f
<1>4. Fine(r[1], r[2]) /\ r[1].grid.w = Ratios(f) /\ r[2].widths = f.widths
  BY <1>2, Loading
<1> HIDE DEF r
<1>5. Ratio(page, prefs) BY <1>3, <1>4 DEF Ratio, Ratios
<1> QED BY <1>3, <1>4, <1>5, EventsAssumption DEF Init, Layout, Held, Bounded

LEMMA Escaped ==
  ASSUME InOrder, NEW typing, Escape(typing)
  PROVE  InOrder'
<1> DEFINE p == Outside(page)
           q == IF HasMaximized(p) THEN Restored(p) ELSE p
           r == IF q.frame THEN CloseFrame(<<q, prefs>>) ELSE <<q, prefs>>
           t == IF r[1].fault THEN CloseFault(r) ELSE r
           u == IF typing THEN <<p, prefs>> ELSE t
<1>1. page' = u[1] /\ prefs' = u[2] /\ grip' = grip BY DEF Escape, Become
<1> DEFINE Agrees(x) == Fine(x[1], x[2]) /\ (Ratio(page, prefs) => Ratio(x[1], x[2]))
<1>2. Fine(p, prefs) /\ p.grid = page.grid BY OutsideKeeps DEF InOrder
<1> HIDE DEF p
<1>3. Fine(q, prefs) /\ q.grid = page.grid
  <2>1. "left" \in Columns BY DEF Columns
  <2>2. Fine(Restored(p), prefs) /\ Restored(p).grid = p.grid
    BY <1>2, <2>1, ColumnsKeep
  <2> QED BY <1>2, <2>2
<1> HIDE DEF q
<1>4. Agrees(<<p, prefs>>) /\ (Ratio(page, prefs) => Ratio(q, prefs))
  BY <1>2, <1>3 DEF Ratio
<1>5. Agrees(r) /\ r = <<r[1], r[2]>>
  <2>1. CASE q.frame
    <3>1. r = CloseFrame(<<q, prefs>>) BY <2>1
    <3> HIDE DEF r
    <3>2. BarsMoved(q, prefs, r) BY <1>3, <2>1, <3>1, BarsKeep
    <3> QED BY <1>3, <1>4, <3>2, BarsKeep
  <2>2. CASE ~q.frame
    <3>1. r = <<q, prefs>> BY <2>2
    <3> HIDE DEF r
    <3> QED BY <1>3, <1>4, <3>1
  <2> QED BY <2>1, <2>2
<1> HIDE DEF r
<1>6. Agrees(t)
  <2>1. CASE r[1].fault
    <3> DEFINE a == r[1]
               b == r[2]
    <3>1. t = CloseFault(<<a, b>>) BY <1>5, <2>1
    <3>2. Fine(a, b) /\ a.fault /\ (Ratio(page, prefs) => Ratio(a, b)) BY <1>5, <2>1
    <3> HIDE DEF t, a, b
    <3>3. BarsMoved(a, b, t) BY <3>1, <3>2, BarsKeep
    <3> QED BY <3>2, <3>3, BarsKeep
  <2>2. CASE ~r[1].fault BY <1>5, <2>2
  <2> QED BY <2>1, <2>2
<1> HIDE DEF t
<1>7. Agrees(u) BY <1>4, <1>6
<1> HIDE DEF u
<1> QED BY <1>1, <1>7 DEF InOrder, Held

\* The menu and the table, with the widths left alone.
LEMMA Picked ==
  ASSUME InOrder, NEW q, NEW g, Changes(page, q, {"menu", "table"}), Table(q, g),
         Saved(g), g.frame = prefs.frame, g.fault = prefs.fault, g.widths = prefs.widths
  PROVE  Fine(q, g) /\ (Ratio(page, prefs) => Ratio(q, g))
<1>1. Changes(page, q, {"menu", "table", "grid"}) /\ q.grid = page.grid
  BY DEF Changes, PageFields
<1>2. Fits(q.grid) BY <1>1 DEF InOrder, Fine, Good, Laid
<1>3. Fine(page, prefs) BY DEF InOrder
<1>4. Fine(q, g) BY <1>1, <1>2, <1>3, Redrawn
<1> QED BY <1>1, <1>4 DEF Ratio, Ratios

LEMMA NextInOrder == InOrder /\ [Next]_vars => InOrder'
<1> SUFFICES ASSUME InOrder, [Next]_vars PROVE InOrder'
  OBVIOUS
<1>0. /\ Fine(page, prefs) /\ Held /\ Saved(prefs) /\ Doc(page) /\ Fits(page.grid)
      /\ DOMAIN page = PageFields /\ page.push \in {"none", "frame", "fault"}
      /\ Table(page, prefs)
  BY DEF InOrder, Fine, Good, Laid, Whole
<1>1. ASSUME NEW c \in Columns, ClickMaximize(c) PROVE InOrder'
  <2> DEFINE q == IF page.maxed = c THEN Restored(page) ELSE Maximize(page, c)
  <2>1. Click(q) /\ BarShown(c) BY <1>1 DEF ClickMaximize
  <2>2. c = "middle" \/ c \notin page.popped
    <3>1. c = "middle" \/ c \in Tracks BY DEF Columns, Tracks
    <3> QED BY <1>0, <2>1, <3>1, BarStands
  <2>3. Fine(Maximize(page, c), prefs)
    <3>1. CASE c = "middle" BY <1>0, <3>1 DEF Maximize
    <3>2. CASE c # "middle" BY <1>0, <2>2, <3>2, ColumnsKeep
    <3> QED BY <3>1, <3>2
  <2>4. Fine(q, prefs) /\ q.grid = page.grid BY <1>0, <2>3, ColumnsKeep
  <2> HIDE DEF q
  <2> QED BY <1>0, <2>1, <2>4, ClickedPage
<1>2. ASSUME NEW c \in Columns, ClickPopOut(c) PROVE InOrder'
  <2>1. Fine(PopOut(page, c), prefs) /\ PopOut(page, c).grid = page.grid
    BY <1>0, ColumnsKeep
  <2> QED BY <1>0, <1>2, <2>1, ClickedPage DEF ClickPopOut
<1>3. ASSUME NEW c \in Columns, ClickSnapBack(c) PROVE InOrder'
  <2>1. Fine(SnapBack(page, c), prefs) /\ SnapBack(page, c).grid = page.grid
    BY <1>0, <1>3, ColumnsKeep DEF ClickSnapBack
  <2> QED BY <1>0, <1>3, <2>1, ClickedPage DEF ClickSnapBack
<1>4. ASSUME NEW r, BarsMoved(page, prefs, r), ClickBoth(r) PROVE InOrder'
  <2>1. Ratio(page, prefs) BY <1>0, <1>4 DEF Held, ClickBoth
  <2>2. Fine(r[1], r[2]) /\ r = <<r[1], r[2]>> /\ Ratio(r[1], r[2])
    BY <1>0, <1>4, <2>1, BarsKeep
  <2> QED BY <1>4, <2>2, Clicked
<1>5. ASSUME ToggleFrame PROVE InOrder'
  BY <1>0, <1>4, <1>5, BarsKeep DEF ToggleFrame
<1>6. ASSUME ToggleFault PROVE InOrder'
  BY <1>0, <1>4, <1>6, BarsKeep DEF ToggleFault
<1>7. ASSUME NEW typing \in BOOLEAN, Escape(typing) PROVE InOrder'
  BY <1>7, Escaped
<1>8. ASSUME GripDown PROVE InOrder'
  <2>1. Rendered(page) \in Width BY <1>0, RenderedFits
  <2>2. Rendered(page) # <<>> BY <2>1 DEF Width
  <2>3. page' = page /\ prefs' = prefs /\ grip' = Rendered(page) BY <1>8 DEF GripDown
  <2> QED BY <1>0, <2>1, <2>2, <2>3 DEF InOrder, Held
<1>9. ASSUME NEW dx \in Moves, GripMove(dx) PROVE InOrder'
  <2> DEFINE w == Split(grip[1], grip[2], dx)
             q == [page EXCEPT !.grid = [px |-> TRUE, w |-> w]]
  <2>1. /\ page' = IF w[1] < 0 \/ w[2] < 0 THEN page ELSE q
        /\ prefs' = prefs /\ grip' = grip /\ grip # <<>>
    BY <1>9 DEF GripMove
  <2>2. w \in Int \X Int
    <3>1. dx \in Int BY RoomAssumption
    <3>2. grip[1] \in Nat /\ grip[2] \in Nat BY <1>0, <2>1 DEF Held, Width
    <3> QED BY <3>1, <3>2, SplitKeeps
  <2> HIDE DEF w
  <2>3. CASE w[1] < 0 \/ w[2] < 0 BY <1>0, <2>1, <2>3 DEF InOrder, Held
  <2>4. CASE ~(w[1] < 0 \/ w[2] < 0)
    <3>1. w \in Width BY <2>2, <2>4 DEF Width
    <3>2. Changes(page, q, {"grid"}) /\ q.grid = [px |-> TRUE, w |-> w]
      BY <1>0 DEF Changes, PageFields
    <3> HIDE DEF q
    <3>3. q.table = page.table /\ q.menu = page.menu BY <3>2 DEF Changes, PageFields
    <3>4. Changes(page, q, {"menu", "table", "grid"}) /\ Fits(q.grid) /\ Table(q, prefs)
      BY <1>0, <3>1, <3>2, <3>3 DEF Changes, Fits, Table
    <3>5. Fine(q, prefs) BY <1>0, <3>4, Redrawn
    <3> QED BY <1>0, <2>1, <2>4, <3>5 DEF InOrder, Held
  <2> QED BY <2>3, <2>4
<1>10. ASSUME GripUp PROVE InOrder'
  <2> DEFINE g == [prefs EXCEPT !.widths = page.grid.w]
  <2>1. grip' = <<>> /\ page' = Outside(page) /\ prefs' = g BY <1>10 DEF GripUp
  <2>2. /\ Saved(g) /\ g.frame = prefs.frame /\ g.fault = prefs.fault
        /\ g.shown = prefs.shown /\ g.widths = page.grid.w
    BY <1>0 DEF Saved, PrefFields, Fits
  <2> HIDE DEF g
  <2>3. Fine(page, g) BY <1>0, <2>2 DEF Fine, Good, SideBars, Table, VisibleKeys
  <2>4. Fine(Outside(page), g) /\ Outside(page).grid = page.grid BY <2>3, OutsideKeeps
  <2>5. Ratio(Outside(page), g) BY <2>2, <2>4 DEF Ratio
  <2> QED BY <2>1, <2>4, <2>5 DEF InOrder, Held
<1>11. ASSUME ResetWidths PROVE InOrder'
  <2> DEFINE q == [page EXCEPT !.grid = [px |-> FALSE, w |-> Equal]]
             g == [prefs EXCEPT !.widths = <<>>]
  <2>1. ClickBoth(<<q, g>>) BY <1>11 DEF ResetWidths
  <2>2. /\ Saved(g) /\ g.frame = prefs.frame /\ g.fault = prefs.fault
        /\ g.shown = prefs.shown /\ g.widths = <<>>
    BY <1>0 DEF Saved, PrefFields
  <2>3. Changes(page, q, {"grid"}) /\ q.grid = [px |-> FALSE, w |-> Equal]
    BY <1>0 DEF Changes, PageFields
  <2> HIDE DEF q, g
  <2>4. q.table = page.table /\ q.menu = page.menu BY <2>3 DEF Changes, PageFields
  <2>5. Fits(q.grid) BY <2>3 DEF Fits, Equal, Restorable, Width
  <2>6. Changes(page, q, {"menu", "table", "grid"}) /\ Table(q, g)
    BY <1>0, <2>2, <2>3, <2>4 DEF Changes, Table, VisibleKeys
  <2>7. Fine(q, g) BY <1>0, <2>2, <2>5, <2>6, Redrawn
  <2>8. Ratio(q, g) BY <2>2, <2>3 DEF Ratio, Ratios, Restorable
  <2> QED BY <2>1, <2>7, <2>8, Clicked
<1>12. ASSUME ShowMenu PROVE InOrder'
  <2> DEFINE q == [page EXCEPT !.menu = [open |-> TRUE, checked |-> VisibleKeys(prefs)]]
  <2>1. page' = q /\ prefs' = prefs /\ grip' = grip BY <1>12 DEF ShowMenu
  <2>2. /\ Changes(page, q, {"menu", "table"})
        /\ q.menu = [open |-> TRUE, checked |-> VisibleKeys(prefs)]
        /\ q.table = page.table
    BY <1>0 DEF Changes, PageFields
  <2> HIDE DEF q
  <2>3. Table(q, prefs) BY <1>0, <2>2, KeysShown DEF Table
  <2>4. Fine(q, prefs) /\ (Ratio(page, prefs) => Ratio(q, prefs))
    BY <1>0, <2>2, <2>3, Picked
  <2> QED BY <1>0, <2>1, <2>4 DEF InOrder, Held
<1>13. ASSUME NEW key \in Keys, Check(key) PROVE InOrder'
  <2> DEFINE was == page.menu.checked
             now == IF key \in was THEN was \ {key} ELSE was \cup {key}
             q == [[page EXCEPT !.menu.checked = now] EXCEPT !.table = now]
             g == [prefs EXCEPT !.shown = now]
  <2>1. page' = q /\ prefs' = g /\ grip' = grip /\ now # {}
    BY <1>13 DEF Check, Become, SetVisibleKeys
  <2>2. now \subseteq Keys BY <1>0 DEF Table
  <2> HIDE DEF now
  <2>3. /\ Saved(g) /\ g.frame = prefs.frame /\ g.fault = prefs.fault /\ g.shown = now
        /\ g.widths = prefs.widths
    BY <1>0 DEF Saved, PrefFields
  <2>4. /\ Changes(page, q, {"menu", "table"}) /\ q.table = now
        /\ q.menu = [page.menu EXCEPT !.checked = now]
    BY <1>0 DEF Changes, PageFields
  <2> HIDE DEF q, g
  <2>5. VisibleKeys(g) = now BY <2>1, <2>2, <2>3 DEF VisibleKeys
  <2>6. q.menu.checked = now /\ DOMAIN q.menu = {"open", "checked"}
    BY <1>0, <2>4 DEF Table
  <2>7. Table(q, g) BY <2>2, <2>4, <2>5, <2>6 DEF Table
  <2>8. Fine(q, g) /\ (Ratio(page, prefs) => Ratio(q, g)) BY <2>3, <2>4, <2>7, Picked
  <2> QED BY <1>0, <2>1, <2>8 DEF InOrder, Held
<1>14. ASSUME NEW keys \in {Keys, Default}, MenuAction(keys) PROVE InOrder'
  <2> DEFINE q == [page EXCEPT !.table = keys]
             g == [prefs EXCEPT !.shown = keys]
             a == [q EXCEPT !.menu = NoMenu]
  <2>1. page' = a /\ prefs' = g /\ grip' = grip
    BY <1>14 DEF MenuAction, SetVisibleKeys, ClickBoth, Become, Outside
  <2>2. keys \subseteq Keys /\ keys # {} BY KeysAssumption
  <2>3. /\ Saved(g) /\ g.frame = prefs.frame /\ g.fault = prefs.fault /\ g.shown = keys
        /\ g.widths = prefs.widths
    BY <1>0 DEF Saved, PrefFields
  <2>4. Changes(page, a, {"menu", "table"}) /\ a.table = keys /\ a.menu = NoMenu
    BY <1>0 DEF Changes, PageFields
  <2> HIDE DEF a, g
  <2>5. VisibleKeys(g) = keys BY <2>2, <2>3 DEF VisibleKeys
  <2>6. Table(a, g) BY <2>4, <2>5 DEF Table, NoMenu
  <2>7. Fine(a, g) /\ (Ratio(page, prefs) => Ratio(a, g)) BY <2>3, <2>4, <2>6, Picked
  <2> QED BY <1>0, <2>1, <2>7 DEF InOrder, Held
<1>15. ASSUME NEW reset \in BOOLEAN, Reload(reset) PROVE InOrder'
  <2> DEFINE f == IF reset THEN [prefs EXCEPT !.shown = {}] ELSE prefs
             r == Loaded(f)
  <2>1. Saved(f) BY <1>0 DEF Saved, PrefFields
  <2>2. page' = r[1] /\ prefs' = r[2] /\ grip' = <<>> BY <1>15 DEF Reload, Become
  <2> HIDE DEF f
  <2>3. Fine(r[1], r[2]) /\ r[1].grid.w = Ratios(f) /\ r[2].widths = f.widths
    BY <2>1, Loading
  <2> HIDE DEF r
  <2>4. Ratio(r[1], r[2]) BY <2>3 DEF Ratio, Ratios
  <2> QED BY <2>2, <2>3, <2>4 DEF InOrder, Held
<1>16. CASE UNCHANGED vars \/ Done
  BY <1>0, <1>16 DEF vars, Done, InOrder, Held
<1> QED
  BY <1>1, <1>2, <1>3, <1>5, <1>6, <1>7, <1>8, <1>9, <1>10, <1>11, <1>12, <1>13, <1>14,
     <1>15, <1>16 DEF Next

LEMMA NextBounded == Bounded /\ [Next]_vars => Bounded'
<1> SUFFICES ASSUME Bounded, [Next]_vars PROVE Bounded'
  OBVIOUS
<1>1. events' = events \/ (events < MaxEvents /\ events' = events + 1)
  BY DEF Next, vars, ClickMaximize, ClickPopOut, ClickSnapBack, ToggleFrame, ToggleFault,
     Escape, GripDown, GripMove, GripUp, ResetWidths, ShowMenu, Check, MenuAction, Reload,
     Done, Click, ClickBoth, Event
<1> QED BY <1>1, EventsAssumption DEF Bounded

LEMMA InvLayout == Spec => []Layout
<1>1. Layout /\ [Next]_vars => Layout'
  BY NextInOrder, NextBounded DEF Layout, InOrder
<1> QED BY <1>1, InitLayout, PTL DEF Spec

-----------------------------------------------------------------------------
(* What the user chose is what a reload shows: one side bar at most, the    *)
(* room made for it, the table's columns and, unless the handle is held,    *)
(* the ratio of the columns (frameSidebar.js, faultSidebar.js,              *)
(* channelColumnPicker.js, resizableColumns.js).                            *)
THEOREM LayoutRemembered == Spec => []ChoicesRemembered
<1>1. ASSUME Layout PROVE ChoicesRemembered
  <2>1. /\ Good(page, prefs) /\ Saved(prefs) /\ SideBars(page, prefs)
        /\ Table(page, prefs) /\ Held
    BY <1>1 DEF Layout, Fine, Good
  <2>2. OneSidebar BY <2>1 DEF OneSidebar, SideBars, Tidy
  <2>3. ReloadShowsSame
    <3> DEFINE again == Loaded(prefs)[1]
    <3>1. /\ again.frame = (prefs.frame # "hidden" /\ prefs.fault # "shown")
          /\ again.fault = (prefs.fault = "shown") /\ again.grid.w = Ratios(prefs)
      BY <2>1, Loading
    <3> HIDE DEF again
    <3>2. again.frame = page.frame /\ again.fault = page.fault
      BY <2>1, <3>1 DEF SideBars, Tidy
    <3>3. ASSUME grip = <<>>, Restorable(page.grid.w)
          PROVE  again.grid.w = page.grid.w
      BY <2>1, <3>1, <3>3 DEF Held, Ratio, Ratios
    <3> QED BY <3>2, <3>3 DEF ReloadShowsSame, again
  <2>4. TableIsRemembered BY <2>1, KeysShown DEF TableIsRemembered, Table
  <2> QED BY <2>2, <2>3, <2>4 DEF ChoicesRemembered
<1> QED BY <1>1, InvLayout, PTL

(* Whatever order pop-outs, snaps and maximising come in, with the window   *)
(* opened again in between, every tool bar and every column body is in the  *)
(* document once, a placeholder stands for each column that is popped out   *)
(* and for no other, and what is maximised is a column with its children    *)
(* (columnPopout.js, columnMaximize.js).                                    *)
THEOREM PanelsAreKept == Spec => []PanelsSurvive
<1>1. ASSUME Layout PROVE PanelsSurvive
  <2>1. /\ Good(page, prefs) /\ Laid(page) /\ Saved(prefs) /\ Table(page, prefs)
        /\ Held /\ Bounded /\ Doc(page) /\ Marked(page)
    BY <1>1 DEF Layout, Fine, Good, Whole
  <2>2. TypeOK
    <3>1. page.popped \subseteq Columns /\ page.active \subseteq Columns
          /\ page.maxed \in Columns \cup {"none"}
      BY <2>1 DEF Doc, Marked, Tracks, Columns
    <3>2. page.push \in DOMAIN Room /\ page.grid.w \in Width
      BY <2>1, RoomAssumption DEF Laid, Fits
    <3>3. page.table \subseteq Keys /\ page.menu.checked \subseteq Keys
      BY <2>1, KeysShown DEF Table
    <3> QED BY <2>1, <3>1, <3>2, <3>3 DEF TypeOK, Saved, Held, Bounded
  <2>3. \A x : Times(x) = Copies(page, x) BY DEF Times, Copies
  <2>4. NothingLost /\ PlaceholderIsPopped
    <3>1. Columns \ {"middle"} = Tracks BY DEF Columns, Tracks
    <3> QED BY <2>1, <2>3, <3>1, Counted DEF NothingLost, PlaceholderIsPopped, Body, Place
  <2>5. MaximizedShows BY <2>1 DEF Marked, MaximizedShows, HasMaximized, Tracks
  <2> QED BY <2>2, <2>4, <2>5 DEF PanelsSurvive
<1> QED BY <1>1, InvLayout, PTL

(* A move of the handle takes from one column what it gives to the other    *)
(* and leaves neither under the minimum if the two had room for it          *)
(* (resizableColumns.js).                                                   *)
THEOREM ResizeFits == Spec => GripFits
<1>1. ASSUME Layout, NEW dx \in Moves, GripMove(dx)
      PROVE  LET w == page'.grid.w
             IN  /\ w[1] >= 0 /\ w[2] >= 0
                 /\ Total(grip) >= 2 * MinWidth =>
                      /\ Total(w) = Total(grip)
                      /\ w[1] >= MinWidth /\ w[2] >= MinWidth
  <2> DEFINE v == Split(grip[1], grip[2], dx)
             q == [page EXCEPT !.grid = [px |-> TRUE, w |-> v]]
  <2>1. page' = (IF v[1] < 0 \/ v[2] < 0 THEN page ELSE q) /\ grip # <<>>
    BY <1>1 DEF GripMove
  <2>2. grip[1] \in Nat /\ grip[2] \in Nat /\ page.grid.w \in Width
        /\ DOMAIN page = PageFields
    BY <1>1, <2>1 DEF Layout, Held, Width, Fine, Good, Laid, Fits
  <2>3. /\ v \in Int \X Int /\ Total(v) = Total(grip)
        /\ Total(grip) >= 2 * MinWidth => v[1] >= MinWidth /\ v[2] >= MinWidth
    <3>1. dx \in Int BY RoomAssumption
    <3> QED BY <2>2, <3>1, SplitKeeps DEF Total
  <2> HIDE DEF v
  <2>4. q.grid.w = v BY <2>2 DEF PageFields
  <2> HIDE DEF q
  <2>5. CASE v[1] < 0 \/ v[2] < 0
    <3>1. ~(Total(grip) >= 2 * MinWidth) BY <2>3, <2>5, RoomAssumption
    <3>2. page'.grid.w = page.grid.w BY <2>1, <2>5
    <3> QED BY <2>2, <3>1, <3>2 DEF Width
  <2>6. CASE ~(v[1] < 0 \/ v[2] < 0)
    <3>1. page'.grid.w = v BY <2>1, <2>4, <2>6
    <3> QED BY <2>3, <2>6, <3>1
  <2> QED BY <2>5, <2>6
<1>2. Layout /\ [Next]_vars =>
        [(\E dx \in Moves : GripMove(dx)) =>
           LET w == page'.grid.w
           IN  /\ w[1] >= 0 /\ w[2] >= 0
               /\ Total(grip) >= 2 * MinWidth =>
                    /\ Total(w) = Total(grip)
                    /\ w[1] >= MinWidth /\ w[2] >= MinWidth]_vars
  BY <1>1
<1> QED BY <1>2, InvLayout, PTL DEF Spec, GripFits
=============================================================================
