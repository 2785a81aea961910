------------------------- MODULE BackendClient_proofs -------------------------
(***************************************************************************)
(* Proofs about BackendClient for every set of commands, any number of     *)
(* calls and everything the connection, the timers, the user and the       *)
(* listeners may do.                                                       *)
(*                                                                         *)
(* A command travels from the queue to the connection and from there to    *)
(* the backend; its reply travels back.  Both ways are lines: sequences of *)
(* which one takes over at its end what the other gives away at its front. *)
(* What is proved of a line is that some relation holds between what is    *)
(* ahead and what is behind.                                               *)
(***************************************************************************)
EXTENDS BackendClient, SequenceTheorems, TLAPS

Made == DOMAIN calls
Entries == [cmd : Cmds, outcome : Outcomes, by : 0 .. MaxCalls,
            way : {"plain", "early", "kept"}]

\* Ahead in s means related by R.
Sorted(s, R) == \A i, j \in DOMAIN s : i < j => <<s[i], s[j]>> \in R
Precedes(s, t, R) == \A a \in ToSet(s), b \in ToSet(t) : <<a, b>> \in R
Lined(s, t, u, R) ==
    /\ Sorted(s, R) /\ Sorted(t, R) /\ Sorted(u, R)
    /\ Precedes(s, t, R) /\ Precedes(s, u, R) /\ Precedes(t, u, R)

Before == {p \in Numbers \X Numbers : p[1] < p[2]}
\* a may be executed ahead of b.
Ahead(a, b) == a # b /\ (a > b => calls[a].way = "early")
MayPrecede == {p \in Made \X Made : Ahead(p[1], p[2])}

\* What is on its way was called, nothing is on a connection that is not
\* there, and the queue is empty while the socket is open.
Travelling == ToSet(outbox) \cup ToSet(toServer) \cup ToSet(toClient)
OnTheWay ==
    /\ Travelling \cup ToSet(executed) \subseteq Made
    /\ conn \in {"connecting", "closed"} => toServer = <<>> /\ toClient = <<>>
    /\ conn = "open" => outbox = <<>>
    /\ \A k \in ToSet(outbox) : calls[k].way # "early"

\* The lists of the calls that wait.
WaitingFor(c) == {k \in Numbers : Waits(k) /\ calls[k].cmd = c}
Lists ==
    \A c \in Cmds : /\ Sorted(pending[c], Before)
                    /\ ToSet(pending[c]) = WaitingFor(c)

\* What was executed, what will be and what may be.
CommandLine == Lined(executed, toServer, outbox, MayPrecede)

\* While nothing has gone wrong the calls that wait are those whose command or
\* reply is on its way, and the oldest is ahead of all others.
AllPlain ==
    \A k \in Made : calls[k].outcome # "timeout" /\ calls[k].way = "plain"
ReplyLine ==
    AllPlain =>
        /\ Lined(toClient, toServer, outbox, Before)
        /\ Travelling = {k \in Made : Waits(k)}
        /\ \A k \in Made : calls[k].outcome = "answered" => calls[k].by = k

IInv == TypeOK /\ OnTheWay /\ Lists /\ CommandLine /\ ReplyLine
-----------------------------------------------------------------------------
(* Sequences and the sets of their elements.                               *)

LEMMA SetOfEmpty == ToSet(<<>>) = {}
  BY DEF ToSet

LEMMA SetOfAppend ==
    ASSUME NEW S, NEW s \in Seq(S), NEW e \in S
    PROVE  ToSet(Append(s, e)) = ToSet(s) \cup {e}
  BY AppendProperties, LenProperties DEF ToSet

LEMMA SetOfTail ==
    ASSUME NEW S, NEW s \in Seq(S), s # <<>>
    PROVE  /\ ToSet(s) = {s[1]} \cup ToSet(Tail(s))
           /\ s[1] \in S
  <1>1. /\ Tail(s) \in Seq(S) /\ Len(Tail(s)) = Len(s) - 1
        /\ \A i \in 1 .. Len(Tail(s)) : Tail(s)[i] = s[i + 1]
        /\ Len(s) \in Nat \ {0}
        /\ DOMAIN s = 1 .. Len(s) /\ DOMAIN Tail(s) = 1 .. Len(s) - 1
    BY HeadTailProperties, EmptySeq, LenProperties
  <1>2. ASSUME NEW i \in DOMAIN s
        PROVE  s[i] = s[1] \/ s[i] \in ToSet(Tail(s))
    <2>1. CASE i # 1
      <3>1. i - 1 \in DOMAIN Tail(s) /\ Tail(s)[i - 1] = s[i]
        BY <1>1, <2>1
      <3> QED BY <3>1 DEF ToSet
    <2> QED BY <2>1
  <1>3. 1 \in DOMAIN s /\ \A i \in DOMAIN Tail(s) : i + 1 \in DOMAIN s
    BY <1>1
  <1> QED BY SMTT(30), <1>1, <1>2, <1>3, ElementOfSeq DEF ToSet

LEMMA SetOfPrefix ==
    ASSUME NEW S, NEW s \in Seq(S), NEW n \in 0 .. Len(s)
    PROVE  /\ SubSeq(s, 1, n) \in Seq(S)
           /\ Len(SubSeq(s, 1, n)) = n
           /\ \A i \in 1 .. n : SubSeq(s, 1, n)[i] = s[i]
           /\ ToSet(SubSeq(s, 1, n)) \subseteq ToSet(s)
  <1>1. Len(s) \in Nat /\ DOMAIN s = 1 .. Len(s)
        /\ \A i \in 1 .. n : s[i] \in S
    BY LenProperties, ElementOfSeq
  <1>2. /\ SubSeq(s, 1, n) \in Seq(S)
        /\ Len(SubSeq(s, 1, n)) = n
        /\ \A i \in 1 .. n : SubSeq(s, 1, n)[i] = s[i]
    BY <1>1, SubSeqProperties
  <1>3. DOMAIN SubSeq(s, 1, n) = 1 .. n
    BY <1>2, LenProperties
  <1> QED BY <1>1, <1>2, <1>3 DEF ToSet

LEMMA SetOfConcat ==
    ASSUME NEW S, NEW s \in Seq(S), NEW t \in Seq(S)
    PROVE  ToSet(s \o t) = ToSet(s) \cup ToSet(t)
  <1>1. /\ s \o t \in Seq(S) /\ Len(s \o t) = Len(s) + Len(t)
        /\ \A i \in 1 .. Len(s) + Len(t) : (s \o t)[i] =
             IF i <= Len(s) THEN s[i] ELSE t[i - Len(s)]
        /\ Len(s) \in Nat /\ Len(t) \in Nat
        /\ DOMAIN (s \o t) = 1 .. Len(s) + Len(t)
        /\ DOMAIN s = 1 .. Len(s) /\ DOMAIN t = 1 .. Len(t)
    BY ConcatProperties, LenProperties
  <1>2. ToSet(s) \subseteq ToSet(s \o t)
    BY <1>1 DEF ToSet
  <1>3. ToSet(t) \subseteq ToSet(s \o t)
    <2>1. ASSUME NEW j \in DOMAIN t PROVE t[j] \in ToSet(s \o t)
      <3>1. Len(s) + j \in DOMAIN (s \o t) /\ (s \o t)[Len(s) + j] = t[j]
        BY <1>1
      <3> QED BY <3>1 DEF ToSet
    <2> QED BY <2>1 DEF ToSet
  <1>4. ToSet(s \o t) \subseteq ToSet(s) \cup ToSet(t)
    <2>1. ASSUME NEW i \in DOMAIN (s \o t)
          PROVE  (s \o t)[i] \in ToSet(s) \cup ToSet(t)
      <3>1. CASE i <= Len(s)
        BY <1>1, <3>1 DEF ToSet
      <3>2. CASE ~(i <= Len(s))
        <4>1. i - Len(s) \in DOMAIN t /\ (s \o t)[i] = t[i - Len(s)]
          BY <1>1, <3>2
        <4> QED BY <4>1 DEF ToSet
      <3> QED BY <3>1, <3>2
    <2> QED BY <2>1 DEF ToSet
  <1> QED BY <1>2, <1>3, <1>4

LEMMA SetOfElements ==
    ASSUME NEW S, NEW s \in Seq(S)
    PROVE  ToSet(s) \subseteq S /\ (s = <<>> <=> ToSet(s) = {})
  BY ElementOfSeq, LenProperties, EmptySeq DEF ToSet

(* Sorted sequences.                                                       *)

LEMMA SortedEmpty == ASSUME NEW R PROVE Sorted(<<>>, R)
  BY DEF Sorted

LEMMA SortedAppend ==
    ASSUME NEW S, NEW R, NEW s \in Seq(S), NEW e \in S, Sorted(s, R),
           \A a \in ToSet(s) : <<a, e>> \in R
    PROVE  Sorted(Append(s, e), R)
  <1>1. /\ Append(s, e) \in Seq(S) /\ Len(Append(s, e)) = Len(s) + 1
        /\ \A i \in 1 .. Len(s) : Append(s, e)[i] = s[i]
        /\ Append(s, e)[Len(s) + 1] = e
        /\ Len(s) \in Nat /\ DOMAIN s = 1 .. Len(s)
        /\ DOMAIN Append(s, e) = 1 .. Len(s) + 1
    BY AppendProperties, LenProperties
  <1>2. \A i \in DOMAIN s : <<s[i], e>> \in R
    BY DEF ToSet
  <1> QED BY <1>1, <1>2 DEF Sorted

LEMMA SortedTail ==
    ASSUME NEW S, NEW R, NEW s \in Seq(S), s # <<>>, Sorted(s, R)
    PROVE  /\ Tail(s) \in Seq(S)
           /\ Sorted(Tail(s), R)
           /\ \A b \in ToSet(Tail(s)) : <<s[1], b>> \in R
  <1>1. /\ Tail(s) \in Seq(S) /\ Len(Tail(s)) = Len(s) - 1
        /\ \A i \in 1 .. Len(Tail(s)) : Tail(s)[i] = s[i + 1]
        /\ Len(s) \in Nat \ {0}
        /\ DOMAIN s = 1 .. Len(s) /\ DOMAIN Tail(s) = 1 .. Len(s) - 1
    BY HeadTailProperties, EmptySeq, LenProperties
  <1>2. ASSUME NEW i \in DOMAIN Tail(s)
        PROVE  /\ Tail(s)[i] = s[i + 1] /\ i + 1 \in DOMAIN s
               /\ 1 \in DOMAIN s /\ 1 < i + 1
    BY <1>1
  <1>3. ASSUME NEW i \in DOMAIN Tail(s), NEW j \in DOMAIN Tail(s), i < j
        PROVE  <<Tail(s)[i], Tail(s)[j]>> \in R
    <2>1. i + 1 < j + 1
      BY <1>1, <1>3
    <2> QED BY <1>2, <2>1 DEF Sorted
  <1>4. \A i \in DOMAIN Tail(s) : <<s[1], Tail(s)[i]>> \in R
    BY <1>2 DEF Sorted
  <1> QED BY <1>1, <1>3, <1>4 DEF Sorted, ToSet

LEMMA SortedPrefix ==
    ASSUME NEW S, NEW R, NEW s \in Seq(S), NEW n \in 0 .. Len(s), Sorted(s, R)
    PROVE  Sorted(SubSeq(s, 1, n), R)
  <1>1. DOMAIN SubSeq(s, 1, n) = 1 .. n /\ DOMAIN s = 1 .. Len(s)
        /\ Len(s) \in Nat /\ \A i \in 1 .. n : SubSeq(s, 1, n)[i] = s[i]
    BY SetOfPrefix, LenProperties
  <1> QED BY <1>1 DEF Sorted

LEMMA SortedConcat ==
    ASSUME NEW S, NEW R, NEW s \in Seq(S), NEW t \in Seq(S),
           Sorted(s, R), Sorted(t, R), Precedes(s, t, R)
    PROVE  Sorted(s \o t, R)
  <1>1. /\ Len(s \o t) = Len(s) + Len(t)
        /\ \A i \in 1 .. Len(s) + Len(t) : (s \o t)[i] =
             IF i <= Len(s) THEN s[i] ELSE t[i - Len(s)]
        /\ Len(s) \in Nat /\ Len(t) \in Nat
        /\ DOMAIN (s \o t) = 1 .. Len(s) + Len(t)
        /\ DOMAIN s = 1 .. Len(s) /\ DOMAIN t = 1 .. Len(t)
    BY ConcatProperties, LenProperties
  <1>2. ASSUME NEW i \in DOMAIN (s \o t), NEW j \in DOMAIN (s \o t), i < j
        PROVE  <<(s \o t)[i], (s \o t)[j]>> \in R
    <2>1. CASE j <= Len(s)
      <3>1. /\ i \in DOMAIN s /\ j \in DOMAIN s
            /\ (s \o t)[i] = s[i] /\ (s \o t)[j] = s[j]
        BY <1>1, <1>2, <2>1
      <3> QED BY <1>2, <3>1 DEF Sorted
    <2>2. CASE i <= Len(s) /\ ~(j <= Len(s))
      <3>1. /\ i \in DOMAIN s /\ j - Len(s) \in DOMAIN t
            /\ (s \o t)[i] = s[i] /\ (s \o t)[j] = t[j - Len(s)]
        BY <1>1, <1>2, <2>2
      <3> QED BY <3>1 DEF Precedes, ToSet
    <2>3. CASE ~(i <= Len(s))
      <3>1. /\ i - Len(s) \in DOMAIN t /\ j - Len(s) \in DOMAIN t
            /\ i - Len(s) < j - Len(s)
            /\ (s \o t)[i] = t[i - Len(s)] /\ (s \o t)[j] = t[j - Len(s)]
        BY <1>1, <1>2, <2>3
      <3> QED BY <3>1 DEF Sorted
    <2> QED BY <1>1, <2>1, <2>2, <2>3
  <1> QED BY <1>2 DEF Sorted

LEMMA SortedWeaker ==
    ASSUME NEW Q, NEW R, NEW s, Sorted(s, R),
           \A a, b \in ToSet(s) : <<a, b>> \in R => <<a, b>> \in Q
    PROVE  Sorted(s, Q)
  BY DEF Sorted, ToSet

\* A list from which one call is removed.
LEMMA RemovedFrom ==
    ASSUME NEW s \in Seq(Numbers), NEW k \in ToSet(s), Sorted(s, Before)
    PROVE  /\ Removed(s, k) \in Seq(Numbers)
           /\ Sorted(Removed(s, k), Before)
           /\ ToSet(Removed(s, k)) = ToSet(s) \ {k}
  <1> DEFINE n == CHOOSE i \in DOMAIN s : s[i] = k
             r == Removed(s, k)
  <1>1. DOMAIN s = 1 .. Len(s) /\ Len(s) \in Nat
        /\ \A i \in DOMAIN s : s[i] \in Numbers
    BY LenProperties, ElementOfSeq
  <1>2. n \in DOMAIN s /\ s[n] = k
    BY DEF ToSet
  <1>3. \A i \in DOMAIN s : s[i] = k => i = n
    <2> SUFFICES ASSUME NEW i \in DOMAIN s, s[i] = k, i # n PROVE FALSE
      OBVIOUS
    <2>1. k < k
      <3>1. i < n \/ n < i
        BY <1>1, <1>2
      <3> QED BY <1>1, <1>2, <3>1 DEF Sorted, Before
    <2> QED BY <1>1, <1>2, <2>1, ClientAssumption DEF Numbers
  <1>4. r = SubSeq(s, 1, n - 1) \o SubSeq(s, n + 1, Len(s))
    BY DEF Removed, RemoveAt
  <1> HIDE DEF n
  <1>5. /\ SubSeq(s, 1, n - 1) \in Seq(Numbers)
        /\ Len(SubSeq(s, 1, n - 1)) = n - 1
        /\ \A i \in 1 .. n - 1 : SubSeq(s, 1, n - 1)[i] = s[i]
    BY <1>1, <1>2, SubSeqProperties
  <1>6. /\ SubSeq(s, n + 1, Len(s)) \in Seq(Numbers)
        /\ Len(SubSeq(s, n + 1, Len(s))) = Len(s) - n
        /\ \A i \in 1 .. Len(s) - n : SubSeq(s, n + 1, Len(s))[i] = s[n + i]
    <2>1. n + 1 \in Int /\ Len(s) \in Int /\ \A i \in n + 1 .. Len(s) : s[i] \in Numbers
      BY <1>1, <1>2
    <2>2. /\ SubSeq(s, n + 1, Len(s)) \in Seq(Numbers)
          /\ Len(SubSeq(s, n + 1, Len(s))) =
               IF n + 1 <= Len(s) THEN Len(s) - (n + 1) + 1 ELSE 0
          /\ \A i \in 1 .. Len(s) - (n + 1) + 1 :
               SubSeq(s, n + 1, Len(s))[i] = s[(n + 1) + i - 1]
      BY <2>1, SubSeqProperties
    <2>3. \A i \in 1 .. Len(s) - n : (n + 1) + i - 1 = n + i
      BY <1>1, <1>2
    <2>4. 1 .. Len(s) - (n + 1) + 1 = 1 .. Len(s) - n
      BY <1>1, <1>2
    <2> QED BY <1>1, <1>2, <2>2, <2>3, <2>4
  <1>7. /\ r \in Seq(Numbers)
        /\ Len(r) = Len(s) - 1
        /\ \A i \in 1 .. Len(s) - 1 : r[i] = IF i < n THEN s[i] ELSE s[i + 1]
    <2>1. /\ r \in Seq(Numbers)
          /\ Len(r) = (n - 1) + (Len(s) - n)
          /\ \A i \in 1 .. (n - 1) + (Len(s) - n) : r[i] =
               IF i <= n - 1 THEN SubSeq(s, 1, n - 1)[i]
                             ELSE SubSeq(s, n + 1, Len(s))[i - (n - 1)]
      BY SMTT(30), <1>4, <1>5, <1>6, ConcatProperties
    <2>2. ASSUME NEW i \in 1 .. Len(s) - 1
          PROVE  r[i] = IF i < n THEN s[i] ELSE s[i + 1]
      <3>1. i \in 1 .. (n - 1) + (Len(s) - n)
        BY <1>1, <1>2
      <3>2. CASE i < n
        BY <1>1, <1>2, <1>5, <2>1, <3>1, <3>2
      <3>3. CASE ~(i < n)
        <4>1. i - (n - 1) \in 1 .. Len(s) - n /\ n + (i - (n - 1)) = i + 1
              /\ ~(i <= n - 1)
          BY <1>1, <1>2, <3>3
        <4> QED BY <1>6, <2>1, <3>1, <3>3, <4>1
      <3> QED BY <3>2, <3>3
    <2> QED BY <1>1, <1>2, <2>1, <2>2
  <1> HIDE DEF r
  <1>8. DOMAIN r = 1 .. Len(s) - 1
    BY <1>7, LenProperties
  <1>9. ASSUME NEW i \in DOMAIN r
        PROVE  \E j \in DOMAIN s : j # n /\ r[i] = s[j]
                                   /\ j = IF i < n THEN i ELSE i + 1
    BY <1>1, <1>2, <1>7, <1>8
  <1>10. Sorted(r, Before)
    <2> SUFFICES ASSUME NEW i \in DOMAIN r, NEW j \in DOMAIN r, i < j
                 PROVE  <<r[i], r[j]>> \in Before
      BY DEF Sorted
    <2>1. PICK a \in DOMAIN s : r[i] = s[a] /\ a = IF i < n THEN i ELSE i + 1
      BY <1>9
    <2>2. PICK b \in DOMAIN s : r[j] = s[b] /\ b = IF j < n THEN j ELSE j + 1
      BY <1>9
    <2>3. a < b
      BY <1>1, <1>2, <1>8, <2>1, <2>2
    <2> QED BY <2>1, <2>2, <2>3 DEF Sorted
  <1>11. ToSet(r) \subseteq ToSet(s) \ {k}
    BY <1>3, <1>9 DEF ToSet
  <1>12. ASSUME NEW j \in DOMAIN s, j # n
         PROVE  s[j] \in ToSet(r)
    <2>1. CASE j < n
      <3>1. j \in DOMAIN r /\ r[j] = s[j]
        BY <1>1, <1>2, <1>7, <1>8, <2>1
      <3> QED BY <3>1 DEF ToSet
    <2>2. CASE n < j
      <3>1. j - 1 \in DOMAIN r /\ r[j - 1] = s[j]
        BY <1>1, <1>2, <1>7, <1>8, <2>2
      <3> QED BY <3>1 DEF ToSet
    <2> QED BY <1>1, <1>2, <1>12, <2>1, <2>2
  <1>13. ToSet(s) \ {k} \subseteq ToSet(r)
    BY <1>2, <1>12 DEF ToSet
  <1> QED BY <1>7, <1>10, <1>11, <1>13 DEF r

(* Lines.                                                                  *)

LEMMA LineMoves ==
    ASSUME NEW S, NEW R, NEW s \in Seq(S), NEW t \in Seq(S), NEW u \in Seq(S),
           Lined(s, t, u, R), t # <<>>
    PROVE  Lined(Append(s, t[1]), Tail(t), u, R)
  <1>1. /\ ToSet(t) = {t[1]} \cup ToSet(Tail(t)) /\ t[1] \in S
        /\ Sorted(Tail(t), R) /\ \A b \in ToSet(Tail(t)) : <<t[1], b>> \in R
    BY SetOfTail, SortedTail DEF Lined
  <1>2. ToSet(Append(s, t[1])) = ToSet(s) \cup {t[1]}
    BY <1>1, SetOfAppend
  <1>3. Sorted(Append(s, t[1]), R)
    BY <1>1, SortedAppend DEF Lined, Precedes
  <1> QED BY <1>1, <1>2, <1>3 DEF Lined, Precedes

LEMMA LineGrows ==
    ASSUME NEW S, NEW R, NEW s \in Seq(S), NEW t \in Seq(S), NEW u \in Seq(S),
           NEW e \in S, Lined(s, t, u, R),
           \A a \in ToSet(s) \cup ToSet(t) \cup ToSet(u) : <<a, e>> \in R
    PROVE  /\ Lined(s, t, Append(u, e), R)
           /\ u = <<>> => Lined(s, Append(t, e), u, R)
  <1>1. /\ ToSet(Append(u, e)) = ToSet(u) \cup {e}
        /\ ToSet(Append(t, e)) = ToSet(t) \cup {e}
    BY SetOfAppend
  <1>2. Sorted(Append(u, e), R) /\ Sorted(Append(t, e), R)
    BY SortedAppend DEF Lined
  <1> QED BY <1>1, <1>2, SetOfEmpty DEF Lined, Precedes

LEMMA LineShifts ==
    ASSUME NEW R, NEW s, NEW u, Lined(s, <<>>, u, R)
    PROVE  Lined(s, u, <<>>, R)
  BY SetOfEmpty, SortedEmpty DEF Lined, Precedes

LEMMA LineBreaks ==
    ASSUME NEW S, NEW R, NEW s \in Seq(S), NEW t \in Seq(S), NEW u \in Seq(S),
           Lined(s, t, u, R), NEW n \in 0 .. Len(t)
    PROVE  Lined(s \o SubSeq(t, 1, n), <<>>, u, R)
  <1> DEFINE h == SubSeq(t, 1, n)
  <1>1. h \in Seq(S) /\ ToSet(h) \subseteq ToSet(t)
    BY SetOfPrefix
  <1>2. Sorted(h, R)
    BY SortedPrefix DEF Lined
  <1> HIDE DEF h
  <1>3. Precedes(s, h, R) /\ Precedes(h, u, R)
    BY <1>1 DEF Lined, Precedes
  <1>4. Sorted(s \o h, R)
    BY <1>1, <1>2, <1>3, SortedConcat DEF Lined
  <1>5. ToSet(s \o h) = ToSet(s) \cup ToSet(h)
    BY <1>1, SetOfConcat
  <1>6. Lined(s \o h, <<>>, u, R)
    BY <1>3, <1>4, <1>5, SetOfEmpty, SortedEmpty DEF Lined, Precedes
  <1> QED BY <1>6 DEF h

LEMMA LineShrinks ==
    ASSUME NEW S, NEW R, NEW s \in Seq(S), NEW t, NEW u,
           Lined(s, t, u, R), s # <<>>
    PROVE  Lined(Tail(s), t, u, R)
  BY SetOfTail, SortedTail DEF Lined, Precedes

LEMMA LineWeaker ==
    ASSUME NEW Q, NEW R, NEW s, NEW t, NEW u, Lined(s, t, u, R),
           \A a, b \in ToSet(s) \cup ToSet(t) \cup ToSet(u) :
             <<a, b>> \in R => <<a, b>> \in Q
    PROVE  Lined(s, t, u, Q)
  <1>1. Sorted(s, Q) /\ Sorted(t, Q) /\ Sorted(u, Q)
    BY SortedWeaker DEF Lined
  <1> QED BY <1>1 DEF Lined, Precedes

-----------------------------------------------------------------------------
(* What the handlers of the page do to the calls and the lists.            *)

\* Calls keep their numbers, and a call of a listener stays one.
LEMMA OrderKept ==
    ASSUME Made \subseteq Made',
           \A k \in Made : calls[k].way = "early" => calls'[k].way = "early"
    PROVE  MayPrecede \subseteq MayPrecede'
  BY DEF MayPrecede, Ahead

LEMMA CallsAreEntries ==
    ASSUME TypeOK
    PROVE  /\ calls \in Seq(Entries) /\ Len(calls) \in 0 .. MaxCalls
           /\ Made = 1 .. Len(calls) /\ Made \subseteq Numbers
           /\ calls \in [Made -> Entries]
           /\ \A k \in Made : calls[k] \in Entries
  <1>1. calls \in Seq(Entries) /\ Len(calls) <= MaxCalls
    BY DEF TypeOK, Entries
  <1> QED BY <1>1, LenProperties, ClientAssumption DEF Made, Numbers

LEMMA EnterAdds ==
    ASSUME TypeOK, Lists, NEW c \in Cmds, NEW way \in {"plain", "early"},
           Enter(c, way)
    PROVE  /\ calls' \in Seq(Entries) /\ Len(calls') <= MaxCalls
           /\ Upcoming \in Numbers /\ Upcoming \notin Made
           /\ Made' = Made \cup {Upcoming}
           /\ \A k \in Made : calls'[k] = calls[k] /\ k < Upcoming
           /\ calls'[Upcoming].cmd = c /\ calls'[Upcoming].outcome = "waiting"
           /\ calls'[Upcoming].way = way
           /\ listed' \subseteq Cmds /\ pending' \in [Cmds -> Seq(Numbers)]
           /\ \A d \in Cmds : pending'[d] # <<>> => d \in listed'
           /\ Lists'
           /\ MayPrecede \subseteq MayPrecede'
  <1> DEFINE e == [cmd |-> c, outcome |-> "waiting", by |-> 0, way |-> way]
  <1>1. e \in Entries
    BY ClientAssumption DEF Entries, Outcomes
  <1>2. calls' = Append(calls, e) /\ Len(calls) < MaxCalls
    BY DEF Enter
  <1> HIDE DEF e
  <1>3. /\ calls' \in Seq(Entries) /\ Len(calls') = Len(calls) + 1
        /\ \A k \in 1 .. Len(calls) : calls'[k] = calls[k]
        /\ calls'[Len(calls) + 1] = e
        /\ DOMAIN calls' = 1 .. Len(calls) + 1
    BY <1>1, <1>2, CallsAreEntries, AppendProperties, LenProperties
  <1>4. Upcoming \in Numbers /\ Upcoming \notin Made /\ Len(calls') <= MaxCalls
        /\ Made' = Made \cup {Upcoming} /\ \A k \in Made : k < Upcoming
    BY <1>2, <1>3, CallsAreEntries, ClientAssumption DEF Numbers, Made, Upcoming
  <1>5. \A k \in Made : calls'[k] = calls[k]
    BY <1>3, CallsAreEntries
  <1>6. calls'[Upcoming] = e
    BY <1>3 DEF Upcoming
  <1>7. /\ pending' = [pending EXCEPT ![c] = Append(@, Upcoming)]
        /\ listed' = listed \union {c}
        /\ pending \in [Cmds -> Seq(Numbers)] /\ listed \subseteq Cmds
    BY DEF Enter, TypeOK
  <1>8. Append(pending[c], Upcoming) \in Seq(Numbers)
    BY <1>4, <1>7, AppendProperties
  <1>9. pending' \in [Cmds -> Seq(Numbers)]
        /\ \A d \in Cmds : pending'[d] =
             IF d = c THEN Append(pending[c], Upcoming) ELSE pending[d]
    BY <1>7, <1>8
  <1>10. \A d \in Cmds : pending'[d] # <<>> => d \in listed'
    BY <1>7, <1>9 DEF TypeOK
  <1>11. \A d \in Cmds : WaitingFor(d)' =
           IF d = c THEN WaitingFor(d) \cup {Upcoming} ELSE WaitingFor(d)
    BY <1>4, <1>5, <1>6 DEF WaitingFor, Waits, e, Made
  <1>12. Lists'
    <2> SUFFICES ASSUME NEW d \in Cmds
                 PROVE  Sorted(pending'[d], Before)
                        /\ ToSet(pending'[d]) = WaitingFor(d)'
      BY DEF Lists, Sorted, Before, ToSet
    <2>1. CASE d # c
      BY <1>9, <1>11, <2>1 DEF Lists
    <2>2. CASE d = c
      <3>1. ToSet(pending[c]) = WaitingFor(c) /\ Sorted(pending[c], Before)
        BY DEF Lists
      <3>2. \A a \in ToSet(pending[c]) : <<a, Upcoming>> \in Before
        BY <1>4, <3>1 DEF WaitingFor, Waits, Before, Made
      <3>3. Sorted(Append(pending[c], Upcoming), Before)
        BY <1>4, <1>7, <3>1, <3>2, SortedAppend
      <3>4. ToSet(Append(pending[c], Upcoming)) = ToSet(pending[c]) \cup {Upcoming}
        BY <1>4, <1>7, SetOfAppend
      <3> QED BY <1>9, <1>11, <2>2, <3>1, <3>3, <3>4
    <2> QED BY <2>1, <2>2
  <1>13. MayPrecede \subseteq MayPrecede'
    BY <1>4, <1>5, OrderKept
  <1> QED BY <1>3, <1>4, <1>5, <1>6, <1>7, <1>9, <1>10, <1>12, <1>13 DEF e

\* A call that waits is settled and leaves its list.
Settles(k, e) ==
    /\ calls' = [calls EXCEPT ![k] = e]
    /\ pending' = [pending EXCEPT ![calls[k].cmd] = Removed(@, k)]

LEMMA SettledLeaves ==
    ASSUME TypeOK, Lists, NEW k \in Numbers, Waits(k), NEW e \in Entries,
           e.cmd = calls[k].cmd, e.way = calls[k].way, e.outcome # "waiting",
           Settles(k, e)
    PROVE  /\ calls' \in Seq(Entries) /\ Len(calls') = Len(calls)
           /\ Made' = Made
           /\ \A j \in Made : calls'[j] = IF j = k THEN e ELSE calls[j]
           /\ \A j \in Made : Waits(j)' <=> Waits(j) /\ j # k
           /\ pending' \in [Cmds -> Seq(Numbers)]
           /\ \A d \in Cmds : d # calls[k].cmd => pending'[d] = pending[d]
           /\ Lists'
           /\ MayPrecede \subseteq MayPrecede'
  <1> DEFINE c == calls[k].cmd
  <1>1. k \in Made /\ k \in 1 .. Len(calls) /\ c \in Cmds
    BY CallsAreEntries DEF Waits, Made, Entries
  <1>2. /\ calls' \in Seq(Entries) /\ Len(calls') = Len(calls)
        /\ \A j \in 1 .. Len(calls) : calls'[j] = IF j = k THEN e ELSE calls[j]
    BY <1>1, CallsAreEntries, ExceptSeq DEF Settles
  <1>3. Made' = Made /\ \A j \in Made : calls'[j] = IF j = k THEN e ELSE calls[j]
    BY <1>2, CallsAreEntries, LenProperties DEF Made
  <1>4. \A j \in Made : Waits(j)' <=> Waits(j) /\ j # k
    BY <1>3 DEF Waits, Made
  <1> HIDE DEF c
  <1>5. pending \in [Cmds -> Seq(Numbers)] /\ k \in ToSet(pending[c])
        /\ Sorted(pending[c], Before) /\ ToSet(pending[c]) = WaitingFor(c)
    BY <1>1 DEF TypeOK, Lists, WaitingFor, c
  <1>6. /\ Removed(pending[c], k) \in Seq(Numbers)
        /\ Sorted(Removed(pending[c], k), Before)
        /\ ToSet(Removed(pending[c], k)) = WaitingFor(c) \ {k}
    BY <1>1, <1>5, RemovedFrom
  <1>7. /\ pending' \in [Cmds -> Seq(Numbers)]
        /\ \A d \in Cmds : pending'[d] =
             IF d = c THEN Removed(pending[c], k) ELSE pending[d]
    BY <1>1, <1>5, <1>6 DEF c, Settles
  <1>8. \A d \in Cmds : WaitingFor(d)' =
          IF d = c THEN WaitingFor(d) \ {k} ELSE WaitingFor(d)
    BY <1>1, <1>3, <1>4 DEF WaitingFor, Waits, c, Made
  <1>9. Lists'
    <2> SUFFICES ASSUME NEW d \in Cmds
                 PROVE  Sorted(pending'[d], Before)
                        /\ ToSet(pending'[d]) = WaitingFor(d)'
      BY DEF Lists, Sorted, Before, ToSet
    <2> QED BY <1>6, <1>7, <1>8 DEF Lists
  <1>10. MayPrecede \subseteq MayPrecede'
    BY <1>3, OrderKept
  <1> QED BY <1>2, <1>3, <1>4, <1>7, <1>9, <1>10 DEF c

\* Nothing waits after a close.
LEMMA CloseSettles ==
    ASSUME TypeOK, OnTheWay, OnClose
    PROVE  /\ calls' \in Seq(Entries) /\ Len(calls') = Len(calls)
           /\ Made' = Made
           /\ \A k \in Made : ~Waits(k) => calls'[k] = calls[k]
           /\ \A k \in Made : Waits(k) =>
                /\ calls'[k].outcome = "disconnected"
                /\ calls'[k].way = IF k \in ToSet(outbox) THEN "kept"
                                                          ELSE calls[k].way
           /\ \A k \in Numbers : ~Waits(k)'
           /\ pending' \in [Cmds -> Seq(Numbers)] /\ listed' = {}
           /\ \A d \in Cmds : pending'[d] = <<>>
           /\ Lists'
           /\ MayPrecede \subseteq MayPrecede'
  <1> DEFINE f == [k \in Made |->
                     IF Waits(k)
                     THEN [calls[k] EXCEPT !.outcome = "disconnected",
                             !.way = IF k \in ToSet(outbox) THEN "kept" ELSE @]
                     ELSE calls[k]]
  <1>1. calls' = f
    BY DEF OnClose, Made
  <1>2. ASSUME NEW k \in Made
        PROVE  /\ f[k] \in Entries
               /\ ~Waits(k) => f[k] = calls[k]
               /\ Waits(k) =>
                    /\ f[k].outcome = "disconnected"
                    /\ f[k].way = IF k \in ToSet(outbox) THEN "kept"
                                                         ELSE calls[k].way
    <2>1. calls[k] \in Entries
      BY CallsAreEntries
    <2> QED BY <2>1 DEF Entries, Outcomes
  <1> HIDE DEF f
  <1>3. f \in [1 .. Len(calls) -> Entries] /\ Len(calls) \in Nat
    <2>1. f = [k \in Made |-> f[k]]
      BY DEF f
    <2>2. Made = 1 .. Len(calls) /\ Len(calls) \in Nat
      BY CallsAreEntries
    <2> QED BY <1>2, <2>1, <2>2
  <1>4. f \in Seq(Entries) /\ Len(f) = Len(calls) /\ DOMAIN f = Made
    <2>1. f \in Seq(Entries)
      BY <1>3, SeqDef
    <2>2. DOMAIN f = 1 .. Len(f) /\ DOMAIN f = 1 .. Len(calls) /\ Len(f) \in Nat
      BY <1>3, <2>1, LenProperties
    <2>3. Len(f) = Len(calls)
      BY <1>3, <2>2
    <2> QED BY <2>1, <2>2, <2>3, CallsAreEntries
  <1>5. Made' = Made
    BY <1>1, <1>4 DEF Made
  <1>6. \A k \in Numbers : ~Waits(k)'
    BY <1>1, <1>2, <1>5 DEF Waits, Made
  <1>7. pending' = [c \in Cmds |-> <<>>] /\ listed' = {}
    BY DEF OnClose, AfterClose
  <1>8. pending' \in [Cmds -> Seq(Numbers)] /\ \A d \in Cmds : pending'[d] = <<>>
    BY <1>7, EmptySeq
  <1>9. Lists'
    <2> SUFFICES ASSUME NEW d \in Cmds
                 PROVE  Sorted(pending'[d], Before)
                        /\ ToSet(pending'[d]) = WaitingFor(d)'
      BY DEF Lists, Sorted, Before, ToSet
    <2>1. WaitingFor(d)' = {}
      BY <1>6 DEF WaitingFor
    <2> QED BY <1>8, <2>1, SetOfEmpty, SortedEmpty
  <1>10. MayPrecede \subseteq MayPrecede'
    <2>1. \A k \in Made : calls[k].way = "early" => calls'[k].way = "early"
      BY <1>1, <1>2 DEF OnTheWay
    <2> QED BY <1>5, <2>1, OrderKept
  <1> QED BY <1>1, <1>2, <1>4, <1>5, <1>6, <1>7, <1>8, <1>9, <1>10

-----------------------------------------------------------------------------
(* One lemma per step: the inductive invariant is kept.                    *)

LEMMA LinesAreTyped ==
    ASSUME TypeOK, OnTheWay
    PROVE  /\ outbox \in Seq(Numbers) /\ toServer \in Seq(Numbers)
           /\ toClient \in Seq(Numbers) /\ executed \in Seq(Numbers)
           /\ ToSet(outbox) \subseteq Made /\ ToSet(toServer) \subseteq Made
           /\ ToSet(toClient) \subseteq Made /\ ToSet(executed) \subseteq Made
  BY DEF TypeOK, OnTheWay, Travelling

\* A new call is behind all others, and may go ahead of them if it is a
\* listener's.
LEMMA NewcomerIsLast ==
    ASSUME TypeOK, Lists, NEW c \in Cmds, NEW way \in {"plain", "early"},
           Enter(c, way)
    PROVE  \A a \in Made : /\ <<a, Upcoming>> \in MayPrecede'
                           /\ <<a, Upcoming>> \in Before
                           /\ way = "early" => <<Upcoming, a>> \in MayPrecede'
  <1> SUFFICES ASSUME NEW a \in Made
               PROVE  /\ <<a, Upcoming>> \in MayPrecede'
                      /\ <<a, Upcoming>> \in Before
                      /\ way = "early" => <<Upcoming, a>> \in MayPrecede'
    OBVIOUS
  <1> DEFINE n == Upcoming
  <1>1. /\ n \in Numbers /\ Made' = Made \cup {n} /\ a < n /\ n \notin Made
        /\ calls'[n].way = way
    BY EnterAdds
  <1>2. a \in Numbers
    BY CallsAreEntries
  <1> HIDE DEF n
  <1>3. a \in Nat /\ n \in Nat
    BY <1>1, <1>2, ClientAssumption DEF Numbers
  <1>4. <<a, n>> \in MayPrecede' /\ <<a, n>> \in Before
    BY <1>1, <1>2, <1>3 DEF MayPrecede, Ahead, Before
  <1>5. way = "early" => <<n, a>> \in MayPrecede'
    BY <1>1, <1>2, <1>3 DEF MayPrecede, Ahead
  <1> QED BY <1>4, <1>5 DEF n

\* Who waits after a new call.
LEMMA NewcomerWaits ==
    ASSUME TypeOK, Lists, NEW c \in Cmds, NEW way \in {"plain", "early"},
           Enter(c, way)
    PROVE  /\ {k \in Made : Waits(k)}' = {k \in Made : Waits(k)} \cup {Upcoming}
           /\ AllPlain' => AllPlain /\ way = "plain"
           /\ (\A k \in Made : calls[k].outcome = "answered" => calls[k].by = k)
                => (\A k \in Made : calls[k].outcome = "answered" => calls[k].by = k)'
  <1>1. /\ Made' = Made \cup {Upcoming} /\ Upcoming \notin Made
        /\ \A k \in Made : calls'[k] = calls[k]
        /\ calls'[Upcoming].outcome = "waiting"
        /\ calls'[Upcoming].way = way
    BY EnterAdds
  <1> QED BY <1>1 DEF Waits, Made, AllPlain

LEMMA CallKeeps ==
    ASSUME IInv, NEW c \in Cmds, Call(c)
    PROVE  IInv'
  <1> DEFINE n == Upcoming
  <1>0. TypeOK /\ OnTheWay /\ Lists /\ CommandLine /\ ReplyLine
        /\ Enter(c, "plain")
    BY DEF IInv, Call
  <1>1. /\ calls' \in Seq(Entries) /\ Len(calls') <= MaxCalls
        /\ n \in Numbers /\ n \notin Made /\ Made' = Made \cup {n}
        /\ \A k \in Made : calls'[k] = calls[k]
        /\ calls'[n].way = "plain"
        /\ listed' \subseteq Cmds /\ pending' \in [Cmds -> Seq(Numbers)]
        /\ \A d \in Cmds : pending'[d] # <<>> => d \in listed'
        /\ Lists' /\ MayPrecede \subseteq MayPrecede'
    BY <1>0, EnterAdds
  <1>2. \A a \in Made : <<a, n>> \in MayPrecede' /\ <<a, n>> \in Before
    BY <1>0, NewcomerIsLast
  <1>3. /\ {k \in Made : Waits(k)}' = {k \in Made : Waits(k)} \cup {n}
        /\ AllPlain' => AllPlain
        /\ (\A k \in Made : calls[k].outcome = "answered" => calls[k].by = k)
             => (\A k \in Made : calls[k].outcome = "answered" => calls[k].by = k)'
    BY <1>0, NewcomerWaits
  <1> HIDE DEF n
  <1>4. conn' = conn /\ toClient' = toClient /\ executed' = executed
    BY DEF Call
  <1>5. \/ /\ conn = "open" /\ toServer' = Append(toServer, n) /\ outbox' = outbox
        \/ /\ conn # "open" /\ outbox' = Append(outbox, n) /\ toServer' = toServer
    BY DEF Call, n
  <1>a. ASSUME NEW q \in Seq(Numbers)
        PROVE  /\ Append(q, n) \in Seq(Numbers)
               /\ ToSet(Append(q, n)) = ToSet(q) \cup {n}
    <2>1. n \in Numbers
      BY <1>1
    <2> QED BY <2>1, AppendProperties, SetOfAppend
  <1>b. outbox \in Seq(Numbers) /\ toServer \in Seq(Numbers)
    BY <1>0, LinesAreTyped
  <1>6. outbox' \in Seq(Numbers) /\ toServer' \in Seq(Numbers)
    BY <1>5, <1>a, <1>b
  <1>7. \/ ToSet(toServer') = ToSet(toServer) \cup {n} /\ ToSet(outbox') = ToSet(outbox)
        \/ ToSet(outbox') = ToSet(outbox) \cup {n} /\ ToSet(toServer') = ToSet(toServer)
    BY <1>5, <1>a, <1>b
  <1>8. TypeOK'
    BY <1>0, <1>1, <1>4, <1>6 DEF TypeOK, Entries
  <1>9. OnTheWay'
    <2>1. Travelling' = Travelling \cup {n}
      BY <1>4, <1>7 DEF Travelling
    <2>2. (Travelling \cup ToSet(executed) \subseteq Made)'
      BY <1>0, <1>1, <1>4, <2>1 DEF OnTheWay
    <2>3. (conn = "open" => outbox = <<>>)'
          /\ (conn \in {"connecting", "closed"} => toServer = <<>> /\ toClient = <<>>)'
      BY <1>0, <1>4, <1>5 DEF OnTheWay
    <2>4. (\A k \in ToSet(outbox) : calls[k].way # "early")'
      BY <1>0, <1>1, <1>7, LinesAreTyped DEF OnTheWay
    <2> QED BY <2>2, <2>3, <2>4 DEF OnTheWay
  <1>10. ASSUME NEW R, NEW s \in Seq(Numbers), ToSet(s) \subseteq Made,
                Lined(s, toServer, outbox, R), \A a \in Made : <<a, n>> \in R
         PROVE  Lined(s, toServer', outbox', R)
    <2>1. Lined(s, toServer, Append(outbox, n), R)
          /\ (outbox = <<>> => Lined(s, Append(toServer, n), outbox, R))
      BY <1>0, <1>1, <1>10, LinesAreTyped, LineGrows
    <2> QED BY <1>0, <1>5, <2>1 DEF OnTheWay
  <1>11. CommandLine'
    <2>1. Lined(executed, toServer, outbox, MayPrecede')
      BY <1>0, <1>1, LineWeaker DEF CommandLine
    <2>2. Lined(executed, toServer', outbox', MayPrecede')
      BY <1>0, <1>2, <1>10, <2>1, LinesAreTyped
    <2> QED BY <1>4, <2>2 DEF CommandLine
  <1>12. ReplyLine'
    <2> SUFFICES ASSUME AllPlain'
                 PROVE  /\ Lined(toClient', toServer', outbox', Before)
                        /\ Travelling' = {k \in Made : Waits(k)}'
                        /\ (\A k \in Made : calls[k].outcome = "answered" => calls[k].by = k)'
      BY DEF ReplyLine, Lined, Sorted, Precedes, ToSet, Before
    <2>1. /\ Lined(toClient, toServer, outbox, Before)
          /\ Travelling = {k \in Made : Waits(k)}
          /\ \A k \in Made : calls[k].outcome = "answered" => calls[k].by = k
      BY <1>0, <1>3 DEF ReplyLine
    <2>2. Lined(toClient, toServer', outbox', Before)
      BY <1>0, <1>2, <1>10, <2>1, LinesAreTyped
    <2>3. Travelling' = Travelling \cup {n}
      BY <1>4, <1>7 DEF Travelling
    <2> QED BY <1>3, <1>4, <2>1, <2>2, <2>3
  <1> QED BY <1>1, <1>8, <1>9, <1>11, <1>12 DEF IInv

LEMMA OpensAndCallsKeeps ==
    ASSUME IInv, NEW c \in Cmds, OpensAndCalls(c)
    PROVE  IInv'
  <1> DEFINE n == Upcoming
  <1>0. TypeOK /\ OnTheWay /\ Lists /\ CommandLine /\ ReplyLine
        /\ Enter(c, "early")
    BY DEF IInv, OpensAndCalls
  <1>1. /\ calls' \in Seq(Entries) /\ Len(calls') <= MaxCalls
        /\ n \in Numbers /\ n \notin Made /\ Made' = Made \cup {n}
        /\ \A k \in Made : calls'[k] = calls[k]
        /\ calls'[n].way = "early"
        /\ listed' \subseteq Cmds /\ pending' \in [Cmds -> Seq(Numbers)]
        /\ \A d \in Cmds : pending'[d] # <<>> => d \in listed'
        /\ Lists' /\ MayPrecede \subseteq MayPrecede'
    BY <1>0, EnterAdds
  <1>2. \A a \in Made : <<a, n>> \in MayPrecede' /\ <<n, a>> \in MayPrecede'
    BY <1>0, NewcomerIsLast
  <1> HIDE DEF n
  <1>3. /\ conn = "connecting" /\ conn' = "open"
        /\ toClient' = toClient /\ executed' = executed
        /\ toServer' = <<n>> \o outbox /\ outbox' = <<>>
    BY DEF OpensAndCalls, Flushed, OutboxLeft, n
  <1>4. toServer = <<>> /\ toClient = <<>>
    BY <1>0, <1>3 DEF OnTheWay
  <1>5. <<n>> \in Seq(Numbers) /\ ToSet(<<n>>) = {n}
    BY <1>1 DEF ToSet
  <1>6. /\ <<n>> \o outbox \in Seq(Numbers)
        /\ ToSet(<<n>> \o outbox) = {n} \cup ToSet(outbox)
    <2>1. outbox \in Seq(Numbers)
      BY <1>0, LinesAreTyped
    <2>2. ASSUME NEW q \in Seq(Numbers)
          PROVE  /\ q \o outbox \in Seq(Numbers)
                 /\ ToSet(q \o outbox) = ToSet(q) \cup ToSet(outbox)
      BY <2>1, SetOfConcat, ConcatProperties
    <2> QED BY <1>5, <2>2
  <1>7. TypeOK'
    BY <1>0, <1>1, <1>3, <1>6, EmptySeq DEF TypeOK, Entries
  <1>8. OnTheWay'
    <2>1. Travelling' = Travelling \cup {n}
      BY <1>3, <1>4, <1>6, SetOfEmpty DEF Travelling
    <2> QED BY <1>0, <1>1, <1>3, <2>1, SetOfEmpty DEF OnTheWay
  <1>9. CommandLine'
    <2>1. Lined(executed, <<>>, outbox, MayPrecede')
      BY <1>0, <1>1, <1>4, LineWeaker DEF CommandLine
    <2>2. ToSet(outbox) \subseteq Made /\ ToSet(executed) \subseteq Made
          /\ outbox \in Seq(Numbers)
      BY <1>0, LinesAreTyped
    <2>3. Sorted(<<n>>, MayPrecede')
      BY DEF Sorted
    <2>4. Precedes(<<n>>, outbox, MayPrecede')
      BY <1>2, <1>5, <2>2 DEF Precedes
    <2>5. Sorted(<<n>> \o outbox, MayPrecede')
      BY <1>5, <2>1, <2>2, <2>3, <2>4, SortedConcat DEF Lined
    <2>6. Precedes(executed, <<n>> \o outbox, MayPrecede')
      BY <1>2, <1>6, <2>1, <2>2 DEF Lined, Precedes
    <2>7. Lined(executed, <<n>> \o outbox, <<>>, MayPrecede')
      BY <2>1, <2>5, <2>6, SetOfEmpty, SortedEmpty DEF Lined, Precedes
    <2> QED BY <1>3, <2>7 DEF CommandLine
  <1>10. ReplyLine'
    <2>1. ~AllPlain'
      BY <1>1 DEF AllPlain
    <2> QED BY <2>1 DEF ReplyLine
  <1> QED BY <1>1, <1>7, <1>8, <1>9, <1>10 DEF IInv

LEMMA TimeOutKeeps ==
    ASSUME IInv, NEW k \in Numbers, TimeOut(k)
    PROVE  IInv'
  <1> DEFINE e == [calls[k] EXCEPT !.outcome = "timeout"]
  <1>0. TypeOK /\ OnTheWay /\ Lists /\ CommandLine /\ Waits(k) /\ k \in Made
    BY DEF IInv, TimeOut, Waits, Made
  <1>1. e \in Entries /\ e.cmd = calls[k].cmd /\ e.way = calls[k].way
        /\ e.outcome = "timeout" /\ Settles(k, e)
        /\ UNCHANGED <<conn, listed, outbox, toServer, toClient, executed>>
    <2>1. calls[k] \in Entries
      BY <1>0, CallsAreEntries
    <2>2. Settles(k, e)
      BY <2>1 DEF TimeOut, Settles
    <2> QED BY <2>1, <2>2 DEF TimeOut, wire, Entries, Outcomes
  <1> HIDE DEF e
  <1>2. /\ calls' \in Seq(Entries) /\ Len(calls') = Len(calls)
        /\ Made' = Made /\ calls'[k] = e
        /\ \A j \in Made : calls'[j] = IF j = k THEN e ELSE calls[j]
        /\ pending' \in [Cmds -> Seq(Numbers)]
        /\ \A d \in Cmds : d # calls[k].cmd => pending'[d] = pending[d]
        /\ Lists' /\ MayPrecede \subseteq MayPrecede'
    BY <1>0, <1>1, SettledLeaves
  <1>3. calls[k].cmd \in listed
    BY DEF TimeOut, Expires
  <1>4. TypeOK'
    BY <1>0, <1>1, <1>2, <1>3 DEF TypeOK, Entries
  <1>5. OnTheWay'
    BY <1>0, <1>1, <1>2 DEF OnTheWay, Travelling
  <1>6. CommandLine'
    BY <1>0, <1>1, <1>2, LineWeaker DEF CommandLine
  <1>7. ReplyLine'
    <2>1. ~AllPlain'
      BY <1>0, <1>1, <1>2 DEF AllPlain
    <2> QED BY <2>1 DEF ReplyLine
  <1> QED BY <1>2, <1>4, <1>5, <1>6, <1>7 DEF IInv

\* Steps of the connection alone.
LEMMA ConnectionKeeps ==
    ASSUME IInv, Reconnect \/ SetBackend \/ UNCHANGED vars
    PROVE  IInv'
  <1>1. UNCHANGED <<calls, listed, pending, outbox, toServer, toClient, executed>>
        /\ conn' \in {"connecting", "open", "closing", "closed"}
        /\ (conn' = "open" => conn = "open")
        /\ (conn' \in {"connecting", "closed"} => conn \in {"connecting", "closed"})
    BY DEF Reconnect, SetBackend, vars, wire, IInv, TypeOK
  <1>2. TypeOK'
    BY <1>1 DEF IInv, TypeOK
  <1>3. OnTheWay'
    BY <1>1 DEF IInv, OnTheWay, Travelling, Made
  <1>4. Lists'
    BY <1>1 DEF IInv, Lists, WaitingFor, Waits, Sorted, ToSet
  <1>5. MayPrecede' = MayPrecede
    BY <1>1 DEF MayPrecede, Ahead, Made
  <1>6. CommandLine'
    BY <1>1, <1>5 DEF IInv, CommandLine
  <1>7. ReplyLine'
    BY <1>1 DEF IInv, ReplyLine, AllPlain, Travelling, Waits, Made
  <1> QED BY <1>2, <1>3, <1>4, <1>6, <1>7 DEF IInv

LEMMA OpensKeeps ==
    ASSUME IInv, Opens
    PROVE  IInv'
  <1>0. TypeOK /\ OnTheWay /\ Lists /\ CommandLine /\ ReplyLine
    BY DEF IInv
  <1>1. /\ conn = "connecting" /\ conn' = "open"
        /\ toServer' = outbox /\ outbox' = <<>>
        /\ UNCHANGED <<calls, listed, pending, toClient, executed>>
    BY DEF Opens, Flushed, OutboxLeft
  <1>2. toServer = <<>> /\ toClient = <<>>
    BY <1>0, <1>1 DEF OnTheWay
  <1>3. TypeOK'
    BY <1>0, <1>1, EmptySeq DEF TypeOK
  <1>4. Travelling' = Travelling
    BY <1>1, <1>2, SetOfEmpty DEF Travelling
  <1>5. OnTheWay'
    BY <1>0, <1>1, <1>4, SetOfEmpty DEF OnTheWay, Made
  <1>6. Lists'
    BY <1>0, <1>1 DEF Lists, WaitingFor, Waits, Sorted, ToSet
  <1>7. CommandLine'
    <2>1. Lined(executed, toServer', outbox', MayPrecede)
      BY <1>0, <1>1, <1>2, LineShifts DEF CommandLine
    <2>2. MayPrecede' = MayPrecede
      BY <1>1 DEF MayPrecede, Ahead, Made
    <2> QED BY <1>1, <2>1, <2>2 DEF CommandLine
  <1>8. ReplyLine'
    <2> SUFFICES ASSUME AllPlain
                 PROVE  /\ Lined(toClient, toServer', outbox', Before)
                        /\ Travelling = {k \in Made : Waits(k)}
                        /\ \A k \in Made : calls[k].outcome = "answered" => calls[k].by = k
      BY <1>1, <1>4 DEF ReplyLine, AllPlain, Made, Waits, Lined, Sorted, Precedes, ToSet
    <2>1. Lined(toClient, <<>>, outbox, Before)
      BY <1>0, <1>2 DEF ReplyLine
    <2> QED BY <1>0, <1>1, <2>1, LineShifts DEF ReplyLine
  <1> QED BY <1>3, <1>5, <1>6, <1>7, <1>8 DEF IInv

LEMMA ExecuteKeeps ==
    ASSUME IInv, Execute
    PROVE  IInv'
  <1> DEFINE x == toServer[1]
  <1>0. TypeOK /\ OnTheWay /\ Lists /\ CommandLine /\ ReplyLine
    BY DEF IInv
  <1>1. /\ conn \in {"open", "closing"} /\ toServer # <<>>
        /\ executed' = Append(executed, x) /\ toClient' = Append(toClient, x)
        /\ toServer' = Tail(toServer)
        /\ UNCHANGED <<conn, calls, listed, pending, outbox>>
    BY DEF Execute
  <1>2. /\ outbox \in Seq(Numbers) /\ toServer \in Seq(Numbers)
        /\ toClient \in Seq(Numbers) /\ executed \in Seq(Numbers)
    BY <1>0, LinesAreTyped
  <1>3. /\ ToSet(toServer) = {x} \cup ToSet(Tail(toServer)) /\ x \in Numbers
        /\ Tail(toServer) \in Seq(Numbers)
    BY <1>1, <1>2, SetOfTail, HeadTailProperties
  <1> HIDE DEF x
  <1>4. /\ executed' \in Seq(Numbers) /\ toClient' \in Seq(Numbers)
        /\ ToSet(executed') = ToSet(executed) \cup {x}
        /\ ToSet(toClient') = ToSet(toClient) \cup {x}
    BY <1>1, <1>2, <1>3, AppendProperties, SetOfAppend
  <1>5. TypeOK'
    BY <1>0, <1>1, <1>3, <1>4 DEF TypeOK
  <1>6. Travelling' = Travelling
    BY <1>1, <1>3, <1>4 DEF Travelling
  <1>7. OnTheWay'
    <2>1. x \in Made
      BY <1>0, <1>3 DEF OnTheWay, Travelling
    <2> QED BY <1>0, <1>1, <1>4, <1>6, <2>1 DEF OnTheWay, Made
  <1>8. Lists'
    BY <1>0, <1>1 DEF Lists, WaitingFor, Waits, Sorted, ToSet
  <1>9. CommandLine'
    <2>1. Lined(executed', toServer', outbox, MayPrecede)
      BY <1>0, <1>1, <1>2, LineMoves DEF CommandLine, x
    <2>2. MayPrecede' = MayPrecede
      BY <1>1 DEF MayPrecede, Ahead, Made
    <2> QED BY <1>1, <2>1, <2>2 DEF CommandLine
  <1>10. ReplyLine'
    <2> SUFFICES ASSUME AllPlain
                 PROVE  /\ Lined(toClient', toServer', outbox, Before)
                        /\ Travelling = {k \in Made : Waits(k)}
                        /\ \A k \in Made : calls[k].outcome = "answered" => calls[k].by = k
      BY ZenonT(30), <1>1, <1>6
      DEF ReplyLine, AllPlain, Made, Waits, Lined, Sorted, Precedes, ToSet
    <2>1. Lined(toClient, toServer, outbox, Before)
      BY <1>0 DEF ReplyLine
    <2>2. Lined(Append(toClient, x), Tail(toServer), outbox, Before)
      BY <1>1, <1>2, <2>1, LineMoves DEF x
    <2> QED BY <1>0, <1>1, <2>2 DEF ReplyLine
  <1> QED BY <1>5, <1>7, <1>8, <1>9, <1>10 DEF IInv

\* A connection that closes while all is well leaves nothing in the queue.
LEMMA CloseEmpties ==
    ASSUME TypeOK, OnTheWay, ReplyLine, OnClose, AllPlain'
    PROVE  /\ outbox = <<>>
           /\ {k \in Made : Waits(k)}' = {}
           /\ (\A k \in Made : calls[k].outcome = "answered" => calls[k].by = k)'
  <1>1. /\ Made' = Made
        /\ \A k \in Made : ~Waits(k) => calls'[k] = calls[k]
        /\ \A k \in Made : Waits(k) =>
             /\ calls'[k].outcome = "disconnected"
             /\ calls'[k].way = IF k \in ToSet(outbox) THEN "kept"
                                                       ELSE calls[k].way
        /\ \A k \in Numbers : ~Waits(k)'
    BY CloseSettles
  <1>2. \A k \in Made : Waits(k) => k \notin ToSet(outbox) /\ calls[k].way = "plain"
    BY <1>1 DEF AllPlain
  <1>3. AllPlain
    BY <1>1, <1>2 DEF AllPlain, Waits, Made
  <1>4. ToSet(outbox) \subseteq {k \in Made : Waits(k)}
    BY <1>3 DEF ReplyLine, Travelling
  <1>5. ToSet(outbox) = {}
    BY <1>2, <1>4
  <1>6. outbox = <<>>
    BY <1>5, LinesAreTyped, SetOfElements
  <1>7. {k \in Made : Waits(k)}' = {}
    BY <1>1, CallsAreEntries
  <1>8. ASSUME NEW k \in Made, calls'[k].outcome = "answered"
        PROVE  calls'[k].by = k
    BY <1>1, <1>3, <1>8 DEF ReplyLine
  <1> QED BY <1>1, <1>6, <1>7, <1>8

\* What the page and the connection keep when it closes, with what was
\* executed by then.
LEMMA CloseKeeps ==
    ASSUME IInv, OnClose, NEW n \in 0 .. Len(toServer),
           executed' = executed \o SubSeq(toServer, 1, n),
           toServer' = <<>>, toClient' = <<>>
    PROVE  IInv'
  <1>0. TypeOK /\ OnTheWay /\ CommandLine /\ ReplyLine
    BY DEF IInv
  <1>1. /\ calls' \in Seq(Entries) /\ Len(calls') = Len(calls)
        /\ Made' = Made
        /\ \A k \in Made : ~Waits(k) => calls'[k] = calls[k]
        /\ \A k \in Made : Waits(k) =>
             calls'[k].way = IF k \in ToSet(outbox) THEN "kept" ELSE calls[k].way
        /\ pending' \in [Cmds -> Seq(Numbers)] /\ listed' = {}
        /\ \A d \in Cmds : pending'[d] = <<>>
        /\ Lists' /\ MayPrecede \subseteq MayPrecede'
    BY <1>0, CloseSettles
  <1>2. conn' = "closed" /\ outbox' = outbox
    BY DEF OnClose
  <1>3. /\ outbox \in Seq(Numbers) /\ toServer \in Seq(Numbers)
        /\ executed \in Seq(Numbers)
        /\ SubSeq(toServer, 1, n) \in Seq(Numbers)
        /\ ToSet(SubSeq(toServer, 1, n)) \subseteq ToSet(toServer)
    <2>1. toServer \in Seq(Numbers)
      BY <1>0, LinesAreTyped
    <2> QED BY <1>0, <2>1, LinesAreTyped, SetOfPrefix
  <1>4. /\ executed' \in Seq(Numbers)
        /\ ToSet(executed') \subseteq ToSet(executed) \cup ToSet(toServer)
    <2> DEFINE q == SubSeq(toServer, 1, n)
    <2>1. q \in Seq(Numbers) /\ ToSet(q) \subseteq ToSet(toServer)
      BY <1>3
    <2> HIDE DEF q
    <2>2. executed \o q \in Seq(Numbers)
          /\ ToSet(executed \o q) = ToSet(executed) \cup ToSet(q)
      BY <1>3, <2>1, ConcatProperties, SetOfConcat
    <2> QED BY <2>1, <2>2 DEF q
  <1>5. TypeOK'
    BY <1>0, <1>1, <1>2, <1>3, <1>4, EmptySeq DEF TypeOK, Entries
  <1>6. OnTheWay'
    <2>1. Travelling' \subseteq Travelling
      BY <1>2, SetOfEmpty DEF Travelling
    <2>2. \A k \in ToSet(outbox) : calls'[k].way # "early"
      BY <1>0, <1>1, LinesAreTyped DEF OnTheWay
    <2>3. Travelling' \cup ToSet(executed') \subseteq Made
      BY <1>0, <1>4, <2>1 DEF OnTheWay, Travelling
    <2> QED BY <1>1, <1>2, <2>2, <2>3 DEF OnTheWay
  <1>7. CommandLine'
    <2>1. Lined(executed, toServer, outbox, MayPrecede')
      BY <1>0, <1>1, LineWeaker DEF CommandLine
    <2>2. Lined(executed', <<>>, outbox, MayPrecede')
      BY <1>3, <2>1, LineBreaks
    <2> QED BY <1>2, <2>2 DEF CommandLine
  <1>8. ReplyLine'
    <2> SUFFICES ASSUME AllPlain'
                 PROVE  /\ Lined(toClient', toServer', outbox', Before)
                        /\ Travelling' = {k \in Made : Waits(k)}'
                        /\ (\A k \in Made : calls[k].outcome = "answered" => calls[k].by = k)'
      BY DEF ReplyLine, Lined, Sorted, Precedes, ToSet, Before
    <2>1. /\ outbox = <<>>
          /\ {k \in Made : Waits(k)}' = {}
          /\ (\A k \in Made : calls[k].outcome = "answered" => calls[k].by = k)'
      BY <1>0, CloseEmpties
    <2>2. Travelling' = {}
      BY <1>2, <2>1, SetOfEmpty DEF Travelling
    <2>3. Lined(<<>>, <<>>, <<>>, Before)
      BY SetOfEmpty, SortedEmpty DEF Lined, Precedes
    <2> QED BY <1>2, <2>1, <2>2, <2>3
  <1> QED BY <1>1, <1>5, <1>6, <1>7, <1>8 DEF IInv

LEMMA EndsKeeps ==
    ASSUME IInv, Ends
    PROVE  IInv'
  <1>1. PICK n \in 0 .. Len(toServer) :
          executed' = executed \o SubSeq(toServer, 1, n)
    BY DEF Ends
  <1> QED BY <1>1, CloseKeeps DEF Ends

LEMMA FailsKeeps ==
    ASSUME IInv, Fails
    PROVE  IInv'
  <1>1. toServer = <<>> /\ toClient = <<>> /\ UNCHANGED <<toServer, toClient, executed>>
    BY DEF Fails, IInv, OnTheWay, wire
  <1>2. Len(toServer) = 0 /\ executed \in Seq(Numbers)
    BY <1>1 DEF IInv, TypeOK
  <1>3. SubSeq(toServer, 1, 0) = <<>>
    BY SubSeqEmpty
  <1>4. executed \o <<>> = executed
    BY <1>2, ConcatEmptySeq
  <1>5. 0 \in 0 .. Len(toServer)
    BY <1>2
  <1> QED BY <1>1, <1>3, <1>4, <1>5, CloseKeeps DEF Fails

\* The call that has waited longest for an answer to its command.
LEMMA OldestWaits ==
    ASSUME TypeOK, Lists, NEW c \in Cmds, pending[c] # <<>>
    PROVE  /\ Oldest(pending[c]) \in WaitingFor(c)
           /\ \A k \in WaitingFor(c) : k = Oldest(pending[c])
                                       \/ <<Oldest(pending[c]), k>> \in Before
  <1>1. pending[c] \in Seq(Numbers) /\ ToSet(pending[c]) = WaitingFor(c)
        /\ Sorted(pending[c], Before)
    BY DEF TypeOK, Lists
  <1>2. /\ ToSet(pending[c]) = {pending[c][1]} \cup ToSet(Tail(pending[c]))
        /\ \A k \in ToSet(Tail(pending[c])) : <<pending[c][1], k>> \in Before
    BY <1>1, SetOfTail, SortedTail
  <1> QED BY <1>1, <1>2 DEF Oldest

LEMMA ReceiveKeeps ==
    ASSUME IInv, Receive
    PROVE  IInv'
  <1> DEFINE h == toClient[1]
             c == calls[h].cmd
             first == Oldest(pending[c])
             e == [calls[first] EXCEPT !.outcome = "answered", !.by = h]
  <1>0. TypeOK /\ OnTheWay /\ Lists /\ CommandLine /\ ReplyLine
    BY DEF IInv
  <1>1. /\ conn = "open" /\ toClient # <<>> /\ toClient' = Tail(toClient)
        /\ UNCHANGED <<conn, outbox, toServer, executed>>
    BY DEF Receive
  <1>2. /\ outbox \in Seq(Numbers) /\ toServer \in Seq(Numbers)
        /\ toClient \in Seq(Numbers) /\ executed \in Seq(Numbers)
    BY <1>0, LinesAreTyped
  <1>3. /\ ToSet(toClient) = {h} \cup ToSet(Tail(toClient)) /\ h \in Made
        /\ h \in Numbers /\ Tail(toClient) \in Seq(Numbers) /\ c \in Cmds
        /\ calls[h] \in Entries
    <2>1. /\ ToSet(toClient) = {h} \cup ToSet(Tail(toClient))
          /\ Tail(toClient) \in Seq(Numbers)
      BY <1>1, <1>2, SetOfTail, SortedTail, HeadTailProperties
    <2>2. h \in Made
      BY <1>0, <2>1, LinesAreTyped
    <2> QED BY <1>0, <2>1, <2>2, CallsAreEntries DEF Entries
  <1>4. Travelling = {h} \cup Travelling' /\ Travelling' \subseteq Travelling
    BY <1>1, <1>3 DEF Travelling
  <1>5. CASE c \in listed /\ pending[c] # <<>>
    <2>1. /\ first \in WaitingFor(c)
          /\ \A k \in WaitingFor(c) : k = first \/ <<first, k>> \in Before
      BY <1>0, <1>3, <1>5, OldestWaits
    <2>2. /\ first \in Numbers /\ Waits(first) /\ first \in Made
          /\ calls[first].cmd = c /\ calls[first] \in Entries
      <3>1. first \in Numbers /\ Waits(first) /\ calls[first].cmd = c
        BY <2>1 DEF WaitingFor
      <3> QED BY <1>0, <3>1, CallsAreEntries DEF Waits, Made
    <2>3. /\ e \in Entries /\ e.cmd = calls[first].cmd /\ e.way = calls[first].way
          /\ e.outcome = "answered" /\ e.by = h
      <3>1. calls[first] \in Entries /\ h \in 0 .. MaxCalls
        BY <1>3, <2>2, ClientAssumption DEF Numbers
      <3> HIDE DEF first, h, c
      <3> QED BY <3>1 DEF Entries, Outcomes
    <2>4. /\ calls' = [calls EXCEPT ![first].outcome = "answered",
                                   ![first].by = h]
          /\ pending' = [pending EXCEPT ![c] = Removed(@, first)]
          /\ listed' = KeysAfter(c, pending'[c])
      BY <1>5 DEF Receive
    <2>5. calls' = [calls EXCEPT ![first] = e]
      <3>1. calls \in [Made -> Entries]
        BY <1>0, CallsAreEntries
      <3> QED BY <2>2, <2>4, <3>1
    <2> HIDE DEF e, first
    <2>6. Settles(first, e)
      BY <2>2, <2>4, <2>5 DEF Settles
    <2>7. /\ calls' \in Seq(Entries) /\ Len(calls') = Len(calls)
          /\ Made' = Made
          /\ \A j \in Made : calls'[j] = IF j = first THEN e ELSE calls[j]
          /\ \A j \in Made : Waits(j)' <=> Waits(j) /\ j # first
          /\ pending' \in [Cmds -> Seq(Numbers)]
          /\ \A d \in Cmds : d # calls[first].cmd => pending'[d] = pending[d]
          /\ Lists' /\ MayPrecede \subseteq MayPrecede'
      BY <1>0, <2>2, <2>3, <2>6, SettledLeaves
    <2>8. TypeOK'
      <3>1. \A d \in Cmds : pending'[d] # <<>> => d \in listed'
        <4>1. \A d \in Cmds : pending[d] # <<>> => d \in listed
          BY <1>0 DEF TypeOK
        <4>2. \A d \in Cmds : d # c => pending'[d] = pending[d]
          BY <2>2, <2>7
        <4> HIDE DEF c
        <4> QED BY <1>5, <2>4, <4>1, <4>2 DEF KeysAfter
      <3>2. listed' \subseteq Cmds
        BY <1>0, <2>4 DEF TypeOK, KeysAfter
      <3> QED BY <1>0, <1>1, <1>2, <1>3, <2>7, <3>1, <3>2 DEF TypeOK, Entries
    <2>9. OnTheWay'
      BY <1>0, <1>1, <1>4, <2>2, <2>3, <2>7, LinesAreTyped DEF OnTheWay
    <2>10. CommandLine'
      BY <1>0, <1>1, <2>7, LineWeaker DEF CommandLine
    <2>11. ReplyLine'
      <3> SUFFICES ASSUME AllPlain'
                   PROVE  /\ Lined(toClient', toServer', outbox', Before)
                          /\ Travelling' = {k \in Made : Waits(k)}'
                          /\ (\A k \in Made : calls[k].outcome = "answered" => calls[k].by = k)'
        BY DEF ReplyLine, Lined, Sorted, Precedes, ToSet, Before
      <3>1. AllPlain
        BY <2>2, <2>3, <2>7 DEF AllPlain, Waits
      <3>2. /\ Lined(toClient, toServer, outbox, Before)
            /\ Travelling = {k \in Made : Waits(k)}
            /\ \A k \in Made : calls[k].outcome = "answered" => calls[k].by = k
        BY <1>0, <3>1 DEF ReplyLine
      <3>3. \A k \in Travelling' : <<h, k>> \in Before
        BY <1>1, <1>2, <3>2, SortedTail, <1>3 DEF Lined, Precedes, Travelling
      <3>4. h \in WaitingFor(c)
        BY <1>3, <1>4, <3>2 DEF WaitingFor
      <3>5. h = first
        <4>1. h = first \/ <<first, h>> \in Before
          BY <2>1, <3>4 DEF first
        <4>2. h = first \/ <<h, first>> \in Before
          BY <1>4, <2>2, <3>2, <3>3
        <4>3. first \in Nat /\ h \in Nat
          BY <1>3, <2>2, ClientAssumption DEF Numbers
        <4> QED BY <4>1, <4>2, <4>3 DEF Before
      <3>6. h \notin Travelling'
        <4>1. h \in Nat
          BY <1>3, ClientAssumption DEF Numbers
        <4> HIDE DEF h
        <4>2. <<h, h>> \notin Before
          BY <4>1 DEF Before
        <4> QED BY <3>3, <4>2
      <3>7. Travelling' = {k \in Made : Waits(k)}'
        BY <1>4, <2>7, <3>2, <3>5, <3>6
      <3>8. Lined(toClient', toServer', outbox', Before)
        BY <1>1, <1>2, <3>2, LineShrinks
      <3> QED BY <2>3, <2>7, <3>2, <3>5, <3>7, <3>8
    <2> QED BY <2>7, <2>8, <2>9, <2>10, <2>11 DEF IInv
  <1>6. CASE ~(c \in listed /\ pending[c] # <<>>)
    <2>1. listed' = listed \ {c} /\ calls' = calls /\ pending' = pending
      BY <1>6 DEF Receive
    <2>2. pending[c] = <<>>
      BY <1>0, <1>3, <1>6 DEF TypeOK
    <2> HIDE DEF c
    <2>3. TypeOK'
      BY <1>0, <1>1, <1>2, <1>3, <2>1, <2>2 DEF TypeOK
    <2>4. OnTheWay'
      BY <1>0, <1>1, <1>4, <2>1 DEF OnTheWay, Made
    <2>5. Lists'
      BY <1>0, <2>1 DEF Lists, WaitingFor, Waits, Sorted, ToSet
    <2>6. CommandLine'
      <3>1. MayPrecede' = MayPrecede
        BY <2>1 DEF MayPrecede, Ahead, Made
      <3> QED BY <1>0, <1>1, <3>1 DEF CommandLine
    <2>7. ReplyLine'
      <3>1. ~AllPlain
        <4> SUFFICES ASSUME AllPlain PROVE FALSE
          OBVIOUS
        <4>1. h \in WaitingFor(c)
          BY <1>0, <1>3, <1>4 DEF ReplyLine, WaitingFor, c
        <4>2. WaitingFor(c) = {}
          BY <1>0, <1>3, <2>2, SetOfEmpty DEF Lists
        <4> QED BY <4>1, <4>2
      <3> QED BY <2>1, <3>1 DEF ReplyLine, AllPlain, Made
    <2> QED BY <2>3, <2>4, <2>5, <2>6, <2>7 DEF IInv
  <1> QED BY <1>5, <1>6

-----------------------------------------------------------------------------
LEMMA InitHolds == Init => IInv
  <1> SUFFICES ASSUME Init PROVE IInv
    OBVIOUS
  <1>1. calls = <<>> /\ DOMAIN calls = {} /\ Len(calls) = 0
    BY DEF Init
  <1>2. TypeOK
    BY <1>1, EmptySeq, ClientAssumption DEF Init, TypeOK
  <1>3. Travelling = {} /\ ToSet(executed) = {}
    BY SetOfEmpty DEF Init, Travelling
  <1>4. OnTheWay
    BY <1>3, SetOfEmpty DEF Init, OnTheWay
  <1>5. Lists
    BY <1>1, SetOfEmpty, SortedEmpty DEF Init, Lists, WaitingFor, Waits
  <1>6. \A R : Lined(<<>>, <<>>, <<>>, R)
    BY SetOfEmpty, SortedEmpty DEF Lined, Precedes
  <1>7. CommandLine /\ ReplyLine
    BY <1>1, <1>3, <1>6 DEF Init, CommandLine, ReplyLine, Made
  <1> QED BY <1>2, <1>4, <1>5, <1>7 DEF IInv

LEMMA NextKeeps == IInv /\ [Next]_vars => IInv'
  <1> SUFFICES ASSUME IInv, [Next]_vars PROVE IInv'
    OBVIOUS
  <1>1. CASE Next
    BY <1>1, CallKeeps, OpensAndCallsKeeps, TimeOutKeeps, OpensKeeps,
       ReceiveKeeps, FailsKeeps, EndsKeeps, ConnectionKeeps, ExecuteKeeps
    DEF Next
  <1>2. CASE UNCHANGED vars
    BY <1>2, ConnectionKeeps
  <1> QED BY <1>1, <1>2

LEMMA InductiveInvariant == Spec => []IInv
  BY InitHolds, NextKeeps, PTL DEF Spec

(* No caller is forgotten: the list of a command holds its waiting calls   *)
(* and no others in the order they were made, however calls, time-outs,    *)
(* replies and closes follow one another.                                  *)
THEOREM NobodyIsForgotten == Spec => []WaitingAreListed
  <1>1. IInv => WaitingAreListed
    <2> SUFFICES ASSUME TypeOK, Lists, NEW c \in Cmds
                 PROVE  /\ Increasing(pending[c])
                        /\ ToSet(pending[c]) = {k \in Numbers : Waits(k) /\ calls[k].cmd = c}
      BY DEF IInv, WaitingAreListed
    <2> QED BY DEF Lists, Sorted, Before, Increasing, WaitingFor
  <1> QED BY <1>1, InductiveInvariant, PTL

(* No command is executed twice, and none overtakes an earlier one but a   *)
(* listener's, whatever becomes of the connections.                        *)
THEOREM OnceAndInOrder == Spec => []ExecutedOnceInOrder
  <1>1. IInv => ExecutedOnceInOrder
    BY DEF IInv, CommandLine, Lined, Sorted, MayPrecede, Ahead,
       ExecutedOnceInOrder
  <1> QED BY <1>1, InductiveInvariant, PTL

(* The name of the command is enough to route a reply: it resolves the     *)
(* call it answers, until a call times out, a listener goes ahead of the   *)
(* queue or a close leaves commands in it.                                 *)
THEOREM RepliesFindTheirCalls == Spec => []RightPromise
  <1>1. IInv => RightPromise
    BY DEF IInv, ReplyLine, AllPlain, Made, RightPromise
  <1> QED BY <1>1, InductiveInvariant, PTL
=============================================================================
