---------------------------- MODULE SequenceLemmas ----------------------------
(***************************************************************************)
(* Facts about sequences, FlattenSeq, prefix-free codes, counting, orders  *)
(* and finite sums that the proofs about the components share.  The        *)
(* library's induction theorems take the formula as an operator; the one   *)
(* here takes it as the set it holds of.                                   *)
(***************************************************************************)
EXTENDS Integers, SequencesExt, SequenceTheorems, FiniteSetTheorems,
        WellFoundedInduction, TLAPS

\* A sequence, whatever its elements.
IsSeq(s) == s \in Seq({s[k] : k \in DOMAIN s})

LEMMA SeqIsSeq ==
  ASSUME NEW S, NEW s \in Seq(S)
  PROVE  IsSeq(s)
BY LenProperties, SeqDef DEF IsSeq

LEMMA IsSeqLen ==
  ASSUME NEW s, IsSeq(s)
  PROVE  Len(s) \in Nat /\ DOMAIN s = 1 .. Len(s)
BY LenProperties DEF IsSeq

LEMMA IsSeqEmpty == IsSeq(<<>>) /\ Len(<<>>) = 0 /\ DOMAIN <<>> = {}
<1>1. <<>> \in Seq({})
  BY EmptySeq
<1>2. IsSeq(<<>>)
  BY <1>1, SeqIsSeq
<1> QED
  BY <1>2, IsSeqLen

\* Sequences of one length with the same elements are one sequence.
LEMMA IsSeqEqual ==
  ASSUME NEW s, NEW t, IsSeq(s), IsSeq(t), Len(s) = Len(t),
         \A k \in 1 .. Len(s) : s[k] = t[k]
  PROVE  s = t
<1> DEFINE S == {s[k] : k \in DOMAIN s} \cup {t[k] : k \in DOMAIN t}
<1>1. s \in Seq(S) /\ t \in Seq(S)
  BY SeqMonotonic DEF IsSeq
<1> HIDE DEF S
<1> QED
  BY <1>1, SeqEqual

LEMMA IsSeqAppend ==
  ASSUME NEW s, IsSeq(s), NEW e
  PROVE  /\ IsSeq(Append(s, e))
         /\ Len(Append(s, e)) = Len(s) + 1
         /\ DOMAIN Append(s, e) = 1 .. Len(s) + 1
         /\ \A k \in 1 .. Len(s) : Append(s, e)[k] = s[k]
         /\ Append(s, e)[Len(s) + 1] = e
<1> DEFINE S == {s[k] : k \in DOMAIN s} \cup {e}
<1>1. s \in Seq(S) /\ e \in S
  BY SeqMonotonic DEF IsSeq
<1> HIDE DEF S
<1> DEFINE r == Append(s, e)
<1>2. /\ r \in Seq(S) /\ Len(r) = Len(s) + 1
      /\ \A k \in 1 .. Len(s) : r[k] = s[k]
      /\ r[Len(s) + 1] = e
  BY <1>1, AppendProperties
<1> HIDE DEF r
<1>3. IsSeq(r) /\ DOMAIN r = 1 .. Len(r)
  BY <1>2, SeqIsSeq, LenProperties
<1> QED
  BY <1>2, <1>3 DEF r

LEMMA IsSeqExcept ==
  ASSUME NEW s, IsSeq(s), NEW e, NEW n \in DOMAIN s
  PROVE  /\ IsSeq([s EXCEPT ![n] = e])
         /\ Len([s EXCEPT ![n] = e]) = Len(s)
         /\ DOMAIN [s EXCEPT ![n] = e] = DOMAIN s
         /\ \A k \in DOMAIN s : [s EXCEPT ![n] = e][k] = IF k = n THEN e ELSE s[k]
<1> DEFINE S == {s[k] : k \in DOMAIN s} \cup {e}
<1>1. s \in Seq(S) /\ e \in S
  BY SeqMonotonic DEF IsSeq
<1>2. DOMAIN s = 1 .. Len(s)
  BY IsSeqLen
<1> HIDE DEF S
<1> QED
  BY <1>1, <1>2, ExceptSeq, SeqIsSeq

\* A part of a sequence.
LEMMA IsSeqSubSeq ==
  ASSUME NEW s, IsSeq(s), NEW m \in 1 .. Len(s) + 1, NEW n \in 0 .. Len(s)
  PROVE  /\ IsSeq(SubSeq(s, m, n))
         /\ Len(SubSeq(s, m, n)) = IF m <= n THEN n - m + 1 ELSE 0
         /\ \A k \in 1 .. n - m + 1 : SubSeq(s, m, n)[k] = s[m + k - 1]
<1> DEFINE S == {s[k] : k \in DOMAIN s}
<1>1. s \in Seq(S)
  BY DEF IsSeq
<1>2. Len(s) \in Nat /\ DOMAIN s = 1 .. Len(s)
  BY IsSeqLen
<1>3. \A k \in m .. n : s[k] \in S
  BY <1>2
<1>4. m \in Int /\ n \in Int
  BY <1>2
<1> HIDE DEF S
<1> DEFINE r == SubSeq(s, m, n)
<1>5. /\ r \in Seq(S)
      /\ Len(r) = IF m <= n THEN n - m + 1 ELSE 0
      /\ \A k \in 1 .. n - m + 1 : r[k] = s[m + k - 1]
  BY <1>3, <1>4, SubSeqProperties
<1> HIDE DEF r
<1>6. IsSeq(r)
  BY <1>5, SeqIsSeq
<1> QED
  BY <1>5, <1>6 DEF r

\* Every element of a sequence that lost one was there before.
LEMMA IsSeqRemoveAt ==
  ASSUME NEW s, IsSeq(s), NEW n \in DOMAIN s
  PROVE  /\ IsSeq(RemoveAt(s, n))
         /\ Len(RemoveAt(s, n)) = Len(s) - 1
         /\ \A k \in 1 .. Len(s) - 1 : RemoveAt(s, n)[k] \in {s[j] : j \in DOMAIN s}
<1> DEFINE S == {s[k] : k \in DOMAIN s}
           a == SubSeq(s, 1, n - 1)
           b == SubSeq(s, n + 1, Len(s))
<1>1. Len(s) \in Nat /\ DOMAIN s = 1 .. Len(s)
  BY IsSeqLen
<1>2. (\A k \in 1 .. n - 1 : s[k] \in S) /\ (\A k \in n + 1 .. Len(s) : s[k] \in S)
  BY <1>1
<1>3. n - 1 \in Int /\ n + 1 \in Int /\ 1 \in Int /\ Len(s) \in Int
  BY <1>1
<1> HIDE DEF S
<1>4. a \in Seq(S) /\ Len(a) = n - 1
  BY <1>1, <1>2, <1>3, SubSeqProperties
<1>5. b \in Seq(S) /\ Len(b) = Len(s) - n
  BY <1>1, <1>2, <1>3, SubSeqProperties
<1> HIDE DEF a, b
<1>6. a \o b \in Seq(S) /\ Len(a \o b) = Len(a) + Len(b)
  BY <1>4, <1>5, ConcatProperties
<1>7. Len(a) + Len(b) = Len(s) - 1
  BY <1>1, <1>4, <1>5
<1>8. RemoveAt(s, n) = a \o b
  BY DEF RemoveAt, a, b
<1> DEFINE r == RemoveAt(s, n)
<1>9. r \in Seq(S) /\ Len(r) = Len(s) - 1
  BY <1>6, <1>7, <1>8
<1> HIDE DEF r
<1>10. \A k \in 1 .. Len(r) : r[k] \in S
  BY <1>9, ElementOfSeq
<1> QED
  BY <1>9, <1>10, SeqIsSeq DEF r, S

LEMMA IsSeqOf ==
  ASSUME NEW S, NEW s, IsSeq(s), \A k \in DOMAIN s : s[k] \in S
  PROVE  s \in Seq(S)
<1>1. {s[k] : k \in DOMAIN s} \subseteq S
  OBVIOUS
<1> QED
  BY <1>1, SeqMonotonic DEF IsSeq

\* The function q extends the sequence p by the element x.
Extends(q, p, x) ==
  /\ q = [k \in 1 .. Len(p) + 1 |-> q[k]]
  /\ \A k \in 1 .. Len(p) : q[k] = p[k]
  /\ q[Len(p) + 1] = x

LEMMA IsAppend ==
  ASSUME NEW S, NEW p \in Seq(S), NEW x \in S, NEW q,
         Extends(q, p, x)
  PROVE  q = Append(p, x)
<1> DEFINE r == Append(p, x)
<1>1. Len(p) \in Nat
  BY LenProperties
<1>2. r = [k \in 1 .. Len(p) + 1 |-> r[k]]
  <2>1. r \in [1 .. Len(r) -> S] /\ Len(r) = Len(p) + 1
    BY AppendProperties, LenProperties
  <2> HIDE DEF r
  <2> QED
    BY <2>1
<1>3. (\A k \in 1 .. Len(p) : r[k] = p[k]) /\ r[Len(p) + 1] = x
  BY AppendProperties
<1>4. \A k \in 1 .. Len(p) + 1 : k \in 1 .. Len(p) \/ k = Len(p) + 1
  BY <1>1
<1> HIDE DEF r
<1>5. \A k \in 1 .. Len(p) + 1 : q[k] = r[k]
  BY <1>3, <1>4 DEF Extends
<1>6. q = r
  BY <1>2, <1>5 DEF Extends
<1> QED
  BY <1>6 DEF r
-------------------------------------------------------------------------------
\* Induction from m on over the natural numbers in T.
LEMMA SetInduction ==
  ASSUME NEW T, NEW m \in Nat, m \in T,
         \A n \in Nat : m <= n /\ n \in T => n + 1 \in T
  PROVE  \A n \in Nat : m <= n => n \in T
<1> DEFINE R == OpToRel(<, Nat)
           U == {n \in Nat : m <= n /\ n \notin T}
<1>1. \A x, y \in Nat : <<y, x>> \in R <=> y < x
  BY DEF OpToRel
<1>2. U # {} => \E x \in U : \A y \in U : ~(<<y, x>> \in R)
  BY NatLessThanWellFounded, WFMin
<1> HIDE DEF R
<1>3. SUFFICES ASSUME U # {} PROVE FALSE
  OBVIOUS
<1>4. PICK x \in U : \A y \in U : ~(<<y, x>> \in R)
  BY <1>2, <1>3
<1>5. x \in Nat /\ m <= x /\ x \notin T
  OBVIOUS
<1>6. x # m /\ x - 1 \in Nat /\ m <= x - 1 /\ x - 1 < x
  BY <1>5
<1>7. x - 1 \notin T
  BY <1>5, <1>6
<1> QED
  BY <1>1, <1>4, <1>5, <1>6, <1>7

\* A non-empty set of naturals has a least element.
LEMMA LeastElement ==
  ASSUME NEW T \in SUBSET Nat, T # {}
  PROVE  \E x \in T : \A y \in T : x <= y
<1> DEFINE R == OpToRel(<, Nat)
<1>1. \A x, y \in Nat : <<y, x>> \in R <=> y < x
  BY DEF OpToRel
<1>2. \E x \in T : \A y \in T : ~(<<y, x>> \in R)
  BY NatLessThanWellFounded, WFMin
<1> HIDE DEF R
<1>3. PICK x \in T : \A y \in T : ~(<<y, x>> \in R)
  BY <1>2
<1>4. \A y \in T : y \in Nat
  OBVIOUS
<1>5. \A y \in T : ~(y < x)
  BY <1>1, <1>3, <1>4
<1> QED
  BY <1>4, <1>5

LEMMA LeastIsElement ==
  ASSUME NEW T \in SUBSET Nat, T # {}
  PROVE  Min(T) \in T
<1>1. \E x \in T : \A y \in T : x <= y
  BY LeastElement
<1> QED
  BY <1>1, Zenon DEF Min

\* What the quotient of a division is.
LEMMA Division ==
  ASSUME NEW n \in Nat, NEW d \in Nat \ {0}
  PROVE  n \div d \in Nat /\ d * (n \div d) <= n /\ n < d * (n \div d) + d
OBVIOUS
-------------------------------------------------------------------------------
(***************************************************************************)
(* FlattenSeq.  Concatenation is named, so that the provers meet it as an  *)
(* operator with the properties cited and nothing else.                    *)
(***************************************************************************)
Join(a, b) == a \o b

\* f tabulates the concatenations of the first parts of s.
Joined(f, s, n) ==
  f = [k \in 1 .. n |-> IF k = 1 THEN s[k] ELSE Join(f[k - 1], s[k])]

LEMMA JoinSeqType ==
  ASSUME NEW S, NEW a \in Seq(S), NEW b \in Seq(S)
  PROVE  Join(a, b) \in Seq(S)
BY ConcatProperties DEF Join

LEMMA JoinedExists ==
  ASSUME NEW s, NEW n \in Nat, 1 <= n
  PROVE  \E f : Joined(f, s, n)
<1> DEFINE T == {m \in Nat : \E f : Joined(f, s, m)}
<1>1. 1 \in T
  <2> DEFINE g == [k \in 1 .. 1 |-> s[k]]
  <2>1. g = [k \in 1 .. 1 |-> IF k = 1 THEN s[k] ELSE Join(g[k - 1], s[k])]
    OBVIOUS
  <2> HIDE DEF g
  <2> QED
    BY <2>1 DEF Joined
<1>2. ASSUME NEW m \in Nat, 1 <= m, m \in T
      PROVE  m + 1 \in T
  <2>1. PICK f : Joined(f, s, m)
    BY <1>2
  <2> DEFINE g == [k \in 1 .. m + 1 |-> IF k <= m THEN f[k] ELSE Join(f[k - 1], s[k])]
  <2>2. \A k \in 1 .. m : f[k] = IF k = 1 THEN s[k] ELSE Join(f[k - 1], s[k])
    BY <2>1, Zenon DEF Joined
  <2>3. \A k \in 1 .. m + 1 : k <= m => g[k] = f[k]
    OBVIOUS
  <2>4. \A k \in 1 .. m + 1 : k # 1 => k - 1 \in 1 .. m + 1 /\ k - 1 <= m
    BY <1>2
  <2>5. \A k \in 1 .. m + 1 : g[k] = IF k = 1 THEN s[k] ELSE Join(g[k - 1], s[k])
    <3> SUFFICES ASSUME NEW k \in 1 .. m + 1
                 PROVE  g[k] = IF k = 1 THEN s[k] ELSE Join(g[k - 1], s[k])
      OBVIOUS
    <3>1. CASE k <= m
      <4>1. k \in 1 .. m
        BY <3>1
      <4>2. k # 1 => g[k - 1] = f[k - 1]
        BY <2>3, <2>4
      <4> QED
        BY <2>2, <2>3, <3>1, <4>1, <4>2
    <3>2. CASE ~(k <= m)
      <4>1. k # 1
        BY <1>2, <3>2
      <4>2. g[k - 1] = f[k - 1]
        BY <2>3, <2>4, <4>1
      <4>3. g[k] = Join(f[k - 1], s[k])
        BY <3>2
      <4> QED
        BY <4>1, <4>2, <4>3
    <3> QED
      BY <3>1, <3>2
  <2>6. g = [k \in 1 .. m + 1 |-> g[k]]
    OBVIOUS
  <2> HIDE DEF g
  <2>7. Joined(g, s, m + 1)
    BY <2>5, <2>6 DEF Joined
  <2> QED
    BY <2>7
<1> HIDE DEF T
<1>3. n \in T
  BY <1>1, <1>2, SetInduction
<1> QED
  BY <1>3 DEF T

\* FlattenSeq of a non-empty sequence of sequences, one part at a time.
LEMMA FlattenParts ==
  ASSUME NEW S, NEW s \in Seq(Seq(S)), Len(s) # 0
  PROVE  \E f : /\ f \in [1 .. Len(s) -> Seq(S)]
                /\ f[1] = s[1]
                /\ \A k \in 1 .. Len(s) - 1 : f[k + 1] = Join(f[k], s[k + 1])
                /\ FlattenSeq(s) = f[Len(s)]
<1> DEFINE n == Len(s)
           f == CHOOSE g : Joined(g, s, n)
<1>1. n \in Nat /\ 1 <= n
  BY LenProperties
<1>2. Joined(f, s, n)
  BY <1>1, JoinedExists
<1>3. FlattenSeq(s) = f[n]
  BY DEF FlattenSeq, Joined, Join
<1> HIDE DEF f
<1>4. \A k \in 1 .. n : f[k] = IF k = 1 THEN s[k] ELSE Join(f[k - 1], s[k])
  BY <1>2, Zenon DEF Joined
<1>5. DOMAIN f = 1 .. n /\ f = [k \in 1 .. n |-> f[k]]
  BY <1>2, Zenon DEF Joined
<1>6. f[1] = s[1]
  BY <1>1, <1>4
<1>7. \A k \in 1 .. n - 1 : f[k + 1] = Join(f[k], s[k + 1])
  <2> SUFFICES ASSUME NEW k \in 1 .. n - 1
               PROVE  f[k + 1] = Join(f[k], s[k + 1])
    OBVIOUS
  <2>1. k + 1 \in 1 .. n /\ k + 1 # 1 /\ k + 1 - 1 = k
    BY <1>1
  <2> QED
    BY <1>4, <2>1
<1> DEFINE T == {k \in Nat : k <= n => f[k] \in Seq(S)}
<1>8. \A k \in 1 .. n : s[k] \in Seq(S)
  BY ElementOfSeq
<1>9. 1 \in T
  BY <1>1, <1>6, <1>8
<1>10. ASSUME NEW k \in Nat, 1 <= k, k \in T
       PROVE  k + 1 \in T
  <2>1. CASE k + 1 <= n
    <3>1. k \in 1 .. n - 1 /\ k <= n /\ k + 1 \in 1 .. n
      BY <1>1, <1>10, <2>1
    <3>2. f[k] \in Seq(S) /\ s[k + 1] \in Seq(S)
      BY <1>8, <1>10, <3>1
    <3> QED
      BY <1>7, <3>1, <3>2, JoinSeqType
  <2>2. CASE ~(k + 1 <= n)
    BY <2>2
  <2> QED
    BY <2>1, <2>2
<1>11. \A k \in 1 .. n : f[k] \in Seq(S)
  <2> HIDE DEF T
  <2>1. \A k \in Nat : 1 <= k => k \in T
    BY <1>9, <1>10, SetInduction
  <2> QED
    BY <1>1, <2>1 DEF T
<1>12. f \in [1 .. n -> Seq(S)]
  BY <1>5, <1>11
<1> QED
  BY <1>3, <1>6, <1>7, <1>12

\* What follows the last part is joined on.
LEMMA FlattenAppend ==
  ASSUME NEW S, NEW s \in Seq(Seq(S)), NEW x \in Seq(S)
  PROVE  /\ FlattenSeq(s) \in Seq(S)
         /\ FlattenSeq(Append(s, x)) = FlattenSeq(s) \o x
<1> DEFINE n == Len(s)
           t == Append(s, x)
<1>1. n \in Nat
  BY LenProperties
<1>2. /\ t \in Seq(Seq(S)) /\ Len(t) = n + 1
      /\ \A k \in 1 .. n : t[k] = s[k]
      /\ t[n + 1] = x
  BY AppendProperties
<1> HIDE DEF t
<1>3. PICK g : /\ g \in [1 .. Len(t) -> Seq(S)]
               /\ g[1] = t[1]
               /\ \A k \in 1 .. Len(t) - 1 : g[k + 1] = Join(g[k], t[k + 1])
               /\ FlattenSeq(t) = g[Len(t)]
  <2>1. Len(t) # 0
    BY <1>1, <1>2
  <2> QED
    BY <1>2, <2>1, FlattenParts
<1>4. CASE n = 0
  <2>1. s = <<>>
    BY <1>4, EmptySeq
  <2>2. FlattenSeq(s) = <<>>
    BY <1>4, <2>1 DEF FlattenSeq
  <2>3. FlattenSeq(t) = x
    BY <1>2, <1>3, <1>4
  <2>4. <<>> \in Seq(S) /\ <<>> \o x = x
    BY EmptySeq, ConcatEmptySeq
  <2> QED
    BY <2>2, <2>3, <2>4 DEF t
<1>5. CASE n # 0
  <2>1. PICK f : /\ f \in [1 .. n -> Seq(S)]
                 /\ f[1] = s[1]
                 /\ \A k \in 1 .. n - 1 : f[k + 1] = Join(f[k], s[k + 1])
                 /\ FlattenSeq(s) = f[n]
    BY <1>5, FlattenParts
  <2> HIDE DEF n
  <2> DEFINE T == {k \in Nat : k <= n => g[k] = f[k]}
  <2>2. 1 \in T
    <3>1. 1 \in 1 .. n
      BY <1>1, <1>5
    <3> QED
      BY <1>2, <1>3, <2>1, <3>1
  <2>3. ASSUME NEW k \in Nat, 1 <= k, k \in T
        PROVE  k + 1 \in T
    <3>1. CASE k + 1 <= n
      <4>1. k \in 1 .. n - 1 /\ k \in 1 .. Len(t) - 1 /\ k + 1 \in 1 .. n /\ k <= n
        BY <1>1, <1>2, <2>3, <3>1
      <4>2. g[k + 1] = Join(g[k], t[k + 1]) /\ f[k + 1] = Join(f[k], s[k + 1])
        BY <1>3, <2>1, <4>1
      <4>3. g[k] = f[k] /\ t[k + 1] = s[k + 1]
        BY <1>2, <2>3, <4>1
      <4> QED
        BY <4>2, <4>3
    <3>2. CASE ~(k + 1 <= n)
      BY <3>2
    <3> QED
      BY <3>1, <3>2
  <2> HIDE DEF T
  <2>4. n \in T
    BY <1>1, <1>5, <2>2, <2>3, SetInduction
  <2>5. g[n] = f[n]
    BY <1>1, <2>4 DEF T
  <2>6. n \in 1 .. Len(t) - 1 /\ n \in 1 .. n
    BY <1>1, <1>2, <1>5
  <2>7. g[n + 1] = Join(g[n], x)
    BY <1>2, <1>3, <2>6
  <2>8. FlattenSeq(t) = Join(FlattenSeq(s), x)
    BY <1>2, <1>3, <2>1, <2>5, <2>7
  <2>9. FlattenSeq(s) \in Seq(S)
    BY <2>1, <2>6
  <2> QED
    BY <2>8, <2>9 DEF Join, t
<1> QED
  BY <1>4, <1>5

\* Concatenations of parts of the same lengths are equal only part by part.
LEMMA JoinSplitLeft ==
  ASSUME NEW S, NEW a \in Seq(S), NEW b \in Seq(S), NEW x \in Seq(S), NEW y \in Seq(S),
         Join(a, x) = Join(b, y), Len(a) = Len(b)
  PROVE  a = b /\ x = y
<1>1. \A n \in 1 .. Len(a) : a[n] = b[n]
  BY ConcatProperties, LenProperties DEF Join
<1>2. a = b
  BY <1>1, SeqEqual
<1> QED
  BY <1>2, ConcatSimplifications DEF Join

LEMMA JoinAssociative ==
  ASSUME NEW S, NEW a \in Seq(S), NEW b \in Seq(S), NEW c \in Seq(S)
  PROVE  Join(Join(a, b), c) = Join(a, Join(b, c))
BY ConcatAssociative DEF Join

\* The words of C, whatever follows them, are told apart by reading on.
PrefixFree(C, S) ==
  /\ C \subseteq Seq(S)
  /\ \A c, d \in C, x, y \in Seq(S) : Join(c, x) = Join(d, y) => c = d /\ x = y

\* Sequences of as many words of a prefix-free code are read back, and so is what
\* follows them.
LEMMA FlattenDecodes ==
  ASSUME NEW S, NEW C, PrefixFree(C, S), NEW p \in Seq(C), NEW q \in Seq(C), Len(p) = Len(q),
         NEW x \in Seq(S), NEW y \in Seq(S),
         Join(FlattenSeq(p), x) = Join(FlattenSeq(q), y)
  PROVE  p = q /\ x = y
<1> DEFINE OK(a, b, u, v) == Join(FlattenSeq(a), u) = Join(FlattenSeq(b), v) => a = b /\ u = v
           T == {n \in Nat : \A a, b \in Seq(C), u, v \in Seq(S) :
                               Len(a) = n /\ Len(b) = n => OK(a, b, u, v)}
<1>1. C \subseteq Seq(S) /\ Seq(C) \subseteq Seq(Seq(S))
  BY SeqMonotonic DEF PrefixFree
<1>2. 0 \in T
  <2> SUFFICES ASSUME NEW a \in Seq(C), NEW b \in Seq(C), NEW u \in Seq(S), NEW v \in Seq(S),
                      Len(a) = 0, Len(b) = 0, Join(FlattenSeq(a), u) = Join(FlattenSeq(b), v)
               PROVE  a = b /\ u = v
    OBVIOUS
  <2>1. a = <<>> /\ b = <<>>
    BY EmptySeq
  <2>2. FlattenSeq(a) = <<>> /\ FlattenSeq(b) = <<>>
    BY <2>1 DEF FlattenSeq
  <2>3. <<>> \o u = u /\ <<>> \o v = v
    BY ConcatEmptySeq
  <2> QED
    BY <2>1, <2>2, <2>3 DEF Join
<1>3. ASSUME NEW n \in Nat, 0 <= n, n \in T
      PROVE  n + 1 \in T
  <2>0. n + 1 \in Nat
    OBVIOUS
  <2> SUFFICES ASSUME NEW a \in Seq(C), NEW b \in Seq(C), NEW u \in Seq(S), NEW v \in Seq(S),
                      Len(a) = n + 1, Len(b) = n + 1,
                      Join(FlattenSeq(a), u) = Join(FlattenSeq(b), v)
               PROVE  a = b /\ u = v
    BY <2>0, Zenon
  <2>1. a # <<>> /\ b # <<>>
    BY EmptySeq
  <2>2. PICK r \in Seq(C), c \in C : a = Append(r, c)
    BY <2>1, SequenceEmptyOrAppend
  <2>3. PICK s \in Seq(C), d \in C : b = Append(s, d)
    BY <2>1, SequenceEmptyOrAppend
  <2>4. Len(r) = n /\ Len(s) = n
    <3>1. Len(a) = Len(r) + 1 /\ Len(b) = Len(s) + 1
      BY <2>2, <2>3, AppendProperties
    <3> QED
      BY <3>1, LenProperties
  <2>5. r \in Seq(Seq(S)) /\ s \in Seq(Seq(S)) /\ c \in Seq(S) /\ d \in Seq(S)
    BY <1>1
  <2>6. /\ FlattenSeq(r) \in Seq(S) /\ FlattenSeq(s) \in Seq(S)
        /\ FlattenSeq(a) = Join(FlattenSeq(r), c) /\ FlattenSeq(b) = Join(FlattenSeq(s), d)
    BY <2>2, <2>3, <2>5, FlattenAppend DEF Join
  <2>7. Join(FlattenSeq(r), Join(c, u)) = Join(FlattenSeq(s), Join(d, v))
    BY <2>5, <2>6, JoinAssociative
  <2>8. Join(c, u) \in Seq(S) /\ Join(d, v) \in Seq(S)
    BY <2>5, JoinSeqType
  <2>9. r = s /\ Join(c, u) = Join(d, v)
    BY <1>3, <2>4, <2>7, <2>8
  <2>10. c = d /\ u = v
    BY <2>9 DEF PrefixFree
  <2> QED
    BY <2>2, <2>3, <2>9, <2>10
<1> HIDE DEF T
<1>4. \A n \in Nat : 0 <= n => n \in T
  BY <1>2, <1>3, SetInduction
<1>5. Len(p) \in T
  BY <1>4, LenProperties
<1> QED
  BY <1>5 DEF T

\* Every element of every part occurs in FlattenSeq.
LEMMA FlattenElements ==
  ASSUME NEW S, NEW s \in Seq(Seq(S)), NEW k \in 1 .. Len(s), NEW i \in 1 .. Len(s[k])
  PROVE  \E j \in 1 .. Len(FlattenSeq(s)) : FlattenSeq(s)[j] = s[k][i]
<1> DEFINE Occurs(a, e) == \E j \in 1 .. Len(FlattenSeq(a)) : FlattenSeq(a)[j] = e
           OK(a) == \A m \in 1 .. Len(a) : \A h \in 1 .. Len(a[m]) : Occurs(a, a[m][h])
           T == {n \in Nat : \A a \in Seq(Seq(S)) : Len(a) = n => OK(a)}
<1>1. 0 \in T
  OBVIOUS
<1>2. ASSUME NEW n \in Nat, 0 <= n, n \in T
      PROVE  n + 1 \in T
  <2>0. n + 1 \in Nat
    OBVIOUS
  <2> SUFFICES ASSUME NEW a \in Seq(Seq(S)), Len(a) = n + 1,
                      NEW m \in 1 .. Len(a), NEW h \in 1 .. Len(a[m])
               PROVE  Occurs(a, a[m][h])
    BY <2>0, Zenon
  <2>1. a # <<>>
    BY EmptySeq
  <2>2. PICK r \in Seq(Seq(S)), c \in Seq(S) : a = Append(r, c)
    BY <2>1, SequenceEmptyOrAppend
  <2>3. /\ Len(a) = Len(r) + 1 /\ \A x \in 1 .. Len(r) : a[x] = r[x]
        /\ a[Len(r) + 1] = c
    BY <2>2, AppendProperties
  <2>4. Len(r) \in Nat /\ Len(c) \in Nat /\ Len(r) = n
    BY <2>3, LenProperties
  <2> DEFINE f == FlattenSeq(r)
             g == FlattenSeq(a)
  <2>5. f \in Seq(S) /\ g = f \o c
    BY <2>2, FlattenAppend
  <2> HIDE DEF f, g
  <2>6. Len(f) \in Nat /\ Len(g) = Len(f) + Len(c)
        /\ \A x \in 1 .. Len(f) + Len(c) : g[x] = IF x <= Len(f) THEN f[x] ELSE c[x - Len(f)]
    BY <2>5, ConcatProperties, LenProperties
  <2>7. CASE m \in 1 .. n
    <3>1. a[m] = r[m] /\ m \in 1 .. Len(r)
      BY <2>3, <2>4, <2>7
    <3>2. Occurs(r, r[m][h])
      BY <1>2, <2>4, <3>1
    <3>3. PICK j \in 1 .. Len(f) : f[j] = r[m][h]
      BY <3>2 DEF f
    <3>4. j \in 1 .. Len(g) /\ g[j] = f[j]
      <4>1. j \in 1 .. Len(f) + Len(c) /\ j <= Len(f)
        BY <2>4, <2>6
      <4> QED
        BY <2>6, <4>1
    <3>5. g[j] = a[m][h]
      BY <3>1, <3>3, <3>4
    <3> QED
      BY <3>4, <3>5 DEF g
  <2>8. CASE m = n + 1
    <3>1. a[m] = c /\ h \in 1 .. Len(c)
      BY <2>3, <2>4, <2>8
    <3> DEFINE j == Len(f) + h
    <3>2. j \in 1 .. Len(g) /\ ~(j <= Len(f)) /\ j - Len(f) = h
      <4>1. Len(f) \in Nat /\ Len(c) \in Nat /\ Len(g) = Len(f) + Len(c)
        BY <2>4, <2>6
      <4> QED
        BY <3>1, <4>1
    <3> HIDE DEF j
    <3>3. g[j] = c[h]
      BY <2>6, <3>2
    <3>4. g[j] = a[m][h]
      BY <3>1, <3>3
    <3> QED
      BY <3>2, <3>4 DEF g
  <2> QED
    BY <2>4, <2>7, <2>8
<1> HIDE DEF T
<1>3. \A n \in Nat : 0 <= n => n \in T
  BY <1>1, <1>2, SetInduction
<1>4. Len(s) \in T
  BY <1>3, LenProperties
<1> QED
  BY <1>4 DEF T
-------------------------------------------------------------------------------
(***************************************************************************)
(* Counting.                                                               *)
(***************************************************************************)

\* A relation that pairs off the elements of two sets.
LEMMA SameCount ==
  ASSUME NEW S, NEW T, NEW M, IsFiniteSet(S),
         \A s \in S : \E t \in T : <<s, t>> \in M,
         \A t \in T : \E s \in S : <<s, t>> \in M,
         \A s \in S : \A t, u \in T : <<s, t>> \in M /\ <<s, u>> \in M => t = u,
         \A s, r \in S : \A t \in T : <<s, t>> \in M /\ <<r, t>> \in M => s = r
  PROVE  IsFiniteSet(T) /\ Cardinality(T) = Cardinality(S)
<1> DEFINE f == [s \in S |-> CHOOSE t \in T : <<s, t>> \in M]
<1>1. \A s \in S : f[s] \in T /\ <<s, f[s]>> \in M
  BY Zenon
<1>2. f \in [S -> T]
  BY <1>1, Zenon
<1> HIDE DEF f
<1>3. DOMAIN f = S
  BY <1>2
<1>4. \A s, r \in S : f[s] = f[r] => s = r
  BY <1>1
<1>5. \A t \in T : \E s \in S : f[s] = t
  BY <1>1
<1>6. f \in Bijection(S, T)
  BY <1>2, <1>3, <1>4, <1>5 DEF Bijection, Injection, Surjection, IsInjective
<1> QED
  BY <1>6, FS_Bijection DEF ExistsBijection

\* R is a strict total order of K.
Orders(R, K) ==
  /\ \A k \in K : <<k, k>> \notin R
  /\ \A i, j, k \in K : <<i, j>> \in R /\ <<j, k>> \in R => <<i, k>> \in R
  /\ \A j, k \in K : j = k \/ <<j, k>> \in R \/ <<k, j>> \in R

Below(R, K, k) == {j \in K : <<j, k>> \in R}

Place(R, K, k) == Cardinality(Below(R, K, k)) + 1

\* In a strict total order every place is taken, by one element.
LEMMA PlacesAreTaken ==
  ASSUME NEW R, NEW K, IsFiniteSet(K), Orders(R, K)
  PROVE  /\ \A k \in K : Place(R, K, k) \in 1 .. Cardinality(K)
         /\ \A j, k \in K : Place(R, K, j) = Place(R, K, k) => j = k
         /\ \A n \in 1 .. Cardinality(K) : \E k \in K : Place(R, K, k) = n
<1> DEFINE N == Cardinality(K)
           f == [k \in K |-> Place(R, K, k)]
<1>1. N \in Nat
  BY FS_CardinalityType
<1>2. \A k \in K : IsFiniteSet(Below(R, K, k)) /\ Cardinality(Below(R, K, k)) \in Nat
  BY FS_Subset, FS_CardinalityType DEF Below
<1>3. ASSUME NEW k \in K PROVE Place(R, K, k) \in 1 .. N
  <2>1. k \notin Below(R, K, k) /\ Below(R, K, k) \in SUBSET K
    BY DEF Orders, Below
  <2>2. Below(R, K, k) # K
    BY <2>1
  <2>3. Cardinality(Below(R, K, k)) <= N /\ Cardinality(Below(R, K, k)) # N
    BY <2>1, <2>2, FS_Subset
  <2> QED
    BY <1>1, <1>2, <2>3 DEF Place
<1>4. ASSUME NEW j \in K, NEW k \in K, <<j, k>> \in R
      PROVE  Place(R, K, j) # Place(R, K, k)
  <2>1. Below(R, K, j) \in SUBSET Below(R, K, k)
    BY <1>4 DEF Orders, Below
  <2>2. j \in Below(R, K, k) /\ j \notin Below(R, K, j)
    BY <1>4 DEF Orders, Below
  <2>3. Below(R, K, j) # Below(R, K, k)
    BY <2>2
  <2>4. Cardinality(Below(R, K, j)) # Cardinality(Below(R, K, k))
    BY <1>2, <2>1, <2>3, FS_Subset
  <2> QED
    BY <1>2, <2>4 DEF Place
<1>5. \A j, k \in K : Place(R, K, j) = Place(R, K, k) => j = k
  BY <1>4 DEF Orders
<1>6. \A k \in K : f[k] = Place(R, K, k)
  OBVIOUS
<1>7. f \in [K -> 1 .. N]
  BY <1>3
<1> HIDE DEF f, N
<1>8. DOMAIN f = K
  BY <1>7
<1>9. f \in Injection(K, 1 .. N)
  BY <1>5, <1>6, <1>7, <1>8 DEF Injection, IsInjective
<1>10. IsFiniteSet(1 .. N) /\ Cardinality(1 .. N) = N
  BY <1>1, FS_Interval
<1>11. f \in Surjection(K, 1 .. N)
  BY <1>9, <1>10, FS_Injection DEF N
<1>12. \A n \in 1 .. N : \E k \in K : Place(R, K, k) = n
  BY <1>6, <1>11 DEF Surjection
<1> QED
  BY <1>3, <1>5, <1>12 DEF N
-------------------------------------------------------------------------------
(***************************************************************************)
(* Sums over a finite set, as MapThenSumSet defines them: g is the table   *)
(* of the sums of F over the sets in D.                                    *)
(***************************************************************************)
Pick(s) == CHOOSE x \in s : TRUE

Sums(g, F, D) ==
  g = [s \in D |-> IF s = {} THEN 0 ELSE F[Pick(s)] + g[s \ {Pick(s)}]]

\* The subsets of S of at most n elements.
UpTo(S, n) == {s \in SUBSET S : Cardinality(s) <= n}

LEMMA PickElement ==
  ASSUME NEW s, s # {}
  PROVE  Pick(s) \in s
BY DEF Pick

LEMMA PickRemoved ==
  ASSUME NEW S, IsFiniteSet(S), NEW s \in SUBSET S, s # {}
  PROVE  /\ s \ {Pick(s)} \in SUBSET S
         /\ Cardinality(s) \in Nat
         /\ Cardinality(s \ {Pick(s)}) = Cardinality(s) - 1
<1>1. IsFiniteSet(s)
  BY FS_Subset
<1> QED
  BY <1>1, PickElement, FS_RemoveElement, FS_CardinalityType

\* There is such a table.
LEMMA SumsExist ==
  ASSUME NEW S, IsFiniteSet(S), NEW F
  PROVE  \E g : Sums(g, F, SUBSET S)
<1> DEFINE T == {n \in Nat : \E g : Sums(g, F, UpTo(S, n))}
<1>1. \A s \in SUBSET S : IsFiniteSet(s) /\ Cardinality(s) \in Nat
  BY FS_Subset, FS_CardinalityType
<1>2. 0 \in T
  <2> DEFINE g == [s \in UpTo(S, 0) |-> 0]
  <2>1. \A s \in UpTo(S, 0) : s = {}
    BY <1>1, FS_EmptySet DEF UpTo
  <2>2. g = [s \in UpTo(S, 0) |-> IF s = {} THEN 0 ELSE F[Pick(s)] + g[s \ {Pick(s)}]]
    BY <2>1
  <2> HIDE DEF g
  <2> QED
    BY <2>2 DEF Sums
<1>3. ASSUME NEW n \in Nat, n \in T
      PROVE  n + 1 \in T
  <2>1. PICK g : Sums(g, F, UpTo(S, n))
    BY <1>3
  <2> DEFINE h == [s \in UpTo(S, n + 1) |->
                     IF s = {} THEN 0 ELSE F[Pick(s)] + g[s \ {Pick(s)}]]
  <2>2. \A s \in UpTo(S, n) :
          /\ s \in UpTo(S, n + 1)
          /\ g[s] = IF s = {} THEN 0 ELSE F[Pick(s)] + g[s \ {Pick(s)}]
    <3>1. \A s \in UpTo(S, n) : s \in UpTo(S, n + 1)
      BY <1>1 DEF UpTo
    <3> QED
      BY <2>1, <3>1, Zenon DEF Sums
  <2>3. \A s \in UpTo(S, n) : h[s] = g[s]
    BY <2>2
  <2>4. \A s \in UpTo(S, n + 1) : s # {} => s \ {Pick(s)} \in UpTo(S, n)
    BY PickRemoved DEF UpTo
  <2>5. \A s \in UpTo(S, n + 1) :
          h[s] = IF s = {} THEN 0 ELSE F[Pick(s)] + h[s \ {Pick(s)}]
    BY <2>3, <2>4
  <2>6. h = [s \in UpTo(S, n + 1) |-> h[s]]
    OBVIOUS
  <2> HIDE DEF h
  <2>7. Sums(h, F, UpTo(S, n + 1))
    BY <2>5, <2>6 DEF Sums
  <2> QED
    BY <2>7
<1> DEFINE n == Cardinality(S)
<1>4. n \in Nat /\ UpTo(S, n) = SUBSET S
  BY <1>1, FS_Subset DEF UpTo
<1>5. \A m \in Nat : m \in T
  <2> HIDE DEF T
  <2> QED
    BY <1>2, <1>3, SetInduction
<1> HIDE DEF n
<1>6. \E g : Sums(g, F, UpTo(S, n))
  BY <1>4, <1>5
<1> QED
  BY <1>4, <1>6

\* A sum of naturals is at least each of them, and at least as many times any
\* lower bound of theirs as there are of them.
LEMMA SumsBounds ==
  ASSUME NEW S, IsFiniteSet(S), NEW F, NEW g, Sums(g, F, SUBSET S),
         NEW b \in Nat, \A x \in S : F[x] \in Nat /\ b <= F[x]
  PROVE  /\ g[S] \in Nat
         /\ \A x \in S : F[x] <= g[S]
         /\ b * Cardinality(S) <= g[S]
<1> DEFINE OK(s) == /\ g[s] \in Nat
                    /\ \A x \in s : F[x] <= g[s]
                    /\ b * Cardinality(s) <= g[s]
           T == {n \in Nat : \A s \in SUBSET S : Cardinality(s) = n => OK(s)}
<1>1. \A s \in SUBSET S : IsFiniteSet(s) /\ Cardinality(s) \in Nat
  BY FS_Subset, FS_CardinalityType
<1>2. \A s \in SUBSET S : g[s] = IF s = {} THEN 0 ELSE F[Pick(s)] + g[s \ {Pick(s)}]
  BY Zenon DEF Sums
<1>3. 0 \in T
  <2>1. \A s \in SUBSET S : Cardinality(s) = 0 => s = {}
    BY <1>1, FS_EmptySet
  <2>2. OK({})
    BY <1>2, FS_EmptySet
  <2> QED
    BY <2>1, <2>2
<1>4. ASSUME NEW n \in Nat, n \in T
      PROVE  n + 1 \in T
  <2> SUFFICES ASSUME NEW s \in SUBSET S, Cardinality(s) = n + 1
               PROVE  OK(s)
    OBVIOUS
  <2> DEFINE p == Pick(s)
             r == s \ {p}
  <2>1. s # {}
    <3>1. Cardinality({}) = 0
      BY FS_EmptySet
    <3>2. Cardinality(s) # 0
      OBVIOUS
    <3> QED
      BY <3>1, <3>2
  <2>2. p \in s /\ p \in S /\ r \in SUBSET S /\ Cardinality(r) = n
    BY <2>1, PickElement, PickRemoved
  <2>3. OK(r)
    BY <1>4, <2>2
  <2>4. g[s] = F[p] + g[r]
    BY <1>2, <2>1
  <2>5. F[p] \in Nat /\ b <= F[p]
    BY <2>2
  <2>6. \A x \in s : x = p \/ x \in r
    OBVIOUS
  <2>7. b * (n + 1) = b * n + b
    OBVIOUS
  <2> HIDE DEF p, r
  <2>8. g[s] \in Nat /\ b * (n + 1) <= g[s]
    BY <2>2, <2>3, <2>4, <2>5, <2>7
  <2>9. \A x \in s : F[x] <= g[s]
    BY <2>3, <2>4, <2>5, <2>6
  <2> QED
    BY <2>8, <2>9
<1>5. \A n \in Nat : n \in T
  <2> HIDE DEF T
  <2> QED
    BY <1>3, <1>4, SetInduction
<1> QED
  BY <1>1, <1>5
===============================================================================
