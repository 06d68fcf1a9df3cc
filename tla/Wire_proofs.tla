------------------------------ MODULE Wire_proofs ------------------------------
(***************************************************************************)
(* What the byte encodings of Wire promise, for every width of the fields: *)
(* the composite inputs of the hash, the KDF and the AEAD are injective,   *)
(* so that taking them as records (SCECrypto, Stream) loses nothing, and   *)
(* parsing undoes packing.                                                 *)
(***************************************************************************)
EXTENDS Wire, SequenceLemmas

-------------------------------------------------------------------------------
(***************************************************************************)
(* Concatenations and slices.                                              *)
(***************************************************************************)
\* Two concatenations of parts of the same lengths are equal only part by part.
LEMMA CatSplit ==
  ASSUME NEW a \in ByteString, NEW b \in ByteString, NEW x \in ByteString,
         NEW y \in ByteString, Len(a) = Len(b), a \o x = b \o y
  PROVE  a = b /\ x = y
<1>1. \A n \in 1 .. Len(a) : a[n] = b[n]
  BY ConcatProperties, LenProperties DEF ByteString
<1>2. a = b
  BY <1>1, SeqEqual DEF ByteString
<1> QED
  BY <1>2, ConcatSimplifications DEF ByteString

LEMMA Cat ==
  ASSUME NEW a \in ByteString, NEW b \in ByteString
  PROVE  a \o b \in ByteString /\ Len(a \o b) = Len(a) + Len(b) /\ Len(a) \in Nat
  BY ConcatProperties, LenProperties DEF ByteString

\* A slice is a byte string, of the length asked for as far as the string goes.
LEMMA SliceType ==
  ASSUME NEW b \in ByteString, NEW lo \in Nat, NEW hi \in Nat
  PROVE  /\ Slice(b, lo, hi) \in ByteString
         /\ lo <= hi /\ hi <= Len(b) => Len(Slice(b, lo, hi)) = hi - lo
         /\ Len(Slice(b, lo, hi)) \in Nat
         /\ lo <= hi => Len(Slice(b, lo, hi)) <= hi - lo
<1> DEFINE top == IF hi <= Len(b) THEN hi ELSE Len(b)
<1>1. Len(b) \in Nat /\ top \in Nat /\ top <= Len(b) /\ top <= hi
  BY LenProperties DEF ByteString
<1>2. \A k \in lo + 1 .. top : b[k] \in Byte
  BY <1>1, ElementOfSeq DEF ByteString
<1>3. /\ SubSeq(b, lo + 1, top) \in ByteString
      /\ Len(SubSeq(b, lo + 1, top)) = IF lo + 1 <= top THEN top - (lo + 1) + 1 ELSE 0
  <2>1. lo + 1 \in Int /\ top \in Int
    BY <1>1
  <2> HIDE DEF top
  <2> QED
    BY <1>2, <2>1, SubSeqProperties DEF ByteString
<1> QED
  BY <1>1, <1>3 DEF Slice

LEMMA FromType ==
  ASSUME NEW b \in ByteString, NEW lo \in Nat
  PROVE  /\ From(b, lo) \in ByteString
         /\ lo <= Len(b) => Len(From(b, lo)) = Len(b) - lo
         /\ Len(From(b, lo)) \in Nat
         /\ From(b, lo) = Slice(b, lo, Len(b))
<1>1. Len(b) \in Nat /\ From(b, lo) = Slice(b, lo, Len(b))
  BY LenProperties DEF ByteString, From, Slice
<1> QED
  BY <1>1, SliceType

\* What lies behind the end of a slice does not matter to it.
LEMMA SliceOfCat ==
  ASSUME NEW a \in ByteString, NEW b \in ByteString, NEW lo \in Nat, NEW hi \in Nat,
         hi <= Len(a)
  PROVE  Slice(a \o b, lo, hi) = Slice(a, lo, hi)
<1>1. Len(a) \in Nat /\ Len(b) \in Nat /\ hi <= Len(a \o b)
  BY Cat, LenProperties DEF ByteString
<1>2. CASE lo < hi
  <2>1. lo + 1 \in 1 .. Len(a) /\ hi \in 1 .. Len(a)
    BY <1>1, <1>2
  <2>2. SubSeq(a \o b, lo + 1, hi) = SubSeq(a, lo + 1, hi)
    BY <2>1, SubSeqOfConcat1 DEF ByteString
  <2> QED
    BY <1>1, <2>2 DEF Slice
<1>3. CASE hi <= lo
  <2>1. lo + 1 \in Int /\ hi \in Int /\ hi < lo + 1
    BY <1>3
  <2>2. SubSeq(a \o b, lo + 1, hi) = <<>> /\ SubSeq(a, lo + 1, hi) = <<>>
    BY <2>1, SubSeqEmpty
  <2> QED
    BY <1>1, <2>2 DEF Slice
<1> QED
  BY <1>2, <1>3

\* The first part of a concatenation, and the rest.
LEMMA CatParts ==
  ASSUME NEW a \in ByteString, NEW b \in ByteString
  PROVE  /\ Slice(a \o b, 0, Len(a)) = a
         /\ From(a \o b, Len(a)) = b
         /\ Slice(a \o b, Len(a), Len(a) + Len(b)) = b
<1>1. Len(a) \in Nat /\ Len(b) \in Nat /\ a \o b \in ByteString
      /\ Len(a \o b) = Len(a) + Len(b)
  BY Cat, LenProperties DEF ByteString
<1>2. Slice(a \o b, 0, Len(a)) = Slice(a, 0, Len(a))
  BY <1>1, SliceOfCat
<1>3. Slice(a, 0, Len(a)) = a
  BY <1>1, SubSeqFull DEF Slice, ByteString
<1>4. From(a \o b, Len(a)) = b
  <2>1. From(a \o b, Len(a)) \in ByteString /\ Len(From(a \o b, Len(a))) = Len(b)
    <3>1. Len(a) <= Len(a \o b) /\ Len(a \o b) - Len(a) = Len(b)
      BY <1>1
    <3>2. /\ From(a \o b, Len(a)) \in ByteString
          /\ Len(a) <= Len(a \o b) => Len(From(a \o b, Len(a))) = Len(a \o b) - Len(a)
      BY <1>1, FromType
    <3> QED
      BY <3>1, <3>2
  <2>2. \A k \in Len(a) + 1 .. Len(a \o b) : (a \o b)[k] \in Byte
    BY <1>1, ElementOfSeq DEF ByteString
  <2>3. \A k \in 1 .. Len(b) : SubSeq(a \o b, Len(a) + 1, Len(a \o b))[k] = (a \o b)[Len(a) + k]
    <3>1. Len(a) + 1 \in Int /\ Len(a \o b) \in Int
      BY <1>1
    <3>2. \A k \in 1 .. Len(a \o b) - (Len(a) + 1) + 1 :
            SubSeq(a \o b, Len(a) + 1, Len(a \o b))[k] = (a \o b)[Len(a) + 1 + k - 1]
      BY <2>2, <3>1, SubSeqProperties
    <3> QED
      BY <1>1, <3>2
  <2>4. \A k \in 1 .. Len(b) : (a \o b)[Len(a) + k] = b[k]
    BY <1>1, ConcatProperties DEF ByteString
  <2>5. \A k \in 1 .. Len(b) : From(a \o b, Len(a))[k] = b[k]
    BY <2>3, <2>4 DEF From
  <2> QED
    BY <2>1, <2>5, SeqEqual DEF ByteString
<1> QED
  BY <1>1, <1>2, <1>3, <1>4, FromType
-------------------------------------------------------------------------------
(***************************************************************************)
(* Injectivity.                                                            *)
(***************************************************************************)
LEMMA JoinType ==
  \A a, b \in ByteString : Join(a, b) \in ByteString
BY ConcatProperties DEF ByteString, Join

LEMMA JoinAssoc ==
  \A a, b, c \in ByteString : Join(Join(a, b), c) = Join(a, Join(b, c))
BY ConcatAssociative DEF ByteString, Join

LEMMA JoinSplit ==
  \A a, b, x, y \in ByteString :
    Join(a, x) = Join(b, y) /\ (Len(a) = Len(b) \/ Len(x) = Len(y)) => a = b /\ x = y
<1>1. \A a, b, x, y \in ByteString :
        Join(a, x) = Join(b, y) /\ Len(a) = Len(b) => a = b /\ x = y
  <2> SUFFICES ASSUME NEW a \in ByteString, NEW b \in ByteString, NEW x \in ByteString,
                      NEW y \in ByteString, a \o x = b \o y, Len(a) = Len(b)
               PROVE  a = b /\ x = y
    BY Zenon DEF Join
  <2> QED
    BY CatSplit
<1>2. \A a, b, x, y \in ByteString :
        Join(a, x) = Join(b, y) /\ Len(x) = Len(y) => a = b /\ x = y
  <2> SUFFICES ASSUME NEW a \in ByteString, NEW b \in ByteString, NEW x \in ByteString,
                      NEW y \in ByteString, a \o x = b \o y, Len(x) = Len(y)
               PROVE  a = b /\ x = y
    BY Zenon DEF Join
  <2>1. Len(a) = Len(b)
    <3>1. Len(a) \in Nat /\ Len(b) \in Nat /\ Len(x) \in Nat
      BY LenProperties DEF ByteString
    <3>2. Len(a \o x) = Len(a) + Len(x) /\ Len(b \o y) = Len(b) + Len(y)
      BY ConcatProperties, Zenon DEF ByteString
    <3> QED
      BY <3>1, <3>2
  <2> QED
    BY <2>1, CatSplit
<1> QED
  BY <1>1, <1>2

LEMMA U32Type ==
  ASSUME NEW n \in 0 .. MaxU32
  PROVE  U32[n] \in ByteString /\ Len(U32[n]) = U32Len
BY IntegersAssumption DEF Field

LEMMA U64Type ==
  ASSUME NEW n \in 0 .. MaxU64
  PROVE  U64[n] \in ByteString /\ Len(U64[n]) = U64Len
BY IntegersAssumption DEF Field

\* A string that _lp accepts.
LEMMA LpType ==
  ASSUME NEW b \in ByteString, Len(b) <= MaxU32
  PROVE  /\ Len(b) \in 0 .. MaxU32
         /\ LP(b) \in ByteString
         /\ Len(LP(b)) = U32Len + Len(b)
<1>1. Len(b) \in 0 .. MaxU32
  BY Cat, IntegersAssumption
<1> QED
  BY <1>1, U32Type, Cat DEF LP

\* A length-prefixed field is read back whatever follows it: the docstring of _lp.
LEMMA LpPrefixFree ==
  ASSUME NEW a \in ByteString, NEW b \in ByteString, NEW x \in ByteString,
         NEW y \in ByteString, Len(a) <= MaxU32, Len(b) <= MaxU32,
         Join(LP(a), x) = Join(LP(b), y)
  PROVE  a = b /\ x = y
<1>1. Len(a) \in 0 .. MaxU32 /\ Len(b) \in 0 .. MaxU32
  BY LpType
<1>2. /\ U32[Len(a)] \in ByteString /\ U32[Len(b)] \in ByteString
      /\ Len(U32[Len(a)]) = Len(U32[Len(b)])
  BY <1>1, U32Type
<1>3. LP(a) = Join(U32[Len(a)], a) /\ LP(b) = Join(U32[Len(b)], b)
  BY DEF LP, Join
<1>4. Join(U32[Len(a)], Join(a, x)) = Join(U32[Len(b)], Join(b, y))
  BY <1>2, <1>3, JoinAssoc
<1>5. U32[Len(a)] = U32[Len(b)] /\ Join(a, x) = Join(b, y)
  <2>1. Join(a, x) \in ByteString /\ Join(b, y) \in ByteString
    BY JoinType
  <2> QED
    BY <1>2, <1>4, <2>1, JoinSplit
<1>6. Len(a) = Len(b)
  BY <1>1, <1>5, IntegersAssumption
<1> QED
  BY <1>5, <1>6, JoinSplit

LEMMA LpInjective ==
  ASSUME NEW a \in ByteString, NEW b \in ByteString,
         Len(a) <= MaxU32, Len(b) <= MaxU32, LP(a) = LP(b)
  PROVE  a = b
<1>1. <<>> \in ByteString
  BY EmptySeq DEF ByteString
<1>2. Join(LP(a), <<>>) = Join(LP(b), <<>>)
  OBVIOUS
<1> QED
  BY <1>1, <1>2, LpPrefixFree

\* A trailing integer is read back whatever precedes it.
LEMMA IntSplit ==
  ASSUME NEW a \in ByteString, NEW b \in ByteString, NEW x \in 0 .. MaxU64,
         NEW y \in 0 .. MaxU64, Join(a, U64[x]) = Join(b, U64[y])
  PROVE  a = b /\ x = y
<1>1. /\ U64[x] \in ByteString /\ U64[y] \in ByteString
      /\ Len(U64[x]) = Len(U64[y])
  BY U64Type
<1>2. a = b /\ U64[x] = U64[y]
  BY <1>1, JoinSplit
<1> QED
  BY <1>2, IntegersAssumption

\* The KDF input tells context, epoch and fingerprint apart whatever their lengths
\* (the docstring of _kdf_info: no reliance on MEMH being fixed-width and last).
THEOREM KdfCanonicalInjective ==
  ASSUME NEW c1 \in ByteString, NEW c2 \in ByteString,
         NEW e1 \in 0 .. MaxU64, NEW e2 \in 0 .. MaxU64,
         NEW m1 \in ByteString, NEW m2 \in ByteString,
         Len(c1) <= MaxU32, Len(c2) <= MaxU32, Len(m1) <= MaxU32, Len(m2) <= MaxU32,
         KdfCanonical(c1, e1, m1) = KdfCanonical(c2, e2, m2)
  PROVE  c1 = c2 /\ e1 = e2 /\ m1 = m2
<1>1. /\ U64[e1] \in ByteString /\ Len(U64[e1]) <= MaxU32
      /\ U64[e2] \in ByteString /\ Len(U64[e2]) <= MaxU32
  BY U64Type, WidthsAssumption
<1>2. /\ LP(c1) \in ByteString /\ LP(c2) \in ByteString
      /\ LP(m1) \in ByteString /\ LP(m2) \in ByteString
      /\ LP(U64[e1]) \in ByteString /\ LP(U64[e2]) \in ByteString
  BY <1>1, LpType
<1>3. KdfCanonTag \in ByteString
  BY LabelsAssumption
<1>4. \A c, e, m : KdfCanonical(c, e, m)
                   = Join(Join(Join(KdfCanonTag, LP(c)), LP(U64[e])), LP(m))
  BY DEF KdfCanonical, Join
<1>5. \A t, c, e, m \in ByteString :
        Join(Join(Join(t, c), e), m) = Join(t, Join(c, Join(e, m)))
  <2> TAKE t, c, e, m \in ByteString
  <2>1. Join(t, c) \in ByteString /\ Join(e, m) \in ByteString
    BY JoinType
  <2>2. Join(Join(Join(t, c), e), m) = Join(Join(t, c), Join(e, m))
    BY <2>1, JoinAssoc
  <2> QED
    BY <2>1, <2>2, JoinAssoc
<1>6. Join(KdfCanonTag, Join(LP(c1), Join(LP(U64[e1]), LP(m1))))
        = Join(KdfCanonTag, Join(LP(c2), Join(LP(U64[e2]), LP(m2))))
  BY <1>2, <1>3, <1>4, <1>5
<1>7. Join(LP(c1), Join(LP(U64[e1]), LP(m1))) = Join(LP(c2), Join(LP(U64[e2]), LP(m2)))
  <2>1. /\ Join(LP(U64[e1]), LP(m1)) \in ByteString
        /\ Join(LP(U64[e2]), LP(m2)) \in ByteString
    BY <1>2, JoinType
  <2>2. /\ Join(LP(c1), Join(LP(U64[e1]), LP(m1))) \in ByteString
        /\ Join(LP(c2), Join(LP(U64[e2]), LP(m2))) \in ByteString
    BY <1>2, <2>1, JoinType
  <2> QED
    BY <1>3, <1>6, <2>2, JoinSplit
<1>8. c1 = c2 /\ Join(LP(U64[e1]), LP(m1)) = Join(LP(U64[e2]), LP(m2))
  BY <1>2, <1>7, JoinType, LpPrefixFree
<1>9. U64[e1] = U64[e2] /\ LP(m1) = LP(m2)
  BY <1>1, <1>2, <1>8, LpPrefixFree
<1>10. m1 = m2
  BY <1>9, LpInjective
<1> QED
  BY <1>8, <1>9, <1>10, IntegersAssumption

\* The associated data tells the header, the fingerprint and the epoch apart.
LEMMA AadInjective ==
  ASSUME NEW p \in ByteString, NEW q \in ByteString, NEW m \in ByteString,
         NEW n \in ByteString, NEW d \in 0 .. MaxU64, NEW e \in 0 .. MaxU64,
         Len(m) = Len(n), Aad(p, m, d) = Aad(q, n, e)
  PROVE  p = q /\ m = n /\ d = e
<1>1. Domain \in ByteString
  BY LabelsAssumption
<1>2. Join(Join(Join(Domain, p), m), U64[d]) = Join(Join(Join(Domain, q), n), U64[e])
  BY DEF Aad, Join
<1>3. Join(Join(Domain, p), m) = Join(Join(Domain, q), n) /\ d = e
  BY <1>1, <1>2, JoinType, IntSplit
<1>4. Join(Domain, p) = Join(Domain, q) /\ m = n
  BY <1>1, <1>3, JoinType, JoinSplit
<1> QED
  BY <1>1, <1>3, <1>4, JoinSplit

\* The segment context tells apart the caller's context, the stream, the position
\* and each integer of the header (the docstring of _seg_context: deterministic,
\* injective).
SegFields ==
  [user : {u \in ByteString : Len(u) <= MaxU32}, id : Field(StreamIdLen),
   index : 0 .. MaxU64, segments : 0 .. MaxU64, total : 0 .. MaxU64, size : 0 .. MaxU64]

SegContextOf(x) == SegContext(x.user, x.id, x.index, x.segments, x.total, x.size)

THEOREM SegContextInjective ==
  \A x, y \in SegFields : SegContextOf(x) = SegContextOf(y) => x = y
<1> SUFFICES ASSUME NEW x \in SegFields, NEW y \in SegFields, SegContextOf(x) = SegContextOf(y)
             PROVE  x = y
  OBVIOUS
<1>0. /\ x.user \in ByteString /\ Len(x.user) <= MaxU32
      /\ y.user \in ByteString /\ Len(y.user) <= MaxU32
      /\ x.index \in 0 .. MaxU64 /\ x.segments \in 0 .. MaxU64
      /\ x.total \in 0 .. MaxU64 /\ x.size \in 0 .. MaxU64
      /\ y.index \in 0 .. MaxU64 /\ y.segments \in 0 .. MaxU64
      /\ y.total \in 0 .. MaxU64 /\ y.size \in 0 .. MaxU64
  BY DEF SegFields
<1>1. /\ x.id \in ByteString /\ y.id \in ByteString /\ Len(x.id) = Len(y.id)
      /\ Len(x.id) <= MaxU32 /\ Len(y.id) <= MaxU32
  BY WidthsAssumption DEF SegFields, Field
<1>2. /\ StreamDomain \in ByteString
      /\ LP(x.user) \in ByteString /\ LP(y.user) \in ByteString
      /\ LP(x.id) \in ByteString /\ LP(y.id) \in ByteString /\ Len(LP(x.id)) = Len(LP(y.id))
  <2>1. StreamDomain \in ByteString
    BY LabelsAssumption
  <2>2. LP(x.user) \in ByteString /\ LP(y.user) \in ByteString
    BY <1>0, LpType
  <2>3. LP(x.id) \in ByteString /\ LP(y.id) \in ByteString /\ Len(LP(x.id)) = Len(LP(y.id))
    BY <1>1, LpType
  <2> QED
    BY <2>1, <2>2, <2>3
<1>3. \A n \in 0 .. MaxU64 : U64[n] \in ByteString
  BY U64Type
<1> DEFINE a1 == Join(Join(StreamDomain, LP(x.user)), LP(x.id))
           a2 == Join(Join(StreamDomain, LP(y.user)), LP(y.id))
           b1 == Join(a1, U64[x.index])
           b2 == Join(a2, U64[y.index])
           c1 == Join(b1, U64[x.segments])
           c2 == Join(b2, U64[y.segments])
           d1 == Join(c1, U64[x.total])
           d2 == Join(c2, U64[y.total])
<1>4. Join(d1, U64[x.size]) = Join(d2, U64[y.size])
  BY DEF SegContextOf, SegContext, Join
<1>5. a1 \in ByteString /\ a2 \in ByteString
  BY <1>2, JoinType
<1>6. b1 \in ByteString /\ b2 \in ByteString
  BY <1>0, <1>3, <1>5, JoinType
<1>7. c1 \in ByteString /\ c2 \in ByteString
  BY <1>0, <1>3, <1>6, JoinType
<1>8. d1 \in ByteString /\ d2 \in ByteString
  BY <1>0, <1>3, <1>7, JoinType
<1>9. d1 = d2 /\ x.size = y.size
  <2> HIDE DEF d1, d2
  <2> QED
    BY <1>0, <1>4, <1>8, IntSplit
<1>10. c1 = c2 /\ x.total = y.total
  BY <1>0, <1>7, <1>9, IntSplit
<1>11. b1 = b2 /\ x.segments = y.segments
  BY <1>0, <1>6, <1>10, IntSplit
<1>12. a1 = a2 /\ x.index = y.index
  BY <1>0, <1>5, <1>11, IntSplit
<1>13. Join(StreamDomain, LP(x.user)) = Join(StreamDomain, LP(y.user)) /\ LP(x.id) = LP(y.id)
  BY <1>2, <1>12, JoinType, JoinSplit
<1>14. LP(x.user) = LP(y.user)
  BY <1>2, <1>13, JoinSplit
<1>15. x.user = y.user /\ x.id = y.id
  BY <1>0, <1>1, <1>13, <1>14, LpInjective
<1> QED
  BY <1>9, <1>10, <1>11, <1>12, <1>15 DEF SegFields

-------------------------------------------------------------------------------
(***************************************************************************)
(* Parsing undoes packing.                                                 *)
(***************************************************************************)
LEMMA JoinLen ==
  \A a, b \in ByteString :
    Len(Join(a, b)) = Len(a) + Len(b) /\ Len(a) \in Nat /\ Len(b) \in Nat
BY Cat DEF Join

\* A slice that ends within the first part is a slice of it; the second part is
\* what begins where the first ends.
LEMMA JoinSlice ==
  \A a, b \in ByteString :
    /\ \A lo, hi \in Nat : hi <= Len(a) => Slice(Join(a, b), lo, hi) = Slice(a, lo, hi)
    /\ Slice(Join(a, b), 0, Len(a)) = a
    /\ Slice(Join(a, b), Len(a), Len(a) + Len(b)) = b
    /\ From(Join(a, b), Len(a)) = b
BY SliceOfCat, CatParts DEF Join

\* Adjacent slices join.
LEMMA SliceJoin ==
  ASSUME NEW b \in ByteString, NEW lo \in Nat, NEW mid \in Nat, NEW hi \in Nat,
         lo <= mid, mid <= hi, hi <= Len(b)
  PROVE  Slice(b, lo, hi) = Join(Slice(b, lo, mid), Slice(b, mid, hi))
<1> DEFINE l == Slice(b, lo, mid)
           r == Slice(b, mid, hi)
           w == Slice(b, lo, hi)
<1>1. Len(b) \in Nat
  BY Cat
<1>2. l \in ByteString
  BY SliceType
<1>3. r \in ByteString
  BY SliceType
<1>4. w \in ByteString
  BY SliceType
<1>5. Len(l) = mid - lo /\ Len(r) = hi - mid /\ Len(w) = hi - lo
  <2>1. mid <= Len(b) /\ lo <= hi
    BY <1>1
  <2>2. Len(l) = mid - lo
    BY <2>1, SliceType
  <2>3. Len(r) = hi - mid
    BY SliceType
  <2>4. Len(w) = hi - lo
    BY <2>1, SliceType
  <2> QED
    BY <2>2, <2>3, <2>4
<1>6. \A x, y \in Nat : x <= y /\ y <= Len(b) =>
        \A k \in 1 .. y - x : Slice(b, x, y)[k] = b[x + k]
  <2> SUFFICES ASSUME NEW x \in Nat, NEW y \in Nat, x <= y, y <= Len(b),
                      NEW k \in 1 .. y - x
               PROVE  Slice(b, x, y)[k] = b[x + k]
    OBVIOUS
  <2>1. \A n \in x + 1 .. y : b[n] \in Byte
    BY <1>1, ElementOfSeq DEF ByteString
  <2>2. x + 1 \in Int /\ y \in Int
    OBVIOUS
  <2>3. \A n \in 1 .. y - (x + 1) + 1 : SubSeq(b, x + 1, y)[n] = b[x + 1 + n - 1]
    BY <2>1, <2>2, SubSeqProperties
  <2>4. SubSeq(b, x + 1, y)[k] = b[x + k]
    BY <2>3
  <2> QED
    BY <2>4 DEF Slice
<1>7. \A k \in 1 .. Len(w) : w[k] = (l \o r)[k]
  <2> SUFFICES ASSUME NEW k \in 1 .. Len(w)
               PROVE  w[k] = (l \o r)[k]
    OBVIOUS
  <2>1. w[k] = b[lo + k]
    BY <1>1, <1>5, <1>6
  <2>2. CASE k <= mid - lo
    <3>1. l[k] = b[lo + k]
      <4>1. k \in 1 .. mid - lo /\ mid <= Len(b)
        BY <1>1, <1>5, <2>2
      <4> QED
        BY <1>6, <4>1
    <3>2. (l \o r)[k] = l[k]
      <4> HIDE DEF l, r, w
      <4> QED BY <1>2, <1>3, <1>5, <2>2, ConcatProperties DEF ByteString
    <3> QED
      BY <2>1, <3>1, <3>2
  <2>3. CASE k > mid - lo
    <3>1. k - (mid - lo) \in 1 .. hi - mid
      BY <1>5, <2>3
    <3>2. r[k - (mid - lo)] = b[lo + k]
      BY <1>1, <1>6, <3>1
    <3>3. (l \o r)[k] = r[k - (mid - lo)]
      <4> HIDE DEF l, r, w
      <4>1. k \in Len(l) + 1 .. Len(l) + Len(r)
        BY <1>5, <2>3
      <4> QED BY <1>2, <1>3, <1>5, <4>1, <3>1, ConcatProperties DEF ByteString
    <3> QED
      BY <2>1, <3>2, <3>3
  <2> QED
    BY <1>5, <2>2, <2>3
<1>8. l \o r \in ByteString /\ Len(l \o r) = Len(w)
  <2> HIDE DEF l, r, w
  <2> QED BY <1>2, <1>3, <1>5, Cat
<1> QED
  <2> HIDE DEF l, r, w
  <2>1. w = l \o r
    BY <1>4, <1>7, <1>8, SeqEqual DEF ByteString
  <2> QED
    BY <2>1 DEF l, r, w, Join

\* The header of a seal up to its length frame, and its ciphertext.
HeaderOf(r)      == Join(Join(Join(Join(Magic, <<Version>>), r.nonce), r.salt), r.commitment)
BodyOf(state, r) == Join(state, r.tag)

\* What seal_state accepts.
Sealable(state, memh, epoch, context, r) ==
  /\ state \in ByteString /\ Len(state) <= MaxState
  /\ memh \in Field(MemhLen) /\ epoch \in 0 .. MaxU64
  /\ context \in ByteString /\ Len(context) <= MaxU32
  /\ r \in Draws

LEMMA SealFields ==
  ASSUME NEW state, NEW memh, NEW epoch, NEW context, NEW r
  PROVE  LET s == Seal(state, memh, epoch, context, r)
         IN  /\ s.salt = r.salt /\ s.nonce = r.nonce /\ s.commitment = r.commitment
             /\ s.info = KdfCanonical(context, epoch, memh)
             /\ s.aad = Aad(HeaderOf(r), memh, epoch)
             /\ s.state = state /\ s.ct = BodyOf(state, r)
             /\ s.envelope = Join(Join(HeaderOf(r), U32[Len(BodyOf(state, r))]), BodyOf(state, r))
BY DEF Seal, HeaderOf, BodyOf, Join

LEMMA DrawFields ==
  ASSUME NEW r \in Draws
  PROVE  /\ r.nonce \in ByteString /\ Len(r.nonce) = NonceLen
         /\ r.salt \in ByteString /\ Len(r.salt) = SaltLen
         /\ r.commitment \in ByteString /\ Len(r.commitment) = CommitLen
         /\ r.tag \in ByteString /\ Len(r.tag) = TagLen
BY DEF Draws, Field

LEMMA Widths ==
  /\ MaxU32 \in Nat /\ MaxU64 \in Nat /\ U32Len \in Nat \ {0} /\ U64Len \in Nat \ {0}
  /\ Len(Magic) \in Nat /\ NonceLen \in Nat /\ SaltLen \in Nat /\ CommitLen \in Nat
  /\ StreamIdLen \in Nat /\ TagLen \in Nat /\ MemhLen \in Nat /\ Len(StreamMagic) \in Nat
  /\ MaxState \in Nat /\ MaxState + TagLen = MaxU32
  /\ PrefixLen \in Nat /\ PrefixLen = Len(Magic) + 1 + NonceLen + SaltLen + CommitLen
  /\ StreamHeaderLen \in Nat
  /\ StreamHeaderLen = Len(StreamMagic) + 1 + StreamIdLen + 3 * U64Len
<1>1. Len(Magic) \in Nat
  BY Cat, LabelsAssumption
<1>2. Len(StreamMagic) \in Nat
  BY Cat, LabelsAssumption
<1>3. MaxU32 \in Nat /\ MaxU64 \in Nat /\ U32Len \in Nat \ {0} /\ U64Len \in Nat \ {0}
  BY IntegersAssumption
<1>4. /\ NonceLen \in Nat /\ SaltLen \in Nat /\ CommitLen \in Nat
      /\ StreamIdLen \in Nat /\ TagLen \in Nat /\ MemhLen \in Nat /\ TagLen <= MaxU32
  BY WidthsAssumption
<1>5. MaxState \in Nat /\ MaxState + TagLen = MaxU32
  BY <1>3, <1>4 DEF MaxState
<1>6. PrefixLen \in Nat /\ PrefixLen = Len(Magic) + 1 + NonceLen + SaltLen + CommitLen
  BY <1>1, <1>4 DEF PrefixLen
<1>7. /\ StreamHeaderLen \in Nat
      /\ StreamHeaderLen = Len(StreamMagic) + 1 + StreamIdLen + 3 * U64Len
  BY <1>2, <1>3, <1>4 DEF StreamHeaderLen
<1> QED
  BY <1>1, <1>2, <1>3, <1>4, <1>5, <1>6, <1>7

\* A part in the middle.
LEMMA JoinMiddle ==
  ASSUME NEW a \in ByteString, NEW b \in ByteString, NEW x \in ByteString
  PROVE  Slice(Join(Join(a, b), x), Len(a), Len(a) + Len(b)) = b
<1>1. Join(a, b) \in ByteString
  BY JoinType
<1>2. Len(Join(a, b)) = Len(a) + Len(b) /\ Len(a) \in Nat /\ Len(b) \in Nat
  BY JoinLen
<1>3. Slice(Join(Join(a, b), x), Len(a), Len(a) + Len(b))
        = Slice(Join(a, b), Len(a), Len(a) + Len(b))
  <2>1. Len(a) + Len(b) \in Nat /\ Len(a) + Len(b) <= Len(Join(a, b))
    BY <1>2
  <2> QED
    BY <1>1, <1>2, <2>1, JoinSlice
<1> QED
  BY <1>3, JoinSlice

\* The fields of the header are where _parse looks for them.
LEMMA HeaderFields ==
  ASSUME NEW r \in Draws, NEW x \in ByteString
  PROVE  LET e == Join(HeaderOf(r), x)
         IN  /\ HeaderOf(r) \in ByteString /\ Len(HeaderOf(r)) = PrefixLen
             /\ Prefix(e) = HeaderOf(r)
             /\ MagicOf(e) = Magic /\ VersionOf(e) = <<Version>>
             /\ NonceOf(e) = r.nonce /\ SaltOf(e) = r.salt /\ CommitmentOf(e) = r.commitment
<1> DEFINE e == Join(HeaderOf(r), x)
           q1 == Join(Magic, <<Version>>)
           q2 == Join(q1, r.nonce)
           q3 == Join(q2, r.salt)
           x3 == Join(r.commitment, x)
           x2 == Join(r.salt, x3)
           x1 == Join(r.nonce, x2)
<1>1. Magic \in ByteString /\ <<Version>> \in ByteString /\ Len(<<Version>>) = 1
  BY LabelsAssumption DEF ByteString
<1>2. q1 \in ByteString /\ Len(q1) = Len(Magic) + 1
  BY <1>1, JoinType, JoinLen
<1>3. q2 \in ByteString /\ Len(q2) = Len(Magic) + 1 + NonceLen
  BY <1>2, DrawFields, JoinType, JoinLen, ZenonT(40)
<1>4. q3 \in ByteString /\ Len(q3) = Len(Magic) + 1 + NonceLen + SaltLen
  BY <1>3, DrawFields, JoinType, JoinLen, ZenonT(40)
<1>5. HeaderOf(r) \in ByteString /\ Len(HeaderOf(r)) = PrefixLen /\ HeaderOf(r) = Join(q3, r.commitment)
  BY <1>4, DrawFields, JoinType, JoinLen DEF HeaderOf, PrefixLen
<1>6. x3 \in ByteString /\ x2 \in ByteString /\ x1 \in ByteString
  <2>1. x3 \in ByteString
    BY DrawFields, JoinType
  <2>2. x2 \in ByteString
    BY <2>1, DrawFields, JoinType
  <2> QED
    BY <2>1, <2>2, DrawFields, JoinType
<1>7. /\ Len(Magic) + 1 + NonceLen + SaltLen = PrefixLen - CommitLen
      /\ PrefixLen - CommitLen + CommitLen = PrefixLen
      /\ Len(Magic) + 1 + NonceLen \in Nat
  BY Widths
<1>8. Prefix(e) = HeaderOf(r)
  BY <1>5, JoinSlice DEF Prefix
<1>9. CommitmentOf(e) = r.commitment
  <2>1. Len(q3) = PrefixLen - CommitLen /\ Len(r.commitment) = CommitLen
    BY <1>4, <1>7, DrawFields
  <2>2. Slice(Join(Join(q3, r.commitment), x), Len(q3), Len(q3) + Len(r.commitment)) = r.commitment
    BY <1>4, DrawFields, JoinMiddle
  <2> QED
    BY <1>5, <1>7, <2>1, <2>2 DEF CommitmentOf
<1> HIDE DEF q3
<1>10. e = Join(q3, x3)
  BY <1>4, <1>5, DrawFields, JoinAssoc
<1>11. SaltOf(e) = r.salt
  <2>1. Len(r.salt) = SaltLen
    BY DrawFields
  <2>2. Slice(Join(Join(q2, r.salt), x3), Len(q2), Len(q2) + Len(r.salt)) = r.salt
    BY <1>3, <1>6, DrawFields, JoinMiddle
  <2> QED
    BY <1>3, <1>7, <1>10, <2>1, <2>2 DEF SaltOf, q3
<1> HIDE DEF q2
<1>12. e = Join(q2, x2)
  BY <1>3, <1>6, <1>10, DrawFields, JoinAssoc DEF q3
<1>13. NonceOf(e) = r.nonce
  <2>1. Len(r.nonce) = NonceLen
    BY DrawFields
  <2>2. Slice(Join(Join(q1, r.nonce), x2), Len(q1), Len(q1) + Len(r.nonce)) = r.nonce
    BY <1>2, <1>6, DrawFields, JoinMiddle
  <2> QED
    BY <1>2, <1>12, <2>1, <2>2 DEF NonceOf, q2
<1> HIDE DEF q1
<1>14. e = Join(q1, x1)
  BY <1>2, <1>6, <1>12, DrawFields, JoinAssoc DEF q2
<1>15. VersionOf(e) = <<Version>>
  <2>1. Slice(Join(Join(Magic, <<Version>>), x1), Len(Magic), Len(Magic) + Len(<<Version>>)) = <<Version>>
    BY <1>1, <1>6, JoinMiddle
  <2> QED
    BY <1>1, <1>14, <2>1 DEF VersionOf, q1
<1>16. MagicOf(e) = Magic
  <2>1. e = Join(Magic, Join(<<Version>>, x1)) /\ Join(<<Version>>, x1) \in ByteString
    BY <1>1, <1>6, <1>14, JoinAssoc, JoinType DEF q1
  <2> QED
    BY <1>1, <2>1, JoinSlice DEF MagicOf
<1> QED
  BY <1>5, <1>8, <1>9, <1>11, <1>13, <1>15, <1>16

LEMMA UnpackInverse ==
  /\ \A n \in 0 .. MaxU32 : Unpack32(U32[n]) = n
  /\ \A n \in 0 .. MaxU64 : Unpack64(U64[n]) = n
BY IntegersAssumption DEF Unpack32, Unpack64

\* A field of the width of an integer is the encoding of what is read from it.
LEMMA PackInverse ==
  ASSUME NEW b \in ByteString
  PROVE  /\ Len(b) = U32Len => Unpack32(b) \in 0 .. MaxU32 /\ U32[Unpack32(b)] = b
         /\ Len(b) = U64Len => Unpack64(b) \in 0 .. MaxU64 /\ U64[Unpack64(b)] = b
<1>1. b \in [1 .. Len(b) -> Byte]
  BY LenProperties DEF ByteString
<1>2. ASSUME Len(b) = U32Len
      PROVE  Unpack32(b) \in 0 .. MaxU32 /\ U32[Unpack32(b)] = b
  <2>1. \E n \in 0 .. MaxU32 : U32[n] = b
    BY <1>1, <1>2, IntegersAssumption
  <2> QED
    BY <2>1, Zenon DEF Unpack32
<1>3. ASSUME Len(b) = U64Len
      PROVE  Unpack64(b) \in 0 .. MaxU64 /\ U64[Unpack64(b)] = b
  <2>1. \E n \in 0 .. MaxU64 : U64[n] = b
    BY <1>1, <1>3, IntegersAssumption
  <2> QED
    BY <2>1, Zenon DEF Unpack64
<1> QED
  BY <1>2, <1>3

\* _parse on any bytes: a string that passes the length check has every field, so
\* that no unpack meets a short slice.
LEMMA ParseType ==
  ASSUME NEW b \in ByteString
  PROVE  /\ ParseError(b) \in {"none", "malformed"}
         /\ Prefix(b) \in ByteString /\ CtLenOf(b) \in ByteString
         /\ Ciphertext(b) \in ByteString
         /\ ~ShorterThanHeader(b) =>
              Len(Prefix(b)) = PrefixLen /\ Len(CtLenOf(b)) = U32Len
<1>1. Len(b) \in Nat
  BY Cat
<1>2. PrefixLen \in Nat /\ U32Len \in Nat /\ PrefixLen + U32Len \in Nat
  BY Widths
<1>3. Prefix(b) \in ByteString
  BY <1>2, SliceType DEF Prefix
<1>4. CtLenOf(b) \in ByteString
  BY <1>2, SliceType DEF CtLenOf
<1>5. Ciphertext(b) \in ByteString
  BY <1>2, FromType DEF Ciphertext
<1>6. ASSUME ~ShorterThanHeader(b)
      PROVE  Len(Prefix(b)) = PrefixLen /\ Len(CtLenOf(b)) = U32Len
  <2>1. PrefixLen + U32Len <= Len(b)
    BY <1>1, <1>2, <1>6 DEF ShorterThanHeader
  <2>2. 0 <= PrefixLen /\ PrefixLen <= Len(b) /\ PrefixLen - 0 = PrefixLen
    BY <1>1, <1>2, <2>1
  <2>3. Len(Prefix(b)) = PrefixLen
    BY <1>2, <2>2, SliceType DEF Prefix
  <2>4. PrefixLen <= PrefixLen + U32Len /\ PrefixLen + U32Len - PrefixLen = U32Len
    BY <1>2
  <2>5. Len(CtLenOf(b)) = U32Len
    BY <1>2, <2>1, <2>4, SliceType DEF CtLenOf
  <2> QED
    BY <2>3, <2>5
<1>7. ParseError(b) \in {"none", "malformed"}
  BY <1>6 DEF ParseError
<1> QED
  BY <1>3, <1>4, <1>5, <1>6, <1>7

\* Bytes that parse are their three parts and nothing else.
LEMMA ParsedParts ==
  ASSUME NEW b \in ByteString, ParseError(b) = "none"
  PROVE  /\ b = Join(Join(Prefix(b), U32[Len(Ciphertext(b))]), Ciphertext(b))
         /\ Len(Prefix(b)) = PrefixLen
         /\ Len(Ciphertext(b)) \in 0 .. MaxU32
<1>1. Len(b) \in Nat /\ PrefixLen \in Nat /\ U32Len \in Nat
  BY Cat, Widths
<1>2. /\ ~ShorterThanHeader(b) /\ Len(Ciphertext(b)) = Unpack32(CtLenOf(b))
  BY DEF ParseError
<1>3. CtLenOf(b) \in ByteString /\ Len(CtLenOf(b)) = U32Len /\ Len(Prefix(b)) = PrefixLen
  BY <1>2, ParseType
<1>4. Len(Ciphertext(b)) \in 0 .. MaxU32 /\ U32[Len(Ciphertext(b))] = CtLenOf(b)
  BY <1>2, <1>3, PackInverse
<1>5. PrefixLen + U32Len \in Nat /\ PrefixLen + U32Len <= Len(b) /\ PrefixLen <= PrefixLen + U32Len
  BY <1>1, <1>2 DEF ShorterThanHeader
<1>6. Slice(b, 0, PrefixLen + U32Len) = Join(Prefix(b), CtLenOf(b))
  BY <1>1, <1>5, SliceJoin DEF Prefix, CtLenOf
<1>7. Slice(b, 0, Len(b)) = Join(Slice(b, 0, PrefixLen + U32Len), Slice(b, PrefixLen + U32Len, Len(b)))
  BY <1>1, <1>5, SliceJoin
<1>8. Slice(b, 0, Len(b)) = b
  BY SubSeqFull DEF Slice, ByteString
<1>9. Slice(b, PrefixLen + U32Len, Len(b)) = Ciphertext(b)
  BY <1>5, FromType DEF Ciphertext
<1> QED
  BY <1>3, <1>4, <1>6, <1>7, <1>8, <1>9

\* What seal_state writes parses, to the fields that went in.
THEOREM EnvelopeParses ==
  ASSUME NEW state, NEW memh, NEW epoch, NEW context, NEW r,
         Sealable(state, memh, epoch, context, r)
  PROVE  LET s == Seal(state, memh, epoch, context, r)
             e == s.envelope
         IN  /\ e \in ByteString /\ ParseError(e) = "none"
             /\ Prefix(e) = HeaderOf(r) /\ Ciphertext(e) = s.ct
             /\ NonceOf(e) = r.nonce /\ SaltOf(e) = r.salt /\ CommitmentOf(e) = r.commitment
             /\ Len(e) = PrefixLen + U32Len + Len(state) + TagLen
<1> DEFINE ct == BodyOf(state, r)
           n  == U32[Len(ct)]
           e  == Join(Join(HeaderOf(r), n), ct)
<1>1. state \in ByteString /\ r \in Draws /\ Len(state) <= MaxState
  BY DEF Sealable
<1>2. ct \in ByteString /\ Len(ct) = Len(state) + TagLen /\ Len(state) \in Nat
  BY <1>1, DrawFields, JoinType, JoinLen DEF BodyOf
<1>3. Len(ct) \in 0 .. MaxU32 /\ ~(Len(ct) < TagLen)
  BY <1>1, <1>2, Widths
<1> HIDE DEF ct
<1>4. n \in ByteString /\ Len(n) = U32Len
  BY <1>3, U32Type
<1>5. HeaderOf(r) \in ByteString /\ Len(HeaderOf(r)) = PrefixLen
  BY <1>1, <1>2, HeaderFields
<1>6. Join(n, ct) \in ByteString /\ e = Join(HeaderOf(r), Join(n, ct))
  BY <1>2, <1>4, <1>5, JoinType, JoinAssoc
<1>7. /\ Prefix(e) = HeaderOf(r) /\ MagicOf(e) = Magic /\ VersionOf(e) = <<Version>>
      /\ NonceOf(e) = r.nonce /\ SaltOf(e) = r.salt /\ CommitmentOf(e) = r.commitment
  BY <1>1, <1>6, HeaderFields
<1>8. CtLenOf(e) = n
  BY <1>2, <1>4, <1>5, JoinMiddle DEF CtLenOf
<1>9. Join(HeaderOf(r), n) \in ByteString /\ Len(Join(HeaderOf(r), n)) = PrefixLen + U32Len
  BY <1>4, <1>5, JoinType, JoinLen
<1>10. Ciphertext(e) = ct
  BY <1>2, <1>9, JoinSlice DEF Ciphertext
<1>11. e \in ByteString /\ Len(e) = PrefixLen + U32Len + Len(ct)
  BY <1>2, <1>9, JoinType, JoinLen
<1> HIDE DEF e, n
<1>12. ~ShorterThanHeader(e)
  BY <1>3, <1>11, Widths DEF ShorterThanHeader
<1>13. Unpack32(CtLenOf(e)) = Len(ct)
  BY <1>3, <1>8, UnpackInverse DEF n
<1>14. ParseError(e) = "none"
  BY <1>3, <1>4, <1>5, <1>7, <1>8, <1>10, <1>12, <1>13 DEF ParseError
<1>15. Len(e) = PrefixLen + U32Len + Len(state) + TagLen
  BY <1>2, <1>11, Widths
<1>16. /\ Seal(state, memh, epoch, context, r).envelope = e
       /\ Seal(state, memh, epoch, context, r).ct = ct
  BY SealFields DEF e, n, ct
<1> QED
  BY <1>7, <1>10, <1>11, <1>14, <1>15, <1>16

\* Ciphertexts are equal only for equal states.
LEMMA BodyInjective ==
  ASSUME NEW a \in ByteString, NEW b \in ByteString, NEW r \in Draws, NEW q \in Draws,
         BodyOf(a, r) = BodyOf(b, q)
  PROVE  a = b
BY DrawFields, JoinSplit DEF BodyOf

\* Arguments that pass the checks at the head of seal_state and unseal_state can be
\* encoded: no to_bytes and no pack that follows is out of range.
LEMMA NoEncodingError ==
  ASSUME NEW context \in ByteString, NEW epoch, ~ArgumentFault(context, epoch)
  PROVE  /\ Len(context) <= MaxU32 /\ epoch \in 0 .. MaxU64
         /\ KdfError(context, epoch) = "none"
<1>1. Len(context) \in Nat
  BY Cat
<1> QED
  BY <1>1, Widths DEF ArgumentFault, KdfError, ToBytesError, MaxLpField

\* The whole of seal_state: what it raises is an SCEError, and exactly when the
\* state, the context or the epoch does not fit its frame.
THEOREM SealErrorExact ==
  ASSUME NEW state \in ByteString, NEW context \in ByteString, NEW epoch
  PROVE  SealError(state, context, epoch) =
           IF \/ Len(state) > MaxState \/ Len(context) > MaxU32 \/ epoch \notin 0 .. MaxU64
             THEN "SCEError" ELSE "none"
<1>1. Len(state) \in Nat /\ Len(context) \in Nat
  BY Cat
<1>2. ASSUME ~(Len(state) > MaxState)
      PROVE  Len(state) + TagLen \in 0 .. MaxU32
  BY <1>1, <1>2, Widths
<1>3. ~ArgumentFault(context, epoch) => KdfError(context, epoch) = "none"
  BY NoEncodingError
<1> QED
  BY <1>2, <1>3 DEF SealError, ArgumentFault, MaxLpField

\* unseal_state on any bytes, with any arguments, opens, refuses or reports bytes
\* that are no envelope; nothing else escapes.
THEOREM UnsealErrorType ==
  ASSUME NEW seals, NEW b \in ByteString, NEW memh, NEW epoch, NEW context \in ByteString
  PROVE  UnsealError(seals, b, memh, epoch, context)
           \in {"none", "SCEError", "malformed", "mismatch"}
<1>1. ~ArgumentFault(context, epoch) => KdfError(context, epoch) = "none"
  BY NoEncodingError
<1> QED
  BY <1>1, ParseType DEF UnsealError

\* A stream's header on any bytes.
LEMMA StreamHeaderType ==
  ASSUME NEW b \in ByteString
  PROVE  StreamHeaderError(b) \in {"none", "malformed"}
<1>1. Len(b) \in Nat /\ StreamHeaderLen \in Nat
  BY Cat, Widths
<1>2. Len(b) < StreamHeaderLen \/ Len(Slice(b, 0, StreamHeaderLen)) = StreamHeaderLen
  BY <1>1, SliceType
<1> QED
  BY <1>2 DEF StreamHeaderError

\* The header of a container: its type, and that bytes whose header parses begin
\* with the header of the integers read from them.
LEMMA StreamHeaderBytes ==
  ASSUME NEW id \in Field(StreamIdLen), NEW n \in 0 .. MaxU64,
         NEW z \in 0 .. MaxU64, NEW t \in 0 .. MaxU64
  PROVE  LET h == StreamHeader(id, n, z, t)
         IN  h \in ByteString /\ Len(h) = StreamHeaderLen
<1> DEFINE q1 == Join(StreamMagic, <<StreamVersion>>)
           q2 == Join(q1, id)
           q3 == Join(q2, U64[n])
           q4 == Join(q3, U64[z])
           q5 == Join(q4, U64[t])
<1>1. StreamMagic \in ByteString /\ <<StreamVersion>> \in ByteString /\ Len(<<StreamVersion>>) = 1
  BY LabelsAssumption DEF ByteString
<1>2. q1 \in ByteString /\ Len(q1) = Len(StreamMagic) + 1
  BY <1>1, JoinType, JoinLen
<1>3. q2 \in ByteString /\ Len(q2) = Len(q1) + StreamIdLen
  BY <1>2, JoinType, JoinLen DEF Field
<1>4. q3 \in ByteString /\ Len(q3) = Len(q2) + U64Len
  BY <1>3, U64Type, JoinType, JoinLen
<1>5. q4 \in ByteString /\ Len(q4) = Len(q3) + U64Len
  BY <1>4, U64Type, JoinType, JoinLen
<1>6. q5 \in ByteString /\ Len(q5) = Len(q4) + U64Len
  BY <1>5, U64Type, JoinType, JoinLen
<1>7. StreamHeader(id, n, z, t) = q5
  BY DEF StreamHeader, Join
<1>8. Len(q5) = StreamHeaderLen
  <2> HIDE DEF q1, q2, q3, q4, q5
  <2> QED
    BY <1>2, <1>3, <1>4, <1>5, <1>6, Widths
<1> QED
  BY <1>6, <1>7, <1>8

LEMMA StreamHeaderParts ==
  ASSUME NEW b \in ByteString, StreamHeaderError(b) = "none"
  PROVE  /\ StreamHeaderLen <= Len(b)
         /\ StreamIdOf(b) \in Field(StreamIdLen)
         /\ SegmentsOf(b) \in 0 .. MaxU64
         /\ SegmentSizeOf(b) \in 0 .. MaxU64
         /\ TotalOf(b) \in 0 .. MaxU64
         /\ Slice(b, 0, StreamHeaderLen)
              = StreamHeader(StreamIdOf(b), SegmentsOf(b), SegmentSizeOf(b), TotalOf(b))
<1> DEFINE H  == StreamHeaderLen
           o1 == Len(StreamMagic)
           o2 == o1 + 1
           o3 == o2 + StreamIdLen
           o4 == H - 2 * U64Len
           o5 == H - U64Len
<1>1. H \in Nat /\ H <= Len(b) /\ Len(b) \in Nat
  BY Cat, Widths DEF StreamHeaderError
<1>2. /\ o1 \in Nat /\ o2 \in Nat /\ o3 \in Nat /\ o4 \in Nat /\ o5 \in Nat
      /\ 0 <= o1 /\ o1 <= o2 /\ o2 <= o3 /\ o3 <= o4 /\ o4 <= o5 /\ o5 <= H
      /\ o3 = H - 3 * U64Len /\ o4 - o3 = U64Len /\ o5 - o4 = U64Len /\ H - o5 = U64Len
      /\ o3 - o2 = StreamIdLen
      /\ o2 <= H /\ o3 <= H /\ o4 <= H /\ H <= H
      /\ o3 + U64Len = o4 /\ o4 + U64Len = o5 /\ o5 + U64Len = H
  BY Widths
<1>3. /\ Slice(b, 0, o1) = StreamMagic
      /\ Slice(b, o1, o2) = <<StreamVersion>>
  BY DEF StreamHeaderError
<1>4. Slice(b, o2, o3) = StreamIdOf(b)
  BY DEF StreamIdOf
<1>5. /\ H - (4 - 1) * U64Len = o3 /\ H - (4 - 2) * U64Len = o4 /\ H - (4 - 3) * U64Len = o5
  BY <1>1, Widths
<1>6. /\ SegmentsOf(b) = Unpack64(Slice(b, o3, o4))
      /\ SegmentSizeOf(b) = Unpack64(Slice(b, o4, o5))
      /\ TotalOf(b) = Unpack64(Slice(b, o5, H))
  BY <1>2, <1>5 DEF SegmentsOf, SegmentSizeOf, TotalOf, HeaderInt
<1> HIDE DEF H, o1, o2, o3, o4, o5
<1>7. \A lo, hi \in Nat : lo <= hi /\ hi <= H =>
        Slice(b, lo, hi) \in ByteString /\ Len(Slice(b, lo, hi)) = hi - lo
  BY <1>1, SliceType
<1>8. \A lo, hi \in Nat : lo <= hi /\ hi <= H /\ hi - lo = U64Len =>
        /\ Unpack64(Slice(b, lo, hi)) \in 0 .. MaxU64
        /\ U64[Unpack64(Slice(b, lo, hi))] = Slice(b, lo, hi)
  BY <1>7, PackInverse
<1>9. /\ SegmentsOf(b) \in 0 .. MaxU64 /\ U64[SegmentsOf(b)] = Slice(b, o3, o4)
      /\ SegmentSizeOf(b) \in 0 .. MaxU64 /\ U64[SegmentSizeOf(b)] = Slice(b, o4, o5)
      /\ TotalOf(b) \in 0 .. MaxU64 /\ U64[TotalOf(b)] = Slice(b, o5, H)
  <2>1. o4 <= H /\ o5 <= H
    BY <1>1, <1>2
  <2>2. Unpack64(Slice(b, o3, o4)) \in 0 .. MaxU64 /\ U64[Unpack64(Slice(b, o3, o4))] = Slice(b, o3, o4)
    BY <1>1, <1>2, <1>8, <2>1
  <2>3. Unpack64(Slice(b, o4, o5)) \in 0 .. MaxU64 /\ U64[Unpack64(Slice(b, o4, o5))] = Slice(b, o4, o5)
    BY <1>1, <1>2, <1>8, <2>1
  <2>4. Unpack64(Slice(b, o5, H)) \in 0 .. MaxU64 /\ U64[Unpack64(Slice(b, o5, H))] = Slice(b, o5, H)
    BY <1>1, <1>2, <1>8, <2>1
  <2> QED
    BY <1>6, <2>2, <2>3, <2>4
<1>10. StreamIdOf(b) \in Field(StreamIdLen)
  <2>1. Slice(b, o2, o3) \in ByteString /\ Len(Slice(b, o2, o3)) = o3 - o2
    BY <1>2, <1>7
  <2> QED
    BY <1>2, <1>4, <2>1 DEF Field
<1>11. \A mid, hi \in Nat : mid <= hi /\ hi <= H =>
         Slice(b, 0, hi) = Join(Slice(b, 0, mid), Slice(b, mid, hi))
  BY <1>1, SliceJoin
<1>12. /\ Slice(b, 0, o2) = Join(Slice(b, 0, o1), Slice(b, o1, o2))
       /\ Slice(b, 0, o3) = Join(Slice(b, 0, o2), Slice(b, o2, o3))
       /\ Slice(b, 0, o4) = Join(Slice(b, 0, o3), Slice(b, o3, o4))
       /\ Slice(b, 0, o5) = Join(Slice(b, 0, o4), Slice(b, o4, o5))
       /\ Slice(b, 0, H) = Join(Slice(b, 0, o5), Slice(b, o5, H))
  <2>1. Slice(b, 0, o2) = Join(Slice(b, 0, o1), Slice(b, o1, o2))
    BY <1>2, <1>11
  <2>2. Slice(b, 0, o3) = Join(Slice(b, 0, o2), Slice(b, o2, o3))
    BY <1>2, <1>11
  <2>3. Slice(b, 0, o4) = Join(Slice(b, 0, o3), Slice(b, o3, o4))
    BY <1>2, <1>11
  <2>4. Slice(b, 0, o5) = Join(Slice(b, 0, o4), Slice(b, o4, o5))
    BY <1>2, <1>11
  <2>5. Slice(b, 0, H) = Join(Slice(b, 0, o5), Slice(b, o5, H))
    BY <1>1, <1>2, <1>11
  <2> QED
    BY <2>1, <2>2, <2>3, <2>4, <2>5
<1>13. Slice(b, 0, H) = StreamHeader(StreamIdOf(b), SegmentsOf(b), SegmentSizeOf(b), TotalOf(b))
  BY <1>3, <1>4, <1>9, <1>12 DEF StreamHeader, Join
<1> QED
  BY <1>1, <1>9, <1>10, <1>13 DEF H
\* A container's header reads as it was written, whatever follows it.
LEMMA StreamHeaderReads ==
  ASSUME NEW id \in Field(StreamIdLen), NEW n \in 0 .. MaxU64,
         NEW z \in 0 .. MaxU64, NEW t \in 0 .. MaxU64, NEW x \in ByteString
  PROVE  LET b == Join(StreamHeader(id, n, z, t), x)
         IN  /\ StreamHeaderError(b) = "none" /\ StreamIdOf(b) = id
             /\ SegmentsOf(b) = n /\ SegmentSizeOf(b) = z /\ TotalOf(b) = t
<1> DEFINE h  == StreamHeader(id, n, z, t)
           b  == Join(h, x)
           q1 == Join(StreamMagic, <<StreamVersion>>)
           x3 == Join(U64[t], x)
           x2 == Join(U64[z], x3)
           x1 == Join(U64[n], x2)
           x0 == Join(id, x1)
<1>1. /\ StreamMagic \in ByteString /\ <<StreamVersion>> \in ByteString
      /\ Len(<<StreamVersion>>) = 1 /\ id \in ByteString
      /\ U64[n] \in ByteString /\ U64[z] \in ByteString /\ U64[t] \in ByteString
  BY LabelsAssumption, U64Type DEF ByteString, Field
<1>2. h \in ByteString /\ Len(h) = StreamHeaderLen
  BY StreamHeaderBytes
<1>3. h = Join(Join(Join(Join(q1, id), U64[n]), U64[z]), U64[t])
  BY DEF StreamHeader, Join
<1>4. q1 \in ByteString
  BY <1>1, JoinType
<1>5. x3 \in ByteString
  BY <1>1, JoinType
<1>6. x2 \in ByteString
  BY <1>1, <1>5, JoinType
<1>7. x1 \in ByteString
  BY <1>1, <1>6, JoinType
<1>8. x0 \in ByteString
  BY <1>1, <1>7, JoinType
<1>9. b = Join(q1, x0)
  <2> DEFINE a1 == Join(q1, id)
             a2 == Join(a1, U64[n])
             a3 == Join(a2, U64[z])
  <2>1. a1 \in ByteString
    BY <1>1, <1>4, JoinType
  <2>2. a2 \in ByteString
    BY <1>1, <2>1, JoinType
  <2>3. a3 \in ByteString
    BY <1>1, <2>2, JoinType
  <2>4. Join(Join(a3, U64[t]), x) = Join(a3, x3)
    <3> HIDE DEF a3
    <3> QED
      BY <1>1, <2>3, JoinAssoc
  <2>5. Join(a3, x3) = Join(a2, x2)
    <3> HIDE DEF a2, x3
    <3> QED
      BY <1>1, <1>5, <2>2, JoinAssoc
  <2>6. Join(a2, x2) = Join(a1, x1)
    <3> HIDE DEF a1, x2
    <3> QED
      BY <1>1, <1>6, <2>1, JoinAssoc
  <2>7. Join(a1, x1) = Join(q1, x0)
    <3> HIDE DEF q1, x1
    <3> QED
      BY <1>1, <1>4, <1>7, JoinAssoc
  <2>8. b = Join(Join(a3, U64[t]), x)
    BY <1>3
  <2> HIDE DEF a1, a2, a3, b, x3, x2, x1, x0
  <2> QED
    BY <2>4, <2>5, <2>6, <2>7, <2>8
<1> HIDE DEF x0, x1, x2, x3
<1>10. /\ Slice(b, 0, Len(StreamMagic)) = StreamMagic
       /\ Slice(b, Len(StreamMagic), Len(StreamMagic) + 1) = <<StreamVersion>>
  <2>1. Slice(Join(Join(StreamMagic, <<StreamVersion>>), x0), Len(StreamMagic),
              Len(StreamMagic) + Len(<<StreamVersion>>)) = <<StreamVersion>>
    BY <1>1, <1>8, JoinMiddle
  <2>2. b = Join(StreamMagic, Join(<<StreamVersion>>, x0)) /\ Join(<<StreamVersion>>, x0) \in ByteString
    BY <1>1, <1>8, <1>9, JoinAssoc, JoinType
  <2>3. Slice(b, 0, Len(StreamMagic)) = StreamMagic
    BY <1>1, <2>2, JoinSlice
  <2> QED
    BY <1>1, <1>9, <2>1, <2>3
<1> HIDE DEF h
<1>11. b \in ByteString /\ Len(b) = StreamHeaderLen + Len(x) /\ Len(x) \in Nat
  BY <1>2, JoinType, JoinLen
<1>12. Slice(b, 0, StreamHeaderLen) = h
  BY <1>2, JoinSlice
<1>13. StreamHeaderError(b) = "none"
  <2>1. ~(Len(b) < StreamHeaderLen)
    BY <1>11, Widths
  <2> QED
    BY <1>2, <1>10, <1>12, <2>1 DEF StreamHeaderError
<1> HIDE DEF b
<1> DEFINE id2 == StreamIdOf(b)
           n2 == SegmentsOf(b)
           z2 == SegmentSizeOf(b)
           t2 == TotalOf(b)
<1>14. /\ id2 \in Field(StreamIdLen) /\ n2 \in 0 .. MaxU64 /\ z2 \in 0 .. MaxU64
       /\ t2 \in 0 .. MaxU64 /\ h = StreamHeader(id2, n2, z2, t2)
  BY <1>11, <1>12, <1>13, StreamHeaderParts
<1> HIDE DEF id2, n2, z2, t2
<1>15. id2 = id /\ n2 = n /\ z2 = z /\ t2 = t
  <2> DEFINE a1 == Join(q1, id)
             a2 == Join(a1, U64[n])
             a3 == Join(a2, U64[z])
             c1 == Join(q1, id2)
             c2 == Join(c1, U64[n2])
             c3 == Join(c2, U64[z2])
  <2>1. Join(a3, U64[t]) = Join(c3, U64[t2])
    BY <1>14 DEF h, StreamHeader, Join
  <2>2. id2 \in ByteString /\ Len(id2) = Len(id)
    BY <1>14 DEF Field
  <2>3. a1 \in ByteString /\ c1 \in ByteString
    BY <1>1, <1>4, <2>2, JoinType
  <2>4. a2 \in ByteString /\ c2 \in ByteString
    BY <1>14, <2>3, U64Type, JoinType
  <2>5. a3 \in ByteString /\ c3 \in ByteString
    BY <1>14, <2>4, U64Type, JoinType
  <2>6. a3 = c3 /\ t = t2
    <3> HIDE DEF a3, c3
    <3> QED
      BY <1>14, <2>1, <2>5, IntSplit
  <2>7. a2 = c2 /\ z = z2
    <3> HIDE DEF a2, c2
    <3> QED
      BY <1>14, <2>4, <2>6, IntSplit DEF a3, c3
  <2>8. a1 = c1 /\ n = n2
    <3> HIDE DEF a1, c1
    <3> QED
      BY <1>14, <2>3, <2>7, IntSplit DEF a2, c2
  <2>9. id = id2
    <3> HIDE DEF q1
    <3> QED
      BY <1>1, <1>4, <2>2, <2>8, JoinSplit
  <2> QED
    BY <2>6, <2>7, <2>8, <2>9
<1> QED
  BY <1>13, <1>15 DEF id2, n2, z2, t2, b, h
-------------------------------------------------------------------------------
(***************************************************************************)
(* Sealing and unsealing.                                                  *)
(***************************************************************************)
\* A seal's own envelope opens, in its environment and among any other seals.
LEMMA SealOpens ==
  ASSUME NEW state, NEW memh, NEW epoch, NEW context, NEW r,
         Sealable(state, memh, epoch, context, r),
         NEW seals, Seal(state, memh, epoch, context, r) \in seals
  PROVE  LET s == Seal(state, memh, epoch, context, r)
         IN  /\ UnsealError(seals, s.envelope, memh, epoch, context) = "none"
             /\ AeadOpens(seals, s.envelope, memh, epoch, context) # {}
             /\ \A t \in AeadOpens(seals, s.envelope, memh, epoch, context) :
                  t \in seals /\ t.ct = BodyOf(state, r)
<1> DEFINE s == Seal(state, memh, epoch, context, r)
           e == s.envelope
<1>1. /\ e \in ByteString /\ ParseError(e) = "none"
      /\ Prefix(e) = HeaderOf(r) /\ Ciphertext(e) = s.ct
      /\ NonceOf(e) = r.nonce /\ SaltOf(e) = r.salt /\ CommitmentOf(e) = r.commitment
  BY EnvelopeParses
<1>2. /\ s.salt = r.salt /\ s.nonce = r.nonce /\ s.commitment = r.commitment
      /\ s.info = KdfCanonical(context, epoch, memh)
      /\ s.aad = Aad(HeaderOf(r), memh, epoch)
      /\ s.ct = BodyOf(state, r)
  BY SealFields
<1>3. s \in seals
  OBVIOUS
<1> HIDE DEF e, s
<1>4. SameKey(s, e, memh, epoch, context)
  BY <1>1, <1>2 DEF SameKey
<1>5. CommitmentOk(seals, e, memh, epoch, context)
  BY <1>1, <1>2, <1>3, <1>4 DEF CommitmentOk
<1>6. s \in AeadOpens(seals, e, memh, epoch, context)
  BY <1>1, <1>2, <1>3, <1>4 DEF AeadOpens
<1>7. ~ArgumentFault(context, epoch) /\ KdfError(context, epoch) = "none"
  <2>1. context \in ByteString /\ Len(context) <= MaxU32 /\ epoch \in 0 .. MaxU64
    BY DEF Sealable
  <2>2. ~ArgumentFault(context, epoch)
    BY <2>1, Cat, Widths DEF ArgumentFault, MaxLpField
  <2> QED
    BY <2>1, <2>2, NoEncodingError
<1>8. UnsealError(seals, e, memh, epoch, context) = "none"
  BY <1>1, <1>5, <1>6, <1>7 DEF UnsealError
<1>9. \A t \in AeadOpens(seals, e, memh, epoch, context) : t \in seals /\ t.ct = BodyOf(state, r)
  BY <1>1, <1>2 DEF AeadOpens
<1> QED
  BY <1>6, <1>8, <1>9 DEF e, s

\* A seal of arguments that seal_state accepts.
Honest(s) ==
  \E state, memh, epoch, context, r :
    Sealable(state, memh, epoch, context, r) /\ s = Seal(state, memh, epoch, context, r)

\* Two honest seals of one ciphertext are seals of one state.
LEMMA SameCiphertext ==
  ASSUME NEW s, NEW t, Honest(s), Honest(t), s.ct = t.ct
  PROVE  s.state = t.state /\ s.state \in ByteString
<1>1. PICK a, m1, e1, c1, r : Sealable(a, m1, e1, c1, r) /\ s = Seal(a, m1, e1, c1, r)
  BY DEF Honest
<1>2. PICK b, m2, e2, c2, q : Sealable(b, m2, e2, c2, q) /\ t = Seal(b, m2, e2, c2, q)
  BY DEF Honest
<1>3. a \in ByteString /\ b \in ByteString /\ r \in Draws /\ q \in Draws
  BY <1>1, <1>2 DEF Sealable
<1>4. s.state = a /\ s.ct = BodyOf(a, r) /\ t.state = b /\ t.ct = BodyOf(b, q)
  BY <1>1, <1>2, SealFields
<1>5. BodyOf(a, r) = BodyOf(b, q)
  BY <1>4
<1>6. a = b
  BY <1>3, <1>5, BodyInjective
<1> QED
  BY <1>3, <1>4, <1>6

LEMMA SealInjective ==
  ASSUME NEW a, NEW m, NEW e, NEW c, NEW r, Sealable(a, m, e, c, r),
         NEW m2 \in ByteString, Len(m2) <= MaxU32, NEW e2 \in 0 .. MaxU64,
         NEW c2 \in ByteString, Len(c2) <= MaxU32,
         KdfCanonical(c, e, m) = KdfCanonical(c2, e2, m2)
  PROVE  c = c2 /\ e = e2 /\ m = m2
<1>1. /\ m \in ByteString /\ Len(m) <= MaxU32 /\ e \in 0 .. MaxU64
      /\ c \in ByteString /\ Len(c) <= MaxU32
  BY WidthsAssumption DEF Sealable, Field
<1> QED
  BY <1>1, KdfCanonicalInjective

\* unseal_state opens, of all byte strings, only an envelope that was sealed, as it
\* was written, in the environment presented, and gives the state that was sealed:
\* the promise of the module docstring, on bytes.
THEOREM OpensOnlyWhatWasSealed ==
  ASSUME NEW seals, \A s \in seals : Honest(s),
         NEW b \in ByteString, NEW memh \in Field(MemhLen), NEW epoch,
         NEW context \in ByteString,
         UnsealError(seals, b, memh, epoch, context) = "none"
  PROVE  \E a, r : LET s == Seal(a, memh, epoch, context, r)
                   IN  /\ Sealable(a, memh, epoch, context, r)
                       /\ s \in seals /\ b = s.envelope
                       /\ Unsealed(seals, b, memh, epoch, context) = a
<1>1. /\ ~ArgumentFault(context, epoch) /\ ParseError(b) = "none"
      /\ AeadOpens(seals, b, memh, epoch, context) # {}
  BY DEF UnsealError
<1>2. Len(context) <= MaxU32 /\ epoch \in 0 .. MaxU64
  BY <1>1, NoEncodingError
<1>3. memh \in ByteString /\ Len(memh) <= MaxU32
  BY WidthsAssumption DEF Field
<1> DEFINE t == CHOOSE s \in AeadOpens(seals, b, memh, epoch, context) : TRUE
<1>4. t \in AeadOpens(seals, b, memh, epoch, context)
  BY <1>1
<1>5. Unsealed(seals, b, memh, epoch, context) = t.state
  BY DEF Unsealed
<1> HIDE DEF t
<1>6. /\ t \in seals /\ t.info = KdfCanonical(context, epoch, memh)
      /\ t.aad = Aad(Prefix(b), memh, epoch) /\ t.ct = Ciphertext(b)
  BY <1>4 DEF AeadOpens, SameKey
<1>7. PICK a, m, e, c, r : Sealable(a, m, e, c, r) /\ t = Seal(a, m, e, c, r)
  BY <1>6 DEF Honest
<1>8. /\ t.info = KdfCanonical(c, e, m) /\ t.aad = Aad(HeaderOf(r), m, e)
      /\ t.ct = BodyOf(a, r) /\ t.state = a
      /\ t.envelope = Join(Join(HeaderOf(r), U32[Len(BodyOf(a, r))]), BodyOf(a, r))
  BY <1>7, SealFields
<1>9. c = context /\ e = epoch /\ m = memh
  BY <1>2, <1>3, <1>6, <1>7, <1>8, SealInjective
<1>10. HeaderOf(r) = Prefix(b)
  <2>1. r \in Draws
    BY <1>7 DEF Sealable
  <2>2. HeaderOf(r) \in ByteString /\ Prefix(b) \in ByteString
    BY <1>3, <2>1, HeaderFields, ParseType
  <2>3. Aad(HeaderOf(r), memh, epoch) = Aad(Prefix(b), memh, epoch)
    BY <1>6, <1>8, <1>9
  <2> QED
    BY <1>2, <1>3, <2>2, <2>3, AadInjective
<1>11. BodyOf(a, r) = Ciphertext(b)
  BY <1>6, <1>8
<1>12. b = t.envelope
  BY <1>1, <1>8, <1>10, <1>11, ParsedParts
<1> QED
  BY <1>5, <1>6, <1>7, <1>8, <1>9, <1>12
===============================================================================
