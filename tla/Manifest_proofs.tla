---------------------------- MODULE Manifest_proofs ----------------------------
(***************************************************************************)
(* Proofs about Manifest, for any strings, normalisation, encoding, core   *)
(* fields, dicts and number of manifests.                                  *)
(***************************************************************************)
EXTENDS Manifest, SequenceLemmas

(***************************************************************************)
(* The inductive invariant.  A manifest's dict is one of its own, which    *)
(* the caller's stores never reach, so it is still the one that was        *)
(* validated and fingerprinted.                                            *)
(***************************************************************************)

Item == (Strings \cup {NotStr}) \X (Strings \cup {NotStr})

\* A dict that may be passed as `extra'.
IsDict(d) == IsSeq(d) /\ (\A n \in DOMAIN d : d[n] \in Item) /\ Len(d) <= MaxExtra

\* The manifest r, with the dicts h.
Sound(r, h) ==
  /\ r.core \in Cores
  /\ r.extra \in 2 .. Len(h)
  /\ r.memh = Memh(r.core, h[r.extra])
  /\ ConstructResult(r.core, h[r.extra]) = "ok"

Inv ==
  /\ IsSeq(heap) /\ heap # <<>> /\ \A d \in DOMAIN heap : IsDict(heap[d])
  /\ IsSeq(manifests) /\ \A m \in DOMAIN manifests : Sound(manifests[m], heap)
  /\ outcome \in {"none", "ok", "SCEError", "UnicodeEncodeError"}
  /\ cloned \in 0 .. Len(manifests)
  /\ ClonesShareMemh
-------------------------------------------------------------------------------
LEMMA ConstructOutcomes ==
  ASSUME NEW core, NEW items
  PROVE  ConstructResult(core, items) \in {"ok", "SCEError", "UnicodeEncodeError"}
BY DEF ConstructResult, EncodingResult

\* There is always the caller's dict.
LEMMA HeapHas ==
  ASSUME Inv
  PROVE  /\ Len(heap) \in Nat /\ Len(heap) >= 1 /\ DOMAIN heap = 1 .. Len(heap)
         /\ CallersDict \in DOMAIN heap
         /\ Len(manifests) \in Nat /\ DOMAIN manifests = 1 .. Len(manifests)
<1>1. /\ Len(heap) \in Nat /\ DOMAIN heap = 1 .. Len(heap)
      /\ Len(manifests) \in Nat /\ DOMAIN manifests = 1 .. Len(manifests)
  BY IsSeqLen DEF Inv
<1>2. Len(heap) # 0
  BY <1>1, IsSeqEmpty, IsSeqEqual DEF Inv
<1> QED
  BY <1>1, <1>2 DEF CallersDict

\* __post_init__, of a dict, adds a manifest that has a dict of its own.
LEMMA PostInitKeeps ==
  ASSUME Inv, NEW core \in Cores, NEW items, IsDict(items), PostInit(core, items)
  PROVE  /\ IsSeq(heap') /\ heap' # <<>> /\ \A d \in DOMAIN heap' : IsDict(heap'[d])
         /\ IsSeq(manifests') /\ \A m \in DOMAIN manifests' : Sound(manifests'[m], heap')
         /\ outcome' = ConstructResult(core, items)
         /\ \/ UNCHANGED manifests
            \/ /\ outcome' = "ok"
               /\ Len(manifests') = Len(manifests) + 1
               /\ \A m \in 1 .. Len(manifests) : manifests'[m] = manifests[m]
               /\ manifests'[Len(manifests) + 1].memh = Memh(core, items)
<1>1. outcome' = ConstructResult(core, items)
  BY DEF PostInit
<1>2. CASE ConstructResult(core, items) # "ok"
  BY <1>1, <1>2 DEF PostInit, Inv
<1>3. CASE ConstructResult(core, items) = "ok"
  <2> DEFINE r == [core |-> core, extra |-> Len(heap) + 1, memh |-> Memh(core, items)]
             n == Len(manifests)
             h == Len(heap)
  <2>1. heap' = Append(heap, items) /\ manifests' = Append(manifests, r)
    BY <1>3 DEF PostInit, OwnDict
  <2>2. h \in Nat /\ h >= 1 /\ DOMAIN heap = 1 .. h /\ n \in Nat /\ DOMAIN manifests = 1 .. n
    BY HeapHas
  <2>3. r.core = core /\ r.extra = h + 1 /\ r.memh = Memh(core, items)
    OBVIOUS
  <2> HIDE DEF r
  <2>4. /\ IsSeq(heap') /\ Len(heap') = h + 1 /\ DOMAIN heap' = 1 .. h + 1
        /\ \A d \in 1 .. h : heap'[d] = heap[d]
        /\ heap'[h + 1] = items
    BY <2>1, IsSeqAppend DEF Inv
  <2>5. /\ IsSeq(manifests') /\ Len(manifests') = n + 1 /\ DOMAIN manifests' = 1 .. n + 1
        /\ \A m \in 1 .. n : manifests'[m] = manifests[m]
        /\ manifests'[n + 1] = r
    BY <2>1, IsSeqAppend DEF Inv
  <2> HIDE DEF n, h
  <2>6. \A d \in DOMAIN heap' : IsDict(heap'[d])
    <3>1. \A d \in 1 .. h + 1 : d \in 1 .. h \/ d = h + 1
      BY <2>2
    <3> QED
      BY <2>2, <2>4, <3>1 DEF Inv
  <2>7. heap' # <<>>
    BY <2>2, <2>4, IsSeqEmpty
  <2>8. ASSUME NEW m \in 1 .. n + 1 PROVE Sound(manifests'[m], heap')
    <3>1. CASE m = n + 1
      <4>1. r.extra \in 2 .. Len(heap') /\ heap'[r.extra] = items
        BY <2>2, <2>3, <2>4
      <4> QED
        BY <1>3, <2>3, <2>5, <3>1, <4>1 DEF Sound
    <3>2. CASE m \in 1 .. n
      <4>1. Sound(manifests[m], heap) /\ manifests'[m] = manifests[m]
        BY <2>2, <2>5, <3>2 DEF Inv
      <4>2. manifests[m].extra \in 2 .. h
        BY <4>1 DEF Sound, h
      <4>3. manifests[m].extra \in 2 .. Len(heap') /\ heap'[manifests[m].extra] = heap[manifests[m].extra]
        BY <2>2, <2>4, <4>2
      <4> QED
        BY <4>1, <4>3 DEF Sound
    <3> QED
      BY <2>2, <3>1, <3>2
  <2> QED
    BY <1>1, <1>3, <2>3, <2>4, <2>5, <2>6, <2>7, <2>8 DEF n
<1> QED
  BY <1>2, <1>3

\* What the caller does to its own dict reaches no manifest.
LEMMA CallerKeeps ==
  ASSUME Inv, NEW d, IsDict(d), heap' = [heap EXCEPT ![CallersDict] = d],
         UNCHANGED <<manifests, outcome, cloned>>
  PROVE  Inv'
<1>1. /\ Len(heap) \in Nat /\ DOMAIN heap = 1 .. Len(heap) /\ CallersDict \in DOMAIN heap
  BY HeapHas
<1>2. /\ IsSeq(heap') /\ Len(heap') = Len(heap) /\ DOMAIN heap' = DOMAIN heap
      /\ \A x \in DOMAIN heap : heap'[x] = IF x = CallersDict THEN d ELSE heap[x]
  BY <1>1, IsSeqExcept DEF Inv
<1>3. heap' # <<>>
  BY <1>1, <1>2, IsSeqEmpty
<1>4. \A x \in DOMAIN heap' : IsDict(heap'[x])
  BY <1>2 DEF Inv
<1>5. ASSUME NEW m \in DOMAIN manifests PROVE Sound(manifests[m], heap')
  <2>1. Sound(manifests[m], heap)
    BY DEF Inv
  <2>2. manifests[m].extra \in 2 .. Len(heap)
    BY <2>1 DEF Sound
  <2>3. manifests[m].extra \in DOMAIN heap /\ manifests[m].extra # CallersDict
    BY <1>1, <2>2 DEF CallersDict
  <2>4. heap'[manifests[m].extra] = heap[manifests[m].extra]
    BY <1>2, <2>3
  <2> QED
    BY <1>2, <2>1, <2>2, <2>4 DEF Sound
<1>6. ClonesShareMemh'
  BY DEF Inv, ClonesShareMemh
<1> QED
  BY <1>2, <1>3, <1>4, <1>5, <1>6 DEF Inv
-------------------------------------------------------------------------------
LEMMA InitInv == Init => Inv
<1> SUFFICES ASSUME Init PROVE Inv
  OBVIOUS
<1> DEFINE h == << <<>> >>
<1>1. IsSeq(h) /\ Len(h) = 1 /\ DOMAIN h = {1} /\ h[1] = <<>> /\ h # <<>>
  <2> DEFINE a == Append(<<>>, <<>>)
  <2>1. h = a
    OBVIOUS
  <2>2. IsSeq(a) /\ Len(a) = Len(<<>>) + 1 /\ DOMAIN a = 1 .. Len(<<>>) + 1
        /\ a[Len(<<>>) + 1] = <<>>
    BY IsSeqEmpty, IsSeqAppend
  <2> HIDE DEF a, h
  <2>3. Len(<<>>) = 0 /\ 0 + 1 = 1 /\ 1 .. 1 = {1}
    BY IsSeqEmpty
  <2>4. IsSeq(h) /\ Len(h) = 1 /\ DOMAIN h = {1} /\ h[1] = <<>>
    BY <2>1, <2>2, <2>3
  <2> QED
    BY <2>4, IsSeqEmpty
<1>2. IsDict(<<>>)
  BY IsSeqEmpty, BoundsAssumption DEF IsDict
<1> HIDE DEF h
<1>3. heap = h /\ manifests = <<>> /\ outcome = "none" /\ cloned = 0
  BY DEF Init, h
<1> QED
  BY <1>1, <1>2, <1>3, IsSeqEmpty DEF Inv, ClonesShareMemh

\* The constructor, called by the caller.
LEMMA ConstructInv ==
  ASSUME Inv, NEW core \in Cores, Construct(core)
  PROVE  Inv'
<1>1. IsDict(heap[CallersDict])
  BY HeapHas DEF Inv
<1>2. PostInit(core, heap[CallersDict]) /\ cloned' = 0
  BY DEF Construct
<1>3. /\ IsSeq(heap') /\ heap' # <<>> /\ \A d \in DOMAIN heap' : IsDict(heap'[d])
      /\ IsSeq(manifests') /\ \A m \in DOMAIN manifests' : Sound(manifests'[m], heap')
      /\ outcome' = ConstructResult(core, heap[CallersDict])
  BY <1>1, <1>2, PostInitKeeps
<1>4. Len(manifests') \in Nat
  BY <1>3, IsSeqLen
<1>5. cloned' \in 0 .. Len(manifests')
  BY <1>2, <1>4
<1> QED
  BY <1>2, <1>3, <1>5, ConstructOutcomes DEF Inv, ClonesShareMemh

\* __reduce__ and the constructor: a valid manifest's items are valid again.
LEMMA CloneInv ==
  ASSUME Inv, NEW m \in DOMAIN manifests, Clone(m)
  PROVE  Inv'
<1> DEFINE core  == manifests[m].core
           items == heap[manifests[m].extra]
<1>1. /\ core \in Cores /\ manifests[m].memh = Memh(core, items)
      /\ ConstructResult(core, items) = "ok" /\ manifests[m].extra \in 2 .. Len(heap)
  BY DEF Inv, Sound
<1>2. IsDict(items)
  <2>1. manifests[m].extra \in DOMAIN heap
    BY <1>1, HeapHas
  <2> QED
    BY <2>1 DEF Inv
<1>3. PostInit(core, items) /\ cloned' = m
  BY DEF Clone, ReducedItems
<1>4. m \in 1 .. Len(manifests) /\ Len(manifests) \in Nat
  BY HeapHas
<1> HIDE DEF core, items
<1>5. /\ IsSeq(heap') /\ heap' # <<>> /\ \A d \in DOMAIN heap' : IsDict(heap'[d])
      /\ IsSeq(manifests') /\ \A k \in DOMAIN manifests' : Sound(manifests'[k], heap')
      /\ outcome' = ConstructResult(core, items)
  BY <1>1, <1>2, <1>3, PostInitKeeps
<1>6. /\ Len(manifests') = Len(manifests) + 1
      /\ \A k \in 1 .. Len(manifests) : manifests'[k] = manifests[k]
      /\ manifests'[Len(manifests) + 1].memh = Memh(core, items)
  <2>1. manifests' # manifests
    <3>1. \E r : manifests' = Append(manifests, r)
      BY <1>1, <1>3 DEF PostInit
    <3>2. Len(manifests') = Len(manifests) + 1
      BY <3>1, IsSeqAppend DEF Inv
    <3> QED
      BY <1>4, <3>2
  <2> QED
    BY <1>1, <1>2, <1>3, <2>1, PostInitKeeps
<1>7. ClonesShareMemh'
  BY <1>1, <1>3, <1>4, <1>5, <1>6 DEF ClonesShareMemh
<1>8. cloned' \in 0 .. Len(manifests')
  BY <1>3, <1>4, <1>6
<1> QED
  BY <1>1, <1>5, <1>7, <1>8 DEF Inv

LEMMA IsDictAppend ==
  ASSUME NEW d, IsDict(d), NEW e \in Item, Len(d) + 1 <= MaxExtra
  PROVE  IsDict(Append(d, e))
<1> DEFINE r == Append(d, e)
<1>1. /\ IsSeq(r) /\ Len(r) = Len(d) + 1 /\ DOMAIN r = 1 .. Len(d) + 1
      /\ \A k \in 1 .. Len(d) : r[k] = d[k]
      /\ r[Len(d) + 1] = e
  BY IsSeqAppend DEF IsDict
<1>2. Len(d) \in Nat /\ DOMAIN d = 1 .. Len(d)
  BY IsSeqLen DEF IsDict
<1> HIDE DEF r
<1>3. \A k \in 1 .. Len(d) + 1 : k \in 1 .. Len(d) \/ k = Len(d) + 1
  BY <1>2
<1>4. \A k \in DOMAIN r : r[k] \in Item
  BY <1>1, <1>2, <1>3 DEF IsDict
<1> QED
  BY <1>1, <1>4 DEF IsDict, r

LEMMA IsDictReplace ==
  ASSUME NEW d, IsDict(d), NEW e \in Item, NEW n \in DOMAIN d
  PROVE  IsDict(ReplaceAt(d, n, e))
<1> DEFINE r == [d EXCEPT ![n] = e]
<1>1. /\ IsSeq(r) /\ Len(r) = Len(d) /\ DOMAIN r = DOMAIN d
      /\ \A k \in DOMAIN d : r[k] = IF k = n THEN e ELSE d[k]
  BY IsSeqExcept DEF IsDict
<1> HIDE DEF r
<1>2. IsDict(r)
  BY <1>1 DEF IsDict
<1> QED
  BY <1>2 DEF r, ReplaceAt

LEMMA IsDictRemove ==
  ASSUME NEW d, IsDict(d), NEW n \in DOMAIN d
  PROVE  IsDict(RemoveAt(d, n))
<1> DEFINE r == RemoveAt(d, n)
<1>1. /\ IsSeq(r) /\ Len(r) = Len(d) - 1
      /\ \A k \in 1 .. Len(d) - 1 : r[k] \in {d[j] : j \in DOMAIN d}
  BY IsSeqRemoveAt DEF IsDict
<1>2. Len(d) \in Nat /\ MaxExtra \in Nat
  BY IsSeqLen, BoundsAssumption DEF IsDict
<1> HIDE DEF r
<1>3. DOMAIN r = 1 .. Len(d) - 1
  BY <1>1, IsSeqLen
<1>4. \A k \in DOMAIN r : r[k] \in Item
  BY <1>1, <1>3 DEF IsDict
<1>5. Len(r) <= MaxExtra
  BY <1>1, <1>2 DEF IsDict
<1> QED
  BY <1>1, <1>4, <1>5 DEF IsDict, r

\* The caller stores an item in its dict, or deletes one.
LEMMA CallerInv ==
  ASSUME Inv, \/ \E key \in Keys, value \in Values : CallerStores(key, value)
              \/ \E n \in DOMAIN heap[CallersDict] : CallerDeletes(n)
  PROVE  Inv'
<1> DEFINE d == heap[CallersDict]
<1>1. IsDict(d) /\ Len(d) \in Nat
  <2>1. IsDict(d)
    BY HeapHas DEF Inv
  <2> QED
    BY <2>1, IsSeqLen DEF IsDict
<1>2. MaxExtra \in Nat
  BY BoundsAssumption
<1>3. ASSUME NEW key \in Keys, NEW value \in Values, CallerStores(key, value)
      PROVE  Inv'
  <2> DEFINE n == SelectInSeq(d, LAMBDA item : item[1] = key)
             e == <<key, value>>
  <2>1. /\ IF n = 0 THEN Len(d) < MaxExtra ELSE d[n][2] # value
        /\ heap' = [heap EXCEPT ![CallersDict] = IF n = 0 THEN Append(d, e) ELSE ReplaceAt(d, n, e)]
        /\ UNCHANGED <<manifests, outcome, cloned>>
    BY <1>3 DEF CallerStores
  <2>a. e \in Item
    BY ExtraAssumption DEF Item
  <2> HIDE DEF n, e, d
  <2>2. CASE n = 0
    <3>1. IsDict(Append(d, e))
      <4>1. Len(d) + 1 <= MaxExtra
        BY <1>1, <1>2, <2>1, <2>2
      <4> QED
        BY <1>1, <2>a, <4>1, IsDictAppend
    <3>2. heap' = [heap EXCEPT ![CallersDict] = Append(d, e)]
      BY <2>1, <2>2
    <3> QED
      BY <2>1, <3>1, <3>2, CallerKeeps
  <2>3. CASE n # 0
    <3>1. IsDict(ReplaceAt(d, n, e))
      <4>1. CASE n \in DOMAIN d
        BY <1>1, <2>a, <4>1, IsDictReplace
      <4>2. CASE n \notin DOMAIN d
        <5>1. d = [k \in DOMAIN d |-> d[k]]
          BY <1>1, IsSeqLen DEF IsDict, IsSeq
        <5>2. ReplaceAt(d, n, e) = d
          BY <4>2, <5>1 DEF ReplaceAt
        <5> QED
          BY <1>1, <5>2
      <4> QED
        BY <4>1, <4>2
    <3>2. heap' = [heap EXCEPT ![CallersDict] = ReplaceAt(d, n, e)]
      BY <2>1, <2>3
    <3> QED
      BY <2>1, <3>1, <3>2, CallerKeeps
  <2> QED
    BY <2>2, <2>3
<1>4. ASSUME NEW n \in DOMAIN d, CallerDeletes(n)
      PROVE  Inv'
  <2>1. IsDict(RemoveAt(d, n))
    BY <1>1, IsDictRemove
  <2>2. /\ heap' = [heap EXCEPT ![CallersDict] = RemoveAt(d, n)]
        /\ UNCHANGED <<manifests, outcome, cloned>>
    BY <1>4 DEF CallerDeletes
  <2> HIDE DEF d
  <2> QED
    BY <2>1, <2>2, CallerKeeps
<1> QED
  BY <1>3, <1>4

LEMMA NextInv == Inv /\ [Next]_vars => Inv'
<1> SUFFICES ASSUME Inv, [Next]_vars PROVE Inv'
  OBVIOUS
<1>1. CASE ConstructNotMapping
  <2>1. Len(manifests) \in Nat
    BY HeapHas
  <2> QED
    BY <1>1, <2>1 DEF ConstructNotMapping, Inv, ClonesShareMemh
<1>2. CASE UNCHANGED vars
  BY <1>2 DEF vars, Inv, ClonesShareMemh
<1> QED
  BY <1>1, <1>2, ConstructInv, CloneInv, CallerInv DEF Next

\* Inv holds of every reachable state.
THEOREM Invariance == Spec => []Inv
BY InitInv, NextInv, PTL DEF Spec
-------------------------------------------------------------------------------
(***************************************************************************)
(* The order in which canonical_bytes sorts is strict and total.          *)
(***************************************************************************)
\* The n-th byte and one more, or 0 past the end: the order of byte strings is that
\* of the first of these that differ.
At(a, n) == IF n \in 1 .. Len(a) THEN a[n] + 1 ELSE 0

Agree(a, b, n) == \A k \in Nat : 1 <= k /\ k < n => At(a, k) = At(b, k)

FirstLess(a, b, n) == At(a, n) < At(b, n) /\ Agree(a, b, n)

LEMMA AtType ==
  ASSUME NEW a \in Seq(Nat)
  PROVE  \A n \in Nat : IF n \in 1 .. Len(a) THEN At(a, n) = a[n] + 1 /\ a[n] \in Nat
                                            ELSE At(a, n) = 0
BY ElementOfSeq, LenProperties DEF At

\* The first n elements are the same.
LEMMA SubSeqsEqual ==
  ASSUME NEW S, NEW a \in Seq(S), NEW b \in Seq(S), NEW n \in 0 .. Len(a), n <= Len(b)
  PROVE  SubSeq(a, 1, n) = SubSeq(b, 1, n) <=> \A k \in 1 .. n : a[k] = b[k]
<1>1. Len(a) \in Nat /\ Len(b) \in Nat /\ n \in Nat
  BY LenProperties
<1> DEFINE p == SubSeq(a, 1, n)
           q == SubSeq(b, 1, n)
<1>2. \A k \in 1 .. n : a[k] \in S /\ b[k] \in S
  BY <1>1, ElementOfSeq
<1>3. p \in Seq(S) /\ Len(p) = n /\ \A k \in 1 .. n : p[k] = a[k]
  <2>1. /\ p \in Seq(S)
        /\ Len(p) = IF 1 <= n THEN n - 1 + 1 ELSE 0
        /\ \A k \in 1 .. n - 1 + 1 : p[k] = a[1 + k - 1]
    BY <1>1, <1>2, SubSeqProperties
  <2> HIDE DEF p
  <2> QED
    BY <1>1, <2>1
<1>4. q \in Seq(S) /\ Len(q) = n /\ \A k \in 1 .. n : q[k] = b[k]
  <2>1. /\ q \in Seq(S)
        /\ Len(q) = IF 1 <= n THEN n - 1 + 1 ELSE 0
        /\ \A k \in 1 .. n - 1 + 1 : q[k] = b[1 + k - 1]
    BY <1>1, <1>2, SubSeqProperties
  <2> HIDE DEF q
  <2> QED
    BY <1>1, <2>1
<1> HIDE DEF p, q
<1>5. p = q <=> \A k \in 1 .. n : p[k] = q[k]
  BY <1>3, <1>4, SeqEqual
<1>6. p = q <=> \A k \in 1 .. n : a[k] = b[k]
  BY <1>3, <1>4, <1>5
<1> QED
  BY <1>6 DEF p, q

\* The order of naturals is total.
LEMMA StrictlyLess ==
  ASSUME NEW x \in Nat, NEW y \in Nat, x <= y, x # y
  PROVE  x < y
OBVIOUS

LEMMA BeforeIsFirstLess ==
  ASSUME NEW a \in Seq(Nat), NEW b \in Seq(Nat)
  PROVE  BytesBefore(a, b) <=> \E n \in Nat \ {0} : FirstLess(a, b, n)
<1>1. /\ Len(a) \in Nat /\ DOMAIN a = 1 .. Len(a)
      /\ Len(b) \in Nat /\ DOMAIN b = 1 .. Len(b)
  BY LenProperties
<1>2. ASSUME IsStrictPrefix(a, b)
      PROVE  \E n \in Nat \ {0} : FirstLess(a, b, n)
  <2>1. Len(a) <= Len(b) /\ SubSeq(a, 1, Len(a)) = SubSeq(b, 1, Len(a)) /\ a # b
    BY <1>2 DEF IsStrictPrefix, IsPrefix
  <2>2. \A k \in 1 .. Len(a) : a[k] = b[k]
    <3>1. Len(a) \in 0 .. Len(a)
      BY <1>1
    <3> QED
      BY <2>1, <3>1, SubSeqsEqual
  <2>3. Len(a) # Len(b)
    <3> SUFFICES ASSUME Len(a) = Len(b) PROVE FALSE
      OBVIOUS
    <3>1. a = b
      BY <2>2, SeqEqual, Zenon
    <3> QED
      BY <2>1, <3>1
  <2>a. Len(a) < Len(b)
    <3>1. Len(a) \in Nat /\ Len(b) \in Nat /\ Len(a) <= Len(b) /\ Len(a) # Len(b)
      BY <1>1, <2>1, <2>3
    <3> QED
      BY <3>1, StrictlyLess, Zenon
  <2> DEFINE n == Len(a) + 1
  <2>4. n \in Nat \ {0} /\ n \in 1 .. Len(b) /\ n \notin 1 .. Len(a)
    BY <1>1, <2>a
  <2> HIDE DEF n
  <2>5. At(a, n) < At(b, n)
    <3>1. At(a, n) = 0
      BY <2>4 DEF At
    <3>2. At(b, n) = b[n] + 1 /\ b[n] \in Nat
      BY <2>4, AtType
    <3> QED
      BY <3>1, <3>2
  <2>6. Agree(a, b, n)
    <3> SUFFICES ASSUME NEW k \in Nat, 1 <= k, k < n PROVE At(a, k) = At(b, k)
      BY DEF Agree
    <3>1. k \in 1 .. Len(a) /\ k \in 1 .. Len(b)
      BY <1>1, <2>1 DEF n
    <3> QED
      BY <2>2, <3>1 DEF At
  <2> QED
    BY <2>4, <2>5, <2>6 DEF FirstLess
<1>3. ASSUME NEW n \in DOMAIN a \cap DOMAIN b,
             a[n] < b[n], SubSeq(b, 1, n - 1) = SubSeq(a, 1, n - 1)
      PROVE  \E m \in Nat \ {0} : FirstLess(a, b, m)
  <2>a. n \in 1 .. Len(a) /\ n \in 1 .. Len(b)
    BY <1>1
  <2>1. /\ n \in Nat \ {0} /\ n \in 1 .. Len(a) /\ n \in 1 .. Len(b)
        /\ n - 1 \in 0 .. Len(a) /\ n - 1 <= Len(b)
    <3>1. Len(a) \in Nat /\ Len(b) \in Nat
      BY <1>1
    <3> QED
      BY <2>a, <3>1
  <2>2. \A k \in 1 .. n - 1 : a[k] = b[k]
    BY <1>3, <2>1, SubSeqsEqual, SMTT(20)
  <2>3. At(a, n) < At(b, n)
    <3>1. At(a, n) = a[n] + 1 /\ a[n] \in Nat /\ At(b, n) = b[n] + 1 /\ b[n] \in Nat
      BY <2>1, AtType
    <3> QED
      BY <1>3, <3>1
  <2>4. Agree(a, b, n)
    <3> SUFFICES ASSUME NEW k \in Nat, 1 <= k, k < n PROVE At(a, k) = At(b, k)
      BY DEF Agree
    <3>1. k \in 1 .. Len(a) /\ k \in 1 .. Len(b) /\ k \in 1 .. n - 1
      BY <1>1, <2>1
    <3> QED
      BY <2>2, <3>1 DEF At
  <2> QED
    BY <2>1, <2>3, <2>4 DEF FirstLess
<1>4. ASSUME NEW n \in Nat \ {0}, FirstLess(a, b, n)
      PROVE  BytesBefore(a, b)
  <2>1. At(a, n) < At(b, n) /\ Agree(a, b, n)
    BY <1>4 DEF FirstLess
  <2>2. n \in 1 .. Len(b)
    <3>1. At(a, n) = 0 \/ (At(a, n) = a[n] + 1 /\ a[n] \in Nat)
      BY AtType
    <3>2. At(b, n) # 0
      BY <2>1, <3>1
    <3> QED
      BY <3>2, AtType
  <2>3. ASSUME NEW k \in 1 .. n - 1 PROVE k \in 1 .. Len(a) /\ a[k] = b[k]
    <3>1. k \in Nat /\ 1 <= k /\ k < n /\ k \in 1 .. Len(b)
      BY <1>1, <2>2
    <3>2. At(a, k) = At(b, k)
      BY <2>1, <3>1 DEF Agree
    <3>3. At(b, k) = b[k] + 1 /\ b[k] \in Nat
      BY <3>1, AtType
    <3>4. k \in 1 .. Len(a)
      <4>1. At(a, k) # 0
        BY <3>2, <3>3
      <4> QED
        BY <3>1, <4>1, AtType
    <3>5. At(a, k) = a[k] + 1 /\ a[k] \in Nat
      BY <3>1, <3>4, AtType
    <3> QED
      BY <3>2, <3>3, <3>4, <3>5
  <2>4. n - 1 \in 0 .. Len(a)
    <3>1. CASE n = 1
      BY <1>1, <3>1
    <3>2. CASE n # 1
      <4>1. n - 1 \in 1 .. n - 1
        BY <3>2
      <4> QED
        BY <2>3, <4>1, <1>1
    <3> QED
      BY <3>1, <3>2
  <2>5. n - 1 <= Len(b) /\ \A k \in 1 .. n - 1 : a[k] = b[k]
    BY <1>1, <2>2, <2>3
  <2>6. SubSeq(a, 1, n - 1) = SubSeq(b, 1, n - 1)
    BY <2>4, <2>5, SubSeqsEqual
  <2>7. CASE n \in 1 .. Len(a)
    <3>1. a[n] < b[n]
      <4>1. At(a, n) = a[n] + 1 /\ a[n] \in Nat
        BY <2>7, AtType
      <4>2. At(b, n) = b[n] + 1 /\ b[n] \in Nat
        BY <2>2, AtType
      <4> QED
        BY <2>1, <4>1, <4>2
    <3>2. n \in DOMAIN a \cap DOMAIN b
      BY <1>1, <2>2, <2>7
    <3> QED
      BY <2>6, <3>1, <3>2, Zenon DEF BytesBefore
  <2>8. CASE n \notin 1 .. Len(a)
    <3>1. Len(a) = n - 1
      BY <1>1, <2>4, <2>8
    <3>2. Len(a) <= Len(b) /\ Len(a) # Len(b)
      BY <1>1, <2>2, <3>1
    <3>3. IsStrictPrefix(a, b)
      BY <2>6, <3>1, <3>2 DEF IsStrictPrefix, IsPrefix
    <3> QED
      BY <3>3 DEF BytesBefore
  <2> QED
    BY <2>7, <2>8
<1> QED
  BY <1>2, <1>3, <1>4 DEF BytesBefore

\* The order of byte strings is strict and total.
LEMMA BytesOrdered ==
  /\ \A a \in Seq(Nat) : ~ BytesBefore(a, a)
  /\ \A a, b, c \in Seq(Nat) : BytesBefore(a, b) /\ BytesBefore(b, c) => BytesBefore(a, c)
  /\ \A a, b \in Seq(Nat) : a = b \/ BytesBefore(a, b) \/ BytesBefore(b, a)
<1>1. \A a \in Seq(Nat) : \A n \in Nat : At(a, n) \in Nat
  BY AtType
<1>2. ASSUME NEW a \in Seq(Nat), BytesBefore(a, a) PROVE FALSE
  <2>1. PICK n \in Nat \ {0} : FirstLess(a, a, n)
    BY <1>2, BeforeIsFirstLess
  <2> QED
    BY <1>1, <2>1 DEF FirstLess
<1>3. ASSUME NEW a \in Seq(Nat), NEW b \in Seq(Nat), NEW c \in Seq(Nat),
             BytesBefore(a, b), BytesBefore(b, c)
      PROVE  BytesBefore(a, c)
  <2>1. PICK m \in Nat \ {0} : FirstLess(a, b, m)
    BY <1>3, BeforeIsFirstLess
  <2>2. PICK n \in Nat \ {0} : FirstLess(b, c, n)
    BY <1>3, BeforeIsFirstLess
  <2> DEFINE p == IF m <= n THEN m ELSE n
  <2>3. p \in Nat \ {0} /\ p <= m /\ p <= n /\ (p = m \/ p = n)
    OBVIOUS
  <2>4. At(a, p) \in Nat /\ At(b, p) \in Nat /\ At(c, p) \in Nat
    BY <1>1, <2>3
  <2> HIDE DEF p
  <2>5. (p < m => At(a, p) = At(b, p)) /\ (p < n => At(b, p) = At(c, p))
    BY <2>1, <2>2, <2>3 DEF FirstLess, Agree
  <2>6. (p = m => At(a, p) < At(b, p)) /\ (p = n => At(b, p) < At(c, p))
    BY <2>1, <2>2 DEF FirstLess
  <2>7. At(a, p) < At(c, p)
    BY <2>3, <2>4, <2>5, <2>6
  <2>8. Agree(a, c, p)
    <3> SUFFICES ASSUME NEW k \in Nat, 1 <= k, k < p PROVE At(a, k) = At(c, k)
      BY DEF Agree
    <3>1. k < m /\ k < n
      BY <2>3
    <3> QED
      BY <2>1, <2>2, <3>1 DEF FirstLess, Agree
  <2>9. FirstLess(a, c, p)
    BY <2>7, <2>8 DEF FirstLess
  <2> QED
    BY <2>3, <2>9, BeforeIsFirstLess
<1>4. ASSUME NEW a \in Seq(Nat), NEW b \in Seq(Nat), a # b
      PROVE  BytesBefore(a, b) \/ BytesBefore(b, a)
  <2> DEFINE D == {n \in Nat : 1 <= n /\ At(a, n) # At(b, n)}
  <2>1. D # {}
    <3> SUFFICES ASSUME \A n \in Nat : 1 <= n => At(a, n) = At(b, n) PROVE FALSE
      OBVIOUS
    <3>1. Len(a) \in Nat /\ Len(b) \in Nat
      BY LenProperties
    <3>2. \A n \in Nat : 1 <= n => (n <= Len(a) <=> n <= Len(b))
      <4> SUFFICES ASSUME NEW n \in Nat, 1 <= n PROVE n <= Len(a) <=> n <= Len(b)
        OBVIOUS
      <4>1. At(a, n) = At(b, n)
        OBVIOUS
      <4>2. IF n \in 1 .. Len(a) THEN At(a, n) = a[n] + 1 /\ a[n] \in Nat ELSE At(a, n) = 0
        BY AtType
      <4>3. IF n \in 1 .. Len(b) THEN At(b, n) = b[n] + 1 /\ b[n] \in Nat ELSE At(b, n) = 0
        BY AtType
      <4>4. At(a, n) = 0 <=> ~(n \in 1 .. Len(a))
        BY <4>2
      <4>5. At(b, n) = 0 <=> ~(n \in 1 .. Len(b))
        BY <4>3
      <4> QED
        BY <3>1, <4>1, <4>4, <4>5
    <3>3. Len(a) = Len(b)
      <4>1. Len(a) = 0 \/ Len(a) <= Len(b)
        BY <3>1, <3>2
      <4>2. Len(b) = 0 \/ Len(b) <= Len(a)
        BY <3>1, <3>2
      <4> QED
        BY <3>1, <4>1, <4>2
    <3>4. \A n \in 1 .. Len(a) : a[n] = b[n]
      <4> SUFFICES ASSUME NEW n \in 1 .. Len(a) PROVE a[n] = b[n]
        OBVIOUS
      <4>1. n \in Nat /\ 1 <= n /\ n \in 1 .. Len(b)
        BY <3>1, <3>3
      <4>2. At(a, n) = a[n] + 1 /\ a[n] \in Nat
        BY <4>1, AtType
      <4>3. At(b, n) = b[n] + 1 /\ b[n] \in Nat
        BY <4>1, AtType
      <4>4. At(a, n) = At(b, n)
        BY <4>1
      <4>5. a[n] + 1 = b[n] + 1
        BY <4>2, <4>3, <4>4, Zenon
      <4> QED
        BY <4>2, <4>3, <4>5
    <3> QED
      BY <1>4, <3>3, <3>4, SeqEqual
  <2>2. PICK n \in D : \A k \in D : n <= k
    <3>1. D \in SUBSET Nat
      OBVIOUS
    <3> HIDE DEF D
    <3> QED
      BY <2>1, <3>1, LeastElement
  <2>3. n \in Nat \ {0} /\ At(a, n) # At(b, n)
    BY <2>2
  <2>4. \A k \in Nat : 1 <= k /\ k < n => k \notin D
    BY <2>2, <2>3
  <2>5. Agree(a, b, n) /\ Agree(b, a, n)
    BY <2>4 DEF Agree
  <2>6. At(a, n) < At(b, n) \/ At(b, n) < At(a, n)
    BY <1>1, <2>3
  <2>7. FirstLess(a, b, n) \/ FirstLess(b, a, n)
    BY <2>5, <2>6 DEF FirstLess
  <2> QED
    BY <2>3, <2>7, BeforeIsFirstLess
<1> QED
  BY <1>2, <1>3, <1>4

-------------------------------------------------------------------------------
(***************************************************************************)
(* Sorting: the rank of an item depends on the keys that are there.        *)
(***************************************************************************)
KeyBytes(items, n) == NfcUtf8(items[n][1])

\* Items that can be sorted, and without a collision of keys.
Sortable(items) == IsSeq(items) /\ \A n \in DOMAIN items : KeyBytes(items, n) \in Seq(Nat)

KeysDiffer(items) ==
  \A m, n \in DOMAIN items : KeyBytes(items, m) = KeyBytes(items, n) => m = n

\* Every key of a is one of b's.
KeysAmong(a, b) ==
  \A m \in DOMAIN a : \E n \in DOMAIN b : KeyBytes(a, m) = KeyBytes(b, n)

\* Every rank is that of one item.
LEMMA Ranks ==
  ASSUME NEW items, Sortable(items)
  PROVE  /\ \A n \in DOMAIN items : Rank(items, n) \in DOMAIN items
         /\ \A m, n \in DOMAIN items : Rank(items, m) = Rank(items, n) => m = n
         /\ \A k \in DOMAIN items : \E n \in DOMAIN items : Rank(items, n) = k
<1> DEFINE K == DOMAIN items
           R == {p \in K \X K : Before(items, p[1], p[2])}
<1>1. Len(items) \in Nat /\ K = 1 .. Len(items)
  BY IsSeqLen DEF Sortable
<1>2. IsFiniteSet(K) /\ Cardinality(K) = Len(items)
  <2>1. 1 \in Int /\ Len(items) \in Int
    BY <1>1
  <2>2. IsFiniteSet(1 .. Len(items))
        /\ Cardinality(1 .. Len(items)) = IF 1 > Len(items) THEN 0 ELSE Len(items) - 1 + 1
    BY <2>1, FS_Interval, Zenon
  <2> QED
    BY <1>1, <2>2
<1>3. \A m, n \in K : <<m, n>> \in R <=> Before(items, m, n)
  OBVIOUS
<1> HIDE DEF R
<1>4. \A n \in K : KeyBytes(items, n) \in Seq(Nat) /\ n \in Nat
  BY <1>1 DEF Sortable
<1>5. \A m, n \in K : Before(items, m, n)
        <=> \/ BytesBefore(KeyBytes(items, m), KeyBytes(items, n))
            \/ KeyBytes(items, m) = KeyBytes(items, n) /\ m < n
  BY DEF Before, KeyBytes
<1>6. ASSUME NEW n \in K PROVE ~ Before(items, n, n)
  BY <1>4, <1>5, BytesOrdered
<1>7. ASSUME NEW l \in K, NEW m \in K, NEW n \in K, Before(items, l, m), Before(items, m, n)
      PROVE  Before(items, l, n)
  <2> DEFINE a == KeyBytes(items, l)
             b == KeyBytes(items, m)
             c == KeyBytes(items, n)
  <2>1. a \in Seq(Nat) /\ b \in Seq(Nat) /\ c \in Seq(Nat) /\ l \in Nat /\ m \in Nat /\ n \in Nat
    BY <1>4
  <2>2. /\ BytesBefore(a, b) \/ (a = b /\ l < m)
        /\ BytesBefore(b, c) \/ (b = c /\ m < n)
    BY <1>5, <1>7
  <2>3. BytesBefore(a, c) \/ (a = c /\ l < n) => Before(items, l, n)
    BY <1>5
  <2> HIDE DEF a, b, c
  <2>4. BytesBefore(a, b) /\ BytesBefore(b, c) => BytesBefore(a, c)
    BY <2>1, BytesOrdered
  <2>5. l < m /\ m < n => l < n
    BY <2>1
  <2> QED
    BY <2>2, <2>3, <2>4, <2>5
<1>8. ASSUME NEW m \in K, NEW n \in K, m # n
      PROVE  Before(items, m, n) \/ Before(items, n, m)
  <2> DEFINE a == KeyBytes(items, m)
             b == KeyBytes(items, n)
  <2>1. a \in Seq(Nat) /\ b \in Seq(Nat) /\ (m < n \/ n < m)
    BY <1>4, <1>8
  <2>2. a = b \/ BytesBefore(a, b) \/ BytesBefore(b, a)
    BY <2>1, BytesOrdered
  <2> QED
    BY <1>5, <2>1, <2>2
<1>9. Orders(R, K)
  BY <1>3, <1>6, <1>7, <1>8 DEF Orders
<1>10. \A n \in K : Rank(items, n) = Place(R, K, n)
  <2> SUFFICES ASSUME NEW n \in K PROVE Rank(items, n) = Place(R, K, n)
    OBVIOUS
  <2>1. {m \in K : Before(items, m, n)} = Below(R, K, n)
    BY <1>3 DEF Below
  <2> QED
    BY <2>1 DEF Rank, Place
<1>11. /\ \A k \in K : Place(R, K, k) \in K
       /\ \A j, k \in K : Place(R, K, j) = Place(R, K, k) => j = k
       /\ \A n \in K : \E k \in K : Place(R, K, k) = n
  BY <1>1, <1>2, <1>9, PlacesAreTaken
<1> QED
  BY <1>10, <1>11

\* The sorted items are the items, each at its rank.
LEMMA Sorting ==
  ASSUME NEW items, Sortable(items)
  PROVE  /\ \A n \in DOMAIN items : SortedItems(items)[Rank(items, n)] = items[n]
         /\ \A k \in DOMAIN items : \E n \in DOMAIN items :
              Rank(items, n) = k /\ SortedItems(items)[k] = items[n]
<1>1. \A k \in DOMAIN items :
        SortedItems(items)[k] = items[CHOOSE n \in DOMAIN items : Rank(items, n) = k]
  BY Zenon DEF SortedItems
<1>2. ASSUME NEW n \in DOMAIN items PROVE SortedItems(items)[Rank(items, n)] = items[n]
  <2> DEFINE k == Rank(items, n)
             m == CHOOSE j \in DOMAIN items : Rank(items, j) = k
  <2>1. k \in DOMAIN items
    BY Ranks
  <2>2. m \in DOMAIN items /\ Rank(items, m) = k
    <3>1. \E j \in DOMAIN items : Rank(items, j) = k
      OBVIOUS
    <3> QED
      BY <3>1, Zenon
  <2>3. SortedItems(items)[k] = items[m]
    BY <1>1, <2>1
  <2>4. m = n
    <3> HIDE DEF m
    <3> QED
      BY <2>2, Ranks DEF k
  <2> QED
    BY <2>3, <2>4
<1> QED
  BY <1>2, Ranks

\* An item's rank depends on the keys that are there and on nothing else.
LEMMA SameRank ==
  ASSUME NEW a, NEW b, Sortable(a), Sortable(b), KeysDiffer(a), KeysDiffer(b),
         KeysAmong(a, b), KeysAmong(b, a)
  PROVE  /\ Len(a) = Len(b)
         /\ \A m \in DOMAIN a, n \in DOMAIN b :
              KeyBytes(a, m) = KeyBytes(b, n) => Rank(a, m) = Rank(b, n)
<1> DEFINE M == {p \in (DOMAIN a) \X (DOMAIN b) : KeyBytes(a, p[1]) = KeyBytes(b, p[2])}
<1>1. /\ Len(a) \in Nat /\ DOMAIN a = 1 .. Len(a)
      /\ Len(b) \in Nat /\ DOMAIN b = 1 .. Len(b)
  BY IsSeqLen DEF Sortable
<1>2. IsFiniteSet(DOMAIN a) /\ Cardinality(DOMAIN a) = Len(a) /\ Cardinality(DOMAIN b) = Len(b)
  <2>1. 1 \in Int /\ Len(a) \in Int /\ Len(b) \in Int
    BY <1>1
  <2>2. /\ IsFiniteSet(1 .. Len(a))
        /\ Cardinality(1 .. Len(a)) = IF 1 > Len(a) THEN 0 ELSE Len(a) - 1 + 1
    BY <2>1, FS_Interval, Zenon
  <2>3. Cardinality(1 .. Len(b)) = IF 1 > Len(b) THEN 0 ELSE Len(b) - 1 + 1
    BY <2>1, FS_Interval, Zenon
  <2> QED
    BY <1>1, <2>2, <2>3
<1>3. \A m \in DOMAIN a, n \in DOMAIN b :
        <<m, n>> \in M <=> KeyBytes(a, m) = KeyBytes(b, n)
  OBVIOUS
<1> HIDE DEF M
<1>4. /\ \A n, l \in DOMAIN b : \A m \in DOMAIN a : <<m, n>> \in M /\ <<m, l>> \in M => n = l
      /\ \A m, l \in DOMAIN a : \A n \in DOMAIN b : <<m, n>> \in M /\ <<l, n>> \in M => m = l
  BY <1>3 DEF KeysDiffer
<1>5. /\ \A m \in DOMAIN a : \E n \in DOMAIN b : <<m, n>> \in M
      /\ \A n \in DOMAIN b : \E m \in DOMAIN a : <<m, n>> \in M
  BY <1>3 DEF KeysAmong
<1>6. Len(a) = Len(b)
  <2>1. Cardinality(DOMAIN b) = Cardinality(DOMAIN a)
    BY <1>2, <1>4, <1>5, SameCount
  <2> QED
    BY <1>2, <2>1
<1>7. ASSUME NEW m \in DOMAIN a, NEW n \in DOMAIN b, KeyBytes(a, m) = KeyBytes(b, n)
      PROVE  Rank(a, m) = Rank(b, n)
  <2> DEFINE S == {l \in DOMAIN a : Before(a, l, m)}
             T == {l \in DOMAIN b : Before(b, l, n)}
  <2>1. IsFiniteSet(S)
    BY <1>2, FS_Subset
  <2>2. \A l \in DOMAIN a : l \in S <=> BytesBefore(KeyBytes(a, l), KeyBytes(a, m))
    <3>1. \A l \in DOMAIN a : KeyBytes(a, l) = KeyBytes(a, m) => l = m /\ ~(l < m)
      BY <1>1 DEF KeysDiffer
    <3> QED
      BY <3>1 DEF Before, KeyBytes
  <2>3. \A l \in DOMAIN b : l \in T <=> BytesBefore(KeyBytes(b, l), KeyBytes(b, n))
    <3>1. \A l \in DOMAIN b : KeyBytes(b, l) = KeyBytes(b, n) => l = n /\ ~(l < n)
      BY <1>1 DEF KeysDiffer
    <3> QED
      BY <3>1 DEF Before, KeyBytes
  <2>4. S \subseteq DOMAIN a /\ T \subseteq DOMAIN b
    OBVIOUS
  <2>5. Rank(a, m) = Cardinality(S) + 1 /\ Rank(b, n) = Cardinality(T) + 1
    BY DEF Rank
  <2> HIDE DEF S, T
  <2>6. \A l \in DOMAIN a, k \in DOMAIN b : <<l, k>> \in M => (l \in S <=> k \in T)
    BY <1>3, <1>7, <2>2, <2>3
  <2>7. /\ \A l \in S : \E k \in T : <<l, k>> \in M
        /\ \A k \in T : \E l \in S : <<l, k>> \in M
    BY <1>5, <2>4, <2>6
  <2>8. /\ \A l \in S : \A k, j \in T : <<l, k>> \in M /\ <<l, j>> \in M => k = j
        /\ \A l, j \in S : \A k \in T : <<l, k>> \in M /\ <<j, k>> \in M => l = j
    BY <1>4, <2>4
  <2>9. Cardinality(T) = Cardinality(S)
    BY <2>1, <2>7, <2>8, SameCount
  <2> QED
    BY <2>5, <2>9
<1> QED
  BY <1>6, <1>7

-------------------------------------------------------------------------------
(***************************************************************************)
(* canonical_bytes is read back in one way only.                           *)
(***************************************************************************)
\* A string that has UTF-8 bytes once it is normalised.
Encodable(s) == s \in Strings /\ NfcUtf8(s) # NoBytes

LEMMA EncodableBytes ==
  /\ \A s : Encodable(s) => NfcUtf8(s) \in Seq(Nat)
  /\ \A s, t : Encodable(s) /\ Encodable(t) => (NfcUtf8(s) = NfcUtf8(t) <=> Nfc[s] = Nfc[t])
<1>1. \A s \in Strings : Nfc[s] \in Strings
  BY NfcAssumption
<1> QED
  BY <1>1, Utf8Assumption DEF Encodable, NfcUtf8

\* The symbols of canonical_bytes, what _enc_str makes of bytes, and two of these.
Symbols == Nat \cup {"SCEMAN1"}
Word(b) == Join(<<Len(b)>>, b)
Words   == {Word(b) : b \in Seq(Nat)}
Pairs   == {Join(c, d) : c \in Words, d \in Words}

LEMMA OneSymbol ==
  ASSUME NEW S, NEW e \in S
  PROVE  <<e>> \in Seq(S) /\ Len(<<e>>) = 1 /\ <<e>>[1] = e
OBVIOUS

LEMMA WordType ==
  ASSUME NEW b \in Seq(Nat)
  PROVE  Word(b) \in Seq(Symbols) /\ b \in Seq(Symbols) /\ <<Len(b)>> \in Seq(Symbols)
<1>1. Nat \subseteq Symbols /\ Len(b) \in Symbols
  BY LenProperties DEF Symbols
<1>2. b \in Seq(Symbols)
  BY <1>1, SeqMonotonic
<1>3. <<Len(b)>> \in Seq(Symbols)
  BY <1>1, OneSymbol
<1> QED
  BY <1>2, <1>3, JoinSeqType DEF Word

\* Two words, with what follows them.
LEMMA WordsDecode ==
  ASSUME NEW b \in Seq(Nat), NEW c \in Seq(Nat), NEW x \in Seq(Symbols), NEW y \in Seq(Symbols),
         Join(Word(b), x) = Join(Word(c), y)
  PROVE  b = c /\ x = y
<1> DEFINE l == <<Len(b)>>
           m == <<Len(c)>>
<1>1. /\ l \in Seq(Symbols) /\ b \in Seq(Symbols)
      /\ m \in Seq(Symbols) /\ c \in Seq(Symbols)
  BY WordType
<1>2. Len(l) = 1 /\ l[1] = Len(b) /\ Len(m) = 1 /\ m[1] = Len(c)
  OBVIOUS
<1>3. Join(Join(l, b), x) = Join(Join(m, c), y)
  BY DEF Word
<1> HIDE DEF l, m
<1>4. Join(l, Join(b, x)) = Join(m, Join(c, y))
  BY <1>1, <1>3, JoinAssociative
<1>5. Join(b, x) \in Seq(Symbols) /\ Join(c, y) \in Seq(Symbols)
  BY <1>1, JoinSeqType
<1>6. l = m /\ Join(b, x) = Join(c, y)
  BY <1>1, <1>2, <1>4, <1>5, JoinSplitLeft
<1>7. Len(b) = Len(c)
  BY <1>2, <1>6
<1> QED
  BY <1>1, <1>6, <1>7, JoinSplitLeft

LEMMA WordsPrefixFree == PrefixFree(Words, Symbols) /\ PrefixFree(Pairs, Symbols)
<1>1. PrefixFree(Words, Symbols)
  BY WordType, WordsDecode DEF Words, PrefixFree
<1>2. Pairs \subseteq Seq(Symbols)
  BY <1>1, JoinSeqType DEF Pairs, PrefixFree
<1>3. ASSUME NEW c \in Pairs, NEW d \in Pairs, NEW x \in Seq(Symbols), NEW y \in Seq(Symbols),
             Join(c, x) = Join(d, y)
      PROVE  c = d /\ x = y
  <2>1. PICK c1 \in Words, c2 \in Words : c = Join(c1, c2)
    BY DEF Pairs
  <2>2. PICK d1 \in Words, d2 \in Words : d = Join(d1, d2)
    BY DEF Pairs
  <2>3. /\ c1 \in Seq(Symbols) /\ c2 \in Seq(Symbols)
        /\ d1 \in Seq(Symbols) /\ d2 \in Seq(Symbols)
    BY <1>1 DEF PrefixFree
  <2>4. Join(c1, Join(c2, x)) = Join(d1, Join(d2, y))
    BY <1>3, <2>1, <2>2, <2>3, JoinAssociative
  <2>5. Join(c2, x) \in Seq(Symbols) /\ Join(d2, y) \in Seq(Symbols)
    BY <2>3, JoinSeqType
  <2>6. c1 = d1 /\ Join(c2, x) = Join(d2, y)
    BY <1>1, <2>4, <2>5 DEF PrefixFree
  <2>7. c2 = d2 /\ x = y
    BY <1>1, <2>6 DEF PrefixFree
  <2> QED
    BY <2>1, <2>2, <2>6, <2>7
<1> QED
  BY <1>1, <1>2, <1>3 DEF PrefixFree

\* canonical_bytes tells its parts apart.
LEMMA CanonicalDecodes ==
  ASSUME NEW p \in Seq(Words), NEW q \in Seq(Words), NEW r \in Seq(Pairs), NEW s \in Seq(Pairs),
         Len(p) = Len(q),
         Join(Join(Join(<<"SCEMAN1">>, FlattenSeq(p)), <<Len(r)>>), FlattenSeq(r))
           = Join(Join(Join(<<"SCEMAN1">>, FlattenSeq(q)), <<Len(s)>>), FlattenSeq(s))
  PROVE  p = q /\ r = s
<1> DEFINE t == <<"SCEMAN1">>
           l == <<Len(r)>>
           m == <<Len(s)>>
           P == FlattenSeq(p)
           Q == FlattenSeq(q)
           F == FlattenSeq(r)
           G == FlattenSeq(s)
<1>1. t \in Seq(Symbols)
  BY OneSymbol DEF Symbols
<1>2. l \in Seq(Symbols) /\ m \in Seq(Symbols)
  <2>1. Len(r) \in Symbols /\ Len(s) \in Symbols
    BY LenProperties DEF Symbols
  <2> QED
    BY <2>1, OneSymbol
<1>3. Len(l) = 1 /\ l[1] = Len(r) /\ Len(m) = 1 /\ m[1] = Len(s)
  OBVIOUS
<1>4. P \in Seq(Symbols) /\ Q \in Seq(Symbols)
  <2>1. p \in Seq(Seq(Symbols)) /\ q \in Seq(Seq(Symbols))
    BY WordsPrefixFree, SeqMonotonic DEF PrefixFree
  <2> QED
    BY <2>1, <1>1, FlattenAppend
<1>5. F \in Seq(Symbols) /\ G \in Seq(Symbols)
  <2>1. r \in Seq(Seq(Symbols)) /\ s \in Seq(Seq(Symbols))
    BY WordsPrefixFree, SeqMonotonic DEF PrefixFree
  <2> QED
    BY <2>1, <1>1, FlattenAppend
<1>6. Join(Join(Join(t, P), l), F) = Join(Join(Join(t, Q), m), G)
  OBVIOUS
<1>7. P = FlattenSeq(p) /\ Q = FlattenSeq(q) /\ F = FlattenSeq(r) /\ G = FlattenSeq(s)
  OBVIOUS
<1> HIDE DEF t, l, m, P, Q, F, G
<1>8. Join(l, F) \in Seq(Symbols) /\ Join(m, G) \in Seq(Symbols)
  BY <1>2, <1>5, JoinSeqType
<1>9. /\ Join(P, Join(l, F)) \in Seq(Symbols) /\ Join(Q, Join(m, G)) \in Seq(Symbols)
      /\ Join(t, P) \in Seq(Symbols) /\ Join(t, Q) \in Seq(Symbols)
  BY <1>1, <1>4, <1>8, JoinSeqType
<1>10. /\ Join(Join(Join(t, P), l), F) = Join(t, Join(P, Join(l, F)))
       /\ Join(Join(Join(t, Q), m), G) = Join(t, Join(Q, Join(m, G)))
  <2>1. /\ Join(Join(Join(t, P), l), F) = Join(Join(t, P), Join(l, F))
        /\ Join(Join(Join(t, Q), m), G) = Join(Join(t, Q), Join(m, G))
    BY <1>2, <1>5, <1>9, JoinAssociative
  <2>2. /\ Join(Join(t, P), Join(l, F)) = Join(t, Join(P, Join(l, F)))
        /\ Join(Join(t, Q), Join(m, G)) = Join(t, Join(Q, Join(m, G)))
    BY <1>1, <1>4, <1>8, JoinAssociative
  <2> QED
    BY <2>1, <2>2
<1>11. Join(P, Join(l, F)) = Join(Q, Join(m, G))
  <2>1. Join(t, Join(P, Join(l, F))) = Join(t, Join(Q, Join(m, G)))
    BY <1>6, <1>10
  <2> QED
    BY <1>1, <1>9, <2>1, JoinSplitLeft
<1>12. p = q /\ Join(l, F) = Join(m, G)
  BY <1>7, <1>8, <1>11, WordsPrefixFree, FlattenDecodes
<1>13. l = m /\ F = G
  BY <1>2, <1>3, <1>5, <1>12, JoinSplitLeft
<1>14. Len(r) = Len(s)
  BY <1>3, <1>13
<1>15. r = s
  <2> DEFINE e == <<>>
  <2>1. e \in Seq(Symbols)
    BY EmptySeq
  <2> HIDE DEF e
  <2>2. Join(FlattenSeq(r), e) = Join(FlattenSeq(s), e)
    BY <1>7, <1>13
  <2> QED
    BY <1>14, <2>1, <2>2, WordsPrefixFree, FlattenDecodes
<1> QED
  BY <1>12, <1>15

-------------------------------------------------------------------------------
(***************************************************************************)
(* What the constructor accepts can be encoded.                            *)
(***************************************************************************)
\* What the constructor accepts.
Valid(core, items) ==
  /\ \A n \in DOMAIN CoreFields : Encodable(core[CoreFields[n]])
  /\ IsSeq(items)
  /\ \A n \in DOMAIN items : Encodable(items[n][1]) /\ Encodable(items[n][2])
  /\ KeysDiffer(items)

LEMMA OkIsValid ==
  ASSUME NEW core \in Cores, NEW items \in Seq(Item), ConstructResult(core, items) = "ok"
  PROVE  Valid(core, items)
<1> DEFINE lp(s)  == [text |-> s, limited |-> TRUE]
           key(s) == [text |-> s, limited |-> FALSE]
           sorted == SortedItems(items)
           S == [text : Strings, limited : BOOLEAN]
           A == [n \in DOMAIN CoreFields |-> lp(core[CoreFields[n]])]
           B == [n \in DOMAIN items |-> key(items[n][1])]
           C == [n \in DOMAIN items |-> <<lp(sorted[n][1]), lp(sorted[n][2])>>]
           all == Encodings(core, items)
<1>1. ~ TypeFault(core, items) /\ ~ KeysCollide(items) /\ EncodingResult(core, items) = "ok"
  BY DEF ConstructResult
<1>2. \A n \in DOMAIN CoreFields : core[CoreFields[n]] \in Strings
  <2> DEFINE F == {CoreFields[n] : n \in DOMAIN CoreFields}
  <2>1. core \in [F -> Strings \cup {NotStr}]
    BY CoresAssumption
  <2>2. \A f \in F : core[f] \in Strings
    <3> HIDE DEF F
    <3> QED
      BY <1>1, <2>1 DEF TypeFault
  <2> QED
    BY <2>2
<1>3. /\ IsSeq(items) /\ Len(items) \in Nat /\ DOMAIN items = 1 .. Len(items)
      /\ \A n \in DOMAIN items : items[n] \in Item
  BY SeqIsSeq, IsSeqLen, ElementOfSeq
<1>4. \A n \in DOMAIN items : items[n][1] \in Strings /\ items[n][2] \in Strings
  BY <1>1, <1>3 DEF TypeFault, Item
<1>5. SelectInSeq(all, LAMBDA x : Unencodable(x) \/ Overlong(x)) = 0
  <2> DEFINE bad == SelectInSeq(all, LAMBDA x : Unencodable(x) \/ Overlong(x))
  <2>1. EncodingResult(core, items)
          = IF bad = 0 THEN "ok" ELSE IF Unencodable(all[bad]) THEN "UnicodeEncodeError"
                                      ELSE "SCEError"
    BY DEF EncodingResult
  <2> HIDE DEF bad
  <2>2. bad = 0
    BY <1>1, <2>1
  <2> QED
    BY <2>2 DEF bad
<1>6. ASSUME NEW s, s \in Seq(S), s = all
      PROVE  \A k \in 1 .. Len(s) : NfcUtf8(s[k].text) # NoBytes
  <2> DEFINE I == {i \in 1 .. Len(s) : Unencodable(s[i]) \/ Overlong(s[i])}
  <2>1. I \in SUBSET Nat /\ 0 \notin I
    OBVIOUS
  <2>2. IF I # {} THEN Min(I) = 0 ELSE TRUE
    BY <1>5, <1>6 DEF SelectInSeq
  <2> HIDE DEF I
  <2>3. I = {}
    BY <2>1, <2>2, LeastIsElement
  <2> QED
    BY <2>3 DEF I, Unencodable
<1>7. Len(CoreFields) \in Nat /\ DOMAIN CoreFields = 1 .. Len(CoreFields)
  BY FieldsAssumption, LenProperties
<1>8. A \in Seq(S) /\ Len(A) = Len(CoreFields) /\ DOMAIN A = DOMAIN CoreFields
  <2>1. \A n \in 1 .. Len(CoreFields) : lp(core[CoreFields[n]]) \in S
    BY <1>2, <1>7
  <2>2. A \in [1 .. Len(CoreFields) -> S]
    BY <1>7, <2>1
  <2> HIDE DEF A, S
  <2> QED
    BY <1>7, <2>2, SeqDef, LenProperties
<1>9. B \in Seq(S) /\ Len(B) = Len(items) /\ DOMAIN B = DOMAIN items
  <2>1. \A n \in 1 .. Len(items) : key(items[n][1]) \in S
    BY <1>3, <1>4
  <2>2. B \in [1 .. Len(items) -> S]
    BY <1>3, <2>1
  <2> HIDE DEF B, S
  <2> QED
    BY <1>3, <2>2, SeqDef, LenProperties
<1> DEFINE D == IF \E n \in DOMAIN items : NfcUtf8(items[n][1]) = NoBytes THEN <<>>
                ELSE FlattenSeq(C)
<1>10. all = (A \o B) \o D
  BY DEF Encodings
<1>11. /\ \A n \in DOMAIN A : A[n].text = core[CoreFields[n]]
       /\ \A n \in DOMAIN B : B[n].text = items[n][1]
  OBVIOUS
<1> HIDE DEF A, B, S, all
<1> DEFINE AB == A \o B
<1>12. /\ AB \in Seq(S) /\ Len(AB) = Len(A) + Len(B) /\ Len(AB) \in Nat
       /\ \A n \in 1 .. Len(A) + Len(B) : AB[n] = IF n <= Len(A) THEN A[n] ELSE B[n - Len(A)]
  BY <1>8, <1>9, ConcatProperties, LenProperties
<1>13. all = AB \o D
  BY <1>10
<1> HIDE DEF AB, D
<1>14. ASSUME D \in Seq(S)
       PROVE  /\ \A n \in DOMAIN CoreFields : NfcUtf8(core[CoreFields[n]]) # NoBytes
              /\ \A n \in DOMAIN items : NfcUtf8(items[n][1]) # NoBytes
              /\ \A n \in 1 .. Len(D) : NfcUtf8(D[n].text) # NoBytes
  <2>1. /\ all \in Seq(S) /\ Len(all) = Len(AB) + Len(D) /\ Len(D) \in Nat
        /\ \A n \in 1 .. Len(AB) + Len(D) : all[n] = IF n <= Len(AB) THEN AB[n] ELSE D[n - Len(AB)]
    <3> DEFINE x == AB \o D
    <3>1. /\ x \in Seq(S) /\ Len(x) = Len(AB) + Len(D)
          /\ \A n \in 1 .. Len(AB) + Len(D) : x[n] = IF n <= Len(AB) THEN AB[n] ELSE D[n - Len(AB)]
      <4>1. AB \in Seq(S) /\ D \in Seq(S)
        BY <1>12, <1>14
      <4> QED
        BY <4>1, ConcatProperties
    <3>2. Len(D) \in Nat
      BY <1>14, LenProperties
    <3>3. all = x
      BY <1>13
    <3> HIDE DEF x
    <3> QED
      BY <3>1, <3>2, <3>3
  <2>2. \A k \in 1 .. Len(all) : NfcUtf8(all[k].text) # NoBytes
    BY <1>6, <2>1
  <2>3. ASSUME NEW n \in DOMAIN CoreFields PROVE NfcUtf8(core[CoreFields[n]]) # NoBytes
    <3>1. n \in 1 .. Len(A) + Len(B) /\ n <= Len(A) /\ n \in 1 .. Len(all) /\ n <= Len(AB)
          /\ n \in 1 .. Len(AB) + Len(D)
      BY <1>3, <1>7, <1>8, <1>9, <1>12, <2>1
    <3>2. all[n] = A[n]
      BY <1>12, <2>1, <3>1
    <3>3. all[n].text = core[CoreFields[n]]
      BY <1>8, <1>11, <3>2
    <3> QED
      BY <2>2, <3>1, <3>3
  <2>4. ASSUME NEW n \in DOMAIN items PROVE NfcUtf8(items[n][1]) # NoBytes
    <3> DEFINE k == Len(A) + n
    <3>1. k \in 1 .. Len(A) + Len(B) /\ ~(k <= Len(A)) /\ k \in 1 .. Len(all) /\ k <= Len(AB)
          /\ k \in 1 .. Len(AB) + Len(D) /\ k - Len(A) = n
      BY <1>3, <1>7, <1>8, <1>9, <1>12, <2>1
    <3> HIDE DEF k
    <3>2. all[k] = B[n]
      BY <1>12, <2>1, <3>1
    <3>3. all[k].text = items[n][1]
      BY <1>9, <1>11, <3>2
    <3> QED
      BY <2>2, <3>1, <3>3
  <2>5. ASSUME NEW n \in 1 .. Len(D) PROVE NfcUtf8(D[n].text) # NoBytes
    <3> DEFINE k == Len(AB) + n
    <3>1. ~(k <= Len(AB)) /\ k \in 1 .. Len(all) /\ k \in 1 .. Len(AB) + Len(D) /\ k - Len(AB) = n
      BY <1>12, <2>1
    <3> HIDE DEF k
    <3>2. all[k] = D[n]
      BY <2>1, <3>1
    <3> QED
      BY <2>2, <3>1, <3>2
  <2> QED
    BY <2>3, <2>4, <2>5
<1>15. \A n \in DOMAIN items : NfcUtf8(items[n][1]) # NoBytes
  <2> SUFFICES ASSUME \E n \in DOMAIN items : NfcUtf8(items[n][1]) = NoBytes PROVE FALSE
    OBVIOUS
  <2>1. D = <<>>
    BY DEF D
  <2>2. D \in Seq(S)
    BY <2>1, EmptySeq
  <2> QED
    BY <1>14, <2>2
<1>16. \A n \in DOMAIN items : Encodable(items[n][1])
  BY <1>4, <1>15 DEF Encodable
<1>17. Sortable(items)
  BY <1>3, <1>16, EncodableBytes DEF Sortable, KeyBytes
<1>18. C \in Seq(Seq(S)) /\ Len(C) = Len(items)
       /\ \A k \in DOMAIN items : Len(C[k]) = 2 /\ C[k][2].text = sorted[k][2]
  <2>1. ASSUME NEW k \in DOMAIN items PROVE C[k] \in Seq(S) /\ Len(C[k]) = 2 /\ C[k][2].text = sorted[k][2]
    <3>1. PICK n \in DOMAIN items : sorted[k] = items[n]
      BY <1>17, Sorting
    <3> HIDE DEF sorted
    <3>2. sorted[k][1] \in Strings /\ sorted[k][2] \in Strings
      BY <1>4, <3>1
    <3> DEFINE x == lp(sorted[k][1])
               y == lp(sorted[k][2])
    <3>3. x \in S /\ y \in S /\ y.text = sorted[k][2]
      BY <3>2 DEF S
    <3>4. C[k] = <<x, y>>
      OBVIOUS
    <3> HIDE DEF x, y, C
    <3>5. <<x, y>> \in Seq(S) /\ Len(<<x, y>>) = 2 /\ <<x, y>>[2] = y
      BY <3>3
    <3> QED
      BY <3>3, <3>4, <3>5
  <2>2. C \in [1 .. Len(items) -> Seq(S)]
    <3>1. C = [n \in DOMAIN items |-> C[n]]
      OBVIOUS
    <3> HIDE DEF C
    <3> QED
      BY <1>3, <2>1, <3>1
  <2> HIDE DEF C
  <2>3. C \in Seq(Seq(S)) /\ Len(C) = Len(items)
    BY <1>3, <2>2, SeqDef, LenProperties
  <2> QED
    BY <2>1, <2>3
<1> HIDE DEF sorted, C
<1>19. D = FlattenSeq(C)
  BY <1>15 DEF D
<1>20. D \in Seq(S)
  <2>1. <<>> \in Seq(S)
    BY EmptySeq
  <2> QED
    BY <1>18, <1>19, <2>1, FlattenAppend
<1>21. ASSUME NEW n \in DOMAIN items PROVE Encodable(items[n][2])
  <2> DEFINE k == Rank(items, n)
  <2>1. k \in DOMAIN items /\ sorted[k] = items[n]
    BY <1>17, Ranks, Sorting DEF sorted
  <2> HIDE DEF k
  <2>2. k \in 1 .. Len(C) /\ 2 \in 1 .. Len(C[k])
    BY <1>3, <1>18, <2>1
  <2>3. PICK j \in 1 .. Len(FlattenSeq(C)) : FlattenSeq(C)[j] = C[k][2]
    BY <1>18, <2>2, FlattenElements
  <2>4. D[j].text = items[n][2]
    BY <1>18, <1>19, <2>1, <2>3
  <2>5. NfcUtf8(items[n][2]) # NoBytes
    BY <1>14, <1>19, <1>20, <2>3, <2>4
  <2> QED
    BY <1>4, <2>5 DEF Encodable
<1>22. KeysDiffer(items)
  <2> SUFFICES ASSUME NEW m \in DOMAIN items, NEW n \in DOMAIN items,
                      KeyBytes(items, m) = KeyBytes(items, n)
               PROVE  m = n
    BY DEF KeysDiffer
  <2>1. Nfc[items[m][1]] = Nfc[items[n][1]]
    BY <1>16, EncodableBytes DEF KeyBytes
  <2> QED
    BY <1>1, <2>1 DEF KeysCollide
<1>23. \A n \in DOMAIN CoreFields : Encodable(core[CoreFields[n]])
  BY <1>2, <1>14, <1>20 DEF Encodable
<1> QED
  BY <1>3, <1>16, <1>21, <1>22, <1>23 DEF Valid

-------------------------------------------------------------------------------
(***************************************************************************)
(* One fingerprint, one environment.                                       *)
(***************************************************************************)
\* What core fields and items say, whatever the form and the order.
SaysCore(core)   == [f \in DOMAIN core |-> Nfc[core[f]]]
SaysExtra(items) == {<<Nfc[items[n][1]], Nfc[items[n][2]]>> : n \in DOMAIN items}

\* The parts of canonical_bytes.
CorePart(core)  == [n \in DOMAIN CoreFields |-> EncStr(core[CoreFields[n]])]
ItemPart(items) == [n \in DOMAIN items |->
                      EncStr(SortedItems(items)[n][1]) \o EncStr(SortedItems(items)[n][2])]

ItemBytes(items, n) == Join(Word(KeyBytes(items, n)), Word(NfcUtf8(items[n][2])))

LEMMA ValidItems ==
  ASSUME NEW core, NEW items, Valid(core, items)
  PROVE  /\ Sortable(items) /\ KeysDiffer(items)
         /\ Len(items) \in Nat /\ DOMAIN items = 1 .. Len(items)
         /\ \A n \in DOMAIN items : KeyBytes(items, n) \in Seq(Nat) /\ NfcUtf8(items[n][2]) \in Seq(Nat)
BY EncodableBytes, IsSeqLen DEF Valid, Sortable, KeyBytes

LEMMA PartsOf ==
  ASSUME NEW core, NEW items, Valid(core, items)
  PROVE  /\ CorePart(core) \in Seq(Words) /\ Len(CorePart(core)) = Len(CoreFields)
         /\ \A n \in DOMAIN CoreFields : CorePart(core)[n] = Word(NfcUtf8(core[CoreFields[n]]))
         /\ ItemPart(items) \in Seq(Pairs) /\ Len(ItemPart(items)) = Len(items)
         /\ \A n \in DOMAIN items : ItemPart(items)[Rank(items, n)] = ItemBytes(items, n)
         /\ CanonicalBytes(core, items)
              = Join(Join(Join(<<"SCEMAN1">>, FlattenSeq(CorePart(core))), <<Len(ItemPart(items))>>),
                     FlattenSeq(ItemPart(items)))
<1>1. \A s : EncStr(s) = Word(NfcUtf8(s))
  BY DEF EncStr, Word, Join
<1>2. Len(CoreFields) \in Nat /\ DOMAIN CoreFields = 1 .. Len(CoreFields)
  BY FieldsAssumption, LenProperties
<1>3. \A n \in DOMAIN CoreFields : CorePart(core)[n] = Word(NfcUtf8(core[CoreFields[n]]))
  BY <1>1 DEF CorePart
<1>4. CorePart(core) \in Seq(Words) /\ Len(CorePart(core)) = Len(CoreFields)
  <2>1. \A n \in DOMAIN CoreFields : CorePart(core)[n] \in Words
    BY <1>3, EncodableBytes DEF Valid, Words
  <2>2. CorePart(core) = [n \in DOMAIN CoreFields |-> CorePart(core)[n]]
    BY DEF CorePart
  <2>3. CorePart(core) \in [1 .. Len(CoreFields) -> Words]
    BY <1>2, <2>1, <2>2
  <2> QED
    BY <1>2, <2>3, SeqDef, LenProperties
<1>5. Len(items) \in Nat /\ DOMAIN items = 1 .. Len(items) /\ Sortable(items)
  BY ValidItems
<1>6. \A n \in DOMAIN items : Rank(items, n) \in DOMAIN items
                              /\ ItemPart(items)[Rank(items, n)] = ItemBytes(items, n)
  <2> SUFFICES ASSUME NEW n \in DOMAIN items
               PROVE  Rank(items, n) \in DOMAIN items
                      /\ ItemPart(items)[Rank(items, n)] = ItemBytes(items, n)
    OBVIOUS
  <2> DEFINE k == Rank(items, n)
  <2>1. k \in DOMAIN items /\ SortedItems(items)[k] = items[n]
    BY <1>5, Ranks, Sorting
  <2> HIDE DEF k
  <2>2. ItemPart(items)[k] = EncStr(SortedItems(items)[k][1]) \o EncStr(SortedItems(items)[k][2])
    BY <2>1, Zenon DEF ItemPart
  <2>3. ItemPart(items)[k] = Join(EncStr(items[n][1]), EncStr(items[n][2]))
    BY <2>1, <2>2 DEF Join
  <2>4. ItemPart(items)[k] = ItemBytes(items, n)
    BY <1>1, <2>3 DEF ItemBytes, KeyBytes
  <2> QED
    BY <2>1, <2>4 DEF k
<1>7. ItemPart(items) \in Seq(Pairs) /\ Len(ItemPart(items)) = Len(items)
  <2>1. \A n \in DOMAIN items : ItemBytes(items, n) \in Pairs
    <3> SUFFICES ASSUME NEW n \in DOMAIN items PROVE ItemBytes(items, n) \in Pairs
      OBVIOUS
    <3>1. KeyBytes(items, n) \in Seq(Nat) /\ NfcUtf8(items[n][2]) \in Seq(Nat)
      BY ValidItems
    <3>2. Word(KeyBytes(items, n)) \in Words /\ Word(NfcUtf8(items[n][2])) \in Words
      BY <3>1 DEF Words
    <3> QED
      BY <3>2 DEF ItemBytes, Pairs
  <2>2. \A k \in DOMAIN items : ItemPart(items)[k] \in Pairs
    <3> SUFFICES ASSUME NEW k \in DOMAIN items PROVE ItemPart(items)[k] \in Pairs
      OBVIOUS
    <3>1. PICK n \in DOMAIN items : Rank(items, n) = k
      BY <1>5, Ranks
    <3> QED
      BY <1>6, <2>1, <3>1
  <2>3. ItemPart(items) = [n \in DOMAIN items |-> ItemPart(items)[n]]
    BY DEF ItemPart
  <2>4. ItemPart(items) \in [1 .. Len(items) -> Pairs]
    BY <1>5, <2>2, <2>3
  <2> QED
    BY <1>5, <2>4, SeqDef, LenProperties
<1>8. CanonicalBytes(core, items)
        = Join(Join(Join(<<"SCEMAN1">>, FlattenSeq(CorePart(core))), <<Len(items)>>),
               FlattenSeq(ItemPart(items)))
  BY DEF CanonicalBytes, Join, CorePart, ItemPart
<1> QED
  BY <1>3, <1>4, <1>6, <1>7, <1>8

\* The bytes of an item tell its key and its value.
LEMMA ItemBytesDecode ==
  ASSUME NEW a \in Seq(Nat), NEW b \in Seq(Nat), NEW c \in Seq(Nat), NEW d \in Seq(Nat),
         Join(Word(a), Word(b)) = Join(Word(c), Word(d))
  PROVE  a = c /\ b = d
<1>1. Word(b) \in Seq(Symbols) /\ Word(d) \in Seq(Symbols) /\ <<>> \in Seq(Symbols)
  BY WordType, EmptySeq
<1>2. a = c /\ Word(b) = Word(d)
  BY <1>1, WordsDecode
<1>3. Join(Word(b), <<>>) = Join(Word(d), <<>>)
  BY <1>2
<1> QED
  BY <1>1, <1>2, <1>3, WordsDecode

\* Equal items of two manifests, at equal ranks, are an item said by both.
LEMMA SaidByBoth ==
  ASSUME NEW c1, NEW c2, NEW a, NEW b, Valid(c1, a), Valid(c2, b),
         Len(a) = Len(b), ItemPart(a) = ItemPart(b)
  PROVE  SaysExtra(a) \subseteq SaysExtra(b)
<1> SUFFICES ASSUME NEW m \in DOMAIN a
             PROVE  \E n \in DOMAIN b :
                      Nfc[a[m][1]] = Nfc[b[n][1]] /\ Nfc[a[m][2]] = Nfc[b[n][2]]
  BY DEF SaysExtra
<1>1. Sortable(a) /\ Sortable(b) /\ DOMAIN a = DOMAIN b
  BY ValidItems
<1>2. Rank(a, m) \in DOMAIN b
  BY <1>1, Ranks
<1>3. PICK n \in DOMAIN b : Rank(b, n) = Rank(a, m)
  BY <1>1, <1>2, Ranks
<1>4. ItemBytes(a, m) = ItemBytes(b, n)
  BY <1>3, PartsOf
<1>5. KeyBytes(a, m) = KeyBytes(b, n) /\ NfcUtf8(a[m][2]) = NfcUtf8(b[n][2])
  <2>1. /\ KeyBytes(a, m) \in Seq(Nat) /\ NfcUtf8(a[m][2]) \in Seq(Nat)
        /\ KeyBytes(b, n) \in Seq(Nat) /\ NfcUtf8(b[n][2]) \in Seq(Nat)
    BY ValidItems
  <2> QED
    BY <1>4, <2>1, ItemBytesDecode DEF ItemBytes
<1>6. /\ Encodable(a[m][1]) /\ Encodable(a[m][2]) /\ Encodable(b[n][1]) /\ Encodable(b[n][2])
  BY DEF Valid
<1> QED
  BY <1>5, <1>6, EncodableBytes DEF KeyBytes

\* Valid manifests have one fingerprint exactly when they say the same.
LEMMA MemhTells ==
  ASSUME NEW c1 \in Cores, NEW c2 \in Cores, NEW a, NEW b, Valid(c1, a), Valid(c2, b)
  PROVE  Memh(c1, a) = Memh(c2, b) <=> SaysCore(c1) = SaysCore(c2) /\ SaysExtra(a) = SaysExtra(b)
<1> DEFINE F == {CoreFields[n] : n \in DOMAIN CoreFields}
<1>1. DOMAIN c1 = F /\ DOMAIN c2 = F
  BY CoresAssumption
<1>2. \A n \in DOMAIN CoreFields : Encodable(c1[CoreFields[n]]) /\ Encodable(c2[CoreFields[n]])
  BY DEF Valid
<1>3. SaysCore(c1) = SaysCore(c2)
        <=> \A n \in DOMAIN CoreFields : Nfc[c1[CoreFields[n]]] = Nfc[c2[CoreFields[n]]]
  <2>1. SaysCore(c1) = [f \in F |-> Nfc[c1[f]]] /\ SaysCore(c2) = [f \in F |-> Nfc[c2[f]]]
    BY <1>1 DEF SaysCore
  <2>2. SaysCore(c1) = SaysCore(c2) <=> \A f \in F : Nfc[c1[f]] = Nfc[c2[f]]
    <3> HIDE DEF F
    <3>1. (\A f \in F : Nfc[c1[f]] = Nfc[c2[f]]) => SaysCore(c1) = SaysCore(c2)
      BY <2>1
    <3>2. SaysCore(c1) = SaysCore(c2) => \A f \in F : Nfc[c1[f]] = Nfc[c2[f]]
      <4>1. \A f \in F : SaysCore(c1)[f] = Nfc[c1[f]] /\ SaysCore(c2)[f] = Nfc[c2[f]]
        BY <2>1
      <4> QED
        BY <4>1
    <3> QED
      BY <3>1, <3>2
  <2> QED
    BY <2>2
<1>4. ASSUME Memh(c1, a) = Memh(c2, b)
      PROVE  SaysCore(c1) = SaysCore(c2) /\ SaysExtra(a) = SaysExtra(b)
  <2>1. CanonicalBytes(c1, a) = CanonicalBytes(c2, b)
    <3> DEFINE x == Memh(c1, a)
               y == Memh(c2, b)
    <3>1. x.sha3 = CanonicalBytes(c1, a) /\ y.sha3 = CanonicalBytes(c2, b)
      BY DEF Memh
    <3> QED
      BY <1>4, <3>1
  <2>2. CorePart(c1) = CorePart(c2) /\ ItemPart(a) = ItemPart(b)
    <3> DEFINE p == CorePart(c1)
               q == CorePart(c2)
               r == ItemPart(a)
               s == ItemPart(b)
    <3>1. p \in Seq(Words) /\ q \in Seq(Words) /\ r \in Seq(Pairs) /\ s \in Seq(Pairs)
          /\ Len(p) = Len(q)
      BY PartsOf
    <3>2. Join(Join(Join(<<"SCEMAN1">>, FlattenSeq(p)), <<Len(r)>>), FlattenSeq(r))
            = Join(Join(Join(<<"SCEMAN1">>, FlattenSeq(q)), <<Len(s)>>), FlattenSeq(s))
      <4>1. CanonicalBytes(c1, a) = Join(Join(Join(<<"SCEMAN1">>, FlattenSeq(p)), <<Len(r)>>), FlattenSeq(r))
        BY PartsOf
      <4>2. CanonicalBytes(c2, b) = Join(Join(Join(<<"SCEMAN1">>, FlattenSeq(q)), <<Len(s)>>), FlattenSeq(s))
        BY PartsOf
      <4> HIDE DEF p, q, r, s
      <4> QED
        BY <2>1, <4>1, <4>2
    <3> HIDE DEF p, q, r, s
    <3>3. p = q /\ r = s
      BY <3>1, <3>2, CanonicalDecodes
    <3> QED
      BY <3>3 DEF p, q, r, s
  <2>3. Len(a) = Len(b)
    BY <2>2, PartsOf
  <2>4. SaysExtra(a) = SaysExtra(b)
    <3>1. SaysExtra(a) \subseteq SaysExtra(b)
      BY <2>2, <2>3, SaidByBoth
    <3>2. SaysExtra(b) \subseteq SaysExtra(a)
      BY <2>2, <2>3, SaidByBoth
    <3> QED
      BY <3>1, <3>2
  <2>5. ASSUME NEW n \in DOMAIN CoreFields
        PROVE  Nfc[c1[CoreFields[n]]] = Nfc[c2[CoreFields[n]]]
    <3> DEFINE s == c1[CoreFields[n]]
               t == c2[CoreFields[n]]
    <3>1. Encodable(s) /\ Encodable(t)
      BY <1>2
    <3>2. Word(NfcUtf8(s)) = Word(NfcUtf8(t))
      BY <2>2, PartsOf
    <3> HIDE DEF s, t
    <3>3. NfcUtf8(s) \in Seq(Nat) /\ NfcUtf8(t) \in Seq(Nat)
      BY <3>1, EncodableBytes
    <3>4. Join(Word(NfcUtf8(s)), <<>>) = Join(Word(NfcUtf8(t)), <<>>) /\ <<>> \in Seq(Symbols)
      BY <3>2, EmptySeq
    <3>5. NfcUtf8(s) = NfcUtf8(t)
      BY <3>3, <3>4, WordsDecode
    <3>6. Nfc[s] = Nfc[t]
      BY <3>1, <3>5, EncodableBytes
    <3> QED
      BY <3>6 DEF s, t
  <2> QED
    BY <1>3, <2>4, <2>5
<1>5. ASSUME SaysCore(c1) = SaysCore(c2), SaysExtra(a) = SaysExtra(b)
      PROVE  Memh(c1, a) = Memh(c2, b)
  <2>1. \A n \in DOMAIN CoreFields : NfcUtf8(c1[CoreFields[n]]) = NfcUtf8(c2[CoreFields[n]])
    BY <1>3, <1>5 DEF NfcUtf8
  <2>2. CorePart(c1) = CorePart(c2)
    BY <2>1 DEF CorePart, EncStr
  <2> DEFINE Same(m, n) == Nfc[a[m][1]] = Nfc[b[n][1]] /\ Nfc[a[m][2]] = Nfc[b[n][2]]
  <2>3. /\ \A m \in DOMAIN a : \E n \in DOMAIN b : Same(m, n)
        /\ \A n \in DOMAIN b : \E m \in DOMAIN a : Same(m, n)
    <3>1. ASSUME NEW m \in DOMAIN a PROVE \E n \in DOMAIN b : Same(m, n)
      <4>1. <<Nfc[a[m][1]], Nfc[a[m][2]]>> \in SaysExtra(b)
        BY <1>5 DEF SaysExtra
      <4> QED
        BY <4>1 DEF SaysExtra
    <3>2. ASSUME NEW n \in DOMAIN b PROVE \E m \in DOMAIN a : Same(m, n)
      <4>1. <<Nfc[b[n][1]], Nfc[b[n][2]]>> \in SaysExtra(a)
        BY <1>5 DEF SaysExtra
      <4> QED
        BY <4>1 DEF SaysExtra
    <3> QED
      BY <3>1, <3>2
  <2>4. \A m \in DOMAIN a, n \in DOMAIN b :
          Same(m, n) => KeyBytes(a, m) = KeyBytes(b, n) /\ ItemBytes(a, m) = ItemBytes(b, n)
    BY DEF KeyBytes, ItemBytes, NfcUtf8
  <2> HIDE DEF Same
  <2>5. /\ Sortable(a) /\ KeysDiffer(a) /\ Len(a) \in Nat /\ DOMAIN a = 1 .. Len(a)
        /\ Sortable(b) /\ KeysDiffer(b) /\ DOMAIN b = 1 .. Len(b)
    BY ValidItems
  <2>6. KeysAmong(a, b) /\ KeysAmong(b, a)
    BY <2>3, <2>4 DEF KeysAmong
  <2>7. /\ Len(a) = Len(b)
        /\ \A m \in DOMAIN a, n \in DOMAIN b :
             KeyBytes(a, m) = KeyBytes(b, n) => Rank(a, m) = Rank(b, n)
    <3>1. Sortable(a) /\ Sortable(b) /\ KeysDiffer(a) /\ KeysDiffer(b)
      BY <2>5
    <3> QED
      BY <2>6, <3>1, SameRank
  <2>8. ASSUME NEW k \in DOMAIN a PROVE ItemPart(a)[k] = ItemPart(b)[k]
    <3>1. PICK m \in DOMAIN a : Rank(a, m) = k
      BY <2>5, Ranks
    <3>2. PICK n \in DOMAIN b : Same(m, n)
      BY <2>3
    <3>3. Rank(b, n) = k /\ ItemBytes(a, m) = ItemBytes(b, n)
      BY <2>4, <2>7, <3>1, <3>2
    <3>4. ItemPart(a)[Rank(a, m)] = ItemBytes(a, m)
      BY PartsOf
    <3>5. ItemPart(b)[Rank(b, n)] = ItemBytes(b, n)
      BY PartsOf
    <3> QED
      BY <3>1, <3>3, <3>4, <3>5
  <2>9. ItemPart(a) = ItemPart(b)
    <3>1. /\ ItemPart(a) \in Seq(Pairs) /\ Len(ItemPart(a)) = Len(a)
          /\ ItemPart(b) \in Seq(Pairs) /\ Len(ItemPart(b)) = Len(b)
      BY PartsOf
    <3> QED
      BY <2>5, <2>7, <2>8, <3>1, SeqEqual
  <2>10. CanonicalBytes(c1, a) = CanonicalBytes(c2, b)
    BY <2>2, <2>7, <2>9, PartsOf
  <2> QED
    BY <2>10 DEF Memh
<1> QED
  BY <1>4, <1>5
-------------------------------------------------------------------------------
(***************************************************************************)
(* The properties.                                                         *)
(***************************************************************************)

\* Every variable has its type: in particular no manifest's dict is the caller's,
\* and no constructor ends with an error the code does not raise.
THEOREM TypeCorrect == Spec => []TypeOK
<1>1. Inv => TypeOK
  <2> SUFFICES ASSUME Inv PROVE TypeOK
    OBVIOUS
  <2>1. \A d \in DOMAIN heap : Len(heap[d]) \in 0 .. MaxExtra
    BY IsSeqLen, BoundsAssumption DEF Inv, IsDict
  <2> QED
    BY <2>1 DEF Inv, TypeOK, Sound
<1> QED
  BY <1>1, Invariance, PTL

\* The fingerprint computed once, at construction, stays that of what the
\* manifest shows: nothing the caller does to the dict it passed reaches it.
THEOREM MemhStaysCurrent == Spec => []CachedMemhIsCurrent
<1>1. Inv => CachedMemhIsCurrent
  BY DEF Inv, CachedMemhIsCurrent, Sound, Items
<1> QED
  BY <1>1, Invariance, PTL

\* Pickling or copying a manifest gives one with its fingerprint.
THEOREM ClonesMatch == Spec => []ClonesShareMemh
<1>1. Inv => ClonesShareMemh
  BY DEF Inv
<1> QED
  BY <1>1, Invariance, PTL

\* The fingerprint identifies the environment, in both directions: a valid
\* manifest's strings can all be encoded and its keys are distinct, so
\* canonical_bytes is read back in one way only, and is the same bytes whatever
\* the spelling and the order (README, docstring of ModelManifest).
THEOREM MemhIdentifies == Spec => []MemhIdentifiesEnvironment
<1>1. Inv => MemhIdentifiesEnvironment
  <2> SUFFICES ASSUME Inv, NEW m \in DOMAIN manifests, NEW n \in DOMAIN manifests
               PROVE  manifests[m].memh = manifests[n].memh <=> Environment(m) = Environment(n)
    BY DEF MemhIdentifiesEnvironment
  <2>1. ASSUME NEW k \in DOMAIN manifests
        PROVE  /\ manifests[k].core \in Cores
               /\ manifests[k].memh = Memh(manifests[k].core, Items(k))
               /\ Valid(manifests[k].core, Items(k))
               /\ Environment(k) = [core |-> SaysCore(manifests[k].core), extra |-> SaysExtra(Items(k))]
    <3>1. Sound(manifests[k], heap)
      BY DEF Inv
    <3>2. manifests[k].extra \in DOMAIN heap
      BY <3>1, HeapHas DEF Sound
    <3>3. Items(k) \in Seq(Item)
      BY <3>2, IsSeqOf DEF Inv, IsDict, Items
    <3>4. /\ manifests[k].core \in Cores /\ ConstructResult(manifests[k].core, Items(k)) = "ok"
          /\ manifests[k].memh = Memh(manifests[k].core, Items(k))
      BY <3>1 DEF Sound, Items
    <3>5. Environment(k) = [core |-> SaysCore(manifests[k].core), extra |-> SaysExtra(Items(k))]
      BY DEF Environment, SaysCore, SaysExtra
    <3> QED
      BY <3>3, <3>4, <3>5, OkIsValid
  <2> DEFINE c == manifests[m].core
             d == manifests[n].core
             a == Items(m)
             b == Items(n)
             x == Environment(m)
             y == Environment(n)
  <2>2. /\ c \in Cores /\ d \in Cores /\ Valid(c, a) /\ Valid(d, b)
        /\ manifests[m].memh = Memh(c, a) /\ manifests[n].memh = Memh(d, b)
        /\ x = [core |-> SaysCore(c), extra |-> SaysExtra(a)]
        /\ y = [core |-> SaysCore(d), extra |-> SaysExtra(b)]
    BY <2>1
  <2> HIDE DEF c, d, a, b, x, y
  <2>3. Memh(c, a) = Memh(d, b) <=> SaysCore(c) = SaysCore(d) /\ SaysExtra(a) = SaysExtra(b)
    BY <2>2, MemhTells
  <2>4. x = y <=> SaysCore(c) = SaysCore(d) /\ SaysExtra(a) = SaysExtra(b)
    <3>1. x.core = SaysCore(c) /\ x.extra = SaysExtra(a) /\ y.core = SaysCore(d) /\ y.extra = SaysExtra(b)
      BY <2>2
    <3> QED
      BY <2>2, <3>1
  <2> QED
    BY <2>2, <2>3, <2>4 DEF x, y
<1> QED
  BY <1>1, Invariance, PTL
===============================================================================
