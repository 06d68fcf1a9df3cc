----------------------------- MODULE Stream_proofs -----------------------------
(***************************************************************************)
(* Proofs about Stream, for any arguments, any number of streams and any   *)
(* number of edits of a container.  Inv is the inductive invariant: what   *)
(* every stream holds, that a frame of the carrier's with a whole          *)
(* ciphertext carries the ciphertext of a sealed segment, and what has     *)
(* been opened so far by a running unseal_state_chunked.                   *)
(***************************************************************************)
EXTENDS Stream, SCECrypto_proofs, SequenceLemmas

\* Header(id) and a segment's envelope, as functions of the stream s numbered id.
HeaderOf(s, id) ==
  [form |-> "stream", id |-> id, n |-> NumSegments(Len(s.state), s.size),
   size |-> s.size, total |-> Len(s.state)]

SealedSegment(s, id, k, salt) ==
  SealEnvelope(Segment(s.state, s.size, k - 1), SegEnv(s.env, HeaderOf(s, id), k - 1),
               salt, salt)

StreamShape(s, id) ==
  /\ s = [env |-> s.env, state |-> s.state, size |-> s.size, envelopes |-> s.envelopes]
  /\ s.env \in Environments /\ s.state \in States /\ s.size \in SegmentSizes
  /\ IsSeq(s.envelopes)
  /\ Len(s.envelopes) <= HeaderOf(s, id).n

\* Every segment of a stream is sealed with a salt drawn for it.
SegmentsOf(s, id, d) ==
  \A k \in DOMAIN s.envelopes :
    \E salt \in 1 .. d : s.envelopes[k] = SealedSegment(s, id, k, salt)

StreamsInv ==
  /\ IsSeq(streams) /\ drawn \in Nat
  /\ \A id \in DOMAIN streams :
       StreamShape(streams[id], id) /\ SegmentsOf(streams[id], id, drawn)

\* No salt is used twice.
SaltsInv ==
  \A x, y \in DOMAIN streams :
    \A j \in DOMAIN streams[x].envelopes, k \in DOMAIN streams[y].envelopes :
      streams[x].envelopes[j].prefix.salt = streams[y].envelopes[k].prefix.salt
        => x = y /\ j = k

HasShape(b) ==
  /\ b = [form |-> b.form, prefix |-> b.prefix, ctLen |-> b.ctLen, ct |-> b.ct]
  /\ DOMAIN b.ct = {"key", "nonce", "aad", "plain", "len", "intact"}
  /\ b.ct.len \in Nat

\* A frame of the carrier's, of streams s.
Carried(f, s) ==
  /\ f = [claim |-> f.claim, envelope |-> f.envelope]
  /\ f.claim \in Int
  /\ HasShape(f.envelope)
  /\ f.envelope.ct.intact =>
       \E id \in DOMAIN s : \E m \in DOMAIN s[id].envelopes :
         f.envelope.ct = s[id].envelopes[m].ct

HeaderShape(h) ==
  /\ h = [form |-> h.form, id |-> h.id, n |-> h.n, size |-> h.size, total |-> h.total]
  /\ h.n \in Nat /\ h.total \in Nat

ContainerShape(c, s) ==
  /\ c = [header |-> c.header, body |-> c.body, tail |-> c.tail]
  /\ HeaderShape(c.header)
  /\ IsSeq(c.body) /\ \A k \in DOMAIN c.body : Carried(c.body[k], s)
  /\ c.tail \in Nat

CarrierInv ==
  /\ edits \in 0 .. MaxEdits
  /\ container # None => ContainerShape(container, streams)

\* What unseal_state_chunked has opened after i > 0 turns.
OpenedSoFar ==
  LET id == container.header.id
      s  == streams[id]
  IN  /\ id \in DOMAIN streams
      /\ container.header = HeaderOf(s, id)
      /\ env = s.env
      /\ i <= Len(s.envelopes) /\ i <= Len(container.body)
      /\ \A k \in 1 .. i : container.body[k] = Frame(s.envelopes[k])
      /\ plain = SubSeq(s.state, 1, Hi(Len(s.state), s.size, i - 1))

CallInv ==
  /\ pc \in {"idle", "sealing", "header", "segments", "returned"}
  /\ badArg \in BadArgs
  /\ pc = "idle" => badArg = "none" /\ env = None
  /\ pc = "sealing" => streams # <<>> /\ env = None
  /\ pc \in {"header", "segments"} => env \in Environments /\ container # None
  /\ pc # "segments" => i = 0 /\ plain = <<>> /\ assembled = 0
  /\ pc # "returned" => outcome = "none" /\ released = None
  /\ env \in Environments \cup {None}

SegmentsInv ==
  pc = "segments" =>
    /\ container.header.form = "stream" /\ container.header.n # 0
    /\ i \in 0 .. container.header.n
    /\ assembled = Len(plain)
    /\ i = 0 => plain = <<>>
    /\ i > 0 => badArg = "none" /\ OpenedSoFar

ReturnInv ==
  /\ outcome \in {"none", "sealed", "opened", "mismatch", "malformed",
                 "SCEError", "OverflowError"}
  /\ OpensOnlyWholeStreams
  /\ NeverRefusesItsOwn

Inv == StreamsInv /\ SaltsInv /\ CarrierInv /\ CallInv /\ SegmentsInv /\ ReturnInv
-------------------------------------------------------------------------------
(***************************************************************************)
(* Segments, and the environments they are sealed in.                      *)
(***************************************************************************)
\* The environments of the model are records of the four factors.
LEMMA EnvironmentShape ==
  ASSUME NEW e \in Environments
  PROVE  IsEnv(e)
BY EnvironmentsAssumption DEF IsEnv

LEMMA SegEnvFields ==
  ASSUME NEW e \in Environments, NEW h, NEW k
  PROVE  /\ IsEnv(SegEnv(e, h, k))
         /\ SegEnv(e, h, k).secret = e.secret /\ SegEnv(e, h, k).memh = e.memh
         /\ SegEnv(e, h, k).epoch = e.epoch
         /\ SegEnv(e, h, k).context = SegContext(e.context, h.id, k, h.n, h.total, h.size)
BY EnvironmentShape DEF SegEnv, IsEnv

\* A segment's environment determines the stream's, the header and the index.
LEMMA SegEnvInjective ==
  ASSUME NEW e \in Environments, NEW f \in Environments, NEW h, NEW g, NEW j, NEW k,
         SegEnv(e, h, j) = SegEnv(f, g, k)
  PROVE  e = f /\ j = k /\ h.id = g.id /\ h.n = g.n /\ h.total = g.total /\ h.size = g.size
<1>1. SegContext(e.context, h.id, j, h.n, h.total, h.size)
        = SegContext(f.context, g.id, k, g.n, g.total, g.size)
  BY SegEnvFields
<1>2. e.context = f.context /\ j = k /\ h.id = g.id
      /\ h.n = g.n /\ h.total = g.total /\ h.size = g.size
  BY <1>1 DEF SegContext
<1>3. e.secret = f.secret /\ e.memh = f.memh /\ e.epoch = f.epoch
  BY SegEnvFields
<1> QED
  BY <1>2, <1>3, EnvironmentShape DEF IsEnv

\* A state has at least one segment, its segments reach to its end, and all but
\* that of the empty state hold a byte.
LEMMA SegmentCount ==
  ASSUME NEW total \in Nat, NEW size \in Nat \ {0}
  PROVE  /\ NumSegments(total, size) \in Nat \ {0}
         /\ total = 0 => NumSegments(total, size) = 1
         /\ total <= Lo(size, NumSegments(total, size))
         /\ \A k \in Nat : k < NumSegments(total, size) =>
              k = 0 \/ (Lo(size, k) < total /\ 0 < k)
<1> DEFINE n == (total + size - 1) \div size
<1>1. CASE total = 0
  BY <1>1 DEF NumSegments, Lo
<1>2. CASE total # 0
  <2>1. total + size - 1 \in Nat
    BY <1>2
  <2>2. /\ n \in Nat /\ size * n <= total + size - 1
        /\ total + size - 1 < size * n + size
    BY <2>1, Division
  <2>3. NumSegments(total, size) = n
    BY <1>2 DEF NumSegments
  <2> HIDE DEF n
  <2>4. n # 0
    BY <1>2, <2>2
  <2>5. total <= n * size
    BY <2>2
  <2>6. ASSUME NEW k \in Nat, k < n
        PROVE  k * size < total
    <3>1. (k + 1) * size <= n * size
      BY <2>2, <2>6
    <3>2. (k + 1) * size = k * size + size /\ k * size \in Nat /\ n * size = size * n
      BY <2>2
    <3> QED
      BY <2>2, <3>1, <3>2
  <2> QED
    BY <1>2, <2>2, <2>3, <2>4, <2>5, <2>6 DEF Lo
<1> QED
  BY <1>1, <1>2

\* A segment is a byte string, and joined to those before it gives the state up
\* to its own end.
LEMMA SegmentJoins ==
  ASSUME NEW state \in Seq(Byte), NEW size \in Nat \ {0}, NEW k \in Nat,
         k < NumSegments(Len(state), size)
  PROVE  /\ Segment(state, size, k) \in Seq(Byte)
         /\ Len(Segment(state, size, k)) \in Nat
         /\ k = 0 => Segment(state, size, k) = SubSeq(state, 1, Hi(Len(state), size, k))
         /\ k > 0 => SubSeq(state, 1, Hi(Len(state), size, k - 1)) \o Segment(state, size, k)
                       = SubSeq(state, 1, Hi(Len(state), size, k))
<1> DEFINE total == Len(state)
           lo    == Lo(size, k)
           hi    == Hi(total, size, k)
<1>1. total \in Nat
  BY LenProperties
<1>2. lo \in Nat /\ (k = 0 => lo = 0) /\ lo <= total
  BY <1>1, SegmentCount DEF Lo
<1>3. hi \in Nat /\ hi <= total /\ lo <= hi
  BY <1>1, <1>2 DEF Hi, Least
<1>4. k > 0 => Hi(total, size, k - 1) = lo
  <2> SUFFICES ASSUME k > 0 PROVE Hi(total, size, k - 1) = lo
    OBVIOUS
  <2>1. (k - 1) * size + size = k * size
    OBVIOUS
  <2> QED
    BY <1>1, <1>2, <2>1 DEF Hi, Least, Lo
<1>5. Segment(state, size, k) = SubSeq(state, lo + 1, hi)
  BY DEF Segment
<1> HIDE DEF total, lo, hi
<1>6. \A j \in lo + 1 .. hi : state[j] \in Byte
  <2>1. \A j \in lo + 1 .. hi : j \in 1 .. Len(state)
    BY <1>1, <1>2, <1>3 DEF total
  <2> QED
    BY <2>1, ElementOfSeq
<1>7. lo + 1 \in Int /\ hi \in Int
  BY <1>2, <1>3
<1>8. SubSeq(state, lo + 1, hi) \in Seq(Byte)
  BY <1>6, <1>7, SubSeqProperties
<1>9. SubSeq(state, 1, lo) \o SubSeq(state, lo + 1, hi) = SubSeq(state, 1, hi)
  <2>1. /\ 1 \in 1 .. Len(state) + 1 /\ lo \in 1 - 1 .. Len(state)
        /\ hi \in lo .. Len(state)
    BY <1>1, <1>2, <1>3 DEF total
  <2> QED
    BY <2>1, ConcatAdjacentSubSeq
<1>10. Segment(state, size, k) \in Seq(Byte) /\ Len(Segment(state, size, k)) \in Nat
  BY <1>5, <1>8, LenProperties
<1>11. k = 0 => Segment(state, size, k) = SubSeq(state, 1, hi)
  <2>1. k = 0 => lo + 1 = 1
    BY <1>2
  <2> QED
    BY <1>5, <2>1, Zenon
<1>12. k > 0 => SubSeq(state, 1, Hi(total, size, k - 1)) \o Segment(state, size, k)
                  = SubSeq(state, 1, hi)
  BY <1>4, <1>5, <1>9
<1> QED
  BY <1>10, <1>11, <1>12 DEF total, hi

LEMMA PrefixType ==
  ASSUME NEW state \in Seq(Byte), NEW size \in Nat \ {0}, NEW k \in Nat
  PROVE  SubSeq(state, 1, Hi(Len(state), size, k)) \in Seq(Byte)
<1> DEFINE hi == Hi(Len(state), size, k)
<1>1. Len(state) \in Nat
  BY LenProperties
<1>2. Lo(size, k) + size \in Nat
  BY DEF Lo
<1>3. hi \in Nat /\ hi <= Len(state)
  BY <1>1, <1>2 DEF Hi, Least
<1> HIDE DEF hi
<1>4. \A j \in 1 .. hi : state[j] \in Byte
  <2>1. \A j \in 1 .. hi : j \in 1 .. Len(state)
    BY <1>1, <1>3
  <2> QED
    BY <2>1, ElementOfSeq
<1>5. SubSeq(state, 1, hi) \in Seq(Byte)
  BY <1>3, <1>4, SubSeqProperties
<1> QED
  BY <1>5 DEF hi

\* The last segment ends where the state does.
LEMMA SegmentsReachTheEnd ==
  ASSUME NEW state \in Seq(Byte), NEW size \in Nat \ {0}
  PROVE  SubSeq(state, 1, Hi(Len(state), size, NumSegments(Len(state), size) - 1)) = state
<1> DEFINE total == Len(state)
           n     == NumSegments(total, size)
<1>1. total \in Nat
  BY LenProperties
<1>2. n \in Nat \ {0} /\ total <= Lo(size, n)
  BY <1>1, SegmentCount
<1> HIDE DEF n
<1>3. Lo(size, n - 1) + size = Lo(size, n) /\ Lo(size, n - 1) \in Nat
  BY <1>2 DEF Lo
<1>4. Hi(total, size, n - 1) = total
  BY <1>1, <1>2, <1>3 DEF Hi, Least
<1> QED
  BY <1>4, SubSeqFull DEF n

\* What the segment k of a stream is.
LEMMA SealedFields ==
  ASSUME NEW s, NEW id, StreamShape(s, id), NEW salt,
         NEW k \in 1 .. HeaderOf(s, id).n
  PROVE  /\ HasShape(SealedSegment(s, id, k, salt))
         /\ SealedSegment(s, id, k, salt).prefix.salt = salt
         /\ SealedSegment(s, id, k, salt).prefix.nonce = salt
         /\ SealedSegment(s, id, k, salt).ct.plain = Segment(s.state, s.size, k - 1)
         /\ SealedSegment(s, id, k, salt).prefix.commitment =
              DeriveKeyMaterial(SegEnv(s.env, HeaderOf(s, id), k - 1), salt).commitment
         /\ Opens(SealedSegment(s, id, k, salt), SegEnv(s.env, HeaderOf(s, id), k - 1))
         /\ Segment(s.state, s.size, k - 1) \in Seq(Byte)
<1>1. s.state \in Seq(Byte) /\ s.size \in Nat \ {0}
  BY StatesAssumption, SegmentSizesAssumption DEF StreamShape
<1>2. HeaderOf(s, id).n = NumSegments(Len(s.state), s.size)
  BY DEF HeaderOf
<1>3. NumSegments(Len(s.state), s.size) \in Nat
  BY <1>1, SegmentCount, LenProperties
<1>4. k - 1 \in Nat /\ k - 1 < NumSegments(Len(s.state), s.size)
  BY <1>2, <1>3
<1> DEFINE seg == Segment(s.state, s.size, k - 1)
           e   == SegEnv(s.env, HeaderOf(s, id), k - 1)
<1>5. seg \in Seq(Byte) /\ Len(seg) \in Nat
  BY <1>1, <1>4, SegmentJoins
<1>6. SealedSegment(s, id, k, salt) = SealEnvelope(seg, e, salt, salt)
  BY DEF SealedSegment
<1> HIDE DEF seg, e
<1>7. /\ HasShape(SealEnvelope(seg, e, salt, salt))
      /\ SealEnvelope(seg, e, salt, salt).prefix.salt = salt
      /\ SealEnvelope(seg, e, salt, salt).prefix.nonce = salt
      /\ SealEnvelope(seg, e, salt, salt).ct.plain = seg
      /\ SealEnvelope(seg, e, salt, salt).prefix.commitment =
           DeriveKeyMaterial(e, salt).commitment
  BY <1>5 DEF HasShape, SealEnvelope, Pack, Encrypt, HeaderPrefix, TagLen
<1>8. Opens(SealEnvelope(seg, e, salt, salt), e)
  BY <1>5, SealThenOpen
<1> QED
  BY <1>5, <1>6, <1>7, <1>8 DEF seg, e
-------------------------------------------------------------------------------
(***************************************************************************)
(* The carrier: whatever it does to a container, a frame of it that still  *)
(* has a whole ciphertext has that of a sealed segment.                    *)
(***************************************************************************)
LEMMA HeaderIs ==
  ASSUME NEW id
  PROVE  Header(id) = HeaderOf(streams[id], id)
BY DEF Header, HeaderOf

LEMMA StreamTypes ==
  ASSUME StreamsInv, NEW id \in DOMAIN streams
  PROVE  /\ streams[id].state \in Seq(Byte) /\ streams[id].size \in Nat \ {0}
         /\ Len(streams[id].state) \in Nat
         /\ HeaderOf(streams[id], id).n = NumSegments(Len(streams[id].state), streams[id].size)
         /\ HeaderOf(streams[id], id).n \in Nat \ {0}
         /\ Len(streams[id].envelopes) \in 0 .. HeaderOf(streams[id], id).n
         /\ DOMAIN streams[id].envelopes = 1 .. Len(streams[id].envelopes)
         /\ DOMAIN streams[id].envelopes \subseteq 1 .. HeaderOf(streams[id], id).n
<1>1. StreamShape(streams[id], id)
  BY DEF StreamsInv
<1>2. streams[id].state \in Seq(Byte) /\ streams[id].size \in Nat \ {0}
  BY <1>1, StatesAssumption, SegmentSizesAssumption DEF StreamShape
<1>3. Len(streams[id].state) \in Nat
  BY <1>2, LenProperties
<1>4. HeaderOf(streams[id], id).n = NumSegments(Len(streams[id].state), streams[id].size)
  BY DEF HeaderOf
<1>5. HeaderOf(streams[id], id).n \in Nat \ {0}
  BY <1>2, <1>3, <1>4, SegmentCount
<1>6. /\ Len(streams[id].envelopes) \in Nat
      /\ DOMAIN streams[id].envelopes = 1 .. Len(streams[id].envelopes)
  BY <1>1, IsSeqLen DEF StreamShape
<1>7. Len(streams[id].envelopes) <= HeaderOf(streams[id], id).n
  BY <1>1 DEF StreamShape
<1> QED
  BY <1>2, <1>3, <1>4, <1>5, <1>6, <1>7

\* An envelope of a stream, as the carrier gets it.
LEMMA EnvelopeOf ==
  ASSUME StreamsInv, NEW id \in DOMAIN streams, NEW m \in DOMAIN streams[id].envelopes
  PROVE  HasShape(streams[id].envelopes[m])
<1>1. PICK salt \in 1 .. drawn :
        streams[id].envelopes[m] = SealedSegment(streams[id], id, m, salt)
  BY DEF StreamsInv, SegmentsOf
<1>2. m \in 1 .. HeaderOf(streams[id], id).n
  BY StreamTypes
<1> QED
  BY <1>1, <1>2, SealedFields DEF StreamsInv

LEMMA FrameShape ==
  ASSUME StreamsInv, NEW id \in DOMAIN streams, NEW m \in DOMAIN streams[id].envelopes
  PROVE  Carried(Frame(streams[id].envelopes[m]), streams)
<1> DEFINE b == streams[id].envelopes[m]
<1>1. HasShape(b)
  BY EnvelopeOf
<1>2. \E x \in DOMAIN streams : \E y \in DOMAIN streams[x].envelopes :
        b.ct = streams[x].envelopes[y].ct
  OBVIOUS
<1> HIDE DEF b
<1>3. /\ Frame(b).claim = EnvelopeSize(b) /\ Frame(b).envelope = b
      /\ Frame(b) = [claim |-> Frame(b).claim, envelope |-> Frame(b).envelope]
  BY DEF Frame
<1>4. EnvelopeSize(b) \in Int
  BY <1>1 DEF EnvelopeSize, HasShape, HeaderLen, CtLenLen
<1>5. Carried(Frame(b), streams)
  BY <1>1, <1>2, <1>3, <1>4 DEF Carried
<1> QED
  BY <1>5 DEF b

LEMMA ContainerParts ==
  ASSUME StreamsInv, NEW id \in DOMAIN streams
  PROVE  /\ ContainerOf(id).header = HeaderOf(streams[id], id)
         /\ ContainerOf(id).tail = 0
         /\ IsSeq(ContainerOf(id).body)
         /\ Len(ContainerOf(id).body) = Len(streams[id].envelopes)
         /\ DOMAIN ContainerOf(id).body = DOMAIN streams[id].envelopes
         /\ \A m \in DOMAIN streams[id].envelopes :
              ContainerOf(id).body[m] = Frame(streams[id].envelopes[m])
<1> DEFINE b == [m \in DOMAIN streams[id].envelopes |-> Frame(streams[id].envelopes[m])]
<1>1. DOMAIN b = 1 .. Len(streams[id].envelopes) /\ Len(streams[id].envelopes) \in Nat
  BY StreamTypes
<1>2. b \in Seq({b[m] : m \in DOMAIN b}) /\ Len(b) = Len(streams[id].envelopes)
  BY <1>1
<1>3. ContainerOf(id).body = b
  BY DEF ContainerOf
<1>4. ContainerOf(id).header = HeaderOf(streams[id], id) /\ ContainerOf(id).tail = 0
  BY HeaderIs DEF ContainerOf
<1>5. IsSeq(b)
  BY <1>2, SeqIsSeq
<1> QED
  BY <1>2, <1>3, <1>4, <1>5

LEMMA FetchedShape ==
  ASSUME StreamsInv, NEW id \in DOMAIN streams
  PROVE  ContainerShape(ContainerOf(id), streams)
<1>1. HeaderShape(HeaderOf(streams[id], id))
  <2>1. HeaderOf(streams[id], id).n \in Nat /\ Len(streams[id].state) \in Nat
    BY StreamTypes
  <2> QED
    BY <2>1 DEF HeaderOf, HeaderShape
<1>2. \A m \in DOMAIN streams[id].envelopes : Carried(ContainerOf(id).body[m], streams)
  BY ContainerParts, FrameShape
<1>3. ContainerOf(id) = [header |-> ContainerOf(id).header, body |-> ContainerOf(id).body,
                         tail |-> ContainerOf(id).tail]
  BY DEF ContainerOf
<1> QED
  BY <1>1, <1>2, <1>3, ContainerParts DEF ContainerShape

\* Another body, other header or other tail.
LEMMA NewBody ==
  ASSUME NEW s, NEW c, ContainerShape(c, s), NEW b, IsSeq(b),
         \A k \in DOMAIN b : Carried(b[k], s)
  PROVE  ContainerShape([c EXCEPT !.body = b], s)
BY DEF ContainerShape

LEMMA NewFrame ==
  ASSUME NEW s, NEW c, ContainerShape(c, s), NEW k \in DOMAIN c.body, NEW f, Carried(f, s)
  PROVE  ContainerShape([c EXCEPT !.body[k] = f], s)
<1> DEFINE b == [c.body EXCEPT ![k] = f]
<1>1. IsSeq(b) /\ DOMAIN b = DOMAIN c.body
      /\ \A j \in DOMAIN c.body : b[j] = IF j = k THEN f ELSE c.body[j]
  BY IsSeqExcept DEF ContainerShape
<1>2. [c EXCEPT !.body[k] = f] = [c EXCEPT !.body = b]
  BY DEF ContainerShape
<1> HIDE DEF b
<1>3. \A j \in DOMAIN b : Carried(b[j], s)
  BY <1>1 DEF ContainerShape
<1> QED
  BY <1>1, <1>2, <1>3, NewBody

LEMMA NewEnvelope ==
  ASSUME NEW s, NEW c, ContainerShape(c, s), NEW k \in DOMAIN c.body, NEW e, HasShape(e),
         e.ct.intact => e.ct = c.body[k].envelope.ct
  PROVE  ContainerShape([c EXCEPT !.body[k].envelope = e], s)
<1> DEFINE f == [c.body[k] EXCEPT !.envelope = e]
<1>1. Carried(c.body[k], s)
  BY DEF ContainerShape
<1>2. f.claim = c.body[k].claim /\ f.envelope = e
      /\ f = [claim |-> f.claim, envelope |-> f.envelope]
  BY <1>1 DEF Carried
<1>3. [c EXCEPT !.body[k].envelope = e] = [c EXCEPT !.body[k] = f]
  BY DEF ContainerShape
<1> HIDE DEF f
<1>4. Carried(f, s)
  BY <1>1, <1>2 DEF Carried
<1> QED
  BY <1>3, <1>4, NewFrame

LEMMA NewClaim ==
  ASSUME NEW s, NEW c, ContainerShape(c, s), NEW k \in DOMAIN c.body, NEW n \in Int
  PROVE  ContainerShape([c EXCEPT !.body[k].claim = n], s)
<1> DEFINE f == [c.body[k] EXCEPT !.claim = n]
<1>1. Carried(c.body[k], s)
  BY DEF ContainerShape
<1>2. f.claim = n /\ f.envelope = c.body[k].envelope
      /\ f = [claim |-> f.claim, envelope |-> f.envelope]
  BY <1>1 DEF Carried
<1>3. [c EXCEPT !.body[k].claim = n] = [c EXCEPT !.body[k] = f]
  BY DEF ContainerShape
<1> HIDE DEF f
<1>4. Carried(f, s)
  BY <1>1, <1>2 DEF Carried
<1> QED
  BY <1>3, <1>4, NewFrame

\* A cut or flipped ciphertext is whole no longer.
LEMMA CutShape ==
  ASSUME NEW e, HasShape(e), NEW n \in Nat
  PROVE  HasShape(CutCiphertext(e, n)) /\ ~ CutCiphertext(e, n).ct.intact
<1> DEFINE d   == CutCiphertext(e, n)
           cut == [e.ct EXCEPT !.len = n, !.intact = FALSE]
<1>1. DOMAIN cut = DOMAIN e.ct /\ ~ cut.intact /\ cut.len = n
  BY DEF HasShape
<1>2. d = [form |-> e.form, prefix |-> e.prefix, ctLen |-> e.ctLen, ct |-> cut]
  BY DEF HasShape, CutCiphertext
<1> HIDE DEF d, cut
<1>3. HasShape(d) /\ ~ d.ct.intact
  BY <1>1, <1>2 DEF HasShape
<1> QED
  BY <1>3 DEF d

\* A changed prefix leaves the ciphertext as it is.
LEMMA NewPrefix ==
  ASSUME NEW e, HasShape(e), NEW x
  PROVE  /\ HasShape([e EXCEPT !.prefix = x]) /\ [e EXCEPT !.prefix = x].ct = e.ct
         /\ HasShape([e EXCEPT !.prefix.magic = x]) /\ [e EXCEPT !.prefix.magic = x].ct = e.ct
<1>1. ASSUME NEW y
      PROVE  HasShape([e EXCEPT !.prefix = y]) /\ [e EXCEPT !.prefix = y].ct = e.ct
  <2> DEFINE d == [e EXCEPT !.prefix = y]
  <2>1. d = [form |-> e.form, prefix |-> y, ctLen |-> e.ctLen, ct |-> e.ct]
    BY DEF HasShape
  <2> HIDE DEF d
  <2>2. HasShape(d) /\ d.ct = e.ct
    BY <2>1 DEF HasShape
  <2> QED
    BY <2>2 DEF d
<1>2. [e EXCEPT !.prefix.magic = x] = [e EXCEPT !.prefix = [e.prefix EXCEPT !.magic = x]]
  BY DEF HasShape
<1> QED
  BY <1>1, <1>2

\* Each edit leaves a container.
LEMMA RearrangeShape ==
  ASSUME StreamsInv, CarrierInv, Rearrange
  PROVE  /\ Idle /\ ContainerShape(container', streams) /\ edits' \in 0 .. MaxEdits
         /\ UNCHANGED <<streams, drawn, callVars>>
<1> DEFINE Shape(c) == ContainerShape(c, streams)
           Done == /\ Idle /\ Shape(container') /\ edits' \in 0 .. MaxEdits
                   /\ UNCHANGED <<streams, drawn, callVars>>
<1>1. Shape(container)
  BY DEF CarrierInv, Rearrange
<1>2. /\ IsSeq(container.body) /\ \A k \in DOMAIN container.body : Carried(container.body[k], streams)
      /\ DOMAIN container.body = 1 .. Len(container.body) /\ Len(container.body) \in Nat
  BY <1>1, IsSeqLen DEF ContainerShape
<1>3. \A k \in DOMAIN container.body :
        HasShape(container.body[k].envelope) /\ container.body[k].claim \in Int
  BY <1>2 DEF Carried
<1>4. ASSUME NEW c, Shape(c), Edit(c)
      PROVE  Done
  BY <1>4, BoundsAssumption DEF Edit, CarrierInv
<1>5. ASSUME NEW b, IsSeq(b), \A k \in DOMAIN b : Carried(b[k], streams), Edit(WithBody(b))
      PROVE  Done
  BY <1>1, <1>4, <1>5, NewBody DEF WithBody
<1>6. ASSUME NEW k \in DOMAIN container.body, NEW e, HasShape(e),
             e.ct.intact => e.ct = container.body[k].envelope.ct, Edit(WithEnvelope(k, e))
      PROVE  Done
  BY <1>1, <1>4, <1>6, NewEnvelope DEF WithEnvelope
<1> HIDE DEF Done, Shape
<1>7. ASSUME NEW j \in DOMAIN container.body, NEW k \in DOMAIN container.body, Reorder(j, k)
      PROVE  Done
  <2> DEFINE a == [container.body EXCEPT ![j] = container.body[k]]
             b == [a EXCEPT ![k] = container.body[j]]
  <2>1. IsSeq(a) /\ DOMAIN a = DOMAIN container.body
        /\ \A n \in DOMAIN a : Carried(a[n], streams)
    BY <1>2, IsSeqExcept
  <2>2. b = [container.body EXCEPT ![j] = container.body[k], ![k] = container.body[j]]
    OBVIOUS
  <2> HIDE DEF a
  <2>3. IsSeq(b) /\ \A n \in DOMAIN b : Carried(b[n], streams)
    BY <1>2, <2>1, IsSeqExcept
  <2> HIDE DEF b
  <2> QED
    BY <1>5, <1>7, <2>2, <2>3 DEF Reorder
<1>8. ASSUME NEW k \in DOMAIN container.body, Drop(k)
      PROVE  Done
  <2> DEFINE b == RemoveAt(container.body, k)
  <2>1. /\ IsSeq(b) /\ Len(b) = Len(container.body) - 1
        /\ \A n \in 1 .. Len(container.body) - 1 :
             b[n] \in {container.body[j] : j \in DOMAIN container.body}
    BY <1>2, IsSeqRemoveAt
  <2> HIDE DEF b
  <2>2. \A n \in DOMAIN b : Carried(b[n], streams)
    BY <1>2, <2>1, IsSeqLen
  <2> QED
    BY <1>5, <1>8, <2>1, <2>2 DEF Drop, b
<1>9. ASSUME NEW k \in DOMAIN container.body, FlipCiphertext(k)
      PROVE  Done
  <2> DEFINE e == container.body[k].envelope
             d == CutCiphertext(e, e.ct.len)
  <2>1. HasShape(d) /\ ~ d.ct.intact
    BY <1>3, CutShape DEF HasShape
  <2>2. Edit(WithEnvelope(k, d))
    BY <1>9 DEF FlipCiphertext
  <2> HIDE DEF d, e
  <2> QED
    BY <1>6, <2>1, <2>2, Zenon
<1>10. ASSUME NEW k \in DOMAIN container.body, BreakMagic(k)
       PROVE  Done
  <2> DEFINE e == container.body[k].envelope
             d == [e EXCEPT !.prefix.magic = "SCES"]
  <2>1. HasShape(d) /\ d.ct = e.ct
    <3>1. HasShape(e)
      BY <1>3
    <3> QED
      BY <3>1, NewPrefix
  <2>2. Edit(WithEnvelope(k, d))
    BY <1>10 DEF BreakMagic
  <2> HIDE DEF d
  <2> QED
    BY <1>6, <2>1, <2>2
<1>11. ASSUME NEW k \in DOMAIN container.body, NEW n \in Int, Misframe(k, n)
       PROVE  Done
  <2>1. Shape([container EXCEPT !.body[k].claim = n])
    BY <1>1, NewClaim DEF Shape
  <2> QED
    BY <1>4, <1>11, <2>1 DEF Misframe
<1>12. ASSUME NEW id \in DOMAIN streams, NEW m \in DOMAIN streams[id].envelopes, Extend(id, m)
       PROVE  Done
  <2> DEFINE f == ContainerOf(id).body[m]
             b == Append(container.body, f)
  <2>1. Carried(f, streams)
    BY ContainerParts, FrameShape
  <2>2. /\ IsSeq(b) /\ DOMAIN b = 1 .. Len(container.body) + 1
        /\ \A n \in 1 .. Len(container.body) : b[n] = container.body[n]
        /\ b[Len(container.body) + 1] = f
    BY <1>2, IsSeqAppend
  <2>3. \A n \in 1 .. Len(container.body) + 1 :
          n \in 1 .. Len(container.body) \/ n = Len(container.body) + 1
    BY <1>2
  <2>4. Edit(WithBody(b))
    BY <1>12 DEF Extend
  <2> HIDE DEF b, f
  <2>5. \A n \in DOMAIN b : Carried(b[n], streams)
    BY <1>2, <2>1, <2>2, <2>3
  <2> QED
    BY <1>5, <2>2, <2>4, <2>5
<1>13. ASSUME NEW id \in DOMAIN streams, NEW m \in DOMAIN streams[id].envelopes,
              NEW k \in DOMAIN container.body, Splice(k, id, m)
       PROVE  Done
  <2> DEFINE f == ContainerOf(id).body[m]
             b == [container.body EXCEPT ![k] = f]
  <2>1. Carried(f, streams)
    BY ContainerParts, FrameShape
  <2>2. /\ IsSeq(b) /\ DOMAIN b = DOMAIN container.body
        /\ \A n \in DOMAIN container.body : b[n] = IF n = k THEN f ELSE container.body[n]
    BY <1>2, IsSeqExcept
  <2>3. Edit(WithBody(b))
    BY <1>13 DEF Splice, ReplaceAt
  <2> HIDE DEF b, f
  <2>4. \A n \in DOMAIN b : Carried(b[n], streams)
    BY <1>2, <2>1, <2>2
  <2> QED
    BY <1>5, <2>2, <2>3, <2>4
<1>14. ASSUME NEW id \in DOMAIN streams, NEW m \in DOMAIN streams[id].envelopes,
              NEW k \in DOMAIN container.body, Regraft(k, id, m)
       PROVE  Done
  <2> DEFINE e == container.body[k].envelope
             d == [e EXCEPT !.prefix = streams[id].envelopes[m].prefix]
  <2>1. HasShape(d) /\ d.ct = e.ct
    <3>1. HasShape(e)
      BY <1>3
    <3> QED
      BY <3>1, NewPrefix
  <2>2. Edit(WithEnvelope(k, d))
    BY <1>14 DEF Regraft
  <2> HIDE DEF d
  <2> QED
    BY <1>6, <2>1, <2>2
<1>15. ASSUME CutEnvelope PROVE Done
  <2> DEFINE k == Len(container.body)
             e == container.body[k].envelope
             d == CutCiphertext(e, e.ct.len - 1)
  <2>1. k \in DOMAIN container.body /\ e.ct.len > 0
    BY <1>2, <1>15 DEF CutEnvelope
  <2>2. HasShape(e)
    BY <1>3, <2>1
  <2>3. e.ct.len - 1 \in Nat
    BY <2>1, <2>2 DEF HasShape
  <2>4. HasShape(d) /\ ~ d.ct.intact
    BY <2>2, <2>3, CutShape
  <2>5. Edit(WithEnvelope(k, d))
    BY <1>15 DEF CutEnvelope
  <2> HIDE DEF d, k
  <2> QED
    BY <1>6, <2>1, <2>4, <2>5
<1>16. ASSUME CutPrefix PROVE Done
  <2> DEFINE b == Front(container.body)
             c == [container EXCEPT !.body = Front(@), !.tail = 1]
  <2>1. Len(container.body) # 0
    BY <1>2, <1>16, EmptySeq DEF CutPrefix, IsSeq
  <2>2. /\ 1 \in 1 .. Len(container.body) + 1
        /\ Len(container.body) - 1 \in 0 .. Len(container.body)
    BY <1>2, <2>1
  <2>3. /\ IsSeq(b) /\ Len(b) = Len(container.body) - 1
        /\ \A n \in 1 .. Len(container.body) - 1 : b[n] = container.body[n]
    <3>1. b = SubSeq(container.body, 1, Len(container.body) - 1)
      BY DEF Front
    <3> DEFINE r == SubSeq(container.body, 1, Len(container.body) - 1)
               l == Len(container.body) - 1
    <3>2. /\ IsSeq(r) /\ Len(r) = IF 1 <= l THEN l - 1 + 1 ELSE 0
          /\ \A n \in 1 .. l - 1 + 1 : r[n] = container.body[1 + n - 1]
      BY <1>2, <2>2, IsSeqSubSeq
    <3>3. l \in Nat
      BY <2>2
    <3> HIDE DEF b, r
    <3>4. Len(r) = l /\ \A n \in 1 .. l : r[n] = container.body[n]
      BY <3>2, <3>3
    <3> QED
      BY <3>1, <3>2, <3>4 DEF r
  <2>4. Edit(c)
    BY <1>16 DEF CutPrefix
  <2>5. c = [header |-> container.header, body |-> b, tail |-> 1]
    <3>1. container = [header |-> container.header, body |-> container.body,
                       tail |-> container.tail]
      BY <1>1 DEF Shape, ContainerShape
    <3>2. c = [container EXCEPT !.body = b, !.tail = 1]
      OBVIOUS
    <3> HIDE DEF b, c
    <3> QED
      BY <3>1, <3>2
  <2> HIDE DEF b, c
  <2>6. \A n \in DOMAIN b : Carried(b[n], streams)
    <3>1. DOMAIN b = 1 .. Len(container.body) - 1
      BY <2>3, IsSeqLen
    <3>2. \A n \in 1 .. Len(container.body) - 1 : n \in DOMAIN container.body
      BY <1>2
    <3> QED
      BY <1>2, <2>3, <3>1, <3>2
  <2>7. Shape(c)
    BY <1>1, <2>3, <2>5, <2>6 DEF Shape, ContainerShape
  <2> QED
    BY <1>4, <2>4, <2>7
<1>17. ASSUME Trail PROVE Done
  <2>1. Shape([container EXCEPT !.tail = 1])
    BY <1>1 DEF Shape, ContainerShape
  <2> QED
    BY <1>4, <1>17, <2>1 DEF Trail
<1>18. ASSUME NEW h \in HeaderEdits(container.header), SetHeader(h)
       PROVE  Done
  <2>1. HeaderShape(container.header)
    BY <1>1 DEF Shape, ContainerShape
  <2>2. HeaderShape(h)
    BY <1>2, <2>1 DEF HeaderShape, HeaderEdits
  <2>3. Shape([container EXCEPT !.header = h])
    BY <1>1, <2>2 DEF Shape, ContainerShape
  <2> QED
    BY <1>4, <1>18, <2>3 DEF SetHeader
<1>19. Done
  <2>1. TagLen \in Int
    BY DEF TagLen
  <2>2. \A k \in DOMAIN container.body : \A d \in {-1, 1} : container.body[k].claim + d \in Int
    BY <1>3
  <2>3. CASE \E j, k \in DOMAIN container.body : j < k /\ Reorder(j, k)
    BY <1>7, <2>3
  <2>4. ASSUME NEW k \in DOMAIN container.body,
               \/ Drop(k) \/ FlipCiphertext(k) \/ BreakMagic(k)
               \/ \E d \in {-1, 1} : Misframe(k, container.body[k].claim + d)
               \/ Misframe(k, TagLen)
        PROVE  Done
    BY <1>8, <1>9, <1>10, <1>11, <2>1, <2>2, <2>4
  <2>5. ASSUME NEW id \in DOMAIN streams, NEW m \in DOMAIN streams[id].envelopes,
               \/ Complete(id) /\ Extend(id, m)
               \/ \E k \in DOMAIN container.body :
                    Complete(id) /\ (Splice(k, id, m) \/ Regraft(k, id, m))
        PROVE  Done
    BY <1>12, <1>13, <1>14, <2>5
  <2> QED
    BY <1>15, <1>16, <1>17, <1>18, <2>3, <2>4, <2>5, Zenon DEF Rearrange
<1> QED
  BY <1>19 DEF Done, Shape
-------------------------------------------------------------------------------
(***************************************************************************)
(* How many bytes a container holds.                                       *)
(***************************************************************************)
FrameBytes(c, j) == SegFrameLen + EnvelopeSize(c.body[j].envelope)

\* f tabulates how many bytes each set of frames of c holds.
Totals(f, c, S) ==
  f = [s \in SUBSET S |-> IF s = {} THEN 0 ELSE FrameBytes(c, Pick(s)) + f[s \ {Pick(s)}]]

\* The bytes from frame k on hold every frame from k on, and so many of them.
LEMMA BytesBound ==
  ASSUME NEW c, IsSeq(c.body), c.tail \in Nat, NEW k \in 1 .. Len(c.body) + 1,
         \A j \in DOMAIN c.body : FrameBytes(c, j) \in Nat /\ SegFrameLen + 1 <= FrameBytes(c, j)
  PROVE  /\ BytesFrom(c, k) \in Nat
         /\ \A j \in k .. Len(c.body) : FrameBytes(c, j) <= BytesFrom(c, k)
         /\ (SegFrameLen + 1) * (Len(c.body) - k + 1) <= BytesFrom(c, k)
<1> DEFINE S == k .. Len(c.body)
           F == [j \in S |-> FrameBytes(c, j)]
           g == CHOOSE f : Sums(f, F, SUBSET S)
<1>1. Len(c.body) \in Nat /\ DOMAIN c.body = 1 .. Len(c.body)
  BY IsSeqLen
<1>2. IsFiniteSet(S) /\ Cardinality(S) = Len(c.body) - k + 1
  <2>1. k \in Int /\ Len(c.body) \in Int
    BY <1>1
  <2>2. IsFiniteSet(S) /\ Cardinality(S) = IF k > Len(c.body) THEN 0 ELSE Len(c.body) - k + 1
    BY <2>1, FS_Interval, Zenon
  <2> QED
    BY <1>1, <2>2
<1>3. \A j \in S : F[j] = FrameBytes(c, j) /\ F[j] \in Nat /\ SegFrameLen + 1 <= F[j]
  BY <1>1
<1>4. Sums(g, F, SUBSET S)
  BY <1>2, SumsExist
<1>5. \A f : Sums(f, F, SUBSET S) <=> Totals(f, c, S)
  <2>1. \A s \in SUBSET S : s # {} => F[Pick(s)] = FrameBytes(c, Pick(s))
    BY PickElement
  <2> HIDE DEF S, F
  <2> QED
    BY <2>1 DEF Sums, Totals
<1>6. BytesFrom(c, k) = c.tail + g[S]
  <2>1. MapThenSumSet(LAMBDA j : SegFrameLen + EnvelopeSize(c.body[j].envelope), S)
          = (CHOOSE f : Totals(f, c, S))[S]
    BY DEF MapThenSumSet, MapThenFoldSet, Pick, FrameBytes, Totals
  <2> HIDE DEF S, F
  <2>2. (CHOOSE f : Totals(f, c, S)) = (CHOOSE f : Sums(f, F, SUBSET S))
    BY <1>5, Zenon
  <2>3. (CHOOSE f : Totals(f, c, S)) = g
    BY <2>2
  <2> QED
    BY <2>1, <2>3 DEF BytesFrom, S
<1>7. SegFrameLen + 1 \in Nat
  BY DEF SegFrameLen
<1> HIDE DEF S, F, g
<1>8. /\ g[S] \in Nat
      /\ \A j \in S : F[j] <= g[S]
      /\ (SegFrameLen + 1) * Cardinality(S) <= g[S]
  BY <1>2, <1>3, <1>4, <1>7, SumsBounds
<1>9. \A j \in S : FrameBytes(c, j) <= g[S] /\ FrameBytes(c, j) \in Nat
  BY <1>3, <1>8
<1> DEFINE m == (SegFrameLen + 1) * Cardinality(S)
<1>10. m \in Int
  BY <1>1, <1>2, <1>7
<1> HIDE DEF m
<1>11. \A x \in Int : x <= g[S] => x <= BytesFrom(c, k)
  BY <1>6, <1>8
<1> QED
  BY <1>1, <1>2, <1>6, <1>8, <1>9, <1>10, <1>11 DEF S, m
-------------------------------------------------------------------------------
(***************************************************************************)
(* A container that comes back as it was sealed.                           *)
(***************************************************************************)
\* An envelope framed and sliced out again is that envelope.
LEMMA SliceFrame ==
  ASSUME NEW b
  PROVE  Slice(Frame(b)) = b
BY DEF Slice, Frame

LEMMA SealedSize ==
  ASSUME StreamsInv, NEW id \in DOMAIN streams, NEW m \in DOMAIN streams[id].envelopes
  PROVE  /\ EnvelopeSize(streams[id].envelopes[m]) \in Nat
         /\ SegFrameLen + 1 <= SegFrameLen + EnvelopeSize(streams[id].envelopes[m])
<1>1. HasShape(streams[id].envelopes[m])
  BY EnvelopeOf
<1> QED
  BY <1>1 DEF HasShape, EnvelopeSize, HeaderLen, CtLenLen, SegFrameLen

LEMMA GenuineFrames ==
  ASSUME StreamsInv, NEW id \in DOMAIN streams, Complete(id), NEW c, c = ContainerOf(id)
  PROVE  /\ ~ HeaderFault(c)
         /\ Len(c.body) = c.header.n /\ c.tail = 0
         /\ \A k \in 1 .. c.header.n :
              /\ ~ FrameFault(c, k)
              /\ Opens(Slice(c.body[k]), SegEnv(streams[id].env, c.header, k - 1))
<1> DEFINE h == HeaderOf(streams[id], id)
<1>1. /\ c.header = h /\ c.tail = 0
      /\ IsSeq(c.body) /\ Len(c.body) = Len(streams[id].envelopes)
      /\ DOMAIN c.body = DOMAIN streams[id].envelopes
      /\ \A m \in DOMAIN streams[id].envelopes : c.body[m] = Frame(streams[id].envelopes[m])
  BY ContainerParts
<1>2. /\ h.n \in Nat \ {0} /\ Len(streams[id].state) \in Nat
      /\ h.n = NumSegments(Len(streams[id].state), streams[id].size)
      /\ DOMAIN streams[id].envelopes = 1 .. Len(streams[id].envelopes)
      /\ streams[id].size \in Nat \ {0}
  BY StreamTypes
<1>3. Len(streams[id].envelopes) = h.n
  BY HeaderIs DEF Complete
<1>4. \A j \in DOMAIN c.body :
        /\ FrameBytes(c, j) = SegFrameLen + EnvelopeSize(streams[id].envelopes[j])
        /\ FrameBytes(c, j) \in Nat /\ SegFrameLen + 1 <= FrameBytes(c, j)
        /\ c.body[j].claim = EnvelopeSize(streams[id].envelopes[j])
        /\ EnvelopeSize(streams[id].envelopes[j]) \in Nat
  <2> SUFFICES ASSUME NEW j \in DOMAIN streams[id].envelopes
               PROVE  /\ FrameBytes(c, j) = SegFrameLen + EnvelopeSize(streams[id].envelopes[j])
                      /\ FrameBytes(c, j) \in Nat /\ SegFrameLen + 1 <= FrameBytes(c, j)
                      /\ c.body[j].claim = EnvelopeSize(streams[id].envelopes[j])
                      /\ EnvelopeSize(streams[id].envelopes[j]) \in Nat
    BY <1>1
  <2> DEFINE b    == streams[id].envelopes[j]
             size == EnvelopeSize(b)
  <2>1. size \in Nat /\ SegFrameLen + 1 <= SegFrameLen + size
    BY SealedSize
  <2>2. c.body[j].claim = size /\ c.body[j].envelope = b
    <3>1. c.body[j] = Frame(b)
      BY <1>1
    <3> QED
      BY <3>1 DEF Frame
  <2>3. FrameBytes(c, j) = SegFrameLen + size
    BY <2>2 DEF FrameBytes
  <2> HIDE DEF size
  <2>4. SegFrameLen + size \in Nat
    BY <2>1 DEF SegFrameLen
  <2> QED
    BY <2>1, <2>2, <2>3, <2>4 DEF size
<1>5. \A k \in 1 .. h.n + 1 :
        /\ BytesFrom(c, k) \in Nat
        /\ \A j \in k .. h.n : FrameBytes(c, j) <= BytesFrom(c, k)
        /\ (SegFrameLen + 1) * (h.n - k + 1) <= BytesFrom(c, k)
  <2>1. /\ IsSeq(c.body) /\ c.tail \in Nat /\ Len(c.body) = h.n
        /\ \A j \in DOMAIN c.body : FrameBytes(c, j) \in Nat /\ SegFrameLen + 1 <= FrameBytes(c, j)
    BY <1>1, <1>3, <1>4
  <2>2. ASSUME NEW k \in 1 .. Len(c.body) + 1
        PROVE  /\ BytesFrom(c, k) \in Nat
               /\ \A j \in k .. Len(c.body) : FrameBytes(c, j) <= BytesFrom(c, k)
               /\ (SegFrameLen + 1) * (Len(c.body) - k + 1) <= BytesFrom(c, k)
    BY <2>1, BytesBound
  <2> QED
    BY <2>1, <2>2
<1>6. h.form = "stream" /\ h.total = Len(streams[id].state)
  BY DEF HeaderOf
<1>7. h.total = 0 => h.n = 1
  BY <1>2, <1>6, SegmentCount
<1>8. h.n <= MaxPossible(StreamHeaderLen + BytesFrom(c, 1))
  <2> DEFINE B == BytesFrom(c, 1)
             n == h.n
  <2>1. 1 \in 1 .. n + 1 /\ n \in Nat
    BY <1>2
  <2>2. B \in Nat /\ (SegFrameLen + 1) * (n - 1 + 1) <= B
    BY <1>5, <2>1
  <2> HIDE DEF B, n
  <2>3. 9 * n <= B
    BY <2>1, <2>2 DEF SegFrameLen
  <2>4. n <= B \div 9
    BY <2>1, <2>2, <2>3
  <2>5. (StreamHeaderLen + B) - StreamHeaderLen = B /\ SegFrameLen + 1 = 9
    BY <2>2 DEF StreamHeaderLen, SegFrameLen
  <2>6. MaxPossible(StreamHeaderLen + B) = B \div 9
    <3>1. MaxPossible(StreamHeaderLen + B)
            = ((StreamHeaderLen + B) - StreamHeaderLen) \div (SegFrameLen + 1)
      BY DEF MaxPossible
    <3> QED
      BY <2>5, <3>1
  <2> QED
    BY <2>4, <2>6 DEF B, n
<1>9. ~ HeaderFault(c)
  <2>1. MaxPossible(StreamHeaderLen + BytesFrom(c, 1)) \in Int
    <3>1. BytesFrom(c, 1) \in Nat
      BY <1>2, <1>5
    <3> QED
      BY <3>1 DEF MaxPossible, StreamHeaderLen, SegFrameLen
  <2> QED
    BY <1>1, <1>2, <1>6, <1>7, <1>8, <2>1 DEF HeaderFault
<1> HIDE DEF h
<1>10. ASSUME NEW k \in 1 .. h.n
       PROVE  /\ ~ FrameFault(c, k)
              /\ Opens(Slice(c.body[k]), SegEnv(streams[id].env, h, k - 1))
  <2> DEFINE b == streams[id].envelopes[k]
  <2>1. k \in DOMAIN c.body /\ k \in 1 .. h.n + 1 /\ k \in k .. h.n
        /\ k \in DOMAIN streams[id].envelopes
    BY <1>1, <1>2, <1>3
  <2>2. /\ SegFrameLen + EnvelopeSize(b) <= BytesFrom(c, k) /\ BytesFrom(c, k) \in Nat
        /\ c.body[k].claim = EnvelopeSize(b) /\ EnvelopeSize(b) \in Nat
        /\ c.body[k] = Frame(b)
    BY <1>1, <1>4, <1>5, <2>1
  <2>3. ~ FrameFault(c, k)
    BY <2>1, <2>2 DEF FrameFault, SegFrameLen
  <2>4. PICK salt \in 1 .. drawn : b = SealedSegment(streams[id], id, k, salt)
    BY <2>1 DEF StreamsInv, SegmentsOf
  <2>5. Opens(b, SegEnv(streams[id].env, h, k - 1))
    BY <2>4, SealedFields DEF StreamsInv, h
  <2> HIDE DEF b
  <2> QED
    BY <2>2, <2>3, <2>5, SliceFrame
<1> QED
  BY <1>1, <1>3, <1>9, <1>10

(***************************************************************************)
(* A frame that opens is the next segment of the stream the header names,  *)
(* and is opened in that stream's environment.                             *)
(***************************************************************************)
LEMMA OpenedFrame ==
  ASSUME StreamsInv, NEW c, ContainerShape(c, streams), c.header.form = "stream",
         NEW e \in Environments, NEW k \in DOMAIN c.body,
         Opens(Slice(c.body[k]), SegEnv(e, c.header, k - 1))
  PROVE  LET s == streams[c.header.id]
         IN  /\ c.header.id \in DOMAIN streams
             /\ c.header = HeaderOf(s, c.header.id)
             /\ e = s.env
             /\ k \in DOMAIN s.envelopes
             /\ c.body[k] = Frame(s.envelopes[k])
             /\ Slice(c.body[k]).ct.plain = Segment(s.state, s.size, k - 1)
<1> DEFINE f == c.body[k]
           b == f.envelope
           g == SegEnv(e, c.header, k - 1)
<1>1. Carried(f, streams)
  BY DEF ContainerShape
<1>2. HasShape(b) /\ f.claim \in Int
  BY <1>1 DEF Carried
<1>3. f.claim = EnvelopeSize(b)
  <2>1. WellFormed(Slice(f)) /\ Slice(f).ct.intact
    BY DEF Opens, AeadOk, Decrypts
  <2> SUFFICES ASSUME f.claim # EnvelopeSize(b) PROVE FALSE
    OBVIOUS
  <2>2. CASE f.claim < HeaderLen + CtLenLen
    <3>1. Slice(f) = [b EXCEPT !.form = "short"]
      BY <2>2 DEF Slice
    <3>2. [b EXCEPT !.form = "short"].form = "short"
      BY <1>2 DEF HasShape
    <3> QED
      BY <2>1, <3>1, <3>2 DEF WellFormed
  <2>3. CASE ~ (f.claim < HeaderLen + CtLenLen)
    <3>1. Slice(f) = CutCiphertext(b, f.claim - HeaderLen - CtLenLen)
      BY <2>3 DEF Slice
    <3>2. f.claim - HeaderLen - CtLenLen \in Nat
      BY <1>2, <2>3 DEF HeaderLen, CtLenLen
    <3> QED
      BY <1>2, <2>1, <3>1, <3>2, CutShape
  <2> QED
    BY <2>2, <2>3
<1>4. Slice(f) = b
  BY <1>3 DEF Slice
<1>5. Opens(b, g) /\ b.ct.intact
  BY <1>4 DEF Opens, AeadOk, Decrypts
<1>6. PICK id \in DOMAIN streams : \E m \in DOMAIN streams[id].envelopes :
        b.ct = streams[id].envelopes[m].ct
  BY <1>1, <1>5 DEF Carried
<1>7. PICK m \in DOMAIN streams[id].envelopes : b.ct = streams[id].envelopes[m].ct
  BY <1>6
<1> DEFINE s == streams[id]
           h == HeaderOf(s, id)
           d == SegEnv(s.env, h, m - 1)
<1>8. PICK salt \in 1 .. drawn : s.envelopes[m] = SealedSegment(s, id, m, salt)
  BY DEF StreamsInv, SegmentsOf
<1>9. StreamShape(s, id) /\ s.env \in Environments
  BY DEF StreamsInv, StreamShape
<1>10. IsEnv(d) /\ IsEnv(g)
  BY <1>9, SegEnvFields
<1>11. b = [form |-> b.form, prefix |-> b.prefix, ctLen |-> b.ctLen, ct |-> b.ct]
  BY <1>2 DEF HasShape
<1>12. b.ct = SealEnvelope(Segment(s.state, s.size, m - 1), d, salt, salt).ct
  BY <1>7, <1>8 DEF SealedSegment
<1> HIDE DEF b, d, g
<1>13. b = SealEnvelope(Segment(s.state, s.size, m - 1), d, salt, salt) /\ g = d
  BY <1>5, <1>10, <1>11, <1>12, OpensOnlyItself
<1>14. b = s.envelopes[m]
  BY <1>8, <1>13 DEF SealedSegment, d
<1>15. /\ e = s.env /\ k - 1 = m - 1 /\ c.header.id = h.id /\ c.header.n = h.n
       /\ c.header.total = h.total /\ c.header.size = h.size
  BY <1>9, <1>13, SegEnvInjective DEF g, d
<1>16. k = m /\ h.id = id
  <2>1. k \in Int /\ m \in Int
    <3>1. DOMAIN c.body = 1 .. Len(c.body) /\ Len(c.body) \in Nat
      BY IsSeqLen DEF ContainerShape
    <3>2. m \in 1 .. Len(s.envelopes)
      BY StreamTypes
    <3> QED
      BY <3>1, <3>2
  <2> QED
    BY <1>15, <2>1 DEF HeaderOf
<1>17. c.header = h
  <2>1. c.header = [form |-> c.header.form, id |-> c.header.id, n |-> c.header.n,
                    size |-> c.header.size, total |-> c.header.total]
    BY DEF ContainerShape, HeaderShape
  <2>2. h = [form |-> "stream", id |-> h.id, n |-> h.n, size |-> h.size, total |-> h.total]
    BY DEF HeaderOf
  <2> HIDE DEF h
  <2> QED
    BY <1>15, <2>1, <2>2
<1>18. c.body[k] = Frame(s.envelopes[k])
  <2>1. f = [claim |-> f.claim, envelope |-> b]
    BY <1>1 DEF Carried, b
  <2> QED
    BY <1>3, <1>14, <1>16, <2>1 DEF Frame, b
<1>19. Slice(c.body[k]).ct.plain = Segment(s.state, s.size, k - 1)
  <2>1. m \in 1 .. h.n
    BY StreamTypes
  <2>2. SealedSegment(s, id, m, salt).ct.plain = Segment(s.state, s.size, m - 1)
    BY <1>9, <2>1, SealedFields
  <2> QED
    BY <1>4, <1>8, <1>14, <1>16, <2>2 DEF b
<1>20. c.header.id = id
  BY <1>15, <1>16
<1> HIDE DEF h
<1> QED
  BY <1>15, <1>16, <1>17, <1>18, <1>19, <1>20 DEF h
-------------------------------------------------------------------------------
(***************************************************************************)
(* The invariant holds initially, and seal_state_chunked keeps it.         *)
(***************************************************************************)
LEMMA InitInv == Init => Inv
<1> SUFFICES ASSUME Init PROVE Inv
  OBVIOUS
<1>1. IsSeq(streams) /\ DOMAIN streams = {}
  BY IsSeqEmpty DEF Init
<1>2. StreamsInv /\ SaltsInv
  BY <1>1 DEF Init, StreamsInv, SaltsInv
<1>3. CarrierInv
  BY BoundsAssumption DEF Init, CarrierInv
<1>4. CallInv /\ SegmentsInv
  BY DEF Init, CallInv, SegmentsInv, BadArgs
<1>5. ReturnInv
  BY DEF Init, ReturnInv, OpensOnlyWholeStreams, NeverRefusesItsOwn
<1> QED
  BY <1>2, <1>3, <1>4, <1>5 DEF Inv

\* A container stays what it is while streams are added and grow.
LEMMA StreamsGrow ==
  ASSUME NEW s, NEW t, DOMAIN s \subseteq DOMAIN t,
         \A id \in DOMAIN s : \A m \in DOMAIN s[id].envelopes :
           m \in DOMAIN t[id].envelopes /\ t[id].envelopes[m] = s[id].envelopes[m],
         NEW c, ContainerShape(c, s)
  PROVE  ContainerShape(c, t)
<1>1. ASSUME NEW k \in DOMAIN c.body
      PROVE  Carried(c.body[k], t)
  <2>1. Carried(c.body[k], s)
    BY DEF ContainerShape
  <2>2. ASSUME c.body[k].envelope.ct.intact
        PROVE  \E id \in DOMAIN t : \E m \in DOMAIN t[id].envelopes :
                 c.body[k].envelope.ct = t[id].envelopes[m].ct
    <3>1. PICK id \in DOMAIN s : \E m \in DOMAIN s[id].envelopes :
            c.body[k].envelope.ct = s[id].envelopes[m].ct
      BY <2>1, <2>2 DEF Carried
    <3> QED
      BY <3>1
  <2> QED
    BY <2>1, <2>2 DEF Carried
<1> QED
  BY <1>1 DEF ContainerShape

\* The salt of a segment is one that was drawn.
LEMMA SaltDrawn ==
  ASSUME StreamsInv, NEW id \in DOMAIN streams, NEW m \in DOMAIN streams[id].envelopes
  PROVE  /\ streams[id].envelopes[m].prefix.salt \in 1 .. drawn
         /\ streams[id].envelopes[m].prefix.nonce = streams[id].envelopes[m].prefix.salt
         /\ streams[id].envelopes[m]
              = SealedSegment(streams[id], id, m, streams[id].envelopes[m].prefix.salt)
<1>1. PICK salt \in 1 .. drawn :
        streams[id].envelopes[m] = SealedSegment(streams[id], id, m, salt)
  BY DEF StreamsInv, SegmentsOf
<1>2. m \in 1 .. HeaderOf(streams[id], id).n
  BY StreamTypes
<1>3. streams[id].envelopes[m].prefix.salt = salt
  BY <1>1, <1>2, SealedFields DEF StreamsInv
<1>4. streams[id].envelopes[m].prefix.nonce = salt
  BY <1>1, <1>2, SealedFields DEF StreamsInv
<1> QED
  BY <1>1, <1>3, <1>4

LEMMA HistoryKept ==
  ASSUME Inv, UNCHANGED streams, drawn' \in Nat, drawn <= drawn'
  PROVE  StreamsInv' /\ SaltsInv'
<1>1. \A id \in DOMAIN streams : SegmentsOf(streams[id], id, drawn')
  <2> SUFFICES ASSUME NEW id \in DOMAIN streams
               PROVE  SegmentsOf(streams[id], id, drawn')
    OBVIOUS
  <2>1. SegmentsOf(streams[id], id, drawn)
    BY DEF Inv, StreamsInv
  <2>2. drawn \in Nat
    BY DEF Inv, StreamsInv
  <2>3. 1 .. drawn \subseteq 1 .. drawn'
    BY <2>2
  <2> QED
    BY <2>1, <2>3 DEF SegmentsOf
<1> QED
  BY <1>1 DEF Inv, StreamsInv, SaltsInv

LEMMA CarrierKept ==
  ASSUME Inv, UNCHANGED <<streams, heldVars>>
  PROVE  CarrierInv'
BY DEF Inv, CarrierInv, heldVars

\* A call that ends with none of the verdicts on a container.
LEMMA EarlyReturn ==
  ASSUME Inv, NEW r \in {"SCEError", "OverflowError", "sealed"}, Return(r, None)
  PROVE  CallInv' /\ SegmentsInv' /\ ReturnInv'
BY DEF Inv, Return, CallInv, SegmentsInv, ReturnInv, OpensOnlyWholeStreams,
       NeverRefusesItsOwn

\* Outside unseal_state_chunked there is nothing opened and no verdict.
LEMMA NoCall ==
  ASSUME outcome' = "none", released' = None, pc' # "segments"
  PROVE  SegmentsInv' /\ ReturnInv'
BY DEF SegmentsInv, ReturnInv, OpensOnlyWholeStreams, NeverRefusesItsOwn

LEMMA SealChunkedInv ==
  ASSUME Inv, NEW e \in Environments, NEW state \in States, NEW size \in SegmentSizes,
         NEW bad \in BadArgs, SealChunked(e, state, size, bad)
  PROVE  Inv'
<1> DEFINE r == [env |-> e, state |-> state, size |-> size, envelopes |-> <<>>]
           n == Len(streams) + 1
<1>1. /\ streams' = Append(streams, r) /\ IsSeq(streams)
      /\ UNCHANGED drawn /\ drawn \in Nat
  BY DEF SealChunked, Inv, StreamsInv
<1>2. r.env = e /\ r.state = state /\ r.size = size /\ r.envelopes = <<>>
      /\ r = [env |-> r.env, state |-> r.state, size |-> r.size, envelopes |-> r.envelopes]
  OBVIOUS
<1> HIDE DEF r
<1>3. IsSeq(r.envelopes) /\ Len(r.envelopes) = 0 /\ DOMAIN r.envelopes = {}
  BY <1>2, IsSeqEmpty
<1>4. /\ IsSeq(streams') /\ DOMAIN streams' = 1 .. n
      /\ \A id \in 1 .. Len(streams) : streams'[id] = streams[id]
      /\ streams'[n] = r
  BY <1>1, IsSeqAppend
<1>5. DOMAIN streams = 1 .. Len(streams) /\ Len(streams) \in Nat
  BY <1>1, IsSeqLen
<1>6. \A id \in 1 .. n : id \in DOMAIN streams \/ id = n
  BY <1>5
<1>7. StreamShape(r, n) /\ SegmentsOf(r, n, drawn')
  <2>1. state \in Seq(Byte) /\ size \in Nat \ {0}
    BY StatesAssumption, SegmentSizesAssumption
  <2>2. HeaderOf(r, n).n = NumSegments(Len(state), size)
    BY <1>2 DEF HeaderOf
  <2>3. NumSegments(Len(state), size) \in Nat
    BY <2>1, LenProperties, SegmentCount
  <2>4. Len(r.envelopes) <= HeaderOf(r, n).n
    BY <1>3, <2>2, <2>3
  <2> QED
    BY <1>2, <1>3, <2>4 DEF StreamShape, SegmentsOf
<1>8. StreamsInv'
  <2>1. \A id \in DOMAIN streams : StreamShape(streams[id], id) /\ SegmentsOf(streams[id], id, drawn')
    BY <1>1 DEF Inv, StreamsInv
  <2>2. \A id \in DOMAIN streams' :
          StreamShape(streams'[id], id) /\ SegmentsOf(streams'[id], id, drawn')
    BY <1>4, <1>5, <1>6, <1>7, <2>1
  <2> QED
    BY <1>1, <1>4, <2>2 DEF StreamsInv
<1>9. \A id \in DOMAIN streams' : \A m \in DOMAIN streams'[id].envelopes :
        id \in DOMAIN streams /\ streams'[id] = streams[id]
  BY <1>3, <1>4, <1>5, <1>6
<1>10. SaltsInv'
  BY <1>9 DEF Inv, SaltsInv
<1>11. CarrierInv'
  <2>1. container # None => ContainerShape(container, streams')
    <3>1. DOMAIN streams \subseteq DOMAIN streams'
      BY <1>4, <1>5
    <3>2. \A id \in DOMAIN streams : streams'[id] = streams[id]
      BY <1>4, <1>5
    <3> QED
      BY <3>1, <3>2, StreamsGrow DEF Inv, CarrierInv
  <2> QED
    BY <2>1 DEF SealChunked, heldVars, Inv, CarrierInv
<1>12. CallInv'
  <2>1. streams' # <<>>
    <3>1. Len(streams') = n /\ Len(<<>>) = 0
      BY <1>1, IsSeqAppend, EmptySeq
    <3> QED
      BY <1>5, <3>1
  <2> QED
    BY <2>1 DEF SealChunked, Idle, Inv, CallInv
<1>13. SegmentsInv' /\ ReturnInv'
  BY NoCall DEF SealChunked, Idle, Inv, CallInv
<1> QED
  BY <1>8, <1>10, <1>11, <1>12, <1>13 DEF Inv

LEMMA SealSegmentInv ==
  ASSUME Inv, SealSegment
  PROVE  Inv'
<1> DEFINE id    == Len(streams)
           s     == streams[id]
           index == Len(s.envelopes)
<1>1. IsSeq(streams) /\ drawn \in Nat /\ pc = "sealing" /\ env = None
  BY DEF Inv, StreamsInv, CallInv, SealSegment
<1>2. DOMAIN streams = 1 .. id /\ id \in Nat /\ id # 0
  <2>1. DOMAIN streams = 1 .. id /\ id \in Nat
    BY <1>1, IsSeqLen
  <2>2. streams # <<>>
    BY <1>1 DEF Inv, CallInv
  <2>3. id = 0 => streams = <<>>
    <3>1. ASSUME id = 0 PROVE streams = <<>>
      BY <1>1, <3>1, IsSeqEmpty, IsSeqEqual
    <3> QED
      BY <3>1
  <2> QED
    BY <2>1, <2>2, <2>3
<1>3. id \in DOMAIN streams
  BY <1>2
<1>4. CASE badArg # "none"
  <2>1. /\ Return(BadArgError(badArg), None) /\ UNCHANGED <<streams, heldVars>>
        /\ drawn' = IF badArg = "secret" THEN drawn + 1 ELSE drawn
    BY <1>4 DEF SealSegment
  <2>2. BadArgError(badArg) \in {"SCEError", "OverflowError"}
    BY DEF BadArgError, LpError, EpochError, SecretError
  <2>3. CallInv' /\ SegmentsInv' /\ ReturnInv'
    BY <2>1, <2>2, EarlyReturn
  <2>4. drawn' \in Nat /\ drawn <= drawn'
    BY <1>1, <2>1
  <2> QED
    BY <2>1, <2>3, <2>4, HistoryKept, CarrierKept DEF Inv
<1>5. CASE badArg = "none"
  <2> DEFINE x == SealedSegment(s, id, index + 1, drawn + 1)
             r == [s EXCEPT !.envelopes = Append(@, x)]
  <2>1. /\ StreamShape(s, id) /\ SegmentsOf(s, id, drawn) /\ IsSeq(s.envelopes)
        /\ index \in Nat /\ DOMAIN s.envelopes = 1 .. index
        /\ index < HeaderOf(s, id).n /\ HeaderOf(s, id).n \in Nat
    <3>1. index # HeaderOf(s, id).n
      BY HeaderIs DEF SealSegment, Complete
    <3>2. /\ index \in 0 .. HeaderOf(s, id).n /\ HeaderOf(s, id).n \in Nat
          /\ DOMAIN s.envelopes = 1 .. index
      BY <1>3, StreamTypes DEF Inv
    <3>3. StreamShape(s, id) /\ SegmentsOf(s, id, drawn)
      BY <1>3 DEF Inv, StreamsInv
    <3>4. index \in Nat /\ index < HeaderOf(s, id).n
      BY <3>1, <3>2
    <3> QED
      BY <3>2, <3>3, <3>4 DEF StreamShape
  <2>2. x = SealEnvelope(Segment(s.state, s.size, index), SegEnv(s.env, Header(id), index),
                         drawn + 1, drawn + 1)
    <3>1. index + 1 - 1 = index
      BY <2>1
    <3> QED
      BY <3>1, HeaderIs DEF SealedSegment
  <2>3. /\ streams' = [streams EXCEPT ![id].envelopes = Append(@, x)]
        /\ drawn' = drawn + 1 /\ UNCHANGED <<callVars, heldVars>>
    BY <1>5, <2>2 DEF SealSegment, Draw
  <2>4. streams' = [streams EXCEPT ![id] = r]
    BY <2>3
  <2>5. r = [env |-> s.env, state |-> s.state, size |-> s.size,
             envelopes |-> Append(s.envelopes, x)]
    <3> DEFINE b == Append(s.envelopes, x)
    <3>1. r = [s EXCEPT !.envelopes = b]
      OBVIOUS
    <3>2. s = [env |-> s.env, state |-> s.state, size |-> s.size, envelopes |-> s.envelopes]
      BY <2>1 DEF StreamShape
    <3> HIDE DEF b, r, s
    <3> QED
      BY <3>1, <3>2 DEF b
  <2> HIDE DEF r, x
  <2>6. /\ r.env = s.env /\ r.state = s.state /\ r.size = s.size
        /\ r.envelopes = Append(s.envelopes, x)
        /\ r = [env |-> r.env, state |-> r.state, size |-> r.size, envelopes |-> r.envelopes]
    BY <2>5
  <2>7. /\ IsSeq(r.envelopes) /\ Len(r.envelopes) = index + 1
        /\ DOMAIN r.envelopes = 1 .. index + 1
        /\ \A k \in 1 .. index : r.envelopes[k] = s.envelopes[k]
        /\ r.envelopes[index + 1] = x
    BY <2>1, <2>6, IsSeqAppend
  <2>8. \A k \in 1 .. index + 1 : k \in DOMAIN s.envelopes \/ k = index + 1
    BY <2>1
  <2>9. HeaderOf(r, id) = HeaderOf(s, id)
    BY <2>6 DEF HeaderOf
  <2>10. \A k, salt : SealedSegment(r, id, k, salt) = SealedSegment(s, id, k, salt)
    BY <2>6, <2>9 DEF SealedSegment
  <2>11. StreamShape(r, id)
    <3>1. index + 1 <= HeaderOf(r, id).n
      BY <2>1, <2>9
    <3> QED
      BY <2>1, <2>6, <2>7, <3>1 DEF StreamShape
  <2>12. SegmentsOf(r, id, drawn + 1)
    <3> SUFFICES ASSUME NEW k \in DOMAIN r.envelopes
                 PROVE  \E salt \in 1 .. drawn + 1 :
                          r.envelopes[k] = SealedSegment(r, id, k, salt)
      BY DEF SegmentsOf
    <3>1. CASE k = index + 1
      <4>1. drawn + 1 \in 1 .. drawn + 1
        BY <1>1
      <4> QED
        BY <2>7, <2>10, <3>1, <4>1 DEF x
    <3>2. CASE k \in DOMAIN s.envelopes
      <4>1. PICK salt \in 1 .. drawn : s.envelopes[k] = SealedSegment(s, id, k, salt)
        BY <2>1, <3>2 DEF SegmentsOf
      <4>2. salt \in 1 .. drawn + 1
        BY <1>1
      <4> QED
        BY <2>1, <2>7, <2>10, <3>2, <4>1, <4>2
    <3> QED
      BY <2>7, <2>8, <3>1, <3>2
  <2>13. /\ IsSeq(streams') /\ DOMAIN streams' = DOMAIN streams
         /\ streams'[id] = r
         /\ \A y \in DOMAIN streams : y # id => streams'[y] = streams[y]
    <3> HIDE DEF id
    <3> QED
      BY <1>1, <1>3, <2>4, IsSeqExcept
  <2>14. drawn' \in Nat /\ 1 .. drawn \subseteq 1 .. drawn + 1
    BY <1>1, <2>3
  <2>15. StreamsInv'
    <3>1. ASSUME NEW y \in DOMAIN streams
          PROVE  StreamShape(streams'[y], y) /\ SegmentsOf(streams'[y], y, drawn')
      <4>1. CASE y = id
        BY <2>3, <2>11, <2>12, <2>13, <4>1
      <4>2. CASE y # id
        <5>1. StreamShape(streams[y], y) /\ SegmentsOf(streams[y], y, drawn)
          BY DEF Inv, StreamsInv
        <5>2. SegmentsOf(streams[y], y, drawn + 1)
          BY <2>14, <5>1 DEF SegmentsOf
        <5> QED
          BY <2>3, <2>13, <4>2, <5>1, <5>2
      <4> QED
        BY <4>1, <4>2
    <3> QED
      BY <2>13, <2>14, <3>1 DEF StreamsInv
  <2>16. x.prefix.salt = drawn + 1
    <3>1. index + 1 \in 1 .. HeaderOf(s, id).n
      BY <2>1
    <3> QED
      BY <2>1, <3>1, SealedFields DEF x
  <2>17. \A y \in DOMAIN streams : \A m \in DOMAIN streams'[y].envelopes :
           \/ y = id /\ m = index + 1 /\ streams'[y].envelopes[m].prefix.salt = drawn + 1
           \/ /\ m \in DOMAIN streams[y].envelopes
              /\ streams'[y].envelopes[m] = streams[y].envelopes[m]
              /\ streams[y].envelopes[m].prefix.salt \in 1 .. drawn
    <3> SUFFICES ASSUME NEW y \in DOMAIN streams, NEW m \in DOMAIN streams'[y].envelopes
                 PROVE  \/ /\ y = id /\ m = index + 1
                           /\ streams'[y].envelopes[m].prefix.salt = drawn + 1
                        \/ /\ m \in DOMAIN streams[y].envelopes
                           /\ streams'[y].envelopes[m] = streams[y].envelopes[m]
                           /\ streams[y].envelopes[m].prefix.salt \in 1 .. drawn
      OBVIOUS
    <3>1. CASE y = id /\ m = index + 1
      BY <2>7, <2>13, <2>16, <3>1
    <3>2. CASE ~ (y = id /\ m = index + 1)
      <4>1. m \in DOMAIN streams[y].envelopes /\ streams'[y].envelopes[m] = streams[y].envelopes[m]
        BY <2>1, <2>7, <2>8, <2>13, <3>2
      <4> QED
        BY <4>1, SaltDrawn DEF Inv
    <3> QED
      BY <3>1, <3>2
  <2>18. SaltsInv'
    <3> SUFFICES ASSUME NEW y \in DOMAIN streams', NEW z \in DOMAIN streams',
                        NEW j \in DOMAIN streams'[y].envelopes,
                        NEW k \in DOMAIN streams'[z].envelopes,
                        streams'[y].envelopes[j].prefix.salt
                          = streams'[z].envelopes[k].prefix.salt
                 PROVE  y = z /\ j = k
      BY DEF SaltsInv
    <3>1. drawn + 1 \notin 1 .. drawn
      BY <1>1
    <3>2. y \in DOMAIN streams /\ z \in DOMAIN streams
      BY <2>13
    <3>3. \/ y = id /\ j = index + 1 /\ streams'[y].envelopes[j].prefix.salt = drawn + 1
          \/ /\ j \in DOMAIN streams[y].envelopes
             /\ streams'[y].envelopes[j] = streams[y].envelopes[j]
             /\ streams[y].envelopes[j].prefix.salt \in 1 .. drawn
      BY <2>17, <3>2
    <3>4. \/ z = id /\ k = index + 1 /\ streams'[z].envelopes[k].prefix.salt = drawn + 1
          \/ /\ k \in DOMAIN streams[z].envelopes
             /\ streams'[z].envelopes[k] = streams[z].envelopes[k]
             /\ streams[z].envelopes[k].prefix.salt \in 1 .. drawn
      BY <2>17, <3>2
    <3>5. CASE j \in DOMAIN streams[y].envelopes /\ k \in DOMAIN streams[z].envelopes
               /\ streams[y].envelopes[j].prefix.salt = streams[z].envelopes[k].prefix.salt
      BY <3>2, <3>5 DEF Inv, SaltsInv
    <3> QED
      BY <3>1, <3>3, <3>4, <3>5
  <2>19. CarrierInv'
    <3>1. \A y \in DOMAIN streams : \A m \in DOMAIN streams[y].envelopes :
            /\ m \in DOMAIN streams'[y].envelopes
            /\ streams'[y].envelopes[m] = streams[y].envelopes[m]
      <4>1. \A m \in 1 .. index : m \in 1 .. index + 1
        BY <2>1
      <4> QED
        BY <2>1, <2>7, <2>13, <4>1
    <3>2. container # None => ContainerShape(container, streams')
      BY <2>13, <3>1, StreamsGrow DEF Inv, CarrierInv
    <3> QED
      BY <2>3, <3>2 DEF heldVars, Inv, CarrierInv
  <2>20. CallInv'
    <3>1. streams' # <<>>
      BY <1>3, <2>13, IsSeqEmpty
    <3>2. /\ pc' = pc /\ badArg' = badArg /\ env' = env /\ i' = i /\ plain' = plain
          /\ assembled' = assembled /\ outcome' = outcome /\ released' = released
      BY <2>3 DEF callVars
    <3> QED
      BY <1>1, <3>1, <3>2 DEF Inv, CallInv
  <2>21. SegmentsInv' /\ ReturnInv'
    BY <1>1, <2>3, NoCall DEF callVars, Inv, CallInv
  <2> QED
    BY <2>15, <2>18, <2>19, <2>20, <2>21 DEF Inv
<1> QED
  BY <1>4, <1>5
-------------------------------------------------------------------------------
(***************************************************************************)
(* The carrier and unseal_state_chunked keep the invariant.                *)
(***************************************************************************)
LEMMA CarrierStepInv ==
  ASSUME Inv, \/ \E id \in DOMAIN streams : Fetch(id)
              \/ Rearrange
  PROVE  Inv'
<1>1. /\ Idle /\ ContainerShape(container', streams) /\ edits' \in 0 .. MaxEdits
      /\ UNCHANGED <<streams, drawn, callVars>>
  <2>1. CASE Rearrange
    BY <2>1, RearrangeShape DEF Inv
  <2>2. ASSUME NEW id \in DOMAIN streams, Fetch(id)
        PROVE  /\ Idle /\ ContainerShape(container', streams) /\ edits' \in 0 .. MaxEdits
               /\ UNCHANGED <<streams, drawn, callVars>>
    BY <2>2, FetchedShape, BoundsAssumption DEF Fetch, Inv
  <2> QED
    BY <2>1, <2>2
<1>2. drawn \in Nat /\ drawn <= drawn
  BY DEF Inv, StreamsInv
<1>3. StreamsInv' /\ SaltsInv'
  BY <1>1, <1>2, HistoryKept
<1>4. CarrierInv'
  BY <1>1 DEF CarrierInv
<1>5. CallInv' /\ outcome' = "none" /\ released' = None /\ pc' # "segments"
  BY <1>1 DEF Idle, callVars, Inv, CallInv
<1> QED
  BY <1>3, <1>4, <1>5, NoCall DEF Inv

\* Refusing a container that is not one sealed in the environment presented.
LEMMA Refusal ==
  ASSUME Inv, NEW r \in {"mismatch", "malformed"}, Return(r, None),
         UNCHANGED <<streams, drawn, heldVars>>,
         \A id \in DOMAIN streams :
           ~ (Complete(id) /\ container = ContainerOf(id) /\ env = streams[id].env)
  PROVE  Inv'
<1>1. StreamsInv' /\ SaltsInv' /\ CarrierInv'
  BY HistoryKept, CarrierKept DEF Inv, StreamsInv
<1>2. CallInv' /\ SegmentsInv' /\ OpensOnlyWholeStreams'
  BY DEF Inv, Return, CallInv, SegmentsInv, OpensOnlyWholeStreams
<1>3. NeverRefusesItsOwn'
  BY DEF Return, heldVars, NeverRefusesItsOwn, Complete, ContainerOf, Header
<1> QED
  BY <1>1, <1>2, <1>3 DEF Inv, ReturnInv, Return

LEMMA ParseStreamHeaderInv ==
  ASSUME Inv, ParseStreamHeader
  PROVE  Inv'
<1>1. /\ UNCHANGED <<streams, drawn, heldVars>> /\ pc = "header"
      /\ container # None /\ env \in Environments
      /\ i = 0 /\ plain = <<>> /\ assembled = 0
  BY DEF ParseStreamHeader, Inv, CallInv
<1>2. CASE HeaderFault(container)
  <2>1. Return("malformed", None)
    BY <1>2 DEF ParseStreamHeader
  <2>2. \A id \in DOMAIN streams : Complete(id) => container # ContainerOf(id)
    BY <1>2, GenuineFrames DEF Inv
  <2> QED
    BY <1>1, <2>1, <2>2, Refusal
<1>3. CASE ~ HeaderFault(container)
  <2>1. /\ pc' = "segments" /\ UNCHANGED <<badArg, env, i, plain, assembled, outcome, released>>
    BY <1>3 DEF ParseStreamHeader
  <2>2. StreamsInv' /\ SaltsInv' /\ CarrierInv'
    BY <1>1, HistoryKept, CarrierKept DEF Inv, StreamsInv
  <2>3. outcome = "none" /\ released = None
    BY <1>1 DEF Inv, CallInv
  <2>4. CallInv'
    BY <1>1, <2>1 DEF Inv, CallInv, heldVars
  <2>5. SegmentsInv'
    <3>1. container.header.form = "stream" /\ container.header.n # 0
      BY <1>3 DEF HeaderFault
    <3>2. container.header.n \in Nat
      BY <1>1 DEF Inv, CarrierInv, ContainerShape, HeaderShape
    <3>3. 0 \in 0 .. container.header.n /\ ~ (0 > 0) /\ Len(<<>>) = 0
      BY <3>2, IsSeqEmpty
    <3>4. container' = container
      BY <1>1 DEF heldVars
    <3> QED
      BY <1>1, <2>1, <3>1, <3>3, <3>4 DEF SegmentsInv
  <2>6. ReturnInv'
    BY <2>1, <2>3 DEF ReturnInv, OpensOnlyWholeStreams, NeverRefusesItsOwn
  <2> QED
    BY <2>2, <2>4, <2>5, <2>6 DEF Inv
<1> QED
  BY <1>2, <1>3

LEMMA OpenSegmentInv ==
  ASSUME Inv, OpenSegment
  PROVE  Inv'
<1> DEFINE id == container.header.id
           s  == streams[id]
           n  == container.header.n
<1>1. /\ UNCHANGED <<streams, drawn, heldVars>> /\ pc = "segments"
      /\ container # None /\ env \in Environments /\ i < n
      /\ outcome = "none" /\ released = None
  BY DEF OpenSegment, Inv, CallInv
<1>2. /\ ContainerShape(container, streams) /\ n \in Nat /\ i \in Nat
      /\ container.header.form = "stream"
  <2>1. ContainerShape(container, streams)
    BY <1>1 DEF Inv, CarrierInv
  <2>2. n \in Nat
    BY <2>1 DEF ContainerShape, HeaderShape
  <2>3. i \in 0 .. n /\ container.header.form = "stream"
    BY <1>1 DEF Inv, SegmentsInv
  <2> QED
    BY <2>1, <2>2, <2>3
<1>3. container' = container /\ streams' = streams
  BY <1>1 DEF heldVars
<1>4. \* The next frame of a container as it was sealed is neither misframed
      \* nor refused.
      ASSUME NEW x \in DOMAIN streams, Complete(x), container = ContainerOf(x),
             env = streams[x].env
      PROVE  /\ ~ FrameFault(container, i + 1)
             /\ Opens(NextBlob, SegEnv(env, container.header, i))
  <2>1. \A k \in 1 .. container.header.n :
          /\ ~ FrameFault(container, k)
          /\ Opens(Slice(container.body[k]), SegEnv(streams[x].env, container.header, k - 1))
    BY <1>4, GenuineFrames DEF Inv
  <2> DEFINE k == i + 1
  <2>2. k \in 1 .. container.header.n /\ k - 1 = i
    BY <1>1, <1>2
  <2> HIDE DEF k
  <2>3. /\ ~ FrameFault(container, k)
        /\ Opens(Slice(container.body[k]), SegEnv(streams[x].env, container.header, i))
    BY <2>1, <2>2
  <2> QED
    BY <1>4, <2>3 DEF k, NextBlob
<1>5. CASE FrameFault(container, i + 1) /\ Return("malformed", None)
  BY <1>1, <1>4, <1>5, Refusal
<1>6. CASE SegmentVerdict # "opened" /\ RefuseSegment
  <2>1. badArg \in {"none", "context", "epoch", "secret"}
    BY DEF Inv, CallInv, BadArgs
  <2>2. CASE SegmentVerdict \in {"mismatch", "malformed"}
    <3>1. SegmentVerdict \in {"mismatch", "malformed"} =>
            ~ Opens(NextBlob, SegEnv(env, container.header, i))
      BY <2>1 DEF SegmentVerdict, Opens, BadArgError, LpError, EpochError, SecretError
    <3>2. Return(SegmentVerdict, None)
      BY <1>6 DEF RefuseSegment
    <3> QED
      BY <1>1, <1>4, <2>2, <3>1, <3>2, Refusal
  <2>3. CASE SegmentVerdict \in {"SCEError", "OverflowError"}
    <3>1. Return(SegmentVerdict, None)
      BY <1>6 DEF RefuseSegment
    <3>2. StreamsInv' /\ SaltsInv' /\ CarrierInv'
      BY <1>1, HistoryKept, CarrierKept DEF Inv, StreamsInv
    <3>3. CallInv' /\ SegmentsInv' /\ ReturnInv'
      BY <2>3, <3>1, EarlyReturn
    <3> QED
      BY <3>2, <3>3 DEF Inv
  <2>4. SegmentVerdict \in {"opened", "mismatch", "malformed", "SCEError", "OverflowError"}
    BY <2>1 DEF SegmentVerdict, BadArgError, LpError, EpochError, SecretError
  <2> QED
    BY <1>6, <2>2, <2>3, <2>4
<1>7. CASE /\ ~ FrameFault(container, i + 1) /\ SegmentVerdict = "opened"
           /\ plain' = plain \o NextBlob.ct.plain
           /\ assembled' = assembled + Len(NextBlob.ct.plain)
           /\ i' = i + 1
           /\ UNCHANGED <<pc, badArg, env, outcome, released>>
  <2>1. badArg = "none" /\ Opens(NextBlob, SegEnv(env, container.header, i))
    <3>1. badArg \in {"none", "context", "epoch", "secret"}
      BY DEF Inv, CallInv, BadArgs
    <3> QED
      BY <1>7, <3>1 DEF SegmentVerdict, BadArgError, LpError, EpochError, SecretError
  <2>2. i + 1 \in DOMAIN container.body /\ i + 1 - 1 = i
    BY <1>2, <1>7 DEF FrameFault
  <2>3. /\ id \in DOMAIN streams /\ container.header = HeaderOf(s, id) /\ env = s.env
        /\ i + 1 \in DOMAIN s.envelopes
        /\ container.body[i + 1] = Frame(s.envelopes[i + 1])
        /\ NextBlob.ct.plain = Segment(s.state, s.size, i)
    <3>1. Opens(Slice(container.body[i + 1]), SegEnv(env, container.header, i + 1 - 1))
      BY <2>1, <2>2 DEF NextBlob
    <3> QED
      BY <1>1, <1>2, <2>2, <3>1, OpenedFrame DEF Inv, NextBlob
  <2>4. /\ s.state \in Seq(Byte) /\ s.size \in Nat \ {0}
        /\ i + 1 <= Len(s.envelopes) /\ n = NumSegments(Len(s.state), s.size)
        /\ i + 1 <= Len(container.body)
    <3>1. DOMAIN container.body = 1 .. Len(container.body)
      BY <1>2, IsSeqLen DEF ContainerShape
    <3>2. /\ s.state \in Seq(Byte) /\ s.size \in Nat \ {0}
          /\ HeaderOf(s, id).n = NumSegments(Len(s.state), s.size)
          /\ DOMAIN s.envelopes = 1 .. Len(s.envelopes)
      <4>0. StreamsInv
        BY Zenon DEF Inv
      <4> HIDE DEF id
      <4>1. StreamsInv /\ id \in DOMAIN streams
        BY <2>3, <4>0
      <4> QED
        BY <4>1, StreamTypes, Zenon
    <3> QED
      BY <2>2, <2>3, <3>1, <3>2
  <2> DEFINE seg == Segment(s.state, s.size, i)
             upTo(k) == SubSeq(s.state, 1, Hi(Len(s.state), s.size, k))
  <2>5. /\ seg \in Seq(Byte) /\ Len(seg) \in Nat
        /\ i = 0 => seg = upTo(i)
        /\ i > 0 => upTo(i - 1) \o seg = upTo(i)
    BY <1>1, <1>2, <2>4, SegmentJoins
  <2>6. plain \in Seq(Byte) /\ plain' = upTo(i) /\ assembled' = Len(plain')
    <3>1. assembled = Len(plain)
      BY <1>1 DEF Inv, SegmentsInv
    <3>2. plain' = plain \o seg /\ assembled' = assembled + Len(seg)
      BY <1>7, <2>3
    <3>3. CASE i = 0
      <4>1. plain = <<>>
        BY <1>1, <3>3 DEF Inv, SegmentsInv
      <4> HIDE DEF seg, upTo
      <4>2. plain \in Seq(Byte) /\ plain \o seg = seg /\ Len(plain) = 0
        BY <2>5, <4>1, EmptySeq, ConcatEmptySeq
      <4> QED
        BY <2>5, <3>1, <3>2, <3>3, <4>2
    <3>4. CASE i > 0
      <4>1. plain = upTo(i - 1)
        BY <1>1, <3>4 DEF Inv, SegmentsInv, OpenedSoFar
      <4>2. upTo(i - 1) \in Seq(Byte)
        <5>1. i - 1 \in Nat
          BY <1>2, <3>4
        <5> QED
          BY <2>4, <5>1, PrefixType
      <4> HIDE DEF seg, upTo
      <4>3. Len(plain \o seg) = Len(plain) + Len(seg)
        BY <2>5, <4>1, <4>2, ConcatProperties
      <4>4. plain' = upTo(i)
        BY <2>5, <3>2, <3>4, <4>1
      <4> QED
        BY <3>1, <3>2, <4>1, <4>2, <4>3, <4>4
    <3> QED
      BY <1>2, <3>3, <3>4
  <2>7. \A k \in 1 .. i + 1 : container.body[k] = Frame(s.envelopes[k])
    <3>1. \A k \in 1 .. i + 1 : k \in 1 .. i \/ k = i + 1
      BY <1>2
    <3>2. \A k \in 1 .. i : container.body[k] = Frame(s.envelopes[k])
      <4>1. CASE i = 0
        BY <4>1
      <4>2. CASE i > 0
        BY <1>1, <4>2 DEF Inv, SegmentsInv, OpenedSoFar
      <4> QED
        BY <1>2, <4>1, <4>2
    <3> QED
      BY <2>3, <3>1, <3>2
  <2>8. OpenedSoFar'
    <3>1. i' = i + 1 /\ i' - 1 = i /\ env' = env
      BY <1>2, <1>7
    <3> HIDE DEF upTo
    <3>2. plain' = upTo(i' - 1)
      BY <2>6, <3>1
    <3>a. container' = container /\ streams' = streams
      BY <1>3
    <3>3. /\ container'.header.id = id /\ streams'[container'.header.id] = s
          /\ container'.header = container.header /\ container'.body = container.body
          /\ DOMAIN streams' = DOMAIN streams
      BY <3>a
    <3> HIDE DEF s
    <3> QED
      BY <2>3, <2>4, <2>7, <3>1, <3>2, <3>3, SMTT(20) DEF OpenedSoFar, upTo
  <2>9. SegmentsInv'
    <3>1. i + 1 \in 0 .. n /\ i + 1 # 0
      BY <1>1, <1>2
    <3>2. container.header.n # 0
      BY <1>1 DEF Inv, SegmentsInv
    <3> QED
      BY <1>2, <1>3, <1>7, <2>1, <2>6, <2>8, <3>1, <3>2 DEF SegmentsInv
  <2>10. StreamsInv' /\ SaltsInv' /\ CarrierInv'
    BY <1>1, HistoryKept, CarrierKept DEF Inv, StreamsInv
  <2>11. CallInv'
    BY <1>1, <1>3, <1>7 DEF Inv, CallInv
  <2>12. ReturnInv'
    BY <1>1, <1>7 DEF ReturnInv, OpensOnlyWholeStreams, NeverRefusesItsOwn
  <2> QED
    BY <2>9, <2>10, <2>11, <2>12 DEF Inv
<1> QED
  BY <1>5, <1>6, <1>7 DEF OpenSegment

\* Once every declared segment has opened, the whole state has: its length is
\* the header's, and the container is the stream's if nothing follows.
LEMMA AllOpened ==
  ASSUME Inv, pc = "segments", i = container.header.n
  PROVE  LET id == container.header.id
         IN  /\ assembled = container.header.total
             /\ id \in DOMAIN streams /\ Complete(id) /\ env = streams[id].env
             /\ plain = streams[id].state
             /\ badArg = "none"
             /\ ~ Trailing => container = ContainerOf(id)
<1> DEFINE id == container.header.id
           s  == streams[id]
<1>1. ContainerShape(container, streams)
  BY DEF Inv, CallInv, CarrierInv
<1>2. i \in Nat /\ i > 0
  <2>1. container.header.n \in Nat /\ container.header.n # 0
    BY <1>1 DEF ContainerShape, HeaderShape, Inv, SegmentsInv
  <2> QED
    BY <2>1
<1>3. OpenedSoFar /\ badArg = "none" /\ assembled = Len(plain)
  BY <1>2 DEF Inv, SegmentsInv
<1>4. /\ id \in DOMAIN streams /\ container.header = HeaderOf(s, id) /\ env = s.env
      /\ i <= Len(s.envelopes) /\ i <= Len(container.body)
      /\ \A k \in 1 .. i : container.body[k] = Frame(s.envelopes[k])
      /\ plain = SubSeq(s.state, 1, Hi(Len(s.state), s.size, i - 1))
  BY <1>3 DEF OpenedSoFar
<1>5. /\ s.state \in Seq(Byte) /\ s.size \in Nat \ {0}
      /\ i = NumSegments(Len(s.state), s.size)
      /\ Len(s.envelopes) \in 0 .. i
  BY <1>4, StreamTypes DEF Inv
<1>6. plain = s.state
  BY <1>4, <1>5, SegmentsReachTheEnd
<1>7. container.header.total = Len(s.state)
  BY <1>4 DEF HeaderOf
<1>8. Complete(id)
  <2>1. Len(s.envelopes) = i
    BY <1>2, <1>4, <1>5
  <2>2. Header(id) = HeaderOf(s, id)
    BY <1>4, HeaderIs DEF Inv
  <2>3. Header(id).n = i
    BY <1>4, <2>2
  <2> QED
    BY <2>1, <2>3 DEF Complete
<1>9. ASSUME ~ Trailing PROVE container = ContainerOf(id)
  <2>1. container.tail \in Nat /\ IsSeq(container.body) /\ Len(container.body) \in Nat
    BY <1>1, IsSeqLen DEF ContainerShape
  <2>2. container.tail = 0 /\ Len(container.body) = i
    BY <1>2, <1>4, <1>9, <2>1 DEF Trailing
  <2> DEFINE c == ContainerOf(id)
  <2>3. /\ c.header = HeaderOf(s, id) /\ c.tail = 0
        /\ IsSeq(c.body) /\ Len(c.body) = Len(s.envelopes)
        /\ DOMAIN c.body = DOMAIN s.envelopes
        /\ \A m \in DOMAIN s.envelopes : c.body[m] = Frame(s.envelopes[m])
    BY <1>4, ContainerParts DEF Inv
  <2>4. Len(s.envelopes) = i /\ DOMAIN s.envelopes = 1 .. i
    <3>1. Len(s.envelopes) = i
      BY <1>2, <1>4, <1>5
    <3>2. DOMAIN s.envelopes = 1 .. Len(s.envelopes)
      BY <1>4, StreamTypes, Zenon DEF Inv
    <3> QED
      BY <3>1, <3>2
  <2>5. c = [header |-> c.header, body |-> c.body, tail |-> c.tail]
    BY DEF ContainerOf
  <2> HIDE DEF c, s
  <2>6. container.body = c.body
    BY <1>4, <2>1, <2>2, <2>3, <2>4, IsSeqEqual
  <2>7. container = [header |-> container.header, body |-> container.body,
                     tail |-> container.tail]
    BY <1>1 DEF ContainerShape
  <2>8. container = c
    BY <1>4, <2>2, <2>3, <2>5, <2>6, <2>7
  <2> QED
    BY <2>8 DEF c
<1> QED
  BY <1>3, <1>4, <1>6, <1>7, <1>8, <1>9

LEMMA FinishStreamInv ==
  ASSUME Inv, FinishStream
  PROVE  Inv'
<1> DEFINE id == container.header.id
<1>1. /\ UNCHANGED <<streams, drawn, heldVars>> /\ pc = "segments" /\ i = container.header.n
  BY DEF FinishStream
<1>2. /\ assembled = container.header.total
      /\ id \in DOMAIN streams /\ Complete(id) /\ env = streams[id].env
      /\ plain = streams[id].state
      /\ ~ Trailing => container = ContainerOf(id)
  BY <1>1, AllOpened
<1>3. CASE Trailing
  <2>1. Return("malformed", None)
    BY <1>3 DEF FinishStream
  <2>2. ASSUME NEW x \in DOMAIN streams, Complete(x), container = ContainerOf(x)
        PROVE  FALSE
    <3>1. Len(container.body) = container.header.n /\ container.tail = 0
      BY <2>2, GenuineFrames DEF Inv
    <3>2. container.header.n \in Nat
      BY <1>1 DEF Inv, CallInv, CarrierInv, ContainerShape, HeaderShape
    <3> QED
      BY <1>1, <1>3, <3>1, <3>2 DEF Trailing
  <2> QED
    BY <1>1, <2>1, <2>2, Refusal
<1>4. CASE ~ Trailing
  <2>1. Return("opened", plain)
    BY <1>2, <1>4 DEF FinishStream
  <2>2. StreamsInv' /\ SaltsInv' /\ CarrierInv'
    BY <1>1, HistoryKept, CarrierKept DEF Inv, StreamsInv
  <2>3. CallInv' /\ SegmentsInv'
    BY <2>1 DEF Inv, Return, CallInv, SegmentsInv
  <2>4. /\ streams' = streams /\ container' = container /\ env' = env
        /\ outcome' = "opened" /\ released' = plain
    BY <1>1, <2>1 DEF Return, heldVars
  <2>5. Complete(id)' /\ container' = ContainerOf(id)'
    BY <1>2, <1>4, <2>4 DEF Complete, ContainerOf, Header
  <2>6. ReturnInv'
    BY <1>2, <2>4, <2>5 DEF ReturnInv, OpensOnlyWholeStreams, NeverRefusesItsOwn
  <2> QED
    BY <2>2, <2>3, <2>6 DEF Inv
<1> QED
  BY <1>3, <1>4

LEMMA NextInv == Inv /\ [Next]_vars => Inv'
<1> SUFFICES ASSUME Inv, [Next]_vars PROVE Inv'
  OBVIOUS
<1>1. drawn \in Nat /\ drawn <= drawn
  BY DEF Inv, StreamsInv
<1>2. ASSUME UNCHANGED <<streams, drawn, heldVars>>
      PROVE  StreamsInv' /\ SaltsInv' /\ CarrierInv'
  BY <1>1, <1>2, HistoryKept, CarrierKept
<1>3. CASE SealChunkedRejected \/ UnsealChunkedRejected
  BY <1>2, <1>3, EarlyReturn DEF SealChunkedRejected, UnsealChunkedRejected, Inv
<1>4. CASE SealDone
  BY <1>2, <1>4, EarlyReturn DEF SealDone, Inv
<1>5. ASSUME NEW e \in Environments, NEW bad \in BadArgs, UnsealChunked(e, bad)
      PROVE  Inv'
  <2>1. StreamsInv' /\ SaltsInv' /\ CarrierInv'
    BY <1>2, <1>5 DEF UnsealChunked
  <2>2. CallInv'
    BY <1>5 DEF UnsealChunked, Idle, heldVars, Inv, CallInv
  <2>3. outcome' = "none" /\ released' = None /\ pc' # "segments"
    BY <1>5 DEF UnsealChunked, Idle, Inv, CallInv
  <2> QED
    BY <2>1, <2>2, <2>3, NoCall DEF Inv
<1>6. CASE TakeResult
  <2>1. StreamsInv' /\ SaltsInv'
    BY <1>1, <1>6, HistoryKept DEF TakeResult
  <2>2. CarrierInv' /\ CallInv'
    BY <1>6, BoundsAssumption DEF TakeResult, CarrierInv, Inv, CallInv, BadArgs
  <2>3. SegmentsInv' /\ ReturnInv'
    BY <1>6, NoCall DEF TakeResult
  <2> QED
    BY <2>1, <2>2, <2>3 DEF Inv
<1>7. CASE UNCHANGED vars
  <2>1. /\ UNCHANGED <<streams, drawn, heldVars>> /\ pc' = pc /\ badArg' = badArg /\ env' = env
        /\ i' = i /\ plain' = plain /\ assembled' = assembled
        /\ outcome' = outcome /\ released' = released
        /\ streams' = streams /\ container' = container
    BY <1>7 DEF vars, callVars, heldVars
  <2>2. StreamsInv' /\ SaltsInv' /\ CarrierInv'
    BY <1>2, <2>1
  <2>3. CallInv'
    BY <2>1 DEF Inv, CallInv
  <2>4. SegmentsInv'
    BY <2>1 DEF Inv, SegmentsInv, OpenedSoFar
  <2>5. ReturnInv'
    BY <2>1 DEF Inv, ReturnInv, OpensOnlyWholeStreams, NeverRefusesItsOwn, Complete,
                ContainerOf, Header
  <2> QED
    BY <2>2, <2>3, <2>4, <2>5 DEF Inv
<1> QED
  BY <1>3, <1>4, <1>5, <1>6, <1>7, SealChunkedInv, SealSegmentInv, CarrierStepInv,
     ParseStreamHeaderInv, OpenSegmentInv, FinishStreamInv DEF Next, Running

\* Inv holds of every reachable state.
THEOREM Invariance == Spec => []Inv
BY InitInv, NextInv, PTL DEF Spec
-------------------------------------------------------------------------------
(***************************************************************************)
(* The properties.                                                         *)
(***************************************************************************)
LEMMA InvTypeOK == Inv => TypeOK
<1> SUFFICES ASSUME Inv PROVE TypeOK
  OBVIOUS
<1>1. ASSUME NEW id \in DOMAIN streams
      PROVE  /\ streams[id].env \in Environments /\ streams[id].state \in States
             /\ streams[id].size \in SegmentSizes
             /\ Len(streams[id].envelopes) \in 0 .. Header(id).n
  <2>1. StreamShape(streams[id], id)
    BY DEF Inv, StreamsInv
  <2>2. Len(streams[id].envelopes) \in 0 .. HeaderOf(streams[id], id).n
    BY StreamTypes DEF Inv
  <2> QED
    BY <2>1, <2>2, HeaderIs DEF StreamShape
<1>2. drawn \in Nat /\ edits \in 0 .. MaxEdits
  BY DEF Inv, StreamsInv, CarrierInv
<1>3. i \in Nat /\ assembled \in Nat /\ plain \in Seq(Byte)
  <2>1. CASE pc # "segments"
    BY <2>1, EmptySeq DEF Inv, CallInv
  <2>2. CASE pc = "segments"
    <3>1. ContainerShape(container, streams)
      BY <2>2 DEF Inv, CallInv, CarrierInv
    <3>2. container.header.n \in Nat
      BY <3>1 DEF ContainerShape, HeaderShape
    <3>3. i \in 0 .. container.header.n /\ assembled = Len(plain)
      BY <2>2 DEF Inv, SegmentsInv
    <3>4. i \in Nat
      BY <3>2, <3>3
    <3>5. plain \in Seq(Byte)
      <4>1. CASE i = 0
        BY <2>2, <4>1, EmptySeq DEF Inv, SegmentsInv
      <4>2. CASE i > 0
        <5> DEFINE s == streams[container.header.id]
        <5>1. /\ container.header.id \in DOMAIN streams
              /\ plain = SubSeq(s.state, 1, Hi(Len(s.state), s.size, i - 1))
          BY <2>2, <4>2 DEF Inv, SegmentsInv, OpenedSoFar
        <5>2. s.state \in Seq(Byte) /\ s.size \in Nat \ {0}
          BY <5>1, StreamTypes DEF Inv
        <5>3. i - 1 \in Nat
          BY <3>4, <4>2
        <5> QED
          BY <5>1, <5>2, <5>3, PrefixType
      <4> QED
        BY <3>4, <4>1, <4>2
    <3> QED
      BY <3>3, <3>4, <3>5, LenProperties
  <2> QED
    BY <2>1, <2>2
<1>4. /\ pc \in {"idle", "sealing", "header", "segments", "returned"} /\ badArg \in BadArgs
      /\ env \in Environments \cup {None}
      /\ outcome \in {"none", "sealed", "opened", "mismatch", "malformed",
                     "SCEError", "OverflowError"}
  BY DEF Inv, CallInv, ReturnInv
<1> QED
  BY <1>1, <1>2, <1>3, <1>4 DEF TypeOK

\* Every variable has its type, in particular every stream at most the segments
\* its header declares.
THEOREM TypeCorrect == Spec => []TypeOK
BY InvTypeOK, Invariance, PTL

\* Whatever the carrier does to it, a container opens only if it is, header and
\* frames, one seal_state_chunked returned, in its own environment, and then to
\* its own state.
THEOREM WholeStreamsOnly == Spec => []OpensOnlyWholeStreams
<1>1. Inv => OpensOnlyWholeStreams
  BY DEF Inv, ReturnInv
<1> QED
  BY <1>1, Invariance, PTL

\* A container that comes back as it was sealed is refused neither by the header
\* checks, nor by the framing, nor by a segment, nor at its end.
THEOREM AcceptsItsOwn == Spec => []NeverRefusesItsOwn
<1>1. Inv => NeverRefusesItsOwn
  BY DEF Inv, ReturnInv
<1> QED
  BY <1>1, Invariance, PTL

\* Between two segments, what has been accepted is the beginning of one stream.
THEOREM PrefixGenuine == Spec => []AcceptedPrefixIsGenuine
<1>1. Inv => AcceptedPrefixIsGenuine
  <2> SUFFICES ASSUME Inv, pc = "segments", i > 0
               PROVE  AcceptedPrefixIsGenuine
    BY DEF AcceptedPrefixIsGenuine
  <2> DEFINE id == container.header.id
             s  == streams[id]
  <2>1. OpenedSoFar /\ ContainerShape(container, streams)
    BY DEF Inv, SegmentsInv, CallInv, CarrierInv
  <2>2. /\ id \in DOMAIN streams /\ container.header = HeaderOf(s, id) /\ env = s.env
        /\ i <= Len(s.envelopes)
        /\ \A k \in 1 .. i : container.body[k] = Frame(s.envelopes[k])
        /\ plain = SubSeq(s.state, 1, Hi(Len(s.state), s.size, i - 1))
    BY <2>1 DEF OpenedSoFar
  <2>3. container.header.total = Len(s.state) /\ container.header.size = s.size
    BY <2>2 DEF HeaderOf
  <2>4. container.header = Header(id)
    BY <2>2, HeaderIs
  <2>5. \A k \in 1 .. i : container.body[k] = ContainerOf(id).body[k]
    <3>1. i \in 0 .. container.header.n /\ container.header.n \in Nat
      BY <2>1 DEF Inv, SegmentsInv, ContainerShape, HeaderShape
    <3>2. /\ DOMAIN s.envelopes = 1 .. Len(s.envelopes) /\ Len(s.envelopes) \in Nat
          /\ \A m \in DOMAIN s.envelopes : ContainerOf(id).body[m] = Frame(s.envelopes[m])
      BY <2>2, StreamTypes, ContainerParts DEF Inv
    <3>3. \A k \in 1 .. i : k \in DOMAIN s.envelopes
      BY <2>2, <3>1, <3>2
    <3> QED
      BY <2>2, <3>2, <3>3
  <2> QED
    BY <2>2, <2>3, <2>4, <2>5 DEF AcceptedPrefixIsGenuine
<1> QED
  BY <1>1, Invariance, PTL

\* The source's last comparison, of the assembled length with the header's total,
\* never fails: the segment contexts have excluded it.
THEOREM LengthMatches == Spec => []AssembledMatchesHeader
<1>1. Inv => AssembledMatchesHeader
  BY AllOpened DEF AssembledMatchesHeader
<1> QED
  BY <1>1, Invariance, PTL

\* No two segments, of one stream or of several, share a nonce, a salt or a
\* commitment.
THEOREM SegmentsUnlinkable == Spec => []SegmentsShareNoField
<1>1. Inv => SegmentsShareNoField
  <2> SUFFICES ASSUME Inv,
                      NEW x \in DOMAIN streams, NEW y \in DOMAIN streams,
                      NEW j \in DOMAIN streams[x].envelopes,
                      NEW k \in DOMAIN streams[y].envelopes, <<x, j>> # <<y, k>>
               PROVE  LET a == streams[x].envelopes[j]
                          b == streams[y].envelopes[k]
                      IN  /\ a.prefix.nonce # b.prefix.nonce
                          /\ a.prefix.salt # b.prefix.salt
                          /\ a.prefix.commitment # b.prefix.commitment
    BY DEF SegmentsShareNoField
  <2> DEFINE a == streams[x].envelopes[j]
             b == streams[y].envelopes[k]
  <2>1. a.prefix.salt # b.prefix.salt
    BY DEF Inv, SaltsInv
  <2>2. ASSUME NEW z \in DOMAIN streams, NEW m \in DOMAIN streams[z].envelopes
        PROVE  LET d == streams[z].envelopes[m]
                   e == SegEnv(streams[z].env, HeaderOf(streams[z], z), m - 1)
               IN  /\ d.prefix.nonce = d.prefix.salt /\ IsEnv(e)
                   /\ d.prefix.commitment = DeriveKeyMaterial(e, d.prefix.salt).commitment
    <3>1. StreamShape(streams[z], z) /\ m \in 1 .. HeaderOf(streams[z], z).n
      BY StreamTypes DEF Inv, StreamsInv
    <3>2. streams[z].env \in Environments
      BY <3>1 DEF StreamShape
    <3> QED
      BY <3>1, <3>2, SaltDrawn, SealedFields, SegEnvFields DEF Inv
  <2>3. a.prefix.nonce # b.prefix.nonce
    BY <2>1, <2>2
  <2> DEFINE e == SegEnv(streams[x].env, HeaderOf(streams[x], x), j - 1)
             f == SegEnv(streams[y].env, HeaderOf(streams[y], y), k - 1)
  <2>4. /\ a.prefix.commitment = DeriveKeyMaterial(e, a.prefix.salt).commitment
        /\ b.prefix.commitment = DeriveKeyMaterial(f, b.prefix.salt).commitment
        /\ IsEnv(e) /\ IsEnv(f)
    BY <2>2
  <2> HIDE DEF a, b, e, f
  <2>5. a.prefix.commitment # b.prefix.commitment
    BY <2>1, <2>4, KeyBinding
  <2> QED
    BY <2>1, <2>3, <2>5 DEF a, b
<1> QED
  BY <1>1, Invariance, PTL
-------------------------------------------------------------------------------
(***************************************************************************)
(* seal_state_chunked and unseal_state_chunked implement SealedStore, for  *)
(* every value of the constants.  The segment that completes a stream is   *)
(* the Put of its whole state, an unseal_state_chunked that gets past its  *)
(* own argument checks is an Ask, the statement it returns at, whichever   *)
(* turn of the loop that is in, is the Answer, and the caller's taking the *)
(* result is the Forget; every other step stutters.                        *)
(***************************************************************************)

\* The abstract variables, as Stream maps them.
storeBar   == {ItemOf(id) : id \in Sealed}
requestBar == IF env = None THEN None ELSE [item |-> Asked, env |-> env]
answerBar  == IF pc = "returned" /\ env # None
                THEN [opened |-> outcome = "opened", state |-> released]
                ELSE None

Granted == Asked # None /\ Asked.env = env

\* A call with valid arguments ends in a verdict on the container, and only such
\* a call opens one.
AnswerInv ==
  pc = "returned" /\ env # None =>
    /\ outcome = "opened" => badArg = "none"
    /\ badArg = "none" => outcome \in {"opened", "mismatch", "malformed"}

\* At its return, a call has answered as the store would.
AnswerIsRight ==
  pc = "returned" /\ env # None =>
    /\ Granted => outcome = "opened" /\ released = Asked.state
    /\ ~ Granted => outcome # "opened" /\ released = None
-------------------------------------------------------------------------------
LEMMA NextAnswerInv == Inv /\ AnswerInv /\ [Next]_vars => AnswerInv'
<1> SUFFICES ASSUME Inv, AnswerInv, [Next]_vars
             PROVE  AnswerInv'
  OBVIOUS
<1>1. CASE \/ SealChunkedRejected \/ UnsealChunkedRejected \/ SealSegment \/ SealDone
  <2>1. env = None
    BY <1>1 DEF SealChunkedRejected, UnsealChunkedRejected, SealSegment, SealDone, Idle,
                Inv, CallInv
  <2>2. env' = env
    BY <1>1 DEF SealChunkedRejected, UnsealChunkedRejected, SealSegment, SealDone, Return,
                callVars
  <2> QED
    BY <2>1, <2>2 DEF AnswerInv
<1>2. ASSUME \/ \E e \in Environments, state \in States, size \in SegmentSizes, bad \in BadArgs :
                  SealChunked(e, state, size, bad)
             \/ \E e \in Environments, bad \in BadArgs : UnsealChunked(e, bad)
             \/ \E id \in DOMAIN streams : Fetch(id)
             \/ Rearrange
             \/ TakeResult
      PROVE  AnswerInv'
  <2>1. ASSUME Rearrange PROVE pc' # "returned"
    BY <2>1, RearrangeShape DEF Inv, Idle, callVars
  <2>2. pc' # "returned"
    BY <1>2, <2>1 DEF SealChunked, UnsealChunked, Fetch, TakeResult, Idle, callVars
  <2> QED
    BY <2>2 DEF AnswerInv
<1>3. CASE ParseStreamHeader
  <2>1. pc' # "returned" \/ outcome' = "malformed"
    BY <1>3 DEF ParseStreamHeader, Return
  <2> QED
    BY <2>1 DEF AnswerInv
<1>4. CASE OpenSegment
  <2>1. CASE Return("malformed", None)
    BY <2>1 DEF AnswerInv, Return
  <2>2. CASE SegmentVerdict # "opened" /\ RefuseSegment
    <3>1. badArg = "none" => SegmentVerdict \in {"malformed", "mismatch"}
      BY <2>2 DEF SegmentVerdict
    <3>2. badArg' = badArg /\ outcome' = SegmentVerdict
      BY <2>2 DEF RefuseSegment, Return
    <3> QED
      BY <2>2, <3>1, <3>2 DEF AnswerInv
  <2>3. CASE UNCHANGED pc
    BY <1>4, <2>3 DEF OpenSegment, AnswerInv
  <2> QED
    BY <1>4, <2>1, <2>2, <2>3 DEF OpenSegment
<1>5. CASE FinishStream
  <2>1. badArg = "none"
    BY <1>5, AllOpened DEF FinishStream
  <2>2. /\ badArg' = badArg
        /\ outcome' \in {"malformed", "mismatch", "opened"}
    BY <1>5 DEF FinishStream, Return
  <2> QED
    BY <2>1, <2>2 DEF AnswerInv
<1>6. CASE UNCHANGED vars
  BY <1>6 DEF vars, callVars, AnswerInv
<1> QED
  BY <1>1, <1>2, <1>3, <1>4, <1>5, <1>6 DEF Next, Running

LEMMA InitAnswerInv == Init => AnswerInv
BY DEF Init, AnswerInv

\* A container names its stream, so what is asked for is what was sealed.
LEMMA AskedIsTheSealed ==
  ASSUME Inv, NEW id \in Sealed, container = ContainerOf(id), badArg = "none"
  PROVE  Asked = ItemOf(id)
<1> DEFINE c == CHOOSE x \in Sealed : container = ContainerOf(x)
<1>1. c \in Sealed /\ container = ContainerOf(c)
  OBVIOUS
<1> HIDE DEF c
<1>2. \A x \in Sealed : container = ContainerOf(x) => container.header.id = x
  <2> SUFFICES ASSUME NEW x \in Sealed, container = ContainerOf(x)
               PROVE  container.header.id = x
    OBVIOUS
  <2>1. ContainerOf(x).header = HeaderOf(streams[x], x)
    BY ContainerParts DEF Sealed, Inv
  <2> QED
    BY <2>1 DEF HeaderOf
<1>3. c = id
  BY <1>1, <1>2
<1> QED
  BY <1>1, <1>3 DEF Asked, c

\* What is asked for is stored, if anything.
LEMMA AskedIsStored ==
  ASSUME Inv
  PROVE  /\ Asked \in storeBar \cup {None}
         /\ storeBar \subseteq StoredItems
         /\ Asked # None =>
              badArg = "none" /\ \E id \in Sealed : container = ContainerOf(id) /\ Asked = ItemOf(id)
<1>1. storeBar \subseteq StoredItems
  <2> SUFFICES ASSUME NEW id \in Sealed PROVE ItemOf(id) \in StoredItems
    BY DEF storeBar
  <2>1. StreamShape(streams[id], id)
    BY DEF Sealed, Inv, StreamsInv
  <2> QED
    BY <2>1 DEF StreamShape, StoredItems, ItemOf
<1>2. CASE badArg = "none" /\ \E id \in Sealed : container = ContainerOf(id)
  <2>1. PICK id \in Sealed : container = ContainerOf(id)
    BY <1>2
  <2>2. Asked = ItemOf(id)
    BY <1>2, <2>1, AskedIsTheSealed
  <2> QED
    BY <1>1, <1>2, <2>1, <2>2 DEF storeBar
<1>3. CASE ~ (badArg = "none" /\ \E id \in Sealed : container = ContainerOf(id))
  <2>1. Asked = None
    BY <1>3 DEF Asked
  <2> QED
    BY <1>1, <2>1
<1> QED
  BY <1>2, <1>3

Askable == Asked \in storeBar \cup {None}

\* The same as a state predicate, to be used of the next state.
LEMMA AskableInv == Inv => Askable
BY AskedIsStored DEF Askable

\* Whatever unseal_state_chunked returns, and in whichever turn, is the store's
\* answer.
LEMMA AnswerRight == Inv /\ AnswerInv => AnswerIsRight
<1> SUFFICES ASSUME Inv, AnswerInv, pc = "returned", env # None
             PROVE  /\ Granted => outcome = "opened" /\ released = Asked.state
                    /\ ~ Granted => outcome # "opened" /\ released = None
  BY DEF AnswerIsRight
<1>1. CASE outcome = "opened"
  <2>1. badArg = "none"
    BY <1>1 DEF AnswerInv
  <2>2. PICK id \in DOMAIN streams :
          /\ Complete(id) /\ container = ContainerOf(id)
          /\ env = streams[id].env /\ released = streams[id].state
    BY <1>1 DEF Inv, ReturnInv, OpensOnlyWholeStreams
  <2>3. id \in Sealed /\ Asked = ItemOf(id)
    BY <2>1, <2>2, AskedIsTheSealed DEF Sealed
  <2>4. ItemOf(id) \in storeBar
    BY <2>3 DEF storeBar
  <2>5. Asked # None
    BY <2>3, <2>4, AskedIsStored, NoneAssumption
  <2> QED
    BY <1>1, <2>2, <2>3, <2>5 DEF Granted, ItemOf
<1>2. CASE outcome # "opened"
  <2>1. released = None
    BY <1>2 DEF Inv, ReturnInv, OpensOnlyWholeStreams
  <2>2. ASSUME Granted PROVE FALSE
    <3>1. badArg = "none"
      BY <2>2, AskedIsStored DEF Granted
    <3>2. PICK id \in Sealed : container = ContainerOf(id) /\ Asked = ItemOf(id)
      BY <2>2, AskedIsStored DEF Granted
    <3>3. env = streams[id].env /\ Complete(id) /\ id \in DOMAIN streams
      BY <2>2, <3>2 DEF Granted, ItemOf, Sealed
    <3>4. outcome \in {"mismatch", "malformed"}
      BY <1>2, <3>1 DEF AnswerInv
    <3> QED
      BY <3>2, <3>3, <3>4 DEF Inv, ReturnInv, NeverRefusesItsOwn
  <2> QED
    BY <1>2, <2>1, <2>2
<1> QED
  BY <1>1, <1>2
-------------------------------------------------------------------------------
\* A request, and an answer, is not None.
LEMMA Presence ==
  ASSUME Inv
  PROVE  /\ env # None => requestBar # None
         /\ pc = "returned" /\ env # None => answerBar # None
<1>1. env # None => env \in Environments
  BY DEF Inv, CallInv
<1>2. Asked \in StoredItems \cup {None}
  BY AskedIsStored
<1>3. released \in States \cup {None}
  <2>1. CASE outcome = "opened"
    BY <2>1 DEF Inv, ReturnInv, OpensOnlyWholeStreams, StreamsInv, StreamShape
  <2>2. CASE outcome # "opened"
    BY <2>2 DEF Inv, ReturnInv, OpensOnlyWholeStreams
  <2> QED
    BY <2>1, <2>2
<1>4. ASSUME env # None PROVE requestBar # None
  <2>1. [item |-> Asked, env |-> env] \in [item : StoredItems \cup {None}, env : Environments]
    BY <1>1, <1>2, <1>4
  <2> QED
    BY <1>4, <2>1, NoneAssumption DEF requestBar
<1>5. ASSUME pc = "returned", env # None PROVE answerBar # None
  <2> DEFINE ok == outcome = "opened"
  <2>1. ok \in BOOLEAN
    OBVIOUS
  <2>2. answerBar = [opened |-> ok, state |-> released]
    BY <1>5 DEF answerBar
  <2> HIDE DEF ok
  <2>3. [opened |-> ok, state |-> released] \in [opened : BOOLEAN, state : States \cup {None}]
    BY <1>3, <2>1
  <2> QED
    BY <2>2, <2>3, NoneAssumption
<1> QED
  BY <1>4, <1>5

\* Initial states map to the abstract initial state.
LEMMA InitStore == Init => Store!Init
BY DEF Init, Store!Init, Sealed

\* What the store holds, and what is asked, depend on these variables only.
LEMMA SameStore ==
  ASSUME UNCHANGED streams
  PROVE  /\ storeBar' = storeBar
         /\ UNCHANGED <<container, badArg>> => Asked' = Asked
<1>1. Sealed' = Sealed
  BY DEF Sealed, Complete, Header
<1>2. \A id : ItemOf(id)' = ItemOf(id) /\ ContainerOf(id)' = ContainerOf(id)
  BY DEF ItemOf, ContainerOf, Header
<1>3. storeBar' = storeBar
  BY <1>1, <1>2 DEF storeBar
<1>4. UNCHANGED <<container, badArg>> => Asked' = Asked
  BY <1>1, <1>2 DEF Asked
<1> QED
  BY <1>3, <1>4

\* With no question open before or after, the store stutters.
LEMMA NoQuestion ==
  ASSUME UNCHANGED streams, env = None, env' = None
  PROVE  UNCHANGED Store!vars
<1>1. requestBar = None /\ answerBar = None /\ requestBar' = None /\ answerBar' = None
  BY DEF requestBar, answerBar
<1>2. storeBar' = storeBar
  BY SameStore
<1> QED
  BY <1>1, <1>2 DEF Store!vars, storeBar, requestBar, answerBar

\* A turn of unseal_state_chunked that goes on stutters.
LEMMA GoesOn ==
  ASSUME UNCHANGED <<streams, container, badArg, env>>, pc # "returned", pc' # "returned"
  PROVE  UNCHANGED Store!vars
<1>1. answerBar = None /\ answerBar' = None
  BY DEF answerBar
<1>2. requestBar' = requestBar /\ storeBar' = storeBar
  BY SameStore DEF requestBar
<1> QED
  BY <1>1, <1>2 DEF Store!vars, storeBar, requestBar, answerBar

\* A call that ends while a question is open answers it.
LEMMA Answers ==
  ASSUME Inv, Inv', AnswerInv', pc # "returned", pc' = "returned", env # None,
         UNCHANGED <<streams, container, badArg, env>>
  PROVE  Store!Answer
<1>1. storeBar' = storeBar /\ Asked' = Asked /\ env' = env
  BY SameStore
<1>2. requestBar' = requestBar
  BY <1>1 DEF requestBar
<1>3. AnswerIsRight'
  BY AnswerRight, PTL
<1>4. Granted' = Granted
  BY <1>1 DEF Granted
<1>5. answerBar = None /\ requestBar # None
  BY Presence DEF answerBar
<1>6. answerBar' = [opened |-> outcome' = "opened", state |-> released']
  BY <1>1 DEF answerBar
<1>7. answerBar' = IF Granted THEN [opened |-> TRUE, state |-> Asked.state]
                   ELSE [opened |-> FALSE, state |-> None]
  BY <1>1, <1>3, <1>4, <1>6 DEF AnswerIsRight
<1> QED
  BY <1>1, <1>2, <1>5, <1>7
     DEF Store!Answer, Store!Grants, storeBar, requestBar, answerBar, Granted
-------------------------------------------------------------------------------
\* Working on one stream that is not complete changes what is stored only by it.
LEMMA StoreGrows ==
  ASSUME NEW id \in DOMAIN streams', id \notin Sealed,
         DOMAIN streams' = DOMAIN streams \cup {id},
         \A y \in DOMAIN streams : y # id => streams'[y] = streams[y]
  PROVE  /\ Complete(id)' => storeBar' = storeBar \cup {ItemOf(id)'}
         /\ ~ Complete(id)' => storeBar' = storeBar
<1>1. ASSUME NEW y, y # id
      PROVE  /\ y \in Sealed <=> y \in Sealed'
             /\ y \in Sealed => ItemOf(y)' = ItemOf(y)
  <2>1. ASSUME y \in DOMAIN streams
        PROVE  (Complete(y)' <=> Complete(y)) /\ ItemOf(y)' = ItemOf(y)
    BY <1>1, <2>1 DEF Complete, Header, ItemOf
  <2> QED
    BY <1>1, <2>1 DEF Sealed
<1>2. id \in Sealed' <=> Complete(id)'
  BY DEF Sealed
<1>3. Sealed' = IF Complete(id)' THEN Sealed \cup {id} ELSE Sealed
  BY <1>1, <1>2
<1>4. \A y \in Sealed : ItemOf(y)' = ItemOf(y)
  BY <1>1
<1> QED
  BY <1>3, <1>4 DEF storeBar

\* A stream just begun has a segment to seal.
LEMMA SealChunkedStutters ==
  ASSUME Inv, NEW e \in Environments, NEW state \in States, NEW size \in SegmentSizes,
         NEW bad \in BadArgs, SealChunked(e, state, size, bad)
  PROVE  UNCHANGED Store!vars
<1> DEFINE r == [env |-> e, state |-> state, size |-> size, envelopes |-> <<>>]
<1> PICK id : id = Len(streams) + 1
  OBVIOUS
<1>1. env = None /\ env' = None /\ pc # "returned" /\ pc' # "returned"
  BY DEF SealChunked, Idle, Inv, CallInv
<1>2. streams' = Append(streams, r)
  BY DEF SealChunked
<1>3. r.envelopes = <<>> /\ r.state = state /\ r.size = size
  OBVIOUS
<1> HIDE DEF r
<1>4. /\ DOMAIN streams = 1 .. Len(streams) /\ Len(streams) \in Nat
      /\ DOMAIN streams' = 1 .. Len(streams) + 1
      /\ \A y \in 1 .. Len(streams) : streams'[y] = streams[y]
      /\ streams'[Len(streams) + 1] = r
  BY <1>2, IsSeqAppend, IsSeqLen DEF Inv, StreamsInv
<1>5. /\ id \in DOMAIN streams' /\ id \notin Sealed
      /\ DOMAIN streams' = DOMAIN streams \cup {id}
      /\ \A y \in DOMAIN streams : y # id => streams'[y] = streams[y]
  BY <1>4 DEF Sealed
<1>6. ~ Complete(id)'
  <2>1. state \in Seq(Byte) /\ size \in Nat \ {0}
    BY StatesAssumption, SegmentSizesAssumption
  <2>2. NumSegments(Len(state), size) # 0
    BY <2>1, SegmentCount, LenProperties
  <2>3. Header(id)' = HeaderOf(r, id)
    BY <1>4 DEF Header, HeaderOf
  <2>4. Header(id)'.n = NumSegments(Len(state), size)
    BY <1>3, <2>3 DEF HeaderOf
  <2>5. Len(streams'[id].envelopes) = 0
    BY <1>3, <1>4, IsSeqEmpty
  <2> QED
    BY <2>2, <2>4, <2>5 DEF Complete
<1>7. storeBar' = storeBar
  BY <1>5, <1>6, StoreGrows
<1>8. requestBar = None /\ answerBar = None /\ requestBar' = None /\ answerBar' = None
  BY <1>1 DEF requestBar, answerBar
<1> QED
  BY <1>7, <1>8 DEF Store!vars, storeBar, requestBar, answerBar

\* The segment that completes a stream puts it away.
LEMMA SealSegmentPuts ==
  ASSUME Inv, SealSegment
  PROVE  Store!Next \/ UNCHANGED Store!vars
<1> PICK id : id = Len(streams)
  OBVIOUS
<1> DEFINE s == streams[id]
<1>1. env = None /\ pc = "sealing" /\ ~ Complete(id) /\ IsSeq(streams) /\ streams # <<>>
  BY DEF Inv, StreamsInv, CallInv, SealSegment
<1>2. CASE badArg # "none"
  <2>1. UNCHANGED <<streams, env>>
    BY <1>2 DEF SealSegment, Return
  <2> QED
    BY <1>1, <2>1, NoQuestion
<1>3. CASE badArg = "none"
  <2>1. id \in DOMAIN streams
    <3>1. DOMAIN streams = 1 .. id /\ id \in Nat
      BY <1>1, IsSeqLen
    <3>2. id # 0
      BY <1>1, IsSeqEmpty, IsSeqEqual
    <3> QED
      BY <3>1, <3>2
  <2>2. StreamShape(s, id)
    BY <2>1 DEF Inv, StreamsInv
  <2>3. PICK b : streams' = [streams EXCEPT ![id].envelopes = b]
    BY <1>3 DEF SealSegment
  <2> DEFINE r == [s EXCEPT !.envelopes = b]
  <2>4. streams' = [streams EXCEPT ![id] = r]
    BY <2>3
  <2>5. r.env = s.env /\ r.state = s.state
    BY <2>2 DEF StreamShape
  <2>6. env' = None /\ pc' = "sealing"
    BY <1>1, <1>3 DEF SealSegment, callVars
  <2> HIDE DEF r, s
  <2>7. /\ DOMAIN streams' = DOMAIN streams /\ streams'[id] = r
        /\ \A y \in DOMAIN streams : y # id => streams'[y] = streams[y]
    BY <1>1, <2>1, <2>4, IsSeqExcept
  <2>8. id \in DOMAIN streams' /\ id \notin Sealed /\ DOMAIN streams' = DOMAIN streams \cup {id}
    BY <1>1, <2>1, <2>7 DEF Sealed
  <2>9. /\ requestBar = None /\ answerBar = None
        /\ requestBar' = None /\ answerBar' = None
    BY <1>1, <2>6 DEF requestBar, answerBar
  <2>10. CASE Complete(id)'
    <3>1. ItemOf(id)' = [env |-> s.env, state |-> s.state]
      BY <2>5, <2>7 DEF ItemOf
    <3>2. storeBar' = storeBar \cup {[env |-> s.env, state |-> s.state]}
      BY <2>7, <2>8, <2>10, <3>1, StoreGrows
    <3>3. Store!Put(s.env, s.state)
      BY <2>9, <3>2 DEF Store!Put, storeBar, requestBar, answerBar
    <3>4. s.env \in Environments /\ s.state \in States
      BY <2>2 DEF StreamShape
    <3> QED
      BY <3>3, <3>4 DEF Store!Next
  <2>11. CASE ~ Complete(id)'
    <3>1. storeBar' = storeBar
      BY <2>7, <2>8, <2>11, StoreGrows
    <3> QED
      BY <2>9, <3>1 DEF Store!vars, storeBar, requestBar, answerBar
  <2> QED
    BY <2>10, <2>11
<1> QED
  BY <1>2, <1>3

\* Every step is a step of the store, or stutters.
LEMMA NextStore ==
  Inv /\ Inv' /\ AnswerInv /\ AnswerInv' /\ [Next]_vars => [Store!Next]_(Store!vars)
<1> SUFFICES ASSUME Inv, Inv', AnswerInv, AnswerInv', [Next]_vars
             PROVE  Store!Next \/ UNCHANGED Store!vars
  BY DEF Store!vars
<1>1. CASE SealChunkedRejected \/ UnsealChunkedRejected \/ SealDone
  <2>1. UNCHANGED <<streams, env>> /\ env = None
    BY <1>1 DEF SealChunkedRejected, UnsealChunkedRejected, SealDone, Return, Idle, Inv, CallInv
  <2> QED
    BY <2>1, NoQuestion
<1>2. ASSUME NEW e \in Environments, NEW bad \in BadArgs, UnsealChunked(e, bad)
      PROVE  Store!Next
  <2>1. env = None /\ env' = e /\ pc' = "header" /\ UNCHANGED streams
    BY <1>2 DEF UnsealChunked, Idle, Inv, CallInv
  <2>2. env' # None
    BY <2>1, NoneAssumption
  <2>3. storeBar' = storeBar
    BY <2>1, SameStore
  <2>4. (Asked \in storeBar \cup {None})'
    BY AskableInv, PTL DEF Askable
  <2>5. requestBar = None /\ requestBar' = [item |-> Asked', env |-> e]
    BY <2>1, <2>2 DEF requestBar
  <2>6. answerBar = None /\ answerBar' = None
    BY <2>1 DEF answerBar
  <2>7. Store!Ask(Asked', e)
    BY <2>3, <2>5, <2>6 DEF Store!Ask, storeBar, requestBar, answerBar
  <2> QED
    BY <2>3, <2>4, <2>7 DEF Store!Next, storeBar
<1>3. CASE ParseStreamHeader \/ OpenSegment \/ FinishStream
  <2>1. pc \in {"header", "segments"} /\ env \in Environments
    BY <1>3 DEF ParseStreamHeader, OpenSegment, FinishStream, Inv, CallInv
  <2>2. UNCHANGED <<streams, container, badArg, env>> /\ pc # "returned" /\ env # None
    <3>1. UNCHANGED <<streams, container>>
      BY <1>3 DEF ParseStreamHeader, OpenSegment, FinishStream, heldVars
    <3>2. UNCHANGED <<badArg, env>>
      BY <1>3 DEF ParseStreamHeader, OpenSegment, FinishStream, RefuseSegment, Return
    <3> QED
      BY <2>1, <3>1, <3>2, NoneAssumption
  <2>3. CASE pc' = "returned"
    BY <2>2, <2>3, Answers DEF Store!Next
  <2>4. CASE pc' # "returned"
    BY <2>2, <2>4, GoesOn
  <2> QED
    BY <2>3, <2>4
<1>4. CASE TakeResult
  <2>1. pc = "returned" /\ pc' = "idle" /\ env' = None /\ UNCHANGED streams
    BY <1>4 DEF TakeResult
  <2>2. storeBar' = storeBar /\ requestBar' = None /\ answerBar' = None
    BY <2>1, SameStore DEF requestBar, answerBar
  <2>3. CASE env = None
    BY <2>1, <2>3, NoQuestion
  <2>4. CASE env # None
    <3>1. answerBar # None
      BY <2>1, <2>4, Presence
    <3> QED
      BY <2>2, <3>1 DEF Store!Next, Store!Forget, storeBar, requestBar, answerBar
  <2> QED
    BY <2>3, <2>4
<1>5. ASSUME \/ \E id \in DOMAIN streams : Fetch(id)
             \/ Rearrange
      PROVE  UNCHANGED Store!vars
  <2>1. ASSUME Rearrange PROVE UNCHANGED <<streams, callVars>> /\ Idle
    BY <2>1, RearrangeShape DEF Inv
  <2>2. UNCHANGED <<streams, callVars>> /\ Idle
    BY <1>5, <2>1 DEF Fetch
  <2>3. UNCHANGED <<streams, env>> /\ env = None
    BY <2>2 DEF callVars, Idle, Inv, CallInv
  <2> QED
    BY <2>3, NoQuestion
<1>6. CASE UNCHANGED vars
  <2>1. UNCHANGED <<streams, container, badArg, env, pc, outcome, released>>
    BY <1>6 DEF vars, callVars, heldVars
  <2>2. storeBar' = storeBar /\ Asked' = Asked
    BY <2>1, SameStore
  <2>3. requestBar' = requestBar /\ answerBar' = answerBar
    BY <2>1, <2>2 DEF requestBar, answerBar
  <2> QED
    BY <2>2, <2>3 DEF Store!vars, storeBar, requestBar, answerBar
<1> QED
  BY <1>1, <1>2, <1>3, <1>4, <1>5, <1>6, SealChunkedStutters, SealSegmentPuts
     DEF Next, Running

\* seal_state_chunked and unseal_state_chunked implement the abstract store: a
\* stream is put away whole or not at all, and however its container is
\* rearranged a state comes back in its own environment, or not at all.
THEOREM StoreImplemented == Spec => ImplementsStore
<1>1. Spec => Store!Init /\ [][Store!Next]_(Store!vars)
  BY InitStore, NextStore, InitAnswerInv, NextAnswerInv, Invariance, PTL DEF Spec
<1> QED
  BY <1>1 DEF ImplementsStore, Store!Spec
===============================================================================
