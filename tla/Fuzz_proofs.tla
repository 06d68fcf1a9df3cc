------------------------------ MODULE Fuzz_proofs ------------------------------
(***************************************************************************)
(* The fuzz driver's properties for every byte string, width and artefact. *)
(***************************************************************************)
EXTENDS Fuzz, Wire_proofs, SequenceLemmas

-------------------------------------------------------------------------------
(***************************************************************************)
(* The artefacts.                                                          *)
(***************************************************************************)
LEMMA SegmentsBounds ==
  /\ Segments \in 1 .. MaxU64
  /\ (Segments - 1) * SegmentSize < Len(ChunkedState)
  /\ Len(ChunkedState) <= Segments * SegmentSize
<1> DEFINE L == Len(ChunkedState)
           S == SegmentSize
<1>1. L \in 1 .. MaxU64 /\ S \in Nat \ {0} /\ MaxU64 \in Nat
  BY Widths, ContainerAssumption, FuzzAssumption
<1> HIDE DEF L, S
<1>2. L + S - 1 \in Nat
  BY <1>1
<1>3. /\ Segments \in Nat /\ S * Segments <= L + S - 1 /\ L + S - 1 < S * Segments + S
  BY <1>1, <1>2, Division DEF Segments, L, S
<1>4. Segments >= 1
  BY <1>1, <1>3
<1>5. (Segments - 1) * S = S * Segments - S /\ Segments * S = S * Segments
  BY <1>1, <1>3
<1>6. Segments - 1 <= (Segments - 1) * S
  BY <1>1, <1>3, <1>4
<1> QED
  BY <1>1, <1>3, <1>4, <1>5, <1>6 DEF L, S

LEMMA SegContextType ==
  ASSUME NEW u \in ByteString, Len(u) <= MaxU32, NEW id \in Field(StreamIdLen),
         NEW j \in 0 .. MaxU64, NEW n \in 0 .. MaxU64,
         NEW t \in 0 .. MaxU64, NEW z \in 0 .. MaxU64
  PROVE  /\ SegContext(u, id, j, n, t, z) \in ByteString
         /\ Len(SegContext(u, id, j, n, t, z)) = Len(SegContext(u, id, 0, 0, 0, 0))
         /\ SegContext(u, id, j, n, t, z) # <<>>
<1>1. id \in ByteString /\ Len(id) <= MaxU32 /\ StreamDomain \in ByteString
  BY WidthsAssumption, LabelsAssumption DEF Field
<1>2. LP(u) \in ByteString /\ LP(id) \in ByteString
  BY <1>1, LpType
<1> DEFINE a == Join(Join(StreamDomain, LP(u)), LP(id))
           W(x, y) == Join(x, U64[y])
<1>3. a \in ByteString
  BY <1>1, <1>2, JoinType
<1> HIDE DEF a
<1>4. \A x \in ByteString, y \in 0 .. MaxU64 :
        W(x, y) \in ByteString /\ Len(W(x, y)) = Len(x) + U64Len /\ Len(x) \in Nat
  <2> SUFFICES ASSUME NEW x \in ByteString, NEW y \in 0 .. MaxU64
               PROVE  /\ W(x, y) \in ByteString /\ Len(W(x, y)) = Len(x) + U64Len
                      /\ Len(x) \in Nat
    OBVIOUS
  <2>1. U64[y] \in ByteString /\ Len(U64[y]) = U64Len
    BY U64Type
  <2> QED
    BY <2>1, JoinType, JoinLen
<1> HIDE DEF W
<1>5. \A p, q, v, w \in 0 .. MaxU64 :
        /\ W(W(W(W(a, p), q), v), w) \in ByteString
        /\ Len(W(W(W(W(a, p), q), v), w)) = Len(a) + U64Len + U64Len + U64Len + U64Len
  <2> SUFFICES ASSUME NEW p \in 0 .. MaxU64, NEW q \in 0 .. MaxU64,
                      NEW v \in 0 .. MaxU64, NEW w \in 0 .. MaxU64
               PROVE  /\ W(W(W(W(a, p), q), v), w) \in ByteString
                      /\ Len(W(W(W(W(a, p), q), v), w))
                           = Len(a) + U64Len + U64Len + U64Len + U64Len
    OBVIOUS
  <2>1. W(a, p) \in ByteString /\ Len(W(a, p)) = Len(a) + U64Len
    BY <1>3, <1>4
  <2>2. W(W(a, p), q) \in ByteString /\ Len(W(W(a, p), q)) = Len(a) + U64Len + U64Len
    BY <1>4, <2>1
  <2>3. /\ W(W(W(a, p), q), v) \in ByteString
        /\ Len(W(W(W(a, p), q), v)) = Len(a) + U64Len + U64Len + U64Len
    BY <1>4, <2>2
  <2> QED
    BY <1>4, <2>3
<1>6. \A p, q, v, w : SegContext(u, id, p, q, v, w) = W(W(W(W(a, p), q), v), w)
  BY DEF SegContext, W, a, Join
<1>7. 0 \in 0 .. MaxU64 /\ U64Len \in Nat \ {0} /\ Len(a) \in Nat
  BY <1>3, Widths, Cat
<1>8. SegContext(u, id, j, n, t, z) \in ByteString
  BY <1>5, <1>6
<1>9. /\ Len(SegContext(u, id, j, n, t, z)) = Len(a) + U64Len + U64Len + U64Len + U64Len
      /\ Len(SegContext(u, id, 0, 0, 0, 0)) = Len(a) + U64Len + U64Len + U64Len + U64Len
  BY <1>5, <1>6, <1>7
<1>10. Len(SegContext(u, id, j, n, t, z)) # 0
  BY <1>7, <1>9
<1>11. Len(<<>>) = 0
  OBVIOUS
<1> QED
  BY <1>8, <1>9, <1>10, <1>11

\* The k-th segment of the artefact, its context, and its frame.
Part(k)         == Slice(ChunkedState, (k - 1) * SegmentSize, k * SegmentSize)
PartContext(k)  == SegContext(<<>>, StreamId, k - 1, Segments, Len(ChunkedState), SegmentSize)
PartSeal(k)     == Seal(Part(k), Memh, 0, PartContext(k), Draw[k + 2])
PartFrame(k)    == Frame(PartSeal(k).envelope)

LEMMA Arguments ==
  /\ Memh \in ByteString /\ Memh \in Field(MemhLen) /\ StreamId \in Field(StreamIdLen)
  /\ State \in ByteString /\ Len(State) <= MaxState
  /\ Ctx \in ByteString /\ Len(Ctx) <= MaxU32
  /\ ChunkedState \in ByteString /\ Len(ChunkedState) \in 1 .. MaxU64
  /\ <<>> \in ByteString /\ Len(<<>>) = 0
  /\ 0 \in 0 .. MaxU64 /\ Epoch7 \in 0 .. MaxU64 /\ Epoch7 # 0
  /\ SegmentSize \in 1 .. MaxState /\ SegmentSize \in 0 .. MaxU64
  /\ MaxOps \in Nat
<1>1. /\ Memh \in ByteString /\ StreamId \in ByteString /\ State \in ByteString
      /\ Ctx \in ByteString /\ ChunkedState \in ByteString
  BY FuzzAssumption
<1>2. Memh \in Field(MemhLen) /\ StreamId \in Field(StreamIdLen)
  BY <1>1, FuzzAssumption DEF Field
<1>3. Len(State) <= MaxState /\ Len(Ctx) <= MaxU32
  BY FuzzAssumption DEF MaxLpField
<1>4. <<>> \in ByteString /\ Len(<<>>) = 0
  BY EmptySeq DEF ByteString
<1>5. 0 \in 0 .. MaxU64 /\ Epoch7 \in 0 .. MaxU64 /\ Epoch7 # 0
  BY FuzzAssumption, Widths
<1>6. MaxState <= MaxU32 /\ MaxU32 <= MaxU64
  BY Widths, IntegersAssumption
<1>7. SegmentSize \in 1 .. MaxState /\ SegmentSize \in 0 .. MaxU64 /\ MaxOps \in Nat
  BY <1>6, Widths, FuzzAssumption
<1>8. Len(ChunkedState) \in 1 .. MaxU64
  BY ContainerAssumption
<1> QED
  BY <1>1, <1>2, <1>3, <1>4, <1>5, <1>7, <1>8

LEMMA DrawType ==
  /\ Draw[1] \in Draws /\ Draw[2] \in Draws /\ Last(Draw) \in Draws
  /\ \A k \in 1 .. Segments : Draw[k + 2] \in Draws
<1>1. Draw \in Seq(Draws) /\ Len(Draw) >= Segments + 3 /\ Len(Draw) \in Nat
  BY DrawAssumption, LenProperties
<1>2. Segments \in Nat
  BY SegmentsBounds
<1>3. \A n \in 1 .. Len(Draw) : Draw[n] \in Draws
  BY <1>1, ElementOfSeq
<1>4. 1 \in 1 .. Len(Draw) /\ 2 \in 1 .. Len(Draw) /\ Len(Draw) \in 1 .. Len(Draw)
  BY <1>1, <1>2
<1>5. \A k \in 1 .. Segments : k + 2 \in 1 .. Len(Draw)
  BY <1>1, <1>2
<1> QED
  BY <1>3, <1>4, <1>5 DEF Last

LEMMA PartBounds ==
  ASSUME NEW k \in 1 .. Segments
  PROVE  /\ k - 1 \in Nat /\ k - 1 \in 0 .. MaxU64
         /\ (k - 1) * SegmentSize \in Nat /\ k * SegmentSize \in Nat
         /\ k * SegmentSize - (k - 1) * SegmentSize = SegmentSize
         /\ (k - 1) * SegmentSize <= k * SegmentSize
<1>1. Segments \in 1 .. MaxU64 /\ MaxU64 \in Nat /\ MaxState \in Nat
  BY SegmentsBounds, Widths
<1>2. SegmentSize \in Nat
  BY <1>1, Arguments
<1>3. k \in Nat /\ k - 1 \in Nat /\ k - 1 \in 0 .. MaxU64
  BY <1>1
<1>4. k * SegmentSize - (k - 1) * SegmentSize = SegmentSize
  BY <1>2, <1>3
<1>5. (k - 1) * SegmentSize \in Nat /\ k * SegmentSize \in Nat
  BY <1>2, <1>3
<1> QED
  BY <1>2, <1>3, <1>4, <1>5

LEMMA PartType ==
  ASSUME NEW k \in 1 .. Segments
  PROVE  Part(k) \in ByteString /\ Len(Part(k)) \in Nat /\ Len(Part(k)) <= SegmentSize
BY PartBounds, Arguments, SliceType DEF Part

LEMMA PartSealable ==
  ASSUME NEW k \in 1 .. Segments
  PROVE  Sealable(Part(k), Memh, 0, PartContext(k), Draw[k + 2])
<1>1. Part(k) \in ByteString /\ Len(Part(k)) <= MaxState
  <2>1. SegmentSize \in Nat /\ SegmentSize <= MaxState /\ MaxState \in Nat
    BY Arguments, Widths
  <2> QED
    BY <2>1, PartType
<1>2. /\ k - 1 \in 0 .. MaxU64 /\ Segments \in 0 .. MaxU64
      /\ Len(ChunkedState) \in 0 .. MaxU64 /\ SegmentSize \in 0 .. MaxU64
  BY PartBounds, SegmentsBounds, Arguments
<1>3. <<>> \in ByteString /\ Len(<<>>) <= MaxU32 /\ StreamId \in Field(StreamIdLen)
  BY Arguments, Widths
<1>4. /\ PartContext(k) \in ByteString
      /\ Len(PartContext(k)) = Len(SegContext(<<>>, StreamId, 0, 0, 0, 0))
  BY <1>2, <1>3, SegContextType DEF PartContext
<1>5. Len(PartContext(k)) <= MaxU32
  BY <1>4, ContainerAssumption DEF MaxLpField
<1> QED
  BY <1>1, <1>4, <1>5, Arguments, DrawType DEF Sealable

LEMMA StateSealable ==
  Sealable(State, Memh, 0, <<>>, Draw[1])
BY Arguments, DrawType, Widths DEF Sealable

LEMMA EmptySealable ==
  Sealable(<<>>, Memh, Epoch7, Ctx, Draw[2])
BY Arguments, DrawType, Widths DEF Sealable

LEMMA ChunkSealIsPartSeal ==
  \A k \in 1 .. Segments : ChunkSeals[k] = PartSeal(k)
BY DEF ChunkSeals, PartSeal, Part, PartContext

LEMMA PartFrameType ==
  ASSUME NEW k \in 1 .. Segments
  PROVE  LET e == PartSeal(k).envelope
         IN  /\ e \in ByteString /\ Len(e) \in 0 .. MaxU64
             /\ PartFrame(k) = Join(U64[Len(e)], e)
             /\ PartFrame(k) \in ByteString /\ Len(PartFrame(k)) = U64Len + Len(e)
<1> DEFINE e == PartSeal(k).envelope
<1>1. e \in ByteString /\ Len(e) = PrefixLen + U32Len + Len(Part(k)) + TagLen
  BY PartSealable, EnvelopeParses DEF PartSeal
<1>2. Len(Part(k)) \in Nat /\ Len(Part(k)) <= SegmentSize
  BY PartType
<1>3. SegmentSize \in Nat /\ PrefixLen + U32Len + SegmentSize + TagLen <= MaxU64
  BY Arguments, Widths, ContainerAssumption
<1>4. Len(e) \in 0 .. MaxU64
  <2> HIDE DEF e
  <2> QED
    BY <1>1, <1>2, <1>3, Widths
<1> HIDE DEF e
<1>5. U64[Len(e)] \in ByteString /\ Len(U64[Len(e)]) = U64Len
  BY <1>4, U64Type
<1>6. PartFrame(k) = Join(U64[Len(e)], e)
  BY DEF PartFrame, Frame, Join, e
<1> QED
  BY <1>1, <1>4, <1>5, <1>6, JoinType, JoinLen DEF e

\* The container, one frame at a time: body[k] is what it holds up to frame k.
HeaderBytes == StreamHeader(StreamId, Segments, SegmentSize, Len(ChunkedState))

IsBody(body) ==
  /\ body \in [1 .. Segments -> ByteString]
  /\ body[1] = PartFrame(1)
  /\ \A k \in 1 .. Segments - 1 : body[k + 1] = Join(body[k], PartFrame(k + 1))
  /\ Container = Join(HeaderBytes, body[Segments])

Frames == CHOOSE body : IsBody(body)

LEMMA ContainerParts == IsBody(Frames)
<1> DEFINE s == [k \in 1 .. Segments |-> PartFrame(k)]
<1>1. Segments \in Nat /\ Segments # 0
  BY SegmentsBounds
<1>2. s \in [1 .. Segments -> ByteString]
  BY PartFrameType
<1>3. s \in Seq(ByteString) /\ Len(s) = Segments
  BY <1>1, <1>2, SeqDef, LenProperties
<1>4. s = [k \in 1 .. Segments |-> Frame(ChunkSeals[k].envelope)]
  BY ChunkSealIsPartSeal DEF PartFrame
<1>5. \A k \in 1 .. Segments : s[k] = PartFrame(k)
  OBVIOUS
<1>6. Container = Join(HeaderBytes, FlattenSeq(s))
  BY <1>4 DEF Container, Join, HeaderBytes
<1> HIDE DEF s
<1>7. PICK f : /\ f \in [1 .. Len(s) -> ByteString]
               /\ f[1] = s[1]
               /\ \A k \in 1 .. Len(s) - 1 : f[k + 1] = Join(f[k], s[k + 1])
               /\ FlattenSeq(s) = f[Len(s)]
  BY <1>1, <1>3, FlattenParts DEF ByteString
<1>8. 1 \in 1 .. Segments /\ \A k \in 1 .. Segments - 1 : k + 1 \in 1 .. Segments
  BY <1>1
<1>9. IsBody(f)
  BY <1>3, <1>5, <1>6, <1>7, <1>8 DEF IsBody
<1> QED
  BY <1>9 DEF Frames

LEMMA ArtefactType == Artefacts \subseteq ByteString
<1>1. StateSeal.envelope \in ByteString
  BY StateSealable, EnvelopeParses DEF StateSeal
<1>2. EmptySeal.envelope \in ByteString
  BY EmptySealable, EnvelopeParses DEF EmptySeal
<1>3. Container \in ByteString
  <2>1. Segments \in 1 .. Segments /\ Segments \in 0 .. MaxU64
    BY SegmentsBounds
  <2>2. Len(ChunkedState) \in 0 .. MaxU64
    BY Arguments
  <2>3. HeaderBytes \in ByteString
    BY <2>1, <2>2, Arguments, StreamHeaderBytes DEF HeaderBytes
  <2>4. Frames[Segments] \in ByteString /\ Container = Join(HeaderBytes, Frames[Segments])
    BY <2>1, ContainerParts DEF IsBody
  <2> QED
    BY <2>3, <2>4, JoinType
<1> QED
  BY <1>1, <1>2, <1>3 DEF Artefacts
-------------------------------------------------------------------------------
(***************************************************************************)
(* Types, and what no exception but the library's own means.               *)
(***************************************************************************)
Errors == SCEErrors \cup {"none"}

Inv ==
  /\ pc \in {"choose", "mutate", "segments", "done"}
  /\ data \in ByteString /\ budget \in 0 .. MaxOps
  /\ i \in Nat /\ off \in Nat /\ plain \in ByteString
  /\ result.error \in Errors
  /\ pc # "done" => result = NoResult
  /\ pc # "segments" => i = 0 /\ plain = <<>>
  /\ pc = "segments" => ChunkedError = "none"

LEMMA NoResultFields ==
  NoResult.entry = "none" /\ NoResult.error = "none" /\ NoResult.error \in Errors
BY DEF NoResult, Errors

LEMMA InvInit == Init => Inv
BY Arguments, NoResultFields DEF Init, Inv

LEMMA FinishInv ==
  ASSUME Inv, NEW entry, NEW error \in Errors, NEW state, NEW told,
         Finish(entry, error, state, told)
  PROVE  /\ Inv'
         /\ result'.entry = entry /\ result'.error = error /\ result'.state = state
         /\ result'.told = told /\ data' = data
BY Arguments DEF Inv, Finish

\* An unseal in the driver's environment with any context, and the entry points that
\* only parse.
LEMMA EntryErrors ==
  ASSUME NEW b \in ByteString
  PROVE  /\ \A seals, epoch : \A context \in ByteString :
              UnsealError(seals, b, Memh, epoch, context) \in Errors
         /\ ParseError(b) \in Errors
         /\ StreamHeaderError(b) \in Errors
BY UnsealErrorType, ParseType, StreamHeaderType DEF Errors, SCEErrors

\* The next segment of a container being opened.
LEMMA NextSegment ==
  ASSUME Inv, pc = "segments", i < SegmentsOf(data)
  PROVE  /\ Context \in ByteString
         /\ i \in 0 .. MaxU64
         /\ ~FrameFault => /\ FrameLen \in 0 .. MaxU64
                           /\ off + U64Len + FrameLen <= Len(data)
                           /\ U64[FrameLen] = Slice(data, off, off + U64Len)
                           /\ Envelope \in ByteString /\ Len(Envelope) = FrameLen
         /\ SegmentError \in Errors
         /\ SegmentError = "none" =>
              ~FrameFault /\ UnsealError(Seals, Envelope, Memh, 0, Context) = "none"
<1>1. data \in ByteString /\ Len(data) \in Nat /\ off \in Nat /\ i \in Nat
      /\ U64Len \in Nat /\ MaxU64 \in Nat
  BY Cat, Widths DEF Inv
<1>2. StreamHeaderError(data) = "none"
  BY DEF Inv, ChunkedError
<1>3. /\ StreamIdOf(data) \in Field(StreamIdLen) /\ SegmentsOf(data) \in 0 .. MaxU64
      /\ SegmentSizeOf(data) \in 0 .. MaxU64 /\ TotalOf(data) \in 0 .. MaxU64
  BY <1>1, <1>2, StreamHeaderParts
<1>4. i \in 0 .. MaxU64
  BY <1>1, <1>3
<1>5. Context \in ByteString
  <2>1. <<>> \in ByteString /\ Len(<<>>) <= MaxU32
    BY Arguments, Widths
  <2> QED
    BY <1>3, <1>4, <2>1, SegContextType DEF Context
<1>6. ASSUME ~FrameFault
      PROVE  /\ FrameLen \in 0 .. MaxU64
             /\ off + U64Len + FrameLen <= Len(data)
             /\ U64[FrameLen] = Slice(data, off, off + U64Len)
             /\ Envelope \in ByteString /\ Len(Envelope) = FrameLen
  <2>1. off <= off + U64Len /\ off + U64Len <= Len(data) /\ off + U64Len \in Nat
        /\ off + U64Len - off = U64Len
    BY <1>1, <1>6 DEF FrameFault
  <2>2. Slice(data, off, off + U64Len) \in ByteString /\ Len(Slice(data, off, off + U64Len)) = U64Len
    BY <1>1, <2>1, SliceType
  <2>3. FrameLen \in 0 .. MaxU64 /\ U64[FrameLen] = Slice(data, off, off + U64Len)
    BY <2>2, PackInverse DEF FrameLen
  <2>4. ~(FrameLen > Len(data) - off - U64Len)
    BY <1>6 DEF FrameFault
  <2> DEFINE lo == off + U64Len
             hi == lo + FrameLen
  <2>5. lo \in Nat /\ hi \in Nat /\ lo <= hi /\ hi <= Len(data) /\ hi - lo = FrameLen
    BY <1>1, <2>3, <2>4
  <2>6. Envelope = Slice(data, lo, hi)
    BY DEF Envelope
  <2> HIDE DEF lo, hi
  <2>7. Envelope \in ByteString /\ Len(Envelope) = FrameLen
    BY <1>1, <2>5, <2>6, SliceType
  <2> QED
    BY <2>3, <2>5, <2>7 DEF lo, hi
<1>7. SegContextError(<<>>) = "none"
  BY Arguments, Widths DEF SegContextError, ToBytesError
<1>8. SegmentError \in Errors
  <2>1. CASE FrameFault
    BY <2>1 DEF SegmentError, Errors, SCEErrors
  <2>2. CASE ~FrameFault
    BY <1>5, <1>6, <1>7, <2>2, EntryErrors DEF SegmentError
  <2> QED
    BY <2>1, <2>2
<1>9. SegmentError = "none" =>
        ~FrameFault /\ UnsealError(Seals, Envelope, Memh, 0, Context) = "none"
  BY <1>7 DEF SegmentError
<1> QED
  BY <1>4, <1>5, <1>6, <1>8, <1>9

\* A seal of the payload, and its unsealing.
PayloadSeal == Seal(PayloadState, Memh, PayloadEpoch, PayloadCtx, Last(Draw))

LEMMA PayloadType ==
  ASSUME data \in ByteString
  PROVE  /\ PayloadEpoch \in 0 .. MaxU64
         /\ PayloadCtx \in ByteString /\ Len(PayloadCtx) <= MaxU32
         /\ PayloadState \in ByteString
<1>1. Len(data) \in Nat
  BY Cat
<1>2. PayloadState \in ByteString
  BY FromType DEF PayloadState
<1>3. PayloadCtx \in ByteString /\ Len(PayloadCtx) <= MaxU32
  <2>1. Len(PayloadCtx) <= 6 - 2 /\ Len(PayloadCtx) \in Nat /\ PayloadCtx \in ByteString
    BY SliceType DEF PayloadCtx
  <2>2. MaxU32 \in Nat /\ 4 <= MaxU32
    BY Widths, FuzzAssumption
  <2> QED
    BY <2>1, <2>2
<1>4. PayloadEpoch \in 0 .. MaxU64
  <2>1. CASE Len(data) >= 2
    <3>1. U64[0] \in ByteString /\ Len(U64[0]) = U64Len /\ U64Len \in Nat /\ 2 <= U64Len
      BY U64Type, Arguments, Widths, FuzzAssumption
    <3>2. From(U64[0], 2) \in ByteString /\ Len(From(U64[0], 2)) = U64Len - 2
      BY <3>1, FromType
    <3>3. Slice(data, 0, 2) \in ByteString /\ Len(Slice(data, 0, 2)) = 2
      <4>1. 2 <= Len(data) /\ 0 \in Nat /\ 2 \in Nat /\ 0 <= 2 /\ 2 - 0 = 2
        BY <1>1, <2>1
      <4> QED
        BY <4>1, SliceType
    <3>4. /\ Join(From(U64[0], 2), Slice(data, 0, 2)) \in ByteString
          /\ Len(Join(From(U64[0], 2), Slice(data, 0, 2))) = U64Len
      <4> DEFINE a == From(U64[0], 2)
                 b == Slice(data, 0, 2)
      <4>1. a \in ByteString /\ b \in ByteString /\ Len(a) = U64Len - 2 /\ Len(b) = 2
        BY <3>2, <3>3
      <4> HIDE DEF a, b
      <4>2. Join(a, b) \in ByteString /\ Len(Join(a, b)) = Len(a) + Len(b)
        BY <4>1, JoinType, JoinLen
      <4>3. Len(a) + Len(b) = U64Len
        BY <3>1, <4>1
      <4> QED
        BY <4>2, <4>3 DEF a, b
    <3>5. Unpack64(Join(From(U64[0], 2), Slice(data, 0, 2))) \in 0 .. MaxU64
      BY <3>4, PackInverse
    <3> QED
      BY <2>1, <3>5 DEF PayloadEpoch, Join
  <2>2. CASE ~(Len(data) >= 2)
    BY <2>2, Arguments DEF PayloadEpoch
  <2> QED
    BY <2>1, <2>2
<1> QED
  BY <1>2, <1>3, <1>4

LEMMA HonestSeals == \A s \in Seals : Honest(s)
<1>1. Honest(StateSeal)
  BY StateSealable DEF Honest, StateSeal
<1>2. Honest(EmptySeal)
  BY EmptySealable DEF Honest, EmptySeal
<1>3. \A k \in 1 .. Segments : Honest(ChunkSeals[k])
  BY PartSealable, ChunkSealIsPartSeal DEF Honest, PartSeal
<1> QED
  BY <1>1, <1>2, <1>3 DEF Seals

-------------------------------------------------------------------------------
(***************************************************************************)
(* The entry points.                                                       *)
(***************************************************************************)
LEMMA RoundTrip ==
  ASSUME Inv, TestRoundTrip
  PROVE  /\ Inv' /\ data' = data /\ result'.entry = "round_trip"
         /\ IF Len(PayloadState) <= MaxState
              THEN result'.error = "none" /\ result'.state = PayloadState
              ELSE result'.error = "SCEError"
<1> DEFINE s == PayloadSeal
           sealError == SealError(PayloadState, PayloadCtx, PayloadEpoch)
           unsealError == UnsealError(Seals \cup {s}, s.envelope, Memh, PayloadEpoch, PayloadCtx)
           opened == Unsealed(Seals \cup {s}, s.envelope, Memh, PayloadEpoch, PayloadCtx)
<1>1. /\ PayloadEpoch \in 0 .. MaxU64 /\ PayloadCtx \in ByteString /\ Len(PayloadCtx) <= MaxU32
      /\ PayloadState \in ByteString /\ Len(PayloadState) \in Nat /\ Len(PayloadCtx) \in Nat
  BY PayloadType, Cat DEF Inv
<1>2. IF sealError # "none" THEN Finish("round_trip", sealError, <<>>, <<>>)
      ELSE IF unsealError # "none" THEN Finish("round_trip", unsealError, <<>>, <<>>)
      ELSE IF opened # PayloadState THEN Finish("round_trip", "FuzzFailure", <<>>, <<>>)
      ELSE Finish("round_trip", "none", opened, <<>>)
  BY DEF TestRoundTrip, PayloadSeal
<1>3. sealError = IF Len(PayloadState) > MaxState THEN "SCEError" ELSE "none"
  BY <1>1, SealErrorExact, Widths
<1>4. CASE Len(PayloadState) > MaxState
  <2>1. sealError = "SCEError" /\ "SCEError" \in Errors /\ ~(Len(PayloadState) <= MaxState)
    BY <1>1, <1>3, <1>4, Widths DEF Errors, SCEErrors
  <2>2. Finish("round_trip", "SCEError", <<>>, <<>>)
    BY <1>2, <2>1
  <2> QED
    BY <2>1, <2>2, FinishInv
<1>5. CASE ~(Len(PayloadState) > MaxState)
  <2>1. sealError = "none" /\ "none" \in Errors /\ Len(PayloadState) <= MaxState
    BY <1>1, <1>3, <1>5, Widths DEF Errors
  <2>2. Sealable(PayloadState, Memh, PayloadEpoch, PayloadCtx, Last(Draw))
    BY <1>1, <2>1, Arguments, DrawType DEF Sealable
  <2>3. Honest(s) /\ \A t \in Seals : Honest(t)
    BY <2>2, HonestSeals DEF Honest, PayloadSeal
  <2>4. unsealError = "none"
    BY <2>2, SealOpens DEF PayloadSeal
  <2>5. opened = PayloadState
    <3>1. /\ s.envelope \in ByteString
          /\ Ciphertext(s.envelope) = s.ct /\ s.state = PayloadState
      BY <2>2, EnvelopeParses, SealFields DEF PayloadSeal
    <3>2. Memh \in Field(MemhLen)
      BY Arguments
    <3>3. \A t \in Seals \cup {s} : Honest(t)
      BY <2>3
    <3>4. PICK a, r : LET u == Seal(a, Memh, PayloadEpoch, PayloadCtx, r)
                      IN  u \in Seals \cup {s} /\ s.envelope = u.envelope /\ opened = a
                          /\ Sealable(a, Memh, PayloadEpoch, PayloadCtx, r)
      <4> HIDE DEF s
      <4> QED
        BY <1>1, <2>4, <3>1, <3>2, <3>3, OpensOnlyWhatWasSealed
    <3> DEFINE u == Seal(a, Memh, PayloadEpoch, PayloadCtx, r)
    <3>5. Ciphertext(u.envelope) = u.ct /\ u.state = a
      BY <3>4, EnvelopeParses, SealFields
    <3>6. Honest(u) /\ u.ct = s.ct
      BY <3>1, <3>3, <3>4, <3>5
    <3>7. u.state = s.state
      <4> HIDE DEF u, s
      <4> QED
        BY <2>3, <3>6, SameCiphertext
    <3> QED
      BY <3>1, <3>4, <3>5, <3>7
  <2>6. Finish("round_trip", "none", opened, <<>>)
    BY <1>2, <2>1, <2>4, <2>5
  <2> QED
    BY <2>1, <2>5, <2>6, FinishInv
<1> QED
  BY <1>4, <1>5

\* Which of the driver's seals an unseal at epoch 0 can have opened.
LEMMA WhichSeal ==
  ASSUME NEW a, NEW c, NEW r, Sealable(a, Memh, 0, c, r), Seal(a, Memh, 0, c, r) \in Seals
  PROVE  \/ c = <<>> /\ Seal(a, Memh, 0, c, r) = StateSeal /\ a = State
         \/ \E k \in 1 .. Segments :
              c = PartContext(k) /\ Seal(a, Memh, 0, c, r) = PartSeal(k) /\ a = Part(k)
<1> DEFINE s == Seal(a, Memh, 0, c, r)
<1>1. s.info = KdfCanonical(c, 0, Memh) /\ s.state = a
  BY SealFields
<1>2. /\ Memh \in ByteString /\ Len(Memh) <= MaxU32 /\ 0 \in 0 .. MaxU64
      /\ c \in ByteString /\ Len(c) <= MaxU32
  BY Arguments, WidthsAssumption DEF Field, Sealable
<1>3. CASE s = StateSeal
  <2>1. s.info = KdfCanonical(<<>>, 0, Memh) /\ s.state = State
    BY <1>3, SealFields DEF StateSeal
  <2>2. <<>> = c
    BY <1>1, <1>2, <2>1, StateSealable, SealInjective
  <2> QED
    BY <1>1, <1>3, <2>1, <2>2
<1>4. CASE s = EmptySeal
  <2>1. s.info = KdfCanonical(Ctx, Epoch7, Memh)
    BY <1>4, SealFields DEF EmptySeal
  <2>2. Epoch7 = 0
    BY <1>1, <1>2, <2>1, EmptySealable, SealInjective
  <2> QED
    BY <2>2, Arguments
<1>5. ASSUME NEW k \in 1 .. Segments, s = ChunkSeals[k]
      PROVE  c = PartContext(k) /\ s = PartSeal(k) /\ a = Part(k)
  <2>1. s = PartSeal(k)
    BY <1>5, ChunkSealIsPartSeal
  <2>2. s.info = KdfCanonical(PartContext(k), 0, Memh) /\ s.state = Part(k)
    BY <2>1, SealFields DEF PartSeal
  <2>3. PartContext(k) = c
    BY <1>1, <1>2, <2>2, PartSealable, SealInjective
  <2> QED
    BY <1>1, <2>1, <2>2, <2>3
<1> QED
  BY <1>3, <1>4, <1>5 DEF Seals

\* unseal_state: the artefact sealed in this environment opens, and nothing else.
LEMMA UnsealStep ==
  ASSUME Inv, TestUnseal
  PROVE  /\ Inv' /\ data' = data /\ result'.entry = "unseal_state"
         /\ IF data = StateSeal.envelope
              THEN result'.error = "none" /\ result'.state = State
              ELSE result'.error # "none"
<1> DEFINE error == UnsealError(Seals, data, Memh, 0, <<>>)
<1>1. data \in ByteString /\ <<>> \in ByteString /\ Memh \in Field(MemhLen)
  BY Arguments DEF Inv
<1>2. error \in Errors
  BY <1>1, EntryErrors
<1>3. PICK state : /\ Finish("unseal_state", error, state, <<>>)
                   /\ error = "none" => state = Unsealed(Seals, data, Memh, 0, <<>>)
  BY DEF TestUnseal
<1> HIDE DEF error
<1>4. /\ Inv' /\ data' = data /\ result'.entry = "unseal_state" /\ result'.error = error
      /\ error = "none" => result'.state = Unsealed(Seals, data, Memh, 0, <<>>)
  BY <1>2, <1>3, FinishInv
<1>5. ASSUME error = "none"
      PROVE  data = StateSeal.envelope /\ Unsealed(Seals, data, Memh, 0, <<>>) = State
  <2>1. PICK a, r : LET s == Seal(a, Memh, 0, <<>>, r)
                    IN  /\ Sealable(a, Memh, 0, <<>>, r)
                        /\ s \in Seals /\ data = s.envelope
                        /\ Unsealed(Seals, data, Memh, 0, <<>>) = a
    BY <1>1, <1>5, HonestSeals, OpensOnlyWhatWasSealed DEF error
  <2>2. \A k \in 1 .. Segments : PartContext(k) # <<>>
    <3> SUFFICES ASSUME NEW k \in 1 .. Segments
                 PROVE  PartContext(k) # <<>>
      OBVIOUS
    <3>1. /\ k - 1 \in 0 .. MaxU64 /\ Segments \in 0 .. MaxU64
          /\ Len(ChunkedState) \in 0 .. MaxU64 /\ SegmentSize \in 0 .. MaxU64
      BY PartBounds, SegmentsBounds, Arguments, Widths
    <3>2. <<>> \in ByteString /\ Len(<<>>) <= MaxU32 /\ StreamId \in Field(StreamIdLen)
      BY Arguments, Widths
    <3> QED
      BY <3>1, <3>2, SegContextType, SMTT(20) DEF PartContext
  <2>3. Seal(a, Memh, 0, <<>>, r) = StateSeal /\ a = State
    BY <2>1, <2>2, WhichSeal
  <2> QED
    BY <2>1, <2>3
<1>6. ASSUME data = StateSeal.envelope
      PROVE  error = "none"
  <2>1. UnsealError(Seals, StateSeal.envelope, Memh, 0, <<>>) = "none"
    <3>1. StateSeal \in Seals
      BY DEF Seals
    <3> QED
      BY <3>1, StateSealable, SealOpens DEF StateSeal
  <2> QED
    BY <1>6, <2>1 DEF error
<1> QED
  BY <1>4, <1>5, <1>6
-------------------------------------------------------------------------------
(***************************************************************************)
(* Opening a container.                                                    *)
(***************************************************************************)
\* The container up to its k-th frame, and what follows.
Base(k) == IF k = 0 THEN HeaderBytes ELSE Join(HeaderBytes, Frames[k])

LEMMA BaseType ==
  /\ HeaderBytes \in ByteString /\ Len(HeaderBytes) = StreamHeaderLen
  /\ \A k \in 0 .. Segments : Base(k) \in ByteString
  /\ \A k \in 1 .. Segments : Base(k) = Join(Base(k - 1), PartFrame(k))
  /\ Base(Segments) = Container
<1>1. HeaderBytes \in ByteString /\ Len(HeaderBytes) = StreamHeaderLen
  BY SegmentsBounds, Arguments, StreamHeaderBytes DEF HeaderBytes
<1>2. \A k \in 1 .. Segments : Frames[k] \in ByteString
  BY ContainerParts DEF IsBody
<1>3. \A k \in 0 .. Segments : Base(k) \in ByteString
  <2> SUFFICES ASSUME NEW k \in 0 .. Segments PROVE Base(k) \in ByteString
    OBVIOUS
  <2>1. CASE k = 0
    BY <1>1, <2>1 DEF Base
  <2>2. CASE k # 0
    <3>1. k \in 1 .. Segments
      BY <2>2, SegmentsBounds
    <3> QED
      BY <1>1, <1>2, <2>2, <3>1, JoinType DEF Base
  <2> QED
    BY <2>1, <2>2
<1>4. ASSUME NEW k \in 1 .. Segments
      PROVE  Base(k) = Join(Base(k - 1), PartFrame(k))
  <2>1. PartFrame(k) \in ByteString /\ k # 0
    BY PartFrameType, SegmentsBounds
  <2>2. CASE k = 1
    <3>1. k - 1 = 0 /\ Frames[1] = PartFrame(1)
      BY <2>2, ContainerParts DEF IsBody
    <3> QED
      BY <2>1, <2>2, <3>1 DEF Base
  <2>3. CASE k # 1
    <3> DEFINE j == k - 1
    <3>1. j \in 1 .. Segments - 1 /\ j \in 1 .. Segments /\ j # 0 /\ j + 1 = k
      BY <2>3, SegmentsBounds
    <3> HIDE DEF j
    <3>2. Frames[k] = Join(Frames[j], PartFrame(k)) /\ Frames[j] \in ByteString
      <4>1. Frames[j + 1] = Join(Frames[j], PartFrame(j + 1))
        BY <3>1, ContainerParts DEF IsBody
      <4> QED
        BY <1>2, <3>1, <4>1
    <3>3. Join(HeaderBytes, Frames[k]) = Join(Join(HeaderBytes, Frames[j]), PartFrame(k))
      BY <1>1, <2>1, <3>2, JoinAssoc
    <3>4. Base(k) = Join(Base(j), PartFrame(k))
      BY <2>1, <3>1, <3>3 DEF Base
    <3> QED
      BY <3>4 DEF j
  <2> QED
    BY <2>2, <2>3
<1>5. Base(Segments) = Container
  BY SegmentsBounds, ContainerParts DEF Base, IsBody
<1> QED
  BY <1>1, <1>3, <1>4, <1>5

LEMMA ContainerRest ==
  \A k \in 0 .. Segments : \E x \in ByteString : Container = Join(Base(k), x)
<1> DEFINE T == {j \in Nat : j <= Segments =>
                   \E x \in ByteString : Container = Join(Base(Segments - j), x)}
<1>1. Segments \in Nat
  BY SegmentsBounds
<1>2. 0 \in T
  <2>1. <<>> \in ByteString
    BY Arguments
  <2>2. Join(Container, <<>>) = Container
    <3>1. Container \in ByteString
      BY ArtefactType DEF Artefacts
    <3> QED
      BY <3>1, ConcatEmptySeq DEF Join, ByteString
  <2>3. Segments - 0 = Segments
    BY <1>1
  <2> QED
    BY <2>1, <2>2, <2>3, BaseType
<1>3. ASSUME NEW j \in Nat, 0 <= j, j \in T
      PROVE  j + 1 \in T
  <2> SUFFICES ASSUME j + 1 <= Segments
               PROVE  \E x \in ByteString : Container = Join(Base(Segments - (j + 1)), x)
    OBVIOUS
  <2> DEFINE k == Segments - j
  <2>1. /\ k \in 1 .. Segments /\ Segments - (j + 1) = k - 1 /\ j <= Segments
        /\ k - 1 \in 0 .. Segments
    BY <1>1
  <2>2. PICK x \in ByteString : Container = Join(Base(k), x)
    BY <1>3, <2>1
  <2> HIDE DEF k
  <2>3. Base(k - 1) \in ByteString /\ PartFrame(k) \in ByteString
    BY <2>1, BaseType, PartFrameType
  <2>4. Container = Join(Base(k - 1), Join(PartFrame(k), x)) /\ Join(PartFrame(k), x) \in ByteString
    BY <2>1, <2>2, <2>3, BaseType, JoinAssoc, JoinType
  <2> QED
    BY <2>1, <2>4
<1> HIDE DEF T
<1>4. \A n \in Nat : 0 <= n => n \in T
  BY <1>2, <1>3, SetInduction
<1> SUFFICES ASSUME NEW k \in 0 .. Segments
             PROVE  \E x \in ByteString : Container = Join(Base(k), x)
  OBVIOUS
<1>5. /\ Segments - k \in Nat /\ 0 <= Segments - k /\ Segments - k <= Segments
      /\ Segments - (Segments - k) = k
  BY <1>1
<1>6. Segments - k \in T
  BY <1>4, <1>5
<1> QED
  BY <1>5, <1>6 DEF T

\* The least a frame takes: its length prefix, and the envelope of an empty state.
FrameRoom == U64Len + PrefixLen + U32Len + TagLen

\* The header and the first k frames take the room of the header and k frames.
LEMMA BaseLen ==
  /\ FrameRoom \in Nat
  /\ \A k \in 0 .. Segments : Len(Base(k)) >= StreamHeaderLen + k * FrameRoom
<1> DEFINE T == {j \in Nat : j <= Segments =>
                   Len(Base(j)) >= StreamHeaderLen + j * FrameRoom}
<1>1. Segments \in Nat /\ FrameRoom \in Nat /\ StreamHeaderLen \in Nat
  BY SegmentsBounds, Widths DEF FrameRoom
<1>2. 0 \in T
  <2>1. Base(0) = HeaderBytes
    BY DEF Base
  <2> QED
    BY <1>1, <2>1, BaseType
<1>3. ASSUME NEW j \in Nat, 0 <= j, j \in T
      PROVE  j + 1 \in T
  <2> SUFFICES ASSUME j + 1 <= Segments
               PROVE  Len(Base(j + 1)) >= StreamHeaderLen + (j + 1) * FrameRoom
    OBVIOUS
  <2>1. j + 1 \in 1 .. Segments /\ j + 1 - 1 = j /\ j \in 0 .. Segments /\ j <= Segments
    BY <1>1
  <2>2. Base(j) \in ByteString /\ Base(j + 1) = Join(Base(j), PartFrame(j + 1))
    BY <2>1, BaseType
  <2>3. PartFrame(j + 1) \in ByteString /\ Len(PartFrame(j + 1)) >= FrameRoom
    <3>1. /\ Len(PartSeal(j + 1).envelope)
               = PrefixLen + U32Len + Len(Part(j + 1)) + TagLen
          /\ PartFrame(j + 1) \in ByteString
          /\ Len(PartFrame(j + 1)) = U64Len + Len(PartSeal(j + 1).envelope)
      BY <2>1, PartSealable, EnvelopeParses, PartFrameType DEF PartSeal
    <3>2. Len(Part(j + 1)) \in Nat
      BY <2>1, PartType
    <3> QED
      BY <3>1, <3>2, Widths DEF FrameRoom
  <2>4. Len(Base(j + 1)) = Len(Base(j)) + Len(PartFrame(j + 1)) /\ Len(Base(j)) \in Nat
        /\ Len(PartFrame(j + 1)) \in Nat
    BY <2>2, <2>3, JoinLen
  <2>5. Len(Base(j)) >= StreamHeaderLen + j * FrameRoom
    BY <1>3, <2>1
  <2>6. (j + 1) * FrameRoom = j * FrameRoom + FrameRoom /\ j * FrameRoom \in Nat
    BY <1>1
  <2> QED
    BY <1>1, <2>3, <2>4, <2>5, <2>6
<1> HIDE DEF T
<1>4. \A n \in Nat : 0 <= n => n \in T
  BY <1>2, <1>3, SetInduction
<1> QED
  BY <1>1, <1>4 DEF T

\* Each frame takes its length prefix and a byte at least: the container has room for
\* the segments its header declares.
LEMMA ContainerLen ==
  /\ Container \in ByteString
  /\ Len(Container) - StreamHeaderLen >= Segments * (U64Len + 1)
<1>1. Segments \in Nat /\ U64Len \in Nat /\ StreamHeaderLen \in Nat
  BY SegmentsBounds, Widths
<1>2. FrameRoom >= U64Len + 1 /\ FrameRoom \in Nat
  BY Widths DEF FrameRoom
<1>3. Segments * FrameRoom >= Segments * (U64Len + 1) /\ Segments * FrameRoom \in Nat
      /\ Segments * (U64Len + 1) \in Nat
  BY <1>1, <1>2
<1>4. Len(Base(Segments)) >= StreamHeaderLen + Segments * FrameRoom
  BY <1>1, BaseLen
<1>5. Container \in ByteString /\ Len(Container) \in Nat
  BY ArtefactType, Cat DEF Artefacts
<1> QED
  BY <1>1, <1>3, <1>4, <1>5, BaseType

\* The header of the container is the one written, and it is let through.
LEMMA ContainerHeader ==
  ASSUME data = Container
  PROVE  /\ StreamHeaderError(data) = "none" /\ ChunkedError = "none"
         /\ SegmentsOf(data) = Segments /\ SegmentSizeOf(data) = SegmentSize
         /\ TotalOf(data) = Len(ChunkedState) /\ StreamIdOf(data) = StreamId
<1>1. /\ Segments \in 1 .. MaxU64 /\ Segments \in 0 .. MaxU64 /\ Segments \in Nat
      /\ Len(ChunkedState) \in 0 .. MaxU64 /\ Len(ChunkedState) # 0
      /\ SegmentSize \in 0 .. MaxU64 /\ StreamId \in Field(StreamIdLen)
  BY SegmentsBounds, Arguments
<1>2. PICK x \in ByteString : Container = Join(HeaderBytes, x)
  <2>1. 0 \in 0 .. Segments /\ Base(0) = HeaderBytes
    BY <1>1 DEF Base
  <2> QED
    BY <2>1, ContainerRest
<1>3. /\ StreamHeaderError(data) = "none" /\ StreamIdOf(data) = StreamId
      /\ SegmentsOf(data) = Segments /\ SegmentSizeOf(data) = SegmentSize
      /\ TotalOf(data) = Len(ChunkedState)
  BY <1>1, <1>2, StreamHeaderReads DEF HeaderBytes
<1>4. ~(Segments > MaxPossible)
  <2> DEFINE n == Len(data) - StreamHeaderLen
             d == U64Len + 1
  <2>1. n \in Nat /\ d \in Nat \ {0} /\ n >= Segments * d
    <3>1. Len(data) \in Nat /\ StreamHeaderLen \in Nat /\ U64Len \in Nat
      BY ContainerLen, Cat, Widths
    <3>2. Segments * (U64Len + 1) \in Nat /\ n >= Segments * (U64Len + 1)
      BY <1>1, <3>1, ContainerLen
    <3> QED
      BY <3>1, <3>2
  <2> HIDE DEF n, d
  <2>2. MaxPossible = n \div d
    BY DEF MaxPossible, n, d
  <2>3. n \div d \in Nat /\ n < d * (n \div d) + d
    BY <2>1, Division
  <2> DEFINE q == n \div d
  <2>4. q \in Nat /\ n < d * q + d
    BY <2>3
  <2> HIDE DEF q
  <2>5. Segments <= q
    <3> SUFFICES ASSUME q + 1 <= Segments PROVE FALSE
      BY <1>1, <2>4
    <3>1. (q + 1) * d <= Segments * d
      BY <1>1, <2>1, <2>4
    <3>2. (q + 1) * d = d * q + d
      BY <2>1, <2>4
    <3> QED
      BY <1>1, <2>1, <2>4, <3>1, <3>2
  <2> QED
    BY <1>1, <2>2, <2>4, <2>5 DEF q
<1>5. ChunkedError = "none"
  BY <1>1, <1>3, <1>4 DEF ChunkedError, HeaderFault
<1> QED
  BY <1>3, <1>5

LEMMA SliceJoinClamped ==
  ASSUME NEW b \in ByteString, NEW lo \in Nat, NEW mid \in Nat, NEW hi \in Nat,
         lo <= mid, mid <= hi, mid <= Len(b)
  PROVE  Slice(b, lo, hi) = Join(Slice(b, lo, mid), Slice(b, mid, hi))
<1>1. Len(b) \in Nat
  BY Cat
<1>2. CASE hi <= Len(b)
  BY <1>2, SliceJoin
<1>3. CASE ~(hi <= Len(b))
  <2>1. \A x \in Nat : Slice(b, x, hi) = Slice(b, x, Len(b))
    BY <1>1, <1>3 DEF Slice
  <2>2. Slice(b, lo, Len(b)) = Join(Slice(b, lo, mid), Slice(b, mid, Len(b)))
    BY <1>1, SliceJoin
  <2> QED
    BY <2>1, <2>2
<1> QED
  BY <1>2, <1>3

\* What has been read of a container is the artefact's, byte for byte, and what has
\* been put together is the beginning of its state.
StreamInv ==
  pc = "segments" =>
    /\ off <= Len(data)
    /\ plain = Slice(ChunkedState, 0, i * SegmentSize)
    /\ i = 0 => off = StreamHeaderLen
    /\ i > 0 => /\ i <= Segments /\ SegmentsOf(data) = Segments
                /\ TotalOf(data) = Len(ChunkedState) /\ SegmentSizeOf(data) = SegmentSize
                /\ StreamIdOf(data) = StreamId
                /\ Slice(data, 0, off) = Join(HeaderBytes, Frames[i])

\* How far the reading of the container has come.
LEMMA ContainerOffset ==
  ASSUME Inv, StreamInv, pc = "segments", data = Container, i <= SegmentsOf(data)
  PROVE  /\ i \in 0 .. Segments /\ off = Len(Base(i))
         /\ SegmentsOf(data) = Segments /\ TotalOf(data) = Len(ChunkedState)
<1>1. SegmentsOf(data) = Segments /\ TotalOf(data) = Len(ChunkedState) /\ Segments \in Nat
      /\ i \in Nat /\ off \in Nat /\ data \in ByteString
  BY ContainerHeader, SegmentsBounds DEF Inv
<1>2. i \in 0 .. Segments
  BY <1>1
<1>3. CASE i = 0
  BY <1>1, <1>2, <1>3, BaseType DEF StreamInv, Base
<1>4. CASE i # 0
  <2>1. off <= Len(data) /\ Slice(data, 0, off) = Base(i)
    BY <1>1, <1>4 DEF StreamInv, Base
  <2>2. Len(Slice(data, 0, off)) = off - 0
    BY <1>1, <2>1, SliceType
  <2> QED
    BY <1>1, <1>2, <2>1, <2>2
<1> QED
  BY <1>1, <1>2, <1>3, <1>4

\* Every segment of the container opens.
LEMMA GenuineSegment ==
  ASSUME Inv, StreamInv, pc = "segments", i < SegmentsOf(data), data = Container
  PROVE  SegmentError = "none"
<1> DEFINE k == i + 1
           e == PartSeal(k).envelope
           f == U64[Len(e)]
           b == Base(i)
<1>1. /\ i \in 0 .. Segments /\ off = Len(b) /\ SegmentsOf(data) = Segments
      /\ i <= SegmentsOf(data) /\ k \in 1 .. Segments /\ k - 1 = i /\ i \in Nat
  <2>1. i \in Nat /\ SegmentsOf(data) = Segments /\ Segments \in Nat
    BY ContainerHeader, SegmentsBounds DEF Inv
  <2>2. i <= SegmentsOf(data)
    BY <2>1
  <2> QED
    BY <2>1, <2>2, ContainerOffset
<1>2. /\ e \in ByteString /\ Len(e) \in 0 .. MaxU64 /\ f \in ByteString /\ Len(f) = U64Len
      /\ PartFrame(k) = Join(f, e)
  BY <1>1, PartFrameType, U64Type
<1>3. PICK x \in ByteString : Container = Join(Base(k), x)
  BY <1>1, ContainerRest
<1>4. b \in ByteString /\ Base(k) = Join(b, Join(f, e))
  BY <1>1, <1>2, BaseType
<1>5. PartContext(k) = Context
  BY <1>1, ContainerHeader DEF PartContext, Context
<1> HIDE DEF e, f, b, k
<1>6. Join(b, f) \in ByteString /\ Join(e, x) \in ByteString /\ Join(f, e) \in ByteString
      /\ Join(b, Join(f, e)) \in ByteString
  BY <1>2, <1>3, <1>4, JoinType
<1>7. data = Join(Join(b, f), Join(e, x))
  <2>1. Join(Join(b, f), e) = Join(b, Join(f, e))
    BY <1>2, <1>4, JoinAssoc
  <2>2. Join(Join(Join(b, f), e), x) = Join(Join(b, f), Join(e, x))
    BY <1>2, <1>3, <1>6, JoinAssoc
  <2> QED
    BY <1>3, <1>4, <2>1, <2>2
<1>8. /\ Len(Join(b, f)) = off + U64Len /\ Len(Join(e, x)) = Len(e) + Len(x)
      /\ Len(e) \in Nat /\ Len(x) \in Nat /\ off \in Nat /\ U64Len \in Nat
      /\ Len(data) = off + U64Len + Len(e) + Len(x)
  <2>1. Len(Join(b, f)) = Len(b) + Len(f) /\ Len(b) \in Nat
    BY <1>2, <1>4, JoinLen
  <2>2. Len(Join(e, x)) = Len(e) + Len(x) /\ Len(e) \in Nat /\ Len(x) \in Nat
    BY <1>2, <1>3, JoinLen
  <2>3. Len(data) = Len(Join(b, f)) + Len(Join(e, x))
    BY <1>6, <1>7, JoinLen
  <2> QED
    BY <1>1, <1>2, <2>1, <2>2, <2>3, Widths
<1>9. FrameLen = Len(e)
  <2>1. Slice(data, Len(b), Len(b) + Len(f)) = f
    BY <1>2, <1>4, <1>6, <1>7, JoinMiddle
  <2> QED
    BY <1>1, <1>2, <2>1, UnpackInverse DEF FrameLen, f
<1>10. Envelope = e
  <2> DEFINE a == Join(b, f)
  <2>1. a \in ByteString /\ Len(a) = off + U64Len /\ Join(Join(a, e), x) = data
    <3>1. Join(Join(a, e), x) = Join(a, Join(e, x))
      BY <1>2, <1>3, <1>6, JoinAssoc
    <3> QED
      BY <1>6, <1>7, <1>8, <3>1
  <2> HIDE DEF a
  <2>2. Slice(data, Len(a), Len(a) + Len(e)) = e
    BY <1>2, <1>3, <2>1, JoinMiddle
  <2> QED
    BY <1>9, <2>1, <2>2 DEF Envelope
<1>11. ~FrameFault
  BY <1>8, <1>9 DEF FrameFault
<1>12. SegContextError(<<>>) = "none"
  BY Arguments, Widths DEF SegContextError, ToBytesError
<1>13. UnsealError(Seals, Envelope, Memh, 0, Context) = "none"
  <2>1. PartSeal(k) \in Seals
    BY <1>1, ChunkSealIsPartSeal DEF Seals
  <2>2. UnsealError(Seals, PartSeal(k).envelope, Memh, 0, PartContext(k)) = "none"
    BY <1>1, <2>1, PartSealable, SealOpens DEF PartSeal
  <2> QED
    BY <1>5, <1>10, <2>2 DEF e
<1> QED
  BY <1>11, <1>12, <1>13 DEF SegmentError

\* A segment that opens is the artefact's next one.
LEMMA OpenedSegment ==
  ASSUME Inv, pc = "segments", i < SegmentsOf(data), SegmentError = "none"
  PROVE  /\ i + 1 \in 1 .. Segments /\ SegmentsOf(data) = Segments
         /\ TotalOf(data) = Len(ChunkedState) /\ SegmentSizeOf(data) = SegmentSize
         /\ StreamIdOf(data) = StreamId
         /\ Envelope = PartSeal(i + 1).envelope
         /\ Unsealed(Seals, Envelope, Memh, 0, Context) = Part(i + 1)
<1>1. /\ Context \in ByteString /\ Envelope \in ByteString /\ Memh \in Field(MemhLen)
      /\ UnsealError(Seals, Envelope, Memh, 0, Context) = "none" /\ i \in 0 .. MaxU64
  BY NextSegment, Arguments
<1>2. PICK a, r : LET s == Seal(a, Memh, 0, Context, r)
                  IN  /\ Sealable(a, Memh, 0, Context, r)
                      /\ s \in Seals /\ Envelope = s.envelope
                      /\ Unsealed(Seals, Envelope, Memh, 0, Context) = a
  BY <1>1, HonestSeals, OpensOnlyWhatWasSealed
<1>3. /\ StreamIdOf(data) \in Field(StreamIdLen) /\ SegmentsOf(data) \in 0 .. MaxU64
      /\ SegmentSizeOf(data) \in 0 .. MaxU64 /\ TotalOf(data) \in 0 .. MaxU64
  BY StreamHeaderParts DEF Inv, ChunkedError
<1>4. <<>> \in ByteString /\ Len(<<>>) <= MaxU32 /\ StreamId \in Field(StreamIdLen)
  BY Arguments, Widths
<1>5. Context # <<>>
  BY <1>1, <1>3, <1>4, SegContextType DEF Context
<1>6. PICK k \in 1 .. Segments :
        Context = PartContext(k) /\ Seal(a, Memh, 0, Context, r) = PartSeal(k) /\ a = Part(k)
  BY <1>2, <1>5, WhichSeal
<1>7. /\ k - 1 \in 0 .. MaxU64 /\ Segments \in 0 .. MaxU64
      /\ Len(ChunkedState) \in 0 .. MaxU64 /\ SegmentSize \in 0 .. MaxU64
  BY PartBounds, SegmentsBounds, Arguments
<1>8. SegContext(<<>>, StreamIdOf(data), i, SegmentsOf(data), TotalOf(data), SegmentSizeOf(data))
        = SegContext(<<>>, StreamId, k - 1, Segments, Len(ChunkedState), SegmentSize)
  BY <1>6 DEF Context, PartContext
<1>9. /\ StreamIdOf(data) = StreamId /\ i = k - 1 /\ SegmentsOf(data) = Segments
      /\ TotalOf(data) = Len(ChunkedState) /\ SegmentSizeOf(data) = SegmentSize
  <2> DEFINE x == [user |-> <<>>, id |-> StreamIdOf(data), index |-> i,
                   segments |-> SegmentsOf(data), total |-> TotalOf(data),
                   size |-> SegmentSizeOf(data)]
             y == [user |-> <<>>, id |-> StreamId, index |-> k - 1, segments |-> Segments,
                   total |-> Len(ChunkedState), size |-> SegmentSize]
  <2>1. x \in SegFields
    BY <1>1, <1>3, <1>4 DEF SegFields
  <2>2. y \in SegFields
    BY <1>4, <1>7 DEF SegFields
  <2>3. SegContextOf(x) = SegContextOf(y)
    BY <1>8 DEF SegContextOf
  <2>4. x = y
    <3> HIDE DEF x, y
    <3> QED
      BY <2>1, <2>2, <2>3, SegContextInjective
  <2>5. /\ x.id = y.id /\ x.index = y.index /\ x.segments = y.segments
        /\ x.total = y.total /\ x.size = y.size
    <3> HIDE DEF x, y
    <3> QED
      BY <2>4
  <2> QED
    BY <2>5
<1>10. i + 1 = k
  BY <1>9, SegmentsBounds
<1> QED
  BY <1>2, <1>6, <1>9, <1>10

LEMMA OpenSegmentStep ==
  ASSUME Inv, StreamInv, OpenSegment, SegmentError = "none"
  PROVE  Inv' /\ StreamInv' /\ result' = result
<1>1. /\ pc = "segments" /\ i < SegmentsOf(data) /\ pc' = pc /\ data' = data
      /\ result' = result /\ i' = i + 1 /\ budget' = budget
      /\ plain' = plain \o Unsealed(Seals, Envelope, Memh, 0, Context)
      /\ off' = off + U64Len + FrameLen
  BY DEF OpenSegment
<1>2. /\ i + 1 \in 1 .. Segments /\ SegmentsOf(data) = Segments
      /\ TotalOf(data) = Len(ChunkedState) /\ SegmentSizeOf(data) = SegmentSize
      /\ StreamIdOf(data) = StreamId /\ Envelope = PartSeal(i + 1).envelope
      /\ Unsealed(Seals, Envelope, Memh, 0, Context) = Part(i + 1)
  BY <1>1, OpenedSegment
<1>3. /\ FrameLen \in 0 .. MaxU64 /\ off + U64Len + FrameLen <= Len(data)
      /\ U64[FrameLen] = Slice(data, off, off + U64Len)
      /\ Envelope \in ByteString /\ Len(Envelope) = FrameLen
  BY <1>1, NextSegment
<1>4. /\ data \in ByteString /\ off \in Nat /\ i \in Nat /\ plain \in ByteString
      /\ Len(data) \in Nat /\ U64Len \in Nat /\ Segments \in Nat /\ StreamHeaderLen \in Nat
  BY Cat, Widths, SegmentsBounds DEF Inv
<1>5. /\ off' \in Nat /\ off <= off' /\ off' <= Len(data)
      /\ off <= off + U64Len /\ off + U64Len <= off' /\ off + U64Len \in Nat
  BY <1>1, <1>3, <1>4
<1>6. PartFrame(i + 1) = Slice(data, off, off')
  <2>1. Slice(data, off, off') = Join(Slice(data, off, off + U64Len), Slice(data, off + U64Len, off'))
    <3> DEFINE mid == off + U64Len
               hi == off'
    <3>1. mid \in Nat /\ hi \in Nat /\ off <= mid /\ mid <= hi /\ hi <= Len(data)
      BY <1>5
    <3> HIDE DEF mid, hi
    <3>2. Slice(data, off, hi) = Join(Slice(data, off, mid), Slice(data, mid, hi))
      BY <1>4, <3>1, SliceJoin
    <3> QED
      BY <3>2 DEF mid, hi
  <2>2. Slice(data, off + U64Len, off') = Envelope
    BY <1>1 DEF Envelope
  <2>3. PartFrame(i + 1) = Join(U64[FrameLen], Envelope)
    BY <1>2, <1>3, PartFrameType
  <2> QED
    BY <1>3, <2>1, <2>2, <2>3
<1>7. Slice(data, 0, off') = Join(Slice(data, 0, off), PartFrame(i + 1))
  <2> DEFINE hi == off'
  <2>1. hi \in Nat /\ 0 <= off /\ off <= hi /\ hi <= Len(data)
    BY <1>4, <1>5
  <2> HIDE DEF hi
  <2>2. Slice(data, 0, hi) = Join(Slice(data, 0, off), Slice(data, off, hi))
    BY <1>4, <2>1, SliceJoin
  <2> QED
    BY <1>6, <2>2 DEF hi
<1>8. HeaderBytes \in ByteString
  BY SegmentsBounds, Arguments, StreamHeaderBytes DEF HeaderBytes
<1>9. Slice(data, 0, off') = Join(HeaderBytes, Frames[i + 1])
  <2>1. CASE i = 0
    <3>1. off = StreamHeaderLen
      BY <1>1, <2>1 DEF StreamInv
    <3>2. Slice(data, 0, off) = HeaderBytes
      BY <1>1, <1>2, <1>4, <3>1, StreamHeaderParts DEF Inv, ChunkedError, HeaderBytes
    <3>3. Frames[1] = PartFrame(1)
      BY ContainerParts DEF IsBody
    <3> QED
      BY <1>7, <2>1, <3>2, <3>3
  <2>2. CASE i > 0
    <3>1. Slice(data, 0, off) = Join(HeaderBytes, Frames[i])
      BY <1>1, <2>2 DEF StreamInv
    <3>2. i \in 1 .. Segments - 1 /\ i \in 1 .. Segments
      BY <1>2, <1>4, <2>2
    <3>3. Frames[i] \in ByteString /\ Frames[i + 1] = Join(Frames[i], PartFrame(i + 1))
      BY <3>2, ContainerParts DEF IsBody
    <3>4. PartFrame(i + 1) \in ByteString
      BY <1>2, PartFrameType
    <3> QED
      BY <1>7, <1>8, <3>1, <3>3, <3>4, JoinAssoc
  <2> QED
    BY <1>4, <2>1, <2>2
<1>10. plain' = Slice(ChunkedState, 0, i' * SegmentSize)
  <2>1. /\ i \in Nat /\ i + 1 - 1 = i
        /\ i * SegmentSize \in Nat /\ (i + 1) * SegmentSize \in Nat
        /\ 0 <= i * SegmentSize /\ i * SegmentSize <= (i + 1) * SegmentSize
    BY <1>2, <1>4, PartBounds
  <2>2. i * SegmentSize <= Len(ChunkedState)
    <3>1. SegmentSize \in Nat /\ Len(ChunkedState) \in Nat
      BY Arguments, Widths
    <3>2. i <= Segments - 1 /\ Segments - 1 \in Nat
      BY <1>2, <1>4
    <3>3. i * SegmentSize <= (Segments - 1) * SegmentSize /\ (Segments - 1) * SegmentSize \in Nat
      BY <1>4, <3>1, <3>2
    <3> QED
      BY <2>1, <3>1, <3>3, SegmentsBounds
  <2>3. plain = Slice(ChunkedState, 0, i * SegmentSize)
    BY <1>1 DEF StreamInv
  <2>4. Part(i + 1) = Slice(ChunkedState, i * SegmentSize, (i + 1) * SegmentSize)
    BY <2>1 DEF Part
  <2>5. Slice(ChunkedState, 0, (i + 1) * SegmentSize)
          = Join(Slice(ChunkedState, 0, i * SegmentSize),
                 Slice(ChunkedState, i * SegmentSize, (i + 1) * SegmentSize))
    <3> DEFINE mid == i * SegmentSize
               hi == (i + 1) * SegmentSize
    <3>1. mid \in Nat /\ hi \in Nat /\ 0 <= mid /\ mid <= hi /\ mid <= Len(ChunkedState)
      BY <2>1, <2>2
    <3> HIDE DEF mid, hi
    <3>2. Slice(ChunkedState, 0, hi) = Join(Slice(ChunkedState, 0, mid), Slice(ChunkedState, mid, hi))
      BY <3>1, Arguments, SliceJoinClamped
    <3> QED
      BY <3>2 DEF mid, hi
  <2>6. plain' = Join(plain, Part(i + 1))
    BY <1>1, <1>2 DEF Join
  <2> QED
    BY <1>1, <2>3, <2>4, <2>5, <2>6
<1>11. plain' \in ByteString
  <2>1. plain' = Join(plain, Part(i + 1)) /\ Part(i + 1) \in ByteString
    BY <1>1, <1>2, PartType DEF Join
  <2> QED
    BY <1>4, <2>1, JoinType
<1>12. Inv'
  BY <1>1, <1>4, <1>5, <1>11 DEF Inv, ChunkedError, StreamHeaderError, HeaderFault, MaxPossible,
     SegmentsOf, TotalOf
<1>13. StreamInv'
  <2>1. /\ i' > 0 /\ i' # 0 /\ i' <= Segments /\ Frames[i'] = Frames[i + 1]
        /\ off' <= Len(data')
    BY <1>1, <1>2, <1>4, <1>5
  <2>2. /\ SegmentsOf(data') = Segments /\ TotalOf(data') = Len(ChunkedState)
        /\ SegmentSizeOf(data') = SegmentSize /\ StreamIdOf(data') = StreamId
    BY <1>1, <1>2
  <2>3. Slice(data', 0, off') = Join(HeaderBytes, Frames[i'])
    BY <1>1, <1>9, <2>1
  <2> QED
    BY <1>10, <2>1, <2>2, <2>3 DEF StreamInv
<1> QED
  BY <1>1, <1>12, <1>13

\* The artefact is put together to its state, and nothing else is.
LEMMA FinishStreamStep ==
  ASSUME Inv, StreamInv, FinishStream
  PROVE  /\ Inv' /\ StreamInv' /\ data' = data /\ result'.entry = "unseal_state_chunked"
         /\ IF data = Container
              THEN result'.error = "none" /\ result'.state = ChunkedState
              ELSE result'.error # "none"
<1>1. /\ pc = "segments" /\ i = SegmentsOf(data)
      /\ \E state : /\ Finish("unseal_state_chunked", AssembledError, state, <<>>)
                    /\ AssembledError = "none" => state = plain
  BY DEF FinishStream
<1>2. AssembledError \in Errors
  BY DEF AssembledError, Errors, SCEErrors
<1>3. PICK state : /\ Finish("unseal_state_chunked", AssembledError, state, <<>>)
                   /\ AssembledError = "none" => state = plain
  BY <1>1
<1>4. /\ Inv' /\ data' = data /\ result'.entry = "unseal_state_chunked"
      /\ result'.error = AssembledError
      /\ AssembledError = "none" => result'.state = plain
  BY <1>2, <1>3, FinishInv
<1>5. StreamInv'
  BY <1>3 DEF Finish, StreamInv
<1>6. ASSUME AssembledError = "none"
      PROVE  data = Container /\ plain = ChunkedState
  <2>1. data \in ByteString /\ i \in Nat /\ i > 0 /\ off = Len(data)
    BY <1>1, <1>6 DEF Inv, ChunkedError, HeaderFault, AssembledError, Trailing
  <2>2. /\ SegmentsOf(data) = Segments /\ Slice(data, 0, off) = Join(HeaderBytes, Frames[i])
        /\ plain = Slice(ChunkedState, 0, i * SegmentSize)
    BY <1>1, <2>1 DEF StreamInv
  <2>3. data = Container
    <3>1. Slice(data, 0, Len(data)) = data
      BY <2>1, SubSeqFull DEF Slice, ByteString
    <3> QED
      BY <1>1, <2>1, <2>2, <3>1, ContainerParts DEF IsBody
  <2>4. plain = ChunkedState
    <3>1. /\ ChunkedState \in ByteString /\ Len(ChunkedState) \in Nat
          /\ Len(ChunkedState) <= i * SegmentSize /\ i * SegmentSize \in Nat
      <4>1. SegmentSize \in Nat /\ Len(ChunkedState) \in Nat /\ ChunkedState \in ByteString
        BY Arguments, Widths
      <4>2. Len(ChunkedState) <= i * SegmentSize
        BY <1>1, <2>2, SegmentsBounds
      <4>3. i * SegmentSize \in Nat
        BY <2>1, <4>1
      <4> QED
        BY <4>1, <4>2, <4>3
    <3>2. SubSeq(ChunkedState, 1, Len(ChunkedState)) = ChunkedState
      BY <3>1, SubSeqFull DEF ByteString
    <3>3. Slice(ChunkedState, 0, i * SegmentSize) = SubSeq(ChunkedState, 1, Len(ChunkedState))
      <4> DEFINE hi == i * SegmentSize
      <4>1. hi \in Nat /\ Len(ChunkedState) <= hi
        BY <3>1
      <4> HIDE DEF hi
      <4>2. Slice(ChunkedState, 0, hi) = SubSeq(ChunkedState, 1, Len(ChunkedState))
        BY <3>1, <4>1 DEF Slice
      <4> QED
        BY <4>2 DEF hi
    <3> QED
      BY <2>2, <3>2, <3>3
  <2> QED
    BY <2>3, <2>4
<1>7. ASSUME data = Container
      PROVE  AssembledError = "none"
  <2>1. /\ i \in Nat /\ SegmentsOf(data) = Segments /\ i = Segments
        /\ TotalOf(data) = Len(ChunkedState) /\ off = Len(Base(i)) /\ Base(i) = Container
    BY <1>1, <1>7, ContainerHeader, ContainerOffset, SegmentsBounds, BaseType DEF Inv
  <2>2. ~Trailing
    BY <1>7, <2>1 DEF Trailing
  <2>3. plain = Slice(ChunkedState, 0, Segments * SegmentSize)
    BY <1>1, <2>1 DEF StreamInv
  <2> DEFINE hi == Segments * SegmentSize
  <2>4. hi \in Nat /\ Len(ChunkedState) <= hi /\ Len(ChunkedState) \in Nat
        /\ ChunkedState \in ByteString
    <3>1. Segments \in Nat /\ SegmentSize \in Nat
      BY SegmentsBounds, Arguments, Widths
    <3> QED
      BY <3>1, SegmentsBounds, Arguments, Cat
  <2> HIDE DEF hi
  <2>5. Slice(ChunkedState, 0, hi) = ChunkedState
    <3>1. SubSeq(ChunkedState, 1, Len(ChunkedState)) = ChunkedState
      BY <2>4, SubSeqFull DEF ByteString
    <3>2. Slice(ChunkedState, 0, hi) = SubSeq(ChunkedState, 1, Len(ChunkedState))
      BY <2>4 DEF Slice
    <3> QED
      BY <3>1, <3>2
  <2> QED
    BY <2>1, <2>2, <2>3, <2>5 DEF AssembledError, hi
<1> QED
  BY <1>4, <1>5, <1>6, <1>7
-------------------------------------------------------------------------------
(***************************************************************************)
(* The inductive invariant and the theorems.                               *)
(***************************************************************************)
Exactness == RoundTripExact /\ OpensExactlyItsEnvelope /\ OpensExactlyItsContainer

IInv ==
  /\ Inv /\ StreamInv
  /\ Exactness /\ DiagnosisIsTrue

\* A step that ends no entry point they speak of keeps the properties.
LEMMA OtherOpener ==
  ASSUME result'.entry \notin {"round_trip", "unseal_state", "unseal_state_chunked"}
  PROVE  Exactness'
BY DEF Exactness, RoundTripExact, OpensExactlyItsEnvelope, OpensExactlyItsContainer

LEMMA OtherTeller ==
  ASSUME result'.entry \notin {"explain_mismatch", "describe_envelope", "describe_stream"}
  PROVE  DiagnosisIsTrue'
BY DEF DiagnosisIsTrue

LEMMA NotStreaming ==
  ASSUME pc' # "segments" PROVE StreamInv'
BY DEF StreamInv

\* An input is chosen.
LEMMA ChooseInv ==
  ASSUME Inv, NEW b \in ByteString, NEW ops \in 0 .. MaxOps, pc = "choose",
         data' = b, budget' = ops, pc' = "mutate", UNCHANGED <<callVars, result>>
  PROVE  IInv'
<1>1. result' = NoResult /\ Inv'
  BY DEF Inv, callVars
<1>2. result'.entry = "none" /\ pc' # "segments"
  BY <1>1, NoResultFields
<1> QED
  BY <1>1, <1>2, OtherOpener, OtherTeller, NotStreaming DEF IInv

LEMMA MutateInv ==
  ASSUME Inv, NEW b \in ByteString, Mutate(b)
  PROVE  IInv'
<1>1. /\ pc' = "mutate" /\ pc = "mutate" /\ data' = b /\ budget' \in 0 .. MaxOps
      /\ i' = i /\ off' = off /\ plain' = plain /\ result' = result
  BY Arguments DEF Inv, Mutate, TurnLeft, callVars
<1>2. result' = NoResult /\ Inv'
  BY <1>1 DEF Inv
<1> QED
  BY <1>1, <1>2, NoResultFields, OtherOpener, OtherTeller, NotStreaming DEF IInv

\* Every operation of mutate yields bytes.
LEMMA SetByteType ==
  ASSUME NEW d \in ByteString, NEW k \in DOMAIN d, NEW b \in Byte
  PROVE  [d EXCEPT ![k] = b] \in ByteString
BY ExceptSeq DEF ByteString

LEMMA MutateDataInv ==
  ASSUME Inv, MutateData
  PROVE  IInv'
<1>1. data \in ByteString /\ Len(data) \in Nat /\ DOMAIN data = 1 .. Len(data)
  BY Cat, LenProperties DEF Inv, ByteString
<1>2. \A k \in 1 .. Len(data) : data[k] \in Byte
  BY <1>1, ElementOfSeq DEF ByteString
<1>3. ASSUME NEW k \in DOMAIN data, NEW b \in Byte, SetByte(k, b)
      PROVE  IInv'
  BY <1>1, <1>3, SetByteType, MutateInv DEF SetByte
<1>4. ASSUME NEW n \in 0 .. Len(data) - 1, Truncate(n)
      PROVE  IInv'
  <2>1. \A k \in 1 .. n : data[k] \in Byte
    BY <1>1, <1>2
  <2>2. 1 \in Int /\ n \in Int
    BY <1>1
  <2>3. SubSeq(data, 1, n) \in ByteString
    BY <2>1, <2>2, SubSeqProperties DEF ByteString
  <2> QED
    BY <1>4, <2>3, MutateInv DEF Truncate
<1>5. ASSUME NEW tail \in Tails, AppendBytes(tail)
      PROVE  IInv'
  <2>1. tail \in ByteString
    BY FuzzAssumption
  <2>2. data \o tail \in ByteString
    BY <1>1, <2>1, Cat
  <2> QED
    BY <1>5, <2>2, MutateInv DEF AppendBytes
<1>6. ASSUME NEW k \in 1 .. Len(data) - 1, SwapBytes(k)
      PROVE  IInv'
  <2> DEFINE d == [data EXCEPT ![k] = data[k + 1]]
  <2>1. k \in 1 .. Len(data) /\ k + 1 \in 1 .. Len(data)
    BY <1>1
  <2>2. d \in ByteString /\ DOMAIN d = DOMAIN data
    BY <1>1, <1>2, <2>1, SetByteType
  <2>3. [d EXCEPT ![k + 1] = data[k]] \in ByteString
    <3> HIDE DEF d
    <3> QED
      BY <1>1, <1>2, <2>1, <2>2, SetByteType
  <2>4. [data EXCEPT ![k] = data[k + 1], ![k + 1] = data[k]] = [d EXCEPT ![k + 1] = data[k]]
    BY Zenon
  <2> QED
    BY <1>6, <2>3, <2>4, MutateInv DEF SwapBytes
<1>7. ASSUME NoOp
      PROVE  IInv'
  BY <1>1, <1>7, MutateInv DEF NoOp
<1> QED
  BY <1>3, <1>4, <1>5, <1>6, <1>7 DEF MutateData

\* A diagnosis ends, and has told the truth.
LEMMA FinishTelling ==
  ASSUME Inv, NEW entry, NEW error \in Errors, NEW state, NEW told,
         Finish(entry, error, state, told),
         entry \notin {"round_trip", "unseal_state", "unseal_state_chunked"},
         DiagnosisIsTrue'
  PROVE  IInv'
<1>1. Inv' /\ result'.entry = entry
  BY FinishInv
<1>2. StreamInv'
  BY NotStreaming DEF Finish
<1> QED
  BY <1>1, <1>2, OtherOpener DEF IInv

\* What unseal_state calls malformed in the driver's environment is what _parse does.
LEMMA MalformedAgrees ==
  ASSUME NEW b \in ByteString
  PROVE  (UnsealError(Seals, b, Memh, 0, <<>>) = "malformed") = (ParseError(b) = "malformed")
<1>1. ~ArgumentFault(<<>>, 0) /\ KdfError(<<>>, 0) = "none"
  <2>1. <<>> \in ByteString /\ Len(<<>>) = 0 /\ 0 \in 0 .. MaxU64
    BY Arguments
  <2>2. ~ArgumentFault(<<>>, 0)
    BY <2>1, Widths DEF ArgumentFault, MaxLpField
  <2> QED
    BY <2>1, <2>2, NoEncodingError
<1>2. ParseError(b) \in {"none", "malformed"}
  BY ParseType
<1>3. CASE ParseError(b) = "malformed"
  BY <1>1, <1>3 DEF UnsealError
<1>4. CASE ParseError(b) = "none"
  <2>1. UnsealError(Seals, b, Memh, 0, <<>>) \in {"none", "mismatch"}
    BY <1>1, <1>4 DEF UnsealError
  <2> QED
    BY <1>4, <2>1
<1> QED
  BY <1>2, <1>3, <1>4

\* The sizes that describe_envelope tells.
LEMMA SizesTold ==
  ASSUME NEW b \in ByteString, ParseError(b) = "none"
  PROVE  /\ PrefixLen + U32Len + CiphertextBytes(b) = Len(b)
         /\ \A s \in Seals : b = s.envelope => CiphertextBytes(b) = Len(s.state) + TagLen
<1>1. PrefixLen + U32Len + CiphertextBytes(b) = Len(b)
  <2>1. Len(b) \in Nat /\ PrefixLen + U32Len \in Nat /\ PrefixLen \in Nat /\ U32Len \in Nat
    BY Cat, Widths
  <2>2. PrefixLen + U32Len <= Len(b)
    BY <2>1 DEF ParseError, ShorterThanHeader
  <2> DEFINE lo == PrefixLen + U32Len
  <2>3. lo \in Nat /\ lo <= Len(b)
    BY <2>1, <2>2
  <2> HIDE DEF lo
  <2>4. Len(From(b, lo)) = Len(b) - lo
    BY <2>3, FromType
  <2>5. CiphertextBytes(b) = Len(b) - lo
    BY <2>4 DEF CiphertextBytes, Ciphertext, lo
  <2> QED
    BY <2>1, <2>3, <2>5 DEF lo
<1>2. ASSUME NEW s \in Seals, b = s.envelope
      PROVE  CiphertextBytes(b) = Len(s.state) + TagLen
  <2>1. PICK a, m, e, c, r : Sealable(a, m, e, c, r) /\ s = Seal(a, m, e, c, r)
    BY HonestSeals DEF Honest
  <2>2. a \in ByteString /\ r \in Draws
    BY <2>1 DEF Sealable
  <2>3. Ciphertext(b) = BodyOf(a, r) /\ s.state = a
    BY <1>2, <2>1, EnvelopeParses, SealFields
  <2>4. Len(BodyOf(a, r)) = Len(a) + TagLen
    BY <2>2, DrawFields, JoinLen DEF BodyOf
  <2> QED
    BY <2>3, <2>4 DEF CiphertextBytes
<1> QED
  BY <1>1, <1>2

LEMMA TestInv ==
  ASSUME IInv, TestOneInput
  PROVE  IInv'
<1>1. Inv /\ data \in ByteString
  BY DEF IInv, Inv
<1>2. "none" \in Errors /\ "malformed" \in Errors
  BY DEF Errors, SCEErrors
<1>3. ASSUME TestNothing PROVE IInv'
  <2>1. Finish("none", "none", <<>>, <<>>)
    BY <1>3 DEF TestNothing
  <2>2. DiagnosisIsTrue'
    BY <1>1, <1>2, <2>1, FinishInv, OtherTeller
  <2> QED
    BY <1>1, <1>2, <2>1, <2>2, FinishTelling
<1>4. ASSUME TestUnseal PROVE IInv'
  <2>1. /\ Inv' /\ data' = data /\ result'.entry = "unseal_state"
        /\ IF data = StateSeal.envelope
             THEN result'.error = "none" /\ result'.state = State
             ELSE result'.error # "none"
    BY <1>1, <1>4, UnsealStep
  <2>2. StreamInv'
    BY <1>4, NotStreaming DEF TestUnseal, Finish
  <2>3. RoundTripExact' /\ OpensExactlyItsContainer'
    BY <2>1 DEF RoundTripExact, OpensExactlyItsContainer
  <2>4. OpensExactlyItsEnvelope'
    BY <2>1 DEF OpensExactlyItsEnvelope
  <2> QED
    BY <2>1, <2>2, <2>3, <2>4, OtherTeller DEF IInv, Exactness
<1>5. ASSUME TestDescribe PROVE IInv'
  <2>1. PICK told :
          /\ Finish("describe_envelope", ParseError(data), <<>>, told)
          /\ ParseError(data) = "none" => told = <<CiphertextBytes(data), Len(data)>>
    BY <1>5 DEF TestDescribe
  <2>2. ParseError(data) \in Errors
    BY <1>1, EntryErrors
  <2>3. /\ result'.entry = "describe_envelope" /\ result'.error = ParseError(data)
        /\ result'.told = told /\ data' = data
    BY <1>1, <2>1, <2>2, FinishInv
  <2>4. DiagnosisIsTrue'
    BY <1>1, <2>1, <2>3, SizesTold DEF DiagnosisIsTrue
  <2> QED
    BY <1>1, <2>1, <2>2, <2>4, FinishTelling
<1>6. ASSUME TestExplain PROVE IInv'
  <2>1. PICK error : /\ Finish("explain_mismatch", error, <<>>,
                               <<IF ParseError(data) = "malformed" THEN 0 ELSE 1>>)
                     /\ error = "none" \/ error = ParseError(data)
    BY <1>6 DEF TestExplain
  <2>2. error \in Errors
    BY <1>1, <1>2, <2>1, EntryErrors
  <2>3. /\ result'.entry = "explain_mismatch" /\ data' = data
        /\ result'.told = <<IF ParseError(data) = "malformed" THEN 0 ELSE 1>>
    BY <1>1, <2>1, <2>2, FinishInv
  <2>4. (result'.told = <<0>>) = (ParseError(data) = "malformed")
    <3>1. <<1>> # <<0>>
      OBVIOUS
    <3> QED
      BY <2>3, <3>1
  <2>5. DiagnosisIsTrue'
    BY <1>1, <2>3, <2>4, MalformedAgrees DEF DiagnosisIsTrue
  <2> QED
    BY <1>1, <2>1, <2>2, <2>5, FinishTelling
<1>7. ASSUME TestDescribeStream PROVE IInv'
  <2>1. PICK told :
          /\ Finish("describe_stream", StreamHeaderError(data), <<>>, told)
          /\ StreamHeaderError(data) = "none" =>
               told = <<SegmentsOf(data), SegmentSizeOf(data), TotalOf(data), Len(data)>>
    BY <1>7 DEF TestDescribeStream
  <2>2. StreamHeaderError(data) \in Errors
    BY <1>1, EntryErrors
  <2>3. result'.entry = "describe_stream" /\ result'.told = told /\ data' = data
    BY <1>1, <2>1, <2>2, FinishInv
  <2>4. data = Container =>
          told = <<Segments, SegmentSize, Len(ChunkedState), Len(Container)>>
    BY <2>1, ContainerHeader
  <2>5. DiagnosisIsTrue'
    BY <2>3, <2>4 DEF DiagnosisIsTrue
  <2> QED
    BY <1>1, <2>1, <2>2, <2>5, FinishTelling
<1>8. ASSUME TestRoundTrip PROVE IInv'
  <2>1. /\ Inv' /\ data' = data /\ result'.entry = "round_trip"
        /\ IF Len(PayloadState) <= MaxState
             THEN result'.error = "none" /\ result'.state = PayloadState
             ELSE result'.error = "SCEError"
    BY <1>1, <1>8, RoundTrip
  <2>2. StreamInv'
    BY <1>8, NotStreaming DEF TestRoundTrip, Finish
  <2>3. OpensExactlyItsEnvelope' /\ OpensExactlyItsContainer'
    BY <2>1 DEF OpensExactlyItsEnvelope, OpensExactlyItsContainer
  <2>4. RoundTripExact'
    BY <2>1 DEF RoundTripExact, PayloadState
  <2> QED
    BY <2>1, <2>2, <2>3, <2>4, OtherTeller DEF IInv, Exactness
<1>9. ASSUME TestUnsealChunked PROVE IInv'
  <2>1. ChunkedError \in Errors
    BY <1>1, <1>2, EntryErrors DEF ChunkedError
  <2>2. CASE ChunkedError # "none"
    <3>1. Finish("unseal_state_chunked", ChunkedError, <<>>, <<>>)
      BY <1>9, <2>2 DEF TestUnsealChunked
    <3>2. /\ Inv' /\ result'.entry = "unseal_state_chunked" /\ result'.error # "none"
          /\ data' = data
      BY <1>1, <2>1, <2>2, <3>1, FinishInv
    <3>3. StreamInv'
      BY <3>1, NotStreaming DEF Finish
    <3>4. data # Container
      BY <2>2, ContainerHeader
    <3> QED
      BY <3>2, <3>3, <3>4, OtherTeller
         DEF IInv, Exactness, RoundTripExact, OpensExactlyItsEnvelope, OpensExactlyItsContainer
  <2>3. CASE ChunkedError = "none"
    <3>1. /\ pc = "mutate" /\ pc' = "segments" /\ off' = StreamHeaderLen /\ data' = data
          /\ budget' = budget /\ i' = i /\ plain' = plain /\ result' = result
      BY <1>9, <2>3 DEF TestUnsealChunked, Testing
    <3>2. i = 0 /\ plain = <<>> /\ result = NoResult
      BY <1>1, <3>1 DEF Inv
    <3>3. StreamHeaderLen \in Nat /\ StreamHeaderLen <= Len(data)
      BY <1>1, <2>3, StreamHeaderParts, Widths DEF ChunkedError
    <3>4. Inv'
      BY <1>1, <2>3, <3>1, <3>2, <3>3 DEF Inv, ChunkedError, StreamHeaderError, HeaderFault,
         MaxPossible, SegmentsOf, TotalOf
    <3>5. StreamInv'
      <4>1. 0 * SegmentSize = 0 /\ Len(ChunkedState) \in Nat
        BY Arguments, Widths
      <4>2. Slice(ChunkedState, 0, 0) = <<>>
        BY <4>1, SubSeqEmpty DEF Slice
      <4> QED
        BY <3>1, <3>2, <3>3, <4>1, <4>2 DEF StreamInv
    <3>6. result'.entry = "none"
      BY <3>1, <3>2, NoResultFields
    <3> QED
      BY <3>4, <3>5, <3>6, OtherOpener, OtherTeller DEF IInv
  <2> QED
    BY <2>2, <2>3
<1> QED
  BY <1>3, <1>4, <1>5, <1>6, <1>7, <1>8, <1>9 DEF TestOneInput

LEMMA InvariantStep == IInv /\ [Next]_vars => IInv'
<1> SUFFICES ASSUME IInv, [Next]_vars PROVE IInv'
  OBVIOUS
<1>1. Inv /\ StreamInv
  BY DEF IInv
<1>2. ASSUME NEW b \in Inputs, TakeInput(b) PROVE IInv'
  <2>1. b \in ByteString /\ 0 \in 0 .. MaxOps
    BY FuzzAssumption
  <2> QED
    BY <1>1, <1>2, <2>1, ChooseInv DEF TakeInput
<1>3. ASSUME NEW b \in Artefacts, NEW ops \in 1 .. MaxOps, TakeArtefact(b, ops) PROVE IInv'
  <2>1. b \in ByteString /\ ops \in 0 .. MaxOps
    BY ArtefactType, Arguments
  <2> QED
    BY <1>1, <1>3, <2>1, ChooseInv DEF TakeArtefact
<1>4. CASE MutateData
  BY <1>1, <1>4, MutateDataInv
<1>5. CASE TestOneInput
  BY <1>5, TestInv
<1>6. CASE OpenSegment
  <2>1. CASE SegmentError = "none"
    <3>1. Inv' /\ StreamInv' /\ result' = result
      BY <1>1, <1>6, <2>1, OpenSegmentStep
    <3>2. result'.entry = "none"
      BY <1>1, <1>6, <3>1, NoResultFields DEF Inv, OpenSegment
    <3> QED
      BY <3>1, <3>2, OtherOpener, OtherTeller DEF IInv
  <2>2. CASE SegmentError # "none"
    <3>1. SegmentError \in Errors /\ Finish("unseal_state_chunked", SegmentError, <<>>, <<>>)
      BY <1>1, <1>6, <2>2, NextSegment DEF OpenSegment
    <3>2. /\ Inv' /\ result'.entry = "unseal_state_chunked" /\ result'.error # "none"
          /\ data' = data
      BY <1>1, <2>2, <3>1, FinishInv
    <3>3. StreamInv'
      BY <3>1, NotStreaming DEF Finish
    <3>4. data # Container
      BY <1>1, <1>6, <2>2, GenuineSegment DEF OpenSegment
    <3> QED
      BY <3>2, <3>3, <3>4, OtherTeller
         DEF IInv, Exactness, RoundTripExact, OpensExactlyItsEnvelope, OpensExactlyItsContainer
  <2> QED
    BY <2>1, <2>2
<1>7. CASE FinishStream
  <2>1. /\ Inv' /\ StreamInv' /\ data' = data /\ result'.entry = "unseal_state_chunked"
        /\ IF data = Container
             THEN result'.error = "none" /\ result'.state = ChunkedState
             ELSE result'.error # "none"
    BY <1>1, <1>7, FinishStreamStep
  <2> QED
    BY <2>1, OtherTeller
       DEF IInv, Exactness, RoundTripExact, OpensExactlyItsEnvelope, OpensExactlyItsContainer
<1>8. CASE NextInput
  <2>1. /\ pc = "done" /\ pc' = "choose" /\ data' = <<>> /\ result' = NoResult
        /\ budget' = budget /\ i' = i /\ off' = off /\ plain' = plain
    BY <1>8 DEF NextInput, callVars
  <2>2. Inv'
    BY <1>1, <2>1, Arguments, NoResultFields DEF Inv
  <2>3. result'.entry = "none" /\ pc' # "segments"
    BY <2>1, NoResultFields
  <2> QED
    BY <2>2, <2>3, OtherOpener, OtherTeller, NotStreaming DEF IInv
<1>9. CASE UNCHANGED vars
  BY <1>9 DEF vars, callVars, IInv, Inv, StreamInv, Exactness, DiagnosisIsTrue, RoundTripExact, OpensExactlyItsEnvelope,
     OpensExactlyItsContainer, ChunkedError, StreamHeaderError, HeaderFault, MaxPossible,
     SegmentsOf, SegmentSizeOf, TotalOf, HeaderInt, StreamIdOf, PayloadState
<1> QED
  BY <1>2, <1>3, <1>4, <1>5, <1>6, <1>7, <1>8, <1>9 DEF Next

LEMMA InvariantInit == Init => IInv
<1> SUFFICES ASSUME Init PROVE IInv
  OBVIOUS
<1>1. Inv /\ result.entry = "none" /\ pc # "segments"
  BY InvInit, NoResultFields DEF Init
<1> QED
  BY <1>1 DEF IInv, StreamInv, Exactness, DiagnosisIsTrue, RoundTripExact,
     OpensExactlyItsEnvelope, OpensExactlyItsContainer

LEMMA Invariant == Spec => []IInv
BY InvariantInit, InvariantStep, PTL DEF Spec

LEMMA InvType == Inv => TypeOK /\ OnlySCEErrorsEscape
BY DEF Inv, TypeOK, OnlySCEErrorsEscape, Errors, SCEErrors

LEMMA IInvType == IInv => TypeOK /\ OnlySCEErrorsEscape
BY InvType DEF IInv

\* What the invariant says of the bytes read so far keeps them inside the container.
LEMMA ReadsInside ==
  ASSUME Inv, StreamInv
  PROVE  ReadsWithinContainer
<1> SUFFICES ASSUME pc = "segments"
             PROVE  /\ off <= Len(data)
                    /\ StreamHeaderLen + i * FrameRoom <= off
                    /\ SegmentsOf(data) <= Len(data)
  BY DEF ReadsWithinContainer, FrameRoom
<1>1. /\ data \in ByteString /\ i \in Nat /\ off \in Nat /\ ChunkedError = "none"
      /\ Len(data) \in Nat /\ StreamHeaderLen \in Nat /\ U64Len \in Nat
      /\ off <= Len(data)
  BY Cat, Widths DEF Inv, StreamInv
<1>2. StreamHeaderLen + i * FrameRoom <= off
  <2>1. CASE i = 0
    BY <1>1, <2>1, BaseLen DEF StreamInv
  <2>2. CASE i # 0
    <3>1. /\ i \in 1 .. Segments /\ i \in 0 .. Segments
          /\ Slice(data, 0, off) = Base(i)
      BY <1>1, <2>2, SegmentsBounds DEF StreamInv, Base
    <3>2. Len(Slice(data, 0, off)) = off - 0
      BY <1>1, SliceType
    <3> QED
      BY <1>1, <3>1, <3>2, BaseLen
  <2> QED
    BY <2>1, <2>2
<1>3. SegmentsOf(data) <= Len(data)
  <2> DEFINE n == Len(data) - StreamHeaderLen
             d == U64Len + 1
             q == n \div d
             m == SegmentsOf(data)
  <2>1. /\ StreamHeaderError(data) = "none" /\ ~ (m > MaxPossible)
        /\ n \in Nat /\ d \in Nat \ {0} /\ n <= Len(data) /\ MaxPossible = q
    BY <1>1 DEF ChunkedError, StreamHeaderError, HeaderFault, MaxPossible
  <2>2. m \in Nat
    BY <1>1, <2>1, StreamHeaderParts
  <2> HIDE DEF n, d, m
  <2>3. q \in Nat /\ d * q <= n
    BY <2>1, Division
  <2> HIDE DEF q
  <2>4. q <= d * q
    BY <2>1, <2>3
  <2>5. m <= Len(data)
    BY <1>1, <2>1, <2>2, <2>3, <2>4
  <2> QED
    BY <2>5 DEF m
<1> QED
  BY <1>1, <1>2, <1>3

LEMMA IInvProperties ==
  IInv => /\ RoundTripExact /\ OpensExactlyItsEnvelope /\ OpensExactlyItsContainer
          /\ DiagnosisIsTrue /\ ReadsWithinContainer
BY ReadsInside DEF IInv, Exactness

\* The state of the driver and of the container loop has its type.
THEOREM TypeCorrect == Spec => []TypeOK
BY Invariant, IInvType, PTL

\* No bytes make an entry point raise anything but the library's own exceptions.
THEOREM NothingElseEscapes == Spec => []OnlySCEErrorsEscape
BY Invariant, IInvType, PTL

\* What seal_state accepts comes back as it was.
THEOREM RoundTripCorrect == Spec => []RoundTripExact
BY Invariant, IInvProperties, PTL

\* The artefact's bytes open as its envelope, and no others.
THEOREM EnvelopeExact == Spec => []OpensExactlyItsEnvelope
BY Invariant, IInvProperties, PTL

\* The artefact's bytes open as its container, and no others.
THEOREM ContainerExact == Spec => []OpensExactlyItsContainer
BY Invariant, IInvProperties, PTL

\* The loop over a container's segments stays inside it, and does no more turns than
\* the bytes read pay for.
THEOREM ReadsInsideContainer == Spec => []ReadsWithinContainer
BY Invariant, IInvProperties, PTL

\* What is told of an envelope or a container is what unsealing acts on.
THEOREM DiagnosisCorrect == Spec => []DiagnosisIsTrue
BY Invariant, IInvProperties, PTL
===============================================================================
