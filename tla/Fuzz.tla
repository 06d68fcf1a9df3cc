--------------------------------- MODULE Fuzz ---------------------------------
(***************************************************************************)
(* fuzz/fuzz_envelope.py: the driver that makes inputs, at random or by    *)
(* mutating valid artefacts, and TestOneInput, which hands each to one of  *)
(* the public entry points.  The library below it is Wire's; the loop of   *)
(* unseal_state_chunked over the segments of a container runs one segment  *)
(* per step, on bytes.                                                     *)
(***************************************************************************)
EXTENDS Wire, SequencesExt

CONSTANTS
  Memh,             \* the fingerprint of MANIFEST
  Draw,             \* what os.urandom and the KDF give seal 1, 2, ...
  StreamId,         \* the stream id of the container among the artefacts
  State, Epoch7, Ctx,            \* the arguments of the artefacts
  ChunkedState, SegmentSize,
  Inputs,           \* bound: the generated inputs that are not mutations, and the corpus
  Tails,            \* bound: what op 3 of mutate appends
  MaxOps            \* bound: operations of one mutate call

\* The number of segments of the chunked artefact.
Segments == (Len(ChunkedState) + SegmentSize - 1) \div SegmentSize

ASSUME FuzzAssumption ==
  /\ {Memh, StreamId, State, Ctx, ChunkedState} \cup Inputs \cup Tails \subseteq ByteString
  /\ Len(Memh) = MemhLen /\ Len(StreamId) = StreamIdLen
  /\ Epoch7 \in 1 .. MaxU64
  /\ SegmentSize \in 1 .. MaxState /\ MaxOps \in Nat
  /\ U64Len >= 2 /\ MaxU32 >= 4
  /\ Len(State) <= MaxState /\ Len(Ctx) <= MaxLpField
\* A container that can be packed.
ASSUME ContainerAssumption ==
  /\ Len(ChunkedState) \in 1 .. MaxU64
  /\ PrefixLen + U32Len + SegmentSize + TagLen <= MaxU64
  /\ Len(SegContext(<<>>, StreamId, 0, 0, 0, 0)) <= MaxLpField
ASSUME DrawAssumption == Draw \in Seq(Draws) /\ Len(Draw) >= Segments + 3

VARIABLES
  pc,        \* "choose", "mutate", "segments" or "done"
  data,      \* the payload: the input without its first byte, the selector
  budget,    \* mutations still to make
  i, off,    \* unseal_state_chunked: segments opened, offset of the next one
  plain,     \*   their plaintexts, joined (parts)
  result     \* how TestOneInput ended: [entry, error, state, told]

callVars == <<i, off, plain>>
vars     == <<pc, data, budget, callVars, result>>

NoResult == [entry |-> "none", error |-> "none", state |-> <<>>, told |-> <<>>]
-------------------------------------------------------------------------------
(***************************************************************************)
(* seeds_for_generation.                                                   *)
(***************************************************************************)
ChunkSeals ==
  [k \in 1 .. Segments |->
     Seal(Slice(ChunkedState, (k - 1) * SegmentSize, k * SegmentSize), Memh, 0,
          SegContext(<<>>, StreamId, k - 1, Segments, Len(ChunkedState), SegmentSize),
          Draw[k + 2])]

Container ==
  StreamHeader(StreamId, Segments, SegmentSize, Len(ChunkedState))
    \o FlattenSeq([k \in 1 .. Segments |-> Frame(ChunkSeals[k].envelope)])

StateSeal == Seal(State, Memh, 0, <<>>, Draw[1])
EmptySeal == Seal(<<>>, Memh, Epoch7, Ctx, Draw[2])

Seals == {StateSeal, EmptySeal} \cup {ChunkSeals[k] : k \in 1 .. Segments}

Artefacts == {StateSeal.envelope, EmptySeal.envelope, Container}
-------------------------------------------------------------------------------
(***************************************************************************)
(* Making an input.                                                        *)
(***************************************************************************)
\* Random bytes, random bytes after a magic, or a corpus entry: taken as it is.
TakeInput(b) ==
  /\ pc = "choose"
  /\ data' = b /\ budget' = 0
  /\ pc' = "mutate"
  /\ UNCHANGED <<callVars, result>>

TakeArtefact(b, ops) ==
  /\ pc = "choose"
  /\ data' = b /\ budget' = ops
  /\ pc' = "mutate"
  /\ UNCHANGED <<callVars, result>>

\* Mutant: the loop of mutate takes one turn too many.
TurnLeftOrNone == budget >= 0

TurnLeft == budget > 0

Mutate(b) ==
  /\ pc = "mutate" /\ TurnLeft
  /\ data' = b
  /\ budget' = budget - 1
  /\ UNCHANGED <<pc, callVars, result>>

\* Ops 0 and 1: a bit flipped, a byte replaced.
SetByte(k, b) == Mutate([data EXCEPT ![k] = b])

Truncate(n) == Len(data) > 1 /\ Mutate(SubSeq(data, 1, n))

AppendBytes(tail) == Mutate(data \o tail)

SwapBytes(k) ==
  /\ Len(data) > 2
  /\ Mutate([data EXCEPT ![k] = data[k + 1], ![k + 1] = data[k]])

\* The operation drawn does not apply to so short an input.
NoOp == Len(data) <= 2 /\ Mutate(data)
-------------------------------------------------------------------------------
(***************************************************************************)
(* TestOneInput.                                                           *)
(***************************************************************************)
Testing == pc = "mutate" /\ budget = 0

Finish(entry, error, state, told) ==
  /\ pc' = "done"
  /\ result' = [entry |-> entry, error |-> error, state |-> state, told |-> told]
  /\ i' = 0 /\ off' = 0 /\ plain' = <<>>
  /\ UNCHANGED <<data, budget>>

\* No bytes at all, not even a selector.
TestNothing == Testing /\ data = <<>> /\ Finish("none", "none", <<>>, <<>>)

TestUnseal ==
  LET error == UnsealError(Seals, data, Memh, 0, <<>>)
  IN  /\ Testing
      /\ Finish("unseal_state", error,
                IF error = "none" THEN Unsealed(Seals, data, Memh, 0, <<>>) ELSE <<>>, <<>>)

TestDescribe ==
  /\ Testing
  /\ Finish("describe_envelope", ParseError(data), <<>>,
            IF ParseError(data) = "none" THEN <<CiphertextBytes(data), Len(data)>> ELSE <<>>)

\* explain_mismatch catches MalformedEnvelope and says so: told[1] is 0.
TestExplain ==
  LET caught == ParseError(data) = "malformed"
  IN  /\ Testing
      /\ Finish("explain_mismatch", IF caught THEN "none" ELSE ParseError(data), <<>>,
                <<IF caught THEN 0 ELSE 1>>)

TestDescribeStream ==
  LET error == StreamHeaderError(data)
  IN  /\ Testing
      /\ Finish("describe_stream", error, <<>>,
                IF error = "none"
                  THEN <<SegmentsOf(data), SegmentSizeOf(data), TotalOf(data), Len(data)>>
                  ELSE <<>>)

\* The sixth entry: seal and unseal with an epoch, a context and a state taken
\* from the payload.  The envelope is dropped at the end.
PayloadEpoch ==
  IF Len(data) >= 2 THEN Unpack64(From(U64[0], 2) \o Slice(data, 0, 2)) ELSE 0
PayloadCtx   == Slice(data, 2, 6)
PayloadState == From(data, 6)

TestRoundTrip ==
  LET s == Seal(PayloadState, Memh, PayloadEpoch, PayloadCtx, Last(Draw))
      sealError   == SealError(PayloadState, PayloadCtx, PayloadEpoch)
      unsealError == UnsealError(Seals \cup {s}, s.envelope, Memh, PayloadEpoch, PayloadCtx)
      opened == Unsealed(Seals \cup {s}, s.envelope, Memh, PayloadEpoch, PayloadCtx)
  IN  /\ Testing
      /\ IF sealError # "none" THEN Finish("round_trip", sealError, <<>>, <<>>)
         ELSE IF unsealError # "none" THEN Finish("round_trip", unsealError, <<>>, <<>>)
         ELSE IF opened # PayloadState THEN Finish("round_trip", "FuzzFailure", <<>>, <<>>)
         ELSE Finish("round_trip", "none", opened, <<>>)

\* unseal_state_chunked up to its loop.
MaxPossible == (Len(data) - StreamHeaderLen) \div (U64Len + 1)

\* Mutant: the declared number of segments is not held against the container.
HeaderFaultUncounted == SegmentsOf(data) = 0 \/ (TotalOf(data) = 0 /\ SegmentsOf(data) # 1)

HeaderFault ==
  \/ SegmentsOf(data) = 0
  \/ TotalOf(data) = 0 /\ SegmentsOf(data) # 1
  \/ SegmentsOf(data) > MaxPossible

ChunkedError ==
  IF StreamHeaderError(data) # "none" THEN StreamHeaderError(data)
  ELSE IF HeaderFault THEN "malformed" ELSE "none"

TestUnsealChunked ==
  /\ Testing
  /\ IF ChunkedError # "none" THEN Finish("unseal_state_chunked", ChunkedError, <<>>, <<>>)
     ELSE /\ pc' = "segments"
          /\ off' = StreamHeaderLen
          /\ UNCHANGED <<data, budget, i, plain, result>>

\* The next segment's declared length, its envelope and its context.
FrameLen == Unpack64(Slice(data, off, off + U64Len))
Envelope == Slice(data, off + U64Len, off + U64Len + FrameLen)
Context  == SegContext(<<>>, StreamIdOf(data), i, SegmentsOf(data),
                       TotalOf(data), SegmentSizeOf(data))

\* Mutant: the declared length of a segment is not held against the container.
FrameFaultPrefixOnly == off + U64Len > Len(data)

\* No room for a length prefix, or fewer bytes after it than it declares.
FrameFault == off + U64Len > Len(data) \/ FrameLen > Len(data) - off - U64Len

SegmentError ==
  IF FrameFault THEN "malformed"
  ELSE IF SegContextError(<<>>) # "none" THEN SegContextError(<<>>)
  ELSE UnsealError(Seals, Envelope, Memh, 0, Context)

OpenSegment ==
  /\ pc = "segments" /\ i < SegmentsOf(data)
  /\ IF SegmentError # "none"
       THEN Finish("unseal_state_chunked", SegmentError, <<>>, <<>>)
       ELSE /\ plain' = plain \o Unsealed(Seals, Envelope, Memh, 0, Context)
            /\ off' = off + U64Len + FrameLen
            /\ i' = i + 1
            /\ UNCHANGED <<pc, data, budget, result>>

\* Mutant: bytes after the declared segments are let through.
TrailingIgnored == off > Len(data)

Trailing == off # Len(data)

AssembledError ==
  IF Trailing THEN "malformed"
  ELSE IF Len(plain) # TotalOf(data) THEN "mismatch" ELSE "none"

FinishStream ==
  /\ pc = "segments" /\ i = SegmentsOf(data)
  /\ Finish("unseal_state_chunked", AssembledError,
            IF AssembledError = "none" THEN plain ELSE <<>>, <<>>)

\* SCEErrors are the documented contract; any other exception ends the run.
SCEErrors == {"SCEError", "malformed", "mismatch"}

NextInput ==
  /\ pc = "done"
  /\ result.error \in SCEErrors \cup {"none"}
  /\ pc' = "choose" /\ data' = <<>> /\ result' = NoResult
  /\ UNCHANGED <<budget, callVars>>
-------------------------------------------------------------------------------
Init ==
  /\ pc = "choose" /\ data = <<>> /\ budget = 0
  /\ i = 0 /\ off = 0 /\ plain = <<>>
  /\ result = NoResult

MutateData ==
  \/ \E k \in DOMAIN data, b \in Byte : SetByte(k, b)
  \/ \E n \in 0 .. Len(data) - 1 : Truncate(n)
  \/ \E tail \in Tails : AppendBytes(tail)
  \/ \E k \in 1 .. Len(data) - 1 : SwapBytes(k)
  \/ NoOp

TestOneInput ==
  \/ TestNothing \/ TestUnseal \/ TestDescribe \/ TestExplain
  \/ TestUnsealChunked \/ TestDescribeStream \/ TestRoundTrip

Next ==
  \/ \E b \in Inputs : TakeInput(b)
  \/ \E b \in Artefacts, ops \in 1 .. MaxOps : TakeArtefact(b, ops)
  \/ MutateData
  \/ TestOneInput
  \/ OpenSegment
  \/ FinishStream
  \/ NextInput

Spec == Init /\ [][Next]_vars
-------------------------------------------------------------------------------
\* Type invariant.
TypeOK ==
  /\ pc \in {"choose", "mutate", "segments", "done"}
  /\ data \in ByteString /\ budget \in 0 .. MaxOps
  /\ i \in Nat /\ off \in Nat /\ plain \in ByteString
  /\ result.error \in SCEErrors \cup {"none", "struct.error", "OverflowError", "FuzzFailure"}

\* Whatever the bytes, no exception but the library's own leaves an entry point
\* (fuzz_envelope.py lines 11-17): no unpack of a short slice, no pack or
\* to_bytes out of range; and no round trip changes a state.
OnlySCEErrorsEscape == result.error \in SCEErrors \cup {"none"}

\* seal_state accepts exactly the states that fit its frame, the largest one
\* included, and what it accepts comes back as it was, with any epoch and context.
RoundTripExact ==
  result.entry = "round_trip" =>
    IF Len(PayloadState) <= MaxState
      THEN result.error = "none" /\ result.state = PayloadState
      ELSE result.error = "SCEError"

\* Of all byte strings exactly one opens, the artefact sealed in this environment,
\* and it gives its own state: no mutation of the frame, the length or a field leads
\* to other bytes that unseal_state reads as the same envelope.
OpensExactlyItsEnvelope ==
  result.entry = "unseal_state" =>
    IF data = StateSeal.envelope
      THEN result.error = "none" /\ result.state = State
      ELSE result.error # "none"

\* The same for a container: its own bytes, from the header to the last frame, and
\* nothing else, are put together to its state.
OpensExactlyItsContainer ==
  result.entry = "unseal_state_chunked" =>
    IF data = Container
      THEN result.error = "none" /\ result.state = ChunkedState
      ELSE result.error # "none"

\* Reading never runs past the container, although a slice that does gives no error,
\* and an envelope still opens whose frame declares more than is there: between two
\* turns of the loop the next offset is inside, the segments that opened take at
\* least what their frames and envelopes need, and the header declares no
\* more segments than there are bytes.  So a call does no more turns than its input
\* pays for.
ReadsWithinContainer ==
  pc = "segments" =>
    /\ off <= Len(data)
    /\ StreamHeaderLen + i * (U64Len + PrefixLen + U32Len + TagLen) <= off
    /\ SegmentsOf(data) <= Len(data)

\* What an operator reads about an envelope is what unseal_state acts on:
\* explain_mismatch, called when unsealing was refused, calls invalid exactly
\* what unseal_state calls malformed; the sizes told account for every byte; and
\* the header fields told of a container are those it was sealed with.
DiagnosisIsTrue ==
  /\ result.entry = "explain_mismatch" =>
       (result.told = <<0>>) = (UnsealError(Seals, data, Memh, 0, <<>>) = "malformed")
  /\ result.entry = "describe_envelope" /\ result.error = "none" =>
       /\ PrefixLen + U32Len + result.told[1] = result.told[2]
       /\ \A s \in Seals : data = s.envelope => result.told[1] = Len(s.state) + TagLen
  /\ result.entry = "describe_stream" /\ data = Container =>
       result.told = <<Segments, SegmentSize, Len(ChunkedState), Len(Container)>>
===============================================================================
