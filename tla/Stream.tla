-------------------------------- MODULE Stream --------------------------------
(***************************************************************************)
(* seal_state_chunked and unseal_state_chunked of sce/stream.py, one       *)
(* segment per step, and the carrier that keeps the containers in between  *)
(* and may reorder, drop, repeat, splice, cut, extend or damage what it    *)
(* hands back, header included.                                            *)
(*                                                                         *)
(* Stream ids, salts and nonces are numbered in the order os.urandom       *)
(* returns them, so a fresh one is one never drawn before.                 *)
(***************************************************************************)
EXTENDS SCECrypto, StreamFraming, FiniteSetsExt, SequencesExt

CONSTANTS Secrets, Memhs, Epochs, Contexts,  \* the valid arguments of a call
          Environments,                      \* the combinations of them in use
          Byte, States,                      \* the byte strings that get sealed
          SegmentSizes,                      \* the segment_size values in use
          MaxStreams,                        \* bound: streams sealed in a behaviour
          MaxEdits,                          \* bound: carrier edits of one container
          None                               \* no value: an unset local

\* What the abstract store holds.
StoredItems == [env : Environments, state : States]

ASSUME EnvironmentsAssumption ==
  Environments \subseteq
    [secret : Secrets, memh : Memhs, epoch : Epochs, context : Contexts]
ASSUME StatesAssumption       == States \subseteq Seq(Byte)
ASSUME SegmentSizesAssumption == SegmentSizes \subseteq Nat \ {0}
ASSUME NoneAssumption         ==
  /\ None \notin States \cup Environments
  /\ None \notin StoredItems
  /\ None \notin [item : StoredItems \cup {None}, env : Environments]
  /\ None \notin [opened : BOOLEAN, state : States \cup {None}]
ASSUME BoundsAssumption       == MaxStreams \in Nat /\ MaxEdits \in Nat

VARIABLES
  streams,     \* every stream begun, by stream id: its arguments and segments so far
  drawn,       \* how many salts, and as many nonces, os.urandom has returned
  pc,          \* "idle", "sealing", "header", "segments" or "returned"
  badArg,      \* the bad argument of the running call that its own checks let through
  container,   \* what the carrier holds out for opening, or None
  edits,       \* how many times it has been edited
  env,         \* the environment presented to unseal_state_chunked
  i,           \* segments opened so far
  plain,       \* their plaintexts, joined (parts)
  assembled,   \* the running length
  outcome, released

callVars == <<pc, badArg, env, i, plain, assembled, outcome, released>>
heldVars == <<container, edits>>
vars     == <<streams, drawn, callVars, heldVars>>

Idle == pc = "idle"

\* A call ends with `result', handing `state' to its caller; its locals are gone.
Return(result, state) ==
  /\ pc' = "returned"
  /\ outcome' = result
  /\ released' = state
  /\ i' = 0 /\ plain' = <<>> /\ assembled' = 0
  /\ UNCHANGED <<badArg, env>>
-------------------------------------------------------------------------------
(***************************************************************************)
(* The segment context, and containers.                                    *)
(***************************************************************************)
\* Mutants: a factor is left out of the segment context.
SegContextWithoutIndex(user, id, index, n, total, size) ==
  [user |-> user, stream |-> id, segments |-> n, total |-> total, size |-> size]

SegContextWithoutStream(user, id, index, n, total, size) ==
  [user |-> user, index |-> index, segments |-> n, total |-> total, size |-> size]

SegContextWithoutTotal(user, id, index, n, total, size) ==
  [user |-> user, stream |-> id, index |-> index, segments |-> n, size |-> size]

SegContextWithoutUser(user, id, index, n, total, size) ==
  [stream |-> id, index |-> index, segments |-> n, total |-> total, size |-> size]

SegContext(user, id, index, n, total, size) ==
  [user |-> user, stream |-> id, index |-> index,
   segments |-> n, total |-> total, size |-> size]

SegEnv(e, header, index) ==
  [e EXCEPT !.context = SegContext(e.context, header.id, index,
                                   header.n, header.total, header.size)]

\* `form' is "stream" unless the header is cut short, has another magic or
\* version, or the container is not a byte string.
Header(id) ==
  [form |-> "stream", id |-> id,
   n |-> NumSegments(Len(streams[id].state), streams[id].size),
   size |-> streams[id].size, total |-> Len(streams[id].state)]

\* A framed segment: the declared length, and the envelope bytes that are there.
Frame(envelope) == [claim |-> EnvelopeSize(envelope), envelope |-> envelope]

\* `tail' counts trailing bytes, too few for a length prefix.
ContainerOf(id) ==
  [header |-> Header(id),
   body |-> [k \in DOMAIN streams[id].envelopes |-> Frame(streams[id].envelopes[k])],
   tail |-> 0]

\* Mutant: the loop takes one turn too many.
CompletePastEnd(id) == Len(streams[id].envelopes) = Header(id).n + 1

Complete(id) == Len(streams[id].envelopes) = Header(id).n

\* The bytes of a container from its frame k on.
BytesFrom(c, k) ==
  c.tail + MapThenSumSet(LAMBDA j : SegFrameLen + EnvelopeSize(c.body[j].envelope),
                         k .. Len(c.body))

\* What slicing the declared number of bytes gives.
Slice(f) ==
  IF f.claim = EnvelopeSize(f.envelope) THEN f.envelope
  ELSE IF f.claim < HeaderLen + CtLenLen THEN [f.envelope EXCEPT !.form = "short"]
  ELSE CutCiphertext(f.envelope, f.claim - HeaderLen - CtLenLen)
-------------------------------------------------------------------------------
(***************************************************************************)
(* seal_state_chunked.                                                     *)
(***************************************************************************)

\* A wrong manifest, state, context or segment_size: nothing is drawn.
SealChunkedRejected ==
  /\ Idle
  /\ Return("SCEError", None)
  /\ UNCHANGED <<streams, drawn, heldVars>>

\* The arguments pass; the stream id is drawn and the header packed.
SealChunked(e, state, size, bad) ==
  /\ Idle
  /\ Len(streams) < MaxStreams
  /\ streams' = Append(streams, [env |-> e, state |-> state, size |-> size, envelopes |-> <<>>])
  /\ pc' = "sealing"
  /\ badArg' = bad
  /\ UNCHANGED <<drawn, env, i, plain, assembled, outcome, released, heldVars>>

\* A context too long for the four-byte prefix of _lp overflows it; seal_state and
\* unseal_state check the epoch and the secret (sealing, after salt and nonce are
\* drawn).
LpError     == "OverflowError"
EpochError  == "SCEError"
SecretError == "SCEError"

\* How a first turn that meets a bad argument ends.
BadArgError(arg) ==
  IF arg = "context" THEN LpError ELSE IF arg = "epoch" THEN EpochError ELSE SecretError

\* Mutant: salt and nonce are drawn once for the whole stream.
DrawOnce(index) == IF index = 0 THEN drawn + 1 ELSE drawn

Draw(index) == drawn + 1

\* One turn of the loop.
SealSegment ==
  LET id    == Len(streams)
      s     == streams[id]
      index == Len(s.envelopes)
  IN  /\ pc = "sealing"
      /\ ~ Complete(id)
      /\ UNCHANGED heldVars
      /\ \/ /\ badArg # "none"
            /\ Return(BadArgError(badArg), None)
            /\ drawn' = IF badArg = "secret" THEN drawn + 1 ELSE drawn
            /\ UNCHANGED streams
         \/ /\ badArg = "none"
            /\ streams' = [streams EXCEPT ![id].envelopes =
                 Append(@, SealEnvelope(Segment(s.state, s.size, index),
                                        SegEnv(s.env, Header(id), index),
                                        Draw(index), Draw(index)))]
            /\ drawn' = Draw(index)
            /\ UNCHANGED callVars

SealDone ==
  /\ pc = "sealing"
  /\ Complete(Len(streams))
  /\ Return("sealed", None)
  /\ UNCHANGED <<streams, drawn, heldVars>>
-------------------------------------------------------------------------------
(***************************************************************************)
(* The carrier.                                                            *)
(***************************************************************************)
Fetch(id) ==
  /\ Idle
  /\ container = None
  /\ Complete(id)
  /\ container' = ContainerOf(id)
  /\ edits' = 0
  /\ UNCHANGED <<streams, drawn, callVars>>

Edit(c) ==
  /\ Idle
  /\ edits < MaxEdits
  /\ container' = c
  /\ edits' = edits + 1
  /\ UNCHANGED <<streams, drawn, callVars>>

WithBody(b)      == [container EXCEPT !.body = b]
WithEnvelope(k, e) == [container EXCEPT !.body[k].envelope = e]

Reorder(j, k) ==
  LET b == container.body
  IN  Edit(WithBody([b EXCEPT ![j] = b[k], ![k] = b[j]]))

Drop(k) == Edit(WithBody(RemoveAt(container.body, k)))

\* Segment m of stream id, this one or another, put in the place of frame k.
Splice(k, id, m) ==
  Edit(WithBody(ReplaceAt(container.body, k, ContainerOf(id).body[m])))

Extend(id, m) == Edit(WithBody(Append(container.body, ContainerOf(id).body[m])))

\* The header of one envelope on the ciphertext of another.
Regraft(k, id, m) ==
  Edit(WithEnvelope(k, [container.body[k].envelope EXCEPT
                          !.prefix = streams[id].envelopes[m].prefix]))

FlipCiphertext(k) ==
  LET e == container.body[k].envelope
  IN  Edit(WithEnvelope(k, CutCiphertext(e, e.ct.len)))

BreakMagic(k) ==
  Edit(WithEnvelope(k, [container.body[k].envelope EXCEPT !.prefix.magic = "SCES"]))

Misframe(k, claim) == Edit([container EXCEPT !.body[k].claim = claim])

\* The container ends in the middle of its last envelope.
CutEnvelope ==
  LET k == Len(container.body)
      e == container.body[k].envelope
  IN  /\ k > 0 /\ container.tail = 0 /\ e.ct.len > 0
      /\ Edit(WithEnvelope(k, CutCiphertext(e, e.ct.len - 1)))

\* The container ends in the middle of its last length prefix.
CutPrefix ==
  /\ container.body # <<>>
  /\ Edit([container EXCEPT !.body = Front(@), !.tail = 1])

Trail == Edit([container EXCEPT !.tail = 1])

SetHeader(h) == Edit([container EXCEPT !.header = h])

HeaderEdits(h) ==
       {[h EXCEPT !.form = "bad"]}
  \cup {[h EXCEPT !.id = x] : x \in 0 .. Len(streams)}
  \cup {[h EXCEPT !.n = x] : x \in 0 .. Len(container.body) + 1}
  \cup {[h EXCEPT !.size = x] : x \in SegmentSizes}
  \cup {[h EXCEPT !.total = x] : x \in 0 .. h.total + 1}

Rearrange ==
  /\ container # None
  /\ \/ \E j, k \in DOMAIN container.body : j < k /\ Reorder(j, k)
     \/ \E k \in DOMAIN container.body :
          \/ Drop(k)
          \/ FlipCiphertext(k)
          \/ BreakMagic(k)
          \/ \E d \in {-1, 1} : Misframe(k, container.body[k].claim + d)
          \/ Misframe(k, TagLen)
     \/ \E id \in DOMAIN streams : \E m \in DOMAIN streams[id].envelopes :
          \/ Complete(id) /\ Extend(id, m)
          \/ \E k \in DOMAIN container.body :
               Complete(id) /\ (Splice(k, id, m) \/ Regraft(k, id, m))
     \/ CutEnvelope
     \/ CutPrefix
     \/ Trail
     \/ \E h \in HeaderEdits(container.header) : SetHeader(h)
-------------------------------------------------------------------------------
(***************************************************************************)
(* unseal_state_chunked.                                                   *)
(***************************************************************************)

\* A wrong manifest or context.
UnsealChunkedRejected ==
  /\ Idle
  /\ container # None
  /\ Return("SCEError", None)
  /\ UNCHANGED <<streams, drawn, heldVars>>

UnsealChunked(e, bad) ==
  /\ Idle
  /\ container # None
  /\ pc' = "header"
  /\ env' = e
  /\ badArg' = bad
  /\ UNCHANGED <<streams, drawn, i, plain, assembled, outcome, released, heldVars>>

HeaderFault(c) ==
  \/ c.header.form # "stream"
  \/ c.header.n = 0
  \/ c.header.total = 0 /\ c.header.n # 1
  \/ c.header.n > MaxPossible(StreamHeaderLen + BytesFrom(c, 1))

ParseStreamHeader ==
  /\ pc = "header"
  /\ UNCHANGED <<streams, drawn, heldVars>>
  /\ \/ HeaderFault(container) /\ Return("malformed", None)
     \/ /\ ~ HeaderFault(container)
        /\ pc' = "segments"
        /\ UNCHANGED <<badArg, env, i, plain, assembled, outcome, released>>

\* The next segment cannot be framed: no length prefix, or too few bytes.
\* Mutant: a segment that ends where the container ends is refused.
FrameFaultAtEnd(c, k) ==
  k \in DOMAIN c.body => c.body[k].claim >= BytesFrom(c, k) - SegFrameLen

FrameFault(c, k) ==
  k \in DOMAIN c.body => c.body[k].claim > BytesFrom(c, k) - SegFrameLen

\* The envelope cut out for the next segment.
NextBlob == Slice(container.body[i + 1])

\* How the turn ends for it: segment context, epoch check, parse, secret check, open.
SegmentVerdict ==
  CASE badArg \in {"context", "epoch"}                 -> BadArgError(badArg)
    [] badArg \in {"none", "secret"} /\ ~ WellFormed(NextBlob) -> "malformed"
    [] badArg = "secret" /\ WellFormed(NextBlob)       -> SecretError
    [] badArg = "none" /\ WellFormed(NextBlob)         ->
         IF Opens(NextBlob, SegEnv(env, container.header, i)) THEN "opened" ELSE "mismatch"

\* Mutant: a segment that does not open is tried again.
RetrySegment == UNCHANGED callVars

RefuseSegment == Return(SegmentVerdict, None)

\* One turn of the loop.
OpenSegment ==
  /\ pc = "segments"
  /\ i < container.header.n
  /\ UNCHANGED <<streams, drawn, heldVars>>
  /\ \/ FrameFault(container, i + 1) /\ Return("malformed", None)
     \/ /\ ~ FrameFault(container, i + 1)
        /\ SegmentVerdict # "opened"
        /\ RefuseSegment
     \/ /\ ~ FrameFault(container, i + 1)
        /\ SegmentVerdict = "opened"
        /\ plain' = plain \o NextBlob.ct.plain
        /\ assembled' = assembled + Len(NextBlob.ct.plain)
        /\ i' = i + 1
        /\ UNCHANGED <<pc, badArg, env, outcome, released>>

\* Mutant: what follows the declared segments is not looked at.
TrailingIgnored == FALSE

Trailing == Len(container.body) > i \/ container.tail > 0

\* Every declared segment has opened.
FinishStream ==
  /\ pc = "segments"
  /\ i = container.header.n
  /\ UNCHANGED <<streams, drawn, heldVars>>
  /\ IF Trailing THEN Return("malformed", None)
     ELSE IF assembled # container.header.total THEN Return("mismatch", None)
     ELSE Return("opened", plain)

\* The caller has its answer and lets go of the container.
TakeResult ==
  /\ pc = "returned"
  /\ pc' = "idle" /\ badArg' = "none" /\ env' = None
  /\ outcome' = "none" /\ released' = None
  /\ container' = None /\ edits' = 0
  /\ UNCHANGED <<streams, drawn, i, plain, assembled>>
-------------------------------------------------------------------------------
Init ==
  /\ streams = <<>> /\ drawn = 0
  /\ pc = "idle" /\ badArg = "none" /\ env = None
  /\ container = None /\ edits = 0
  /\ i = 0 /\ plain = <<>> /\ assembled = 0
  /\ outcome = "none" /\ released = None

BadArgs == {"none", "context", "epoch", "secret"}

Running ==
  \/ SealSegment \/ SealDone
  \/ ParseStreamHeader \/ OpenSegment \/ FinishStream
  \/ TakeResult

Next ==
  \/ SealChunkedRejected
  \/ \E e \in Environments, state \in States, size \in SegmentSizes, bad \in BadArgs :
        SealChunked(e, state, size, bad)
  \/ \E id \in DOMAIN streams : Fetch(id)
  \/ Rearrange
  \/ UnsealChunkedRejected
  \/ \E e \in Environments, bad \in BadArgs : UnsealChunked(e, bad)
  \/ Running

Spec == Init /\ [][Next]_vars

\* Both functions are ordinary synchronous code: a call begun runs to its end.
FairSpec == Spec /\ WF_vars(Running)
-------------------------------------------------------------------------------
(***************************************************************************)
(* Properties.                                                             *)
(***************************************************************************)

\* Type invariant.
TypeOK ==
  /\ \A id \in DOMAIN streams :
       /\ streams[id].env \in Environments
       /\ streams[id].state \in States
       /\ streams[id].size \in SegmentSizes
       /\ Len(streams[id].envelopes) \in 0 .. Header(id).n
  /\ drawn \in Nat
  /\ pc \in {"idle", "sealing", "header", "segments", "returned"}
  /\ badArg \in BadArgs
  /\ env \in Environments \cup {None}
  /\ i \in Nat /\ assembled \in Nat /\ plain \in Seq(Byte)
  /\ edits \in 0 .. MaxEdits
  /\ outcome \in {"none", "sealed", "opened", "mismatch", "malformed",
                 "SCEError", "OverflowError"}

\* unseal_state_chunked returns a state only for a container that is, header
\* and frames, the one seal_state_chunked returned for that state under the
\* environment presented; every other ending releases nothing.
OpensOnlyWholeStreams ==
  /\ outcome = "opened" =>
       \E id \in DOMAIN streams : /\ Complete(id)
                                 /\ container = ContainerOf(id)
                                 /\ env = streams[id].env
                                 /\ released = streams[id].state
  /\ outcome # "opened" => released = None

\* A container that comes back as it was sealed, under its own environment, is
\* never refused.
NeverRefusesItsOwn ==
  outcome \in {"mismatch", "malformed"} =>
    ~ \E id \in DOMAIN streams : /\ Complete(id)
                                /\ container = ContainerOf(id)
                                /\ env = streams[id].env

\* The loop never gets past a frame that is not the next one of the stream the
\* header names: after i turns the header is that stream's, the first i frames
\* are its first i frames and what has been collected is the beginning of its
\* state.
AcceptedPrefixIsGenuine ==
  pc = "segments" /\ i > 0 =>
    \E id \in DOMAIN streams :
      /\ container.header = Header(id)
      /\ env = streams[id].env
      /\ \A k \in 1 .. i : container.body[k] = ContainerOf(id).body[k]
      /\ plain = SubSeq(streams[id].state, 1, Hi(container.header.total, container.header.size, i - 1))

\* The comparison of the assembled length with the header's never fails: the
\* segment contexts already exclude it.
AssembledMatchesHeader ==
  pc = "segments" /\ i = container.header.n => assembled = container.header.total

\* No two segments, of one stream or of several, are keyed or tagged alike.
SegmentsShareNoField ==
  \A x, y \in DOMAIN streams :
    \A j \in DOMAIN streams[x].envelopes, k \in DOMAIN streams[y].envelopes :
      <<x, j>> # <<y, k>> =>
        LET a == streams[x].envelopes[j]
            b == streams[y].envelopes[k]
        IN  /\ a.prefix.nonce # b.prefix.nonce
            /\ a.prefix.salt # b.prefix.salt
            /\ a.prefix.commitment # b.prefix.commitment

\* The promise.  What is put away are the completed streams; a question is a
\* running unseal_state_chunked, and it asks with a sealed item exactly when
\* the container is a completed stream's and the arguments are valid.
Sealed == {id \in DOMAIN streams : Complete(id)}

ItemOf(id) == [env |-> streams[id].env, state |-> streams[id].state]

Asked ==
  IF badArg = "none" /\ \E id \in Sealed : container = ContainerOf(id)
    THEN ItemOf(CHOOSE id \in Sealed : container = ContainerOf(id))
    ELSE None

Store == INSTANCE SealedStore WITH
  store   <- {ItemOf(id) : id \in Sealed},
  request <- IF env = None THEN None ELSE [item |-> Asked, env |-> env],
  answer  <- IF pc = "returned" /\ env # None
               THEN [opened |-> outcome = "opened", state |-> released]
               ELSE None

\* seal_state_chunked and unseal_state_chunked implement the promise: step by
\* step, and with every question answered.
ImplementsStore     == Store!Spec
ImplementsFairStore == Store!FairSpec

\* No error but the library's own leaves a public entry point (SPEC.md section 10).
\* It does not hold: _lp of stream.py does not check the length of the context.
OnlySCEErrorsEscape == outcome # "OverflowError"

\* Every call returns, whatever the header claims.
CallsReturn == pc \in {"sealing", "header"} ~> pc = "returned"
===============================================================================
