# Stateless Continuation Envelopes: a verification project

This directory holds TLA+ models of the `sce` library (`sce/core.py`,
`sce/stream.py`), of the adapter that shows how it is used
(`examples/serving_adapter.py`) and of the fuzz driver that tests its contract
on bytes (`fuzz/fuzz_envelope.py`), the TLC configurations that check them on small
instances, and proofs, checked by TLAPS, that hold for every value of the
constants.

## 1. Inventory

The library seals bytes under an *environment*: a model manifest (fingerprinted
as the MEMH), an epoch, a context and a master secret. It keeps no state, starts
no thread and calls nothing back; what lasts is what its caller, or the
untrusted holder of the envelopes, keeps. What is hard about it is therefore not
interleaving. It is what a holder may hand back, in what combination, under
which environment, and at which boundary.

| component | state | operations | interacts with |
|---|---|---|---|
| manifest (`core.py` 215-364) | the immutable manifest and its cached MEMH; the dict its caller passed | construct, serialise, hash, pickle | gives the MEMH to sealing |
| envelope (`core.py` 370-613) | none; the locals of a running call | `seal_state`, `unseal_state` | keys and tags come from the primitives; envelopes go to the holder |
| stream (`stream.py`) | the locals of a running call | `seal_state_chunked`, `unseal_state_chunked` | calls the envelope layer once per segment with a derived context |
| serving adapter (`examples/`) | the server's manifest and secret; per client a continuation and a transcript | `chat`, `say`, `update_model` | calls the envelope layer once per turn each way |
| encodings and parsers (`_lp`, `_kdf_info`, `_aad`, `_seg_context`, `_parse`, `_parse_stream_header`) | none | pack, parse | between the layers above and their bytes |
| diagnostics (`describe_*`, `explain_mismatch`) | none | parse and tell | called after a refusal, on the same bytes |
| fuzz driver (`fuzz/`) | the input being mutated and tested | make an input, mutate, `TestOneInput` | hands bytes to each of six entry points |
| demo, attack simulation, benchmarks, vector verifier | none | scripts around the library | - |

Hard behaviours, and what makes each component correct:

* **manifest**: the cached fingerprint must stay that of what the manifest shows
  although the caller's dict goes on changing; it must identify the environment
  regardless of insertion order and Unicode spelling; a pickled manifest must
  arrive unchanged.
* **envelope**: it opens only as sealed and only in its environment; a genuine
  one is never refused; a refusal is one uniform verdict reached after the same
  work; seals share no field that varies; a counted key stops at its ceiling.
* **stream**: no combination of edits (reorder, drop, repeat, splice, cut,
  extend, edited header) is accepted; nothing of a partly opened stream is
  released; every call returns whatever the header claims.
* **encodings and parsers**: different fields never give the same bytes to hash;
  packing and parsing are inverse; whatever the bytes, the only exceptions are the
  library's own.
* **diagnostics**: what they tell agrees with what unsealing does.
* **adapter**: no state computed by one model is extended by another; a turn
  that is refused is rebuilt with every message, once.

`PROJECT.json` lists the hazards with their lines.

## 2. The modules

| module | models |
|---|---|
| `SCECrypto` | keys, commitment, associated data, AEAD, envelope layout, the verdict `Opens` |
| `SealedStore` | the abstract promise: states are put away under an environment and given back in that environment only |
| `Envelope` | `seal_state` and `unseal_state`, the holder, and the two nonconforming sealers of `tests/test_hardening.py` |
| `StreamFraming` | the arithmetic of segments and containers |
| `Stream` | the two chunked functions, one segment per step, and the holder's edits |
| `Manifest` | `ModelManifest`: validation, snapshot, canonical bytes, fingerprint, pickling |
| `ServingAdapter` | `chat`, `say`, `update_model`, on top of `SCECrypto` |
| `Wire` | the encodings and parsers on byte strings, with the exceptions a pack, an unpack or a `to_bytes` can raise; field widths are parameters |
| `Fuzz` | the fuzz driver on top of `Wire`: six entry points, among them the three diagnostics, and the loop of `unseal_state_chunked` on bytes |
| `MCEnvelope`, `MCStream`, `MCManifest`, `MCFuzz` | small instances |
| `SCECrypto_proofs`, `Envelope_proofs`, `Stream_proofs`, `Manifest_proofs`, `ServingAdapter_proofs`, `Wire_proofs`, `Fuzz_proofs` | proofs about the component of that name |
| `SequenceLemmas` | facts about sequences, `FlattenSeq`, prefix-free codes, orders and sums that those proofs share |

`Envelope`, `Stream` and `ServingAdapter` build on `SCECrypto`; `Stream` also on
`StreamFraming`. `Fuzz` builds on `Wire`, which stands beside `SCECrypto`: the
same operations, on bytes. `Envelope` and `Stream` instantiate `SealedStore` under a
refinement mapping.

### How the models correspond to the code

**Cryptography is symbolic.** A derived key is the record of what it is derived
from, a ciphertext is the record of its key, nonce, associated data and
plaintext. It opens exactly under those. Collisions of SHA3-256 and forged tags
are left out: their probability is below 2^-100. Length-prefixed and fixed-width
concatenations become records, because they are injective. For the HKDF info, the
associated data, the segment context and the envelope that is what `Wire_proofs`
proves of the byte strings; those of the manifest, where normalisation and
sorting come in, are modelled as byte strings in `Manifest`.

**Randomness.** Salts, nonces and stream ids are numbered in the order
`os.urandom` returns them: a fresh value is one never drawn before.

**Envelope.** `seal_state` is one action, as its only effect is its result;
`SealRejected` and `SealSecretRejected` are its two error exits (the secret is
checked after salt and nonce are drawn). `unseal_state` is a sequence of actions,
one per statement: `Unseal` (arguments pass), `Parse`, `Derive`,
`CheckCommitment`, `AttemptAead`, `Combine`; each local that exists at a
statement is a variable (`keys`, `commitmentOk`, `plaintext`, `aead`). `sealed`
is a history variable and at the same time what the holder has. The holder
presents any blob of `Presentable`: header fields and ciphertexts of all held
envelopes combined at will, or one envelope damaged (type, length, magic,
version, declared length, flipped, cut or extended ciphertext).

**Stream.** A container is a header, a sequence of frames (the declared length
and the envelope bytes that are there) and a number of trailing bytes.
`Slice` says what cutting the declared number of bytes out of it gives. The
actions `SealSegment` and `OpenSegment` are one turn of the two loops; the second
uses the verdict of the envelope layer, `SegmentVerdict`, in the order in which
`unseal_state` checks. The holder edits one fetched container up to `MaxEdits`
times, so that edits combine. The user's context is assumed not to be itself a
segment context of another stream.

**Manifest.** Dicts live on a heap so that sharing one differs from copying it.
NFC and UTF-8 are constants, given small tables. Bytes are numbers, and a
fixed-width length is one of them, so a missing length prefix does make strings
run together. `sorted` is the stable sort: an item's place is one more than the
number of items before it (`Rank`), in the order of the bytes of the normalised
keys and, among equal keys, of insertion.

**Wire.** `Byte`, the widths of the fields and the largest integer of each width
are constants; `U32` and `U64` are any bijections from integers to byte strings
of their width, which is all that is used of big-endian order. `Slice` clamps as
Python does, so that a short slice reaches `unpack` where the code would let it,
and `ParseError` then says `struct.error`. The hash, the KDF and the AEAD are the
table of seals made so far: a ciphertext opens for the key, nonce and associated
data of one of its entries. Each `...Error` operator gives the exception in the
order in which the code would meet it.

**Fuzz.** One input at a time: `TakeInput` or `TakeArtefact` (of
`seeds_for_generation`), `MutateData` once per turn of `mutate`'s loop, then one
entry point of `TestOneInput`. The selector byte, `data[0] % 6`, takes each of its
values in every input, so it is a free choice of the entry point and `data` is the
payload. `unseal_state_chunked` runs one segment per step; the other entry points
are one step. `result` is how the call ended. `NextInput` is not possible after
an exception that is not the library's: the driver stops there.

**Adapter.** One call is under way at a time, as in the code. The model's state
is the sequence of its turns, each tagged with the model that computed it. Between
calls a held continuation may lose a byte or have one changed (`Damage`) or lose
them all (`Empty`). `chat` asks whether the continuation is true (`Truthy`), so it
takes the empty string for no continuation. `emptied` is a history variable, read
by the properties only: the clients whose continuation was cut to nothing and who
have not sent their transcript again since.

## 3. The runs

| run | shows |
|---|---|
| `Envelope_safety` | fail-closed, verdict, unlinkability, AEAD before any mismatch, refinement of the store. One environment and the four that differ from it in one factor; two envelopes of either kind |
| `Envelope_edges` | the smallest envelope, the seal-count ceiling, no refusal of genuine envelopes |
| `Stream_edits` | one stream and three edits; equal segments, a short last one, the empty state; sizes 1 and 2 |
| `Stream_splice` | two streams of one state and two edits; termination and answered questions (`FairSpec`) |
| `Stream_envs` | two streams, five environments, one edit; refinement of the store |
| `Manifest_identity` | the fingerprint identifies the environment, stays current, survives pickling; two manifests, dicts of two items |
| `ServingAdapter_turns` | two clients, three messages each; the model updated, continuations damaged or cut to nothing |
| `Fuzz_bytes` | on bytes: only the library's exceptions escape, exactly the artefacts open, the loop over segments stays inside its container, round trips are exact up to the largest state, diagnoses agree with unsealing |
| `Stream_overflow`, `Manifest_surrogate`, `ServingAdapter_malformed`, `ServingAdapter_emptied` | four disagreements, see section 6 |

**Bounds.** `MaxSeals`, `MaxStreams`, `MaxEdits`, `MaxExtra`, `MaxManifests` and
`MaxTurns` bound behaviours. Two envelopes suffice for recombination, since a
blob takes each of its fields from one envelope and is accepted only if all come
from the same; two streams suffice for splicing for the same reason; three edits
on one stream cover a swap together with a header change. Two manifests suffice
for a relation between two. The ceiling of the seal count is lowered from 2^40 to
1 so that it is reached. The bound on envelopes and everything about the size of
the environments falls away in the proofs.

`Fuzz_bytes` has bytes of five values and integers of two digits, so that the limit
of a length prefix is 24 and the largest state 23 bytes; every other field is one
byte or none. Inputs are all strings of up to two bytes, the headers kept in the
corpus, near-headers, and payloads on both sides of the largest state (`MCInputs`);
each artefact is mutated by up to two operations (`MaxOps`; the driver makes up to
four), appended tails are those of `MCTails`. Two operations reach a change of a
length together with the change of content that makes up for it. The container
has two segments, the second short. All these bounds fall away in `Fuzz_proofs`.

**Fairness.** `FairSpec` of `Stream` and `ServingAdapter` adds weak fairness of
`Running`, the statements inside a call: it is ordinary synchronous code, with no lock, wait or I/O, so a call begun
takes its next statement. Nothing is assumed of callers or holders.

Every property has a mutant: a definition changed the way a plausible bug would,
under which TLC finds the property violated. Mutants stand before the definition
they replace and are named for the defect.

## 4. What is proved

`SCECrypto_proofs` proves, of the operators:

* `KeyBinding`: equal keys, or equal commitments, come from one environment and one salt;
* `KeyCommitting`: a blob that opens in two environments opens in one;
* `SealThenOpen`: what is sealed opens in its environment;
* `OpensOnlyItself`: a blob with the ciphertext of a seal that opens at all is, field for field, that seal's, in its environment.

`Envelope_proofs` proves for `Envelope`, for every set of environments and states
satisfying the named assumptions and any bound:

| theorem | property |
|---|---|
| `TypeCorrect` | `TypeOK` |
| `FailsClosed` | `OpensOnlyWhatWasSealed` |
| `AcceptsItsOwn` | `NeverRefusesItsOwn` |
| `VerdictCorrect` | `VerdictMatchesOpens` |
| `Unlinkable` | `SealsShareNoField` |
| `AeadFirst` | `AeadTriedBeforeMismatch` |
| `StoreImplemented` | `ImplementsStore` |
| `CeilingHolds` | `CountedSealsBelowCeiling` |

The first six rest on one inductive invariant, `Inv`. The properties say nothing
of a call half way through, or of where a presented ciphertext comes from, so they
are not inductive. `Inv` adds: every salt in the history was drawn and none twice
(`DrawInv`); the ciphertexts of nonconforming sealers are inert (`StraysInv`);
what reaches the parser has the shape of an envelope and, if its ciphertext is
whole, the ciphertext of one that is held (`CallInv`, by `CarrierPresents`); and
what each local stands for at each statement. `OpenedWasSealed` then takes an
opened blob back through its ciphertext, which cannot be inert, to the seal that
made it, and `OpensOnlyItself` does the rest.

`StoreImplemented`: `Envelope` implements `SealedStore`. A seal maps to `Put`, an
`unseal_state` that gets past its argument checks to `Ask`, the statement it
returns at to `Answer`, the caller's taking of the result to `Forget`, and every
other step stutters. Two facts carry it, both consequences of `Inv`: envelopes
tell seals apart (`AskedIsTheSealed`), so the question has one meaning, and
whatever the call returns is what the store would answer (`AnswerRight`).
`CeilingHolds`: a seal adds one to the count of its own (secret, epoch) and to no
other, and `seal_state` refuses at the ceiling.

`Stream_proofs` proves for `Stream`, for any number of streams, segments and
edits:

| theorem | property |
|---|---|
| `TypeCorrect` | `TypeOK` |
| `WholeStreamsOnly` | `OpensOnlyWholeStreams` |
| `AcceptsItsOwn` | `NeverRefusesItsOwn` |
| `PrefixGenuine` | `AcceptedPrefixIsGenuine` |
| `LengthMatches` | `AssembledMatchesHeader` |
| `SegmentsUnlinkable` | `SegmentsShareNoField` |
| `StoreImplemented` | `ImplementsStore` |

Its inductive invariant, `Inv`, has three ideas. Segment k of stream `id` is the
seal of the k-th slice of the state in the environment derived from the header
(`StreamsInv`), with salts of its own (`SaltsInv`). Whatever the carrier does, a
frame whose ciphertext is whole has the ciphertext of a sealed segment
(`CarrierInv`); each kind of edit is shown to keep that, and nothing else
is known of an edited container. Between two turns of the loop of
`unseal_state_chunked`, the frames accepted are the first `i` of one stream, the
header presented is that stream's, and `plain` is as much of its state
(`SegmentsInv`). The step that matters is `OpenedFrame`: a segment that opens has,
by `OpensOnlyItself`, the ciphertext of the segment it was sealed as, and since
the derived environment determines environment, header and index
(`SegEnvInjective`), that segment is the next one of the stream under way. What
is left is arithmetic: the segments reach the end of the state and no further
(`SegmentsReachTheEnd`). In the other direction, the limit on the bytes of a
container is met by the container of a stream that `seal_state_chunked` accepted,
which needs the sum over its frames (`BytesBound`). For the refinement, a stream is put away with its last
segment; a container asks for it when it is the one returned, frame for frame.

`Manifest_proofs` proves for `Manifest`, for any strings, normalisation, encoding,
core fields and number of manifests:

| theorem | property |
|---|---|
| `TypeCorrect` | `TypeOK` |
| `MemhStaysCurrent` | `CachedMemhIsCurrent` |
| `ClonesMatch` | `ClonesShareMemh` |
| `MemhIdentifies` | `MemhIdentifiesEnvironment` |

The invariant says that a manifest's dict is never the caller's, is still the one
it was fingerprinted from, and would pass validation again; so `__reduce__` never
fails. `MemhIdentifies` is a theorem about the serialisation. What passes
validation has only strings that can be encoded, and distinct normalised keys
(`OkIsValid`). The order of byte strings is strict and total on distinct keys
(`BytesOrdered`, by the first byte at which they differ), so ranks are a
permutation (`Ranks`) and the rank of a key depends on the set of keys and not on
the order of insertion (`SameRank`): one environment, one byte string. In the
other direction, length-prefixed strings are a prefix-free code (`WordsDecode`),
so the canonical bytes are read back in one way only, fields, count and items
(`CanonicalDecodes`).

`ServingAdapter_proofs` proves, for any number of clients and turns, `TypeCorrect`
(`TypeOK`), `NoSilentCorruption` (`OneModelPerState`) and `NoTurnLost`
(`StateCoversTranscript`). The properties speak of replies only. `Inv` follows an
envelope from the reply through the client that holds it, damaged or not, to the
request it comes back in, and says everywhere that a whole ciphertext holds turns
of the one model its key was derived from. `CoverInv` says of the same envelopes
how much of the transcript they hold: a client's continuation all of it between
calls, a request's continuation and message together all of it during one, so that
a refusal, which makes the client send everything and no continuation, neither
loses a message nor repeats one. `CoverInv` promises this to clients
not in `emptied` only; the others come back under it when a refusal makes them send
their transcript again. `Inv` holds for all.

`Wire_proofs` proves, for every width of the fields:

* `KdfCanonicalInjective`, `SegContextInjective`: no two tuples of fields give the
  same bytes, as the docstrings of `_lp` and `_seg_context` say;
* `EnvelopeParses`: parsing undoes packing;
* `SealErrorExact`, `UnsealErrorType`: what `seal_state` and `unseal_state` raise,
  and when;
* `OpensOnlyWhatWasSealed`: of all byte strings, `unseal_state` opens only those
  that `seal_state` made, in the environment presented.

They rest on `JoinSplit` (equal concatenations with parts of equal length are
equal part by part) and `LpPrefixFree` (a length-prefixed field is read back
whatever follows it).

`Fuzz_proofs` proves all seven properties of `Fuzz_bytes`, for every artefact, width,
input and number of mutations:

| theorem | property |
|---|---|
| `TypeCorrect` | `TypeOK` |
| `NothingElseEscapes` | `OnlySCEErrorsEscape` |
| `RoundTripCorrect` | `RoundTripExact` |
| `EnvelopeExact` | `OpensExactlyItsEnvelope` |
| `ContainerExact` | `OpensExactlyItsContainer` |
| `ReadsInsideContainer` | `ReadsWithinContainer` |
| `DiagnosisCorrect` | `DiagnosisIsTrue` |

The inductive invariant is `IInv`. The property about containers speaks of the end
of a call; `StreamInv` says what holds between two segments: the bytes read so far
are the artefact's, header included, and what has been put together is the
beginning of its state. A segment that opens must, by `OpensOnlyWhatWasSealed` and
`SegContextInjective`, be the artefact's next one under the artefact's header
(`OpenedSegment`); in the other direction, the artefact's own header passes the
guards (`ContainerHeader`, which needs that each frame takes more than its length
prefix, `ContainerLen`) and each of its segments opens (`GenuineSegment`). `ReadsInside`
counts the bytes read so far: as they are the artefact's header and first frames, they
take the room of as many frames (`BaseLen`), so the turns of the loop are bounded by
the bytes of the input and not by what its header declares. The
container is a fold over its segments. What is needed of the fold is proved by
induction over a set of naturals (`SetInduction` of `SequenceLemmas`, from the
well-foundedness of `<`), as an induction theorem that takes a predicate cannot be
used here. The lemmas on `FlattenSeq` (`Manifest`, `ServingAdapter`), on sums over frames
(`Stream`) and on the least element of a set rest on the same one.

The assumptions of `Wire` and `Fuzz` say that the integers' encodings are
bijections, that labels are byte strings, that the tag, the MEMH and the ids fit
their frames, that the artefacts can be sealed (state, context and epoch within
their limits, a segment no larger than a state, a container within its integers),
and that there is a draw for every seal; not even that no salt is drawn twice. The artefacts' state is not empty in the
container and the second envelope is sealed under an epoch other than 0, as in
`seeds_for_generation`.

The assumptions of `Envelope` and `Stream` are that environments are records of the
four factors, states have a length (in `Stream`: are byte strings), segment sizes
are positive, `None` is none of the values it stands in for (states, environments,
and the store's items, questions and answers), and the ceiling is a positive
natural. `ServingAdapter` assumes only that `None` is no client, no envelope and not the empty
string.
`Manifest` assumes that normalisation is idempotent, that strings with UTF-8 bytes
have different ones, and that what is no string is told apart by `isinstance`.
Each bound is assumed to be a natural number.

## 5. What is only model-checked, and what is not modelled

Every safety invariant of every passing run, `AeadTriedBeforeMismatch` and both
refinements without fairness are theorems. Checked by TLC only, as fairness is out
of the prover's reach: `CallsReturn`, `ImplementsFairStore` and
`RefusedTurnsAreAnswered`. `CallsReturn` says that a call does not try a segment again
or wait for one; that it does not run on past its input is `ReadsWithinContainer`.
That `unseal_state` returns is not stated: its statements follow one another without a
loop. Of the four disagreements of section 6 there is nothing
to prove: a run shows each of them.

Not modelled:

* timing (beyond the order of the checks) and the entropy of the secret;
* Base64: a continuation that is no longer valid Base64 raises `binascii.Error` from
  `chat`, which has the same effect as `ChatMalformed`;
* the wording of diagnoses and errors; arguments that are not `bytes`: for a
  `memoryview` of items wider than a byte `describe_envelope` and
  `describe_stream` take `len` of what was passed and so tell the number of items
  as the total size, while `_parse` works on the bytes;
* a user context so long that only the segment context built from it passes the
  limit: named assumptions keep the models below it;
* the demo and the attack simulation, scripts of calls in a fixed order whose
  scenarios (another environment, tampering, truncation, reordering, splicing) are
  among the holder's actions;
* the benchmarks, which measure time and size, and the vector verifier, which
  recomputes the values of hash and KDF, symbolic here;
* of the fuzz driver, argument parsing, timing and the printing of findings.

## 6. Disagreements found

* `Stream_overflow`: `stream.py` has its own `_lp` without the length check of
  `core.py`'s, so a context of 2^32 bytes or more leaves both chunked functions
  as `OverflowError`. SPEC section 10 allows no error but the library's own, and
  the changelog of 0.4.4 names the stream context among the fixed cases.
* `Manifest_surrogate`: a lone surrogate has no UTF-8 bytes, so the manifest
  constructor raises `UnicodeEncodeError`.
* `ServingAdapter_malformed`: `chat` catches `StateSealMismatch` only, so a
  truncated continuation raises through `chat` and `say`; the client keeps the
  continuation, and every later turn fails too. The docstring of `chat` promises
  the uniform error when it fails closed.
* `ServingAdapter_emptied`: `chat` tests whether the continuation is true, so one that
  was cut to the empty string is not unsealed, and not refused either: the turn is
  answered from no prior state, and the client, told of nothing, goes on with a
  state that lacks its history. The file's docstring says that a returned state is
  resumed from or refused and rebuilt.

## 7. Plan

Done: every component of section 2 modelled and checked, and all its safety
properties proved, the two refinements included; the byte encodings, the parsers
and the fuzz driver proved on byte strings.

Next, in this order:

1. Theorems that tie the two views of the library together: what `Wire` does to
   bytes implements what `SCECrypto` does to records, so that a field of one stands
   for a field of the other.
2. Action properties of `Stream` that are implied by its invariant: a segment
   accepted is never given up for another while the call runs.
3. Shorter proofs for the longest steps of `Stream_proofs` and `Manifest_proofs`.
