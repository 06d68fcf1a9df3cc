--------------------------------- MODULE Wire ---------------------------------
(***************************************************************************)
(* Sealing and unsealing down to the bytes: the encodings of sce/core.py   *)
(* and sce/stream.py, the structural parsers that undo them on arbitrary   *)
(* bytes, and the exceptions that a pack, an unpack or a to_bytes can      *)
(* raise.  SCECrypto takes the encodings as records; here they are byte    *)
(* strings, and that different fields give different bytes is a theorem    *)
(* (Wire_proofs).                                                          *)
(*                                                                         *)
(* The widths of the fields are parameters, so that the limits of the      *)
(* length prefixes can be reached by a model checker.  SHA3-256, HKDF and  *)
(* the AEAD are a table of what has been sealed: a ciphertext opens, and a *)
(* commitment matches, exactly for the inputs of one of its entries.       *)
(***************************************************************************)
EXTENDS Integers, Sequences

CONSTANTS
  Byte,                          \* 0 .. 255
  MaxU32, U32Len, U32,           \* the largest uint32, its width, its encoding
  MaxU64, U64Len, U64,           \* the same of uint64
  Magic, Version,                \* _MAGIC and the byte _VERSION
  StreamMagic, StreamVersion,    \* _STREAM_MAGIC and the byte _STREAM_VERSION
  Domain, KdfCanonTag, StreamDomain,         \* labels: _DOMAIN|hdr|, _KDF_CANON_TAG, ...
  NonceLen, SaltLen, CommitLen, StreamIdLen, \* the widths of the other fields
  TagLen, MemhLen

ByteString == Seq(Byte)
Field(n)   == {b \in ByteString : Len(b) = n}

\* int.to_bytes and struct, big-endian: a bijection from the integers in range
\* to the byte strings of the width.
ASSUME IntegersAssumption ==
  /\ {MaxU32, U32Len, MaxU64, U64Len} \subseteq Nat \ {0}
  /\ MaxU32 <= MaxU64
  /\ U32 \in [0 .. MaxU32 -> Field(U32Len)]
  /\ U64 \in [0 .. MaxU64 -> Field(U64Len)]
  /\ \A m, n \in 0 .. MaxU32 : U32[m] = U32[n] => m = n
  /\ \A m, n \in 0 .. MaxU64 : U64[m] = U64[n] => m = n
  /\ \A b \in [1 .. U32Len -> Byte] : \E n \in 0 .. MaxU32 : U32[n] = b
  /\ \A b \in [1 .. U64Len -> Byte] : \E n \in 0 .. MaxU64 : U64[n] = b
ASSUME LabelsAssumption ==
  /\ {Magic, StreamMagic, Domain, KdfCanonTag, StreamDomain} \subseteq ByteString
  /\ {Version, StreamVersion} \subseteq Byte
ASSUME WidthsAssumption ==
  /\ {NonceLen, SaltLen, CommitLen, StreamIdLen, TagLen, MemhLen} \subseteq Nat
  /\ TagLen <= MaxU32 /\ U64Len <= MaxU32 /\ MemhLen <= MaxU32 /\ StreamIdLen <= MaxU32

\* Python's b[lo:hi] and b[lo:], which stop at the end of b.
Slice(b, lo, hi) == SubSeq(b, lo + 1, IF hi <= Len(b) THEN hi ELSE Len(b))
From(b, lo)      == SubSeq(b, lo + 1, Len(b))

Unpack32(b) == CHOOSE n \in 0 .. MaxU32 : U32[n] = b
Unpack64(b) == CHOOSE n \in 0 .. MaxU64 : U64[n] = b
-------------------------------------------------------------------------------
(***************************************************************************)
(* Composite inputs of the hash, the KDF and the AEAD.                     *)
(***************************************************************************)
\* Mutant: the tag's room is forgotten.
MaxStateWithoutTag == MaxU32

MaxState   == MaxU32 - TagLen
MaxLpField == MaxU32

LP(b) == U32[Len(b)] \o b

\* The bytes whose SHA3-256 is the HKDF info.
KdfCanonical(context, epoch, memh) ==
  KdfCanonTag \o LP(context) \o LP(U64[epoch]) \o LP(memh)

Aad(prefix, memh, epoch) == Domain \o prefix \o memh \o U64[epoch]

SegContext(user, id, index, n, total, size) ==
  StreamDomain \o LP(user) \o LP(id) \o U64[index] \o U64[n] \o U64[total] \o U64[size]

\* What building them raises, if anything: core's _lp checks its field's length,
\* stream's does not.
ToBytesError(n, max) == IF n \in 0 .. max THEN "none" ELSE "OverflowError"

KdfError(context, epoch) ==
  IF Len(context) > MaxLpField THEN "SCEError"
  ELSE IF ToBytesError(Len(context), MaxU32) # "none" THEN "OverflowError"
  ELSE ToBytesError(epoch, MaxU64)

SegContextError(user) == ToBytesError(Len(user), MaxU32)

\* The argument checks that seal_state and unseal_state share.
ArgumentFault(context, epoch) == Len(context) > MaxLpField \/ epoch \notin 0 .. MaxU64
-------------------------------------------------------------------------------
(***************************************************************************)
(* The envelope.                                                           *)
(***************************************************************************)
PrefixLen == Len(Magic) + 1 + NonceLen + SaltLen + CommitLen

Prefix(b)      == Slice(b, 0, PrefixLen)
MagicOf(b)     == Slice(b, 0, Len(Magic))
VersionOf(b)   == Slice(b, Len(Magic), Len(Magic) + 1)
NonceOf(b)     == Slice(b, Len(Magic) + 1, Len(Magic) + 1 + NonceLen)
SaltOf(b)      == Slice(b, Len(Magic) + 1 + NonceLen, PrefixLen - CommitLen)
CommitmentOf(b) == Slice(b, PrefixLen - CommitLen, PrefixLen)
CtLenOf(b)     == Slice(b, PrefixLen, PrefixLen + U32Len)

\* Mutant: as many bytes as declared are taken, and what follows them is left.
CiphertextAsDeclared(b) ==
  Slice(b, PrefixLen + U32Len, PrefixLen + U32Len + Unpack32(CtLenOf(b)))

Ciphertext(b) == From(b, PrefixLen + U32Len)

\* Mutant: the length frame is forgotten in the size of the header.
ShorterThanPrefix(b) == Len(b) < PrefixLen

ShorterThanHeader(b) == Len(b) < PrefixLen + U32Len

\* _parse: "none", or what it raises.  An unpack raises when its slice is short.
ParseError(b) ==
  IF ShorterThanHeader(b) THEN "malformed"
  ELSE IF Len(Prefix(b)) # PrefixLen THEN "struct.error"
  ELSE IF MagicOf(b) # Magic \/ VersionOf(b) # <<Version>> THEN "malformed"
  ELSE IF Len(CtLenOf(b)) # U32Len THEN "struct.error"
  ELSE IF Len(Ciphertext(b)) # Unpack32(CtLenOf(b)) THEN "malformed"
  ELSE IF Len(Ciphertext(b)) < TagLen THEN "malformed"
  ELSE "none"

\* What os.urandom, the KDF and the AEAD contribute to one seal.
Draws == [nonce : Field(NonceLen), salt : Field(SaltLen),
          commitment : Field(CommitLen), tag : Field(TagLen)]

\* A seal of `state', as the AEAD and the KDF know it, with its envelope.
Seal(state, memh, epoch, context, r) ==
  LET prefix == Magic \o <<Version>> \o r.nonce \o r.salt \o r.commitment
      ct     == state \o r.tag
  IN  [salt |-> r.salt, info |-> KdfCanonical(context, epoch, memh),
       commitment |-> r.commitment, nonce |-> r.nonce,
       aad |-> Aad(prefix, memh, epoch), ct |-> ct, state |-> state,
       envelope |-> prefix \o U32[Len(ct)] \o ct]

\* seal_state: "none", or what it raises.
SealError(state, context, epoch) ==
  IF Len(state) > MaxState \/ ArgumentFault(context, epoch) THEN "SCEError"
  ELSE IF KdfError(context, epoch) # "none" THEN KdfError(context, epoch)
  ELSE IF Len(state) + TagLen \in 0 .. MaxU32 THEN "none" ELSE "struct.error"

\* The seal s has the key of envelope b in the environment presented.
SameKey(s, b, memh, epoch, context) ==
  s.salt = SaltOf(b) /\ s.info = KdfCanonical(context, epoch, memh)

CommitmentOk(seals, b, memh, epoch, context) ==
  \E s \in seals : SameKey(s, b, memh, epoch, context) /\ s.commitment = CommitmentOf(b)

\* The seals whose ciphertext AES-GCM-SIV accepts as envelope b's.
AeadOpens(seals, b, memh, epoch, context) ==
  {s \in seals : /\ SameKey(s, b, memh, epoch, context)
                 /\ s.nonce = NonceOf(b)
                 /\ s.aad = Aad(Prefix(b), memh, epoch)
                 /\ s.ct = Ciphertext(b)}

\* unseal_state: "none" and the state, or what it raises.
UnsealError(seals, b, memh, epoch, context) ==
  IF ArgumentFault(context, epoch) THEN "SCEError"
  ELSE IF ParseError(b) # "none" THEN ParseError(b)
  ELSE IF KdfError(context, epoch) # "none" THEN KdfError(context, epoch)
  ELSE IF /\ CommitmentOk(seals, b, memh, epoch, context)
          /\ AeadOpens(seals, b, memh, epoch, context) # {}
    THEN "none" ELSE "mismatch"

Unsealed(seals, b, memh, epoch, context) ==
  (CHOOSE s \in AeadOpens(seals, b, memh, epoch, context) : TRUE).state

\* Mutant: the length frame is counted with the ciphertext.
CiphertextBytesOffByFrame(b) == Len(b) - PrefixLen

\* describe_envelope: the ciphertext's bytes, the envelope's bytes.
CiphertextBytes(b) == Len(Ciphertext(b))
-------------------------------------------------------------------------------
(***************************************************************************)
(* The container.                                                          *)
(***************************************************************************)
StreamHeaderLen == Len(StreamMagic) + 1 + StreamIdLen + 3 * U64Len

StreamHeader(id, n, size, total) ==
  StreamMagic \o <<StreamVersion>> \o id \o U64[n] \o U64[size] \o U64[total]

Frame(envelope) == U64[Len(envelope)] \o envelope

StreamIdOf(b) == Slice(b, Len(StreamMagic) + 1, Len(StreamMagic) + 1 + StreamIdLen)

\* The k-th of the three integers of the header.
HeaderInt(b, k) ==
  LET off == StreamHeaderLen - (4 - k) * U64Len
  IN  Unpack64(Slice(b, off, off + U64Len))

SegmentsOf(b)    == HeaderInt(b, 1)
SegmentSizeOf(b) == HeaderInt(b, 2)
TotalOf(b)       == HeaderInt(b, 3)

\* _parse_stream_header: "none", or what it raises.
StreamHeaderError(b) ==
  IF Len(b) < StreamHeaderLen THEN "malformed"
  ELSE IF Len(Slice(b, 0, StreamHeaderLen)) # StreamHeaderLen THEN "struct.error"
  ELSE IF \/ Slice(b, 0, Len(StreamMagic)) # StreamMagic
          \/ Slice(b, Len(StreamMagic), Len(StreamMagic) + 1) # <<StreamVersion>>
    THEN "malformed"
  ELSE "none"
===============================================================================
