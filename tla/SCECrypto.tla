------------------------------ MODULE SCECrypto ------------------------------
(***************************************************************************)
(* The pure half of sce/core.py: how an envelope is keyed, committed,      *)
(* authenticated, built and structurally parsed.                           *)
(*                                                                         *)
(* SHA3-256, HKDF-SHA3-256 and AES-256-GCM-SIV are modelled symbolically:  *)
(* a derived value is the record of everything it is derived from, so two  *)
(* derived values are equal exactly when their inputs are, and a           *)
(* ciphertext opens exactly under the key, nonce and associated data it    *)
(* was made with.  Collisions and guessed tags are left out (they have     *)
(* probability below 2^-100).  The length-prefixed and fixed-width         *)
(* concatenations of the source are injective, so they are records too.    *)
(***************************************************************************)
EXTENDS Naturals, Sequences

Magic   == "SCE4"
Version == 4

HeaderLen == 65     \* _HEADER_PREFIX.size: magic, version, nonce, salt, commitment
CtLenLen  == 4      \* _CTLEN.size
TagLen    == 16     \* _TAG_LEN

(***************************************************************************)
(* Keys.  An environment e is the record [secret, memh, epoch, context] of *)
(* the arguments a seal and an unseal are called with.                     *)
(***************************************************************************)
\* Mutant: the context is left out of the derivation.
KdfInfoWithoutContext(e) == [context |-> "", epoch |-> e.epoch, memh |-> e.memh]

KdfInfo(e) == [context |-> e.context, epoch |-> e.epoch, memh |-> e.memh]

\* Mutant: the salt is left out of the derivation.
DeriveKeyMaterialUnsalted(e, salt) ==
  LET half(h) == [half |-> h, secret |-> e.secret, salt |-> 0, info |-> KdfInfo(e)]
  IN  [enc |-> half("enc"), commitment |-> half("commit")]

DeriveKeyMaterial(e, salt) ==
  LET half(h) == [half |-> h, secret |-> e.secret, salt |-> salt, info |-> KdfInfo(e)]
  IN  [enc |-> half("enc"), commitment |-> half("commit")]

Aad(prefix, e) == [prefix |-> prefix, memh |-> e.memh, epoch |-> e.epoch]

(***************************************************************************)
(* AES-256-GCM-SIV.  `intact' is false once a byte of the ciphertext has   *)
(* changed; `len' is the number of ciphertext bytes, the tag included.     *)
(***************************************************************************)
Encrypt(key, nonce, plain, aad) ==
  [key |-> key, nonce |-> nonce, aad |-> aad, plain |-> plain,
   len |-> Len(plain) + TagLen, intact |-> TRUE]

Decrypts(key, nonce, ct, aad) ==
  /\ ct.intact
  /\ ct.key = key
  /\ ct.nonce = nonce
  /\ ct.aad = aad

(***************************************************************************)
(* Envelopes.  `form' tells a byte string long enough for the header from  *)
(* a shorter one and from an object that is not a byte string at all.      *)
(***************************************************************************)
HeaderPrefix(nonce, salt, commitment) ==
  [magic |-> Magic, version |-> Version,
   nonce |-> nonce, salt |-> salt, commitment |-> commitment]

Pack(prefix, ct) == [form |-> "bytes", prefix |-> prefix, ctLen |-> ct.len, ct |-> ct]

\* The same bytes with a ciphertext of n bytes: flipped (n unchanged), cut or
\* extended.  No key opens it any more.
CutCiphertext(env, n) == [env EXCEPT !.ct = [@ EXCEPT !.len = n, !.intact = FALSE]]

SealEnvelope(state, e, nonce, salt) ==
  LET keys   == DeriveKeyMaterial(e, salt)
      prefix == HeaderPrefix(nonce, salt, keys.commitment)
  IN  Pack(prefix, Encrypt(keys.enc, nonce, state, Aad(prefix, e)))

EnvelopeSize(env) == HeaderLen + CtLenLen + env.ct.len

WellFormed(blob) ==
  /\ blob.form = "bytes"
  /\ blob.prefix.magic = Magic
  /\ blob.prefix.version = Version
  /\ blob.ct.len = blob.ctLen
  /\ blob.ct.len >= TagLen

CommitmentOk(blob, e) ==
  blob.prefix.commitment = DeriveKeyMaterial(e, blob.prefix.salt).commitment

AeadOk(blob, e) ==
  Decrypts(DeriveKeyMaterial(e, blob.prefix.salt).enc, blob.prefix.nonce,
           blob.ct, Aad(blob.prefix, e))

Opens(blob, e) == WellFormed(blob) /\ CommitmentOk(blob, e) /\ AeadOk(blob, e)
==============================================================================
