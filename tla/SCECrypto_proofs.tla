--------------------------- MODULE SCECrypto_proofs ---------------------------
(* What the symbolic envelope layer guarantees, for any environments. *)
EXTENDS SCECrypto, TLAPS

\* An environment, by its shape only.
IsEnv(e) == e = [secret |-> e.secret, memh |-> e.memh,
                 epoch |-> e.epoch, context |-> e.context]

\* Key material determines the environment and the salt it was derived from.
LEMMA KeyBinding ==
  ASSUME NEW e, NEW f, NEW s, NEW t, IsEnv(e), IsEnv(f),
         \/ DeriveKeyMaterial(e, s).enc = DeriveKeyMaterial(f, t).enc
         \/ DeriveKeyMaterial(e, s).commitment = DeriveKeyMaterial(f, t).commitment
  PROVE  e = f /\ s = t
BY DEF DeriveKeyMaterial, KdfInfo, IsEnv

\* Key commitment: a blob opens under one environment at most.
LEMMA KeyCommitting ==
  ASSUME NEW b, NEW e, NEW f, IsEnv(e), IsEnv(f), Opens(b, e), Opens(b, f)
  PROVE  e = f
<1>1. DeriveKeyMaterial(e, b.prefix.salt).commitment
        = DeriveKeyMaterial(f, b.prefix.salt).commitment
  BY DEF Opens, CommitmentOk
<1> QED
  BY <1>1, KeyBinding

\* An envelope opens in the environment it was sealed in.
LEMMA SealThenOpen ==
  ASSUME NEW state, Len(state) \in Nat, NEW e, NEW nonce, NEW salt
  PROVE  Opens(SealEnvelope(state, e, nonce, salt), e)
BY DEF Opens, WellFormed, CommitmentOk, AeadOk, Decrypts, SealEnvelope, Pack,
       Encrypt, HeaderPrefix, Aad, TagLen

\* A blob that carries the ciphertext of a seal and opens is that seal's
\* envelope, opened in its environment.
LEMMA OpensOnlyItself ==
  ASSUME NEW state, NEW e, IsEnv(e), NEW nonce, NEW salt,
         NEW b, NEW f, IsEnv(f), Opens(b, f),
         b = [form |-> b.form, prefix |-> b.prefix, ctLen |-> b.ctLen, ct |-> b.ct],
         b.ct = SealEnvelope(state, e, nonce, salt).ct
  PROVE  b = SealEnvelope(state, e, nonce, salt) /\ f = e
<1>1. b.ct = Encrypt(DeriveKeyMaterial(e, salt).enc, nonce, state,
               Aad(HeaderPrefix(nonce, salt, DeriveKeyMaterial(e, salt).commitment), e))
  BY DEF SealEnvelope, Pack
<1>2. b.prefix = HeaderPrefix(nonce, salt, DeriveKeyMaterial(e, salt).commitment)
  BY <1>1 DEF Opens, AeadOk, Decrypts, Aad, Encrypt
<1>3. f = e
  BY <1>1, KeyBinding DEF Opens, AeadOk, Decrypts, Encrypt
<1>4. b.form = "bytes" /\ b.ctLen = b.ct.len
  BY DEF Opens, WellFormed
<1> QED
  BY <1>1, <1>2, <1>3, <1>4 DEF SealEnvelope, Pack
==============================================================================
