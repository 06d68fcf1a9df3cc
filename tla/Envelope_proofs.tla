--------------------------- MODULE Envelope_proofs ---------------------------
(***************************************************************************)
(* Proofs about Envelope, for any arguments, any number of seals and any   *)
(* carrier.  Inv is the inductive invariant: what the history of seals     *)
(* holds, what a presented blob can carry, and what each local of a        *)
(* running unseal_state stands for at each statement.                      *)
(***************************************************************************)
EXTENDS Envelope, SCECrypto_proofs, SequenceTheorems, FiniteSetTheorems

\* Every salt in the history was drawn, and none twice.
DrawInv ==
  /\ drawn \in Nat
  /\ \A k \in DOMAIN sealed : sealed[k].blob.prefix.salt \in 1 .. drawn
  /\ \A j, k \in DOMAIN sealed :
       sealed[j].blob.prefix.salt = sealed[k].blob.prefix.salt => j = k

\* What a nonconforming sealer gets wrong: the key and the associated data of
\* its ciphertext name two manifests, or the committed half is not the key's.
Inert(ct) ==
  \/ ct.aad.memh # ct.key.info.memh
  \/ ct.aad.prefix.commitment # [ct.key EXCEPT !.half = "commit"]

HasShape(b) ==
  /\ b = [form |-> b.form, prefix |-> b.prefix, ctLen |-> b.ctLen, ct |-> b.ct]
  /\ DOMAIN b.ct = {"key", "nonce", "aad", "plain", "len", "intact"}
  /\ b.ct.len \in Nat

StraysInv == \A s \in strays : HasShape(s) /\ Inert(s.ct) /\ s.ct.plain \in States

\* The shape of anything that reaches the parser, and where its ciphertext is from.
Presented(b) ==
  /\ HasShape(b)
  /\ b.ct.intact => \E h \in Held : b.ct = h.ct

CallInv ==
  /\ pc = "idle" => outcome = "none" /\ env = None
  /\ pc \in {"parse", "derive", "commit", "aead", "combine"} =>
       env \in Environments /\ Presented(blob) /\ outcome = "none"
  /\ pc \in {"derive", "commit", "aead", "combine"} => ~ ParseFault(blob)
  /\ pc \in {"commit", "aead", "combine"} =>
       ~ badSecret /\ keys = DeriveKeyMaterial(env, blob.prefix.salt)
  /\ pc \in {"aead", "combine"} => (commitmentOk <=> CommitmentOk(blob, env))
  /\ pc = "combine" => (aead = "ok" <=> AeadOk(blob, env))
  /\ pc = "combine" => aead # "untried"
  /\ aead = "ok" => pc = "combine" /\ plaintext = blob.ct.plain /\ plaintext \in States

ReturnInv ==
  /\ outcome \in {"opened", "mismatch", "malformed"} =>
       env \in Environments /\ Presented(blob)
  /\ pc = "returned" /\ env # None =>
       \/ outcome \in {"opened", "mismatch", "malformed"}
       \/ outcome = "SCEError" /\ badSecret
  /\ outcome = "opened" <=> released # None
  /\ VerdictMatchesOpens

Inv == TypeOK /\ DrawInv /\ StraysInv /\ CallInv /\ ReturnInv
-------------------------------------------------------------------------------
\* The environments of the model are records of the four factors.
LEMMA EnvironmentShape ==
  ASSUME NEW e \in Environments
  PROVE  IsEnv(e)
BY EnvironmentsAssumption DEF IsEnv

\* What a nonconforming sealer made opens in no environment.
LEMMA InertNeverOpens ==
  ASSUME NEW b, NEW e, Inert(b.ct)
  PROVE  ~ Opens(b, e)
BY DEF Inert, Opens, CommitmentOk, AeadOk, Decrypts, Aad, DeriveKeyMaterial, KdfInfo

\* What the history says of each seal.
LEMMA SealedShape ==
  ASSUME sealed \in Seq(SealRecords), NEW k \in DOMAIN sealed
  PROVE  /\ sealed[k].env \in Environments
         /\ sealed[k].state \in States
         /\ HasShape(sealed[k].blob)
         /\ sealed[k].blob.ct.plain = sealed[k].state
         /\ \E n \in 1 .. MaxSeals :
              /\ sealed[k].blob = SealEnvelope(sealed[k].state, sealed[k].env, n, n)
              /\ sealed[k].blob.prefix.salt = n
<1>1. sealed[k] \in SealRecords
  BY LenProperties, ElementOfSeq
<1>2. PICK e \in Environments, s \in States, n \in 1 .. MaxSeals :
        sealed[k] = [env |-> e, state |-> s, blob |-> SealEnvelope(s, e, n, n)]
  BY <1>1 DEF SealRecords
<1>3. /\ sealed[k].env = e /\ sealed[k].state = s
      /\ sealed[k].blob = SealEnvelope(s, e, n, n)
  BY <1>2
<1>4. HasShape(SealEnvelope(s, e, n, n))
  BY StatesAssumption DEF SealEnvelope, Pack, HasShape, Encrypt, TagLen
<1>5. SealEnvelope(s, e, n, n).ct.plain = s /\ SealEnvelope(s, e, n, n).prefix.salt = n
  BY DEF SealEnvelope, Pack, Encrypt, HeaderPrefix
<1> QED
  BY <1>3, <1>4, <1>5

\* The carrier holds nothing but envelopes.
LEMMA HeldShape ==
  ASSUME sealed \in Seq(SealRecords), StraysInv, NEW h \in Held
  PROVE  HasShape(h) /\ h.ct.plain \in States
BY SealedShape DEF Held, StraysInv

\* Whatever the carrier presents has the shape of an envelope and, if its
\* ciphertext is whole, the ciphertext of one it holds.
LEMMA CarrierPresents ==
  ASSUME sealed \in Seq(SealRecords), StraysInv, NEW b \in Presentable
  PROVE  Presented(b)
<1>1. CASE b \in Recombined
  <2>1. PICK a, c, d, h \in Held :
          b = Pack(HeaderPrefix(a.prefix.nonce, c.prefix.salt, d.prefix.commitment), h.ct)
    BY <1>1 DEF Recombined
  <2>2. HasShape(h)
    BY HeldShape
  <2> QED
    BY <2>1, <2>2 DEF Pack, Presented, HasShape
<1>2. CASE \E h \in Held : b \in Damaged(h)
  <2>1. PICK h \in Held : b \in Damaged(h)
    BY <1>2
  <2>2. HasShape(h)
    BY HeldShape
  <2> QED
    <3> DEFINE Cut(n) == CutCiphertext(h, n)
    <3>1. \A n \in Nat : HasShape(Cut(n)) /\ ~ Cut(n).ct.intact
      <4> TAKE n \in Nat
      <4> DEFINE cut == [h.ct EXCEPT !.len = n, !.intact = FALSE]
      <4>1. DOMAIN cut = DOMAIN h.ct /\ ~ cut.intact /\ cut.len = n
        BY <2>2 DEF HasShape
      <4>2. Cut(n) = [form |-> h.form, prefix |-> h.prefix, ctLen |-> h.ctLen, ct |-> cut]
        BY <2>2 DEF HasShape, CutCiphertext
      <4> HIDE DEF Cut, cut
      <4> QED
        BY <2>2, <4>1, <4>2 DEF HasShape
    <3>2. \A n \in Nat : HasShape(Reframed(Cut(n))) /\ ~ Reframed(Cut(n)).ct.intact
      BY <3>1 DEF Reframed, HasShape
    <3>3. CASE b \in {[h EXCEPT !.form = "short"], [h EXCEPT !.form = "other"],
                      [h EXCEPT !.prefix.magic = "SCES"], [h EXCEPT !.prefix.version = 3],
                      [h EXCEPT !.ctLen = @ + 1]}
      <4>1. HasShape(b) /\ b.ct = h.ct
        BY <2>2, <3>3 DEF HasShape
      <4> QED
        BY <4>1 DEF Presented
    <3>4. CASE \E n \in Nat : b = Cut(n) \/ b = Reframed(Cut(n))
      BY <3>1, <3>2, <3>4 DEF Presented
    <3> QED
      BY <2>1, <2>2, <3>3, <3>4 DEF Damaged, HasShape, TagLen
<1> QED
  BY <1>1, <1>2 DEF Presentable

\* Only a seal's own envelope opens, and only in its environment.
LEMMA OpenedWasSealed ==
  ASSUME Inv, Presented(blob), env \in Environments, Opens(blob, env)
  PROVE  \E k \in DOMAIN sealed : /\ sealed[k].blob = blob
                                 /\ sealed[k].env = env
                                 /\ sealed[k].state = blob.ct.plain
<1>1. PICK h \in Held : blob.ct = h.ct
  BY DEF Presented, Opens, AeadOk, Decrypts
<1>2. h \notin strays
  BY <1>1, InertNeverOpens DEF Inv, StraysInv
<1>3. PICK k \in DOMAIN sealed : h = sealed[k].blob
  BY <1>1, <1>2 DEF Held
<1>4. PICK n \in 1 .. MaxSeals : sealed[k].blob = SealEnvelope(sealed[k].state, sealed[k].env, n, n)
  BY SealedShape DEF Inv, TypeOK
<1>5. IsEnv(sealed[k].env) /\ IsEnv(env) /\ sealed[k].blob.ct.plain = sealed[k].state
  BY SealedShape, EnvironmentShape DEF Inv, TypeOK
<1>6. blob = sealed[k].blob /\ env = sealed[k].env
  BY <1>1, <1>3, <1>4, <1>5, OpensOnlyItself DEF Presented, HasShape
<1> QED
  BY <1>5, <1>6
-------------------------------------------------------------------------------
\* The invariant holds initially.
LEMMA InitInv == Init => Inv
<1> SUFFICES ASSUME Init PROVE Inv
  OBVIOUS
<1> USE DEF Init
<1>1. sealed \in Seq(SealRecords)
  BY EmptySeq
<1>3. drawn \in 0 .. MaxSeals
  BY BoundAssumption
<1>4. TypeOK
  BY <1>1, <1>3 DEF TypeOK
<1>2. DrawInv /\ StraysInv /\ CallInv /\ ReturnInv
  BY DEF DrawInv, StraysInv, CallInv, ReturnInv, VerdictMatchesOpens
<1> QED
  BY <1>4, <1>2 DEF Inv

\* A step that leaves what was sealed alone keeps all that is said of it.
LEMMA HistoryKept ==
  ASSUME Inv, UNCHANGED sealVars
  PROVE  DrawInv' /\ StraysInv' /\ Held' = Held
BY DEF Inv, sealVars, DrawInv, StraysInv, Held

\* A call rejected for its arguments, or a seal, needs no more than its history.
LEMMA PlainReturn ==
  ASSUME Inv, NEW r \in {"SCEError", "sealed"}, Return(r, None),
         pc = "idle"
  PROVE  CallInv' /\ ReturnInv'
BY NoneAssumption DEF Inv, Return, argVars, CallInv, ReturnInv, VerdictMatchesOpens

\* A nonconforming sealer's envelope is what StraysInv says strays are.
LEMMA StrayAdded ==
  ASSUME Inv, NEW b, HasShape(b), Inert(b.ct), b.ct.plain \in States,
         drawn < MaxSeals, drawn' = drawn + 1, strays' = strays \cup {b},
         UNCHANGED <<sealed, pc, argVars, locals, outcome, released>>
  PROVE  Inv'
<1>1. TypeOK'
  BY BoundAssumption DEF Inv, TypeOK, argVars, locals
<1>2. DrawInv' /\ StraysInv'
  BY DEF Inv, DrawInv, StraysInv
<1>3. Held' = Held \cup {b}
  BY DEF Held
<1>4. CallInv' /\ ReturnInv'
  BY <1>3 DEF Inv, CallInv, ReturnInv, Presented, VerdictMatchesOpens, argVars, locals
<1> QED
  BY <1>1, <1>2, <1>4 DEF Inv

\* Every step keeps the invariant.
LEMMA NextInv == Inv /\ [Next]_vars => Inv'
<1> SUFFICES ASSUME Inv, [Next]_vars PROVE Inv'
  OBVIOUS
<1> USE NoneAssumption, BoundAssumption
<1>1. ASSUME NEW e \in Environments, NEW fault \in Faults, SealRejected(e, fault)
      PROVE  Inv'
  <2>1. UNCHANGED sealVars /\ Return("SCEError", None)
    BY <1>1 DEF SealRejected
  <2>0. pc = "idle"
    BY <1>1 DEF SealRejected, Idle
  <2>2. TypeOK'
    BY <2>1 DEF Inv, TypeOK, sealVars, Return, argVars
  <2>3. CallInv' /\ ReturnInv'
    BY <2>0, <2>1, PlainReturn
  <2> QED
    BY <2>1, <2>2, <2>3, HistoryKept DEF Inv
<1>2. CASE SealSecretRejected
  <2>0. drawn' \in 0 .. MaxSeals
    BY <1>2 DEF SealSecretRejected, Inv, TypeOK
  <2>1. TypeOK'
    BY <1>2, <2>0 DEF SealSecretRejected, Inv, TypeOK, Return, argVars
  <2>2. DrawInv' /\ StraysInv'
    BY <1>2 DEF SealSecretRejected, Inv, DrawInv, StraysInv
  <2>3. pc = "idle" /\ Return("SCEError", None)
    BY <1>2 DEF SealSecretRejected, Idle
  <2>4. CallInv' /\ ReturnInv'
    BY <2>3, PlainReturn
  <2> QED
    BY <2>1, <2>2, <2>4 DEF Inv
<1>3. ASSUME NEW e \in Environments, NEW state \in States, Seal(e, state)
      PROVE  Inv'
  <2> DEFINE n == drawn + 1
             r == [env |-> e, state |-> state, blob |-> SealEnvelope(state, e, n, n)]
  <2>1. /\ sealed' = Append(sealed, r) /\ drawn' = n /\ UNCHANGED strays
        /\ Return("sealed", None) /\ pc = "idle"
    BY <1>3 DEF Seal, Idle
  <2>2. n \in 1 .. MaxSeals
    BY <1>3 DEF Seal, Inv, TypeOK
  <2>3. r \in SealRecords
    BY <2>2 DEF SealRecords
  <2>4. r.blob.prefix.salt = n
    BY DEF SealEnvelope, Pack, HeaderPrefix
  <2> HIDE DEF r
  <2>5. /\ sealed' \in Seq(SealRecords) /\ Len(sealed') = Len(sealed) + 1
        /\ \A k \in 1 .. Len(sealed) : sealed'[k] = sealed[k]
        /\ sealed'[Len(sealed) + 1] = r
        /\ DOMAIN sealed = 1 .. Len(sealed) /\ DOMAIN sealed' = 1 .. Len(sealed) + 1
        /\ Len(sealed) \in Nat
    BY <2>1, <2>3, AppendProperties, LenProperties DEF Inv, TypeOK
  <2>6. TypeOK'
    <3>1. drawn' \in 0 .. MaxSeals
      BY <2>1, <2>2
    <3> HIDE DEF n
    <3> QED
      BY <2>1, <2>5, <3>1 DEF Inv, TypeOK, Return, argVars
  <2>7. DrawInv'
    BY <2>1, <2>4, <2>5 DEF Inv, DrawInv
  <2>8. StraysInv'
    BY <2>1 DEF Inv, StraysInv
  <2>9. CallInv' /\ ReturnInv'
    BY <2>1, PlainReturn
  <2> QED
    BY <2>6, <2>7, <2>8, <2>9 DEF Inv
<1>4. ASSUME NEW e \in Environments, NEW state \in States, SealWrongCommitment(e, state)
      PROVE  Inv'
  <2> DEFINE prefix == HeaderPrefix(drawn + 1, drawn + 1, DeriveKeyMaterial(e,
      0).commitment)
             key    == DeriveKeyMaterial(e, drawn + 1).enc
             b      == Pack(prefix, Encrypt(key, drawn + 1, state, Aad(prefix, e)))
  <2>1. /\ drawn < MaxSeals /\ drawn' = drawn + 1 /\ strays' = strays \cup {b}
        /\ UNCHANGED <<sealed, pc, argVars, locals, outcome, released>>
    BY <1>4 DEF SealWrongCommitment
  <2>2. HasShape(b) /\ b.ct.plain = state
    BY StatesAssumption DEF Pack, Encrypt, HasShape, TagLen
  <2>3. b.ct.aad.prefix.commitment.salt = 0 /\ b.ct.key.salt = drawn + 1
    BY DEF Pack, Encrypt, Aad, HeaderPrefix, DeriveKeyMaterial
  <2>4. [b.ct.key EXCEPT !.half = "commit"].salt = drawn + 1
    BY DEF Pack, Encrypt, DeriveKeyMaterial
  <2>5. Inert(b.ct)
    <3>1. drawn \in Nat
      BY DEF Inv, DrawInv
    <3>2. drawn + 1 # 0
      BY <3>1
    <3> QED
      BY <2>3, <2>4, <3>2 DEF Inert
  <2> HIDE DEF b
  <2> QED
    BY <2>1, <2>2, <2>5, StrayAdded
<1>5. ASSUME NEW e \in Environments, NEW other \in Environments, NEW state \in States,
             SealForeignAad(e, other, state)
      PROVE  Inv'
  <2> DEFINE keyed  == DeriveKeyMaterial(e, drawn + 1)
             prefix == HeaderPrefix(drawn + 1, drawn + 1, keyed.commitment)
             b      == Pack(prefix, Encrypt(keyed.enc, drawn + 1, state, Aad(prefix, other)))
  <2>1. /\ drawn < MaxSeals /\ drawn' = drawn + 1 /\ strays' = strays \cup {b}
        /\ UNCHANGED <<sealed, pc, argVars, locals, outcome, released>>
        /\ other.memh # e.memh
    BY <1>5 DEF SealForeignAad
  <2>2. HasShape(b) /\ b.ct.plain = state
    BY StatesAssumption DEF Pack, Encrypt, HasShape, TagLen
  <2>3. b.ct.aad.memh = other.memh /\ b.ct.key.info.memh = e.memh
    BY DEF Pack, Encrypt, Aad, DeriveKeyMaterial, KdfInfo
  <2>4. Inert(b.ct)
    BY <2>1, <2>3 DEF Inert
  <2> HIDE DEF b
  <2> QED
    BY <2>1, <2>2, <2>4, StrayAdded
<1>6. ASSUME NEW fault \in Faults, UnsealRejected(fault)
      PROVE  Inv'
  <2>1. UNCHANGED sealVars /\ Return("SCEError", None)
    BY <1>6 DEF UnsealRejected
  <2>0. pc = "idle"
    BY <1>6 DEF UnsealRejected, Idle
  <2>2. TypeOK'
    BY <2>1 DEF Inv, TypeOK, sealVars, Return, argVars
  <2>3. CallInv' /\ ReturnInv'
    BY <2>0, <2>1, PlainReturn
  <2> QED
    BY <2>1, <2>2, <2>3, HistoryKept DEF Inv
<1>7. ASSUME NEW b \in Presentable, NEW e \in Environments, NEW bad \in BOOLEAN,
             Unseal(b, e, bad)
      PROVE  Inv'
  <2>1. UNCHANGED sealVars
    BY <1>7 DEF Unseal
  <2>2. TypeOK'
    BY <1>7 DEF Inv, TypeOK, sealVars, locals, Unseal
  <2>3. Presented(b)
    BY CarrierPresents DEF Inv, TypeOK
  <2>4. CallInv' /\ ReturnInv'
    BY <1>7, <2>1, <2>3, HistoryKept
       DEF Unseal, Idle, Inv, TypeOK, CallInv, ReturnInv, VerdictMatchesOpens, Presented,
           locals
  <2> QED
    BY <2>1, <2>2, <2>4, HistoryKept DEF Inv
<1>8. CASE Parse
  <2>1. UNCHANGED sealVars
    BY <1>8 DEF Parse
  <2>2. TypeOK'
    BY <1>8 DEF Inv, TypeOK, sealVars, locals, argVars, Parse, Return
  <2>3. ParseFault(blob) => ~ WellFormed(blob)
    BY <1>8 DEF Parse, ParseFault, LengthMismatch, NoTag, WellFormed, TagLen, Inv, CallInv,
         Presented, HasShape
  <2>4. CallInv' /\ ReturnInv'
    BY <1>8, <2>1, <2>3, HistoryKept
       DEF Parse, Return, Inv, CallInv, ReturnInv, VerdictMatchesOpens,
           Presented, locals, argVars
  <2> QED
    BY <2>1, <2>2, <2>4, HistoryKept DEF Inv
<1>9. CASE Derive
  <2>1. UNCHANGED sealVars
    BY <1>9 DEF Derive
  <2>2. TypeOK'
    BY <1>9 DEF Inv, TypeOK, sealVars, argVars, Derive, Return
  <2>3. CallInv' /\ ReturnInv'
    BY <1>9, <2>1, HistoryKept
       DEF Derive, Return, Inv, CallInv, ReturnInv, VerdictMatchesOpens, Presented, argVars
  <2> QED
    BY <2>1, <2>2, <2>3, HistoryKept DEF Inv
<1>10. CASE CheckCommitment
  <2>1. UNCHANGED sealVars
    BY <1>10 DEF CheckCommitment
  <2>2. TypeOK'
    BY <1>10 DEF Inv, TypeOK, sealVars, argVars, CheckCommitment
  <2>3. CallInv' /\ ReturnInv'
    BY <1>10, <2>1, HistoryKept
       DEF CheckCommitment, Inv, CallInv, ReturnInv, VerdictMatchesOpens, Presented,
           argVars, CommitmentOk
  <2> QED
    BY <2>1, <2>2, <2>3, HistoryKept DEF Inv
<1>11. CASE AttemptAead
  <2>1. UNCHANGED sealVars
    BY <1>11 DEF AttemptAead, AeadStatus, Recovered, Decrypted
  <2>2. Decrypts(keys.enc, blob.prefix.nonce, blob.ct, Aad(blob.prefix, env)) = AeadOk(blob, env)
    BY <1>11 DEF AttemptAead, AeadStatus, Recovered, Decrypted, AeadOk, Inv, CallInv
  <2>3. AeadOk(blob, env) => blob.ct.plain \in States
    <3>1. AeadOk(blob, env) => \E h \in Held : blob.ct = h.ct
      BY <1>11 DEF AttemptAead, Recovered, Decrypted, AeadOk, Decrypts, Inv, CallInv,
           Presented
    <3> QED
      BY <3>1, HeldShape DEF Inv, TypeOK
  <2>4. TypeOK'
    BY <1>11, <2>2, <2>3 DEF Inv, TypeOK, sealVars, argVars, AttemptAead, AeadStatus,
         Recovered, Decrypted
  <2>5. CallInv' /\ ReturnInv'
    BY <1>11, <2>1, <2>2, <2>3, HistoryKept
       DEF AttemptAead, AeadStatus, Recovered, Decrypted, Inv, CallInv, ReturnInv,
           VerdictMatchesOpens, Presented, argVars
  <2> QED
    BY <2>1, <2>4, <2>5, HistoryKept DEF Inv
<1>12. CASE Combine
  <2>1. UNCHANGED sealVars
    BY <1>12 DEF Combine, Accepted
  <2>2. WellFormed(blob)
    BY <1>12 DEF Combine, Accepted, Inv, CallInv, ParseFault, LengthMismatch, NoTag,
         WellFormed, TagLen, Presented, HasShape
  <2>3. (commitmentOk /\ aead = "ok") <=> Opens(blob, env)
    BY <1>12, <2>2 DEF Combine, Accepted, Inv, CallInv, Opens
  <2>4. TypeOK'
    BY <1>12 DEF Inv, TypeOK, CallInv, sealVars, argVars, Combine, Accepted, Return
  <2>5. CallInv' /\ ReturnInv'
    BY <1>12, <2>1, <2>2, <2>3, HistoryKept
       DEF Combine, Accepted, Return, Inv, CallInv, ReturnInv, VerdictMatchesOpens,
           Presented, argVars
  <2> QED
    BY <2>1, <2>4, <2>5, HistoryKept DEF Inv
<1>13. CASE TakeResult
  <2>1. UNCHANGED sealVars
    BY <1>13 DEF TakeResult
  <2>2. TypeOK'
    BY <1>13 DEF Inv, TypeOK, sealVars, locals, TakeResult
  <2>3. CallInv' /\ ReturnInv'
    BY <1>13 DEF TakeResult, Inv, CallInv, ReturnInv, VerdictMatchesOpens, locals
  <2> QED
    BY <2>1, <2>2, <2>3, HistoryKept DEF Inv
<1>14. CASE UNCHANGED vars
  <2>1. UNCHANGED sealVars
    BY <1>14 DEF vars
  <2>2. TypeOK'
    BY <1>14 DEF Inv, TypeOK, vars, sealVars, argVars, locals
  <2>3. CallInv' /\ ReturnInv'
    BY <1>14, <2>1, HistoryKept
       DEF Inv, CallInv, ReturnInv, VerdictMatchesOpens, Presented, vars, argVars, locals
  <2> QED
    BY <2>1, <2>2, <2>3, HistoryKept DEF Inv
<1> QED
  BY <1>1, <1>2, <1>3, <1>4, <1>5, <1>6, <1>7, <1>8, <1>9, <1>10, <1>11, <1>12,
     <1>13, <1>14 DEF Next, Carry
-------------------------------------------------------------------------------
(***************************************************************************)
(* The theorems.                                                           *)
(***************************************************************************)

\* The invariant holds throughout every behaviour.
THEOREM Invariance == Spec => []Inv
BY InitInv, NextInv, PTL DEF Spec

\* The variables keep their types.
THEOREM TypeCorrect == Spec => []TypeOK
<1>1. Inv => TypeOK
  BY DEF Inv
<1> QED
  BY <1>1, Invariance, PTL

\* Fail closed: unseal_state returns a state only for the very envelope that
\* seal_state made of it, in the environment it was made in.
THEOREM FailsClosed == Spec => []OpensOnlyWhatWasSealed
<1>1. Inv => OpensOnlyWhatWasSealed
  <2> SUFFICES ASSUME Inv, outcome = "opened"
               PROVE  \E k \in DOMAIN sealed : /\ sealed[k].blob = blob
                                               /\ sealed[k].env = env
                                               /\ sealed[k].state = released
    BY DEF OpensOnlyWhatWasSealed, Inv, ReturnInv
  <2> QED
    BY OpenedWasSealed DEF Inv, ReturnInv, VerdictMatchesOpens
<1> QED
  BY <1>1, Invariance, PTL

\* What was sealed opens in its own environment.
LEMMA SealedOpens ==
  ASSUME Inv, NEW k \in DOMAIN sealed
  PROVE  Opens(sealed[k].blob, sealed[k].env)
<1>1. PICK n \in 1 .. MaxSeals : sealed[k].blob = SealEnvelope(sealed[k].state, sealed[k].env, n, n)
  BY SealedShape DEF Inv, TypeOK
<1>2. Len(sealed[k].state) \in Nat
  BY SealedShape, StatesAssumption DEF Inv, TypeOK
<1> QED
  BY <1>1, <1>2, SealThenOpen

\* Failing closed never refuses a genuine envelope in its own environment.
THEOREM AcceptsItsOwn == Spec => []NeverRefusesItsOwn
<1>1. Inv => NeverRefusesItsOwn
  BY SealedOpens DEF NeverRefusesItsOwn, Inv, ReturnInv, VerdictMatchesOpens, Opens
<1> QED
  BY <1>1, Invariance, PTL

\* The statements of unseal_state come to the verdict Opens, and the class of a
\* refusal depends on the bytes alone.
THEOREM VerdictCorrect == Spec => []VerdictMatchesOpens
<1>1. Inv => VerdictMatchesOpens
  BY DEF Inv, ReturnInv
<1> QED
  BY <1>1, Invariance, PTL

\* No two envelopes share a nonce, a salt, a commitment or a key.
THEOREM Unlinkable == Spec => []SealsShareNoField
<1>1. Inv => SealsShareNoField
  <2> SUFFICES ASSUME Inv, NEW j \in DOMAIN sealed, NEW k \in DOMAIN sealed, j # k
               PROVE  LET a == sealed[j].blob
                          b == sealed[k].blob
                      IN  /\ a.prefix.nonce # b.prefix.nonce
                          /\ a.prefix.salt # b.prefix.salt
                          /\ a.prefix.commitment # b.prefix.commitment
                          /\ a.ct.key # b.ct.key
    BY DEF SealsShareNoField
  <2>1. \A x \in DOMAIN sealed :
          /\ sealed[x].blob.prefix.nonce = sealed[x].blob.prefix.salt
          /\ sealed[x].blob.prefix.commitment.salt = sealed[x].blob.prefix.salt
          /\ sealed[x].blob.ct.key.salt = sealed[x].blob.prefix.salt
    <3> TAKE x \in DOMAIN sealed
    <3>1. PICK n \in 1 .. MaxSeals :
            sealed[x].blob = SealEnvelope(sealed[x].state, sealed[x].env, n, n)
      BY SealedShape DEF Inv, TypeOK
    <3> QED
      BY <3>1 DEF SealEnvelope, Pack, Encrypt, HeaderPrefix, DeriveKeyMaterial
  <2>2. sealed[j].blob.prefix.salt # sealed[k].blob.prefix.salt
    BY DEF Inv, DrawInv
  <2> QED
    BY <2>1, <2>2
<1> QED
  BY <1>1, Invariance, PTL

\* No mismatch is reported before the AEAD was tried.
THEOREM AeadFirst == Spec => AeadTriedBeforeMismatch
<1>1. Inv /\ [Next]_vars => [outcome' = "mismatch" /\ outcome # "mismatch" => aead # "untried"]_vars
  <2> SUFFICES ASSUME Inv, Next, outcome' = "mismatch", outcome # "mismatch"
               PROVE  aead # "untried"
    OBVIOUS
  <2>1. CASE Combine
    BY <2>1 DEF Combine, Accepted, Inv, CallInv
  <2> QED
    BY <2>1 DEF Next, Carry, SealRejected, SealSecretRejected, Seal, SealWrongCommitment,
       SealForeignAad, UnsealRejected, Unseal, Parse, Derive,
       CheckCommitment,
       AttemptAead, AeadStatus, Recovered, Decrypted, TakeResult, Return
<1> QED
  BY <1>1, Invariance, PTL DEF Spec, AeadTriedBeforeMismatch
-------------------------------------------------------------------------------
(***************************************************************************)
(* The seal-count ceiling, for every ceiling and every environment: a      *)
(* caller that passes the count of its seals per (secret, epoch) never     *)
(* gets one envelope more than the ceiling, whatever it seals in between.  *)
(***************************************************************************)

\* The positions in the history of the seals counted with e's.
Counted(s, e) ==
  {k \in DOMAIN s : s[k].env.secret = e.secret /\ s[k].env.epoch = e.epoch}

\* The count of seals is a natural number.
LEMMA CountedIsFinite ==
  ASSUME Inv, NEW e
  PROVE  /\ IsFiniteSet(Counted(sealed, e))
         /\ SealCount(e) = Cardinality(Counted(sealed, e))
         /\ SealCount(e) \in Nat
<1>1. DOMAIN sealed = 1 .. Len(sealed) /\ Len(sealed) \in Nat
  BY LenProperties DEF Inv, TypeOK
<1>2. IsFiniteSet(1 .. Len(sealed))
  BY <1>1, FS_Interval
<1>3. IsFiniteSet(Counted(sealed, e))
  BY <1>1, <1>2, FS_Subset DEF Counted
<1> QED
  BY <1>3, FS_CardinalityType DEF SealCount, Counted

\* A seal is counted once, for its own (secret, epoch).
LEMMA SealCounts ==
  ASSUME Inv, NEW e \in Environments, NEW state \in States, Seal(e, state), NEW f
  PROVE  SealCount(f)' = IF f.secret = e.secret /\ f.epoch = e.epoch
                           THEN SealCount(f) + 1 ELSE SealCount(f)
<1> DEFINE r == [env |-> e, state |-> state, blob |-> SealEnvelope(state, e, drawn + 1, drawn + 1)]
           n == Len(sealed) + 1
<1>1. sealed' = Append(sealed, r) /\ r.env = e
  BY DEF Seal
<1> HIDE DEF r
<1>2. /\ DOMAIN sealed = 1 .. Len(sealed) /\ Len(sealed) \in Nat
      /\ DOMAIN sealed' = 1 .. n
      /\ \A k \in 1 .. Len(sealed) : sealed'[k] = sealed[k]
      /\ sealed'[n] = r
  BY <1>1, AppendProperties, LenProperties DEF Inv, TypeOK
<1>3. SealCount(f)' = Cardinality(Counted(sealed', f))
  BY DEF SealCount, Counted
<1>4. n \notin Counted(sealed, f)
  BY <1>2 DEF Counted
<1>5. CASE f.secret = e.secret /\ f.epoch = e.epoch
  <2>1. Counted(sealed', f) = Counted(sealed, f) \cup {n}
    BY <1>1, <1>2, <1>5 DEF Counted
  <2> QED
    BY <1>3, <1>4, <1>5, <2>1, CountedIsFinite, FS_AddElement
<1>6. CASE ~ (f.secret = e.secret /\ f.epoch = e.epoch)
  <2>1. Counted(sealed', f) = Counted(sealed, f)
    BY <1>1, <1>2, <1>6 DEF Counted
  <2> QED
    BY <1>3, <1>6, <2>1, CountedIsFinite
<1> QED
  BY <1>5, <1>6

\* Nothing is counted at first.
LEMMA InitCount == Init => CountedSealsBelowCeiling
<1> SUFFICES ASSUME Init, NEW e \in Environments
             PROVE  SealCount(e) <= SealCountCeiling
  BY DEF CountedSealsBelowCeiling
<1>1. Inv /\ sealed = <<>>
  BY InitInv DEF Init
<1>2. Counted(sealed, e) = {}
  BY <1>1 DEF Counted
<1> QED
  BY <1>1, <1>2, CountedIsFinite, FS_EmptySet, CeilingAssumption

\* Only seal_state adds to the history, and it refuses at the ceiling.
LEMMA NextCount ==
  Inv /\ CountedSealsBelowCeiling /\ [Next]_vars => CountedSealsBelowCeiling'
<1> SUFFICES ASSUME Inv, CountedSealsBelowCeiling, [Next]_vars, NEW f \in Environments
             PROVE  SealCount(f)' <= SealCountCeiling
  BY DEF CountedSealsBelowCeiling
<1>1. SealCount(f) <= SealCountCeiling /\ SealCount(f) \in Nat
  BY CountedIsFinite DEF CountedSealsBelowCeiling
<1>2. ASSUME NEW e \in Environments, NEW state \in States, Seal(e, state)
      PROVE  SealCount(f)' <= SealCountCeiling
  <2>1. SealCount(e) < SealCountCeiling
    BY <1>2 DEF Seal, BelowCeiling
  <2>2. CASE f.secret = e.secret /\ f.epoch = e.epoch
    <3>1. SealCount(f) = SealCount(e)
      BY <2>2 DEF SealCount
    <3>2. SealCount(f)' = SealCount(f) + 1
      BY <1>2, <2>2, SealCounts
    <3> QED
      BY <1>1, <2>1, <3>1, <3>2, CeilingAssumption
  <2>3. CASE ~ (f.secret = e.secret /\ f.epoch = e.epoch)
    BY <1>1, <1>2, <2>3, SealCounts
  <2> QED
    BY <2>2, <2>3
<1>3. CASE UNCHANGED sealed
  BY <1>1, <1>3 DEF SealCount
<1> QED
  BY <1>2, <1>3 DEF Next, Carry, vars, sealVars, SealRejected, SealSecretRejected,
     SealWrongCommitment, SealForeignAad, UnsealRejected, Unseal, Parse, Derive,
     CheckCommitment, AttemptAead, AeadStatus, Recovered, Decrypted, Combine, Accepted, TakeResult

\* Never more than the ceiling of envelopes under one (secret, epoch).
THEOREM CeilingHolds == Spec => []CountedSealsBelowCeiling
BY InitCount, NextCount, Invariance, PTL DEF Spec
-------------------------------------------------------------------------------
(***************************************************************************)
(* seal_state and unseal_state implement SealedStore, for every value of   *)
(* the constants.  A seal is a Put, an unseal_state that gets past its     *)
(* argument checks is an Ask, the statement it returns at is the Answer,   *)
(* and the caller's taking the result is the Forget; every other step      *)
(* stutters.                                                               *)
(***************************************************************************)

\* The abstract variables, as Envelope maps them.
storeBar   == {Item(k) : k \in DOMAIN sealed}
requestBar == IF env = None THEN None ELSE [item |-> Asked, env |-> env]
answerBar  == IF pc = "returned" /\ env # None
                THEN [opened |-> outcome = "opened", state |-> released]
                ELSE None

Granted == Asked # None /\ Asked.env = env

\* At its return, a call has answered as the store would.
AnswerIsRight ==
  pc = "returned" /\ env # None =>
    /\ Granted => outcome = "opened" /\ released = Asked.state
    /\ ~ Granted => outcome # "opened" /\ released = None
-------------------------------------------------------------------------------
\* Envelopes tell seals apart, so what is asked for is what was sealed.
LEMMA AskedIsTheSealed ==
  ASSUME Inv, NEW k \in DOMAIN sealed, blob = sealed[k].blob, ~ badSecret
  PROVE  Asked = Item(k)
<1> DEFINE c == CHOOSE n \in DOMAIN sealed : blob = sealed[n].blob
<1>1. c \in DOMAIN sealed /\ blob = sealed[c].blob
  OBVIOUS
<1>2. c = k
  BY <1>1 DEF Inv, DrawInv
<1> QED
  BY <1>1, <1>2 DEF Asked

\* What is asked for is stored, if anything.
LEMMA AskedIsStored ==
  ASSUME Inv
  PROVE  /\ Asked \in storeBar \cup {None}
         /\ storeBar \subseteq StoredItems
         /\ Asked # None =>
              ~ badSecret /\ \E k \in DOMAIN sealed : blob = sealed[k].blob /\ Asked = Item(k)
<1>1. storeBar \subseteq StoredItems
  BY SealedShape DEF storeBar, StoredItems, Item, Inv, TypeOK
<1>2. CASE ~ badSecret /\ \E k \in DOMAIN sealed : blob = sealed[k].blob
  <2>1. PICK k \in DOMAIN sealed : blob = sealed[k].blob
    BY <1>2
  <2>2. Asked = Item(k)
    BY <1>2, <2>1, AskedIsTheSealed
  <2> QED
    BY <1>1, <1>2, <2>1, <2>2 DEF storeBar
<1>3. CASE ~ (~ badSecret /\ \E k \in DOMAIN sealed : blob = sealed[k].blob)
  <2>1. Asked = None
    BY <1>3 DEF Asked
  <2> QED
    BY <1>1, <2>1
<1> QED
  BY <1>2, <1>3

Askable == Asked \in storeBar \cup {None}

\* The same as a state predicate, to be used of the next state.
LEMMA AskableInv == Inv => Askable
BY AskedIsStored DEF Askable

\* Whatever unseal_state returns, and at whichever check, is the store's answer.
LEMMA AnswerRight == Inv => AnswerIsRight
<1> SUFFICES ASSUME Inv, pc = "returned", env # None
             PROVE  /\ Granted => outcome = "opened" /\ released = Asked.state
                    /\ ~ Granted => outcome # "opened" /\ released = None
  BY DEF AnswerIsRight
<1>1. CASE outcome = "opened"
  <2>1. /\ Presented(blob) /\ env \in Environments /\ ~ badSecret
        /\ Opens(blob, env) /\ released = blob.ct.plain
    BY <1>1 DEF Inv, ReturnInv, VerdictMatchesOpens
  <2>2. PICK k \in DOMAIN sealed : /\ sealed[k].blob = blob
                                   /\ sealed[k].env = env
                                   /\ sealed[k].state = blob.ct.plain
    BY <2>1, OpenedWasSealed
  <2>3. Asked = Item(k)
    BY <2>1, <2>2, AskedIsTheSealed
  <2>4. Item(k) \in storeBar
    BY DEF storeBar
  <2>5. Asked # None
    BY <2>3, <2>4, AskedIsStored, NoneAssumption
  <2> QED
    BY <1>1, <2>1, <2>2, <2>3, <2>5 DEF Granted, Item
<1>2. CASE outcome # "opened"
  <2>1. released = None
    BY <1>2 DEF Inv, ReturnInv
  <2>2. ASSUME Granted PROVE FALSE
    <3>1. PICK k \in DOMAIN sealed : blob = sealed[k].blob /\ Asked = Item(k)
      BY <2>2, AskedIsStored DEF Granted
    <3>2. ~ badSecret /\ sealed[k].env = env
      BY <2>2, <3>1, AskedIsStored DEF Granted, Item
    <3>3. Opens(blob, env) /\ WellFormed(blob)
      BY <3>1, <3>2, SealedOpens DEF Opens
    <3> QED
      BY <1>2, <3>2, <3>3 DEF Inv, ReturnInv, VerdictMatchesOpens
  <2> QED
    BY <1>2, <2>1, <2>2
<1> QED
  BY <1>1, <1>2
-------------------------------------------------------------------------------
\* A request, and an answer, is not None.
LEMMA Presence ==
  ASSUME Inv
  PROVE  /\ env # None => requestBar # None
         /\ pc = "returned" /\ env # None => answerBar # None
<1>1. env # None => env \in Environments
  BY DEF Inv, TypeOK
<1>2. Asked \in StoredItems \cup {None}
  BY AskedIsStored
<1>3. released \in States \cup {None}
  BY DEF Inv, TypeOK
<1>4. ASSUME env # None PROVE requestBar # None
  <2>1. [item |-> Asked, env |-> env] \in [item : StoredItems \cup {None}, env : Environments]
    BY <1>1, <1>2, <1>4
  <2> QED
    BY <1>4, <2>1, NoneAssumption DEF requestBar
<1>5. ASSUME pc = "returned", env # None PROVE answerBar # None
  <2> DEFINE ok == outcome = "opened"
  <2>1. ok \in BOOLEAN
    OBVIOUS
  <2>2. answerBar = [opened |-> ok, state |-> released]
    BY <1>5 DEF answerBar
  <2> HIDE DEF ok
  <2>3. [opened |-> ok, state |-> released] \in [opened : BOOLEAN, state : States \cup {None}]
    BY <1>3, <2>1
  <2> QED
    BY <2>2, <2>3, NoneAssumption
<1> QED
  BY <1>4, <1>5

\* Initial states map to the abstract initial state.
LEMMA InitStore == Init => Store!Init
BY DEF Init, Store!Init

\* A step that touches none of what the mapping reads stutters.
LEMMA Stutters ==
  ASSUME UNCHANGED <<sealed, argVars>>,
         pc # "returned" \/ env = None, pc' # "returned" \/ env = None
  PROVE  UNCHANGED Store!vars
BY DEF Store!vars, argVars, Asked, Item

\* A call that ends while a question is open answers it.
LEMMA Answers ==
  ASSUME Inv, Inv', pc # "returned", pc' = "returned", env # None,
         UNCHANGED <<sealed, argVars>>
  PROVE  Store!Answer
<1>1. storeBar' = storeBar /\ requestBar' = requestBar /\ Asked' = Asked /\ env' = env
  BY DEF storeBar, requestBar, argVars, Asked, Item
<1>2. AnswerIsRight'
  BY AnswerRight, PTL
<1>3. Granted' = Granted
  BY <1>1 DEF Granted
<1>4. answerBar = None /\ requestBar # None
  BY Presence DEF answerBar
<1>5. answerBar' = [opened |-> outcome' = "opened", state |-> released']
  BY <1>1 DEF answerBar
<1>6. answerBar' = IF Granted THEN [opened |-> TRUE, state |-> Asked.state]
                   ELSE [opened |-> FALSE, state |-> None]
  BY <1>1, <1>2, <1>3, <1>5 DEF AnswerIsRight
<1> QED
  BY <1>1, <1>4, <1>6
     DEF Store!Answer, Store!Grants, storeBar, requestBar, answerBar, Granted

\* Every step is a step of the store, or stutters.
LEMMA NextStore == Inv /\ Inv' /\ [Next]_vars => [Store!Next]_(Store!vars)
<1> SUFFICES ASSUME Inv, Inv', [Next]_vars
             PROVE  Store!Next \/ UNCHANGED Store!vars
  BY DEF Store!vars
<1> USE DEF Idle
<1>1. ASSUME NEW e \in Environments, NEW state \in States, Seal(e, state)
      PROVE  Store!Next
  <2>1. env = None /\ env' = None
    BY <1>1 DEF Seal, Return, argVars, Inv, CallInv
  <2>2. storeBar' = storeBar \cup {[env |-> e, state |-> state]}
    <3> DEFINE r == [env |-> e, state |-> state,
                     blob |-> SealEnvelope(state, e, drawn + 1, drawn + 1)]
    <3>1. sealed' = Append(sealed, r)
      BY <1>1 DEF Seal
    <3>2. r.env = e /\ r.state = state
      OBVIOUS
    <3> HIDE DEF r
    <3>3. /\ DOMAIN sealed = 1 .. Len(sealed) /\ Len(sealed) \in Nat
          /\ DOMAIN sealed' = 1 .. Len(sealed) + 1
          /\ \A k \in 1 .. Len(sealed) : sealed'[k] = sealed[k]
          /\ sealed'[Len(sealed) + 1] = r
      BY <3>1, AppendProperties, LenProperties DEF Inv, TypeOK
    <3> DEFINE ItemOf(s, k) == [env |-> s[k].env, state |-> s[k].state]
    <3>4. \A k \in DOMAIN sealed : ItemOf(sealed', k) = ItemOf(sealed, k)
      BY <3>3
    <3>5. ItemOf(sealed', Len(sealed) + 1) = [env |-> e, state |-> state]
      BY <3>2, <3>3
    <3>6. /\ storeBar = {ItemOf(sealed, k) : k \in DOMAIN sealed}
          /\ storeBar' = {ItemOf(sealed', k) : k \in DOMAIN sealed'}
      BY DEF storeBar, Item
    <3>7. DOMAIN sealed' = DOMAIN sealed \cup {Len(sealed) + 1}
      BY <3>3
    <3> HIDE DEF ItemOf
    <3> QED
      BY <3>4, <3>5, <3>6, <3>7
  <2>3. Store!Put(e, state)
    BY <2>1, <2>2 DEF Store!Put, storeBar
  <2> QED
    BY <2>3 DEF Store!Next
<1>2. ASSUME NEW b \in Presentable, NEW e \in Environments, NEW bad \in BOOLEAN,
             Unseal(b, e, bad)
      PROVE  Store!Next
  <2>1. env = None /\ env' = e /\ pc' = "parse" /\ UNCHANGED sealed
    BY <1>2 DEF Unseal, Inv, CallInv, sealVars
  <2>2. env' # None
    BY <2>1, NoneAssumption
  <2>3. storeBar' = storeBar
    BY <2>1 DEF storeBar, Item
  <2>4. (Asked \in storeBar \cup {None})'
    BY AskableInv, PTL DEF Askable
  <2>5. requestBar = None /\ requestBar' = [item |-> Asked', env |-> e]
    BY <2>1, <2>2 DEF requestBar
  <2>6. answerBar = None /\ answerBar' = None
    BY <2>1 DEF answerBar
  <2>7. Store!Ask(Asked', e)
    BY <2>3, <2>5, <2>6 DEF Store!Ask, storeBar, requestBar, answerBar
  <2> QED
    BY <2>3, <2>4, <2>7 DEF Store!Next, storeBar
<1>3. ASSUME Parse \/ Derive \/ Combine
      PROVE  Store!Next \/ UNCHANGED Store!vars
  <2>1. UNCHANGED <<sealed, argVars>> /\ pc # "returned" /\ env # None
    BY <1>3, NoneAssumption
       DEF Parse, Derive, Combine, Accepted, Return, sealVars, argVars,
           Inv, CallInv
  <2>2. CASE pc' = "returned"
    BY <2>1, <2>2, Answers DEF Store!Next
  <2>3. CASE pc' # "returned"
    BY <2>1, <2>3, Stutters
  <2> QED
    BY <2>2, <2>3
<1>4. CASE CheckCommitment \/ AttemptAead
  BY <1>4, Stutters DEF CheckCommitment, AttemptAead, AeadStatus, Recovered, Decrypted,
       sealVars
<1>5. CASE TakeResult
  <2>1. pc = "returned" /\ pc' = "idle" /\ env' = None /\ UNCHANGED sealed
    BY <1>5 DEF TakeResult, sealVars
  <2>2. storeBar' = storeBar /\ requestBar' = None /\ answerBar' = None
    BY <2>1 DEF storeBar, Item, requestBar, answerBar
  <2>3. CASE env = None
    <3>1. requestBar = None /\ answerBar = None
      BY <2>3 DEF requestBar, answerBar
    <3> QED
      BY <2>2, <3>1 DEF Store!vars, storeBar, requestBar, answerBar
  <2>4. CASE env # None
    <3>1. answerBar # None
      BY <2>1, <2>4, Presence
    <3> QED
      BY <2>2, <3>1 DEF Store!Next, Store!Forget, storeBar, requestBar, answerBar
  <2> QED
    BY <2>3, <2>4
<1>6. ASSUME \/ \E e \in Environments, fault \in Faults : SealRejected(e, fault)
             \/ SealSecretRejected
             \/ \E fault \in Faults : UnsealRejected(fault)
      PROVE  UNCHANGED Store!vars
  <2>1. UNCHANGED <<sealed, argVars>> /\ env = None
    BY <1>6 DEF SealRejected, SealSecretRejected, UnsealRejected, Return, sealVars, argVars,
                Inv, CallInv
  <2> QED
    BY <2>1, Stutters
<1>7. ASSUME \/ \E e \in Environments, state \in States : SealWrongCommitment(e, state)
             \/ \E e, other \in Environments, state \in States : SealForeignAad(e, other, state)
      PROVE  UNCHANGED Store!vars
  <2>1. UNCHANGED <<sealed, argVars, pc>> /\ pc # "returned"
    BY <1>7 DEF SealWrongCommitment, SealForeignAad
  <2> QED
    BY <2>1, Stutters
<1>8. CASE UNCHANGED vars
  <2>1. UNCHANGED <<sealed, argVars, pc, outcome, released>>
    BY <1>8 DEF vars, sealVars
  <2> QED
    BY <2>1 DEF Store!vars, argVars, Asked, Item
<1> QED
  BY <1>1, <1>2, <1>3, <1>4, <1>5, <1>6, <1>7, <1>8 DEF Next, Carry

\* seal_state and unseal_state implement the abstract store: whatever the
\* carrier does, a state comes back in the environment it was put away in, or
\* not at all.
THEOREM StoreImplemented == Spec => ImplementsStore
<1>1. Spec => Store!Init /\ [][Store!Next]_(Store!vars)
  BY InitStore, NextStore, Invariance, PTL DEF Spec
<1> QED
  BY <1>1 DEF ImplementsStore, Store!Spec
==============================================================================
