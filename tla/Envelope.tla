------------------------------- MODULE Envelope -------------------------------
(***************************************************************************)
(* seal_state and unseal_state of sce/core.py, called any number of times  *)
(* under changing environments, with the sealed envelopes kept by a        *)
(* carrier in between.  The library keeps no state: everything that lasts  *)
(* is what the carrier holds.  The carrier may hand back any envelope      *)
(* assembled from parts of the ones it holds, or one whose bytes were      *)
(* damaged.  Two sealers that do not conform (the ones the isolating tests *)
(* build by hand) also contribute envelopes.                               *)
(*                                                                         *)
(* unseal_state is modelled statement by statement; seal_state, whose only *)
(* effect is the envelope it returns, is one step.  Salts and nonces are   *)
(* numbered in the order os.urandom returns them: a fresh one is one that  *)
(* was never drawn before.                                                 *)
(***************************************************************************)
EXTENDS SCECrypto, FiniteSets

CONSTANTS Secrets, Memhs, Epochs, Contexts,  \* the valid arguments of a call
          Environments,                      \* the combinations of them in use
          States,                            \* the byte strings that get sealed
          SealCountCeiling,                  \* SEAL_COUNT_CEILING_PER_KEY
          MaxSeals,                          \* bound: envelopes made in a behaviour
          None                               \* no value: Python's None, an unset local

\* What the abstract store holds.
StoredItems == [env : Environments, state : States]

ASSUME EnvironmentsAssumption ==
  Environments \subseteq
    [secret : Secrets, memh : Memhs, epoch : Epochs, context : Contexts]
ASSUME StatesAssumption  == \A s \in States : Len(s) \in Nat
ASSUME NoneAssumption    ==
  /\ None \notin States \cup Environments
  /\ None \notin StoredItems
  /\ None \notin [item : StoredItems \cup {None}, env : Environments]
  /\ None \notin [opened : BOOLEAN, state : States \cup {None}]
ASSUME CeilingAssumption == SealCountCeiling \in Nat \ {0}
ASSUME BoundAssumption   == MaxSeals \in Nat

VARIABLES
  sealed,        \* every seal so far, in order (history; the carrier keeps its envelopes)
  strays,        \* envelopes of the nonconforming sealers
  drawn,         \* how many salts, and as many nonces, os.urandom has returned
  pc,            \* "idle", the next statement of unseal_state, or "returned"
  blob, env,     \* its arguments: the envelope and the environment presented
  badSecret,     \*   and whether the master secret fails its check
  keys,          \* (K_enc, commitment) it derived
  commitmentOk,  \* its commitment verdict
  plaintext,     \* what AES-GCM-SIV returned, None after InvalidTag
  aead,          \* "untried", "ok" or "failed"
  outcome,       \* how the call just made ended
  released       \* the state it returned to its caller, or None

sealVars == <<sealed, strays, drawn>>
argVars  == <<blob, env, badSecret>>
locals   == <<keys, commitmentOk, plaintext, aead>>
vars     == <<sealVars, pc, argVars, locals, outcome, released>>

Idle == pc = "idle"

\* A call ends with `result', handing `state' to its caller.
Return(result, state) ==
  /\ pc' = "returned"
  /\ outcome' = result
  /\ released' = state
  /\ keys' = None /\ commitmentOk' = FALSE /\ plaintext' = None /\ aead' = "untried"
  /\ UNCHANGED argVars

\* Arguments rejected before anything else happens, and the one rejected late.
EarlyFaults == {"manifest", "context", "epoch"}
SealFaults  == EarlyFaults \cup {"state", "seal_count"}
Faults      == {"none"} \cup SealFaults

-------------------------------------------------------------------------------
(***************************************************************************)
(* Sealing.                                                                *)
(***************************************************************************)

\* The monotonic count of seals per (secret, epoch) that the caller keeps and
\* passes as seal_count.  A caller that passes None is one whose ceiling is out
\* of reach.
SealCount(e) ==
  Cardinality({i \in DOMAIN sealed : /\ sealed[i].env.secret = e.secret
                                     /\ sealed[i].env.epoch = e.epoch})

\* Mutant: the ceiling is off by one.
BelowOrAtCeiling(e) == SealCount(e) <= SealCountCeiling

BelowCeiling(e) == SealCount(e) < SealCountCeiling

\* An argument check fails: SCEError, nothing drawn, nothing sealed.
SealRejected(e, fault) ==
  /\ Idle
  /\ \/ fault \in SealFaults
     \/ ~ BelowCeiling(e)
  /\ Return("SCEError", None)
  /\ UNCHANGED sealVars

\* The master secret is checked by the key derivation, after salt and nonce are drawn.
SealSecretRejected ==
  /\ Idle
  /\ drawn < MaxSeals
  /\ drawn' = drawn + 1
  /\ Return("SCEError", None)
  /\ UNCHANGED <<sealed, strays>>

Seal(e, state) ==
  /\ Idle
  /\ drawn < MaxSeals
  /\ BelowCeiling(e)
  /\ drawn' = drawn + 1
  /\ sealed' = Append(sealed,
       [env |-> e, state |-> state,
        blob |-> SealEnvelope(state, e, drawn + 1, drawn + 1)])
  /\ Return("sealed", None)
  /\ UNCHANGED strays

\* A sealer that stores the commitment of another salt, its AEAD being valid
\* over the header it ships.
SealWrongCommitment(e, state) ==
  LET salt   == drawn + 1
      prefix == HeaderPrefix(drawn + 1, salt, DeriveKeyMaterial(e, 0).commitment)
      key    == DeriveKeyMaterial(e, salt).enc
  IN  /\ Idle
      /\ drawn < MaxSeals
      /\ drawn' = drawn + 1
      /\ strays' = strays \cup
           {Pack(prefix, Encrypt(key, drawn + 1, state, Aad(prefix, e)))}
      /\ UNCHANGED <<sealed, pc, argVars, locals, outcome, released>>

\* A sealer that builds the associated data from a manifest other than the one
\* that keys the envelope.
SealForeignAad(e, other, state) ==
  LET keyed  == DeriveKeyMaterial(e, drawn + 1)
      prefix == HeaderPrefix(drawn + 1, drawn + 1, keyed.commitment)
  IN  /\ Idle
      /\ drawn < MaxSeals
      /\ other.memh # e.memh
      /\ drawn' = drawn + 1
      /\ strays' = strays \cup
           {Pack(prefix, Encrypt(keyed.enc, drawn + 1, state, Aad(prefix, other)))}
      /\ UNCHANGED <<sealed, pc, argVars, locals, outcome, released>>
-------------------------------------------------------------------------------
(***************************************************************************)
(* The carrier.                                                            *)
(***************************************************************************)
Held == {sealed[i].blob : i \in DOMAIN sealed} \cup strays

\* Header fields and ciphertext taken from held envelopes, framed consistently.
Recombined ==
  {Pack(HeaderPrefix(a.prefix.nonce, b.prefix.salt, c.prefix.commitment), d.ct) :
     a, b, c, d \in Held}

Reframed(b) == [b EXCEPT !.ctLen = b.ct.len]

Damaged(b) ==
  {[b EXCEPT !.form = "short"], [b EXCEPT !.form = "other"],
   [b EXCEPT !.prefix.magic = "SCES"], [b EXCEPT !.prefix.version = 3],
   [b EXCEPT !.ctLen = @ + 1],
   CutCiphertext(b, b.ct.len),                    \* a byte flipped
   CutCiphertext(b, b.ct.len + 1),                \* bytes appended
   Reframed(CutCiphertext(b, b.ct.len + 1)),
   Reframed(CutCiphertext(b, TagLen)),
   Reframed(CutCiphertext(b, TagLen - 1))}

Presentable == Recombined \cup UNION {Damaged(b) : b \in Held}
-------------------------------------------------------------------------------
(***************************************************************************)
(* Unsealing.                                                              *)
(***************************************************************************)
UnsealRejected(fault) ==
  /\ Idle
  /\ fault \in EarlyFaults
  /\ Return("SCEError", None)
  /\ UNCHANGED sealVars

Unseal(b, e, bad) ==
  /\ Idle
  /\ pc' = "parse"
  /\ blob' = b
  /\ env' = e
  /\ badSecret' = bad
  /\ UNCHANGED <<sealVars, locals, outcome, released>>

\* Mutant: an envelope of the smallest size, an empty state's, is refused.
NoTagOrEmpty(b) == b.ct.len <= TagLen

NoTag(b) == b.ct.len < TagLen

\* Mutant: an envelope that declares fewer bytes than follow is let through.
Truncated(b) == b.ct.len < b.ctLen

LengthMismatch(b) == b.ct.len # b.ctLen

ParseFault(b) ==
  \/ b.form # "bytes"
  \/ b.prefix.magic # Magic
  \/ b.prefix.version # Version
  \/ LengthMismatch(b)
  \/ NoTag(b)

Parse ==
  /\ pc = "parse"
  /\ UNCHANGED sealVars
  /\ \/ ParseFault(blob) /\ Return("malformed", None)
     \/ /\ ~ParseFault(blob)
        /\ pc' = "derive"
        /\ UNCHANGED <<argVars, locals, outcome, released>>

Derive ==
  /\ pc = "derive"
  /\ UNCHANGED sealVars
  /\ \/ badSecret /\ Return("SCEError", None)
     \/ /\ ~badSecret
        /\ keys' = DeriveKeyMaterial(env, blob.prefix.salt)
        /\ pc' = "commit"
        /\ UNCHANGED <<argVars, commitmentOk, plaintext, aead, outcome, released>>

CheckCommitment ==
  /\ pc = "commit"
  /\ commitmentOk' = (blob.prefix.commitment = keys.commitment)
  /\ pc' = "aead"
  /\ UNCHANGED <<sealVars, argVars, keys, plaintext, aead, outcome, released>>

Decrypted == Decrypts(keys.enc, blob.prefix.nonce, blob.ct, Aad(blob.prefix, env))

\* Mutant: the AEAD is not tried once the commitment has failed.
AeadStatusShortCircuit ==
  IF ~ commitmentOk THEN "untried" ELSE IF Decrypted THEN "ok" ELSE "failed"

AeadStatus == IF Decrypted THEN "ok" ELSE "failed"

\* Mutant: after InvalidTag the undecrypted bytes stay in the local.
RecoveredOrInput == IF Decrypted THEN blob.ct.plain ELSE blob.ct

Recovered == IF Decrypted THEN blob.ct.plain ELSE None

AttemptAead ==
  /\ pc = "aead"
  /\ aead' = AeadStatus
  /\ plaintext' = Recovered
  /\ pc' = "combine"
  /\ UNCHANGED <<sealVars, argVars, keys, commitmentOk, outcome, released>>

\* Mutant: the commitment verdict is not combined in.
AcceptedByAead == aead = "ok"

Accepted == commitmentOk /\ aead = "ok"

Combine ==
  /\ pc = "combine"
  /\ UNCHANGED sealVars
  /\ IF Accepted
       THEN Return("opened", plaintext)
       ELSE Return("mismatch", None)

\* The caller has its answer; nothing of the call is left.
TakeResult ==
  /\ pc = "returned"
  /\ pc' = "idle"
  /\ blob' = None /\ env' = None /\ badSecret' = FALSE
  /\ outcome' = "none" /\ released' = None
  /\ UNCHANGED <<sealVars, locals>>
-------------------------------------------------------------------------------
Init ==
  /\ sealed = <<>> /\ strays = {} /\ drawn = 0
  /\ pc = "idle" /\ blob = None /\ env = None /\ badSecret = FALSE
  /\ keys = None /\ commitmentOk = FALSE /\ plaintext = None /\ aead = "untried"
  /\ outcome = "none" /\ released = None

Carry == \E b \in Presentable, e \in Environments, bad \in BOOLEAN : Unseal(b, e, bad)

Next ==
  \/ \E e \in Environments, fault \in Faults : SealRejected(e, fault)
  \/ SealSecretRejected
  \/ \E e \in Environments, state \in States : Seal(e, state)
  \/ \E e \in Environments, state \in States : SealWrongCommitment(e, state)
  \/ \E e, other \in Environments, state \in States : SealForeignAad(e, other, state)
  \/ \E fault \in Faults : UnsealRejected(fault)
  \/ Carry
  \/ Parse
  \/ Derive
  \/ CheckCommitment
  \/ AttemptAead
  \/ Combine
  \/ TakeResult

Spec == Init /\ [][Next]_vars
-------------------------------------------------------------------------------
(***************************************************************************)
(* Properties.                                                             *)
(***************************************************************************)
SealRecords ==
  {[env |-> e, state |-> s, blob |-> SealEnvelope(s, e, n, n)] :
     e \in Environments, s \in States, n \in 1 .. MaxSeals}

\* Type invariant: what each variable holds.
TypeOK ==
  /\ sealed \in Seq(SealRecords)
  /\ drawn \in 0 .. MaxSeals
  /\ pc \in {"idle", "parse", "derive", "commit", "aead", "combine", "returned"}
  /\ env \in Environments \cup {None}
  /\ badSecret \in BOOLEAN
  /\ commitmentOk \in BOOLEAN
  /\ aead \in {"untried", "ok", "failed"}
  /\ plaintext \in States \cup {None}
  /\ released \in States \cup {None}
  /\ outcome \in {"none", "sealed", "opened", "mismatch", "malformed", "SCEError"}

\* unseal_state returns a state only if seal_state made exactly this envelope,
\* field for field, from that state under the very secret, manifest, epoch and
\* context now presented; whatever the carrier recombined or damaged, and
\* whatever a nonconforming sealer made, stays closed.
OpensOnlyWhatWasSealed ==
  /\ outcome = "opened" =>
       \E i \in DOMAIN sealed : /\ sealed[i].blob = blob
                               /\ sealed[i].env = env
                               /\ sealed[i].state = released
  /\ outcome # "opened" => released = None

\* Failing closed never goes too far: an envelope that comes back unchanged,
\* under the environment it was sealed in, is not refused.
NeverRefusesItsOwn ==
  outcome \in {"mismatch", "malformed"} =>
    ~ \E i \in DOMAIN sealed : sealed[i].blob = blob /\ sealed[i].env = env

\* The statements of unseal_state, in their order, come to one verdict, the
\* operator Opens; and the class of a refusal depends on the bytes alone, so it
\* tells nothing about the environment the envelope was sealed in.
VerdictMatchesOpens ==
  /\ outcome = "malformed" => ~ WellFormed(blob)
  /\ outcome = "mismatch" => WellFormed(blob) /\ ~ badSecret /\ ~ Opens(blob, env)
  /\ outcome = "opened" => ~ badSecret /\ Opens(blob, env) /\ released = blob.ct.plain

\* Two envelopes share no field that varies: nothing a holder could cluster
\* them by, and no key that encrypts twice, even for equal arguments.
SealsShareNoField ==
  \A i, j \in DOMAIN sealed : i # j =>
    LET a == sealed[i].blob
        b == sealed[j].blob
    IN  /\ a.prefix.nonce # b.prefix.nonce
        /\ a.prefix.salt # b.prefix.salt
        /\ a.prefix.commitment # b.prefix.commitment
        /\ a.ct.key # b.ct.key

\* Never more than the ceiling of envelopes under one (secret, epoch), whatever
\* was sealed under other keys in between.
CountedSealsBelowCeiling ==
  \A e \in Environments : SealCount(e) <= SealCountCeiling

\* The AEAD is tried before any mismatch is reported, also when the commitment
\* has failed: both refusals do the same work.
AeadTriedBeforeMismatch ==
  [][outcome' = "mismatch" /\ outcome # "mismatch" => aead # "untried"]_vars

\* The promise.  What is put away are the sealed states; a question is a running
\* unseal_state, and it asks with a sealed item exactly when the envelope is one
\* seal_state made and the arguments are valid.
Item(i) == [env |-> sealed[i].env, state |-> sealed[i].state]

Asked ==
  IF ~ badSecret /\ \E i \in DOMAIN sealed : blob = sealed[i].blob
    THEN Item(CHOOSE i \in DOMAIN sealed : blob = sealed[i].blob)
    ELSE None

Store == INSTANCE SealedStore WITH
  store   <- {Item(i) : i \in DOMAIN sealed},
  request <- IF env = None THEN None ELSE [item |-> Asked, env |-> env],
  answer  <- IF pc = "returned" /\ env # None
               THEN [opened |-> outcome = "opened", state |-> released]
               ELSE None

\* seal_state and unseal_state implement the promise.
ImplementsStore == Store!Spec
===============================================================================
