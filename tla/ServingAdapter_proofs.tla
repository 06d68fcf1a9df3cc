------------------------- MODULE ServingAdapter_proofs -------------------------
(***************************************************************************)
(* Proofs about ServingAdapter, for any number of clients and turns.       *)
(*                                                                         *)
(* No silent corruption: the server never extends a state that another     *)
(* model computed.  The invariant, Inv, follows an envelope from the       *)
(* response it is sealed into, through the client that holds it and may    *)
(* see it damaged, to the request it comes back in.                        *)
(*                                                                         *)
(* No turn is lost or doubled: CoverInv says of every envelope that comes  *)
(* and goes how many turns of its client's transcript its state holds.     *)
(***************************************************************************)
EXTENDS ServingAdapter, SCECrypto_proofs, SequenceLemmas

\* Every turn of the state was computed by the model m.
ComputedBy(turns, m) ==
  /\ \E S : turns \in Seq(S)
  /\ \A n \in DOMAIN turns : turns[n].by = m

\* A whole ciphertext holds turns of the one model its key was derived from.
OneModel(b) ==
  /\ "ct" \in DOMAIN b /\ "intact" \in DOMAIN b.ct
  /\ b.ct.intact => ComputedBy(b.ct.plain, b.ct.key.info.memh)

Held(b) == ~ Truthy(b) \/ OneModel(b)

Inv ==
  /\ \A c \in Clients : Held(continuation[c])
  /\ DOMAIN continuation = Clients
  /\ pc = "chat" => Held(request.continuation)
  /\ pc = "replied" => OneModel(reply) /\ ComputedBy(reply.ct.plain, manifest)
  /\ pc # "idle" => caller \in Clients
-------------------------------------------------------------------------------
\* One more turn by the same model.
LEMMA OneMoreTurn ==
  ASSUME NEW turns, NEW m, ComputedBy(turns, m), NEW t, t.by = m
  PROVE  ComputedBy(Append(turns, t), m)
<1>1. PICK S : turns \in Seq(S)
  BY DEF ComputedBy
<1>2. turns \in Seq(S \cup {t})
  BY <1>1
<1>3. /\ Append(turns, t) \in Seq(S \cup {t})
      /\ DOMAIN turns = 1 .. Len(turns) /\ Len(turns) \in Nat
      /\ DOMAIN Append(turns, t) = 1 .. Len(turns) + 1
      /\ \A n \in 1 .. Len(turns) : Append(turns, t)[n] = turns[n]
      /\ Append(turns, t)[Len(turns) + 1] = t
  BY <1>2, AppendProperties, LenProperties
<1> QED
  BY <1>3 DEF ComputedBy

\* What opens under the server's environment was computed by its model.
LEMMA OpensByModel ==
  ASSUME NEW b, OneModel(b), Opens(b, ServerEnv)
  PROVE  ComputedBy(b.ct.plain, manifest)
<1>1. b.ct.intact /\ b.ct.key = DeriveKeyMaterial(ServerEnv, b.prefix.salt).enc
  BY DEF Opens, AeadOk, Decrypts
<1>2. DeriveKeyMaterial(ServerEnv, b.prefix.salt).enc.info.memh = ServerEnv.memh
  BY DEF DeriveKeyMaterial, KdfInfo
<1>3. ServerEnv.memh = manifest
  BY DEF ServerEnv
<1>4. b.ct.key.info.memh = manifest
  BY <1>1, <1>2, <1>3
<1> QED
  BY <1>1, <1>4 DEF OneModel

\* The response extends what the same model computed.
LEMMA RespondInv ==
  ASSUME Inv, NEW prior, ComputedBy(prior, manifest), Respond(prior), pc = "chat"
  PROVE  Inv'
<1> DEFINE turns == Append(prior, [said |-> request.message, by |-> manifest])
<1>1. ComputedBy(turns, manifest)
  BY OneMoreTurn
<1>2. reply' = SealEnvelope(turns, ServerEnv, drawn + 1, drawn + 1)
  BY DEF Respond
<1> HIDE DEF turns
<1>3. reply'.ct.plain = turns /\ reply'.ct.key.info.memh = manifest
  BY <1>2 DEF SealEnvelope, Pack, Encrypt, DeriveKeyMaterial, KdfInfo, ServerEnv
<1>4. "ct" \in DOMAIN reply' /\ "intact" \in DOMAIN reply'.ct
  BY <1>2 DEF SealEnvelope, Pack, Encrypt
<1>5. OneModel(reply') /\ ComputedBy(reply'.ct.plain, manifest)
  BY <1>1, <1>3, <1>4 DEF OneModel
<1> QED
  BY <1>5 DEF Inv, Respond

\* No one holds an envelope at first.
LEMMA InitInv == Init => Inv
BY DEF Init, Inv, Held, Truthy

\* Every step of say, of chat, of the update and of the damage keeps the invariant.
LEMMA NextInv == Inv /\ [Next]_vars => Inv'
<1> SUFFICES ASSUME Inv, [Next]_vars PROVE Inv'
  OBVIOUS
<1>1. ASSUME NEW c \in Clients, Say(c) PROVE Inv'
  BY <1>1 DEF Inv, Say, Idle
<1>2. CASE ChatFresh
  <2>1. ComputedBy(<<>>, manifest)
    BY DEF ComputedBy
  <2> QED
    BY <1>2, <2>1, RespondInv DEF ChatFresh
<1>3. CASE ChatResume
  <2>1. OneModel(request.continuation)
    BY <1>3 DEF ChatResume, Inv, Held
  <2> QED
    BY <1>3, <2>1, OpensByModel, RespondInv DEF ChatResume
<1>4. CASE ChatRefuse \/ ChatMalformed
  BY <1>4 DEF Inv, ChatRefuse, ChatMalformed, EndSay
<1>5. CASE Rebuild
  BY <1>5 DEF Inv, Rebuild, FreshContinuation, Held, Truthy
<1>6. CASE Receive
  BY <1>6 DEF Inv, Receive, EndSay, Held
<1>7. CASE UpdateModel
  BY <1>7 DEF Inv, UpdateModel, Idle
<1>8. ASSUME NEW c \in Clients, Damage(c) PROVE Inv'
  <2>1. PICK n : continuation' = [continuation EXCEPT ![c] = CutCiphertext(continuation[c], n)]
    BY <1>8 DEF Damage
  <2>2. OneModel(continuation[c])
    BY <1>8 DEF Damage, Inv, Held
  <2>3. OneModel(CutCiphertext(continuation[c], n))
    <3> DEFINE b == continuation[c]
               d == CutCiphertext(b, n)
    <3>1. "ct" \in DOMAIN b /\ "intact" \in DOMAIN b.ct
      BY <2>2 DEF OneModel
    <3>2. "ct" \in DOMAIN d /\ d.ct = [b.ct EXCEPT !.len = n, !.intact = FALSE]
      BY <3>1 DEF CutCiphertext
    <3>3. "intact" \in DOMAIN d.ct /\ ~ d.ct.intact
      BY <3>1, <3>2
    <3> QED
      BY <3>2, <3>3 DEF OneModel
  <2> QED
    BY <1>8, <2>1, <2>3 DEF Inv, Damage, Idle, Held
<1>9. ASSUME NEW c \in Clients, Empty(c) PROVE Inv'
  BY <1>9 DEF Inv, Empty, Idle, Held, Truthy
<1>10. CASE UNCHANGED vars
  BY <1>10 DEF Inv, vars
<1> QED
  BY <1>1, <1>2, <1>3, <1>4, <1>5, <1>6, <1>7, <1>8, <1>9, <1>10 DEF Next, Running

\* The model never extends a state that another model computed.
THEOREM NoSilentCorruption == Spec => []OneModelPerState
<1>1. Inv => OneModelPerState
  BY DEF Inv, OneModelPerState, ComputedBy
<1> QED
  BY <1>1, InitInv, NextInv, PTL DEF Spec
-------------------------------------------------------------------------------
(***************************************************************************)
(* No turn is lost or repeated: the state sealed into a response has the   *)
(* client's whole transcript.  The invariant relates every continuation    *)
(* to the transcript of the client that holds it, up to the call that is   *)
(* under way; a continuation that was dropped is made up for by the        *)
(* transcript that is sent again.  A client whose continuation was cut to  *)
(* nothing has no such promise until then.                                 *)
(***************************************************************************)
Entries == [role : {"user"}, text : Seq(Nat)] \cup [role : {"assistant"}, text : {<<>>}]

UserSaid(c) == Said(transcript[c], "user")

SaidIn(turns) == FlattenSeq([n \in DOMAIN turns |-> turns[n].said])

Whole(b) == b \in Envelopes /\ (b.ct.intact => WellFormed(b))

\* An envelope that holds what was said, unless it has been damaged or the history
\* is gone.
Covers(b, said, gone) == Whole(b) /\ (b.ct.intact /\ ~ gone => SaidIn(b.ct.plain) = said)

HeldFor(b, said, gone) ==
  \/ b = None /\ said = <<>>
  \/ b = EmptyString /\ gone
  \/ Covers(b, said, gone)

TypesInv ==
  /\ manifest \in Models /\ drawn \in Nat
  /\ pc \in {"idle", "chat", "refused", "replied"}
  /\ escaped \subseteq Clients /\ emptied \subseteq Clients
  /\ caller \in Clients \cup {None} /\ (caller = None <=> Idle)
  /\ transcript \in [Clients -> Seq(Entries)] /\ DOMAIN continuation = Clients
  /\ \A c \in Clients : Len(UserSaid(c)) <= MaxTurns

\* Between calls, and for the clients not in one.
HeldInv ==
  \A c \in Clients : c # caller => HeldFor(continuation[c], UserSaid(c), c \in emptied)

\* In a call, what it has to answer and what it comes with make up the transcript.
RequestInv ==
  pc = "chat" =>
    /\ request.message \in Seq(Nat)
    /\ ~ Truthy(request.continuation) /\ caller \notin emptied =>
         request.message = UserSaid(caller)
    /\ Truthy(request.continuation) =>
         /\ continuation[caller] = request.continuation
         /\ Whole(request.continuation)
         /\ request.continuation.ct.intact /\ caller \notin emptied =>
              SaidIn(request.continuation.ct.plain) \o request.message = UserSaid(caller)

ReplyInv ==
  pc = "replied" => reply.ct.intact /\ Covers(reply, UserSaid(caller), caller \in emptied)

CoverInv == TypesInv /\ HeldInv /\ RequestInv /\ ReplyInv
-------------------------------------------------------------------------------
\* One more entry of the transcript.
LEMMA SaidAppend ==
  ASSUME NEW t \in Seq(Entries), NEW e \in Entries
  PROVE  /\ Said(t, "user") \in Seq(Nat)
         /\ e.role = "user" => Said(Append(t, e), "user") = Said(t, "user") \o e.text
         /\ e.role # "user" => Said(Append(t, e), "user") = Said(t, "user")
<1> DEFINE part(x) == IF x.role = "user" THEN x.text ELSE <<>>
           p == [n \in DOMAIN t |-> part(t[n])]
           u == Append(t, e)
           q == [n \in DOMAIN u |-> part(u[n])]
<1>1. /\ Len(t) \in Nat /\ DOMAIN t = 1 .. Len(t) /\ DOMAIN u = 1 .. Len(t) + 1
      /\ \A k \in 1 .. Len(t) : t[k] \in Entries /\ u[k] = t[k]
      /\ u[Len(t) + 1] = e
  BY LenProperties, ElementOfSeq, AppendProperties
<1>2. \A x \in Entries : part(x) \in Seq(Nat)
  BY EmptySeq DEF Entries
<1> HIDE DEF part, u
<1>3. p \in [1 .. Len(t) -> Seq(Nat)]
  BY <1>1, <1>2
<1>4. p \in Seq(Seq(Nat)) /\ Len(p) = Len(t)
  BY <1>1, <1>3, SeqDef, LenProperties
<1>5. /\ q = [k \in 1 .. Len(p) + 1 |-> q[k]]
      /\ \A k \in 1 .. Len(p) : q[k] = p[k]
      /\ q[Len(p) + 1] = part(e)
  BY <1>1, <1>4
<1>6. Said(t, "user") = FlattenSeq(p) /\ Said(u, "user") = FlattenSeq(q)
  BY DEF Said, part
<1> HIDE DEF p, q
<1>7. q = Append(p, part(e))
  <2>1. Extends(q, p, part(e)) /\ part(e) \in Seq(Nat)
    BY <1>2, <1>5 DEF Extends
  <2> QED
    BY <1>4, <2>1, IsAppend
<1>8. FlattenSeq(p) \in Seq(Nat) /\ FlattenSeq(q) = FlattenSeq(p) \o part(e)
  BY <1>2, <1>4, <1>7, FlattenAppend
<1>9. e.role # "user" => FlattenSeq(p) \o part(e) = FlattenSeq(p)
  BY <1>8, ConcatEmptySeq DEF part
<1>10. e.role = "user" => part(e) = e.text
  BY DEF part
<1> QED
  BY <1>6, <1>8, <1>9, <1>10 DEF u

LEMMA NothingSaid == Said(<<>>, "user") = <<>> /\ SaidIn(<<>>) = <<>>
BY DEF Said, SaidIn, FlattenSeq

\* Sending the whole transcript again says what the user said.
LEMMA ReplayIsSaid ==
  ASSUME NEW t \in Seq(Entries)
  PROVE  Replay(t) = Said(t, "user")
<1>1. \A n \in DOMAIN t : t[n] \in Entries
  BY LenProperties, ElementOfSeq
<1>2. \A n \in DOMAIN t : t[n].text = IF t[n].role = "user" THEN t[n].text ELSE <<>>
  BY <1>1 DEF Entries
<1>3. [n \in DOMAIN t |-> t[n].text]
        = [n \in DOMAIN t |-> IF t[n].role = "user" THEN t[n].text ELSE <<>>]
  BY <1>2
<1> QED
  BY <1>3 DEF Replay, Said

\* One more turn of the model.
LEMMA SaidInAppend ==
  ASSUME NEW turns \in Seq(Turns), NEW x \in Turns
  PROVE  SaidIn(turns) \in Seq(Nat) /\ SaidIn(Append(turns, x)) = SaidIn(turns) \o x.said
<1> DEFINE p == [n \in DOMAIN turns |-> turns[n].said]
           u == Append(turns, x)
           q == [n \in DOMAIN u |-> u[n].said]
<1>1. /\ Len(turns) \in Nat /\ DOMAIN turns = 1 .. Len(turns)
      /\ DOMAIN u = 1 .. Len(turns) + 1
      /\ \A k \in 1 .. Len(turns) : turns[k] \in Turns /\ u[k] = turns[k]
      /\ u[Len(turns) + 1] = x
  BY LenProperties, ElementOfSeq, AppendProperties
<1>2. \A y \in Turns : y.said \in Seq(Nat)
  BY DEF Turns
<1> HIDE DEF u
<1>3. p \in [1 .. Len(turns) -> Seq(Nat)]
  BY <1>1, <1>2
<1>4. p \in Seq(Seq(Nat)) /\ Len(p) = Len(turns)
  BY <1>1, <1>3, SeqDef, LenProperties
<1>5. /\ q = [k \in 1 .. Len(p) + 1 |-> q[k]]
      /\ \A k \in 1 .. Len(p) : q[k] = p[k]
      /\ q[Len(p) + 1] = x.said
  BY <1>1, <1>4
<1>6. SaidIn(turns) = FlattenSeq(p) /\ SaidIn(u) = FlattenSeq(q)
  BY DEF SaidIn
<1> HIDE DEF p, q
<1>7. q = Append(p, x.said)
  <2>1. Extends(q, p, x.said) /\ x.said \in Seq(Nat)
    BY <1>2, <1>5 DEF Extends
  <2> QED
    BY <1>4, <2>1, IsAppend
<1> QED
  BY <1>2, <1>4, <1>6, <1>7, FlattenAppend DEF u
-------------------------------------------------------------------------------
\* What the server seals is an envelope of its own.
LEMMA SealedByServer ==
  ASSUME manifest \in Models, NEW turns \in Seq(Turns), NEW d \in Nat
  PROVE  LET b == SealEnvelope(turns, ServerEnv, d, d)
         IN  b \in Envelopes /\ WellFormed(b) /\ b.ct.intact /\ b.ct.plain = turns
<1> DEFINE keys   == DeriveKeyMaterial(ServerEnv, d)
           prefix == HeaderPrefix(d, d, keys.commitment)
           ct     == Encrypt(keys.enc, d, turns, Aad(prefix, ServerEnv))
           b      == SealEnvelope(turns, ServerEnv, d, d)
<1>1. keys.commitment \in Keys /\ keys.enc \in Keys
  BY DEF DeriveKeyMaterial, KdfInfo, ServerEnv, Keys
<1>2. b = Pack(prefix, ct)
  BY DEF SealEnvelope
<1> HIDE DEF keys, b
<1>3. prefix \in Headers /\ prefix.magic = Magic /\ prefix.version = Version
  BY <1>1 DEF HeaderPrefix, Headers
<1>4. Aad(prefix, ServerEnv) \in [prefix : Headers, memh : Models, epoch : {0}]
  BY <1>3 DEF Aad, ServerEnv
<1>5. Len(turns) \in Nat
  BY LenProperties
<1> HIDE DEF prefix
<1>6. Len(turns) + TagLen \in Nat /\ Len(turns) + TagLen >= TagLen
  BY <1>5 DEF TagLen
<1>7. /\ ct \in Ciphertexts /\ ct.intact /\ ct.plain = turns
      /\ ct.len \in Nat /\ ct.len >= TagLen
  <2> DEFINE a == Aad(prefix, ServerEnv)
  <2> HIDE DEF a
  <2>1. ct = [key |-> keys.enc, nonce |-> d, aad |-> a, plain |-> turns,
              len |-> Len(turns) + TagLen, intact |-> TRUE]
    BY DEF Encrypt, a
  <2>2. a \in [prefix : Headers, memh : Models, epoch : {0}]
    BY <1>4 DEF a
  <2> QED
    BY <1>1, <1>6, <2>1, <2>2 DEF Ciphertexts
<1> HIDE DEF ct
<1>8. /\ b.form = "bytes" /\ b.prefix = prefix /\ b.ctLen = ct.len /\ b.ct = ct
      /\ b \in Envelopes
  BY <1>2, <1>3, <1>7 DEF Pack, Envelopes
<1>9. WellFormed(b)
  BY <1>3, <1>7, <1>8 DEF WellFormed
<1> QED
  BY <1>7, <1>8, <1>9 DEF b

\* A damaged envelope is one still, and holds nothing.
LEMMA DamagedEnvelope ==
  ASSUME NEW b \in Envelopes, NEW n \in Nat
  PROVE  CutCiphertext(b, n) \in Envelopes /\ ~ CutCiphertext(b, n).ct.intact
<1> DEFINE c == [b.ct EXCEPT !.len = n, !.intact = FALSE]
           d == CutCiphertext(b, n)
<1>1. b.ct \in Ciphertexts
  BY DEF Envelopes
<1>2. c \in Ciphertexts /\ ~ c.intact
  BY <1>1 DEF Ciphertexts
<1>3. d = [b EXCEPT !.ct = c]
  BY DEF CutCiphertext
<1> HIDE DEF c, d
<1>4. d \in Envelopes /\ d.ct = c
  BY <1>2, <1>3 DEF Envelopes
<1> QED
  BY <1>2, <1>4 DEF d

LEMMA EnvelopesAreTruthy ==
  /\ \A b \in Envelopes : Truthy(b)
  /\ None # EmptyString
<1>1. ASSUME NEW b \in Envelopes PROVE b # EmptyString
  BY DEF Envelopes, EmptyString
<1> QED
  BY <1>1, NoneAssumption DEF Truthy

\* Everything said so far is a sequence.
LEMMA UserSaidType ==
  ASSUME TypesInv, NEW c \in Clients
  PROVE  UserSaid(c) \in Seq(Nat) /\ Len(UserSaid(c)) \in Nat
<1> DEFINE e == [role |-> "assistant", text |-> <<>>]
<1>1. transcript[c] \in Seq(Entries) /\ e \in Entries
  BY DEF TypesInv, Entries
<1>2. UserSaid(c) \in Seq(Nat)
  BY <1>1, SaidAppend DEF UserSaid
<1> QED
  BY <1>2, LenProperties

\* A client without a continuation has said nothing the state has not.
LEMMA InitCover == Init => CoverInv
<1> SUFFICES ASSUME Init PROVE CoverInv
  OBVIOUS
<1>1. TypesInv
  <2>1. <<>> \in Seq(Entries) /\ Len(<<>>) = 0
    BY EmptySeq
  <2>2. transcript \in [Clients -> Seq(Entries)] /\ \A c \in Clients : transcript[c] = <<>>
    BY <2>1 DEF Init
  <2>3. \A c \in Clients : Len(UserSaid(c)) <= MaxTurns
    BY <2>1, <2>2, NothingSaid, BoundAssumption DEF UserSaid
  <2> QED
    BY <2>2, <2>3 DEF Init, TypesInv, Idle, Models
<1>2. HeldInv
  BY NothingSaid DEF Init, HeldInv, HeldFor, UserSaid
<1> QED
  BY <1>1, <1>2 DEF Init, CoverInv, RequestInv, ReplyInv

\* The message is added to the transcript and sent with the continuation.
LEMMA SayCovers ==
  ASSUME CoverInv, NEW c \in Clients, Say(c)
  PROVE  CoverInv'
<1> DEFINE m == Len(UserSaid(c)) + 1
           e == [role |-> "user", text |-> <<m>>]
<1>1. /\ UserSaid(c) \in Seq(Nat) /\ m \in Nat /\ m <= MaxTurns
      /\ transcript[c] \in Seq(Entries)
      /\ c # None
  <2>1. UserSaid(c) \in Seq(Nat) /\ Len(UserSaid(c)) \in Nat
    BY UserSaidType DEF CoverInv
  <2> QED
    BY <2>1, NoneAssumption DEF CoverInv, TypesInv, Say, UserSaid
<1>2. /\ transcript' = [transcript EXCEPT ![c] = Append(transcript[c], e)]
      /\ request' = [message |-> <<m>>, continuation |-> continuation[c]]
      /\ caller' = c /\ pc = "idle" /\ pc' = "chat"
      /\ UNCHANGED <<manifest, drawn, continuation, reply, escaped, emptied>>
  BY DEF Say, UserSaid, Idle
<1>3. caller = None
  BY <1>2 DEF CoverInv, TypesInv, Idle
<1> HIDE DEF m
<1>4. e \in Entries /\ e.role = "user" /\ e.text = <<m>> /\ <<m>> \in Seq(Nat) /\ Len(<<m>>) = 1
  BY <1>1 DEF Entries
<1> HIDE DEF e
<1>5. UserSaid(c)' = UserSaid(c) \o <<m>> /\ Append(transcript[c], e) \in Seq(Entries)
  <2>1. UserSaid(c)' = Said(Append(transcript[c], e), "user")
    BY <1>2 DEF UserSaid, CoverInv, TypesInv
  <2>2. Said(Append(transcript[c], e), "user") = Said(transcript[c], "user") \o <<m>>
    BY <1>1, <1>4, SaidAppend
  <2>3. Append(transcript[c], e) \in Seq(Entries)
    BY <1>1, <1>4, AppendProperties
  <2> QED
    BY <2>1, <2>2, <2>3 DEF UserSaid
<1>6. \A x \in Clients : x # c => UserSaid(x)' = UserSaid(x)
  BY <1>2 DEF UserSaid, CoverInv, TypesInv
<1>7. TypesInv'
  <2>1. transcript' \in [Clients -> Seq(Entries)]
    BY <1>2, <1>5 DEF CoverInv, TypesInv
  <2>2. Len(UserSaid(c)') <= MaxTurns
    <3>1. Len(UserSaid(c)') = Len(UserSaid(c)) + 1
      BY <1>1, <1>4, <1>5, ConcatProperties
    <3> QED
      BY <1>1, <3>1 DEF m
  <2>3. \A x \in Clients : Len(UserSaid(x)') <= MaxTurns
    BY <1>6, <2>2 DEF CoverInv, TypesInv
  <2>4. caller' \in Clients \cup {None} /\ (caller' = None <=> Idle')
    BY <1>1, <1>2 DEF Idle
  <2> QED
    BY <1>2, <2>1, <2>3, <2>4 DEF CoverInv, TypesInv
<1>8. HeldFor(continuation[c], UserSaid(c), c \in emptied)
  BY <1>1, <1>3 DEF CoverInv, HeldInv
<1>9. HeldInv'
  <2>1. \A x \in Clients : HeldFor(continuation[x], UserSaid(x), x \in emptied)
    BY <1>3, NoneAssumption DEF CoverInv, HeldInv
  <2> QED
    BY <1>2, <1>6, <2>1 DEF HeldInv
<1>10. RequestInv'
  <2>1. request'.message = <<m>> /\ request'.continuation = continuation[c]
    BY <1>2
  <2>2. ASSUME ~ Truthy(continuation[c]), c \notin emptied
        PROVE  <<m>> = UserSaid(c)'
    <3>1. UserSaid(c) = <<>>
      <4>1. ~ Covers(continuation[c], UserSaid(c), c \in emptied)
        BY <2>2, EnvelopesAreTruthy DEF Covers, Whole
      <4> QED
        BY <1>8, <2>2, <4>1 DEF HeldFor
    <3> QED
      BY <1>4, <1>5, <3>1, ConcatEmptySeq
  <2>3. ASSUME Truthy(continuation[c])
        PROVE  /\ Whole(continuation[c])
               /\ continuation[c].ct.intact /\ c \notin emptied =>
                    SaidIn(continuation[c].ct.plain) \o <<m>> = UserSaid(c)'
    BY <1>5, <1>8, <2>3 DEF HeldFor, Covers, Truthy
  <2> QED
    BY <1>2, <1>4, <2>1, <2>2, <2>3 DEF RequestInv
<1>11. ReplyInv'
  BY <1>2 DEF ReplyInv
<1> QED
  BY <1>7, <1>9, <1>10, <1>11 DEF CoverInv

\* Inside a call, the transcripts and what the other clients hold stay.
LEMMA InsideCall ==
  ASSUME CoverInv, pc # "idle"
  PROVE  caller \in Clients
BY DEF CoverInv, TypesInv, Idle

\* The response has everything said up to the message it answers.
LEMMA RespondCovers ==
  ASSUME CoverInv, pc = "chat", NEW prior \in Seq(Turns), Respond(prior),
         caller \notin emptied => SaidIn(prior) \o request.message = UserSaid(caller)
  PROVE  CoverInv'
<1> DEFINE x == [said |-> request.message, by |-> manifest]
           turns == Append(prior, x)
<1>1. /\ reply' = SealEnvelope(turns, ServerEnv, drawn + 1, drawn + 1)
      /\ drawn' = drawn + 1 /\ pc' = "replied"
      /\ UNCHANGED <<manifest, continuation, transcript, caller, request, escaped, emptied>>
  BY DEF Respond
<1>2. x \in Turns /\ x.said = request.message
  BY DEF CoverInv, TypesInv, RequestInv, Turns
<1> HIDE DEF x
<1>3. turns \in Seq(Turns) /\ (caller \notin emptied => SaidIn(turns) = UserSaid(caller))
  BY <1>2, AppendProperties, SaidInAppend
<1> HIDE DEF turns
<1>4. drawn + 1 \in Nat /\ manifest \in Models
  BY DEF CoverInv, TypesInv
<1>5. reply' \in Envelopes /\ WellFormed(reply') /\ reply'.ct.intact /\ reply'.ct.plain = turns
  BY <1>1, <1>3, <1>4, SealedByServer
<1>6. \A c \in Clients \cup {caller} : UserSaid(c)' = UserSaid(c)
  BY <1>1 DEF UserSaid
<1>7. TypesInv'
  BY <1>1, <1>4, <1>6, InsideCall DEF CoverInv, TypesInv, Idle
<1>8. HeldInv'
  BY <1>1, <1>6 DEF CoverInv, HeldInv
<1>9. RequestInv'
  BY <1>1 DEF RequestInv
<1>10. ReplyInv'
  <2>1. UserSaid(caller)' = UserSaid(caller)
    BY <1>1 DEF UserSaid
  <2> QED
    BY <1>1, <1>3, <1>5, <2>1 DEF ReplyInv, Covers, Whole
<1> QED
  BY <1>7, <1>8, <1>9, <1>10 DEF CoverInv

\* The steps of chat.
LEMMA ChatCovers ==
  ASSUME CoverInv, ChatFresh \/ ChatResume \/ ChatRefuse \/ ChatMalformed
  PROVE  CoverInv'
<1>1. pc = "chat" /\ caller \in Clients /\ request.message \in Seq(Nat)
  BY InsideCall DEF ChatFresh, ChatResume, ChatRefuse, ChatMalformed, CoverInv, RequestInv
<1>2. CASE ChatFresh
  <2>1. caller \notin emptied => request.message = UserSaid(caller)
    BY <1>2 DEF ChatFresh, CoverInv, RequestInv
  <2>2. <<>> \in Seq(Turns) /\ SaidIn(<<>>) \o request.message = request.message
    BY <1>1, EmptySeq, NothingSaid, ConcatEmptySeq
  <2>3. Respond(<<>>)
    BY <1>2 DEF ChatFresh
  <2> QED
    BY <1>1, <2>1, <2>2, <2>3, RespondCovers
<1>3. CASE ChatResume
  <2> DEFINE b == request.continuation
  <2>1. Truthy(b) /\ Opens(b, ServerEnv) /\ Respond(b.ct.plain)
    BY <1>3 DEF ChatResume
  <2>2. b.ct.intact
    BY <2>1 DEF Opens, AeadOk, Decrypts
  <2>3. Whole(b) /\ (caller \notin emptied =>
                       SaidIn(b.ct.plain) \o request.message = UserSaid(caller))
    BY <1>1, <2>1, <2>2 DEF CoverInv, RequestInv
  <2>4. b.ct.plain \in Seq(Turns)
    BY <2>3 DEF Whole, Envelopes, Ciphertexts
  <2> QED
    BY <1>1, <2>1, <2>3, <2>4, RespondCovers
<1>4. CASE ChatRefuse
  BY <1>4 DEF ChatRefuse, CoverInv, TypesInv, HeldInv, RequestInv, ReplyInv, UserSaid, Idle
<1>5. CASE ChatMalformed
  <2>1. /\ pc' = "idle" /\ caller' = None /\ escaped' = escaped \cup {caller}
        /\ UNCHANGED <<manifest, drawn, continuation, transcript, reply, emptied>>
        /\ Truthy(request.continuation) /\ ~ WellFormed(request.continuation)
    BY <1>5 DEF ChatMalformed, EndSay
  <2>2. \A c \in Clients : UserSaid(c)' = UserSaid(c)
    BY <2>1 DEF UserSaid
  <2>3. TypesInv'
    BY <1>1, <2>1, <2>2 DEF CoverInv, TypesInv, Idle
  <2>4. HeldFor(continuation[caller], UserSaid(caller), caller \in emptied)
    BY <1>1, <2>1 DEF CoverInv, RequestInv, Whole, HeldFor, Covers
  <2>5. HeldInv'
    BY <2>1, <2>2, <2>4 DEF CoverInv, HeldInv
  <2> QED
    BY <2>1, <2>3, <2>5 DEF CoverInv, RequestInv, ReplyInv
<1> QED
  BY <1>2, <1>3, <1>4, <1>5

\* A refused client sends everything it has said.
LEMMA RebuildCovers ==
  ASSUME CoverInv, Rebuild
  PROVE  CoverInv'
<1>1. /\ pc = "refused" /\ pc' = "chat" /\ caller \in Clients
      /\ continuation' = [continuation EXCEPT ![caller] = None]
      /\ request' = [message |-> Replay(transcript[caller]), continuation |-> None]
      /\ emptied' = emptied \ {caller}
      /\ UNCHANGED <<manifest, drawn, transcript, caller, reply, escaped>>
  BY InsideCall DEF Rebuild, FreshContinuation, Resent
<1>2. Replay(transcript[caller]) = UserSaid(caller)
  BY <1>1, ReplayIsSaid DEF UserSaid, CoverInv, TypesInv
<1>3. UserSaid(caller) \in Seq(Nat)
  BY <1>1, UserSaidType DEF CoverInv
<1>4. \A c \in Clients : UserSaid(c)' = UserSaid(c)
  BY <1>1 DEF UserSaid
<1>5. UserSaid(caller)' = UserSaid(caller)
  BY <1>1 DEF UserSaid
<1>6. TypesInv'
  BY <1>1, <1>4 DEF CoverInv, TypesInv, Idle
<1>7. HeldInv'
  BY <1>1, <1>4 DEF CoverInv, TypesInv, HeldInv
<1>8. RequestInv'
  BY <1>1, <1>2, <1>3, <1>5 DEF RequestInv, Truthy
<1> QED
  BY <1>1, <1>6, <1>7, <1>8 DEF CoverInv, ReplyInv

\* The client holds the response, which has its whole transcript.
LEMMA ReceiveCovers ==
  ASSUME CoverInv, Receive
  PROVE  CoverInv'
<1> DEFINE e == [role |-> "assistant", text |-> <<>>]
<1>1. /\ pc = "replied" /\ pc' = "idle" /\ caller \in Clients /\ caller' = None
      /\ continuation' = [continuation EXCEPT ![caller] = reply]
      /\ transcript' = [transcript EXCEPT ![caller] = Append(transcript[caller], e)]
      /\ UNCHANGED <<manifest, drawn, escaped, emptied>>
  BY InsideCall DEF Receive, EndSay
<1>2. e \in Entries /\ e.role # "user" /\ transcript[caller] \in Seq(Entries)
  BY <1>1 DEF Entries, CoverInv, TypesInv
<1> HIDE DEF e
<1>3. /\ Append(transcript[caller], e) \in Seq(Entries)
      /\ Said(Append(transcript[caller], e), "user") = Said(transcript[caller], "user")
  BY <1>2, SaidAppend, AppendProperties
<1>4. \A c \in Clients : UserSaid(c)' = UserSaid(c)
  <2> SUFFICES ASSUME NEW c \in Clients PROVE UserSaid(c)' = UserSaid(c)
    OBVIOUS
  <2>1. transcript'[c] = IF c = caller THEN Append(transcript[caller], e) ELSE transcript[c]
    BY <1>1 DEF CoverInv, TypesInv
  <2> QED
    BY <1>3, <2>1 DEF UserSaid
<1>5. TypesInv'
  <2>1. transcript' \in [Clients -> Seq(Entries)]
    BY <1>1, <1>3 DEF CoverInv, TypesInv
  <2> QED
    BY <1>1, <1>4, <2>1 DEF CoverInv, TypesInv, Idle
<1>6. HeldFor(reply, UserSaid(caller), caller \in emptied)
  BY <1>1 DEF CoverInv, ReplyInv, HeldFor
<1>7. HeldInv'
  <2> SUFFICES ASSUME NEW c \in Clients
               PROVE  HeldFor(continuation'[c], UserSaid(c), c \in emptied)
    BY <1>1, <1>4 DEF HeldInv
  <2>1. continuation'[c] = IF c = caller THEN reply ELSE continuation[c]
    BY <1>1 DEF CoverInv, TypesInv
  <2> QED
    BY <1>6, <2>1 DEF CoverInv, HeldInv
<1> QED
  BY <1>1, <1>5, <1>7 DEF CoverInv, RequestInv, ReplyInv

\* A continuation that is damaged while it is held.
LEMMA DamageCovers ==
  ASSUME CoverInv, NEW c \in Clients, Damage(c)
  PROVE  CoverInv'
<1> DEFINE b == continuation[c]
<1>1. /\ pc = "idle" /\ caller = None /\ Truthy(b) /\ b.ct.intact
      /\ UNCHANGED <<manifest, drawn, transcript, pc, caller, request, reply, escaped, emptied>>
  BY DEF Damage, Idle, CoverInv, TypesInv
<1>2. PICK n \in {b.ct.len - 1, b.ct.len} :
        continuation' = [continuation EXCEPT ![c] = CutCiphertext(b, n)]
  BY DEF Damage
<1>3. HeldFor(b, UserSaid(c), c \in emptied)
  BY <1>1, NoneAssumption DEF CoverInv, HeldInv
<1>4. b \in Envelopes /\ WellFormed(b)
  BY <1>1, <1>3 DEF HeldFor, Covers, Whole, Truthy
<1>5. n \in Nat
  <2>1. b.ct.len \in Nat /\ b.ct.len >= TagLen
    BY <1>4 DEF WellFormed, Envelopes, Ciphertexts
  <2> QED
    BY <1>2, <2>1 DEF TagLen
<1> DEFINE d == CutCiphertext(b, n)
<1>6. d \in Envelopes /\ ~ d.ct.intact
  BY <1>4, <1>5, DamagedEnvelope
<1> HIDE DEF d
<1>7. HeldFor(d, UserSaid(c), c \in emptied)
  BY <1>6 DEF HeldFor, Covers, Whole
<1>8. \A x \in Clients : UserSaid(x)' = UserSaid(x)
  BY <1>1 DEF UserSaid
<1>9. DOMAIN continuation' = Clients
      /\ \A x \in Clients : continuation'[x] = IF x = c THEN d ELSE continuation[x]
  BY <1>2 DEF CoverInv, TypesInv, d
<1>10. TypesInv'
  BY <1>1, <1>8, <1>9 DEF CoverInv, TypesInv, Idle
<1>11. HeldInv'
  BY <1>1, <1>7, <1>8, <1>9 DEF CoverInv, HeldInv
<1> QED
  BY <1>1, <1>10, <1>11 DEF CoverInv, RequestInv, ReplyInv

\* A continuation that is cut to nothing: its client is one whose history is gone.
LEMMA EmptyCovers ==
  ASSUME CoverInv, NEW c \in Clients, Empty(c)
  PROVE  CoverInv'
<1>1. /\ pc = "idle" /\ caller = None
      /\ continuation' = [continuation EXCEPT ![c] = EmptyString]
      /\ emptied' = emptied \cup {c}
      /\ UNCHANGED <<manifest, drawn, transcript, pc, caller, request, reply, escaped>>
  BY DEF Empty, Idle, CoverInv, TypesInv
<1>2. \A x \in Clients : UserSaid(x)' = UserSaid(x)
  BY <1>1 DEF UserSaid
<1>3. DOMAIN continuation' = Clients
      /\ \A x \in Clients : continuation'[x] = IF x = c THEN EmptyString ELSE continuation[x]
  BY <1>1 DEF CoverInv, TypesInv
<1>4. TypesInv'
  BY <1>1, <1>2, <1>3 DEF CoverInv, TypesInv, Idle
<1>5. HeldInv'
  <2> SUFFICES ASSUME NEW x \in Clients
               PROVE  HeldFor(continuation'[x], UserSaid(x), x \in emptied')
    BY <1>2 DEF HeldInv
  <2>1. CASE x = c
    BY <1>1, <1>3, <2>1 DEF HeldFor
  <2>2. CASE x # c
    <3>1. HeldFor(continuation[x], UserSaid(x), x \in emptied) /\ continuation'[x] = continuation[x]
      BY <1>1, <1>3, <2>2, NoneAssumption DEF CoverInv, HeldInv
    <3>2. x \in emptied' <=> x \in emptied
      BY <1>1, <2>2
    <3> QED
      BY <3>1, <3>2 DEF HeldFor, Covers
  <2> QED
    BY <2>1, <2>2
<1> QED
  BY <1>1, <1>4, <1>5 DEF CoverInv, RequestInv, ReplyInv

LEMMA NextCover == CoverInv /\ [Next]_vars => CoverInv'
<1> SUFFICES ASSUME CoverInv, [Next]_vars PROVE CoverInv'
  OBVIOUS
<1>1. CASE UpdateModel \/ UNCHANGED vars
  <2>1. /\ manifest' \in Models
        /\ UNCHANGED <<drawn, continuation, transcript, pc, caller, request, reply, escaped,
                       emptied>>
    BY <1>1 DEF UpdateModel, vars, CoverInv, TypesInv, Models
  <2>2. UserSaid(caller)' = UserSaid(caller) /\ \A c \in Clients : UserSaid(c)' = UserSaid(c)
    BY <2>1 DEF UserSaid
  <2>3. TypesInv'
    BY <2>1, <2>2 DEF CoverInv, TypesInv, Idle
  <2>4. HeldInv' /\ RequestInv' /\ ReplyInv'
    BY <2>1, <2>2 DEF CoverInv, HeldInv, RequestInv, ReplyInv
  <2> QED
    BY <2>3, <2>4 DEF CoverInv
<1> QED
  BY <1>1, SayCovers, ChatCovers, RebuildCovers, ReceiveCovers, DamageCovers,
     EmptyCovers
     DEF Next, Running

\* Every variable has its type, in particular no client is still in a call that
\* has ended, and none has said more than it may.
THEOREM TypeCorrect == Spec => []TypeOK
<1>1. CoverInv => TypeOK
  <2> SUFFICES ASSUME CoverInv PROVE TypeOK
    OBVIOUS
  <2>1. \A c \in Clients : Len(UserSaid(c)) \in 0 .. MaxTurns
    BY UserSaidType, BoundAssumption DEF CoverInv, TypesInv
  <2>2. (caller = None) = Idle
    BY DEF CoverInv, TypesInv, Idle
  <2> QED
    BY <2>1, <2>2 DEF CoverInv, TypesInv, TypeOK, UserSaid
<1> QED
  BY <1>1, InitCover, NextCover, PTL DEF Spec

\* However a turn went, the state sealed into its response has every message of
\* the client's transcript, in order, unless the continuation was cut to nothing.
THEOREM NoTurnLost == Spec => []StateCoversTranscript
<1>1. CoverInv => StateCoversTranscript
  BY DEF CoverInv, ReplyInv, Covers, StateCoversTranscript, StateIsWhole,
         SaidIn, UserSaid
<1> QED
  BY <1>1, InitCover, NextCover, PTL DEF Spec
===============================================================================
