---------------------------- MODULE ServingAdapter ----------------------------
(***************************************************************************)
(* examples/serving_adapter.py: a stateless inference server that seals    *)
(* its continuation state into every response, and the clients that hold   *)
(* it between turns together with their own plaintext transcript.  A       *)
(* client calls the server synchronously, so only one call is under way;   *)
(* between calls the model may be updated and a held continuation damaged  *)
(* or lost.                                                                *)
(*                                                                         *)
(* A message is the number of the turn it is said in, and the state the    *)
(* model keeps is the sequence of its turns: what was said, and which      *)
(* model it was computed by.  The wording of replies is left out, and so   *)
(* is base64, which the other end undoes exactly.                          *)
(***************************************************************************)
EXTENDS SCECrypto, SequencesExt

CONSTANTS Clients,
          MaxTurns,      \* bound: messages a client says
          None           \* Python's None

Models == {"v1", "v2"}

\* What the model keeps of a turn, and the envelopes the server seals such turns
\* into, damaged or not.
Turns == [said : Seq(Nat), by : Models]

Keys        == [half : {"enc", "commit"}, secret : {"master"}, salt : Nat,
                info : [context : {""}, epoch : {0}, memh : Models]]
Headers     == [magic : {Magic}, version : {Version}, nonce : Nat, salt : Nat,
                commitment : Keys]
Ciphertexts == [key : Keys, nonce : Nat,
                aad : [prefix : Headers, memh : Models, epoch : {0}],
                plain : Seq(Turns), len : Nat, intact : BOOLEAN]
Envelopes   == [form : {"bytes"}, prefix : Headers, ctLen : Nat, ct : Ciphertexts]

ASSUME BoundAssumption == MaxTurns \in Nat
\* The empty string, which is neither an envelope nor None.
EmptyString == [form |-> "empty"]

ASSUME NoneAssumption  == None \notin Clients \cup Envelopes \cup {EmptyString}

VARIABLES
  manifest,      \* the server's current model
  drawn,         \* seals so far: salt and nonce numbers
  continuation,  \* per client: the sealed envelope it holds, EmptyString or None
  transcript,    \* per client: [role, text] entries; text is a sequence of messages
  pc,            \* "idle", "chat", "refused" or "replied"
  caller,        \* the client inside say
  request,       \* [message, continuation] of the call
  reply,         \* the envelope of a successful response
  escaped,       \* clients whose say has ended in an exception
  emptied        \* history: clients whose continuation has been cut to nothing
                 \* and who have not sent their transcript again since

vars == <<manifest, drawn, continuation, transcript, pc, caller, request, reply, escaped,
          emptied>>

\* Mutant: the manifest of the first model is presented whatever model runs.
ServerEnvOfFirstModel == [secret |-> "master", memh |-> "v1", epoch |-> 0, context |-> ""]

\* The keyword arguments chat leaves at their defaults are epoch 0 and no context.
ServerEnv == [secret |-> "master", memh |-> manifest, epoch |-> 0, context |-> ""]

Idle == pc = "idle"

\* " | ".join over the transcript: every message in it, replies being empty here.
Replay(t) == FlattenSeq([n \in DOMAIN t |-> t[n].text])

Said(t, role) == FlattenSeq([n \in DOMAIN t |-> IF t[n].role = role THEN t[n].text ELSE <<>>])
-------------------------------------------------------------------------------
Say(c) ==
  LET m == Len(Said(transcript[c], "user")) + 1
  IN  /\ Idle
      /\ m <= MaxTurns
      /\ transcript' = [transcript EXCEPT ![c] = Append(@, [role |-> "user", text |-> <<m>>])]
      /\ request' = [message |-> <<m>>, continuation |-> continuation[c]]
      /\ caller' = c
      /\ pc' = "chat"
      /\ UNCHANGED <<manifest, drawn, continuation, reply, escaped, emptied>>

\* Mutant: say ends and the client stays the caller.
EndSayKeepingCaller == pc' = "idle" /\ caller' = caller /\ request' = None

EndSay == pc' = "idle" /\ caller' = None /\ request' = None

\* The model runs on `prior' and its new state is sealed into the response.
Respond(prior) ==
  /\ reply' = SealEnvelope(Append(prior, [said |-> request.message, by |-> manifest]),
                           ServerEnv, drawn + 1, drawn + 1)
  /\ drawn' = drawn + 1
  /\ pc' = "replied"
  /\ UNCHANGED <<manifest, continuation, transcript, caller, request, escaped, emptied>>

\* What chat takes to be a continuation to resume from: any but None and "".
Truthy(b) == b \notin {None, EmptyString}

ChatFresh ==
  /\ pc = "chat"
  /\ ~ Truthy(request.continuation)
  /\ Respond(<<>>)

ChatResume ==
  /\ pc = "chat"
  /\ Truthy(request.continuation)
  /\ Opens(request.continuation, ServerEnv)
  /\ Respond(request.continuation.ct.plain)

\* StateSealMismatch: the uniform error code.
ChatRefuse ==
  /\ pc = "chat"
  /\ Truthy(request.continuation)
  /\ WellFormed(request.continuation)
  /\ ~ Opens(request.continuation, ServerEnv)
  /\ pc' = "refused"
  /\ UNCHANGED <<manifest, drawn, continuation, transcript, caller, request, reply, escaped,
                 emptied>>

\* MalformedEnvelope: chat does not catch it and say does not either.
ChatMalformed ==
  /\ pc = "chat"
  /\ Truthy(request.continuation)
  /\ ~ WellFormed(request.continuation)
  /\ escaped' = escaped \cup {caller}
  /\ EndSay
  /\ UNCHANGED <<manifest, drawn, continuation, transcript, reply, emptied>>

\* Mutant: only the new message is sent again, not the transcript.
LastSaid == Last(transcript[caller]).text

Resent == Replay(transcript[caller])

\* Mutant: the client presents the refused continuation again.
StaleContinuation == continuation[caller]

FreshContinuation == None

\* The client replays its whole transcript in one turn, without the stale blob.
Rebuild ==
  /\ pc = "refused"
  /\ continuation' = [continuation EXCEPT ![caller] = FreshContinuation]
  /\ request' = [message |-> Resent, continuation |-> FreshContinuation]
  /\ emptied' = emptied \ {caller}
  /\ pc' = "chat"
  /\ UNCHANGED <<manifest, drawn, transcript, caller, reply, escaped>>

\* The client keeps the new continuation and records the answer.
Receive ==
  /\ pc = "replied"
  /\ continuation' = [continuation EXCEPT ![caller] = reply]
  /\ transcript' = [transcript EXCEPT ![caller] =
                      Append(@, [role |-> "assistant", text |-> <<>>])]
  /\ reply' = None
  /\ EndSay
  /\ UNCHANGED <<manifest, drawn, escaped, emptied>>

\* The overnight update: always to the same new model.
UpdateModel ==
  /\ Idle
  /\ manifest' = "v2"
  /\ UNCHANGED <<drawn, continuation, transcript, pc, caller, request, reply, escaped, emptied>>

\* A held continuation loses a byte (and is then malformed) or has one changed.
Damage(c) ==
  /\ Idle
  /\ Truthy(continuation[c])
  /\ continuation[c].ct.intact
  /\ LET b == continuation[c]
     IN  \E n \in {b.ct.len - 1, b.ct.len} :
           continuation' = [continuation EXCEPT ![c] = CutCiphertext(b, n)]
  /\ UNCHANGED <<manifest, drawn, transcript, pc, caller, request, reply, escaped, emptied>>

\* A held continuation loses all its bytes.
Empty(c) ==
  /\ Idle
  /\ Truthy(continuation[c])
  /\ continuation' = [continuation EXCEPT ![c] = EmptyString]
  /\ emptied' = emptied \cup {c}
  /\ UNCHANGED <<manifest, drawn, transcript, pc, caller, request, reply, escaped>>
-------------------------------------------------------------------------------
Init ==
  /\ manifest = "v1" /\ drawn = 0
  /\ continuation = [c \in Clients |-> None]
  /\ transcript = [c \in Clients |-> <<>>]
  /\ pc = "idle" /\ caller = None /\ request = None /\ reply = None
  /\ escaped = {} /\ emptied = {}

\* Inside say: synchronous code.
Running ==
  ChatFresh \/ ChatResume \/ ChatRefuse \/ ChatMalformed \/ Rebuild \/ Receive

Next ==
  \/ \E c \in Clients : Say(c)
  \/ Running
  \/ UpdateModel
  \/ \E c \in Clients : Damage(c) \/ Empty(c)

Spec     == Init /\ [][Next]_vars
FairSpec == Spec /\ WF_vars(Running)
-------------------------------------------------------------------------------
\* Type invariant.
TypeOK ==
  /\ manifest \in Models
  /\ drawn \in Nat
  /\ pc \in {"idle", "chat", "refused", "replied"}
  /\ caller \in Clients \cup {None}
  /\ (caller = None) = Idle
  /\ escaped \subseteq Clients /\ emptied \subseteq Clients
  /\ \A c \in Clients : Len(Said(transcript[c], "user")) \in 0 .. MaxTurns

\* No silent corruption: the model never extends a state that another model
\* computed (lines 12-14 of the file).
OneModelPerState ==
  pc = "replied" => \A n \in DOMAIN reply.ct.plain : reply.ct.plain[n].by = manifest

\* The state sealed into a response has every message of the caller's transcript
\* in order, none lost and none twice.
StateIsWhole ==
  LET turns == reply.ct.plain
  IN  FlattenSeq([n \in DOMAIN turns |-> turns[n].said]) = Said(transcript[caller], "user")

\* Whichever way a turn went, resumed or refused and rebuilt, its state is whole,
\* unless the continuation was cut to nothing; and then it is whole again from the
\* next rebuild on.
StateCoversTranscript == pc = "replied" /\ caller \notin emptied => StateIsWhole

\* A refused turn is answered after all, by the rebuild.
RefusedTurnsAreAnswered == pc = "refused" ~> pc = "replied"

\* chat answers with a reply, or with the uniform error when it fails closed
\* (lines 66-68).  It does not hold for a continuation that is malformed.
ChatAnswers == escaped = {}

\* A client that returns its sealed state has its turn resumed or, when the state is
\* refused, rebuilt (lines 11-14): no turn is answered without its history.  It
\* does not hold for a continuation cut to the empty string, which chat takes for
\* the beginning of a conversation (line 71).
ResumedOrRebuilt == pc = "replied" => StateIsWhole
===============================================================================
