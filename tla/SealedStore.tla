----------------------------- MODULE SealedStore -----------------------------
(***************************************************************************)
(* What sealing promises, with no bytes and no keys: states are put away   *)
(* under an environment, and asking with something that was put away, in   *)
(* the environment it was put away in, gives that state back.  Asking with *)
(* anything else (item None), or in another environment, is refused.       *)
(* Envelope and Stream are both shown to implement this.                   *)
(***************************************************************************)
CONSTANTS Environments, States, None

VARIABLES
  store,      \* what has been put away: records [env, state]
  request,    \* the question asked: [item, env], or None
  answer      \* its answer: [opened, state], or None while there is none

vars == <<store, request, answer>>

Init == store = {} /\ request = None /\ answer = None

Put(e, s) ==
  /\ request = None
  /\ store' = store \cup {[env |-> e, state |-> s]}
  /\ UNCHANGED <<request, answer>>

Ask(item, e) ==
  /\ request = None
  /\ request' = [item |-> item, env |-> e]
  /\ UNCHANGED <<store, answer>>

Grants(r) == r.item # None /\ r.item.env = r.env

Answer ==
  /\ request # None /\ answer = None
  /\ answer' = IF Grants(request)
                 THEN [opened |-> TRUE, state |-> request.item.state]
                 ELSE [opened |-> FALSE, state |-> None]
  /\ UNCHANGED <<store, request>>

Forget ==
  /\ answer # None
  /\ request' = None /\ answer' = None
  /\ UNCHANGED store

Next ==
  \/ \E e \in Environments, s \in States : Put(e, s)
  \/ \E item \in store \cup {None}, e \in Environments : Ask(item, e)
  \/ Answer
  \/ Forget

Spec     == Init /\ [][Next]_vars
FairSpec == Spec /\ WF_vars(Answer)
==============================================================================
