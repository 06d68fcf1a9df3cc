------------------------------ MODULE MCEnvelope ------------------------------
(* Small instances of Envelope for TLC. *)
EXTENDS Envelope, TLC

CONSTANTS k1, k2, m1, m2, c1, c2

MCEpochs == {0, 1}
MCStates == {<<"x">>}
MCTwoStates == {<<>>, <<"x">>}

\* One environment and its neighbours: each differs from it in one factor.
MCHome == [secret |-> k1, memh |-> m1, epoch |-> 0, context |-> c1]
MCEnvironments ==
  {MCHome, [MCHome EXCEPT !.secret = k2], [MCHome EXCEPT !.memh = m2],
   [MCHome EXCEPT !.epoch = 1], [MCHome EXCEPT !.context = c2]}

\* Seals under two contexts, and under the next epoch, count differently.
MCCountedEnvironments ==
  {MCHome, [MCHome EXCEPT !.context = c2], [MCHome EXCEPT !.epoch = 1]}
===============================================================================
