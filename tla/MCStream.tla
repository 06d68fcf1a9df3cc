------------------------------- MODULE MCStream -------------------------------
(* Small instances of Stream for TLC. *)
EXTENDS Stream

CONSTANTS k1, k2, m1, m2, c1, c2

MCEpochs == {0, 1}
MCByte   == {"a", "b"}

\* Equal segments (a a), unequal ones, a short last one, the empty state.
MCStates    == {<<>>, <<"a", "a">>, <<"a", "b", "a">>}
MCPair      == {<<"a", "b">>}

\* One environment and its neighbours: each differs from it in one factor.
MCHome == [secret |-> k1, memh |-> m1, epoch |-> 0, context |-> c1]
MCHomeOnly == {MCHome}
MCEnvironments ==
  {MCHome, [MCHome EXCEPT !.secret = k2], [MCHome EXCEPT !.memh = m2],
   [MCHome EXCEPT !.epoch = 1], [MCHome EXCEPT !.context = c2]}
===============================================================================
