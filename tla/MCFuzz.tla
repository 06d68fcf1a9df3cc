-------------------------------- MODULE MCFuzz --------------------------------
(* A small instance of Fuzz for TLC: integers of two base-five digits, so that  *)
(* the limit of a length prefix is 24.                                          *)
EXTENDS Fuzz

MCByte == 0 .. 4
MCUint == [n \in 0 .. 24 |-> <<n \div 5, n % 5>>]

MCMagic       == <<1>>
MCStreamMagic == <<2>>
MCLabel       == <<>>
MCMemh        == <<3>>
MCStreamId    == <<4>>

\* Salt, nonce, commitment and tag of a seal are one digit each, the seal's number.
MCDraw == [n \in 1 .. 5 |-> [nonce |-> <<n - 1>>, salt |-> <<n - 1>>,
                             commitment |-> <<5 - n>>, tag |-> <<n - 1>>]]

MCState        == <<1, 2>>
MCCtx          == <<1>>
MCChunkedState == <<1, 1, 0>>

\* Every string of up to two bytes; the headers the corpus keeps (no segments, and
\* more than one for an empty state); payloads around the largest state a round
\* trip can carry, with the smallest and the largest epoch.
MCInputs ==
  {<<>>} \cup {<<a>> : a \in MCByte} \cup {<<a, b>> : a, b \in MCByte}
    \cup {<<2, 1, 4, 0, n, 0, 2, 0, 0>> : n \in {0, 2}}
    \cup {<<1, 1, a, 0, 0, 0, n, 0>> : a, n \in {0, 1}}
    \cup {[k \in 1 .. n |-> b] : n \in {6, 7, 28, 29, 30, 31}, b \in {0, 4}}

MCTails == {<<a>> : a \in MCByte} \cup {<<0, 2>>, <<1, 0, 3>>}
===============================================================================
