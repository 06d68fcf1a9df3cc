------------------------------ MODULE MCManifest ------------------------------
(* Small instances of Manifest for TLC. *)
EXTENDS Manifest

\* Two spellings of one character, two strings that start alike, one too long
\* to be length-prefixed and one with a lone surrogate.
MCStrings == {"e1", "e2", "x", "xy", "xyz", "half"}

MCNfc  == [s \in MCStrings |-> IF s = "e2" THEN "e1" ELSE s]
MCUtf8 == [e1 |-> <<2>>, e2 |-> <<3, 4>>, x |-> <<1>>, xy |-> <<1, 1>>,
           xyz |-> <<1, 1, 1>>, half |-> NoBytes]

MCFields == <<"weights_hash", "quantization", "kernel_build_id",
              "tensor_parallel", "numerics_mode">>

\* Two neighbouring fields vary; the others are fixed.
MCCores ==
  {[weights_hash |-> p[1], quantization |-> p[2], kernel_build_id |-> "x",
    tensor_parallel |-> "e1", numerics_mode |-> "x"] :
     p \in {<<"x", "xy">>, <<"xy", "x">>, <<"xy", "e2">>,
            <<NotStr, "x">>, <<"x", "xyz">>, <<"x", "half">>}}

MCKeys   == {"e1", "e2", "x"}
MCValues == {"x", "xy"}
MCFaultyKeys   == {"half", "xyz", "x", NotStr}
MCFaultyValues == {"half", "x", NotStr}
===============================================================================
