----------------------------- MODULE MCPipeline -----------------------------
(* Instance of Pipeline for TLC: a format that has not the name of its     *)
(* type, ends with an end record whose second byte is the length of a      *)
(* comment, and has no validator, so that no hit of it may get lost; and   *)
(* one that only the cap ends, with a validator that may turn a hit down   *)
(* and two types, one of which nobody asks for.  Their headers share a     *)
(* byte and can overlap each other.                                        *)
EXTENDS Pipeline, TLC

Archive ==
     [names |-> {"docx"}, shift |-> 0, footer |-> 2, has_comment |-> TRUE,
      min_size |-> 4, max_size |-> 6,
      validated |-> FALSE, parser |-> FALSE, strict |-> FALSE]
Packed ==
     [names |-> {"mp4", "m4a"}, shift |-> 0, footer |-> 0, has_comment |-> FALSE,
      min_size |-> 2, max_size |-> 3,
      validated |-> TRUE, parser |-> FALSE, strict |-> FALSE]

MCDB == ("zip" :> Archive) @@ ("mp4" :> Packed)
MCHeader == ("zip" :> <<1, 1>>) @@ ("mp4" :> <<1, 0>>)
MCFooter == ("zip" :> <<2>>) @@ ("mp4" :> << >>)
=============================================================================
