-------------------------------- MODULE MCConsole --------------------------------
(* A small instance of Console for TLC. *)
EXTENDS Console

CONSTANTS gemini, openai, flash, pro, gpt

MCOffered == [p \in Providers |-> IF p = gemini THEN {flash, pro, gpt} ELSE {gpt}]
MCDefaultForm == [provider |-> gemini, model |-> flash, fallbacks |-> <<>>, rest |-> "default"]
MCFirstForm == [MCDefaultForm EXCEPT !.fallbacks = <<pro, gpt>>]

=============================================================================
