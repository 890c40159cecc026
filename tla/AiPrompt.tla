-------------------------------- MODULE AiPrompt --------------------------------
(***************************************************************************)
(* frontend/src/utils/aiPrompt.ts and the prompt the server builds         *)
(* (backend/app/services/ai_service.py): the text of a diagnosis.  Of a    *)
(* text only what tells two texts apart is kept: a generated prompt is     *)
(* known by its logs and the operator's context, anything typed is Typed,  *)
(* and texts that differ in line ends or in blanks around them are equal.  *)
(***************************************************************************)
CONSTANTS
  Logs,
  Contexts  \* the situational contexts the operator may give, "" for none

Generated(logs, ctx) == [kind |-> "generated", logs |-> logs, ctx |-> ctx]
Typed == [kind |-> "typed", logs |-> {}, ctx |-> ""]
Blank == [kind |-> "blank", logs |-> {}, ctx |-> ""]
UserPrompts == {Typed, Blank} \cup {Generated(L, c) : L \in SUBSET Logs, c \in Contexts}

\* Instructions: the server's, DEFAULT_SYSTEM_PROMPT, typed ones, none.
SystemPrompts == {"server", "default", "typed", ""}

\* The full text: with both headers, without the first one, or without the second,
\* which is all the same as without any.
Envelopes == [headers : {"both", "user", "none"}, system : SystemPrompts, user : UserPrompts]

BlankEnvelope == [headers |-> "none", system |-> "", user |-> Blank]

buildCombinedPrompt(prompt, ctx) == Generated(prompt.logs, ctx)

buildFullEnvelope(system, user) ==
  [headers |-> "both", system |-> IF system = "" THEN "default" ELSE system, user |-> user]

-----------------------------------------------------------------------------
\* Mutated forms of the definitions below.

\* A text without its headers is taken for the instructions.
ParseHeadless(full, fallback) ==
  IF full.headers # "none"
  THEN [system |-> IF full.system = "" THEN fallback ELSE full.system, user |-> full.user]
  ELSE [system |-> "typed", user |-> Blank]
-----------------------------------------------------------------------------

\* Without the header of the prompt the whole text is the prompt.
parseFullEnvelope(full, fallback) ==
  IF full.headers # "none"
  THEN [system |-> IF full.system = "" THEN fallback ELSE full.system, user |-> full.user]
  ELSE [system |-> fallback,
        user |-> IF full = BlankEnvelope THEN Blank ELSE Typed]

\* What the server sends for a request: an override that is blank is none.
SentUser(override, logs, ctx) == IF override = Blank THEN Generated(logs, ctx) ELSE override
SentSystem(override) == IF override = "" THEN "server" ELSE override

=============================================================================
