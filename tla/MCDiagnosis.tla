------------------------------- MODULE MCDiagnosis -------------------------------
(* A small instance of Diagnosis for TLC. *)
EXTENDS Diagnosis

CONSTANTS gemini, openai, flash, pro

MCOffered == [p \in Providers |-> IF p = gemini THEN {flash, pro} ELSE {pro}]
MCOneModel == [p \in Providers |-> {flash}]
MCAlone == [provider |-> gemini, model |-> flash, fallbacks |-> <<>>]
MCConfigured == [provider |-> gemini, model |-> flash, fallbacks |-> <<pro>>]

\* Rows 1 and 2 are of one host, rows 1 and 3 of one app.
MCHostOf == [r \in Rows |-> IF r = 3 THEN "nas" ELSE "router"]
MCAppOf == [r \in Rows |-> IF r = 2 THEN "sshd" ELSE "nginx"]
MCSelections == {{1}, Rows}

=============================================================================
