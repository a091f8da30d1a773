------------------------------ MODULE MCTeammates ------------------------------
(* A colleague with two fields of settings. *)
EXTENDS Teammates

CONSTANTS mia, ada, systemPrompt, mentionAliases

MCFields == {systemPrompt, mentionAliases}
=============================================================================
