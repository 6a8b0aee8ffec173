----------------------------- MODULE MCPrompt ------------------------------
(***************************************************************************)
(* Two places for the cursor to stand, and lines enough for one to be     *)
(* typed while the answer before it is still in the pager.                *)
(***************************************************************************)
EXTENDS Prompt

CONSTANTS c1, c2
=============================================================================
