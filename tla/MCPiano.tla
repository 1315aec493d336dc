------------------------------ MODULE MCPiano -------------------------------
(***************************************************************************)
(* Two voices, so that there is an oldest and another one, three notes to  *)
(* take them from one another, and a counter that wraps.                   *)
(***************************************************************************)
EXTENDS Piano
=============================================================================
