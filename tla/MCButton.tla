------------------------------ MODULE MCButton ------------------------------
(* Two buttons that share the sample counter. *)
EXTENDS ButtonParser
=============================================================================
