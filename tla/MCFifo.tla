------------------------------- MODULE MCFifo -------------------------------
(* Fifo with the constants of the .cfg file: a DEPTH that is no power of 2. *)
EXTENDS Fifo
=============================================================================
