------------------------------ MODULE MCChannel ------------------------------
(* Channels for TLC: one reader, one writer, either monitor. *)
EXTENDS Channel
=============================================================================
