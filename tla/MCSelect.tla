------------------------------- MODULE MCSelect ------------------------------
(****************************************************************************)
(* Finite instances of Select for TLC.                                      *)
(****************************************************************************)
EXTENDS Select
=============================================================================
