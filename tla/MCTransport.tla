----------------------------- MODULE MCTransport -----------------------------
(****************************************************************************)
(* Finite instances of Transport for TLC.                                   *)
(****************************************************************************)
EXTENDS Transport, TLC

\* Clients are interchangeable, and so are connection identities.
Symmetry == Permutations(Clients) \cup Permutations(Conns)

=============================================================================
