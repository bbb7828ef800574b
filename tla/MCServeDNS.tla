------------------------------ MODULE MCServeDNS -----------------------------
(****************************************************************************)
(* Finite instances of ServeDNS for TLC.                                    *)
(****************************************************************************)
EXTENDS ServeDNS
=============================================================================
