------------------------------ MODULE MCNameList -----------------------------
(****************************************************************************)
(* Finite instances of NameList for TLC.                                    *)
(****************************************************************************)
EXTENDS NameList

MCVersions == {"a", "b"}
MCHash == [v \in MCVersions |-> IF v = "a" THEN 11 ELSE 23]
=============================================================================
