---------------------------- MODULE MCDialTimeout ---------------------------
(****************************************************************************)
(* Finite instance of DialTimeout. The frame keeps the proportion of the    *)
(* code's 1s and 5s; hosts answer at once, in each part of the frame, at    *)
(* its end and beyond it.                                                   *)
(****************************************************************************)
EXTENDS DialTimeout

MCTimes == {0, 2, 5, 6}

=============================================================================
