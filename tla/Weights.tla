------------------------------ MODULE Weights ------------------------------
(***************************************************************************)
(* Weights of edges and paths: natural numbers in place of float64, so     *)
(* nothing is rounded, and a value for the infinite weight.                *)
(***************************************************************************)
EXTENDS Integers

CONSTANT Inf

Weights == Nat \cup {Inf}

Add(v, w) == IF v = Inf \/ w = Inf THEN Inf ELSE v + w
=============================================================================
