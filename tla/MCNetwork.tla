----------------------------- MODULE MCNetwork -----------------------------
(***************************************************************************)
(* Three containers, two of which have ids with the same first bytes.      *)
(***************************************************************************)
EXTENDS Network, TLC

CONSTANTS c1, c2, c3, n1, n2

MCShort == [c \in Ctrs |-> IF c = c1 THEN n1 ELSE n2]

SameNameSymmetry == Permutations({c2, c3})
=============================================================================
