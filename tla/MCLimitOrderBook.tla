-------------------------- MODULE MCLimitOrderBook --------------------------
(* Instantiates LimitOrderBook for TLC. *)
EXTENDS LimitOrderBook, TLC

CONSTANTS o1, o2, o3

\* Order identifiers are only compared for equality.
IdSymmetry == Permutations({o1, o2, o3})
=============================================================================
