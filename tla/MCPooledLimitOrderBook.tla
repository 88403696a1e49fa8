----------------------- MODULE MCPooledLimitOrderBook -----------------------
(* Instantiates PooledLimitOrderBook for TLC. *)
EXTENDS PooledLimitOrderBook, TLC

CONSTANTS o1, o2, o3, o4

\* Order identifiers are only compared for equality.
IdSymmetry == Permutations(OrderId)
=============================================================================
