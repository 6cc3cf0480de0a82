---------------------------- MODULE MCSuprimentos ----------------------------
(* Two products, one branch, one order, two imports of one client, two calls at a time. *)
EXTENDS Suprimentos, TLC

CONSTANTS c1, c2, p1, p2, loja, d1, k1, n1, n2, i1

MCSaldoInicial == [e \in Estantes |-> IF e \in {<<Central, p1>>, <<loja, p2>>} THEN 1 ELSE 0]
Simetria == Permutations({c1, c2}) \cup Permutations({n1, n2})
=============================================================================
