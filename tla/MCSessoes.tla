------------------------------ MODULE MCSessoes ------------------------------
(* Two administrators, one with a second factor, and three requests. *)
EXTENDS Sessoes, TLC

CONSTANTS ana, bia, t1, t2, t3, c1, c2

Simetria == Permutations({t1, t2, t3}) \cup Permutations({c1, c2})
=============================================================================
