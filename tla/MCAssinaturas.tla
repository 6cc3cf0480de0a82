---------------------------- MODULE MCAssinaturas ----------------------------
(* One caller and the hourly job, two plans, one request to delete. *)
EXTENDS Assinaturas, TLC

CONSTANTS t1, rotina, k1, k2, k3, basico, pro, e1

Simetria == Permutations({k1, k2, k3})
=============================================================================
