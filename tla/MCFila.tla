------------------------------- MODULE MCFila -------------------------------
(* Two replicas and two jobs, one of them of a type that may be repeated. *)
EXTENDS Fila

CONSTANTS p1, p2, j1, j2, u1, u2, u3

=============================================================================
