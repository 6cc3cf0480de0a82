---------------------------- MODULE MCAutomacoes ----------------------------
(* Two automations of two companies, two processes, and pages of one. *)
EXTENDS Automacoes, TLC

CONSTANTS a1, a2, e1, e2, w1, w2

MCEmpresaDe == a1 :> e1 @@ a2 :> e2
=============================================================================
