------------------------------ MODULE MCAgenda ------------------------------
(* Two calls on the agendas of two professionals. *)
EXTENDS Agenda, TLC

CONSTANTS c1, c2, s1, f1

MCProfissionais == {1, 2}
\* A day whose hours are an hour behind the instants, and one whose third
\* hour does not exist: its clock goes from 5 to 6 at once.
MCExpedientes ==
    {[abre |-> 0, fecha |-> 2, instante |-> [h \in 0..2 |-> h + 1]],
     [abre |-> 3, fecha |-> 6, instante |-> [h \in 3..6 |-> IF h < 5 THEN h + 1 ELSE h]]}
MCPedido(t, p, i, n, q) ==
    [tipo |-> t, prof |-> p, servico |-> s1, inicio |-> i, intervalo |-> n, quantidade |-> q,
     telefone |-> IF t = "PUBLICO" THEN f1 ELSE Nenhum]
MCPedidos ==
    {MCPedido("CRIAR", 1, 2, 1, 1),
     MCPedido("PUBLICO", Qualquer, 1, 1, 1),
     MCPedido("PUBLICO", 1, 1, 1, 1),
     MCPedido("PUBLICO", 2, 5, 1, 1),
     MCPedido("SERIE", 1, 1, 2, 2)}
Simetria == Permutations({c1, c2})
=============================================================================
