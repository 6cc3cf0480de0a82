---------------------------- MODULE MCFinanceiro ----------------------------
(* A sale on credit, a sale received at the counter and an expense. *)
EXTENDS Financeiro, TLC

CONSTANTS prazo, vista, luz, k1, k2, t1, t2, t3

MCValor == (prazo :> 2) @@ (vista :> 1) @@ (luz :> 1)
MCPedido(x, c, k, v) == [tipo |-> x, conta |-> c, chave |-> k, valor |-> v]
MCPedidos ==
    {MCPedido("BAIXAR", prazo, k1, 1), MCPedido("BAIXAR", prazo, k1, 2),
     MCPedido("BAIXAR", prazo, k2, 1), MCPedido("BAIXAR", luz, k1, 1),
     MCPedido("ESTORNAR_BAIXA", prazo, k1, 0), MCPedido("ESTORNAR_BAIXA", vista, vista, 0),
     MCPedido("CANCELAR", luz, Nenhum, 0), MCPedido("CANCELAR", prazo, Nenhum, 0),
     MCPedido("ESTORNAR_VENDA", prazo, Nenhum, 0), MCPedido("ESTORNAR_VENDA", vista, Nenhum, 0)}
Simetria == Permutations({t1, t2, t3})
=============================================================================
