------------------------------- MODULE MCLoja -------------------------------
(* One sale and its refund beside two calls on an appointment of the same    *)
(* client, which consumes the products the sale sells.                       *)
EXTENDS Loja, TLC

CONSTANTS c1, a1, s1, r1, e1, t1, t2

MCProdutos == {1, 2}
MCSaldoInicial == [e \in {Central} \X {1, 2} |-> 1]
MCPedidos ==
    {[itens |-> [p \in {1, 2} |-> 1], local |-> Central, cliente |-> c1,
      cupom |-> Nenhum, chave |-> Nenhum, total |-> 2]}
MCClienteDe == [a \in {a1} |-> c1]
MCDataDe == [a \in {a1} |-> 2]
MCServicoDe == [a \in {a1} |-> s1]
MCInsumos == [s \in {s1} |-> [p \in {1, 2} |-> 1]]
MCOperacoes ==
    {[tipo |-> "STATUS", alvo |-> a1, para |-> s] : s \in {"CONFIRMADO", "CONCLUIDO", "CANCELADO"}}
    \cup {[tipo |-> x, alvo |-> a1, para |-> "CONCLUIDO"] : x \in {"REPROCESSAR", "ANULAR"}}
MCTransacoes == {r1, e1, t1, t2}
Simetria == Permutations({t1, t2})
=============================================================================
