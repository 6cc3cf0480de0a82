------------------------------ MODULE MCVendas ------------------------------
(* Sales and refunds of one client and one coupon, centrally and at a branch. *)
EXTENDS Loja, TLC

CONSTANTS f1, c1, k1, cup1, r1, r2, e1, e2

MCProdutos == {1}
MCSaldoInicial == [e \in {f1, Central} \X {1} |-> 1]
MCVazio == [a \in {} |-> 0]
MCPedido(q, l, c, d, k, n) ==
    [itens |-> [p \in {1} |-> q], local |-> l, cliente |-> c, cupom |-> d, chave |-> k,
     total |-> n]
MCPedidos ==
    {MCPedido(1, Central, c1, cup1, k1, 1),
     MCPedido(1, Central, c1, Nenhum, k1, 2),
     MCPedido(1, f1, c1, cup1, Nenhum, 3)}
MCTransacoes == {r1, r2, e1, e2}
Simetria == Permutations({r1, r2}) \cup Permutations({e1, e2})
=============================================================================
