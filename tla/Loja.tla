-------------------------------- MODULE Loja --------------------------------
(***************************************************************************)
(* Sales, refunds, appointments and the registry screens of one company,   *)
(* running side by side, and what must hold of the stock, the coupons, the *)
(* clients and the answers whatever their order.                           *)
(***************************************************************************)
EXTENDS Vendas, Atendimento

vars == <<cadastro, vendas, atendimento>>

ASSUME LojaAssumption == VendaTx \cap Chamadas = {}

Init == CadastroInit /\ VendasInit /\ AtendimentoInit

Next ==
    \/ CadastroNext /\ UNCHANGED <<vendas, atendimento>>
    \/ VendasNext /\ UNCHANGED atendimento
    \/ AtendimentoNext /\ UNCHANGED vendas

Spec == Init /\ [][Next]_vars

-----------------------------------------------------------------------------
TiposOK == CadastroTypeOK /\ VendasTypeOK /\ AtendimentoTypeOK

\* Every row keeps its type (the schema's columns and the transactions' steps).
TypeOK == TiposOK /\ ClienteTypeOK /\ LidaTypeOK

\* No unit ever shows a negative balance, though sales validate the balance
\* long before they take it and appointments take it without the company's row.
EstoqueNaoNegativo == \A e \in Estantes : saldo[e] >= 0

\* What sale v holds of product p at unit l, and all of them together.
Leva(v, l, p) ==
    IF venda[v].status = "CONCLUIDA" /\ pedido[v].local = l THEN pedido[v].itens[p] ELSE 0

Vendido(l, p) == SumFunction([v \in Requisicoes |-> Leva(v, l, p)])

Consumido(l, p) ==
    IF l = Central THEN SumFunction([a \in Agendamentos |-> consumo[a][p]]) ELSE 0

\* What the rows of the business say of product p at unit l.
Liquido(l, p) == (IF l = Central THEN manual[p] ELSE 0) - Vendido(l, p) - Consumido(l, p)

\* Balance and movement log are both explained by the rows of the business: a
\* refunded sale weighs nothing, however often it was refunded, a sale weighs
\* once however often its call was repeated, an aborted transaction nothing.
Conservacao ==
    \A l \in Locais, p \in Produtos :
        /\ livro[<<l, p>>] = Liquido(l, p)
        /\ saldo[<<l, p>>] = SaldoInicial[<<l, p>>] + Liquido(l, p)

\* usoAtual of a coupon is the number of sales that use it and stand: a sale
\* that fails gives no use away and a refund gives back exactly its own.
CupomContaVendas ==
    \A c \in Cupons : cupom[c].existe =>
        cupom[c].uso = Cardinality({v \in Requisicoes :
                          venda[v].status = "CONCLUIDA" /\ venda[v].cupom = c})

\* What sale v adds to the total of client c.
Gasta(v, c) ==
    IF venda[v].status = "CONCLUIDA" /\ pedido[v].cliente = c THEN pedido[v].total ELSE 0

\* totalGasto of a client is the total of the sales that stand, whether they
\* were added one by one or recomputed by a refund.
GastoConfere ==
    \A c \in Clientes :
        cliente[c].gasto = SumFunction([v \in Requisicoes |-> Gasta(v, c)])

\* Each insumo of a concluded appointment is consumed once, or still a
\* shortage, or cancelled: never twice, never forgotten.
ConsumoUmaVez ==
    \A a \in Agendamentos : \A p \in Produtos :
        LET previsto == IF agendamento[a].status = "CONCLUIDO" THEN InsumoDe(a)[p] ELSE 0
        IN  IF p \in agendamento[a].pendencias \cup agendamento[a].anuladas
            THEN consumo[a][p] = 0 ELSE consumo[a][p] = previsto

\* A repetition recovers the original sale, even one that took the last unit
\* or the last use of the coupon: a call whose key and content were already
\* sold is never refused, and the unique index is never what stops it.
RepeticaoRecupera ==
    [][\A t \in Requisicoes :
         (resp[t] = Nenhum /\ resp'[t] \in {"RECUSADA", "CONFLITO", "UNICIDADE"})
            => \A v \in Anterior(t) : pedido[v] # pedido[t]]_vars

\* The answer given is the sale asked for: same key, same content; and no two
\* sales stand for one key.
UmaVendaPorChave ==
    /\ \A t \in Requisicoes : resp[t] \in Requisicoes =>
          venda[resp[t]].status # "AUSENTE" /\ pedido[resp[t]] = pedido[t]
    /\ \A v, w \in Requisicoes :
          (v # w /\ venda[v].status # "AUSENTE" /\ venda[w].status # "AUSENTE")
             => pedido[v].chave = Nenhum \/ pedido[v].chave # pedido[w].chave

\* "Usa a transacao da venda/agenda: o CRM nao pode ficar diferente da
\* operacao confirmada" (cliente-activity.ts): ultimaVisita of a client is
\* never earlier than an appointment of theirs that was concluded.
CrmAcompanhaAtendimento ==
    \A a \in Agendamentos :
        agendamento[a].status = "CONCLUIDO" => cliente[ClienteDe[a]].visita >= DataDe[a]
=============================================================================
