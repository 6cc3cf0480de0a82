------------------------------- MODULE Vendas -------------------------------
(***************************************************************************)
(* VendasService: criar (the sale) and estornar (its refund), statement by *)
(* statement, with the coupon screen that runs beside them.  A sale takes  *)
(* the company's row first, so sales and refunds of a company exclude one  *)
(* another; stock, coupon and client rows are shared with writers that do  *)
(* not take it.                                                            *)
(*                                                                         *)
(* Every request r is one HTTP call of criar; the sale it creates has r's  *)
(* id.  A retry of the same call is another request with the same content. *)
(***************************************************************************)
EXTENDS Cadastro, FiniteSetsExt

CONSTANTS
    Requisicoes,    \* calls of criar
    Estornos,       \* calls of estornar
    Pedidos,        \* contents a call may carry, chaveOperacao included
    Nenhum,         \* no client, no coupon, no key, no answer yet
    Limites,        \* values the coupon screen gives to usoMaximo
    UsoMaximo       \* usoMaximo at the start

Recusas == {"RECUSADA", "CONFLITO", "UNICIDADE", "FALHA"}

ASSUME VendasAssumption ==
    /\ IsFiniteSet(Requisicoes)
    /\ Requisicoes \cap Estornos = {}
    /\ Requisicoes \cup Estornos \subseteq Transacoes
    /\ Nenhum \notin Requisicoes \cup Clientes \cup Cupons \cup Recusas
    /\ Recusas \cap Requisicoes = {}
    /\ \A d \in Pedidos :
         /\ d.itens \in [Produtos -> Nat]
         /\ \E p \in Produtos : d.itens[p] > 0
         /\ d.local \in Locais
         /\ d.cliente \in Clientes \cup {Nenhum}
         /\ d.cupom \in Cupons \cup {Nenhum}
         /\ d.total \in Nat
    /\ Limites \subseteq Nat
    /\ UsoMaximo \in Nat

VARIABLES
    pedido,         \* what each request asks (never changes)
    alvo,           \* the sale each refund names (never changes)
    venda,          \* the committed sale rows: [status, cupom, em]
    cupom,          \* [existe, valido, uso, max]; valido: ativo and not expired
    relogio,        \* orders createdAt
    txv,            \* the running transactions: [passo, feitos, uso, em]
    lida,           \* what a refund read of its client: [gasto, visita]
    resp            \* what the caller was told

vendas == <<pedido, alvo, venda, cupom, relogio, txv, lida, resp>>

VendaTx == Requisicoes \cup Estornos
Passos == {"fora", "abrir", "validar", "itens", "cupom", "ler", "cliente",
           "commit", "fim"}

VendasTypeOK ==
    /\ pedido \in [Requisicoes -> Pedidos]
    /\ alvo \in [Estornos -> Requisicoes]
    /\ venda \in [Requisicoes -> [status: {"AUSENTE", "CONCLUIDA", "ESTORNADA"},
                                  cupom: Cupons \cup {Nenhum}, em: Nat]]
    /\ cupom \in [Cupons -> [existe: BOOLEAN, valido: BOOLEAN, uso: Int, max: Nat]]
    /\ relogio \in Nat \ {0}
    /\ txv \in [VendaTx -> [passo: Passos, feitos: SUBSET Produtos, uso: Int,
                            em: Nat]]
    /\ resp \in [VendaTx -> Requisicoes \cup Recusas \cup {Nenhum}]

LidaTypeOK == lida \in [Estornos -> [gasto: Nat, visita: Nat]]

VendasInit ==
    /\ pedido \in [Requisicoes -> Pedidos]
    /\ alvo \in [Estornos -> Requisicoes]
    /\ venda = [r \in Requisicoes |->
                  [status |-> "AUSENTE", cupom |-> Nenhum, em |-> 0]]
    /\ cupom = [c \in Cupons |->
                  [existe |-> TRUE, valido |-> TRUE, uso |-> 0, max |-> UsoMaximo]]
    /\ relogio = 1
    /\ txv = [t \in VendaTx |-> [passo |-> IF t \in Requisicoes THEN "fora" ELSE "abrir",
                                 feitos |-> {}, uso |-> 0, em |-> 0]]
    /\ lida = [t \in Estornos |-> [gasto |-> 0, visita |-> 0]]
    /\ resp = [t \in VendaTx |-> Nenhum]

-----------------------------------------------------------------------------
Em(t, s) == txv[t].passo = s
Ir(t, s) == txv' = [txv EXCEPT ![t].passo = s]

\* The request whose sale transaction t works on, and its content.
VendaDe(t) == IF t \in Requisicoes THEN t ELSE alvo[t]
Conteudo(t) == pedido[VendaDe(t)]
ProdutosDe(t) == {p \in Produtos : Conteudo(t).itens[p] > 0}
LinhaItem(t, p) == Estante(Conteudo(t).local, p)

\* The transaction ends with answer x; its locks go and nothing is written.
Encerrar(t, x) ==
    /\ Ir(t, "fim")
    /\ resp' = [resp EXCEPT ![t] = x]
    /\ Soltar(t)
    /\ UNCHANGED <<ativo, aberta, oferta, saldo, livro, manual, cliente, agendamento, consumo,
                   pedido, alvo, venda, cupom, relogio, lida>>

\* A statement of t locks row r and the transaction goes to step s.
Escrever(t, r, s) ==
    /\ Travar(t, r)
    /\ Ir(t, s)
    /\ UNCHANGED <<ativo, aberta, oferta, saldo, livro, manual, cliente, agendamento, consumo,
                   pedido, alvo, venda, cupom, relogio, lida, resp>>

\* Committed sales with t's chaveOperacao.
Anterior(t) ==
    {v \in Requisicoes : /\ venda[v].status # "AUSENTE"
                         /\ pedido[v].chave # Nenhum
                         /\ pedido[v].chave = pedido[t].chave}

MesmoClienteEUnidade(v, t) ==    \* mutated form: a hash that forgets items and coupon
    pedido[v].cliente = pedido[t].cliente /\ pedido[v].local = pedido[t].local

\* requisicaoHash covers the whole content.
MesmoConteudo(v, t) == pedido[v] = pedido[t]

\* A repeated key answers the earlier sale, or a conflict if the content differs.
Repetir(t) ==
    \E v \in Anterior(t) : Encerrar(t, IF MesmoConteudo(v, t) THEN v ELSE "CONFLITO")

-----------------------------------------------------------------------------
(***************************************************************************)
(* criar                                                                   *)
(***************************************************************************)
\* The look-up of the key before the transaction starts.
ConsultarChave(t) ==
    /\ Em(t, "fora")
    /\ \/ Repetir(t)
       \/ /\ Anterior(t) = {}
          /\ Ir(t, "abrir")
          /\ UNCHANGED <<cadastro, pedido, alvo, venda, cupom, relogio, lida, resp>>

NuncaVendida(t) == FALSE    \* mutated form: no second look-up

\* The key is looked up again under the company's lock.
JaVendida(t) == Anterior(t) # {}

AbrirVenda(t) ==
    /\ t \in Requisicoes
    /\ Em(t, "abrir")
    /\ Desocupada(Empresa)
    /\ IF JaVendida(t) THEN Repetir(t) ELSE Escrever(t, Empresa, "validar")

CupomAceita(c) ==
    /\ cupom[c].existe
    /\ cupom[c].valido
    /\ cupom[c].uso < cupom[c].max

\* Reads of client, coupon and products; all three are checked again by the
\* conditional UPDATE of the row.  A branch's balance is not looked at here.
Aceitavel(t) ==
    LET d == pedido[t] IN
    /\ d.cliente # Nenhum => cliente[d.cliente].ativo
    /\ d.cupom # Nenhum => CupomAceita(d.cupom)
    /\ ProdutosDe(t) \subseteq ativo
    /\ d.local = Central => \A p \in Produtos : saldo[<<Central, p>>] >= d.itens[p]

\* ... and venda.create, under the unique index on (empresaId, chaveOperacao).
ValidarVenda(t) ==
    /\ t \in Requisicoes
    /\ Em(t, "validar")
    /\ \/ ~Aceitavel(t) /\ Encerrar(t, "RECUSADA")
       \/ Aceitavel(t) /\ Anterior(t) # {} /\ Encerrar(t, "UNICIDADE")
       \/ /\ Aceitavel(t)
          /\ Anterior(t) = {}
          /\ txv' = [txv EXCEPT ![t].passo = "itens", ![t].em = relogio,
                                ![t].uso = IF pedido[t].cupom = Nenhum THEN 0
                                           ELSE cupom[pedido[t].cupom].uso]
          /\ relogio' = relogio + 1
          /\ UNCHANGED <<cadastro, pedido, alvo, venda, cupom, lida, resp>>

\* The item whose turn it is: the loop goes through the products in id order.
Proximo(t, p) ==
    /\ p \in ProdutosDe(t) \ txv[t].feitos
    /\ \A o \in ProdutosDe(t) \ txv[t].feitos : p <= o

AposCliente(t) == IF pedido[t].cliente # Nenhum THEN "cliente" ELSE "commit"
AposItens(t) == IF pedido[t].cupom # Nenhum THEN "cupom" ELSE AposCliente(t)

Item(t, p, s) ==
    /\ Desocupada(LinhaItem(t, p))
    /\ Travar(t, LinhaItem(t, p))
    /\ txv' = [txv EXCEPT ![t].feitos = @ \cup {p},
                          ![t].passo = IF ProdutosDe(t) \ txv[t].feitos = {p} THEN s ELSE "itens"]
    /\ UNCHANGED <<ativo, aberta, oferta, saldo, livro, manual, cliente, agendamento, consumo,
                   pedido, alvo, venda, cupom, relogio, lida, resp>>

\* saidaFilial or registrarSaidaTx of one item.
SairItem(t) ==
    /\ t \in Requisicoes
    /\ Em(t, "itens")
    /\ \E p \in Produtos :
         /\ Proximo(t, p)
         /\ IF PodeSair(pedido[t].local, p, pedido[t].itens[p])
            THEN Item(t, p, AposItens(t))
            ELSE Encerrar(t, "RECUSADA")

\* Compare-and-set on usoAtual.
CupomIntacto(t) ==
    LET c == cupom[pedido[t].cupom] IN c.existe /\ c.valido /\ c.uso = txv[t].uso

UsarCupom(t) ==
    /\ t \in Requisicoes
    /\ Em(t, "cupom")
    /\ IF CupomIntacto(t)
       THEN /\ Desocupada(LinhaCupom(pedido[t].cupom))
            /\ Escrever(t, LinhaCupom(pedido[t].cupom), AposCliente(t))
       ELSE Encerrar(t, "CONFLITO")

\* registrarCompraClienteTx: the client must still be active.
ComprarCliente(t) ==
    /\ t \in Requisicoes
    /\ Em(t, "cliente")
    /\ IF cliente[pedido[t].cliente].ativo
       THEN /\ Desocupada(LinhaCliente(pedido[t].cliente))
            /\ Escrever(t, LinhaCliente(pedido[t].cliente), "commit")
       ELSE Encerrar(t, "CONFLITO")

Maior(a, b) == IF a > b THEN a ELSE b

\* registrarCompraClienteTx adds the total and, through
\* registrarVisitaClienteTx, moves ultimaVisita forward only.
ClienteAposCompra(t) ==
    LET c == pedido[t].cliente IN
    IF c = Nenhum THEN cliente
    ELSE [cliente EXCEPT ![c].gasto = @ + pedido[t].total,
                         ![c].visita = Maior(@, txv[t].em)]

\* Everything the sale took out of its unit.
Retirada(t) ==
    [e \in Estantes |-> IF e[1] = pedido[t].local /\ e[2] \in txv[t].feitos
                        THEN -pedido[t].itens[e[2]] ELSE 0]

ConfirmarVenda(t) ==
    /\ t \in Requisicoes
    /\ Em(t, "commit")
    /\ venda' = [venda EXCEPT ![t] = [status |-> "CONCLUIDA", cupom |-> pedido[t].cupom,
                                      em |-> txv[t].em]]
    /\ Movimentar(Retirada(t))
    /\ cupom' = [c \in Cupons |-> IF c = pedido[t].cupom
                                  THEN [cupom[c] EXCEPT !.uso = @ + 1] ELSE cupom[c]]
    /\ cliente' = ClienteAposCompra(t)
    /\ Ir(t, "fim")
    /\ resp' = [resp EXCEPT ![t] = t]
    /\ Soltar(t)
    /\ UNCHANGED <<ativo, aberta, oferta, manual, agendamento, consumo, pedido, alvo, relogio, lida>>

-----------------------------------------------------------------------------
(***************************************************************************)
(* estornar                                                                *)
(***************************************************************************)
PodeEstornarDeNovo(v) == venda[v].status # "AUSENTE"    \* mutated form: ESTORNADA not checked

\* A sale is refunded once: a second call finds ESTORNADA and returns it.
PodeEstornar(v) == venda[v].status = "CONCLUIDA"

AbrirEstorno(t) ==
    /\ t \in Estornos
    /\ Em(t, "abrir")
    /\ Desocupada(Empresa)
    /\ IF PodeEstornar(alvo[t])
       THEN Escrever(t, Empresa, "itens")
       ELSE Encerrar(t, IF venda[alvo[t]].status = "AUSENTE" THEN "RECUSADA" ELSE alvo[t])

AposCupom(t) == IF Conteudo(t).cliente # Nenhum THEN "ler" ELSE "commit"

\* entradaFilial, or the increment of an active or inactive product.
DevolverItem(t) ==
    /\ t \in Estornos
    /\ Em(t, "itens")
    /\ \E p \in Produtos :
         /\ Proximo(t, p)
         /\ Item(t, p, IF venda[alvo[t]].cupom # Nenhum THEN "cupom" ELSE AposCupom(t))

\* usoAtual is decremented only while positive.
DevolverCupom(t) ==
    /\ t \in Estornos
    /\ Em(t, "cupom")
    /\ LET c == venda[alvo[t]].cupom IN
       IF cupom[c].uso > 0
       THEN Desocupada(LinhaCupom(c)) /\ Escrever(t, LinhaCupom(c), AposCupom(t))
       ELSE Ir(t, AposCupom(t)) /\ UNCHANGED <<cadastro, pedido, alvo, venda, cupom, relogio, lida, resp>>

OutrasComComprasEstornadas(t) ==    \* mutated form: the aggregate forgets the status
    {v \in Requisicoes \ {alvo[t]} : /\ venda[v].status # "AUSENTE"
                                     /\ pedido[v].cliente = Conteudo(t).cliente}

\* Sales of the same client that stay CONCLUIDA.
OutrasCompras(t) ==
    {v \in Requisicoes \ {alvo[t]} : /\ venda[v].status = "CONCLUIDA"
                                     /\ pedido[v].cliente = Conteudo(t).cliente}

Visitas(c) ==
    {DataDe[a] : a \in {b \in Agendamentos : /\ ClienteDe[b] = c
                                             /\ agendamento[b].status = "CONCLUIDO"}}

UltimaAtividadeSemGuarda(t) ==    \* mutated form: Math.max() of no date
    Max({-1} \cup {venda[v].em : v \in OutrasCompras(t)} \cup Visitas(Conteudo(t).cliente))

\* The latest of the last sale and the last visit, or NULL.
UltimaAtividade(t) ==
    Max({0} \cup {venda[v].em : v \in OutrasCompras(t)} \cup Visitas(Conteudo(t).cliente))

\* The three reads of the aggregates, before the client's row is locked.
LerAtividade(t) ==
    /\ t \in Estornos
    /\ Em(t, "ler")
    /\ lida' = [lida EXCEPT ![t] =
         [gasto |-> SumFunction([v \in OutrasCompras(t) |-> pedido[v].total]),
          visita |-> UltimaAtividade(t)]]
    /\ Ir(t, "cliente")
    /\ UNCHANGED <<cadastro, pedido, alvo, venda, cupom, relogio, resp>>

\* UPDATE of the client, active or not.
GravarCliente(t) ==
    /\ t \in Estornos
    /\ Em(t, "cliente")
    /\ Desocupada(LinhaCliente(Conteudo(t).cliente))
    /\ Escrever(t, LinhaCliente(Conteudo(t).cliente), "commit")

Devolucao(t) ==
    [e \in Estantes |-> IF e[1] = Conteudo(t).local /\ e[2] \in txv[t].feitos
                        THEN Conteudo(t).itens[e[2]] ELSE 0]

CupomEsquecido(t) == cupom    \* mutated form: the refund keeps the use

CupomAposEstorno(t) ==
    [c \in Cupons |-> IF trava[LinhaCupom(c)] = t
                      THEN [cupom[c] EXCEPT !.uso = @ - 1] ELSE cupom[c]]

ClienteAposEstorno(t) ==
    LET c == Conteudo(t).cliente IN
    IF c = Nenhum THEN cliente
    ELSE [cliente EXCEPT ![c].gasto = lida[t].gasto, ![c].visita = lida[t].visita]

ConfirmarEstorno(t) ==
    /\ t \in Estornos
    /\ Em(t, "commit")
    /\ venda' = [venda EXCEPT ![alvo[t]].status = "ESTORNADA"]
    /\ Movimentar(Devolucao(t))
    /\ cupom' = CupomAposEstorno(t)
    /\ cliente' = ClienteAposEstorno(t)
    /\ Ir(t, "fim")
    /\ resp' = [resp EXCEPT ![t] = alvo[t]]
    /\ Soltar(t)
    /\ UNCHANGED <<ativo, aberta, oferta, manual, agendamento, consumo, pedido, alvo, relogio, lida>>

-----------------------------------------------------------------------------
(***************************************************************************)
(* A running transaction may end at any step: the process stops, the       *)
(* connection is lost, the transaction times out, or PostgreSQL chooses it *)
(* as the victim of a deadlock.  Nothing it wrote stays.                   *)
(***************************************************************************)
Abortar(t) ==
    /\ txv[t].passo \notin {"fora", "fim"}
    /\ Encerrar(t, "FALHA")

\* A running transaction whose sale row refers to coupon c keeps its row from
\* being deleted: a sale by the foreign key, a refund by its lock on the sale.
Referenciado(c) ==
    \E t \in VendaTx :
        /\ txv[t].passo \notin {"fora", "abrir", "validar", "fim"}
        /\ c = IF t \in Requisicoes THEN pedido[t].cupom ELSE venda[alvo[t]].cupom

\* CuponsService.atualizar: any of usoMaximo, ativo and validade.
AtualizarCupom(c) ==
    /\ Desocupada(LinhaCupom(c))
    /\ cupom[c].existe
    /\ \E v \in BOOLEAN, m \in Limites :
         cupom' = [cupom EXCEPT ![c].valido = v, ![c].max = m]
    /\ UNCHANGED <<cadastro, pedido, alvo, venda, relogio, txv, lida, resp>>

\* CuponsService.excluir; the sales that used it lose the reference (SetNull).
ExcluirCupom(c) ==
    /\ Desocupada(LinhaCupom(c))
    /\ ~Referenciado(c)
    /\ cupom[c].existe
    /\ cupom' = [cupom EXCEPT ![c].existe = FALSE]
    /\ venda' = [v \in Requisicoes |-> IF venda[v].cupom = c
                                       THEN [venda[v] EXCEPT !.cupom = Nenhum] ELSE venda[v]]
    /\ UNCHANGED <<cadastro, pedido, alvo, relogio, txv, lida, resp>>

VendasNext ==
    \/ \E t \in Requisicoes :
         \/ ConsultarChave(t) \/ AbrirVenda(t) \/ ValidarVenda(t) \/ SairItem(t)
         \/ UsarCupom(t) \/ ComprarCliente(t) \/ ConfirmarVenda(t)
    \/ \E t \in Estornos :
         \/ AbrirEstorno(t) \/ DevolverItem(t) \/ DevolverCupom(t)
         \/ LerAtividade(t) \/ GravarCliente(t) \/ ConfirmarEstorno(t)
    \/ \E t \in VendaTx : Abortar(t)
    \/ \E c \in Cupons : AtualizarCupom(c) \/ ExcluirCupom(c)
=============================================================================
