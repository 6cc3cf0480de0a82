----------------------------- MODULE Financeiro -----------------------------
(***************************************************************************)
(* Accounts payable and receivable (FinanceiroOperacionalService): partial *)
(* payments under a key, their reversal, cancellation; and what a sale     *)
(* does to its account (VendasService.criar opens it, .estornar cancels    *)
(* it).  Every operation computes the new valorPago in memory and writes   *)
(* it, under the lock of the account's row.                                *)
(*                                                                         *)
(* As in module Cadastro, a variable holds the committed rows and what a   *)
(* transaction writes appears at its commit.  Days stand for instants.     *)
(***************************************************************************)
EXTENDS Integers, FiniteSetsExt

CONSTANTS
    Contas,         \* accounts that may come to exist
    DeVenda,        \* those of a sale (vendaId)
    Recebidas,      \* those of a sale received at the counter
    Despesas,       \* those of tipo DESPESA
    Valor,          \* [Contas -> Nat]
    Chaves,         \* BaixaDto.chave
    Chamadas,
    Pedidos,        \* contents a call may carry
    Empresa,        \* the company's row
    Livre,          \* no transaction holds the lock
    Nenhum,
    Horizonte       \* bound on the days

Tipos == {"BAIXAR", "ESTORNAR_BAIXA", "CANCELAR", "ESTORNAR_VENDA"}

Respostas == {"FEITO", "RECUSADO", "CONFLITO", "UNICIDADE", "FALHA"}

\* A sale's own payment has the key "venda:<id>": the account itself here.
Identificacoes == Chaves \cup Contas

ASSUME FinanceiroAssumption ==
    /\ IsFiniteSet(Contas) /\ IsFiniteSet(Chaves)
    /\ DeVenda \subseteq Contas
    /\ Recebidas \subseteq DeVenda
    /\ Despesas \subseteq Contas \ DeVenda
    /\ Chaves \cap Contas = {}
    /\ Valor \in [Contas -> Nat]
    /\ \A c \in Contas \ DeVenda : Valor[c] > 0
    /\ Nenhum \notin Contas \cup Respostas
    /\ Empresa \notin Contas
    /\ Livre \notin Chamadas
    /\ Horizonte \in Nat
    /\ \A d \in Pedidos : /\ d.tipo \in Tipos
                          /\ d.conta \in Contas
                          /\ d.tipo = "ESTORNAR_VENDA" => d.conta \in DeVenda
                          /\ d.tipo = "BAIXAR" => d.chave \in Chaves /\ d.valor \in Nat \ {0}
                          /\ d.tipo = "ESTORNAR_BAIXA" => d.chave \in Identificacoes

VARIABLES
    pedido,         \* what each call asks (never changes)
    conta,          \* lancamentos_financeiros: [status, pago]
    baixa,          \* baixas_financeiras by key: [conta, valor, data, estornada, estornadaEm]
    estornadas,     \* accounts whose sale has status ESTORNADA
    trava,          \* row -> the call that holds its lock
    tx,             \* running calls: [passo, pago, dia]
    resp,           \* what the caller was told
    hoje

vars == <<pedido, conta, baixa, estornadas, trava, tx, resp, hoje>>

Status == {"AUSENTE", "ABERTO", "PARCIAL", "PAGO", "CANCELADO"}
Passos == {"fora", "ler", "escrever", "conta", "gravar", "fim"}
Linhas == Contas \cup {Empresa}

TypeOK ==
    /\ pedido \in [Chamadas -> Pedidos]
    /\ conta \in [Contas -> [status: Status, pago: Nat]]
    /\ baixa \in [Identificacoes -> [conta: Contas \cup {Nenhum}, valor: Nat, data: Nat,
                                     estornada: BOOLEAN, estornadaEm: Nat]]
    /\ estornadas \subseteq DeVenda
    /\ trava \in [Linhas -> Chamadas \cup {Livre}]
    /\ tx \in [Chamadas -> [passo: Passos, pago: Nat, dia: Nat]]
    /\ resp \in [Chamadas -> Respostas \cup {Nenhum}]
    /\ hoje \in Nat

SemBaixa == [conta |-> Nenhum, valor |-> 0, data |-> 0, estornada |-> FALSE, estornadaEm |-> 0]

Init ==
    /\ pedido \in [Chamadas -> Pedidos]
    /\ conta = [c \in Contas |-> [status |-> "AUSENTE", pago |-> 0]]
    /\ baixa = [k \in Identificacoes |-> SemBaixa]
    /\ estornadas = {}
    /\ trava = [r \in Linhas |-> Livre]
    /\ tx = [t \in Chamadas |-> [passo |-> "fora", pago |-> 0, dia |-> 0]]
    /\ resp = [t \in Chamadas |-> Nenhum]
    /\ hoje = 0

-----------------------------------------------------------------------------
Em(t, s) == tx[t].passo = s
Tipo(t, x) == pedido[t].tipo = x
Conta(t) == pedido[t].conta
Existe(c) == conta[c].status # "AUSENTE"
Registrada(k) == baixa[k].conta # Nenhum

\* t goes to step s, with the valorPago it will write and the day it wrote.
Ir(t, s, n, d) == tx' = [tx EXCEPT ![t] = [passo |-> s, pago |-> n, dia |-> d]]

SoTx == UNCHANGED <<pedido, conta, baixa, estornadas, trava, resp, hoje>>

\* The transaction of t ends with answer x; its locks go.
Sair(t, x) ==
    /\ tx' = [tx EXCEPT ![t].passo = "fim"]
    /\ trava' = [r \in Linhas |-> IF trava[r] = t THEN Livre ELSE trava[r]]
    /\ resp' = [resp EXCEPT ![t] = x]

Encerrar(t, x) == Sair(t, x) /\ UNCHANGED <<pedido, conta, baixa, estornadas, hoje>>

TravarLinha(t, r, s) ==
    /\ trava[r] = Livre
    /\ trava' = [trava EXCEPT ![r] = t]
    /\ Ir(t, s, 0, 0)
    /\ UNCHANGED <<pedido, conta, baixa, estornadas, resp, hoje>>

BloquearSemTrava(t) ==    \* mutated form: no FOR UPDATE
    /\ Em(t, "fora")
    /\ Ir(t, "ler", 0, 0)
    /\ SoTx

\* SELECT ... FOR UPDATE of the account; a refund locks the company instead.
Bloquear(t) ==
    /\ Em(t, "fora")
    /\ TravarLinha(t, IF Tipo(t, "ESTORNAR_VENDA") THEN Empresa ELSE Conta(t), "ler")

-----------------------------------------------------------------------------
MesmaConta(t) ==    \* mutated form: the value is not compared
    baixa[pedido[t].chave].conta = Conta(t)

MesmaBaixa(t) ==
    /\ baixa[pedido[t].chave].conta = Conta(t)
    /\ baixa[pedido[t].chave].valor = pedido[t].valor

\* baixar: a key already used answers the account, or a conflict.
LerBaixar(t) ==
    LET c == conta[Conta(t)] IN
    /\ Em(t, "ler")
    /\ Tipo(t, "BAIXAR")
    /\ IF Existe(Conta(t)) /\ Registrada(pedido[t].chave)
       THEN Encerrar(t, IF MesmaBaixa(t) THEN "FEITO" ELSE "CONFLITO")
       ELSE IF /\ c.status \notin {"AUSENTE", "CANCELADO"}
               /\ c.pago + pedido[t].valor <= Valor[Conta(t)]
            THEN /\ Ir(t, "escrever", c.pago + pedido[t].valor, 0)
                 /\ SoTx
            ELSE Encerrar(t, "RECUSADO")

\* baixaFinanceira.create: its unique index waits for another transaction
\* that inserted the same key.
CriarBaixa(t) ==
    /\ Em(t, "escrever")
    /\ Tipo(t, "BAIXAR")
    /\ \A u \in Chamadas : Em(u, "gravar") /\ Tipo(u, "BAIXAR") => pedido[u].chave # pedido[t].chave
    /\ IF Registrada(pedido[t].chave)
       THEN Encerrar(t, "UNICIDADE")
       ELSE /\ Ir(t, "gravar", tx[t].pago, hoje)
            /\ SoTx

ConfirmarBaixa(t) ==
    /\ Em(t, "gravar")
    /\ Tipo(t, "BAIXAR")
    /\ baixa' = [baixa EXCEPT ![pedido[t].chave] =
                   [SemBaixa EXCEPT !.conta = Conta(t), !.valor = pedido[t].valor,
                                    !.data = tx[t].dia]]
    /\ conta' = [conta EXCEPT ![Conta(t)] =
                   [status |-> IF tx[t].pago = Valor[Conta(t)] THEN "PAGO" ELSE "PARCIAL",
                    pago |-> tx[t].pago]]
    /\ Sair(t, "FEITO")
    /\ UNCHANGED <<pedido, estornadas, hoje>>

-----------------------------------------------------------------------------
\* estornarBaixa: reversing twice answers the account.
LerEstornarBaixa(t) ==
    LET c == conta[Conta(t)]
        b == baixa[pedido[t].chave]
    IN
    /\ Em(t, "ler")
    /\ Tipo(t, "ESTORNAR_BAIXA")
    /\ IF b.conta = Conta(t) /\ b.estornada
       THEN Encerrar(t, "FEITO")
       ELSE IF b.conta = Conta(t) /\ c.status # "CANCELADO" /\ b.valor <= c.pago
            THEN /\ Ir(t, "escrever", c.pago - b.valor, 0)
                 /\ SoTx
            ELSE Encerrar(t, "RECUSADO")

EscreverEstorno(t) ==
    /\ Em(t, "escrever")
    /\ Tipo(t, "ESTORNAR_BAIXA")
    /\ Ir(t, "gravar", tx[t].pago, hoje)
    /\ SoTx

EstornadaNaData(b, d) ==    \* mutated form: reversed on the day it was paid
    IF b.estornada THEN b ELSE [b EXCEPT !.estornada = TRUE, !.estornadaEm = b.data]

Estornada(b, d) ==
    IF b.estornada THEN b ELSE [b EXCEPT !.estornada = TRUE, !.estornadaEm = d]

ConfirmarEstornoBaixa(t) ==
    /\ Em(t, "gravar")
    /\ Tipo(t, "ESTORNAR_BAIXA")
    /\ baixa' = [baixa EXCEPT ![pedido[t].chave] = Estornada(@, tx[t].dia)]
    /\ conta' = [conta EXCEPT ![Conta(t)] =
                   [status |-> IF tx[t].pago = 0 THEN "ABERTO" ELSE "PARCIAL",
                    pago |-> tx[t].pago]]
    /\ Sair(t, "FEITO")
    /\ UNCHANGED <<pedido, estornadas, hoje>>

-----------------------------------------------------------------------------
CancelavelDeVenda(c) ==    \* mutated form: also the account of a sale
    Existe(c) /\ conta[c].pago = 0

Cancelavel(c) == Existe(c) /\ c \notin DeVenda /\ conta[c].pago = 0

\* cancelar
LerCancelar(t) ==
    /\ Em(t, "ler")
    /\ Tipo(t, "CANCELAR")
    /\ IF Cancelavel(Conta(t))
       THEN /\ Ir(t, "gravar", 0, 0)
            /\ SoTx
       ELSE Encerrar(t, "RECUSADO")

ConfirmarCancelar(t) ==
    /\ Em(t, "gravar")
    /\ Tipo(t, "CANCELAR")
    /\ conta' = [conta EXCEPT ![Conta(t)].status = "CANCELADO"]
    /\ Sair(t, "FEITO")
    /\ UNCHANGED <<pedido, baixa, estornadas, hoje>>

-----------------------------------------------------------------------------
\* VendasService.estornar: the state of the sale, under the company's lock.
LerEstornarVenda(t) ==
    /\ Em(t, "ler")
    /\ Tipo(t, "ESTORNAR_VENDA")
    /\ IF ~Existe(Conta(t)) THEN Encerrar(t, "RECUSADO")
       ELSE IF Conta(t) \in estornadas THEN Encerrar(t, "FEITO")
       ELSE Ir(t, "conta", 0, 0) /\ SoTx

\* Its UPDATE of the account waits for whoever holds the row.
EstornarConta(t) == Em(t, "conta") /\ TravarLinha(t, Conta(t), "escrever")

\* Its UPDATE of the payments that stand.
EstornarBaixas(t) ==
    /\ Em(t, "escrever")
    /\ Tipo(t, "ESTORNAR_VENDA")
    /\ Ir(t, "gravar", 0, hoje)
    /\ SoTx

ConfirmarEstornoVenda(t) ==
    /\ Em(t, "gravar")
    /\ Tipo(t, "ESTORNAR_VENDA")
    /\ estornadas' = estornadas \cup {Conta(t)}
    /\ conta' = [conta EXCEPT ![Conta(t)] = [status |-> "CANCELADO", pago |-> 0]]
    /\ baixa' = [k \in Identificacoes |->
                   IF baixa[k].conta = Conta(t) THEN Estornada(baixa[k], tx[t].dia) ELSE baixa[k]]
    /\ Sair(t, "FEITO")
    /\ UNCHANGED <<pedido, hoje>>

-----------------------------------------------------------------------------
\* The transaction ends before its commit: stop, lost connection, timeout.
Abortar(t) ==
    /\ tx[t].passo \notin {"fora", "fim"}
    /\ Encerrar(t, "FALHA")

\* FinanceiroOperacionalService.criar, or the account of a sale that commits.
AbrirConta(c) ==
    /\ ~Existe(c)
    /\ conta' = [conta EXCEPT ![c] =
                   [status |-> IF c \in Recebidas \/ Valor[c] = 0 THEN "PAGO" ELSE "ABERTO",
                    pago |-> IF c \in Recebidas THEN Valor[c] ELSE 0]]
    /\ baixa' = IF c \in Recebidas /\ Valor[c] # 0
                THEN [baixa EXCEPT ![c] = [SemBaixa EXCEPT !.conta = c, !.valor = Valor[c],
                                                           !.data = hoje]]
                ELSE baixa
    /\ UNCHANGED <<pedido, estornadas, trava, tx, resp, hoje>>

Virar ==
    /\ hoje < Horizonte
    /\ hoje' = hoje + 1
    /\ UNCHANGED <<pedido, conta, baixa, estornadas, trava, tx, resp>>

Chamar(t) ==
    \/ Bloquear(t) \/ Abortar(t)
    \/ LerBaixar(t) \/ CriarBaixa(t) \/ ConfirmarBaixa(t)
    \/ LerEstornarBaixa(t) \/ EscreverEstorno(t) \/ ConfirmarEstornoBaixa(t)
    \/ LerCancelar(t) \/ ConfirmarCancelar(t)
    \/ LerEstornarVenda(t) \/ EstornarConta(t) \/ EstornarBaixas(t) \/ ConfirmarEstornoVenda(t)

Next ==
    \/ \E t \in Chamadas : Chamar(t)
    \/ \E c \in Contas : AbrirConta(c)
    \/ Virar

Spec == Init /\ [][Next]_vars

-----------------------------------------------------------------------------
\* What the payment k counts in what account c was paid.
Parte(c, k) == IF baixa[k].conta = c /\ ~baixa[k].estornada THEN baixa[k].valor ELSE 0

\* valorPago of an account, which every operation computes from what it read
\* and overwrites, is the sum of its payments that stand: none is lost by two
\* operations at once, none is counted after it was reversed.
PagoConfere ==
    \A c \in Contas : conta[c].pago = SumFunction([k \in Identificacoes |-> Parte(c, k)])

StatusDe(c) ==
    IF conta[c].pago = Valor[c] THEN "PAGO" ELSE IF conta[c].pago = 0 THEN "ABERTO" ELSE "PARCIAL"

\* The status says what was paid, never more than the value; the account of a
\* sale is cancelled when the sale is refunded and only then, and a cancelled
\* account has nothing paid.
ContaCoerente ==
    \A c \in Contas : Existe(c) =>
        /\ conta[c].pago <= Valor[c]
        /\ IF conta[c].status = "CANCELADO" THEN conta[c].pago = 0
                                            ELSE conta[c].status = StatusDe(c)
        /\ c \in DeVenda => (conta[c].status = "CANCELADO" <=> c \in estornadas)

\* A payment repeated with its key is answered by its account: only the key
\* of another account's payment meets the unique index, and "done" is said of
\* the payment that was asked for.
RepeticaoRecupera ==
    \A t \in Chamadas : Tipo(t, "BAIXAR") =>
        LET b == baixa[pedido[t].chave] IN
        /\ resp[t] = "UNICIDADE" => b.conta # Conta(t)
        /\ resp[t] = "FEITO" => b.conta = Conta(t) /\ b.valor = pedido[t].valor

Sinal(b) == IF b.conta \in Despesas THEN -b.valor ELSE b.valor

\* What a payment moves on day d: it counts when paid, and goes out when reversed.
NoDia(b, d) ==
    (IF b.conta # Nenhum /\ b.data = d THEN Sinal(b) ELSE 0)
    - (IF b.estornada /\ b.estornadaEm = d THEN Sinal(b) ELSE 0)

\* resumo / fluxoCaixa: cash of a day; a reversal goes out on its own day.
CaixaDe(d) == SumFunction([k \in Identificacoes |-> NoDia(baixa[k], d)])

\* The cash of a day that is over never changes, once the transactions that
\* wrote on that day have ended, and a refund of an old sale is today's.
CaixaFechado ==
    [][\A d \in 0..Horizonte :
         (d < hoje /\ \A t \in Chamadas : Em(t, "gravar") => tx[t].dia # d)
            => CaixaDe(d)' = CaixaDe(d)]_vars
=============================================================================
