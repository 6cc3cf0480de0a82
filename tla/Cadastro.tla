------------------------------ MODULE Cadastro ------------------------------
(***************************************************************************)
(* The rows that sales (Vendas) and appointments (Atendimento) share: the  *)
(* stock of the central unit (produtos.estoque_atual) and of the branches  *)
(* (saldos_filiais), the movement log, the clients and the appointments,   *)
(* together with the PostgreSQL row locks that order their writers.        *)
(*                                                                         *)
(* Transactions run at READ COMMITTED.  A variable holds the committed     *)
(* version of a row.  A statement that writes a row takes its lock (trava) *)
(* and keeps it until the transaction ends, so the row cannot change while *)
(* it is held; what the transaction wrote becomes visible at its commit,   *)
(* in one step.  A conditional UPDATE whose WHERE fails on the committed   *)
(* version matches no row and does not wait for the lock; one whose WHERE  *)
(* holds waits, and is evaluated again when the lock is free.              *)
(***************************************************************************)
EXTENDS Integers, FiniteSets

CONSTANTS
    Produtos,       \* product ids, naturals in id order (the code sorts by it)
    Filiais,        \* branches
    Central,        \* stands for "no filialId": produtos.estoque_atual
    Clientes,
    Cupons,
    Agendamentos,
    Transacoes,     \* every transaction, of sales and of appointments
    Livre,          \* no transaction holds the lock
    SaldoInicial,   \* [Estantes -> Nat]: stock set at creation, with no movement
    MaxManual,      \* bound on the net of manual movements of a product
    ClienteDe,      \* [Agendamentos -> Clientes]
    DataDe,         \* [Agendamentos -> Nat \ {0}]: agendamento.dataHora
    Servicos,
    ServicoDe,      \* [Agendamentos -> Servicos]
    Insumos,        \* [Servicos -> [Produtos -> Nat]]: what one appointment takes
    Passados        \* appointments whose hour has passed

Locais == Filiais \cup {Central}
Estantes == Locais \X Produtos

ASSUME CadastroAssumption ==
    /\ Produtos \subseteq Nat
    /\ IsFiniteSet(Agendamentos)
    /\ Central \notin Filiais
    /\ Livre \notin Transacoes
    /\ SaldoInicial \in [Estantes -> Nat]
    /\ MaxManual \in Nat
    /\ ClienteDe \in [Agendamentos -> Clientes]
    /\ DataDe \in [Agendamentos -> Nat \ {0}]
    /\ ServicoDe \in [Agendamentos -> Servicos]
    /\ Insumos \in [Servicos -> [Produtos -> Nat]]
    /\ Passados \subseteq Agendamentos

VARIABLES
    ativo,          \* products with produto.ativo
    aberta,         \* branches with filial.ativa
    oferta,         \* services with servico.ativo
    saldo,          \* estoque_atual / saldos_filiais.quantidade
    livro,          \* net of movimentacoes_estoque per unit and product
    manual,         \* the part of livro that came from manual movements
    cliente,        \* [ativo, gasto, visita]; visita = 0 is NULL
    agendamento,    \* [status, pendencias, anuladas]
    consumo,        \* movements that carry the appointment's id
    trava           \* row -> the transaction that holds its lock

cadastro == <<ativo, aberta, oferta, saldo, livro, manual, cliente, agendamento,
              consumo, trava>>

(***************************************************************************)
(* Lockable rows are <<table, key>> pairs.                                 *)
(***************************************************************************)
Empresa == <<"empresa", "unica">>
Estante(l, p) == <<"estoque", <<l, p>>>>
LinhaCliente(c) == <<"cliente", c>>
LinhaCupom(c) == <<"cupom", c>>
LinhaAgenda(a) == <<"agendamento", a>>

Linhas ==
    {Empresa}
    \cup {Estante(l, p) : l \in Locais, p \in Produtos}
    \cup {LinhaCliente(c) : c \in Clientes}
    \cup {LinhaCupom(c) : c \in Cupons}
    \cup {LinhaAgenda(a) : a \in Agendamentos}

Desocupada(r) == trava[r] = Livre
Travar(t, r) == trava' = [trava EXCEPT ![r] = t]
Soltar(t) == trava' = [r \in Linhas |-> IF trava[r] = t THEN Livre ELSE trava[r]]

\* Insumos of the appointment's service.
InsumoDe(a) == Insumos[ServicoDe[a]]

Status == {"AGENDADO", "CONFIRMADO", "CONCLUIDO", "CANCELADO"}

CadastroTypeOK ==
    /\ ativo \subseteq Produtos
    /\ aberta \subseteq Filiais
    /\ oferta \subseteq Servicos
    /\ saldo \in [Estantes -> Int]
    /\ livro \in [Estantes -> Int]
    /\ manual \in [Produtos -> Int]
    /\ agendamento \in [Agendamentos -> [status: Status,
                                         pendencias: SUBSET Produtos,
                                         anuladas: SUBSET Produtos]]
    /\ consumo \in [Agendamentos -> [Produtos -> Nat]]
    /\ trava \in [Linhas -> Transacoes \cup {Livre}]

ClienteTypeOK == cliente \in [Clientes -> [ativo: BOOLEAN, gasto: Nat, visita: Nat]]

CadastroInit ==
    /\ ativo = Produtos
    /\ aberta = Filiais
    /\ oferta = Servicos
    /\ saldo = SaldoInicial
    /\ livro = [e \in Estantes |-> 0]
    /\ manual = [p \in Produtos |-> 0]
    /\ cliente = [c \in Clientes |-> [ativo |-> TRUE, gasto |-> 0, visita |-> 0]]
    /\ agendamento = [a \in Agendamentos |->
                        [status |-> "AGENDADO", pendencias |-> {}, anuladas |-> {}]]
    /\ consumo = [a \in Agendamentos |-> [p \in Produtos |-> 0]]
    /\ trava = [r \in Linhas |-> Livre]

-----------------------------------------------------------------------------
(***************************************************************************)
(* The stock statements.  saidaFilial reads filial.ativa and decrements    *)
(* the branch's balance if it suffices; registrarSaidaTx decrements the    *)
(* central balance of an active product if it suffices; entradaFilial and  *)
(* the increment of a refund have no such condition on product or branch.  *)
(***************************************************************************)
PodeSairSemSaldo(l, p, q) ==    \* mutated form: unconditional decrement
    IF l = Central THEN p \in ativo ELSE l \in aberta

PodeSair(l, p, q) ==
    /\ saldo[<<l, p>>] >= q
    /\ IF l = Central THEN p \in ativo ELSE l \in aberta

\* The balance and the movement log change together by q[e] at every e.
Movimentar(q) ==
    /\ saldo' = [e \in Estantes |-> saldo[e] + q[e]]
    /\ livro' = [e \in Estantes |-> livro[e] + q[e]]

-----------------------------------------------------------------------------
(***************************************************************************)
(* Single-statement transactions of the other screens.  They wait for the  *)
(* row's lock and are visible at once.                                     *)
(***************************************************************************)
\* registrarEntrada / registrarSaida of the stock screen (one unit).
MovimentarManual(p, q) ==
    /\ Desocupada(Estante(Central, p))
    /\ p \in ativo
    /\ q < 0 => PodeSair(Central, p, -q)
    /\ manual[p] + q \in -MaxManual..MaxManual
    /\ manual' = [manual EXCEPT ![p] = @ + q]
    /\ Movimentar([e \in Estantes |-> IF e = <<Central, p>> THEN q ELSE 0])
    /\ UNCHANGED <<ativo, aberta, oferta, cliente, agendamento, consumo, trava>>

\* An insumo of an active service stays active.  The look-up and the update are two
\* statements of the code; they are one step here because what the look-up found stays so:
\* the products of a service are constants and a service is never active again.
DesativarProduto(p) ==
    /\ Desocupada(Estante(Central, p))
    /\ p \in ativo
    /\ \A s \in oferta : Insumos[s][p] = 0
    /\ ativo' = ativo \ {p}
    /\ UNCHANGED <<aberta, oferta, saldo, livro, manual, cliente, agendamento, consumo, trava>>

\* Only appointments still to come keep a service from being deactivated.  The count and the
\* update are one step, because here an appointment never becomes one still to come; module
\* Agenda, where bookings come in between them, has the two statements.
DesativarServico(s) ==
    /\ s \in oferta
    /\ \A a \in Agendamentos \ Passados :
         ServicoDe[a] = s => agendamento[a].status \notin {"AGENDADO", "CONFIRMADO"}
    /\ oferta' = oferta \ {s}
    /\ UNCHANGED <<ativo, aberta, saldo, livro, manual, cliente, agendamento, consumo, trava>>

\* salvarFilial sets filial.ativa either way.
SalvarFilial(f) ==
    /\ aberta' = IF f \in aberta THEN aberta \ {f} ELSE aberta \cup {f}
    /\ UNCHANGED <<ativo, oferta, saldo, livro, manual, cliente, agendamento, consumo, trava>>

DesativarCliente(c) ==
    /\ Desocupada(LinhaCliente(c))
    /\ cliente[c].ativo
    /\ cliente' = [cliente EXCEPT ![c].ativo = FALSE]
    /\ UNCHANGED <<ativo, aberta, oferta, saldo, livro, manual, agendamento, consumo, trava>>

CadastroNext ==
    \/ \E p \in Produtos, q \in {-1, 1} : MovimentarManual(p, q)
    \/ \E p \in Produtos : DesativarProduto(p)
    \/ \E s \in Servicos : DesativarServico(s)
    \/ \E f \in Filiais : SalvarFilial(f)
    \/ \E c \in Clientes : DesativarCliente(c)
=============================================================================
