----------------------------- MODULE Atendimento -----------------------------
(***************************************************************************)
(* AgendamentosService.atualizarStatus and EstoqueIntegracaoService: the   *)
(* status of an appointment, the stock its conclusion consumes, and the    *)
(* shortages (pendenciasEstoque) that are later reprocessed or cancelled.  *)
(* None of these transactions takes the company's row.                     *)
(***************************************************************************)
EXTENDS Cadastro

CONSTANTS
    Chamadas,       \* HTTP calls on appointments
    Operacoes       \* what a call may ask: [tipo, alvo, para]

Tipos == {"STATUS", "REPROCESSAR", "ANULAR"}

ASSUME AtendimentoAssumption ==
    /\ Chamadas \subseteq Transacoes
    /\ Operacoes \subseteq [tipo: Tipos, alvo: Agendamentos, para: Status]

VARIABLES
    oper,           \* what each call asks (never changes)
    txa             \* [passo, lido, itens, feitos, faltas]

atendimento == <<oper, txa>>

PassosA == {"fora", "cas", "bloquear", "visita", "itens", "commit", "fim"}

AtendimentoTypeOK ==
    /\ oper \in [Chamadas -> Operacoes]
    /\ txa \in [Chamadas -> [passo: PassosA, lido: Status, itens: SUBSET Produtos,
                             feitos: SUBSET Produtos, faltas: SUBSET Produtos]]

AtendimentoInit ==
    /\ oper \in [Chamadas -> Operacoes]
    /\ txa = [t \in Chamadas |->
                [passo |-> IF oper[t].tipo = "STATUS" THEN "fora" ELSE "bloquear",
                 lido |-> "AGENDADO", itens |-> {}, feitos |-> {}, faltas |-> {}]]

-----------------------------------------------------------------------------
EmA(t, s) == txa[t].passo = s
Alvo(t) == oper[t].alvo
Conclui(t) == oper[t].tipo = "STATUS" /\ oper[t].para = "CONCLUIDO"
InsumosDe(a) == {p \in Produtos : InsumoDe(a)[p] > 0}

EncerrarA(t) ==
    /\ txa' = [txa EXCEPT ![t].passo = "fim"]
    /\ Soltar(t)
    /\ UNCHANGED <<ativo, aberta, oferta, saldo, livro, manual, cliente, agendamento, consumo, oper>>

TRANSICOES ==
    [AGENDADO   |-> {"CONFIRMADO", "CONCLUIDO", "CANCELADO"},
     CONFIRMADO |-> {"CONCLUIDO", "CANCELADO"},
     CONCLUIDO  |-> {},
     CANCELADO  |-> {}]

\* obter, before the transaction; a transition that is not allowed is refused.
LerAgendamento(t) ==
    /\ EmA(t, "fora")
    /\ IF oper[t].para \in TRANSICOES[agendamento[Alvo(t)].status]
       THEN /\ txa' = [txa EXCEPT ![t].passo = "cas",
                                  ![t].lido = agendamento[Alvo(t)].status]
            /\ UNCHANGED <<cadastro, oper>>
       ELSE EncerrarA(t)

StatusIgnorado(t) == TRUE    \* mutated form: UPDATE by id only

\* Compare-and-set on the status read outside the transaction.
StatusIntacto(t) == agendamento[Alvo(t)].status = txa[t].lido

MudarStatus(t) ==
    /\ EmA(t, "cas")
    /\ IF StatusIntacto(t)
       THEN /\ Desocupada(LinhaAgenda(Alvo(t)))
            /\ Travar(t, LinhaAgenda(Alvo(t)))
            /\ txa' = [txa EXCEPT ![t].passo = IF Conclui(t) THEN "visita" ELSE "commit",
                                  ![t].itens = IF Conclui(t) THEN InsumosDe(Alvo(t)) ELSE {}]
            /\ UNCHANGED <<ativo, aberta, oferta, saldo, livro, manual, cliente, agendamento,
                           consumo, oper>>
       ELSE EncerrarA(t)

AposVisita(itens) == IF itens = {} THEN "commit" ELSE "itens"

\* registrarVisitaClienteTx: no row matches when ultimaVisita is not earlier.
RegistrarVisita(t) ==
    LET c == ClienteDe[Alvo(t)] IN
    /\ EmA(t, "visita")
    /\ IF cliente[c].visita < DataDe[Alvo(t)]
       THEN Desocupada(LinhaCliente(c)) /\ Travar(t, LinhaCliente(c))
       ELSE UNCHANGED trava
    /\ txa' = [txa EXCEPT ![t].passo = AposVisita(txa[t].itens)]
    /\ UNCHANGED <<ativo, aberta, oferta, saldo, livro, manual, cliente, agendamento, consumo, oper>>

\* bloquearTx: the UPDATE takes the row's lock; only a concluded appointment
\* has shortages.  cancelar with none of them changes nothing.
Bloquear(t) ==
    /\ EmA(t, "bloquear")
    /\ IF agendamento[Alvo(t)].status = "CONCLUIDO"
       THEN /\ Desocupada(LinhaAgenda(Alvo(t)))
            /\ Travar(t, LinhaAgenda(Alvo(t)))
            /\ txa' = [txa EXCEPT
                 ![t].itens = agendamento[Alvo(t)].pendencias,
                 ![t].passo = IF oper[t].tipo = "REPROCESSAR"
                              THEN AposVisita(agendamento[Alvo(t)].pendencias) ELSE "commit"]
            /\ UNCHANGED <<ativo, aberta, oferta, saldo, livro, manual, cliente, agendamento,
                           consumo, oper>>
       ELSE EncerrarA(t)

\* processarItensTx: an item out of stock becomes a shortage, the rest is taken.
ConsumirItem(t) ==
    /\ EmA(t, "itens")
    /\ \E p \in txa[t].itens \ (txa[t].feitos \cup txa[t].faltas) :
         LET resta == txa[t].itens \ (txa[t].feitos \cup txa[t].faltas)
             s == IF resta = {p} THEN "commit" ELSE "itens"
         IN
         /\ \A o \in resta : p <= o
         /\ IF PodeSair(Central, p, InsumoDe(Alvo(t))[p])
            THEN /\ Desocupada(Estante(Central, p))
                 /\ Travar(t, Estante(Central, p))
                 /\ txa' = [txa EXCEPT ![t].passo = s, ![t].feitos = @ \cup {p}]
            ELSE /\ UNCHANGED trava
                 /\ txa' = [txa EXCEPT ![t].passo = s, ![t].faltas = @ \cup {p}]
    /\ UNCHANGED <<ativo, aberta, oferta, saldo, livro, manual, cliente, agendamento, consumo, oper>>

ConsumidaComFaltas(t) ==    \* mutated form: shortages leave the stock too
    [e \in Estantes |-> IF e[1] = Central /\ e[2] \in txa[t].itens
                        THEN -InsumoDe(Alvo(t))[e[2]] ELSE 0]

Consumida(t) ==
    [e \in Estantes |-> IF e[1] = Central /\ e[2] \in txa[t].feitos
                        THEN -InsumoDe(Alvo(t))[e[2]] ELSE 0]

\* What the appointment's row becomes.
LinhaFinal(t) ==
    LET a == agendamento[Alvo(t)] IN
    CASE Conclui(t) -> [a EXCEPT !.status = "CONCLUIDO", !.pendencias = txa[t].faltas]
      [] oper[t].tipo = "STATUS" /\ ~Conclui(t) -> [a EXCEPT !.status = oper[t].para]
      [] oper[t].tipo = "REPROCESSAR" -> [a EXCEPT !.pendencias = txa[t].faltas]
      [] oper[t].tipo = "ANULAR" -> [a EXCEPT !.pendencias = {},
                                              !.anuladas = @ \cup txa[t].itens]

ClienteAposVisita(t) ==
    LET c == ClienteDe[Alvo(t)] IN
    IF trava[LinhaCliente(c)] = t
    THEN [cliente EXCEPT ![c].visita = DataDe[Alvo(t)]] ELSE cliente

ConfirmarAtendimento(t) ==
    /\ EmA(t, "commit")
    /\ agendamento' = [agendamento EXCEPT ![Alvo(t)] = LinhaFinal(t)]
    /\ Movimentar(Consumida(t))
    /\ consumo' = [consumo EXCEPT ![Alvo(t)] =
                     [p \in Produtos |-> IF p \in txa[t].feitos
                                         THEN @[p] + InsumoDe(Alvo(t))[p] ELSE @[p]]]
    /\ cliente' = ClienteAposVisita(t)
    /\ txa' = [txa EXCEPT ![t].passo = "fim"]
    /\ Soltar(t)
    /\ UNCHANGED <<ativo, aberta, oferta, manual, oper>>

\* As in Vendas: stopped, timed out, or the victim of a deadlock.
AbortarA(t) ==
    /\ txa[t].passo \notin {"fora", "fim"}
    /\ EncerrarA(t)

AtendimentoNext ==
    \E t \in Chamadas :
        \/ LerAgendamento(t) \/ MudarStatus(t) \/ RegistrarVisita(t) \/ Bloquear(t)
        \/ ConsumirItem(t) \/ ConfirmarAtendimento(t) \/ AbortarA(t)
=============================================================================
