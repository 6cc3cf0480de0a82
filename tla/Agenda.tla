------------------------------- MODULE Agenda -------------------------------
(***************************************************************************)
(* How appointments get into a professional's agenda: AgendamentosService  *)
(* .criar (the counter), BookingService.agendar (the public page) and      *)
(* OperacoesService.criarRecorrencia (a series), under the advisory lock   *)
(* of bloquearAgenda; and what runs beside them without that lock: changes *)
(* of status, cancellation of a series, edition and deactivation of        *)
(* services and professionals.                                             *)
(*                                                                         *)
(* Hours of a day (what the opening hours and the page are written in) and *)
(* instants (what appointments, the clock and agendar compare) count the   *)
(* 30-minute step of the public page; a day's hours are turned into        *)
(* instants by instanteNoFuso, which need not advance evenly on a day on   *)
(* which the company's time zone changes its clock.                        *)
(*                                                                         *)
(* The i-th appointment of call c is <<c, i>>; only a series has more than *)
(* one.  Conclusion's stock and client are in module Atendimento.          *)
(***************************************************************************)
EXTENDS Integers, FiniteSets

CONSTANTS
    Profissionais,  \* naturals in the order of their names
    Servicos,
    Chamadas,       \* calls of criar, agendar and criarRecorrencia
    Pedidos,        \* contents a call may carry
    Telefones,      \* of clients of the public page
    Qualquer,       \* no profissionalId: any professional
    Livre,          \* nobody holds the lock
    Nenhum,         \* no answer yet; no telephone
    Duracoes,       \* values of duracaoMin
    Expedientes,    \* the days: [abre, fecha, instante], hours and their instants
    MaxQuantidade,  \* 24 in the code
    Horizonte       \* bound on the clock

Tipos == {"CRIAR", "PUBLICO", "SERIE"}
Respostas == {"CRIADO", "RECUSADO", "OCUPADO", "FALHA"}

ASSUME AgendaAssumption ==
    /\ Profissionais \subseteq Nat
    /\ IsFiniteSet(Profissionais)
    /\ Qualquer \notin Profissionais
    /\ Livre \notin Chamadas
    /\ Nenhum \notin Respostas
    /\ Duracoes \subseteq Nat \ {0}
    /\ Duracoes # {}
    /\ \A e \in Expedientes : /\ e.abre \in Nat /\ e.fecha \in Nat
                              /\ e.instante \in [e.abre..e.fecha -> Nat]
                              /\ e.abre <= e.fecha
    /\ MaxQuantidade \in Nat \ {0}
    /\ Horizonte \in Nat
    /\ \A d \in Pedidos :
         /\ d.tipo \in Tipos
         /\ d.prof \in Profissionais \cup (IF d.tipo = "PUBLICO" THEN {Qualquer} ELSE {})
         /\ d.servico \in Servicos
         /\ d.inicio \in Nat
         /\ d.intervalo \in Nat \ {0}
         /\ d.quantidade \in 1..MaxQuantidade
         /\ d.tipo # "SERIE" => d.quantidade = 1
         /\ d.tipo = "PUBLICO" => d.telefone \in Telefones

VARIABLES
    pedido,         \* what each call asks (never changes)
    agenda,         \* appointments: [status, prof, servico, inicio, fim]
    serie,          \* recorrencias, by the call that created them
    servico,        \* [ativo, duracao]
    equipe,         \* professionals with ativo
    fichas,         \* number of client rows with each telephone
    trancada,       \* advisory lock of each professional's agenda
    tx,             \* running calls: [passo, prof, duracao, nova]
    contado,        \* services whose deactivation found no future appointment
    resp,           \* what the caller was told
    agora           \* the clock

vars == <<pedido, agenda, serie, servico, equipe, fichas, trancada, tx, contado, resp, agora>>

Vagas == Chamadas \X (1..MaxQuantidade)
Ativos == {"AGENDADO", "CONFIRMADO"}
Status == Ativos \cup {"AUSENTE", "CONCLUIDO", "CANCELADO"}
Passos == {"fora", "trancar", "validar", "checar", "cliente", "gravar", "fim"}

TypeOK ==
    /\ pedido \in [Chamadas -> Pedidos]
    /\ agenda \in [Vagas -> [status: Status, prof: Profissionais \cup {Qualquer},
                             servico: Servicos, inicio: Nat, fim: Nat]]
    /\ serie \in [Chamadas -> {"AUSENTE", "ATIVA", "CANCELADA"}]
    /\ servico \in [Servicos -> [ativo: BOOLEAN, duracao: Duracoes]]
    /\ equipe \subseteq Profissionais
    /\ fichas \in [Telefones -> Nat]
    /\ trancada \in [Profissionais -> Chamadas \cup {Livre}]
    /\ tx \in [Chamadas -> [passo: Passos, prof: Profissionais \cup {Qualquer},
                            duracao: Nat, nova: BOOLEAN]]
    /\ contado \subseteq Servicos
    /\ resp \in [Chamadas -> Respostas \cup {Nenhum}]
    /\ agora \in Nat

Init ==
    /\ pedido \in [Chamadas -> Pedidos]
    /\ agenda = [v \in Vagas |-> [status |-> "AUSENTE", prof |-> Qualquer,
                                  servico |-> pedido[v[1]].servico, inicio |-> 0, fim |-> 0]]
    /\ serie = [c \in Chamadas |-> "AUSENTE"]
    /\ servico \in [Servicos -> [ativo: {TRUE}, duracao: Duracoes]]
    /\ equipe = Profissionais
    /\ fichas = [f \in Telefones |-> 0]
    /\ trancada = [p \in Profissionais |-> Livre]
    /\ tx = [c \in Chamadas |-> [passo |-> "fora", prof |-> pedido[c].prof,
                                 duracao |-> 0, nova |-> FALSE]]
    /\ contado = {}
    /\ resp = [c \in Chamadas |-> Nenhum]
    /\ agora = 0

-----------------------------------------------------------------------------
Em(c, s) == tx[c].passo = s
Tipo(c, t) == pedido[c].tipo = t

Ativa(v) == agenda[v].status \in Ativos

\* An active appointment of p overlaps [a, b).
Ocupado(p, a, b) ==
    \E v \in Vagas : /\ Ativa(v)
                     /\ agenda[v].prof = p
                     /\ agenda[v].inicio < b
                     /\ agenda[v].fim > a

InicioUmAntes(c, i) == pedido[c].inicio + (i - 2) * pedido[c].intervalo    \* mutated form

\* datasRecorrentes; a single appointment is its first date.
Inicio(c, i) == pedido[c].inicio + (i - 1) * pedido[c].intervalo
Partes(c) == 1..pedido[c].quantidade

\* The call ends with answer x and nothing written; its lock goes.
Encerrar(c, x) ==
    /\ tx' = [tx EXCEPT ![c].passo = "fim"]
    /\ trancada' = [p \in Profissionais |-> IF trancada[p] = c THEN Livre ELSE trancada[p]]
    /\ resp' = [resp EXCEPT ![c] = x]
    /\ UNCHANGED <<pedido, agenda, serie, servico, equipe, fichas, contado, agora>>

SoPasso == UNCHANGED <<pedido, agenda, serie, servico, equipe, fichas, trancada, contado,
                       resp, agora>>

\* The call was validated: it will ask for professional p and duration d.
Aceitar(c, p, d) ==
    /\ tx' = [tx EXCEPT ![c].passo = "trancar", ![c].prof = p, ![c].duracao = d]
    /\ SoPasso

-----------------------------------------------------------------------------
(***************************************************************************)
(* Before the transaction.  These reads are not repeated under the lock.   *)
(***************************************************************************)
\* criar; the client may also be missing or inactive.
ValidarCriar(c) ==
    LET d == pedido[c] IN
    /\ Em(c, "fora")
    /\ Tipo(c, "CRIAR")
    /\ \/ /\ servico[d.servico].ativo
          /\ d.inicio >= agora
          /\ d.prof \in equipe
          /\ Aceitar(c, d.prof, servico[d.servico].duracao)
       \/ Encerrar(c, "RECUSADO")

NoExpedienteEstrito(a, b) ==    \* mutated form: what ends at closing time is refused
    \E e \in Expedientes : e.instante[e.abre] <= a /\ b < e.instante[e.fecha]

\* abertura and fechamento are the instants of the opening hours.
NoExpediente(a, b) ==
    \E e \in Expedientes : e.instante[e.abre] <= a /\ b <= e.instante[e.fecha]

\* "Qualquer profissional": the first free one by name.
PrimeiroLivre(p, a, b) ==
    /\ p \in equipe
    /\ ~Ocupado(p, a, b)
    /\ \A q \in equipe : ~Ocupado(q, a, b) => p <= q

\* agendar of the public page.
ValidarPublico(c) ==
    LET d == pedido[c]
        fim == d.inicio + servico[d.servico].duracao
    IN
    /\ Em(c, "fora")
    /\ Tipo(c, "PUBLICO")
    /\ IF /\ d.inicio >= agora
          /\ servico[d.servico].ativo
          /\ NoExpediente(d.inicio, fim)
          /\ d.prof # Qualquer => d.prof \in equipe
       THEN \/ /\ d.prof # Qualquer
               /\ Aceitar(c, d.prof, servico[d.servico].duracao)
            \/ /\ d.prof = Qualquer
               /\ \E p \in Profissionais :
                    /\ PrimeiroLivre(p, d.inicio, fim)
                    /\ Aceitar(c, p, servico[d.servico].duracao)
            \/ /\ d.prof = Qualquer
               /\ \A p \in equipe : Ocupado(p, d.inicio, fim)
               /\ Encerrar(c, "OCUPADO")
       ELSE Encerrar(c, "RECUSADO")

AbrirSerie(c) ==
    /\ Em(c, "fora")
    /\ Tipo(c, "SERIE")
    /\ IF pedido[c].inicio > agora
       THEN Aceitar(c, pedido[c].prof, 0)
       ELSE Encerrar(c, "RECUSADO")

-----------------------------------------------------------------------------
(***************************************************************************)
(* The transaction.                                                        *)
(***************************************************************************)
SemTrava(p) == TRUE    \* mutated form: no advisory lock

Desocupada(p) == trancada[p] = Livre

\* bloquearAgenda
Trancar(c) ==
    /\ Em(c, "trancar")
    /\ Desocupada(tx[c].prof)
    /\ trancada' = [trancada EXCEPT ![tx[c].prof] = c]
    /\ tx' = [tx EXCEPT ![c].passo = IF Tipo(c, "SERIE") THEN "validar" ELSE "checar"]
    /\ UNCHANGED <<pedido, agenda, serie, servico, equipe, fichas, contado, resp, agora>>

\* The checks of a series run under the lock; the client may also be missing.
ValidarSerie(c) ==
    LET s == servico[pedido[c].servico] IN
    /\ Em(c, "validar")
    /\ \/ /\ s.ativo
          /\ pedido[c].prof \in equipe
          /\ s.duracao < pedido[c].intervalo
          /\ tx' = [tx EXCEPT ![c].passo = "checar", ![c].duracao = s.duracao]
          /\ SoPasso
       \/ Encerrar(c, "RECUSADO")

SoPrimeiroConflito(c) ==    \* mutated form: only the first date is looked up
    Ocupado(tx[c].prof, Inicio(c, 1), Inicio(c, 1) + tx[c].duracao)

Conflito(c) ==
    \E i \in Partes(c) : Ocupado(tx[c].prof, Inicio(c, i), Inicio(c, i) + tx[c].duracao)

Checar(c) ==
    /\ Em(c, "checar")
    /\ IF Conflito(c)
       THEN Encerrar(c, "OCUPADO")
       ELSE /\ tx' = [tx EXCEPT ![c].passo = IF Tipo(c, "PUBLICO") THEN "cliente" ELSE "gravar"]
            /\ SoPasso

\* Find or create cliente, by telephone.
AcharCliente(c) ==
    /\ Em(c, "cliente")
    /\ tx' = [tx EXCEPT ![c].passo = "gravar", ![c].nova = fichas[pedido[c].telefone] = 0]
    /\ SoPasso

\* The rows of the call become visible and the lock goes.
Gravar(c) ==
    /\ Em(c, "gravar")
    /\ agenda' = [v \in Vagas |->
         IF v[1] = c /\ v[2] \in Partes(c)
         THEN [status |-> "AGENDADO", prof |-> tx[c].prof, servico |-> pedido[c].servico,
               inicio |-> Inicio(c, v[2]), fim |-> Inicio(c, v[2]) + tx[c].duracao]
         ELSE agenda[v]]
    /\ serie' = IF Tipo(c, "SERIE") THEN [serie EXCEPT ![c] = "ATIVA"] ELSE serie
    /\ fichas' = IF tx[c].nova THEN [fichas EXCEPT ![pedido[c].telefone] = @ + 1] ELSE fichas
    /\ tx' = [tx EXCEPT ![c].passo = "fim"]
    /\ trancada' = [trancada EXCEPT ![tx[c].prof] = Livre]
    /\ resp' = [resp EXCEPT ![c] = "CRIADO"]
    /\ UNCHANGED <<pedido, servico, equipe, contado, agora>>

\* The transaction ends before its commit: stop, lost connection, timeout.
Abortar(c) ==
    /\ tx[c].passo \notin {"fora", "fim"}
    /\ Encerrar(c, "FALHA")

-----------------------------------------------------------------------------
(***************************************************************************)
(* What runs beside them without the lock.                                 *)
(***************************************************************************)
TRANSICOES ==
    [AUSENTE    |-> {},
     AGENDADO   |-> {"CONFIRMADO", "CONCLUIDO", "CANCELADO"},
     CONFIRMADO |-> {"CONCLUIDO", "CANCELADO"},
     CONCLUIDO  |-> {},
     CANCELADO  |-> {}]

\* atualizarStatus: its compare-and-set makes one step of it.
MudarStatus(v) ==
    /\ \E x \in TRANSICOES[agenda[v].status] : agenda' = [agenda EXCEPT ![v].status = x]
    /\ UNCHANGED <<pedido, serie, servico, equipe, fichas, trancada, tx, contado, resp, agora>>

CancelavelSemStatus(v) ==    \* mutated form: any status
    agenda[v].status # "AUSENTE" /\ agenda[v].inicio > agora

CancelavelSoAgendado(v) ==    \* mutated form: CONFIRMADO forgotten
    agenda[v].status = "AGENDADO" /\ agenda[v].inicio > agora

Cancelavel(v) == Ativa(v) /\ agenda[v].inicio > agora

CancelarSerie(c) ==
    /\ serie[c] # "AUSENTE"
    /\ serie' = [serie EXCEPT ![c] = "CANCELADA"]
    /\ agenda' = [v \in Vagas |-> IF v[1] = c /\ Cancelavel(v)
                                  THEN [agenda[v] EXCEPT !.status = "CANCELADO"] ELSE agenda[v]]
    /\ UNCHANGED <<pedido, servico, equipe, fichas, trancada, tx, contado, resp, agora>>

\* ServicosService.atualizar; appointments keep the end they were given.
AtualizarServico(s) ==
    /\ servico[s].ativo
    /\ \E d \in Duracoes : servico' = [servico EXCEPT ![s].duracao = d]
    /\ UNCHANGED <<pedido, agenda, serie, equipe, fichas, trancada, tx, contado, resp, agora>>

Futura(v) == Ativa(v) /\ agenda[v].inicio >= agora

\* ServicosService.desativar: a count, then an UPDATE.
ContarFuturos(s) ==
    /\ servico[s].ativo
    /\ \A v \in Vagas : agenda[v].servico = s => ~Futura(v)
    /\ contado' = contado \cup {s}
    /\ UNCHANGED <<pedido, agenda, serie, servico, equipe, fichas, trancada, tx, resp, agora>>

DesativarServico(s) ==
    /\ s \in contado
    /\ servico' = [servico EXCEPT ![s].ativo = FALSE]
    /\ contado' = contado \ {s}
    /\ UNCHANGED <<pedido, agenda, serie, equipe, fichas, trancada, tx, resp, agora>>

DesativarProfissional(p) ==
    /\ p \in equipe
    /\ equipe' = equipe \ {p}
    /\ UNCHANGED <<pedido, agenda, serie, servico, fichas, trancada, tx, contado, resp, agora>>

Passar ==
    /\ agora < Horizonte
    /\ agora' = agora + 1
    /\ UNCHANGED <<pedido, agenda, serie, servico, equipe, fichas, trancada, tx, contado, resp>>

-----------------------------------------------------------------------------
Chamar(c) ==
    \/ ValidarCriar(c) \/ ValidarPublico(c) \/ AbrirSerie(c) \/ Trancar(c)
    \/ ValidarSerie(c) \/ Checar(c) \/ AcharCliente(c) \/ Gravar(c) \/ Abortar(c)

Next ==
    \/ \E c \in Chamadas : Chamar(c) \/ CancelarSerie(c)
    \/ \E v \in Vagas : MudarStatus(v)
    \/ \E s \in Servicos : AtualizarServico(s) \/ ContarFuturos(s) \/ DesativarServico(s)
    \/ \E p \in Profissionais : DesativarProfissional(p)
    \/ Passar

Spec == Init /\ [][Next]_vars

-----------------------------------------------------------------------------
\* calcularSlots: the hours the public page shows for day e, professional p
\* (or Qualquer) and a duration, thirty minutes when there is none.  The end
\* of the service is compared with the closing time in hours of the day, the
\* rest in instants.
Slots(e, p, d) ==
    LET duracao == IF d > 0 THEN d ELSE 1 IN
    {h \in e.abre..e.fecha :
        /\ h + duracao <= e.fecha
        /\ e.instante[h] > agora
        /\ \E q \in equipe : /\ p # Qualquer => q = p
                             /\ ~Ocupado(q, e.instante[h], e.instante[h] + duracao)}

\* getDisponibilidade: what the page lists, among the instants of day e, for
\* the service and professional of call c.
Instantes(e, c) ==
    IF servico[pedido[c].servico].ativo
    THEN {e.instante[h] : h \in Slots(e, pedido[c].prof, servico[pedido[c].servico].duracao)}
    ELSE {}

\* No two active appointments of one professional overlap, whichever of the
\* three ways they came in by, and whatever happens to durations meanwhile;
\* the dates of one series do not overlap either.
SemSobreposicao ==
    \A v, w \in Vagas :
        (v # w /\ Ativa(v) /\ Ativa(w) /\ agenda[v].prof = agenda[w].prof)
            => agenda[v].fim <= agenda[w].inicio \/ agenda[w].fim <= agenda[v].inicio

\* The clock does not change between opening and closing time of day e.
SemVirada(e) ==
    \A h \in e.abre..e.fecha : e.instante[h] = e.instante[e.abre] + (h - e.abre)

\* agendar does not refuse what the page would list at that moment, before or
\* under the lock, though it computes past, hours and conflicts with other
\* code and in instants.  Two refusals are the code's: under the lock, when
\* the professional it chose for "qualquer" was taken meanwhile (it tries no
\* other) or the duration it read was edited meanwhile.  A day on which the
\* clock changes in opening hours is left out: there the page compares hours,
\* agendar instants, and a service across the change may be listed and refused.
OfertaAceita ==
    [][\A c \in Chamadas :
         (/\ Tipo(c, "PUBLICO")
          /\ resp[c] = Nenhum
          /\ resp'[c] \in {"RECUSADO", "OCUPADO"}
          /\ \E e \in Expedientes : SemVirada(e) /\ pedido[c].inicio \in Instantes(e, c))
            => /\ Em(c, "checar")
               /\ \/ pedido[c].prof = Qualquer
                  \/ tx[c].duracao # servico[pedido[c].servico].duracao]_vars

\* A cancelled series keeps no appointment that is still to come.
SerieCancelada ==
    \A c \in Chamadas : serie[c] = "CANCELADA" =>
        \A v \in Vagas : v[1] = c /\ Ativa(v) => agenda[v].inicio <= agora

\* What was concluded or cancelled stays so, also when its series is cancelled
\* at the same moment, and a confirmed appointment is not unconfirmed.
SoTransicoes ==
    [][\A v \in Vagas :
         agenda'[v].status # agenda[v].status =>
            \/ agenda'[v].status \in TRANSICOES[agenda[v].status]
            \/ agenda[v].status = "AUSENTE" /\ agenda'[v].status = "AGENDADO"]_vars

\* "Nao e possivel desativar: existem agendamentos futuros para este servico"
\* (servicos.service.ts): an inactive service has no appointment still to come.
SemFuturoDeServicoInativo ==
    \A v \in Vagas : Futura(v) => servico[agenda[v].servico].ativo

\* "Find or create cliente": bookings of one new telephone that go to the same
\* professional create one client between them; only bookings that go to
\* different professionals can miss each other's.
FichaPorAgenda ==
    \A f \in Telefones :
        fichas[f] <= Cardinality({tx[c].prof : c \in {b \in Chamadas :
                                     /\ resp[b] = "CRIADO"
                                     /\ Tipo(b, "PUBLICO")
                                     /\ pedido[b].telefone = f}})
=============================================================================
