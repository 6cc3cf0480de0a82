----------------------------- MODULE Automacoes -----------------------------
(***************************************************************************)
(* Automations that create a task at each occurrence (OperacoesService),   *)
(* run as jobs of the durable queue, which is taken at its abstraction     *)
(* FilaAbstrata (module Fila implements it).                               *)
(*                                                                         *)
(* Every process polls: it reads the oldest automations that are due, of   *)
(* all companies, and enqueues one job per occurrence.  A worker, or an    *)
(* administrator from the screen, runs processarAutomacoes: it reads what  *)
(* is due and, oldest first, claims the occurrence with a compare-and-set  *)
(* on proximaExecucao and creates the task in the same transaction.  The   *)
(* flag running keeps one run per process; nothing else keeps processes    *)
(* apart.                                                                  *)
(***************************************************************************)
EXTENDS Integers, FiniteSets

CONSTANTS
    Ids,            \* automations
    Empresas, EmpresaDe,    \* the companies, and whose an automation is
    Processos, Nenhuma,
    Trabalhadores,  \* bound: the processes that poll and serve the queue; all serve the screen
    Limite,         \* take: how many automations one reading brings
    Intervalo,      \* intervaloDias
    MaxHora,        \* bound on the clock
    MaxTentativas,  \* attempts of a job
    MaxEventos      \* bound on what administrators save, switch, run and repeat, and on stops

ASSUME AutomacoesAssumption ==
    /\ EmpresaDe \in [Ids -> Empresas]
    /\ Trabalhadores \subseteq Processos
    /\ Limite \in Nat \ {0}
    /\ Intervalo \in Nat \ {0} /\ MaxHora \in Nat
    /\ MaxTentativas \in Nat \ {0} /\ MaxEventos \in Nat

Datas == 0 .. MaxHora + Intervalo
Jobs == Ids \X (0 .. MaxHora)    \* an occurrence, and the job whose chave names it

VARIABLES
    agora, modulo,  \* the clock; the companies whose modulos has 'automacao'
    automacao,      \* [ativa, proxima]
    tarefas,        \* occurrences with a row in tarefas
    estado, posse,  \* the queue: see FilaAbstrata
    tentativas,     \* attempts of a job that is not final (a final one's count is not read)
    poll,           \* [lista, reabrir]: enfileirarAutomacoes of each process
    etapa,          \* the handler that a worker runs
    rodada,         \* [quem, agora, lista]: processarAutomacoes of each process
    eventos

fila == <<estado, posse, tentativas>>
relogio == <<agora, eventos>>
dados == <<modulo, automacao, tarefas>>
vars == <<relogio, dados, fila, poll, etapa, rodada>>

Fila == INSTANCE FilaAbstrata

SemPoll == [lista |-> {}, reabrir |-> {}]
SemRodada == [quem |-> "ninguem", agora |-> 0, lista |-> {}]

TypeOK ==
    /\ agora \in 0 .. MaxHora /\ modulo \subseteq Empresas
    /\ eventos \in 0 .. MaxEventos
    /\ automacao \in [Ids -> [ativa : BOOLEAN, proxima : Datas]]
    /\ tarefas \subseteq Jobs
    /\ estado \in [Jobs -> {"AUSENTE", "PENDENTE", "PROCESSANDO", "CONCLUIDO", "FALHOU"}]
    /\ posse \in [Processos -> Jobs \cup {Nenhuma}]
    /\ tentativas \in [Jobs -> 0 .. MaxTentativas]
    /\ poll \in [Processos -> [lista : SUBSET Jobs, reabrir : SUBSET Jobs]]
    /\ etapa \in [Processos -> {"parada", "rodar", "ok", "erro"}]
    /\ rodada \in [Processos -> [quem : {"ninguem", "fila", "tela"}, agora : 0 .. MaxHora,
                                 lista : SUBSET Jobs]]

\* The automations have just been saved, to run at once.
Init ==
    /\ agora = 0 /\ modulo = Empresas /\ eventos = 0
    /\ automacao = [a \in Ids |-> [ativa |-> TRUE, proxima |-> 0]]
    /\ tarefas = {}
    /\ Fila!Init
    /\ tentativas = [j \in Jobs |-> 0]
    /\ poll = [p \in Processos |-> SemPoll]
    /\ etapa = [p \in Processos |-> "parada"]
    /\ rodada = [p \in Processos |-> SemRodada]

-----------------------------------------------------------------------------
Ocorrencia(a) == <<a, automacao[a].proxima>>
Vencidas == {Ocorrencia(a) : a \in {b \in Ids : automacao[b].ativa /\ automacao[b].proxima <= agora}}
TemModulo(j) == EmpresaDe[j[1]] \in modulo

\* orderBy proximaExecucao asc: one of the oldest; equal dates come in any order.
Primeiras(S) == {j \in S : \A k \in S : j[2] <= k[2]}

\* take: Limite: what is left out is not older than what is read.
Paginas(S) == {P \in SUBSET S :
    /\ Cardinality(P) <= Limite
    /\ \A k \in S \ P : Cardinality(P) = Limite /\ \A j \in P : j[2] <= k[2]}

\* proximaExecucao: the first multiple of the interval after the present.
Seguinte(o, h) == o + ((h - o) \div Intervalo + 1) * Intervalo

Passar == /\ agora < MaxHora
          /\ agora' = agora + 1
          /\ UNCHANGED <<eventos, dados, fila, poll, etapa, rodada>>

\* Something from outside.
Evento == eventos < MaxEventos /\ eventos' = eventos + 1

\* salvarAutomacao: an active automation may not be set in the past (by over a minute).  The
\* date of one that is not active is not read.
Salvar(a) ==
    /\ Evento
    /\ \/ \E d \in agora .. MaxHora :
             automacao' = [automacao EXCEPT ![a] = [ativa |-> TRUE, proxima |-> d]]
       \/ automacao' = [automacao EXCEPT ![a] = [ativa |-> FALSE, proxima |-> 0]]
    /\ UNCHANGED <<agora, modulo, tarefas, fila, poll, etapa, rodada>>

\* A company's modules are changed.
TrocarModulo(e) ==
    /\ Evento
    /\ modulo' = IF e \in modulo THEN modulo \ {e} ELSE modulo \cup {e}
    /\ UNCHANGED <<agora, automacao, tarefas, fila, poll, etapa, rodada>>

-----------------------------------------------------------------------------
(* enfileirarAutomacoes, in the minute's timer of each process. *)
ComModulo == {j \in Vencidas : TemModulo(j)}

\* One page, over all companies.  An occurrence whose job failed for good is in it too.
Ler(p) ==
    /\ p \in Trabalhadores /\ poll[p] = SemPoll
    /\ ComModulo # {}
    /\ \E P \in Paginas(ComModulo) : poll' = [poll EXCEPT ![p].lista = P]
    /\ UNCHANGED <<relogio, dados, fila, etapa, rodada>>

\* jobs.adicionar: an upsert; a row that is there is returned as it is.
Adicionar(p) == \E j \in Primeiras(poll[p].lista) :
    /\ poll[p].reabrir = {}
    /\ IF estado[j] = "AUSENTE"
       THEN Fila!Entrar(j)
       ELSE UNCHANGED <<estado, posse>>
    /\ poll' = [poll EXCEPT ![p].lista = @ \ {j},
                            ![p].reabrir = IF estado[j] = "CONCLUIDO" THEN {j} ELSE {}]
    /\ UNCHANGED <<relogio, dados, tentativas, etapa, rodada>>

ReabrirNunca(p) == \E j \in poll[p].reabrir :    \* mutated form: CONCLUIDO is left alone
    /\ poll' = [poll EXCEPT ![p].reabrir = {}]
    /\ UNCHANGED <<relogio, dados, fila, etapa, rodada>>

\* A concluded job whose occurrence is still due goes back to the queue.
Reabrir(p) == \E j \in poll[p].reabrir :
    /\ IF estado[j] = "CONCLUIDO"
       THEN Fila!Entrar(j)
       ELSE UNCHANGED <<estado, posse>>
    /\ poll' = [poll EXCEPT ![p].reabrir = {}]
    /\ UNCHANGED <<relogio, dados, tentativas, etapa, rodada>>

-----------------------------------------------------------------------------
(* The queue's worker and the handler of AUTOMACAO. *)
Livre(p) == rodada[p].quem = "ninguem"

\* automacaoId restricts a job's run to its automation.
Alvos(j) == {k \in Vencidas : k[1] = j[1]}

\* A worker reserves the job, and the handler reads what is due.  It throws if running is
\* set, and is done if nothing is due.
Pegar(p, j) ==
    /\ p \in Trabalhadores /\ etapa[p] = "parada"
    /\ Fila!Pegar(p, j)
    /\ tentativas' = [tentativas EXCEPT ![j] = IF @ < MaxTentativas THEN @ + 1 ELSE @]
    /\ etapa' = [etapa EXCEPT ![p] = IF ~Livre(p) THEN "erro"
                                     ELSE IF Alvos(j) = {} THEN "ok" ELSE "rodar"]
    /\ rodada' = IF ~Livre(p) \/ Alvos(j) = {} THEN rodada
                 ELSE [rodada EXCEPT ![p] =
                         [quem |-> "fila", agora |-> agora, lista |-> Alvos(j)]]
    /\ UNCHANGED <<relogio, dados, poll>>

\* POST automacoes/processar: one page of what is due in the company.
DaEmpresa(e) == {j \in Vencidas : EmpresaDe[j[1]] = e}

IniciarTela(p, e) ==
    /\ Evento
    /\ Livre(p) /\ DaEmpresa(e) # {}
    /\ \E P \in Paginas(DaEmpresa(e)) :
          rodada' = [rodada EXCEPT ![p] = [quem |-> "tela", agora |-> agora, lista |-> P]]
    /\ UNCHANGED <<agora, dados, fila, poll, etapa>>

\* The run ends, with x for the job that it served.
Encerrar(p, x) ==
    /\ rodada' = [rodada EXCEPT ![p] = SemRodada]
    /\ etapa' = IF rodada[p].quem = "fila" THEN [etapa EXCEPT ![p] = x] ELSE etapa

\* The run goes on without j, or ends after the last one.
Continuar(p, j) ==
    IF rodada[p].lista = {j} THEN Encerrar(p, "ok")
    ELSE rodada' = [rodada EXCEPT ![p].lista = @ \ {j}] /\ UNCHANGED etapa

ReivindicaPorId(j) == TemModulo(j) /\ automacao[j[1]].ativa    \* mutated form: without proximaExecucao

\* The company still has the module (read just before the transaction, and taken with it),
\* and the claim: WHERE ativa = true AND proximaExecucao = the one that was read.
Reivindica(j) == TemModulo(j) /\ automacao[j[1]].ativa /\ Ocorrencia(j[1]) = j

Pular(p) == \E j \in Primeiras(rodada[p].lista) :
    /\ ~Reivindica(j)
    /\ Continuar(p, j)
    /\ UNCHANGED <<relogio, dados, fila, poll>>

\* The transaction: the claim moves the automation on, and the task is created.
Executar(p) == \E j \in Primeiras(rodada[p].lista) \ tarefas :
    /\ Reivindica(j)
    /\ Continuar(p, j)
    /\ automacao' = [automacao EXCEPT ![j[1]].proxima = Seguinte(j[2], rodada[p].agora)]
    /\ tarefas' = tarefas \cup {j}
    /\ UNCHANGED <<relogio, modulo, fila, poll>>

\* UNIQUE (automacaoId, ocorrencia): the transaction is undone and the run throws.
Repetida(p) == \E j \in Primeiras(rodada[p].lista) \cap tarefas :
    /\ Reivindica(j)
    /\ Encerrar(p, "erro")
    /\ UNCHANGED <<relogio, dados, fila, poll>>

\* The worker's update.  (A worker that lost its reservation writes nothing: see Fila.  Its
\* run is then like one from the screen, beside that of the worker that takes the job over.)
Concluir(p) == LET permanente == tentativas[posse[p]] >= MaxTentativas IN
    /\ \/ etapa[p] = "ok" /\ Fila!Terminar(p, "CONCLUIDO")
       \/ etapa[p] = "erro" /\ Fila!Terminar(p, IF permanente THEN "FALHOU" ELSE "PENDENTE")
    /\ tentativas' = IF etapa[p] = "ok" \/ permanente
                     THEN [tentativas EXCEPT ![posse[p]] = 0] ELSE tentativas
    /\ etapa' = [etapa EXCEPT ![p] = "parada"]
    /\ UNCHANGED <<relogio, dados, poll, rodada>>

\* repetirJob.
Repetir(j) ==
    /\ estado[j] = "FALHOU"
    /\ Evento
    /\ Fila!Entrar(j)
    /\ UNCHANGED <<agora, dados, tentativas, poll, etapa, rodada>>

\* The process stops: its memory goes, and its transaction, if it was in one.
Parar(p) ==
    /\ Evento
    /\ posse[p] # Nenhuma \/ poll[p] # SemPoll \/ ~Livre(p)
    /\ Fila!Largar(p)
    /\ poll' = [poll EXCEPT ![p] = SemPoll]
    /\ etapa' = [etapa EXCEPT ![p] = "parada"]
    /\ rodada' = [rodada EXCEPT ![p] = SemRodada]
    /\ UNCHANGED <<agora, dados, tentativas>>

\* A job that nobody holds goes back to the queue.
Recuperar(j) ==
    /\ estado[j] = "PROCESSANDO"
    /\ \A p \in Processos : posse[p] # j
    /\ Fila!Recuperar({j})
    /\ UNCHANGED <<relogio, dados, tentativas, poll, etapa, rodada>>

-----------------------------------------------------------------------------
Pesquisar(p) == Ler(p) \/ Adicionar(p) \/ Reabrir(p)
Rodar(p) == Pular(p) \/ Executar(p) \/ Repetida(p)

Next ==
    \/ Passar
    \/ \E e \in Empresas : TrocarModulo(e)
    \/ \E a \in Ids : Salvar(a)
    \/ \E p \in Processos :
         \/ Pesquisar(p) \/ Concluir(p) \/ Rodar(p)
         \/ \E j \in Jobs : Pegar(p, j)
         \/ \E e \in Empresas : IniciarTela(p, e)
         \/ Parar(p)
    \/ \E j \in Jobs : Repetir(j) \/ Recuperar(j)

Spec == Init /\ [][Next]_vars

\* The timer keeps polling, a run and a handler go on, and the queue goes on taking jobs and
\* reclaims what a stopped process held.
Justica ==
    /\ \A p \in Trabalhadores : WF_vars(Pesquisar(p)) /\ WF_vars(Concluir(p))
    /\ \A p \in Processos : WF_vars(Rodar(p))
    /\ WF_vars(\E p \in Trabalhadores, j \in Jobs : Pegar(p, j))
    /\ WF_vars(\E j \in Jobs : Recuperar(j))

SpecJusta == Spec /\ Justica

-----------------------------------------------------------------------------
(* Properties. *)

\* A task is created only for the occurrence that its automation is waiting for at that
\* moment, however long ago the run read the list and whoever saved, ran or moved the
\* automation on since; and the automation then waits for a later one, so that a run with an
\* old clock never brings a date back.
SoOcorrenciaMarcada ==
    [][\A j \in tarefas' \ tarefas :
          /\ automacao[j[1]].ativa /\ Ocorrencia(j[1]) = j
          /\ automacao'[j[1]].proxima > j[2]]_vars

\* As many occurrences as one reading brings, none newer than j, are due and have a job that
\* failed for good: they stay where they are, and fill the page.
Presa(j) ==
    Cardinality({k \in ComModulo : k[2] <= j[2] /\ estado[k] = "FALHOU"}) >= Limite

Esquecida(j) == j \in ComModulo /\ estado[j] # "FALHOU" /\ ~Presa(j)

\* No occurrence stays due for ever unnoticed, also not one whose job was concluded while the
\* module was off, or whose process stopped: it moves on, the automation or the module is
\* switched off, or its job fails for good, which the queue reports to the administrators.
\* The one exception is the page that every poll reads: failed occurrences, perhaps of other
\* companies, can fill it, and what is due after them is then never enqueued.
RodaOuAvisa == \A j \in Jobs : []<>~Esquecida(j)
=============================================================================
