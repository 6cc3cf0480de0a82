-------------------------------- MODULE Fila --------------------------------
(***************************************************************************)
(* JobsService: the durable queue.  Every replica of the API (a process)   *)
(* runs processar on a timer: it takes back abandoned jobs, then reserves  *)
(* and runs up to Rodada jobs one after the other.  A reservation is a     *)
(* fresh UUID in the job's row; every later write of the worker is fenced  *)
(* by it, and a heartbeat keeps it young while the handler runs.           *)
(*                                                                         *)
(* Freshness is all a UUID is used for, so reservations come from a finite *)
(* set and a new one is any that no row and no worker holds.  tentativas   *)
(* is only compared with MaxTentativas, so it stops counting there.        *)
(***************************************************************************)
EXTENDS Naturals, Sequences

CONSTANTS
    Jobs,           \* keys of jobs (chave is unique)
    Processos,      \* replicas of the API
    Reservas,       \* reservation UUIDs
    Nenhuma,        \* no reservation, no job
    SemHandler,     \* jobs of a type no handler is registered for
    Repetiveis,     \* jobs repetirJob accepts: not EMAIL_RECUPERACAO
    Automacoes,     \* jobs enfileirarAutomacoes may reopen: AUTOMACAO
    MaxTentativas,  \* 5 in the code
    Rodada          \* 10 in the code

ASSUME FilaAssumption ==
    /\ Nenhuma \notin Reservas \cup Jobs
    /\ SemHandler \subseteq Jobs
    /\ Repetiveis \subseteq Jobs
    /\ Automacoes \subseteq Jobs
    /\ MaxTentativas \in Nat \ {0}
    /\ Rodada \in Nat \ {0}

VARIABLES
    job,            \* rows: [status, tentativas, reserva, velha]
    vencidos,       \* jobs with executarEm in the past, in executarEm order
    avisos,         \* jobs whose failure was notified to the administrators
    proc            \* workers: [passo, job, reserva, vista, voltas]

vars == <<job, vencidos, avisos, proc>>

StatusJob == {"AUSENTE", "PENDENTE", "PROCESSANDO", "CONCLUIDO", "FALHOU"}
Passos == {"parado", "reservar", "reservando", "executar", "concluir", "falhar", "limpar"}
Trabalho == {"executar", "concluir", "falhar"}

\* velha: reservadoEm is older than five minutes (only read while PROCESSANDO).
TypeOK ==
    /\ job \in [Jobs -> [status: StatusJob, tentativas: 0..MaxTentativas,
                         reserva: Reservas \cup {Nenhuma}, velha: BOOLEAN]]
    /\ vencidos \in Seq(Jobs)
    /\ avisos \subseteq Jobs
    /\ proc \in [Processos -> [passo: Passos, job: Jobs \cup {Nenhuma},
                               reserva: Reservas \cup {Nenhuma},
                               vista: 0..MaxTentativas, voltas: 0..Rodada]]

Ocioso(s, n) ==
    [passo |-> s, job |-> Nenhuma, reserva |-> Nenhuma, vista |-> 0, voltas |-> n]

Init ==
    /\ job = [j \in Jobs |-> [status |-> "AUSENTE", tentativas |-> 0,
                              reserva |-> Nenhuma, velha |-> FALSE]]
    /\ vencidos = <<>>
    /\ avisos = {}
    /\ proc = [p \in Processos |-> Ocioso("parado", 0)]

-----------------------------------------------------------------------------
Em(p, s) == proc[p].passo = s
Linha(p) == job[proc[p].job]
Retirar(j) == vencidos' = SelectSeq(vencidos, LAMBDA k : k # j)

\* The job goes back to PENDENTE from outside the workers, due at once.
Reabrir(j) ==
    /\ job' = [job EXCEPT ![j].status = "PENDENTE", ![j].tentativas = 0]
    /\ vencidos' = Append(vencidos, j)
    /\ UNCHANGED <<avisos, proc>>

\* adicionar: an upsert that changes nothing when the key exists.
Adicionar(j) == job[j].status = "AUSENTE" /\ Reabrir(j)

\* repetirJob, from the administrator's screen.
Repetir(j) == j \in Repetiveis /\ job[j].status = "FALHOU" /\ Reabrir(j)

\* enfileirarAutomacoes meets the key of an occurrence that was skipped.
ReabrirAutomacao(j) == j \in Automacoes /\ job[j].status = "CONCLUIDO" /\ Reabrir(j)

\* executarEm of a job that waits for its next attempt arrives.
Vencer(j) ==
    /\ job[j].status = "PENDENTE"
    /\ \A i \in DOMAIN vencidos : vencidos[i] # j
    /\ vencidos' = Append(vencidos, j)
    /\ UNCHANGED <<job, avisos, proc>>

-----------------------------------------------------------------------------
(***************************************************************************)
(* processar, one worker per process (the flag running).                   *)
(***************************************************************************)
NuncaAbandonado(j) == FALSE    \* mutated form: no reclaim

Abandonado(j) == job[j].status = "PROCESSANDO" /\ job[j].velha

Iniciar(p) ==
    /\ Em(p, "parado")
    /\ job' = [j \in Jobs |->
         IF Abandonado(j)
         THEN [job[j] EXCEPT !.status = "PENDENTE", !.reserva = Nenhuma, !.velha = FALSE]
         ELSE job[j]]
    /\ proc' = [proc EXCEPT ![p] = Ocioso("reservar", 0)]
    /\ UNCHANGED <<vencidos, avisos>>

VisivelTravado(j) == job[j].status = "PENDENTE"    \* mutated form: no row lock

\* Jobs SELECT ... FOR UPDATE SKIP LOCKED does not skip.
Visivel(j) ==
    /\ job[j].status = "PENDENTE"
    /\ \A q \in Processos : Em(q, "reservando") => proc[q].job # j

Proximo(j) ==
    \E i \in DOMAIN vencidos :
        /\ vencidos[i] = j
        /\ Visivel(j)
        /\ \A k \in 1..(i - 1) : ~Visivel(vencidos[k])

NoLacoUmaAMais(p) == proc[p].voltas <= Rodada    \* mutated form: i <= 10

NoLaco(p) == proc[p].voltas < Rodada

Selecionar(p) ==
    /\ Em(p, "reservar")
    /\ NoLaco(p)
    /\ \E j \in Jobs :
         /\ Proximo(j)
         /\ proc' = [proc EXCEPT ![p].passo = "reservando", ![p].job = j]
    /\ UNCHANGED <<job, vencidos, avisos>>

\* The loop ends: no job, or Rodada of them were run.
EncerrarRodada(p) ==
    /\ Em(p, "reservar")
    /\ \/ ~NoLaco(p)
       \/ \A i \in DOMAIN vencidos : ~Visivel(vencidos[i])
    /\ proc' = [proc EXCEPT ![p].passo = "limpar"]
    /\ UNCHANGED <<job, vencidos, avisos>>

Nova(r) ==
    /\ \A j \in Jobs : job[j].reserva # r
    /\ \A q \in Processos : proc[q].reserva # r

Mais(n) == IF n < MaxTentativas THEN n + 1 ELSE n

\* A job of an unknown type goes to falhar at once.
Reservar(p) ==
    /\ Em(p, "reservando")
    /\ \E r \in Reservas :
         /\ Nova(r)
         /\ job' = [job EXCEPT ![proc[p].job] =
                      [status |-> "PROCESSANDO", tentativas |-> Mais(@.tentativas),
                       reserva |-> r, velha |-> FALSE]]
         /\ proc' = [proc EXCEPT
              ![p].passo = IF proc[p].job \in SemHandler THEN "falhar" ELSE "executar",
              ![p].reserva = r,
              ![p].vista = Mais(Linha(p).tentativas),
              ![p].voltas = @ + 1]
    /\ UNCHANGED <<vencidos, avisos>>

\* The handler ends, well or with an exception.
Executar(p) ==
    /\ Em(p, "executar")
    /\ \E s \in {"concluir", "falhar"} : proc' = [proc EXCEPT ![p].passo = s]
    /\ UNCHANGED <<job, vencidos, avisos>>

ValeSemReserva(p) == Linha(p).status = "PROCESSANDO"    \* mutated form: WHERE id, status

ValePorId(p) == TRUE    \* mutated form: WHERE id

\* The fence of every write of a worker: WHERE id, reserva, status.
Vale(p) == Linha(p).status = "PROCESSANDO" /\ Linha(p).reserva = proc[p].reserva

Gravar(p, x) ==
    /\ job' = [job EXCEPT ![proc[p].job].status = x,
                          ![proc[p].job].reserva = Nenhuma,
                          ![proc[p].job].velha = FALSE]
    /\ Retirar(proc[p].job)

Continuar(p) == proc' = [proc EXCEPT ![p] = Ocioso("reservar", proc[p].voltas)]

Concluir(p) ==
    /\ Em(p, "concluir")
    /\ IF Vale(p) THEN Gravar(p, "CONCLUIDO") ELSE UNCHANGED <<job, vencidos>>
    /\ Continuar(p)
    /\ UNCHANGED avisos

PermanenteAntes(p) ==    \* mutated form: one attempt too few
    proc[p].job \in SemHandler \/ proc[p].vista + 1 >= MaxTentativas

Permanente(p) == proc[p].job \in SemHandler \/ proc[p].vista >= MaxTentativas

\* falhar, with the notification of a permanent failure in its transaction.
Falhar(p) ==
    /\ Em(p, "falhar")
    /\ IF Vale(p)
       THEN /\ Gravar(p, IF Permanente(p) THEN "FALHOU" ELSE "PENDENTE")
            /\ avisos' = IF Permanente(p) THEN avisos \cup {proc[p].job} ELSE avisos
       ELSE UNCHANGED <<job, vencidos, avisos>>
    /\ Continuar(p)

\* deleteMany of concluded jobs older than thirty days, whichever they are.
Limpar(p) ==
    /\ Em(p, "limpar")
    /\ \E S \in SUBSET {j \in Jobs : job[j].status = "CONCLUIDO"} :
         job' = [j \in Jobs |-> IF j \in S THEN [job[j] EXCEPT !.status = "AUSENTE",
                                                               !.tentativas = 0]
                                ELSE job[j]]
    /\ proc' = [proc EXCEPT ![p] = Ocioso("parado", 0)]
    /\ UNCHANGED <<vencidos, avisos>>

\* The heartbeat of a running handler.
Renovar(p) ==
    /\ proc[p].passo \in Trabalho
    /\ proc[p].job \notin SemHandler
    /\ Vale(p)
    /\ job' = [job EXCEPT ![proc[p].job].velha = FALSE]
    /\ UNCHANGED <<vencidos, avisos, proc>>

-----------------------------------------------------------------------------
\* The reservation in job j's row is that of a worker that still runs.
Dono(p, j) ==
    /\ proc[p].passo \in Trabalho
    /\ proc[p].job = j
    /\ job[j].status = "PROCESSANDO"
    /\ job[j].reserva = proc[p].reserva

\* Five minutes without a heartbeat: the worker is gone, or stalled.
Envelhecer(j) ==
    /\ job[j].status = "PROCESSANDO"
    /\ ~job[j].velha
    /\ job' = [job EXCEPT ![j].velha = TRUE]
    /\ UNCHANGED <<vencidos, avisos, proc>>

\* The process stops, or a statement outside the handler's try fails: the row
\* lock and the unfinished transaction are undone, the reservation stays.
Interromper(p) ==
    /\ ~Em(p, "parado")
    /\ proc' = [proc EXCEPT ![p] = Ocioso("parado", 0)]
    /\ UNCHANGED <<job, vencidos, avisos>>

\* The UPDATE to CONCLUIDO reports an error, applied or not, inside the try:
\* the job that was run is then treated as one that failed.
ErroAoConcluir(p) ==
    /\ Em(p, "concluir")
    /\ IF Vale(p)
       THEN Gravar(p, "CONCLUIDO") \/ UNCHANGED <<job, vencidos>>
       ELSE UNCHANGED <<job, vencidos>>
    /\ proc' = [proc EXCEPT ![p].passo = "falhar"]
    /\ UNCHANGED avisos

\* What goes wrong: a stop, a stall of a living worker, an error.
Defeito ==
    \/ \E p \in Processos : Interromper(p) \/ ErroAoConcluir(p)
    \/ \E p \in Processos, j \in Jobs : Dono(p, j) /\ Envelhecer(j)

Trabalhar(p) ==
    \/ Iniciar(p) \/ Selecionar(p) \/ EncerrarRodada(p) \/ Reservar(p) \/ Executar(p)
    \/ Concluir(p) \/ Falhar(p) \/ Limpar(p)

Next ==
    \/ \E j \in Jobs :
         \/ Adicionar(j) \/ Repetir(j) \/ ReabrirAutomacao(j) \/ Vencer(j) \/ Envelhecer(j)
    \/ \E p \in Processos :
         \/ Trabalhar(p) \/ Renovar(p) \/ Interromper(p) \/ ErroAoConcluir(p)

\* Timers fire, handlers return, and time passes for a job nobody runs.
Justica ==
    /\ \A p \in Processos : WF_vars(Trabalhar(p))
    /\ \A j \in Jobs : WF_vars(Vencer(j))
    /\ \A j \in Jobs : WF_vars(Envelhecer(j) /\ \A p \in Processos : ~Dono(p, j))

Spec == Init /\ [][Next]_vars
SpecJusta == Spec /\ Justica

-----------------------------------------------------------------------------
Finais == {"CONCLUIDO", "FALHOU"}

\* Only the worker that holds the reservation decides a running job; another
\* process may only put it back in the queue, and only after five minutes
\* without a heartbeat.  A worker that lost its job changes nothing.
SoODonoDecide ==
    [][\A j \in Jobs :
         (job[j].status = "PROCESSANDO" /\ job'[j] # job[j])
            => \/ \E p \in Processos : Dono(p, j) /\ proc'[p] # proc[p]
               \/ job'[j].status = "PENDENTE" /\ job[j].velha
               \/ job'[j] = [job[j] EXCEPT !.velha = ~@]]_vars

\* A job that ended stays so until someone outside the workers reopens it
\* with all its attempts, or a concluded one is cleaned away: no late answer
\* of a worker revives, concludes or fails it again.
FinalNaoVolta ==
    [][\A j \in Jobs :
         (job[j].status \in Finais /\ job'[j].status # job[j].status)
            => /\ job'[j].tentativas = 0
               /\ \/ job'[j].status = "PENDENTE"
                  \/ job[j].status = "CONCLUIDO" /\ job'[j].status = "AUSENTE"]_vars

\* A job fails for good only when its attempts ran out or nothing can run it,
\* and never without telling the administrators.
FalhaAvisada ==
    \A j \in Jobs : job[j].status = "FALHOU" =>
        /\ j \in avisos
        /\ job[j].tentativas = MaxTentativas \/ j \in SemHandler

\* No job is left behind: unless workers go on stopping or stalling for ever,
\* every pending or running job ends, also when the process that reserved it
\* is gone.
TodoJobTermina ==
    <>[][~Defeito]_vars =>
        \A j \in Jobs : job[j].status = "PENDENTE" ~> job[j].status \in Finais \cup {"AUSENTE"}

Estado == [j \in Jobs |-> job[j].status]
Posse == [p \in Processos |-> IF proc[p].passo \in Trabalho /\ Vale(p)
                             THEN proc[p].job ELSE Nenhuma]

Abstrata == INSTANCE FilaAbstrata WITH estado <- Estado, posse <- Posse

\* The rows and the fence of the workers keep the promise of the abstract
\* queue: a job has at most one holder and nobody else ends it.
ImplementaFila == Abstrata!Spec
=============================================================================
