----------------------------- MODULE FilaProvas -----------------------------
(***************************************************************************)
(* The queue's rows and workers implement the abstract queue, for any      *)
(* number of jobs, replicas and reservations.  The argument: a reservation *)
(* is written in at most one row and known to at most one worker, and that *)
(* worker works on that row; so the fence of a worker holds only while the *)
(* row is its own.                                                         *)
(*                                                                         *)
(* The last part is about Automacoes, whose occurrences are jobs of the    *)
(* queue: a task is created only for the occurrence that is waited for.    *)
(***************************************************************************)
EXTENDS Fila, TLAPS

FilaTipos ==
    /\ job \in [Jobs -> [status: StatusJob, tentativas: 0..MaxTentativas,
                         reserva: Reservas \cup {Nenhuma}, velha: BOOLEAN]]
    /\ proc \in [Processos -> [passo: Passos, job: Jobs \cup {Nenhuma},
                               reserva: Reservas \cup {Nenhuma},
                               vista: 0..MaxTentativas, voltas: 0..Rodada]]

\* A row has a reservation exactly while it runs, and not another row's.
LinhaInd(j) ==
    /\ job[j].status = "PROCESSANDO" <=> job[j].reserva # Nenhuma
    /\ \A k \in Jobs \ {j} : job[j].reserva # Nenhuma => job[k].reserva # job[j].reserva

\* What a worker knows of its job, and that no other worker knows it.
ProcInd(p) ==
    /\ proc[p].passo \in Trabalho => proc[p].reserva # Nenhuma /\ proc[p].job \in Jobs
    /\ proc[p].passo = "reservando" =>
         /\ proc[p].job \in Jobs /\ job[proc[p].job].status = "PENDENTE"
         /\ proc[p].voltas < Rodada
    /\ \A q \in Processos \ {p} :
         /\ (proc[p].passo \in Trabalho /\ proc[q].passo \in Trabalho)
              => proc[p].reserva # proc[q].reserva
         /\ (proc[p].passo = "reservando" /\ proc[q].passo = "reservando")
              => proc[p].job # proc[q].job

\* The row that carries a worker's reservation is the row it works on.
PosseInd(p, j) ==
    (proc[p].passo \in Trabalho /\ job[j].reserva = proc[p].reserva)
        => proc[p].job = j /\ proc[p].vista = job[j].tentativas

FilaInd ==
    /\ FilaTipos
    /\ \A j \in Jobs : LinhaInd(j)
    /\ \A p \in Processos : ProcInd(p)
    /\ \A p \in Processos, j \in Jobs : PosseInd(p, j)
    /\ FalhaAvisada

USE FilaAssumption

LEMMA FilaInicio == Init => FilaInd
  BY DEF Init, FilaInd, FilaTipos, LinhaInd, ProcInd, PosseInd, FalhaAvisada, Ocioso,
         StatusJob, Passos, Trabalho

LinhaTipo == [status: StatusJob, tentativas: 0..MaxTentativas,
              reserva: Reservas \cup {Nenhuma}, velha: BOOLEAN]

\* One row changes while no worker does: its reservation stays, a pending row
\* stays pending, and only a row without a reservation gets other attempts.
LEMMA UmaLinha ==
    ASSUME FilaInd, UNCHANGED proc, NEW j \in Jobs, NEW n \in LinhaTipo,
           job' = [job EXCEPT ![j] = n],
           n.reserva = job[j].reserva,
           n.status = "PROCESSANDO" <=> job[j].status = "PROCESSANDO",
           job[j].status = "PENDENTE" => n.status = "PENDENTE",
           n.status # "FALHOU",
           n.tentativas = job[j].tentativas \/ n.reserva = Nenhuma,
           UNCHANGED avisos
    PROVE  FilaInd'
<1>1. FilaTipos'
  BY DEF FilaInd, FilaTipos, LinhaTipo
<1>2. job'[j] = n /\ \A k \in Jobs \ {j} : job'[k] = job[k]
  BY DEF FilaInd, FilaTipos
<1>3. \A k \in Jobs : LinhaInd(k)'
  BY <1>2 DEF FilaInd, LinhaInd
<1>4. \A p \in Processos : ProcInd(p)'
  BY <1>2 DEF FilaInd, ProcInd
<1>5. \A p \in Processos, k \in Jobs : PosseInd(p, k)'
  BY <1>2 DEF FilaInd, PosseInd, ProcInd
<1>6. FalhaAvisada'
  BY <1>2 DEF FilaInd, FalhaAvisada
<1>7. QED
  BY <1>1, <1>3, <1>4, <1>5, <1>6 DEF FilaInd

LEMMA ReabrirInd ==
    ASSUME FilaInd, NEW j \in Jobs, job[j].status \in {"AUSENTE", "CONCLUIDO", "FALHOU"},
           Reabrir(j)
    PROVE  FilaInd'
<1> DEFINE n == [job[j] EXCEPT !.status = "PENDENTE", !.tentativas = 0]
<1>1. job[j] \in LinhaTipo /\ job[j].reserva = Nenhuma
  BY DEF FilaInd, FilaTipos, LinhaTipo, LinhaInd
<1>a. 0 \in 0..MaxTentativas /\ "PENDENTE" \in StatusJob
  BY DEF StatusJob
<1>2. n \in LinhaTipo /\ n.status = "PENDENTE" /\ n.reserva = job[j].reserva
  BY <1>1, <1>a DEF LinhaTipo
<1>3. job' = [job EXCEPT ![j] = n] /\ UNCHANGED <<proc, avisos>>
  BY <1>1 DEF Reabrir, FilaInd, FilaTipos
<1> HIDE DEF n
<1>4. QED
  BY <1>1, <1>2, <1>3, UmaLinha

\* velha is the only field that time and the heartbeat write.
LEMMA VelhaInd ==
    ASSUME FilaInd, NEW j \in Jobs, NEW b \in BOOLEAN, job' = [job EXCEPT ![j].velha = b],
           job[j].status # "FALHOU", UNCHANGED <<proc, avisos>>
    PROVE  FilaInd'
<1> DEFINE n == [job[j] EXCEPT !.velha = b]
<1>1. job[j] \in LinhaTipo
  BY DEF FilaInd, FilaTipos, LinhaTipo
<1>2. /\ n \in LinhaTipo
      /\ n.status = job[j].status /\ n.reserva = job[j].reserva
      /\ n.tentativas = job[j].tentativas
  BY <1>1 DEF LinhaTipo
<1>3. job' = [job EXCEPT ![j] = n]
  BY <1>1 DEF FilaInd, FilaTipos
<1> HIDE DEF n
<1>4. QED
  BY <1>2, <1>3, UmaLinha

\* A worker moves to another step and no row changes.
LEMMA UmProcesso ==
    ASSUME FilaInd, UNCHANGED <<job, avisos>>, NEW p \in Processos, proc' \in [Processos ->
               [passo: Passos, job: Jobs \cup {Nenhuma}, reserva: Reservas \cup {Nenhuma},
                vista: 0..MaxTentativas, voltas: 0..Rodada]],
           \A q \in Processos \ {p} : proc'[q] = proc[q],
           \/ proc'[p].passo \in {"parado", "reservar", "limpar"}
           \/ /\ proc[p].passo \in Trabalho /\ proc'[p].passo \in Trabalho
              /\ proc'[p].job = proc[p].job /\ proc'[p].reserva = proc[p].reserva
              /\ proc'[p].vista = proc[p].vista
           \/ /\ proc'[p].passo = "reservando"
              /\ proc'[p].job \in Jobs
              /\ proc'[p].voltas < Rodada
              /\ Visivel(proc'[p].job)
    PROVE  FilaInd'
<1>1. FilaTipos'
  BY DEF FilaInd, FilaTipos
<1>2. \A k \in Jobs : LinhaInd(k)'
  BY DEF FilaInd, LinhaInd
<1>3. \A q \in Processos : ProcInd(q)'
  BY DEF FilaInd, ProcInd, Visivel, Em, Trabalho
<1>4. \A q \in Processos, k \in Jobs : PosseInd(q, k)'
  BY DEF FilaInd, PosseInd, Trabalho
<1>5. FalhaAvisada'
  BY DEF FilaInd, FalhaAvisada
<1>6. QED
  BY <1>1, <1>2, <1>3, <1>4, <1>5 DEF FilaInd

ProcTipo == [passo: Passos, job: Jobs \cup {Nenhuma}, reserva: Reservas \cup {Nenhuma},
             vista: 0..MaxTentativas, voltas: 0..Rodada]

LEMMA OciosoTipo ==
    ASSUME NEW s \in Passos, NEW n \in 0..Rodada
    PROVE  Ocioso(s, n) \in ProcTipo /\ Ocioso(s, n).passo = s
  BY DEF Ocioso, ProcTipo

LEMMA SoProcesso ==
    ASSUME FilaInd, NEW p \in Processos,
           \/ Selecionar(p) \/ EncerrarRodada(p) \/ Executar(p) \/ Interromper(p)
    PROVE  FilaInd'
<1>1. proc \in [Processos -> ProcTipo] /\ proc[p] \in ProcTipo
  BY DEF FilaInd, FilaTipos, ProcTipo
<1>2. 0 \in 0..Rodada /\ \A s \in {"parado", "limpar", "concluir", "falhar", "reservando"} :
         s \in Passos
  BY DEF Passos
<1>3. CASE Selecionar(p)
  <2>1. PICK j \in Jobs : /\ Visivel(j)
                          /\ proc' = [proc EXCEPT ![p].passo = "reservando", ![p].job = j]
    BY <1>3 DEF Selecionar, Proximo
  <2>2. proc' \in [Processos -> ProcTipo] /\ \A q \in Processos \ {p} : proc'[q] = proc[q]
    BY <1>1, <1>2, <2>1 DEF ProcTipo
  <2>3. proc'[p].passo = "reservando" /\ proc'[p].job = j /\ proc'[p].voltas < Rodada
    BY <1>1, <1>3, <2>1 DEF ProcTipo, Selecionar, NoLaco
  <2>4. UNCHANGED <<job, avisos>>
    BY <1>3 DEF Selecionar
  <2>5. proc'[p].job \in Jobs /\ Visivel(proc'[p].job)
    BY <2>1, <2>3
  <2>6. QED
    BY <2>2, <2>3, <2>4, <2>5, UmProcesso DEF ProcTipo
<1>4. CASE EncerrarRodada(p)
  <2>1. proc' \in [Processos -> ProcTipo] /\ \A q \in Processos \ {p} : proc'[q] = proc[q]
    BY <1>1, <1>2, <1>4 DEF EncerrarRodada, ProcTipo
  <2>2. proc'[p].passo = "limpar"
    BY <1>1, <1>4 DEF EncerrarRodada, ProcTipo
  <2>3. QED
    BY <1>4, <2>1, <2>2, UmProcesso DEF EncerrarRodada, ProcTipo
<1>5. CASE Executar(p)
  <2>1. PICK s \in {"concluir", "falhar"} : proc' = [proc EXCEPT ![p].passo = s]
    BY <1>5 DEF Executar
  <2>2. proc' \in [Processos -> ProcTipo] /\ \A q \in Processos \ {p} : proc'[q] = proc[q]
    BY <1>1, <1>2, <2>1 DEF ProcTipo
  <2>3. /\ proc[p].passo \in Trabalho /\ proc'[p].passo \in Trabalho
        /\ proc'[p].job = proc[p].job /\ proc'[p].reserva = proc[p].reserva
        /\ proc'[p].vista = proc[p].vista
    BY <1>1, <1>5, <2>1 DEF Executar, Em, Trabalho, ProcTipo
  <2>4. QED
    BY <1>5, <2>2, <2>3, UmProcesso DEF Executar, ProcTipo
<1>6. CASE Interromper(p)
  <2>1. /\ proc' \in [Processos -> ProcTipo] /\ proc'[p].passo = "parado"
        /\ \A q \in Processos \ {p} : proc'[q] = proc[q]
    BY <1>1, <1>2, <1>6, OciosoTipo DEF Interromper
  <2>2. QED
    BY <1>6, <2>1, UmProcesso DEF Interromper, ProcTipo
<1>7. QED
  BY <1>3, <1>4, <1>5, <1>6

\* The holder writes the end of its job and gives the reservation up.
LEMMA DonoGrava ==
    ASSUME FilaInd, NEW p \in Processos, proc[p].passo \in Trabalho, Vale(p),
           NEW x \in {"CONCLUIDO", "FALHOU", "PENDENTE"}, Gravar(p, x),
           proc' \in [Processos -> ProcTipo], \A q \in Processos \ {p} : proc'[q] = proc[q],
           \/ proc'[p].passo = "reservar"
           \/ /\ proc'[p].passo = "falhar"
              /\ proc'[p].job = proc[p].job /\ proc'[p].reserva = proc[p].reserva,
           avisos \subseteq avisos',
           x = "FALHOU" => Permanente(p) /\ proc[p].job \in avisos'
    PROVE  FilaInd'
<1> DEFINE j == proc[p].job
<1>1. j \in Jobs /\ job \in [Jobs -> LinhaTipo] /\ job[j] \in LinhaTipo
  BY DEF FilaInd, FilaTipos, ProcInd, LinhaTipo
<1>2. x \in StatusJob
  BY DEF StatusJob
<1>3. /\ job' \in [Jobs -> LinhaTipo]
      /\ \A k \in Jobs \ {j} : job'[k] = job[k]
      /\ job'[j].status = x /\ job'[j].reserva = Nenhuma
      /\ job'[j].tentativas = job[j].tentativas
  BY <1>1, <1>2 DEF Gravar, LinhaTipo
<1>4. /\ job[j].status = "PROCESSANDO" /\ job[j].reserva = proc[p].reserva
      /\ proc[p].reserva # Nenhuma
      /\ proc[p].vista = job[j].tentativas
  BY <1>1 DEF Vale, Linha, FilaInd, ProcInd, PosseInd
<1> HIDE DEF j
<1>5. FilaTipos'
  BY <1>3 DEF FilaInd, FilaTipos, LinhaTipo, ProcTipo
<1>6. \A k \in Jobs : LinhaInd(k)'
  BY <1>1, <1>3 DEF FilaInd, LinhaInd
<1>7. \A q \in Processos : ProcInd(q)'
  BY <1>1, <1>3, <1>4 DEF FilaInd, ProcInd, Trabalho, j
<1>8. ASSUME NEW q \in Processos, NEW k \in Jobs
      PROVE  PosseInd(q, k)'
  <2>1. CASE q = p
    BY <1>1, <1>3, <1>4, <2>1 DEF FilaInd, PosseInd, ProcInd, LinhaInd, Trabalho
  <2>2. CASE q # p
    BY <1>1, <1>3, <1>4, <2>2 DEF FilaInd, PosseInd, ProcInd, Trabalho
  <2>3. QED
    BY <2>1, <2>2
<1>9. FalhaAvisada'
  <2>1. x = "FALHOU" => job[j].tentativas = MaxTentativas \/ j \in SemHandler
    <3>1. proc[p].vista \in 0..MaxTentativas
      BY DEF FilaInd, FilaTipos
    <3>2. QED
      BY <1>4, <3>1 DEF Permanente, j
  <2>2. QED
    BY <1>3, <2>1 DEF FilaInd, FalhaAvisada, j
<1>10. QED
  BY <1>5, <1>6, <1>7, <1>8, <1>9 DEF FilaInd

\* The three steps in which a worker reports on its job.
LEMMA Relatar ==
    ASSUME FilaInd, NEW p \in Processos, Concluir(p) \/ Falhar(p) \/ ErroAoConcluir(p)
    PROVE  FilaInd'
<1>1. proc \in [Processos -> ProcTipo] /\ proc[p] \in ProcTipo /\ proc[p].passo \in Trabalho
  BY DEF FilaInd, FilaTipos, ProcTipo, Concluir, Falhar, ErroAoConcluir, Em, Trabalho
<1>2. \/ /\ proc' \in [Processos -> ProcTipo]
         /\ proc'[p].passo = "reservar"
         /\ \A q \in Processos \ {p} : proc'[q] = proc[q]
      \/ /\ proc' \in [Processos -> ProcTipo]
         /\ proc'[p].passo = "falhar" /\ proc'[p].job = proc[p].job
         /\ proc'[p].reserva = proc[p].reserva /\ proc'[p].vista = proc[p].vista
         /\ \A q \in Processos \ {p} : proc'[q] = proc[q]
  <2>1. CASE Continuar(p)
    <3>1. "reservar" \in Passos /\ proc[p].voltas \in 0..Rodada
      BY <1>1 DEF Passos, ProcTipo
    <3>2. QED
      BY <1>1, <2>1, <3>1, OciosoTipo DEF Continuar
  <2>2. CASE proc' = [proc EXCEPT ![p].passo = "falhar"]
    <3>1. "falhar" \in Passos
      BY DEF Passos
    <3>2. QED
      BY <1>1, <2>2, <3>1 DEF ProcTipo
  <2>3. QED
    BY <2>1, <2>2 DEF Concluir, Falhar, ErroAoConcluir
<1>3. CASE UNCHANGED <<job, avisos>>
  <2>1. "falhar" \in Trabalho
    BY DEF Trabalho
  <2>2. QED
    BY <1>1, <1>2, <1>3, <2>1, UmProcesso DEF ProcTipo
<1>4. CASE Vale(p) /\ Gravar(p, "CONCLUIDO") /\ UNCHANGED avisos
  BY <1>1, <1>2, <1>4, DonoGrava
<1>5. CASE Vale(p) /\ Falhar(p)
  <2>1. CASE Permanente(p)
    <3>1. Gravar(p, "FALHOU") /\ avisos' = avisos \cup {proc[p].job}
      BY <1>5, <2>1 DEF Falhar
    <3>2. QED
      BY <1>1, <1>2, <1>5, <2>1, <3>1, DonoGrava
  <2>2. CASE ~Permanente(p)
    <3>1. Gravar(p, "PENDENTE") /\ avisos' = avisos
      BY <1>5, <2>2 DEF Falhar
    <3>2. QED
      BY <1>1, <1>2, <1>5, <2>2, <3>1, DonoGrava
  <2>3. QED
    BY <2>1, <2>2
<1>6. QED
  BY <1>3, <1>4, <1>5 DEF Concluir, Falhar, ErroAoConcluir

\* A reservation nobody has goes to a row that is pending and locked.
LEMMA ReservarInd ==
    ASSUME FilaInd, NEW p \in Processos, Reservar(p)
    PROVE  FilaInd'
<1> DEFINE j == proc[p].job
<1>1. /\ proc \in [Processos -> ProcTipo] /\ proc[p] \in ProcTipo
      /\ job \in [Jobs -> LinhaTipo]
      /\ proc[p].passo = "reservando"
      /\ j \in Jobs /\ job[j] \in LinhaTipo /\ job[j].status = "PENDENTE"
  BY DEF FilaInd, FilaTipos, ProcTipo, LinhaTipo, ProcInd, Reservar, Em
<1>2. PICK r \in Reservas :
        /\ Nova(r)
        /\ job' = [job EXCEPT ![j] = [status |-> "PROCESSANDO", tentativas |-> Mais(@.tentativas),
                                      reserva |-> r, velha |-> FALSE]]
        /\ proc' = [proc EXCEPT ![p].passo = IF j \in SemHandler THEN "falhar" ELSE "executar",
                                ![p].reserva = r, ![p].vista = Mais(Linha(p).tentativas),
                                ![p].voltas = @ + 1]
        /\ UNCHANGED avisos
  BY DEF Reservar
<1>3. Mais(job[j].tentativas) \in 0..MaxTentativas /\ Linha(p) = job[j]
  <2>1. job[j].tentativas \in 0..MaxTentativas
    BY <1>1 DEF LinhaTipo
  <2>2. QED
    BY <2>1 DEF Mais, Linha
<1>4. /\ job' \in [Jobs -> LinhaTipo]
      /\ \A k \in Jobs \ {j} : job'[k] = job[k]
      /\ job'[j].status = "PROCESSANDO" /\ job'[j].reserva = r
      /\ job'[j].tentativas = Mais(job[j].tentativas)
  BY <1>1, <1>2, <1>3 DEF LinhaTipo, StatusJob
<1>5. /\ \A q \in Processos \ {p} : proc'[q] = proc[q]
      /\ proc'[p].passo \in {"executar", "falhar"}
      /\ proc'[p].job = j /\ proc'[p].reserva = r
      /\ proc'[p].vista = Mais(job[j].tentativas)
  BY <1>1, <1>2, <1>3 DEF ProcTipo
<1> HIDE DEF j
<1>6. FilaTipos'
  <2>1. proc[p].voltas + 1 \in 0..Rodada /\ {"executar", "falhar"} \subseteq Passos
    BY <1>1 DEF FilaInd, ProcInd, ProcTipo, Passos
  <2>2. proc' \in [Processos -> ProcTipo]
    BY <1>1, <1>2, <1>3, <2>1 DEF ProcTipo, j
  <2>3. QED
    BY <1>4, <2>2 DEF FilaTipos, LinhaTipo, ProcTipo
<1>7. r # Nenhuma /\ \A k \in Jobs : job[k].reserva # r
  BY <1>2 DEF Nova
<1>8. \A k \in Jobs : LinhaInd(k)'
  BY <1>1, <1>4, <1>7 DEF FilaInd, LinhaInd
<1>9. \A q \in Processos : ProcInd(q)'
  <2>1. \A q \in Processos \ {p} : /\ proc[q].reserva # r
                                   /\ proc[q].passo = "reservando" => proc[q].job # j
    BY <1>1, <1>2 DEF Nova, FilaInd, ProcInd, j
  <2>2. QED
    BY <1>1, <1>4, <1>5, <1>7, <2>1 DEF FilaInd, ProcInd, Trabalho
<1>10. ASSUME NEW q \in Processos, NEW k \in Jobs
       PROVE  PosseInd(q, k)'
  <2>1. CASE q = p
    BY <1>4, <1>5, <1>7, <2>1 DEF PosseInd
  <2>2. CASE q # p
    <3>1. proc'[q] = proc[q] /\ proc[q].reserva # r /\ PosseInd(q, k)
      BY <1>2, <1>5, <2>2 DEF Nova, FilaInd
    <3>2. QED
      BY <1>4, <3>1 DEF PosseInd
  <2>3. QED
    BY <2>1, <2>2
<1>11. FalhaAvisada'
  BY <1>2, <1>4 DEF FilaInd, FalhaAvisada
<1>12. QED
  BY <1>6, <1>8, <1>9, <1>10, <1>11 DEF FilaInd

\* The reclaim at the start of a round.
LEMMA IniciarInd ==
    ASSUME FilaInd, NEW p \in Processos, Iniciar(p)
    PROVE  FilaInd'
<1>1. /\ proc \in [Processos -> ProcTipo] /\ job \in [Jobs -> LinhaTipo]
      /\ "reservar" \in Passos /\ 0 \in 0..Rodada
  BY DEF FilaInd, FilaTipos, ProcTipo, LinhaTipo, Passos
<1>2. /\ proc' \in [Processos -> ProcTipo] /\ proc'[p].passo = "reservar"
      /\ \A q \in Processos \ {p} : proc'[q] = proc[q]
  BY <1>1, OciosoTipo DEF Iniciar
<1>3. /\ job' \in [Jobs -> LinhaTipo]
      /\ \A k \in Jobs : \/ job'[k] = job[k]
                         \/ /\ job[k].status = "PROCESSANDO"
                            /\ job'[k].status = "PENDENTE" /\ job'[k].reserva = Nenhuma
                            /\ job'[k].tentativas = job[k].tentativas
  BY <1>1 DEF Iniciar, Abandonado, LinhaTipo, StatusJob
<1>4. UNCHANGED avisos
  BY DEF Iniciar
<1>5. FilaTipos'
  BY <1>2, <1>3 DEF FilaTipos, LinhaTipo, ProcTipo
<1>6. \A k \in Jobs : LinhaInd(k)'
  BY <1>3 DEF FilaInd, LinhaInd
<1>7. \A q \in Processos : ProcInd(q)'
  BY <1>2, <1>3 DEF FilaInd, ProcInd, Trabalho
<1>8. \A q \in Processos, k \in Jobs : PosseInd(q, k)'
  BY <1>2, <1>3 DEF FilaInd, ProcInd, PosseInd, Trabalho
<1>9. FalhaAvisada'
  BY <1>3, <1>4 DEF FilaInd, FalhaAvisada
<1>10. QED
  BY <1>5, <1>6, <1>7, <1>8, <1>9 DEF FilaInd

LEMMA LimparInd ==
    ASSUME FilaInd, NEW p \in Processos, Limpar(p)
    PROVE  FilaInd'
<1>1. /\ proc \in [Processos -> ProcTipo] /\ job \in [Jobs -> LinhaTipo]
      /\ "parado" \in Passos /\ 0 \in 0..Rodada /\ 0 \in 0..MaxTentativas
  BY DEF FilaInd, FilaTipos, ProcTipo, LinhaTipo, Passos
<1>2. /\ proc' \in [Processos -> ProcTipo] /\ proc'[p].passo = "parado"
      /\ \A q \in Processos \ {p} : proc'[q] = proc[q]
  BY <1>1, OciosoTipo DEF Limpar
<1>3. /\ job' \in [Jobs -> LinhaTipo]
      /\ \A k \in Jobs : \/ job'[k] = job[k]
                         \/ /\ job[k].status = "CONCLUIDO" /\ job'[k].status = "AUSENTE"
                            /\ job'[k].reserva = job[k].reserva
  <2>1. PICK S \in SUBSET {j \in Jobs : job[j].status = "CONCLUIDO"} :
          job' = [j \in Jobs |-> IF j \in S THEN [job[j] EXCEPT !.status = "AUSENTE",
                                                                !.tentativas = 0]
                                 ELSE job[j]]
    BY DEF Limpar
  <2>2. \A k \in Jobs : /\ job[k] \in LinhaTipo
                        /\ [job[k] EXCEPT !.status = "AUSENTE", !.tentativas = 0] \in LinhaTipo
    <3>1. ASSUME NEW l \in LinhaTipo
          PROVE  [l EXCEPT !.status = "AUSENTE", !.tentativas = 0] \in LinhaTipo
      <4>1. [l EXCEPT !.status = "AUSENTE"] \in LinhaTipo
        BY DEF LinhaTipo, StatusJob
      <4>2. \A m \in LinhaTipo : [m EXCEPT !.tentativas = 0] \in LinhaTipo
        BY <1>1 DEF LinhaTipo
      <4>3. QED
        BY <4>1, <4>2
    <3>2. QED
      BY <1>1, <3>1
  <2>3. job' \in [Jobs -> LinhaTipo]
    BY <2>1, <2>2
  <2>4. QED
    BY <2>1, <2>2, <2>3 DEF LinhaTipo
<1>4. UNCHANGED avisos
  BY DEF Limpar
<1>5. FilaTipos'
  BY <1>2, <1>3 DEF FilaTipos, LinhaTipo, ProcTipo
<1>6. \A k \in Jobs : LinhaInd(k)'
  BY <1>3 DEF FilaInd, LinhaInd
<1>7. \A q \in Processos : ProcInd(q)'
  BY <1>2, <1>3 DEF FilaInd, ProcInd, Trabalho
<1>8. \A q \in Processos, k \in Jobs : PosseInd(q, k)'
  BY <1>2, <1>3 DEF FilaInd, LinhaInd, ProcInd, PosseInd, Trabalho
<1>9. FalhaAvisada'
  BY <1>3, <1>4 DEF FilaInd, FalhaAvisada
<1>10. QED
  BY <1>5, <1>6, <1>7, <1>8, <1>9 DEF FilaInd

LEMMA EnvelhecerInd ==
    ASSUME FilaInd, NEW j \in Jobs, Envelhecer(j)
    PROVE  FilaInd'
  BY VelhaInd DEF Envelhecer

LEMMA RenovarInd ==
    ASSUME FilaInd, NEW p \in Processos, Renovar(p)
    PROVE  FilaInd'
<1>1. proc[p].job \in Jobs /\ job[proc[p].job].status = "PROCESSANDO"
  BY DEF Renovar, Vale, Linha, FilaInd, ProcInd
<1>2. QED
  BY <1>1, VelhaInd DEF Renovar

LEMMA FilaParada ==
    ASSUME FilaInd, UNCHANGED <<job, avisos, proc>>
    PROVE  FilaInd'
  BY DEF FilaInd, FilaTipos, LinhaInd, ProcInd, PosseInd, FalhaAvisada

\* The invariant is inductive.
LEMMA FilaPasso ==
    ASSUME FilaInd, [Next]_vars
    PROVE  FilaInd'
<1>1. ASSUME NEW j \in Jobs,
             \/ Adicionar(j) \/ Repetir(j) \/ ReabrirAutomacao(j) \/ Vencer(j) \/ Envelhecer(j)
      PROVE  FilaInd'
  <2>1. CASE Adicionar(j)
    BY <2>1, ReabrirInd DEF Adicionar
  <2>2. CASE Repetir(j)
    BY <2>2, ReabrirInd DEF Repetir
  <2>3. CASE ReabrirAutomacao(j)
    BY <2>3, ReabrirInd DEF ReabrirAutomacao
  <2>4. CASE Vencer(j)
    BY <2>4, FilaParada DEF Vencer
  <2>5. CASE Envelhecer(j)
    BY <2>5, EnvelhecerInd
  <2>6. QED
    BY <1>1, <2>1, <2>2, <2>3, <2>4, <2>5
<1>2. ASSUME NEW p \in Processos,
             Trabalhar(p) \/ Renovar(p) \/ Interromper(p) \/ ErroAoConcluir(p)
      PROVE  FilaInd'
  BY <1>2, IniciarInd, SoProcesso, ReservarInd, Relatar, LimparInd, RenovarInd DEF Trabalhar
<1>3. CASE UNCHANGED vars
  BY <1>3, FilaParada DEF vars
<1>4. QED
  BY <1>1, <1>2, <1>3 DEF Next

\* Reservations and workers agree, however workers stop, stall and fail.
THEOREM FilaIndutiva == Spec => []FilaInd
  BY FilaInicio, FilaPasso, PTL DEF Spec

\* A failed job ran out of attempts or has no handler, and was notified.
THEOREM FalhaSempreAvisada == Spec => []FalhaAvisada
<1>1. FilaInd => FalhaAvisada
  BY DEF FilaInd
<1>2. QED
  BY <1>1, FilaIndutiva, PTL

-----------------------------------------------------------------------------
(***************************************************************************)
(* Refinement.  Each step is a step of the abstract queue or a stutter.    *)
(***************************************************************************)
\* Who holds what only depends on the worker and the row it works on.
LEMMA PosseIgual ==
    ASSUME FilaInd, NEW p \in Processos, proc'[p].passo \in Trabalho <=> proc[p].passo \in Trabalho,
           proc[p].passo \in Trabalho =>
             /\ proc'[p].job = proc[p].job
             /\ proc'[p].reserva = proc[p].reserva
             /\ Linha(p)'.status = Linha(p).status
             /\ Linha(p)'.reserva = Linha(p).reserva
    PROVE  Posse'[p] = Posse[p]
  BY DEF Posse, Vale

LEMMA ReabrirRefina ==
    ASSUME FilaInd, NEW j \in Jobs, job[j].status \in {"AUSENTE", "CONCLUIDO", "FALHOU"},
           Reabrir(j)
    PROVE  Abstrata!Entrar(j)
<1>1. job \in [Jobs -> LinhaTipo] /\ job[j] \in LinhaTipo
  BY DEF FilaInd, FilaTipos, LinhaTipo
<1>2. /\ job' \in [Jobs -> LinhaTipo] /\ job'[j].status = "PENDENTE"
      /\ \A k \in Jobs \ {j} : job'[k] = job[k]
  <2>1. 0 \in 0..MaxTentativas /\ "PENDENTE" \in StatusJob
    BY DEF StatusJob
  <2>2. QED
    BY <1>1, <2>1 DEF Reabrir, LinhaTipo
<1>3. Estado' = [Estado EXCEPT ![j] = "PENDENTE"]
  BY <1>2 DEF Estado
<1>4. Posse' = Posse
  BY <1>2 DEF Posse, Vale, Linha, Reabrir, FilaInd, ProcInd
<1>5. QED
  BY <1>3, <1>4 DEF Abstrata!Entrar, Abstrata!Mudar, Abstrata!Finais, Estado

\* Steps of time and of the heartbeat only write velha.
LEMMA VelhaRefina ==
    ASSUME FilaInd, NEW j \in Jobs, NEW b \in BOOLEAN, job' = [job EXCEPT ![j].velha = b],
           UNCHANGED proc
    PROVE  Estado' = Estado /\ Posse' = Posse
<1>1. /\ \A k \in Jobs : job'[k].status = job[k].status /\ job'[k].reserva = job[k].reserva
  BY DEF FilaInd, FilaTipos
<1>2. Estado' = Estado
  BY <1>1 DEF Estado
<1>3. \A p \in Processos : Posse'[p] = Posse[p]
  BY <1>1, PosseIgual DEF Linha, FilaInd, ProcInd
<1>4. QED
  BY <1>2, <1>3 DEF Posse

LEMMA IniciarRefina ==
    ASSUME FilaInd, NEW p \in Processos, Iniciar(p)
    PROVE  \E S \in SUBSET Jobs : Abstrata!Recuperar(S)
<1> DEFINE S == {j \in Jobs : Abandonado(j)}
<1>1. \A j \in S : Estado[j] = "PROCESSANDO"
  BY DEF Estado, Abandonado
<1>2. ASSUME NEW j \in Jobs
      PROVE  IF j \in S THEN job'[j].status = "PENDENTE" /\ job'[j].reserva = Nenhuma
             ELSE job'[j] = job[j]
  <2>1. job[j] \in LinhaTipo
    BY DEF FilaInd, FilaTipos, LinhaTipo
  <2>2. job'[j] = IF j \in S THEN [job[j] EXCEPT !.status = "PENDENTE", !.reserva = Nenhuma,
                                                 !.velha = FALSE]
                  ELSE job[j]
    BY DEF Iniciar
  <2>3. QED
    BY <2>1, <2>2 DEF LinhaTipo
<1>3. Estado' = [j \in Jobs |-> IF j \in S THEN "PENDENTE" ELSE Estado[j]]
  BY <1>2 DEF Estado
<1>4. ASSUME NEW q \in Processos
      PROVE  Posse'[q] = IF Posse[q] \in S THEN Nenhuma ELSE Posse[q]
  <2>1. CASE q = p
    BY <2>1 DEF Iniciar, Posse, Em, Trabalho, Ocioso, FilaInd, FilaTipos
  <2>2. CASE q # p
    <3>1. proc'[q] = proc[q]
      BY <2>2 DEF Iniciar, FilaInd, FilaTipos
    <3>2. Nenhuma \notin S
      OBVIOUS
    <3>3. QED
      BY <1>2, <3>1, <3>2 DEF Posse, Vale, Linha, FilaInd, ProcInd
  <2>3. QED
    BY <2>1, <2>2
<1>5. Posse' = [q \in Processos |-> IF Posse[q] \in S THEN Nenhuma ELSE Posse[q]]
  <2>1. Posse' = [q \in Processos |-> Posse'[q]]
    BY DEF Posse
  <2>2. QED
    BY <1>4, <2>1
<1>6. S \in SUBSET Jobs /\ Abstrata!Recuperar(S)
  BY <1>1, <1>3, <1>5 DEF Abstrata!Recuperar
<1>7. QED
  BY <1>6

LEMMA ReservarRefina ==
    ASSUME FilaInd, NEW p \in Processos, Reservar(p)
    PROVE  \E j \in Jobs : Abstrata!Pegar(p, j)
<1> DEFINE j == proc[p].job
<1>1. /\ proc \in [Processos -> ProcTipo] /\ proc[p] \in ProcTipo
      /\ job \in [Jobs -> LinhaTipo] /\ proc[p].passo = "reservando"
      /\ j \in Jobs /\ job[j].status = "PENDENTE"
  BY DEF FilaInd, FilaTipos, ProcTipo, LinhaTipo, ProcInd, Reservar, Em
<1>2. PICK r \in Reservas :
        /\ Nova(r)
        /\ job' = [job EXCEPT ![j] = [status |-> "PROCESSANDO", tentativas |-> Mais(@.tentativas),
                                      reserva |-> r, velha |-> FALSE]]
        /\ proc' = [proc EXCEPT ![p].passo = IF j \in SemHandler THEN "falhar" ELSE "executar",
                                ![p].reserva = r, ![p].vista = Mais(Linha(p).tentativas),
                                ![p].voltas = @ + 1]
  BY DEF Reservar
<1>3. /\ \A k \in Jobs \ {j} : job'[k] = job[k]
      /\ job'[j].status = "PROCESSANDO" /\ job'[j].reserva = r
  BY <1>1, <1>2
<1>4. /\ \A q \in Processos \ {p} : proc'[q] = proc[q]
      /\ proc'[p].passo \in Trabalho /\ proc'[p].job = j /\ proc'[p].reserva = r
  BY <1>1, <1>2 DEF ProcTipo, Trabalho
<1> HIDE DEF j
<1>5. Estado' = [Estado EXCEPT ![j] = "PROCESSANDO"] /\ Estado[j] = "PENDENTE"
  BY <1>1, <1>3 DEF Estado
<1>6. Posse[p] = Nenhuma /\ Posse'[p] = j
  BY <1>1, <1>3, <1>4 DEF Posse, Trabalho, Vale, Linha
<1>7. ASSUME NEW q \in Processos \ {p}
      PROVE  Posse'[q] = Posse[q]
  <2>1. proc'[q] = proc[q] /\ proc[q].reserva # r
    BY <1>2, <1>4 DEF Nova
  <2>2. CASE proc[q].job = j
    BY <1>1, <1>3, <2>1, <2>2 DEF Posse, Vale, Linha
  <2>3. CASE proc[q].job # j
    BY <1>3, <2>1, <2>3, PosseIgual DEF Linha, FilaInd, ProcInd
  <2>4. QED
    BY <2>2, <2>3
<1>8. Posse' = [Posse EXCEPT ![p] = j]
  BY <1>6, <1>7 DEF Posse
<1>9. QED
  BY <1>1, <1>5, <1>6, <1>8 DEF Abstrata!Pegar, Abstrata!Mudar

\* The holder's report ends the job; the others hold what they held.
LEMMA GravarRefina ==
    ASSUME FilaInd, NEW p \in Processos, proc[p].passo \in Trabalho, Vale(p),
           NEW x \in {"CONCLUIDO", "FALHOU", "PENDENTE"}, Gravar(p, x),
           \A q \in Processos \ {p} : proc'[q] = proc[q],
           proc'[p].passo \in Trabalho => proc'[p].job = proc[p].job
    PROVE  Abstrata!Terminar(p, x)
<1> DEFINE j == proc[p].job
<1>1. j \in Jobs /\ job \in [Jobs -> LinhaTipo] /\ job[j] \in LinhaTipo
      /\ job[j].status = "PROCESSANDO" /\ job[j].reserva = proc[p].reserva
  BY DEF FilaInd, FilaTipos, ProcInd, LinhaTipo, Vale, Linha
<1>2. /\ \A k \in Jobs \ {j} : job'[k] = job[k]
      /\ job'[j].status = x
  BY <1>1 DEF Gravar, LinhaTipo
<1> HIDE DEF j
<1>3. Estado' = [Estado EXCEPT ![j] = x]
  BY <1>1, <1>2 DEF Estado
<1>4. Posse[p] = j /\ j # Nenhuma
  BY <1>1 DEF Posse, j
<1>5. Posse'[p] = Nenhuma
  BY <1>2 DEF Posse, Vale, Linha, j
<1>6. ASSUME NEW q \in Processos \ {p}
      PROVE  Posse'[q] = Posse[q]
  <2>1. CASE proc[q].job = j /\ proc[q].passo \in Trabalho
    <3>1. proc[q].reserva # job[j].reserva
      BY <1>1, <2>1 DEF FilaInd, ProcInd
    <3>2. QED
      BY <1>1, <1>2, <2>1, <3>1 DEF Posse, Vale, Linha
  <2>2. CASE ~(proc[q].job = j /\ proc[q].passo \in Trabalho)
    BY <1>2, <2>2, PosseIgual DEF Linha, FilaInd, ProcInd
  <2>3. QED
    BY <2>1, <2>2
<1>7. Posse' = [Posse EXCEPT ![p] = Nenhuma]
  BY <1>5, <1>6 DEF Posse
<1>8. Posse[p] # Nenhuma /\ Estado' = [Estado EXCEPT ![Posse[p]] = x]
  BY <1>3, <1>4
<1>9. QED
  BY <1>7, <1>8 DEF Abstrata!Terminar, Abstrata!Mudar, Abstrata!Finais

LEMMA SoProcessoRefina ==
    ASSUME FilaInd, NEW p \in Processos,
           \/ Selecionar(p) \/ EncerrarRodada(p) \/ Executar(p) \/ Interromper(p)
    PROVE  UNCHANGED <<Estado, Posse>> \/ Abstrata!Largar(p)
<1>1. proc \in [Processos -> ProcTipo] /\ proc[p] \in ProcTipo
  BY DEF FilaInd, FilaTipos, ProcTipo
<1>2. /\ UNCHANGED job
      /\ \A q \in Processos \ {p} : proc'[q] = proc[q]
  BY <1>1 DEF Selecionar, EncerrarRodada, Executar, Interromper
<1>3. Estado' = Estado /\ \A q \in Processos \ {p} : Posse'[q] = Posse[q]
  BY <1>2 DEF Estado, Posse, Vale, Linha
<1>4. CASE Interromper(p)
  <2>1. proc'[p].passo = "parado"
    BY <1>1, <1>4 DEF Interromper, Ocioso
  <2>2. Posse'[p] = Nenhuma
    BY <2>1 DEF Posse, Trabalho
  <2>3. Posse' = [Posse EXCEPT ![p] = Nenhuma]
    BY <1>3, <2>2 DEF Posse
  <2>4. QED
    BY <1>3, <2>3 DEF Abstrata!Largar
<1>5. CASE Selecionar(p) \/ EncerrarRodada(p) \/ Executar(p)
  <2>1. Posse'[p] = Posse[p]
    <3>1. CASE Executar(p)
      <4>1. /\ proc[p].passo \in Trabalho /\ proc'[p].passo \in Trabalho
            /\ proc'[p].job = proc[p].job /\ proc'[p].reserva = proc[p].reserva
        BY <1>1, <3>1 DEF Executar, Em, Trabalho, ProcTipo
      <4>2. QED
        BY <1>2, <4>1, PosseIgual DEF Linha
    <3>2. CASE Selecionar(p) \/ EncerrarRodada(p)
      <4>1. proc[p].passo \notin Trabalho /\ proc'[p].passo \notin Trabalho
        BY <1>1, <3>2 DEF Selecionar, EncerrarRodada, Em, Trabalho, ProcTipo
      <4>2. QED
        BY <4>1 DEF Posse
    <3>3. QED
      BY <1>5, <3>1, <3>2
  <2>2. Posse' = Posse
    BY <1>3, <2>1 DEF Posse
  <2>3. QED
    BY <1>3, <2>2
<1>6. QED
  BY <1>4, <1>5

LEMMA RelatarRefina ==
    ASSUME FilaInd, NEW p \in Processos, Concluir(p) \/ Falhar(p) \/ ErroAoConcluir(p)
    PROVE  \/ UNCHANGED <<Estado, Posse>>
           \/ \E x \in Abstrata!Finais \cup {"PENDENTE"} : Abstrata!Terminar(p, x)
<1>1. proc \in [Processos -> ProcTipo] /\ proc[p] \in ProcTipo /\ proc[p].passo \in Trabalho
  BY DEF FilaInd, FilaTipos, ProcTipo, Concluir, Falhar, ErroAoConcluir, Em, Trabalho
<1>2. /\ \A q \in Processos \ {p} : proc'[q] = proc[q]
      /\ \/ proc'[p].passo = "reservar" /\ (Concluir(p) \/ Falhar(p))
         \/ /\ proc'[p].passo = "falhar" /\ ErroAoConcluir(p)
            /\ proc'[p].job = proc[p].job /\ proc'[p].reserva = proc[p].reserva
  BY <1>1 DEF Concluir, Falhar, ErroAoConcluir, Continuar, Ocioso, ProcTipo
<1>3. "reservar" \notin Trabalho /\ "falhar" \in Trabalho
  BY DEF Trabalho
<1>4. CASE UNCHANGED job /\ (Vale(p) => ErroAoConcluir(p))
  <2>1. Estado' = Estado
    BY <1>4 DEF Estado
  <2>2. \A q \in Processos \ {p} : Posse'[q] = Posse[q]
    BY <1>2, <1>4 DEF Posse, Vale, Linha
  <2>3. Posse'[p] = Posse[p]
    <3>1. CASE proc'[p].passo = "reservar"
      <4>1. ~Vale(p)
        BY <1>1, <1>4, <3>1 DEF ErroAoConcluir, ProcTipo
      <4>2. QED
        BY <1>3, <3>1, <4>1 DEF Posse
    <3>2. CASE proc'[p].passo # "reservar"
      BY <1>1, <1>2, <1>3, <1>4, <3>2, PosseIgual DEF Linha
    <3>3. QED
      BY <3>1, <3>2
  <2>4. Posse' = Posse
    BY <2>2, <2>3 DEF Posse
  <2>5. QED
    BY <2>1, <2>4
<1>5. CASE Vale(p) /\ \E x \in {"CONCLUIDO", "FALHOU", "PENDENTE"} : Gravar(p, x)
  BY <1>1, <1>2, <1>3, <1>5, GravarRefina DEF Abstrata!Finais
<1>6. QED
  BY <1>4, <1>5 DEF Concluir, Falhar, ErroAoConcluir

LEMMA LimparRefina ==
    ASSUME FilaInd, NEW p \in Processos, Limpar(p)
    PROVE  \E S \in SUBSET Jobs : Abstrata!Apagar(S)
<1>1. PICK S \in SUBSET {j \in Jobs : job[j].status = "CONCLUIDO"} :
        job' = [j \in Jobs |-> IF j \in S THEN [job[j] EXCEPT !.status = "AUSENTE",
                                                              !.tentativas = 0]
                               ELSE job[j]]
  BY DEF Limpar
<1>2. ASSUME NEW j \in Jobs
      PROVE  IF j \in S THEN job'[j].status = "AUSENTE" ELSE job'[j] = job[j]
  <2>1. job[j] \in LinhaTipo
    BY DEF FilaInd, FilaTipos, LinhaTipo
  <2>2. job'[j] = IF j \in S THEN [job[j] EXCEPT !.status = "AUSENTE", !.tentativas = 0]
                  ELSE job[j]
    BY <1>1
  <2>3. QED
    BY <2>1, <2>2 DEF LinhaTipo
<1>3. /\ Estado' = [j \in Jobs |-> IF j \in S THEN "AUSENTE" ELSE Estado[j]]
      /\ \A j \in S : Estado[j] = "CONCLUIDO"
  BY <1>2 DEF Estado
<1>4. /\ proc[p].passo \notin Trabalho /\ proc'[p].passo \notin Trabalho
      /\ \A q \in Processos \ {p} : proc'[q] = proc[q]
  BY DEF Limpar, Em, Trabalho, Ocioso, FilaInd, FilaTipos
<1>5. ASSUME NEW q \in Processos
      PROVE  Posse'[q] = Posse[q]
  <2>1. CASE q = p
    BY <1>4, <2>1 DEF Posse
  <2>2. CASE q # p
    <3>1. proc'[q] = proc[q] /\ (proc[q].passo \in Trabalho => proc[q].job \in Jobs)
      BY <1>4, <2>2 DEF FilaInd, ProcInd
    <3>2. QED
      BY <1>2, <3>1 DEF Posse, Vale, Linha
  <2>3. QED
    BY <2>1, <2>2
<1>6. Posse' = Posse
  BY <1>5 DEF Posse
<1>7. QED
  BY <1>3, <1>6 DEF Abstrata!Apagar

LEMMA FilaPassoRefina ==
    ASSUME FilaInd, [Next]_vars
    PROVE  [Abstrata!Next]_<<Estado, Posse>>
<1>1. ASSUME NEW j \in Jobs,
             \/ Adicionar(j) \/ Repetir(j) \/ ReabrirAutomacao(j) \/ Vencer(j) \/ Envelhecer(j)
      PROVE  UNCHANGED <<Estado, Posse>> \/ Abstrata!Entrar(j)
  <2>1. CASE Adicionar(j) \/ Repetir(j) \/ ReabrirAutomacao(j)
    BY <2>1, ReabrirRefina DEF Adicionar, Repetir, ReabrirAutomacao
  <2>2. CASE Vencer(j)
    BY <2>2 DEF Vencer, Estado, Posse, Vale, Linha
  <2>3. CASE Envelhecer(j)
    BY <2>3, VelhaRefina DEF Envelhecer
  <2>4. QED
    BY <1>1, <2>1, <2>2, <2>3
<1>2. ASSUME NEW p \in Processos, Renovar(p)
      PROVE  UNCHANGED <<Estado, Posse>>
  <2>1. proc[p].job \in Jobs
    BY <1>2 DEF Renovar, FilaInd, ProcInd
  <2>2. QED
    BY <1>2, <2>1, VelhaRefina DEF Renovar
<1>3. ASSUME NEW p \in Processos, Trabalhar(p) \/ Interromper(p) \/ ErroAoConcluir(p)
      PROVE  UNCHANGED <<Estado, Posse>> \/ Abstrata!Next
  <2>1. CASE Iniciar(p) \/ Limpar(p)
    BY <2>1, IniciarRefina, LimparRefina DEF Abstrata!Next
  <2>2. CASE Reservar(p)
    BY <2>2, ReservarRefina DEF Abstrata!Next
  <2>3. CASE Selecionar(p) \/ EncerrarRodada(p) \/ Executar(p) \/ Interromper(p)
    BY <2>3, SoProcessoRefina DEF Abstrata!Next
  <2>4. CASE Concluir(p) \/ Falhar(p) \/ ErroAoConcluir(p)
    BY <2>4, RelatarRefina DEF Abstrata!Next
  <2>5. QED
    BY <1>3, <2>1, <2>2, <2>3, <2>4 DEF Trabalhar
<1>4. CASE UNCHANGED vars
  BY <1>4 DEF vars, Estado, Posse, Vale, Linha
<1>5. QED
  BY <1>1, <1>2, <1>3, <1>4 DEF Next, Abstrata!Next

\* The queue implements the abstract queue: at most one holder per job, and
\* only the holder ends it, for any number of jobs, replicas and crashes.
THEOREM FilaImplementa == Spec => ImplementaFila
<1>1. Init => Abstrata!Init
  BY DEF Init, Abstrata!Init, Estado, Posse, Ocioso, Trabalho
<1>2. FilaInd /\ [Next]_vars => [Abstrata!Next]_<<Estado, Posse>>
  BY FilaPassoRefina
<1>3. QED
  BY <1>1, <1>2, FilaIndutiva, PTL DEF Spec, ImplementaFila, Abstrata!Spec, Abstrata!abstratas

-----------------------------------------------------------------------------
\* The action of SoODonoDecide for one job.
Decide(j) ==
    (job[j].status = "PROCESSANDO" /\ job'[j] # job[j])
        => \/ \E p \in Processos : Dono(p, j) /\ proc'[p] # proc[p]
           \/ job'[j].status = "PENDENTE" /\ job[j].velha
           \/ job'[j] = [job[j] EXCEPT !.velha = ~@]

LEMMA DecideInd ==
    ASSUME FilaInd, [Next]_vars, NEW j \in Jobs
    PROVE  Decide(j)
<1>1. job \in [Jobs -> LinhaTipo] /\ job[j] \in LinhaTipo
  BY DEF FilaInd, FilaTipos, LinhaTipo
<1>2. ASSUME NEW k \in Jobs, Adicionar(k) \/ Repetir(k) \/ ReabrirAutomacao(k)
      PROVE  Decide(j)
  BY <1>1, <1>2 DEF Decide, Adicionar, Repetir, ReabrirAutomacao, Reabrir
<1>3. ASSUME NEW k \in Jobs, Vencer(k) \/ Envelhecer(k)
      PROVE  Decide(j)
  <2>1. CASE Vencer(k)
    BY <2>1 DEF Decide, Vencer
  <2>2. CASE Envelhecer(k) /\ k = j
    <3>1. job'[j] = [job[j] EXCEPT !.velha = TRUE] /\ ~job[j].velha
      BY <1>1, <2>2 DEF Envelhecer
    <3>2. job'[j] = [job[j] EXCEPT !.velha = ~@]
      BY <1>1, <3>1 DEF LinhaTipo
    <3>3. QED
      BY <3>2 DEF Decide
  <2>3. CASE Envelhecer(k) /\ k # j
    BY <1>1, <2>3 DEF Decide, Envelhecer
  <2>4. QED
    BY <1>3, <2>1, <2>2, <2>3
<1>4. ASSUME NEW p \in Processos, Renovar(p)
      PROVE  Decide(j)
  <2>1. CASE proc[p].job = j
    <3>1. job'[j] = [job[j] EXCEPT !.velha = FALSE]
      BY <1>1, <1>4, <2>1 DEF Renovar
    <3>2. CASE job[j].velha = TRUE
      <4>1. job'[j] = [job[j] EXCEPT !.velha = ~@]
        BY <1>1, <3>1, <3>2 DEF LinhaTipo
      <4>2. QED
        BY <4>1 DEF Decide
    <3>3. CASE job[j].velha = FALSE
      BY <1>1, <3>1, <3>3 DEF Decide, LinhaTipo
    <3>4. QED
      BY <1>1, <3>2, <3>3 DEF LinhaTipo
  <2>2. CASE proc[p].job # j
    BY <1>1, <1>4, <2>2 DEF Decide, Renovar
  <2>3. QED
    BY <2>1, <2>2
<1>5. ASSUME NEW p \in Processos, Iniciar(p)
      PROVE  Decide(j)
  <2>1. job'[j] = IF Abandonado(j)
                  THEN [job[j] EXCEPT !.status = "PENDENTE", !.reserva = Nenhuma, !.velha = FALSE]
                  ELSE job[j]
    BY <1>5 DEF Iniciar
  <2>2. QED
    BY <1>1, <2>1 DEF Decide, Abandonado, LinhaTipo
<1>6. ASSUME NEW p \in Processos, Reservar(p)
      PROVE  Decide(j)
  <2>1. job[proc[p].job].status = "PENDENTE" /\ proc[p].job \in Jobs
    BY <1>6 DEF FilaInd, ProcInd, Reservar, Em
  <2>2. \A k \in Jobs \ {proc[p].job} : job'[k] = job[k]
    BY <1>1, <1>6 DEF Reservar
  <2>3. QED
    BY <2>1, <2>2 DEF Decide
<1>7. ASSUME NEW p \in Processos, Concluir(p) \/ Falhar(p) \/ ErroAoConcluir(p)
      PROVE  Decide(j)
  <2>1. /\ proc[p].passo \in Trabalho /\ proc'[p] # proc[p]
        /\ \A k \in Jobs : (k # proc[p].job \/ ~Vale(p)) => job'[k] = job[k]
    BY <1>7 DEF Concluir, Falhar, ErroAoConcluir, Continuar, Ocioso, Gravar, Em, Trabalho,
                FilaInd, FilaTipos
  <2>2. QED
    BY <2>1 DEF Decide, Dono, Vale, Linha
<1>8. ASSUME NEW p \in Processos, Limpar(p)
      PROVE  Decide(j)
  BY <1>8 DEF Decide, Limpar
<1>9. ASSUME NEW p \in Processos,
             Selecionar(p) \/ EncerrarRodada(p) \/ Executar(p) \/ Interromper(p)
      PROVE  Decide(j)
  BY <1>9 DEF Decide, Selecionar, EncerrarRodada, Executar, Interromper
<1>10. CASE UNCHANGED vars
  BY <1>10 DEF Decide, vars
<1>11. QED
  BY <1>2, <1>3, <1>4, <1>5, <1>6, <1>7, <1>8, <1>9, <1>10 DEF Next, Trabalhar

\* Nobody but the holder decides a running job, and only a stale reservation
\* lets another process put it back.
THEOREM DecideSempre == Spec => SoODonoDecide
<1>1. FilaInd /\ [Next]_vars => [\A j \in Jobs : Decide(j)]_vars
  BY DecideInd
<1>2. QED
  BY <1>1, FilaIndutiva, PTL DEF Spec, SoODonoDecide, Decide

\* The action of FinalNaoVolta for one job.
FinalFica(j) ==
    (job[j].status \in Finais /\ job'[j].status # job[j].status)
        => /\ job'[j].tentativas = 0
           /\ \/ job'[j].status = "PENDENTE"
              \/ job[j].status = "CONCLUIDO" /\ job'[j].status = "AUSENTE"

LEMMA FinalFicaPasso ==
    ASSUME FilaInd, [Next]_vars, NEW j \in Jobs
    PROVE  FinalFica(j)
<1>1. job \in [Jobs -> LinhaTipo] /\ job[j] \in LinhaTipo
  BY DEF FilaInd, FilaTipos, LinhaTipo
<1>2. SUFFICES ASSUME job[j].status \in Finais, job'[j].status # job[j].status
               PROVE  /\ job'[j].tentativas = 0
                      /\ \/ job'[j].status = "PENDENTE"
                         \/ job[j].status = "CONCLUIDO" /\ job'[j].status = "AUSENTE"
  BY DEF FinalFica
<1>3. job[j].status \notin {"PENDENTE", "PROCESSANDO", "AUSENTE"}
  BY <1>2 DEF Finais
<1>4. ASSUME NEW k \in Jobs, Adicionar(k) \/ Repetir(k) \/ ReabrirAutomacao(k)
      PROVE  job'[j].status = "PENDENTE" /\ job'[j].tentativas = 0
  <2>1. job' = [job EXCEPT ![k].status = "PENDENTE", ![k].tentativas = 0]
    BY <1>4 DEF Adicionar, Repetir, ReabrirAutomacao, Reabrir
  <2>2. k = j
    BY <1>1, <1>2, <2>1
  <2>3. job'[j] = [job[j] EXCEPT !.status = "PENDENTE", !.tentativas = 0]
    BY <1>1, <2>1, <2>2
  <2>4. QED
    BY <1>1, <2>3 DEF LinhaTipo
<1>5. ASSUME NEW p \in Processos, Limpar(p)
      PROVE  /\ job'[j].tentativas = 0
             /\ job[j].status = "CONCLUIDO" /\ job'[j].status = "AUSENTE"
  <2>1. PICK S \in SUBSET {k \in Jobs : job[k].status = "CONCLUIDO"} :
          job' = [k \in Jobs |-> IF k \in S THEN [job[k] EXCEPT !.status = "AUSENTE",
                                                                !.tentativas = 0]
                                 ELSE job[k]]
    BY <1>5 DEF Limpar
  <2>2. j \in S /\ job'[j] = [job[j] EXCEPT !.status = "AUSENTE", !.tentativas = 0]
    BY <1>2, <2>1
  <2>3. QED
    BY <1>1, <2>1, <2>2 DEF LinhaTipo
<1>6. ASSUME NEW k \in Jobs, Vencer(k) \/ Envelhecer(k)
      PROVE  FALSE
  BY <1>1, <1>2, <1>3, <1>6 DEF Vencer, Envelhecer
<1>7. ASSUME NEW p \in Processos, Renovar(p)
      PROVE  FALSE
  BY <1>1, <1>2, <1>3, <1>7 DEF Renovar, Vale, Linha
<1>8. ASSUME NEW p \in Processos, Iniciar(p)
      PROVE  FALSE
  BY <1>1, <1>2, <1>3, <1>8 DEF Iniciar, Abandonado
<1>9. ASSUME NEW p \in Processos, Reservar(p)
      PROVE  FALSE
  <2>1. job[proc[p].job].status = "PENDENTE" /\ proc[p].job \in Jobs
    BY <1>9 DEF FilaInd, ProcInd, Reservar, Em
  <2>2. \A k \in Jobs \ {proc[p].job} : job'[k] = job[k]
    BY <1>1, <1>9 DEF Reservar
  <2>3. QED
    BY <1>2, <1>3, <2>1, <2>2
<1>10. ASSUME NEW p \in Processos, Concluir(p) \/ Falhar(p) \/ ErroAoConcluir(p)
       PROVE  FALSE
  <2>1. \A k \in Jobs : (k # proc[p].job \/ ~Vale(p)) => job'[k] = job[k]
    BY <1>10 DEF Concluir, Falhar, ErroAoConcluir, Gravar, FilaInd, FilaTipos
  <2>2. QED
    BY <1>2, <1>3, <2>1 DEF Vale, Linha
<1>11. ASSUME NEW p \in Processos,
              Selecionar(p) \/ EncerrarRodada(p) \/ Executar(p) \/ Interromper(p)
       PROVE  FALSE
  BY <1>2, <1>11 DEF Selecionar, EncerrarRodada, Executar, Interromper
<1>12. CASE UNCHANGED vars
  BY <1>2, <1>12 DEF vars
<1>13. QED
  BY <1>4, <1>5, <1>6, <1>7, <1>8, <1>9, <1>10, <1>11, <1>12 DEF Next, Trabalhar

\* No late answer of a worker revives, concludes or fails again a job that ended:
\* it is reopened from outside with all its attempts, or cleaned away.
THEOREM FinalNuncaVolta == Spec => FinalNaoVolta
<1>1. FilaInd /\ [Next]_vars => [\A j \in Jobs : FinalFica(j)]_vars
  BY FinalFicaPasso
<1>2. QED
  BY <1>1, FilaIndutiva, PTL DEF Spec, FinalNaoVolta, FinalFica

-----------------------------------------------------------------------------
(***************************************************************************)
(* The automations, whose occurrences are jobs of this queue.  What keeps  *)
(* the dates right is not the queue but the compare-and-set on             *)
(* proximaExecucao: an occurrence in a run's list was due when the run     *)
(* started, so the date that the run writes is a later one.  The processes *)
(* and the attempts are the queue's; the queue's state is the abstract one.*)
(***************************************************************************)
CONSTANTS Ids, Empresas, EmpresaDe, Trabalhadores, Limite, Intervalo, MaxHora, MaxEventos

VARIABLES agora, modulo, automacao, tarefas, estado, posse, tentativas, poll, etapa, rodada,
          eventos

Aut == INSTANCE Automacoes

\* A run lists only what was due when it read the clock.
RodadaInd == \A p \in Processos : \A j \in rodada[p].lista : j[2] <= rodada[p].agora

AutomacoesInd == Aut!TypeOK /\ RodadaInd

\* The date after an occurrence that is due is later, and by no more than the interval
\* after the clock.
LEMMA SeguinteDepois ==
    ASSUME Aut!AutomacoesAssumption, NEW o \in Nat, NEW h \in Nat, o <= h
    PROVE  /\ Aut!Seguinte(o, h) \in Nat
           /\ o < Aut!Seguinte(o, h)
           /\ Aut!Seguinte(o, h) <= h + Intervalo
<1> DEFINE q == (h - o) \div Intervalo
<1>0. Intervalo \in Nat \ {0}
  BY DEF Aut!AutomacoesAssumption
<1>1. q \in Nat /\ q * Intervalo <= h - o
  BY <1>0
<1> HIDE DEF q
<1>2. (q + 1) * Intervalo = q * Intervalo + Intervalo /\ q * Intervalo \in Nat
  BY <1>0, <1>1
<1>3. Aut!Seguinte(o, h) = o + (q * Intervalo + Intervalo)
  BY <1>2 DEF Aut!Seguinte, q
<1> DEFINE m == q * Intervalo
<1> HIDE DEF m
<1>4. m \in Nat /\ m <= h - o /\ Aut!Seguinte(o, h) = o + (m + Intervalo)
  BY <1>1, <1>2, <1>3 DEF m
<1>5. QED
  BY <1>0, <1>4

LEMMA AutomacoesInicio == Aut!AutomacoesAssumption /\ Aut!Init => AutomacoesInd
BY DEF Aut!AutomacoesAssumption, Aut!Init, Aut!Fila!Init, Aut!SemPoll, Aut!SemRodada,
       AutomacoesInd, RodadaInd, Aut!TypeOK, Aut!Datas

\* What is due is a job, and due.
LEMMA VencidasDatas ==
    ASSUME Aut!AutomacoesAssumption, Aut!TypeOK
    PROVE  Aut!Vencidas \in SUBSET Aut!Jobs /\ \A j \in Aut!Vencidas : j[2] <= agora
<1> SUFFICES ASSUME NEW a \in Ids, automacao[a].proxima <= agora
             PROVE  Aut!Ocorrencia(a) \in Aut!Jobs /\ Aut!Ocorrencia(a)[2] <= agora
  BY DEF Aut!Vencidas
<1>1. MaxHora \in Nat /\ Intervalo \in Nat /\ agora \in 0 .. MaxHora
  BY DEF Aut!AutomacoesAssumption, Aut!TypeOK
<1>2. automacao[a].proxima \in Nat
  BY <1>1 DEF Aut!TypeOK, Aut!Datas
<1>3. QED
  BY <1>1, <1>2 DEF Aut!Ocorrencia, Aut!Jobs

\* One page of them, and the first ones of a list.
LEMMA PaginaDatas ==
    ASSUME Aut!AutomacoesAssumption, Aut!TypeOK, NEW S, S \subseteq Aut!Vencidas,
           NEW P \in Aut!Paginas(S)
    PROVE  P \in SUBSET Aut!Jobs /\ \A j \in P : j[2] <= agora
BY VencidasDatas DEF Aut!Paginas

\* The queue's part of the state, and the rest.
FilaOK ==
    /\ estado \in [Aut!Jobs -> {"AUSENTE", "PENDENTE", "PROCESSANDO", "CONCLUIDO", "FALHOU"}]
    /\ posse \in [Processos -> Aut!Jobs \cup {Nenhuma}]
    /\ tentativas \in [Aut!Jobs -> 0 .. MaxTentativas]

DadosOK ==
    /\ agora \in 0 .. MaxHora /\ modulo \subseteq Empresas
    /\ automacao \in [Ids -> [ativa : BOOLEAN, proxima : Aut!Datas]]
    /\ tarefas \subseteq Aut!Jobs

EventosOK == eventos \in 0 .. MaxEventos

PollOK == poll \in [Processos -> [lista : SUBSET Aut!Jobs, reabrir : SUBSET Aut!Jobs]]

Rodadas == [quem : {"ninguem", "fila", "tela"}, agora : 0 .. MaxHora, lista : SUBSET Aut!Jobs]

EtapaOK ==
    /\ etapa \in [Processos -> {"parada", "rodar", "ok", "erro"}]
    /\ rodada \in [Processos -> Rodadas]

LEMMA PartesTipo == Aut!TypeOK <=> FilaOK /\ DadosOK /\ EventosOK /\ PollOK /\ EtapaOK
BY DEF Aut!TypeOK, FilaOK, DadosOK, EventosOK, PollOK, EtapaOK, Rodadas

\* What comes from outside is counted.
LEMMA EventosPasso ==
    ASSUME Aut!AutomacoesAssumption, EventosOK, [Aut!Next]_Aut!vars
    PROVE  EventosOK'
<1>1. UNCHANGED eventos \/ Aut!Evento
  BY DEF Aut!Next, Aut!vars, Aut!fila, Aut!relogio, Aut!dados, Aut!Passar, Aut!TrocarModulo,
         Aut!Salvar, Aut!Pesquisar, Aut!Ler, Aut!Adicionar, Aut!Reabrir, Aut!Concluir, Aut!Rodar,
         Aut!Pular, Aut!Executar, Aut!Repetida, Aut!Pegar, Aut!IniciarTela, Aut!Parar,
         Aut!Repetir, Aut!Recuperar
<1>2. QED
  BY <1>1 DEF EventosOK, Aut!Evento, Aut!AutomacoesAssumption

\* Each action of the abstract queue keeps its part.
LEMMA AbstrataTipo ==
    ASSUME FilaOK,
           \/ \E j \in Aut!Jobs : Aut!Fila!Entrar(j) \/ Aut!Fila!Recuperar({j})
           \/ \E p \in Processos :
                \/ \E j \in Aut!Jobs : Aut!Fila!Pegar(p, j)
                \/ \E x \in {"CONCLUIDO", "FALHOU", "PENDENTE"} : Aut!Fila!Terminar(p, x)
                \/ Aut!Fila!Largar(p)
    PROVE  /\ estado' \in [Aut!Jobs ->
                             {"AUSENTE", "PENDENTE", "PROCESSANDO", "CONCLUIDO", "FALHOU"}]
           /\ posse' \in [Processos -> Aut!Jobs \cup {Nenhuma}]
BY DEF FilaOK, Aut!Fila!Entrar, Aut!Fila!Pegar, Aut!Fila!Largar, Aut!Fila!Recuperar,
       Aut!Fila!Terminar, Aut!Fila!Mudar

LEMMA AutomacoesPasso ==
    ASSUME Aut!AutomacoesAssumption, AutomacoesInd, [Aut!Next]_Aut!vars
    PROVE  AutomacoesInd'
<1> USE DEF AutomacoesInd
<1>0. Intervalo \in Nat \ {0} /\ MaxHora \in Nat
  BY DEF Aut!AutomacoesAssumption
<1>1. FilaOK /\ DadosOK /\ PollOK /\ EtapaOK
  BY PartesTipo
<1>2. SUFFICES FilaOK' /\ DadosOK' /\ PollOK' /\ EtapaOK' /\ RodadaInd'
  BY PartesTipo, EventosPasso DEF Aut!TypeOK, FilaOK, DadosOK, EventosOK, PollOK, EtapaOK, Rodadas, Aut!Jobs, Aut!Datas
<1> DEFINE FilaFica == UNCHANGED <<estado, posse, tentativas>>
           DadosFica == UNCHANGED <<agora, modulo, automacao, tarefas>>
           PollFica == UNCHANGED poll
           EtapaFica == UNCHANGED <<etapa, rodada>>
<1>3. FilaFica => FilaOK'
  BY <1>1 DEF FilaOK, Aut!Jobs, Aut!Datas
<1>4. DadosFica => DadosOK'
  BY <1>1 DEF DadosOK, Aut!Jobs, Aut!Datas
<1>5. PollFica => PollOK'
  BY <1>1 DEF PollOK, Aut!Jobs, Aut!Datas
<1>6. EtapaFica => EtapaOK' /\ RodadaInd'
  BY <1>1 DEF EtapaOK, Rodadas, RodadaInd, Aut!Jobs, Aut!Datas
<1> USE DEF Aut!fila, Aut!relogio, Aut!dados
<1>7. ASSUME \/ Aut!Passar
             \/ \E e \in Empresas : Aut!TrocarModulo(e)
             \/ \E a \in Ids : Aut!Salvar(a)
      PROVE  FilaFica /\ DadosOK' /\ PollFica /\ EtapaFica
  <2>1. FilaFica /\ PollFica /\ EtapaFica
    BY <1>7 DEF Aut!Passar, Aut!TrocarModulo, Aut!Salvar
  <2>2. DadosOK'
    <3>1. CASE Aut!Passar
      BY <1>0, <1>1, <3>1 DEF Aut!Passar, DadosOK, Aut!Jobs, Aut!Datas
    <3>2. CASE \E e \in Empresas : Aut!TrocarModulo(e)
      BY <1>1, <3>2 DEF Aut!TrocarModulo, DadosOK, Aut!Jobs, Aut!Datas
    <3>3. ASSUME NEW a \in Ids, Aut!Salvar(a) PROVE DadosOK'
      <4>0. agora .. MaxHora \subseteq Aut!Datas /\ 0 \in Aut!Datas
        BY <1>0, <1>1 DEF DadosOK, Aut!Datas
      <4>1. \/ \E d \in agora .. MaxHora :
                  automacao' = [automacao EXCEPT ![a] = [ativa |-> TRUE, proxima |-> d]]
            \/ automacao' = [automacao EXCEPT ![a] = [ativa |-> FALSE, proxima |-> 0]]
        BY <3>3 DEF Aut!Salvar
      <4>2. PICK x \in BOOLEAN, d \in Aut!Datas :
              automacao' = [automacao EXCEPT ![a] = [ativa |-> x, proxima |-> d]]
        BY <4>0, <4>1
      <4>3. automacao' \in [Ids -> [ativa : BOOLEAN, proxima : Aut!Datas]]
        BY <1>1, <4>2 DEF DadosOK
      <4>4. UNCHANGED <<agora, modulo, tarefas>>
        BY <3>3 DEF Aut!Salvar
      <4>5. QED
        BY <1>1, <4>3, <4>4 DEF DadosOK, Aut!Jobs, Aut!Datas
    <3>4. QED
      BY <1>7, <3>1, <3>2, <3>3
  <2>3. QED
    BY <2>1, <2>2
<1>8. ASSUME NEW p \in Processos, Aut!Pesquisar(p)
      PROVE  FilaOK' /\ DadosFica /\ PollOK' /\ EtapaFica
  <2>1. DadosFica /\ EtapaFica /\ UNCHANGED tentativas
    BY <1>8 DEF Aut!Pesquisar, Aut!Ler, Aut!Adicionar, Aut!Reabrir
  <2>2. FilaOK'
    <3>1. UNCHANGED <<estado, posse>> \/ \E j \in Aut!Jobs : Aut!Fila!Entrar(j)
      BY <1>1, <1>8 DEF Aut!Pesquisar, Aut!Ler, Aut!Adicionar, Aut!Reabrir, PollOK,
                         Aut!Primeiras
    <3>2. QED
      BY <1>1, <2>1, <3>1, AbstrataTipo DEF FilaOK, Aut!Jobs, Aut!Datas
  <2>3. PollOK'
    <3> DEFINE J == Aut!Jobs
    <3>1. J' = J
      BY DEF Aut!Jobs, Aut!Datas
    <3>2. poll \in [Processos -> [lista : SUBSET J, reabrir : SUBSET J]]
      BY <1>1 DEF PollOK
    <3>3. \A S \in Aut!Paginas(Aut!ComModulo) : S \in SUBSET J
      BY PaginaDatas DEF Aut!ComModulo
    <3> HIDE DEF J
    <3> DEFINE P == poll' \in [Processos -> [lista : SUBSET J, reabrir : SUBSET J]]
    <3>4. ASSUME Aut!Ler(p) PROVE P
      BY <3>2, <3>3, <3>4 DEF Aut!Ler
    <3>5. ASSUME Aut!Adicionar(p) PROVE P
      <4>1. PICK j \in poll[p].lista :
              poll' = [poll EXCEPT ![p].lista = @ \ {j},
                                   ![p].reabrir = IF estado[j] = "CONCLUIDO" THEN {j} ELSE {}]
        BY <3>5 DEF Aut!Adicionar, Aut!Primeiras
      <4>2. PICK S \in SUBSET J : S = IF estado[j] = "CONCLUIDO" THEN {j} ELSE {}
        BY <3>2
      <4> DEFINE f == [poll EXCEPT ![p].lista = @ \ {j}]
      <4>3. poll' = [f EXCEPT ![p].reabrir = S]
        BY <4>1, <4>2
      <4>4. f \in [Processos -> [lista : SUBSET J, reabrir : SUBSET J]]
        BY <3>2
      <4> HIDE DEF f
      <4>5. QED
        BY <4>3, <4>4
    <3>6. ASSUME Aut!Reabrir(p) PROVE P
      BY <3>2, <3>6 DEF Aut!Reabrir
    <3>7. QED
      BY <1>8, <3>1, <3>4, <3>5, <3>6 DEF Aut!Pesquisar, PollOK, J
  <2>4. QED
    BY <2>1, <2>2, <2>3
<1>9. ASSUME NEW p \in Processos, NEW j \in Aut!Jobs, Aut!Pegar(p, j)
      PROVE  FilaOK' /\ DadosFica /\ PollFica /\ EtapaOK' /\ RodadaInd'
  <2>1. DadosFica /\ PollFica
    BY <1>9 DEF Aut!Pegar
  <2>2. FilaOK'
    <3>1. tentativas' \in [Aut!Jobs -> 0 .. MaxTentativas]
      BY <1>1, <1>9 DEF Aut!Pegar, FilaOK, Aut!AutomacoesAssumption
    <3>2. QED
      BY <1>1, <1>9, <3>1, AbstrataTipo DEF Aut!Pegar, FilaOK, Aut!Jobs, Aut!Datas
  <2>3. Aut!Alvos(j) \in SUBSET Aut!Jobs /\ \A k \in Aut!Alvos(j) : k[2] <= agora
    BY VencidasDatas DEF Aut!Alvos
  <2>4. EtapaOK' /\ RodadaInd'
    BY <1>1, <1>9, <2>3 DEF Aut!Pegar, EtapaOK, Rodadas, RodadaInd, DadosOK, Aut!Jobs, Aut!Datas
  <2>5. QED
    BY <2>1, <2>2, <2>4
<1>10. ASSUME NEW p \in Processos, NEW e \in Empresas, Aut!IniciarTela(p, e)
       PROVE  FilaFica /\ DadosFica /\ PollFica /\ EtapaOK' /\ RodadaInd'
  <2>1. FilaFica /\ DadosFica /\ PollFica /\ UNCHANGED etapa
    BY <1>10 DEF Aut!IniciarTela
  <2>2. PICK P \in Aut!Paginas(Aut!DaEmpresa(e)) :
           rodada' = [rodada EXCEPT ![p] = [quem |-> "tela", agora |-> agora, lista |-> P]]
    BY <1>10 DEF Aut!IniciarTela
  <2>3. P \in SUBSET Aut!Jobs /\ \A j \in P : j[2] <= agora
    BY PaginaDatas DEF Aut!DaEmpresa
  <2>4. EtapaOK' /\ RodadaInd'
    BY <1>1, <2>1, <2>2, <2>3 DEF EtapaOK, Rodadas, RodadaInd, DadosOK, Aut!Jobs, Aut!Datas
  <2>5. QED
    BY <2>1, <2>4
<1>11. ASSUME NEW p \in Processos, Aut!Rodar(p)
       PROVE  FilaFica /\ DadosOK' /\ PollFica /\ EtapaOK' /\ RodadaInd'
  <2>1. FilaFica /\ PollFica
    BY <1>11 DEF Aut!Rodar, Aut!Pular, Aut!Executar, Aut!Repetida
  <2>2. PICK j \in rodada[p].lista : Aut!Continuar(p, j) \/ Aut!Encerrar(p, "erro")
    BY <1>11 DEF Aut!Rodar, Aut!Pular, Aut!Executar, Aut!Repetida, Aut!Primeiras
  <2>3. EtapaOK' /\ RodadaInd'
    <3> DEFINE R == Rodadas
    <3>1. R' = R
      BY DEF Rodadas, Aut!Jobs, Aut!Datas
    <3>2. \/ etapa' = etapa
          \/ \E x \in {"ok", "erro"} : etapa' = [etapa EXCEPT ![p] = x]
      BY <2>2 DEF Aut!Continuar, Aut!Encerrar
    <3>3. etapa' \in [Processos -> {"parada", "rodar", "ok", "erro"}]
      BY <1>1, <3>2 DEF EtapaOK
    <3>4. \/ rodada' = [rodada EXCEPT ![p] = Aut!SemRodada]
          \/ rodada' = [rodada EXCEPT ![p].lista = @ \ {j}]
      BY <2>2 DEF Aut!Continuar, Aut!Encerrar
    <3>5. rodada' \in [Processos -> R]
      <4>1. Aut!SemRodada \in R
        BY <1>0 DEF Aut!SemRodada, Rodadas
      <4>2. [rodada[p] EXCEPT !.lista = @ \ {j}] \in R
        BY <1>1 DEF EtapaOK, Rodadas
      <4>3. QED
        BY <1>1, <3>4, <4>1, <4>2 DEF EtapaOK
    <3>6. \A q \in Processos : /\ rodada'[q].lista \subseteq rodada[q].lista
                               /\ rodada'[q].lista = {} \/ rodada'[q].agora = rodada[q].agora
      BY <1>1, <3>4 DEF EtapaOK, Rodadas, Aut!SemRodada
    <3>7. RodadaInd'
      BY <3>6 DEF RodadaInd
    <3> HIDE DEF R
    <3>8. QED
      BY <3>1, <3>3, <3>5, <3>7 DEF EtapaOK, R
  <2>4. DadosOK'
    <3>1. CASE Aut!Pular(p) \/ Aut!Repetida(p)
      BY <1>4, <3>1 DEF Aut!Pular, Aut!Repetida
    <3>2. ASSUME NEW k \in rodada[p].lista \ tarefas, tarefas' = tarefas \cup {k},
                 automacao' = [automacao EXCEPT
                     ![k[1]].proxima = Aut!Seguinte(k[2], rodada[p].agora)],
                 UNCHANGED <<agora, modulo>>
          PROVE  DadosOK'
      <4>1. k \in Aut!Jobs /\ k[1] \in Ids /\ k[2] \in Nat /\ k[2] <= rodada[p].agora
        BY <1>1 DEF EtapaOK, Rodadas, RodadaInd, Aut!Jobs, Aut!Datas, Aut!AutomacoesAssumption
      <4>2. rodada[p].agora \in 0 .. MaxHora
        BY <1>1 DEF EtapaOK, Rodadas
      <4> DEFINE s == Aut!Seguinte(k[2], rodada[p].agora)
      <4>3. s \in Aut!Datas
        <5>1. s \in Nat /\ s <= rodada[p].agora + Intervalo
          <6>1. rodada[p].agora \in Nat
            BY <1>0, <4>2
          <6>2. QED
            BY <4>1, <6>1, SeguinteDepois
        <5> HIDE DEF s
        <5>2. QED
          BY <1>0, <4>2, <5>1 DEF Aut!Datas
      <4> HIDE DEF s
      <4>4. automacao' = [automacao EXCEPT ![k[1]].proxima = s]
        BY <3>2 DEF s
      <4>5. QED
        BY <1>1, <3>2, <4>1, <4>3, <4>4 DEF DadosOK, Aut!Jobs, Aut!Datas
    <3>3. QED
      BY <1>11, <3>1, <3>2 DEF Aut!Rodar, Aut!Executar, Aut!Primeiras
  <2>5. QED
    BY <2>1, <2>3, <2>4
<1>12. ASSUME NEW p \in Processos, Aut!Concluir(p)
       PROVE  FilaOK' /\ DadosFica /\ PollFica /\ EtapaOK' /\ RodadaInd'
  <2>1. DadosFica /\ PollFica /\ UNCHANGED rodada
    BY <1>12 DEF Aut!Concluir
  <2>2. PICK x \in {"CONCLUIDO", "FALHOU", "PENDENTE"} : Aut!Fila!Terminar(p, x)
    BY <1>12 DEF Aut!Concluir
  <2>3. tentativas' \in [Aut!Jobs -> 0 .. MaxTentativas]
    BY <1>1, <1>12, <2>2 DEF Aut!Concluir, FilaOK, Aut!Fila!Terminar, Aut!AutomacoesAssumption
  <2>4. FilaOK'
    BY <1>1, <2>2, <2>3, AbstrataTipo DEF FilaOK, Aut!Jobs, Aut!Datas
  <2>5. EtapaOK' /\ RodadaInd'
    BY <1>1, <1>12, <2>1 DEF Aut!Concluir, EtapaOK, Rodadas, RodadaInd, Aut!Jobs, Aut!Datas
  <2>6. QED
    BY <2>1, <2>4, <2>5
<1>13. ASSUME NEW p \in Processos, Aut!Parar(p)
       PROVE  FilaOK' /\ DadosOK' /\ PollOK' /\ EtapaOK' /\ RodadaInd'
  <2>1. FilaOK'
    BY <1>1, <1>13, AbstrataTipo DEF Aut!Parar, FilaOK, Aut!Jobs, Aut!Datas
  <2>2. DadosOK' /\ PollOK'
    BY <1>1, <1>13 DEF Aut!Parar, DadosOK, PollOK, Aut!SemPoll, Aut!Jobs, Aut!Datas,
                       Aut!AutomacoesAssumption
  <2>3. EtapaOK' /\ RodadaInd'
    BY <1>1, <1>13 DEF Aut!Parar, EtapaOK, Rodadas, RodadaInd, Aut!SemRodada, Aut!Jobs, Aut!Datas,
                       Aut!AutomacoesAssumption
  <2>4. QED
    BY <2>1, <2>2, <2>3
<1>14. ASSUME NEW j \in Aut!Jobs, Aut!Repetir(j) \/ Aut!Recuperar(j)
       PROVE  FilaOK' /\ DadosFica /\ PollFica /\ EtapaFica
  <2>1. DadosFica /\ PollFica /\ EtapaFica /\ UNCHANGED tentativas
    BY <1>14 DEF Aut!Repetir, Aut!Recuperar
  <2>2. FilaOK'
    BY <1>1, <1>14, <2>1, AbstrataTipo DEF Aut!Repetir, Aut!Recuperar, FilaOK, Aut!Jobs, Aut!Datas
  <2>3. QED
    BY <2>1, <2>2
<1>15. CASE UNCHANGED Aut!vars
  BY <1>3, <1>4, <1>5, <1>6, <1>15 DEF Aut!vars
<1> HIDE DEF FilaFica, DadosFica, PollFica, EtapaFica
<1>16. QED
  BY <1>3, <1>4, <1>5, <1>6, <1>7, <1>8, <1>9, <1>10, <1>11, <1>12, <1>13, <1>14, <1>15
     DEF Aut!Next

\* The inductive invariant of the automations: types, and a run lists only what was due.
THEOREM AutomacoesIndutivo == Aut!AutomacoesAssumption => (Aut!Spec => []AutomacoesInd)
<1> SUFFICES ASSUME Aut!AutomacoesAssumption PROVE Aut!Spec => []AutomacoesInd
  OBVIOUS
<1>1. Aut!Init => AutomacoesInd
  BY AutomacoesInicio
<1>2. AutomacoesInd /\ [Aut!Next]_Aut!vars => AutomacoesInd'
  BY AutomacoesPasso
<1>3. QED
  BY <1>1, <1>2, PTL DEF Aut!Spec

\* The automations keep their types.
THEOREM AutomacoesTipos == Aut!AutomacoesAssumption => (Aut!Spec => []Aut!TypeOK)
<1>1. AutomacoesInd => Aut!TypeOK
  BY DEF AutomacoesInd
<1>2. QED
  BY <1>1, AutomacoesIndutivo, PTL

\* The action of SoOcorrenciaMarcada for one occurrence.
Marcada(j) ==
    /\ automacao[j[1]].ativa /\ Aut!Ocorrencia(j[1]) = j
    /\ automacao'[j[1]].proxima > j[2]

LEMMA MarcadaPasso ==
    ASSUME Aut!AutomacoesAssumption, AutomacoesInd, [Aut!Next]_Aut!vars,
           NEW j \in tarefas' \ tarefas
    PROVE  Marcada(j)
<1>1. FilaOK /\ DadosOK /\ PollOK /\ EtapaOK
  BY PartesTipo DEF AutomacoesInd
<1>2. Intervalo \in Nat \ {0} /\ MaxHora \in Nat
  BY DEF Aut!AutomacoesAssumption
<1>3. PICK p \in Processos : Aut!Executar(p)
  BY DEF Aut!Next, Aut!vars, Aut!fila, Aut!relogio, Aut!dados, Aut!Passar, Aut!TrocarModulo,
         Aut!Salvar, Aut!Pesquisar, Aut!Ler, Aut!Adicionar, Aut!Reabrir, Aut!Concluir, Aut!Rodar,
         Aut!Pular, Aut!Repetida, Aut!Pegar, Aut!IniciarTela, Aut!Parar, Aut!Repetir,
         Aut!Recuperar
<1>4. PICK k \in rodada[p].lista :
        /\ Aut!Reivindica(k)
        /\ automacao' = [automacao EXCEPT ![k[1]].proxima = Aut!Seguinte(k[2], rodada[p].agora)]
        /\ tarefas' = tarefas \cup {k}
  BY <1>3 DEF Aut!Executar, Aut!Primeiras
<1>5. j = k
  BY <1>4
<1>6. /\ k[1] \in Ids /\ k[2] \in Nat /\ rodada[p].agora \in Nat
      /\ k[2] <= rodada[p].agora
  BY <1>1, <1>2 DEF EtapaOK, Rodadas, AutomacoesInd, RodadaInd, Aut!Jobs, Aut!Datas
<1> DEFINE s == Aut!Seguinte(k[2], rodada[p].agora)
<1>7. s \in Nat /\ k[2] < s
  BY <1>6, SeguinteDepois
<1> HIDE DEF s
<1>8. automacao' = [automacao EXCEPT ![k[1]].proxima = s]
  BY <1>4 DEF s
<1>9. automacao'[k[1]].proxima = s
  BY <1>1, <1>6, <1>8 DEF DadosOK
<1>10. QED
  BY <1>4, <1>5, <1>6, <1>7, <1>9 DEF Marcada, Aut!Reivindica

\* A task is created only for the occurrence that its automation waits for, and the
\* automation then waits for a later one.
THEOREM TarefaMarcada == Aut!AutomacoesAssumption => (Aut!Spec => Aut!SoOcorrenciaMarcada)
<1> SUFFICES ASSUME Aut!AutomacoesAssumption PROVE Aut!Spec => Aut!SoOcorrenciaMarcada
  OBVIOUS
<1>1. AutomacoesInd /\ [Aut!Next]_Aut!vars => [\A j \in tarefas' \ tarefas : Marcada(j)]_Aut!vars
  BY MarcadaPasso
<1>2. QED
  BY <1>1, AutomacoesIndutivo, PTL DEF Aut!Spec, Aut!SoOcorrenciaMarcada, Marcada
=============================================================================
