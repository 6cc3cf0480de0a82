---------------------------- MODULE FilaAbstrata ----------------------------
(***************************************************************************)
(* What the durable queue promises to those who enqueue: a job is in the   *)
(* hands of at most one worker, only that worker ends it, and a job that   *)
(* nobody holds may go back to the queue.  How the hold is recorded and    *)
(* lost (reservation, heartbeat, reclaim) is left to module Fila.          *)
(***************************************************************************)
CONSTANTS Jobs, Processos, Nenhuma

VARIABLES
    estado,     \* status of each job
    posse       \* the job each worker holds, or Nenhuma

abstratas == <<estado, posse>>

Finais == {"CONCLUIDO", "FALHOU"}

Init ==
    /\ estado = [j \in Jobs |-> "AUSENTE"]
    /\ posse = [p \in Processos |-> Nenhuma]

Mudar(j, x) == estado' = [estado EXCEPT ![j] = x]

\* A new job, or a final one reopened from outside the workers.
Entrar(j) ==
    /\ estado[j] \in {"AUSENTE"} \cup Finais
    /\ Mudar(j, "PENDENTE")
    /\ UNCHANGED posse

Pegar(p, j) ==
    /\ posse[p] = Nenhuma
    /\ estado[j] = "PENDENTE"
    /\ Mudar(j, "PROCESSANDO")
    /\ posse' = [posse EXCEPT ![p] = j]

Terminar(p, x) ==
    /\ posse[p] # Nenhuma
    /\ x \in Finais \cup {"PENDENTE"}
    /\ Mudar(posse[p], x)
    /\ posse' = [posse EXCEPT ![p] = Nenhuma]

\* A worker stops: its job stays as it is, held by nobody.
Largar(p) ==
    /\ posse' = [posse EXCEPT ![p] = Nenhuma]
    /\ UNCHANGED estado

\* Jobs taken back from whoever held them, in one statement.
Recuperar(S) ==
    /\ \A j \in S : estado[j] = "PROCESSANDO"
    /\ estado' = [j \in Jobs |-> IF j \in S THEN "PENDENTE" ELSE estado[j]]
    /\ posse' = [p \in Processos |-> IF posse[p] \in S THEN Nenhuma ELSE posse[p]]

Apagar(S) ==
    /\ \A j \in S : estado[j] = "CONCLUIDO"
    /\ estado' = [j \in Jobs |-> IF j \in S THEN "AUSENTE" ELSE estado[j]]
    /\ UNCHANGED posse

Next ==
    \/ \E j \in Jobs : Entrar(j)
    \/ \E p \in Processos :
         \/ \E j \in Jobs : Pegar(p, j)
         \/ \E x \in Finais \cup {"PENDENTE"} : Terminar(p, x)
         \/ Largar(p)
    \/ \E S \in SUBSET Jobs : Recuperar(S) \/ Apagar(S)

Spec == Init /\ [][Next]_abstratas
=============================================================================
