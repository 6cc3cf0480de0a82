---------------------------- MODULE Assinaturas ----------------------------
(***************************************************************************)
(* The company's subscription (AssinaturasService) and the end of its      *)
(* account (LgpdService, LgpdScheduler), against a payment provider that   *)
(* changes by itself: the client pays an open checkout, a session expires, *)
(* a subscription changes or is cancelled.                                 *)
(*                                                                         *)
(* Every operation is one transaction that holds the locks of the company  *)
(* and of its row while it calls the provider.  A key names the checkout   *)
(* session created with it (sessions.create is idempotent by key) and the  *)
(* subscription that paying it starts.  A version stands for all that the  *)
(* provider says of a subscription, and so for all that reconcile copies.  *)
(***************************************************************************)
EXTENDS Integers, FiniteSets

CONSTANTS
    Requisicoes,    \* calls that may run at once
    Rotina,         \* the ASSINATURA_RECONCILIAR job
    Chaves,         \* values of randomUUID()
    Planos,
    Exclusoes,      \* rows of exclusoes_conta
    Nada,
    MaxVersao       \* bound on the provider's changes to one subscription

Transacoes == Requisicoes \cup {Rotina}

ASSUME AssinaturasAssumption ==
    /\ Rotina \notin Requisicoes
    /\ Nada \notin Transacoes \cup Chaves \cup Planos \cup Exclusoes
    /\ Nada \notin Chaves \X (1 .. MaxVersao)
    /\ MaxVersao \in Nat \ {0}

VARIABLES
    linha,          \* assinaturas: [sub, versao, ck]; ck = checkoutId, checkoutChave, checkoutPlano
    conta,          \* the company's row
    exclusao,       \* Exclusoes -> state of the request to delete the account
    recibos,        \* eventos_stripe: <<subscription, version>> of the notification
    trava,          \* the transaction that holds the company's lock
    tx,             \* running calls: [passo, op, plano, alvo, ck, atual]
    sessao,         \* provider: checkout sessions
    assin,          \* provider: subscriptions [estado, versao, fim]
    dadas,          \* sessions whose url a client has received
    largadas        \* sessions that were open when reconcile dropped the link to them

vars == <<linha, conta, exclusao, recibos, trava, tx, sessao, assin, dadas, largadas>>
provedor == <<sessao, assin>>
tabelas == <<linha, conta, exclusao, recibos>>
clientes == <<dadas, largadas>>

Eventos == Chaves \X (1 .. MaxVersao)
Vinculos == [sessao: Chaves \cup {Nada}, chave: Chaves \cup {Nada}, plano: Planos \cup {Nada}]
Operacoes == {"checkout", "reconciliar", "solicitar", "excluir"}
Passos == {"fora", "reservar", "travar", "listar", "consultar", "expirar", "criar",
           "gravar", "conferir", "concluir"}

TypeOK ==
    /\ linha \in [sub: Chaves \cup {Nada}, versao: 0 .. MaxVersao, ck: Vinculos]
    /\ conta \in {"viva", "removida"}
    /\ exclusao \in [Exclusoes -> {"nenhuma", "pendente", "encerrada"}]
    /\ recibos \subseteq Eventos
    /\ trava \in Transacoes \cup {Nada}
    /\ tx \in [Transacoes -> [passo: Passos, op: Operacoes, plano: Planos \cup {Nada},
                              alvo: Eventos \cup Exclusoes \cup {Nada}, ck: Vinculos,
                              atual: Eventos \cup {Nada}]]
    /\ sessao \in [Chaves -> {"nenhuma", "aberta", "paga", "expirada"}]
    /\ assin \in [Chaves -> [estado: {"nenhuma", "andamento", "cancelada"},
                             versao: 0 .. MaxVersao, fim: BOOLEAN]]
    /\ dadas \subseteq Chaves
    /\ largadas \subseteq dadas

SemVinculo == [sessao |-> Nada, chave |-> Nada, plano |-> Nada]
Ociosa == [passo |-> "fora", op |-> "reconciliar", plano |-> Nada, alvo |-> Nada,
           ck |-> SemVinculo, atual |-> Nada]

Init ==
    /\ linha = [sub |-> Nada, versao |-> 0, ck |-> SemVinculo]
    /\ conta = "viva"
    /\ exclusao = [e \in Exclusoes |-> "nenhuma"]
    /\ recibos = {}
    /\ trava = Nada
    /\ tx = [t \in Transacoes |-> Ociosa]
    /\ sessao = [k \in Chaves |-> "nenhuma"]
    /\ assin = [k \in Chaves |-> [estado |-> "nenhuma", versao |-> 0, fim |-> FALSE]]
    /\ dadas = {}
    /\ largadas = {}

-----------------------------------------------------------------------------
Em(t, s) == tx[t].passo = s
Op(t, o) == tx[t].op = o
EmAndamento == {k \in Chaves : assin[k].estado = "andamento"}
Listadas == {k \in Chaves : assin[k].estado # "nenhuma"}
Ir(t, s) == tx' = [tx EXCEPT ![t].passo = s]

\* The request that an excluirTenant in progress has reserved: its row is locked.
Reservada(e) == \E t \in Transacoes : Op(t, "excluir") /\ tx[t].alvo = e
                                      /\ tx[t].passo \notin {"fora", "reservar"}

\* The transaction ends and its locks go; what it wrote stays or not as the caller says.
Sair(t) ==
    /\ tx' = [tx EXCEPT ![t] = Ociosa]
    /\ trava' = IF trava = t THEN Nada ELSE trava

\* It ends having written nothing (an early return, an exception or a rollback).
Desistir(t) == Sair(t) /\ UNCHANGED <<tabelas, provedor, clientes>>

\* It ends with the checkout link ck in the row.
Vincular(t, ck) ==
    /\ Sair(t)
    /\ linha' = [linha EXCEPT !.ck = ck]
    /\ UNCHANGED <<conta, exclusao, recibos, provedor>>

Iniciar(t, s, o, p, a) ==
    /\ Em(t, "fora")
    /\ conta = "viva"
    /\ tx' = [tx EXCEPT ![t] = [Ociosa EXCEPT !.passo = s, !.op = o, !.plano = p, !.alvo = a]]
    /\ UNCHANGED <<tabelas, provedor, clientes, trava>>

Checkout(t) == \E p \in Planos : Iniciar(t, "travar", "checkout", p, Nada)

\* A notification of any change so far: late, repeated, out of order, or never.
Webhook(t) == \E k \in Chaves : \E v \in 1 .. assin[k].versao :
                 Iniciar(t, "travar", "reconciliar", Nada, <<k, v>>)

Atualizar(t) == Iniciar(t, "travar", "reconciliar", Nada, Nada)

SolicitarExclusao(t) == \E e \in Exclusoes :
    exclusao[e] = "nenhuma" /\ Iniciar(t, "travar", "solicitar", Nada, e)

\* executarExclusoes found the request pending (and due).
ExecutarExclusao(t) == \E e \in Exclusoes :
    exclusao[e] = "pendente" /\ Iniciar(t, "reservar", "excluir", Nada, e)

\* updateMany waits for a row that an excluirTenant has reserved.
CancelarExclusao ==
    /\ conta = "viva"
    /\ \E e \in Exclusoes : exclusao[e] = "pendente"
    /\ \A e \in Exclusoes : ~Reservada(e)
    /\ exclusao' = [e \in Exclusoes |->
                      IF exclusao[e] = "pendente" THEN "encerrada" ELSE exclusao[e]]
    /\ UNCHANGED <<linha, conta, recibos, trava, tx, provedor, clientes>>

ReservarSemConferir(t) ==    \* mutated form: the scan's read is trusted
    /\ Em(t, "reservar")
    /\ ~Reservada(tx[t].alvo)
    /\ Ir(t, "travar")
    /\ UNCHANGED <<tabelas, provedor, clientes, trava>>

\* excluirTenant: UPDATE ... WHERE executada = false, uncommitted until the end.
Reservar(t) ==
    /\ Em(t, "reservar")
    /\ ~Reservada(tx[t].alvo)
    /\ \/ /\ exclusao[tx[t].alvo] = "pendente" /\ conta = "viva"
          /\ Ir(t, "travar")
          /\ UNCHANGED <<tabelas, provedor, clientes, trava>>
       \/ /\ ~(exclusao[tx[t].alvo] = "pendente" /\ conta = "viva")
          /\ Desistir(t)

TravarSemTrava(t) ==    \* mutated form: reconcile takes no lock
    /\ Em(t, "travar")
    /\ conta = "viva" /\ tx[t].alvo \notin recibos
    /\ Op(t, "reconciliar") \/ trava = Nada
    /\ trava' = IF Op(t, "reconciliar") THEN trava ELSE t
    /\ tx' = [tx EXCEPT ![t].passo = "listar", ![t].ck = linha.ck]
    /\ UNCHANGED <<tabelas, provedor, clientes>>

\* FOR UPDATE of the company, then UPDATE of the row (which fails when it is gone).
Travar(t) ==
    /\ Em(t, "travar")
    /\ trava = Nada
    /\ \/ /\ conta = "viva"
          /\ ~(Op(t, "reconciliar") /\ tx[t].alvo \in recibos)
          /\ trava' = t
          /\ tx' = [tx EXCEPT ![t].passo = "listar", ![t].ck = linha.ck]
          /\ UNCHANGED <<tabelas, provedor, clientes>>
       \/ /\ conta = "removida" \/ (Op(t, "reconciliar") /\ tx[t].alvo \in recibos)
          /\ Desistir(t)

-----------------------------------------------------------------------------
(* checkout *)

NoCheckout(t, s) == Op(t, "checkout") /\ Em(t, s)

ListarCheckout(t) ==
    /\ NoCheckout(t, "listar")
    /\ \/ EmAndamento # {} /\ Desistir(t)
       \/ /\ EmAndamento = {}
          /\ Ir(t, IF tx[t].ck.sessao # Nada THEN "consultar" ELSE "criar")
          /\ UNCHANGED <<tabelas, provedor, clientes, trava>>

ConsultarSemExpirar(t) ==    \* mutated form: another plan's session is left open
    /\ NoCheckout(t, "consultar")
    /\ tx' = [tx EXCEPT ![t].passo = "criar", ![t].ck = SemVinculo]
    /\ UNCHANGED <<tabelas, provedor, clientes, trava>>

\* The recorded session is complete (409), open for this plan (its url again),
\* open for another (to expire) or gone (the link is cleared).
ConsultarSessao(t) ==
    /\ NoCheckout(t, "consultar")
    /\ LET k == tx[t].ck.sessao IN
       \/ sessao[k] = "paga" /\ Desistir(t)
       \/ /\ sessao[k] = "aberta" /\ tx[t].ck.plano = tx[t].plano
          /\ Sair(t)
          /\ dadas' = dadas \cup {k}
          /\ UNCHANGED <<tabelas, provedor, largadas>>
       \/ /\ sessao[k] = "aberta" /\ tx[t].ck.plano # tx[t].plano
          /\ Ir(t, "expirar")
          /\ UNCHANGED <<tabelas, provedor, clientes, trava>>
       \/ /\ sessao[k] = "expirada"
          /\ tx' = [tx EXCEPT ![t].passo = "criar", ![t].ck = [@ EXCEPT !.sessao = Nada,
                                                                      !.chave = Nada]]
          /\ UNCHANGED <<tabelas, provedor, clientes, trava>>

\* Only an open session can be expired: one paid meanwhile is an error.
ExpirarSessao(t) ==
    /\ NoCheckout(t, "expirar")
    /\ LET k == tx[t].ck.sessao IN
       \/ /\ sessao[k] = "aberta"
          /\ sessao' = [sessao EXCEPT ![k] = "expirada"]
          /\ tx' = [tx EXCEPT ![t].passo = "criar", ![t].ck = [@ EXCEPT !.sessao = Nada,
                                                                      !.chave = Nada]]
          /\ UNCHANGED <<tabelas, assin, clientes, trava>>
       \/ sessao[k] # "aberta" /\ Desistir(t)

\* Keys that no session, row or running call has.
Novas == {k \in Chaves : sessao[k] = "nenhuma" /\ linha.ck.chave # k
                         /\ \A t \in Transacoes : tx[t].ck.chave # k}

\* The call goes out with the stored key or a new one.  The session is made, or was
\* made by an earlier attempt; the answer may be lost, before or after it was made.
CriarSessao(t) ==
    /\ NoCheckout(t, "criar")
    /\ LET ck == tx[t].ck IN
       \/ /\ ck.chave # Nada /\ ck.plano # tx[t].plano
          /\ Desistir(t)
       \/ \E k \in (IF ck.chave = Nada THEN Novas ELSE {ck.chave}), feita, respondeu \in BOOLEAN :
            /\ ck.chave # Nada => ck.plano = tx[t].plano
            /\ respondeu => feita
            /\ sessao' = [sessao EXCEPT ![k] = IF feita /\ @ = "nenhuma" THEN "aberta" ELSE @]
            /\ tx' = [tx EXCEPT ![t].passo = "gravar", ![t].ck =
                        [sessao |-> IF respondeu THEN k ELSE Nada, chave |-> k,
                         plano |-> tx[t].plano]]
            /\ UNCHANGED <<tabelas, assin, clientes, trava>>

\* The commit, also after a provider's error: the key is kept.  The url goes to the client.
GravarCheckout(t) ==
    /\ NoCheckout(t, "gravar")
    /\ Vincular(t, tx[t].ck)
    /\ dadas' = dadas \cup ({tx[t].ck.sessao} \ {Nada})
    /\ UNCHANGED largadas

-----------------------------------------------------------------------------
(* reconcile: webhook, the administrator's refresh, the hourly job *)

NaReconciliacao(t, s) == Op(t, "reconciliar") /\ Em(t, s)

AtuaisPelaLinha == IF linha.sub \in Listadas THEN {linha.sub} ELSE Listadas    \* mutated form

\* The subscription that counts: the ongoing one, else the recorded, else the latest.
Atuais ==
    IF EmAndamento # {} THEN EmAndamento
    ELSE IF linha.sub \in Listadas THEN {linha.sub} ELSE Listadas

ListarJaRecebida(t) ==    \* mutated form: the receipt is committed before the row
    /\ NaReconciliacao(t, "listar")
    /\ Cardinality(EmAndamento) <= 1
    /\ recibos' = recibos \cup ({tx[t].alvo} \ {Nada})
    /\ \E k \in Atuais :
         tx' = [tx EXCEPT ![t].passo = "gravar", ![t].atual = <<k, assin[k].versao>>]
    /\ UNCHANGED <<linha, conta, exclusao, provedor, clientes, trava>>

\* subscriptions.list answers: several ongoing are a conflict, left to an operator.
ListarReconciliacao(t) ==
    /\ NaReconciliacao(t, "listar")
    /\ \/ Cardinality(EmAndamento) > 1 /\ Desistir(t)
       \/ /\ Cardinality(EmAndamento) <= 1
          /\ \/ Atuais = {} /\ Ir(t, "gravar")
             \/ \E k \in Atuais :
                  tx' = [tx EXCEPT ![t].passo = "gravar", ![t].atual = <<k, assin[k].versao>>]
          /\ UNCHANGED <<tabelas, provedor, clientes, trava>>

\* The copy of the subscription, the checkout link cleared, the receipt: one commit.
GravarReconciliacao(t) ==
    /\ NaReconciliacao(t, "gravar")
    /\ Sair(t)
    /\ recibos' = recibos \cup ({tx[t].alvo} \ {Nada})
    /\ \/ /\ tx[t].atual = Nada
          /\ UNCHANGED <<linha, clientes>>
       \/ /\ tx[t].atual # Nada
          /\ linha' = [sub |-> tx[t].atual[1], versao |-> tx[t].atual[2], ck |-> SemVinculo]
          /\ largadas' = largadas \cup {k \in dadas : k = linha.ck.sessao /\ sessao[k] = "aberta"}
          /\ UNCHANGED dadas
    /\ UNCHANGED <<conta, exclusao, provedor>>

-----------------------------------------------------------------------------
(* validarEncerramento, inside solicitarExclusao and excluirTenant *)

NoEncerramento(t, s) == tx[t].op \in {"solicitar", "excluir"} /\ Em(t, s)

\* A request of today accepts a subscription that ends before the removal; the removal none.
CobrancaImpede(t) ==
    \/ \E k \in EmAndamento : Op(t, "excluir") \/ ~assin[k].fim
    \/ tx[t].ck.chave # Nada /\ tx[t].ck.sessao = Nada

ListarEncerramento(t) ==
    /\ NoEncerramento(t, "listar")
    /\ \/ CobrancaImpede(t) /\ Desistir(t)
       \/ /\ ~CobrancaImpede(t)
          /\ Ir(t, IF tx[t].ck.sessao = Nada THEN "concluir" ELSE "conferir")
          /\ UNCHANGED <<tabelas, provedor, clientes, trava>>

ConferirSemSessao(t) ==    \* mutated form: a completed session does not stop the removal
    /\ NoEncerramento(t, "conferir")
    /\ sessao[tx[t].ck.sessao] # "aberta"
    /\ Ir(t, "concluir")
    /\ UNCHANGED <<tabelas, provedor, clientes, trava>>

\* The recorded session must have expired.
ConferirSessao(t) ==
    /\ NoEncerramento(t, "conferir")
    /\ \/ sessao[tx[t].ck.sessao] # "expirada" /\ Desistir(t)
       \/ /\ sessao[tx[t].ck.sessao] = "expirada"
          /\ Ir(t, "concluir")
          /\ UNCHANGED <<tabelas, provedor, clientes, trava>>

\* exclusaoConta.create, or the delete of the company (its rows go by cascade; another
\* request that is being executed holds its row, and the database ends one of the two).
Concluir(t) ==
    /\ NoEncerramento(t, "concluir")
    /\ Sair(t)
    /\ \/ /\ Op(t, "solicitar")
          /\ exclusao[tx[t].alvo] = "nenhuma"
          /\ exclusao' = [exclusao EXCEPT ![tx[t].alvo] = "pendente"]
          /\ UNCHANGED conta
       \/ /\ Op(t, "excluir")
          /\ \A e \in Exclusoes \ {tx[t].alvo} : ~Reservada(e)
          /\ conta' = "removida"
          /\ UNCHANGED exclusao
    /\ UNCHANGED <<linha, recibos, provedor, clientes>>

-----------------------------------------------------------------------------
(* The provider, its clients, and failures *)

\* A client pays a checkout whose url the system gave.
Pagar(k) ==
    /\ k \in dadas
    /\ sessao[k] = "aberta"
    /\ sessao' = [sessao EXCEPT ![k] = "paga"]
    /\ assin' = [assin EXCEPT ![k] = [estado |-> "andamento", versao |-> 1, fim |-> FALSE]]
    /\ UNCHANGED <<tabelas, trava, tx, clientes>>

SessaoExpira(k) ==
    /\ sessao[k] = "aberta"
    /\ sessao' = [sessao EXCEPT ![k] = "expirada"]
    /\ UNCHANGED <<tabelas, trava, tx, assin, clientes>>

\* An invoice, the end of renewal asked or withdrawn in the portal, the cancellation.
Mudar(k) ==
    /\ assin[k].estado = "andamento"
    /\ assin[k].versao < MaxVersao
    /\ \E s \in {"andamento", "cancelada"}, f \in BOOLEAN :
         assin' = [assin EXCEPT ![k] = [estado |-> s, versao |-> @.versao + 1, fim |-> f]]
    /\ UNCHANGED <<tabelas, trava, tx, sessao, clientes>>

\* The process stops, the transaction times out or the provider fails: a rollback.
\* (A call that ends before it holds a lock is a call that was not made.)
Abortar(t) == (trava = t \/ (Op(t, "excluir") /\ Em(t, "travar"))) /\ Desistir(t)

Passo(t) ==
    \/ Reservar(t) \/ Travar(t)
    \/ ListarCheckout(t) \/ ConsultarSessao(t) \/ ExpirarSessao(t)
    \/ CriarSessao(t) \/ GravarCheckout(t)
    \/ ListarReconciliacao(t) \/ GravarReconciliacao(t)
    \/ ListarEncerramento(t) \/ ConferirSessao(t) \/ Concluir(t)

Pedir(t) == Checkout(t) \/ Webhook(t) \/ Atualizar(t)
            \/ SolicitarExclusao(t) \/ ExecutarExclusao(t)

Provedor == \E k \in Chaves : Pagar(k) \/ SessaoExpira(k) \/ Mudar(k)

Next ==
    \/ \E t \in Requisicoes : Pedir(t)
    \/ Atualizar(Rotina)
    \/ \E t \in Transacoes : Passo(t) \/ Abortar(t)
    \/ CancelarExclusao
    \/ Provedor

Spec == Init /\ [][Next]_vars

(***************************************************************************)
(* Fairness.  A transaction ends: by itself or at its timeout (30 or 60    *)
(* s), which rolls it back.  The job is enqueued every hour, PostgreSQL    *)
(* serves the waiters of a lock in order, and the provider and the         *)
(* database do not fail each and every time the job comes back to them.    *)
(***************************************************************************)
Justica ==
    /\ WF_vars(Atualizar(Rotina))
    /\ \A t \in Transacoes : WF_vars(Passo(t) \/ Abortar(t))
    /\ SF_vars(Travar(Rotina))
    /\ SF_vars(ListarReconciliacao(Rotina))
    /\ SF_vars(GravarReconciliacao(Rotina))

SpecJusta == Spec /\ Justica

-----------------------------------------------------------------------------
Contratadas == EmAndamento \cup {k \in dadas : sessao[k] = "aberta"}

(***************************************************************************)
(* checkout never leaves a client two ways to pay: at most one subscription*)
(* is ongoing or can still be started from a url the client has, however   *)
(* attempts, plans, lost answers, rollbacks and payments interleave.  The  *)
(* sessions that reconcile lost sight of are apart: see UmaCobranca.       *)
(***************************************************************************)
UmaContratacao == Cardinality(Contratadas \ largadas) <= 1

(***************************************************************************)
(* A retry recovers the same session instead of charging twice: no two     *)
(* subscriptions of the company are ongoing together.                      *)
(***************************************************************************)
UmaCobranca == Cardinality(EmAndamento) <= 1

(***************************************************************************)
(* An account is removed only when nothing is charged to it, now or from   *)
(* an open checkout it recorded: payments and changes may slip in between  *)
(* any two calls of validarEncerramento.                                   *)
(***************************************************************************)
ContaSemCobranca == conta = "removida" => Contratadas \subseteq largadas

(***************************************************************************)
(* A receipt makes every later delivery of the notification a no-op: it    *)
(* may exist only when the row already has what the notification told.     *)
(***************************************************************************)
ReciboConfere ==
    \A r \in recibos : linha.sub = r[1] => linha.versao >= r[2]

(***************************************************************************)
(* Notifications late, repeated or out of order, the job and the           *)
(* administrator's refresh never take the row back to an older state of    *)
(* the subscription it has.                                                *)
(***************************************************************************)
NuncaVolta == [][linha'.sub = linha.sub => linha'.versao >= linha.versao]_linha

(***************************************************************************)
(* Once its owner has cancelled every request, the account stays: a        *)
(* removal commits only while some request still stands.                   *)
(***************************************************************************)
CanceladaNaoRemove == [][conta' # conta => \E e \in Exclusoes : exclusao[e] = "pendente"]_conta

Concorda ==
    \A k \in Chaves : k \in EmAndamento \/ linha.sub = k =>
        linha.sub = k /\ linha.versao = assin[k].versao

(***************************************************************************)
(* Even if every notification is lost, the row comes to say what the       *)
(* provider says, unless the account is removed or two subscriptions       *)
(* conflict for good.                                                      *)
(***************************************************************************)
ConcordaNoFim ==
    <>[](conta = "viva" /\ UmaCobranca) => <>[]Concorda
=============================================================================
