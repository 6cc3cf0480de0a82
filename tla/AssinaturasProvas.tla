-------------------------- MODULE AssinaturasProvas --------------------------
(***************************************************************************)
(* Proofs about the subscription and the end of the account: a client is   *)
(* never left two ways to pay, an account is not removed while something   *)
(* is charged to it, a receipt says what the row has, the row never goes   *)
(* back, and a cancelled request removes nothing -- for every set of       *)
(* calls, keys, plans and requests.                                        *)
(*                                                                         *)
(* The argument is the lock.  Only its holder writes the row, so what a    *)
(* call copied from it is still there; what moves meanwhile is the         *)
(* provider, and it moves one way: a session that is not open never opens  *)
(* again, and a version only grows.                                        *)
(***************************************************************************)
EXTENDS Assinaturas, FiniteSetTheorems, TLAPS

Fora == {"fora", "reservar", "travar"}

\* The provider: a subscription exists where a session was paid.
ProvedorInd ==
    /\ \A k \in Chaves :
         /\ assin[k].estado # "nenhuma" <=> sessao[k] = "paga"
         /\ assin[k].estado # "nenhuma" <=> assin[k].versao >= 1
    /\ \A k \in dadas : sessao[k] # "nenhuma"

\* The lock: who is past it holds it, and nobody is once the account is gone.
TravaInd ==
    /\ \A t \in Transacoes : trava = t <=> tx[t].passo \notin Fora
    /\ conta = "removida" => trava = Nada

\* What the clients may pay: an open session they have is the row's or was
\* dropped by a reconciliation, and what counts is one thing.
ContratoInd ==
    /\ linha.ck.sessao \in dadas \cup {Nada}
    /\ \A k \in dadas : sessao[k] = "aberta" => k \in largadas \/ k = linha.ck.sessao
    /\ \A j, k \in Contratadas \ largadas : j = k

\* Row and receipts say nothing the provider has not said.
VersaoInd ==
    /\ linha.sub \in Chaves => linha.versao <= assin[linha.sub].versao
    /\ \A r \in recibos : r[2] <= assin[r[1]].versao

\* What a call is about.
OpInd(t) ==
    /\ tx[t].passo = "fora" => tx[t] = Ociosa
    /\ tx[t].passo \in Fora \cup {"listar"} => tx[t].atual = Nada
    /\ Op(t, "reconciliar") =>
         /\ tx[t].alvo \in Eventos \cup {Nada}
         /\ tx[t].alvo \in Eventos => tx[t].alvo[2] <= assin[tx[t].alvo[1]].versao
    /\ tx[t].op \in {"solicitar", "excluir"} => tx[t].alvo \in Exclusoes
    /\ Op(t, "excluir") /\ tx[t].passo # "reservar" => exclusao[tx[t].alvo] = "pendente"

\* What the holder of the lock knows at each step.
NaLinha(t) ==
    /\ tx[t].ck = linha.ck
    /\ tx[t].ck.sessao \in Chaves
    /\ EmAndamento \subseteq largadas \cup {tx[t].ck.sessao}

Limpo == Contratadas \subseteq largadas

CopiaInd(t) ==
    /\ tx[t].atual = Nada => tx[t].alvo = Nada
    /\ tx[t].atual # Nada =>
         /\ tx[t].atual[2] <= assin[tx[t].atual[1]].versao
         /\ linha.sub = tx[t].atual[1] => linha.versao <= tx[t].atual[2]
         /\ \A r \in recibos \cup ({tx[t].alvo} \ {Nada}) :
              r[1] = tx[t].atual[1] => r[2] <= tx[t].atual[2]

DentroInd(t) ==
    /\ Em(t, "listar") => tx[t].ck = linha.ck
    /\ Op(t, "checkout") =>
         /\ tx[t].passo \in {"consultar", "expirar"} => NaLinha(t)
         /\ tx[t].passo \in {"criar", "gravar"} => Limpo
         /\ Em(t, "criar") => tx[t].ck.sessao = Nada
         /\ Em(t, "gravar") /\ tx[t].ck.sessao # Nada => sessao[tx[t].ck.sessao] # "nenhuma"
    /\ Op(t, "excluir") =>
         /\ Em(t, "conferir") => NaLinha(t)
         /\ Em(t, "concluir") => Limpo
    /\ Op(t, "reconciliar") /\ Em(t, "gravar") => CopiaInd(t)

AssinaturasInd ==
    /\ TypeOK
    /\ ProvedorInd
    /\ TravaInd
    /\ ContratoInd
    /\ VersaoInd
    /\ ReciboConfere
    /\ ContaSemCobranca
    /\ \A t \in Transacoes : OpInd(t) /\ DentroInd(t)

-----------------------------------------------------------------------------
(***************************************************************************)
(* Frames: what a call keeps through the steps of the others.              *)
(***************************************************************************)
tudo == <<linha, conta, exclusao, recibos, sessao, assin, dadas, largadas>>

RegTx == [passo: Passos, op: Operacoes, plano: Planos \cup {Nada},
          alvo: Eventos \cup Exclusoes \cup {Nada}, ck: Vinculos,
          atual: Eventos \cup {Nada}]

LEMMA Registro ==
    ASSUME TypeOK, NEW t \in Transacoes
    PROVE  /\ tx \in [Transacoes -> RegTx] /\ tx[t] \in RegTx
           /\ Ociosa \in RegTx /\ SemVinculo \in Vinculos
           /\ t # Nada /\ linha.ck \in Vinculos
           /\ MaxVersao \in Nat
           /\ Ociosa.passo = "fora" /\ Ociosa.op = "reconciliar" /\ Ociosa.alvo = Nada
           /\ Ociosa.atual = Nada /\ Nada \notin Eventos \cup Exclusoes \cup Chaves
  BY AssinaturasAssumption
     DEF TypeOK, RegTx, Ociosa, SemVinculo, Vinculos, Passos, Operacoes, Eventos

\* Whoever is past the lock is alone there.
LEMMA Dono ==
    ASSUME AssinaturasInd, NEW t \in Transacoes, tx[t].passo \notin Fora
    PROVE  /\ trava = t /\ conta = "viva"
           /\ \A u \in Transacoes \ {t} : tx[u].passo \in Fora
  BY Registro DEF AssinaturasInd, TravaInd, TypeOK

LEMMA ForaInd ==
    ASSUME NEW u \in Transacoes, tx[u].passo \in Fora
    PROVE  DentroInd(u)
  BY DEF DentroInd, Em, Fora

LEMMA Quieto ==
    ASSUME AssinaturasInd, NEW t \in Transacoes, UNCHANGED tudo,
           \A u \in Transacoes \ {t} : tx'[u] = tx[u],
           TypeOK', TravaInd', OpInd(t)', DentroInd(t)'
    PROVE  AssinaturasInd'
<1>1. ProvedorInd' /\ ContratoInd' /\ VersaoInd' /\ ReciboConfere' /\ ContaSemCobranca'
  BY DEF AssinaturasInd, tudo, ProvedorInd, ContratoInd, VersaoInd, ReciboConfere,
         ContaSemCobranca, Contratadas, EmAndamento
<1>2. ASSUME NEW u \in Transacoes, u # t PROVE OpInd(u)' /\ DentroInd(u)'
  <2>1. OpInd(u) /\ DentroInd(u) /\ tx'[u] = tx[u]
    BY <1>2 DEF AssinaturasInd
  <2>2. OpInd(u)'
    BY <2>1 DEF OpInd, Op, tudo
  <2>3. DentroInd(u)'
    BY <2>1 DEF DentroInd, NaLinha, Limpo, CopiaInd, Contratadas, EmAndamento, Em, Op, tudo
  <2>4. QED
    BY <2>2, <2>3
<1>3. QED
  BY <1>1, <1>2 DEF AssinaturasInd

\* A step that ends having written nothing.
LEMMA Desiste ==
    ASSUME AssinaturasInd, NEW t \in Transacoes, Sair(t), UNCHANGED tudo
    PROVE  AssinaturasInd'
<1>0. TypeOK /\ tx'[t] = Ociosa /\ \A u \in Transacoes \ {t} : tx'[u] = tx[u]
  BY Registro DEF Sair, AssinaturasInd
<1>1. TypeOK'
  <2>1. tx' \in [Transacoes -> RegTx] /\ trava' \in Transacoes \cup {Nada}
    BY <1>0, Registro DEF Sair, TypeOK
  <2>2. QED
    BY <1>0, <2>1 DEF TypeOK, RegTx, tudo
<1>2. TravaInd'
  <2>1. TravaInd
    BY DEF AssinaturasInd
  <2>2. (trava' = t) <=> (tx'[t].passo \notin Fora)
    BY <1>0, Registro DEF Sair, Fora
  <2>3. \A u \in Transacoes \ {t} : (trava' = u) <=> (trava = u)
    BY <1>0, Registro DEF Sair
  <2>4. QED
    BY <1>0, <2>1, <2>2, <2>3 DEF TravaInd, Sair, tudo
<1>3. OpInd(t)' /\ DentroInd(t)'
  <2>1. /\ tx'[t].passo = "fora" /\ tx'[t].op = "reconciliar"
        /\ tx'[t].alvo = Nada /\ tx'[t].atual = Nada /\ Nada \notin Eventos
    BY <1>0, Registro
  <2>2. OpInd(t)'
    BY <1>0, <2>1, Registro DEF OpInd, Op
  <2>3. DentroInd(t)'
    BY <2>1 DEF DentroInd, Em
  <2>4. QED
    BY <2>2, <2>3
<1>4. QED
  BY <1>0, <1>1, <1>2, <1>3, Quieto

\* A step of the holder that keeps what the call is about and the lock.
LEMMA Anda ==
    ASSUME AssinaturasInd, NEW t \in Transacoes, UNCHANGED <<tudo, trava>>,
           tx[t].passo \notin Fora, NEW n \in RegTx, tx' = [tx EXCEPT ![t] = n],
           n.op = tx[t].op, n.alvo = tx[t].alvo, n.passo \notin Fora \cup {"listar"}, DentroInd(t)'
    PROVE  AssinaturasInd'
<1>0. TypeOK /\ tx'[t] = n /\ \A u \in Transacoes \ {t} : tx'[u] = tx[u]
  BY Registro DEF AssinaturasInd
<1>1. TypeOK'
  <2>1. tx' \in [Transacoes -> RegTx]
    BY <1>0, Registro
  <2>2. QED
    BY <1>0, <2>1 DEF TypeOK, RegTx, tudo
<1>2. TravaInd'
  BY <1>0 DEF AssinaturasInd, TravaInd, tudo
<1>3. OpInd(t)'
  BY <1>0 DEF AssinaturasInd, OpInd, Op, tudo, Fora
<1>4. QED
  BY <1>0, <1>1, <1>2, <1>3, Quieto

\* What the provider's changes keep, and what the calls that do not move keep
\* through them.
Adiante ==
    /\ UNCHANGED <<tabelas, clientes>>
    /\ \A k \in Chaves :
         /\ assin[k].versao <= assin'[k].versao
         /\ k \in EmAndamento' => k \in EmAndamento \/ (k \in dadas /\ sessao[k] = "aberta")
         /\ sessao[k] # "nenhuma" => sessao'[k] # "nenhuma"
         /\ k \in dadas /\ sessao'[k] = "aberta" => sessao[k] = "aberta"

LEMMA Muda ==
    ASSUME AssinaturasInd, TypeOK', Adiante
    PROVE  /\ ContratoInd' /\ VersaoInd' /\ ReciboConfere' /\ ContaSemCobranca'
           /\ EmAndamento' \subseteq Contratadas /\ Contratadas' \subseteq Contratadas
           /\ \A u \in Transacoes : tx'[u] = tx[u] => OpInd(u)' /\ DentroInd(u)'
<1>0. /\ TypeOK /\ ContratoInd /\ VersaoInd /\ ReciboConfere /\ ContaSemCobranca
      /\ UNCHANGED <<linha, conta, exclusao, recibos, dadas, largadas>>
      /\ dadas \subseteq Chaves /\ linha.sub \in Chaves \cup {Nada}
      /\ \A k \in Chaves : assin[k].versao \in Nat /\ assin'[k].versao \in Nat
  BY Registro DEF AssinaturasInd, Adiante, tabelas, clientes, TypeOK
<1>1. EmAndamento' \subseteq Contratadas /\ Contratadas' \subseteq Contratadas
  BY <1>0 DEF Adiante, Contratadas, EmAndamento
<1>2. ContratoInd'
  BY <1>0, <1>1 DEF Adiante, ContratoInd
<1>3. VersaoInd'
  <2>1. linha.versao \in Nat /\ \A r \in recibos : r[1] \in Chaves /\ r[2] \in Nat
    BY <1>0, Registro DEF TypeOK, Eventos
  <2>2. QED
    BY <1>0, <2>1 DEF Adiante, VersaoInd
<1>4. ReciboConfere' /\ ContaSemCobranca'
  BY <1>0, <1>1 DEF ReciboConfere, ContaSemCobranca
<1>5. ASSUME NEW u \in Transacoes, tx'[u] = tx[u] PROVE OpInd(u)' /\ DentroInd(u)'
  <2>1. OpInd(u) /\ DentroInd(u) /\ tx[u] \in RegTx
    BY <1>0, Registro DEF AssinaturasInd
  <2>2. OpInd(u)'
    <3>1. tx[u].alvo \in Eventos => tx[u].alvo[1] \in Chaves /\ tx[u].alvo[2] \in Nat
      BY <1>0, Registro DEF Eventos
    <3>2. Op(u, "reconciliar") /\ tx[u].alvo \in Eventos =>
             tx[u].alvo[2] <= assin'[tx[u].alvo[1]].versao
      BY <1>0, <2>1, <3>1 DEF OpInd, Adiante
    <3>3. QED
      BY <1>0, <1>5, <2>1, <3>2 DEF OpInd, Op
  <2>3. NaLinha(u) => NaLinha(u)'
    <3>1. SUFFICES ASSUME NaLinha(u), NEW k \in EmAndamento'
                   PROVE  k \in largadas \cup {tx[u].ck.sessao}
      BY <1>0, <1>5 DEF NaLinha
    <3>2. QED
      BY <1>0, <3>1 DEF NaLinha, Adiante, ContratoInd, EmAndamento
  <2>4. Limpo => Limpo'
    BY <1>0, <1>1 DEF Limpo
  <2>5. CopiaInd(u) => CopiaInd(u)'
    <3>1. SUFFICES ASSUME CopiaInd(u) PROVE CopiaInd(u)'
      OBVIOUS
    <3>2. tx[u].atual # Nada => tx[u].atual[1] \in Chaves /\ tx[u].atual[2] \in Nat
      BY <2>1, Registro, <1>0 DEF RegTx, Eventos
    <3>3. tx[u].atual # Nada => tx[u].atual[2] <= assin'[tx[u].atual[1]].versao
      BY <1>0, <3>1, <3>2 DEF CopiaInd, Adiante
    <3>4. QED
      BY <1>0, <1>5, <3>1, <3>3 DEF CopiaInd
  <2>6. tx[u].ck.sessao \in Chaves \cup {Nada}
    BY <2>1 DEF RegTx, Vinculos
  <2>7. DentroInd(u)'
    BY <1>0, <1>5, <2>1, <2>3, <2>4, <2>5, <2>6 DEF DentroInd, Em, Op, Adiante
  <2>8. QED
    BY <2>2, <2>7
<1>6. QED
  BY <1>1, <1>2, <1>3, <1>4, <1>5

-----------------------------------------------------------------------------
(***************************************************************************)
(* The steps before the lock, and taking it.                               *)
(***************************************************************************)
\* A call begins: it is not past the lock, and says what it is about.
LEMMA PedirMantem ==
    ASSUME AssinaturasInd, NEW t \in Transacoes, Pedir(t) \/ Atualizar(t)
    PROVE  AssinaturasInd'
<1>0. /\ TypeOK /\ TravaInd /\ MaxVersao \in Nat
      /\ \A k \in Chaves : assin[k].versao \in 0 .. MaxVersao
  BY Registro DEF AssinaturasInd, TypeOK
<1>1. ASSUME NEW s \in {"reservar", "travar"}, NEW o \in Operacoes, NEW p \in Planos \cup {Nada},
             NEW a \in Eventos \cup Exclusoes \cup {Nada}, Iniciar(t, s, o, p, a),
             o = "reconciliar" => /\ a \in Eventos \cup {Nada}
                                  /\ a \in Eventos => a[2] <= assin[a[1]].versao,
             o \in {"solicitar", "excluir"} => a \in Exclusoes,
             o = "excluir" => s = "reservar"
      PROVE  AssinaturasInd'
  <2> DEFINE n == [Ociosa EXCEPT !.passo = s, !.op = o, !.plano = p, !.alvo = a]
  <2>1. /\ n \in RegTx /\ n.passo = s /\ n.op = o /\ n.alvo = a /\ n.atual = Nada
    BY <1>0, Registro DEF RegTx, Passos, Ociosa
  <2>2. tx' = [tx EXCEPT ![t] = n] /\ UNCHANGED <<tudo, trava>> /\ tx[t].passo = "fora"
    BY <1>1 DEF Iniciar, Em, tudo, tabelas, provedor, clientes
  <2> HIDE DEF n
  <2>3. tx'[t] = n /\ \A u \in Transacoes \ {t} : tx'[u] = tx[u]
    BY <1>0, <2>2, Registro
  <2>4. TypeOK'
    <3>1. tx' \in [Transacoes -> RegTx]
      BY <1>0, <2>1, <2>2, Registro
    <3>2. QED
      BY <1>0, <2>2, <3>1 DEF TypeOK, RegTx, tudo
  <2>5. TravaInd'
    BY <1>0, <2>1, <2>2, <2>3 DEF TravaInd, tudo, Fora
  <2>6. OpInd(t)'
    BY <1>1, <2>1, <2>2, <2>3 DEF OpInd, Op, tudo
  <2>7. DentroInd(t)'
    BY <2>1, <2>3 DEF DentroInd, Em
  <2>8. QED
    BY <2>2, <2>3, <2>4, <2>5, <2>6, <2>7, Quieto
<1>2. CASE Checkout(t)
  BY <1>1, <1>2 DEF Checkout, Operacoes
<1>3. CASE Webhook(t)
  <2>1. PICK k \in Chaves : \E v \in 1 .. assin[k].versao :
           Iniciar(t, "travar", "reconciliar", Nada, <<k, v>>)
    BY <1>3 DEF Webhook
  <2>2. PICK v \in 1 .. assin[k].versao : Iniciar(t, "travar", "reconciliar", Nada, <<k, v>>)
    BY <2>1
  <2>3. v \in 1 .. MaxVersao /\ v <= assin[k].versao
    BY <1>0, <2>2
  <2>4. <<k, v>> \in Eventos
    BY <2>3 DEF Eventos
  <2>5. QED
    BY <1>1, <2>2, <2>3, <2>4 DEF Operacoes
<1>4. CASE Atualizar(t)
  BY <1>1, <1>4, <1>0, Registro DEF Atualizar, Operacoes
<1>5. CASE SolicitarExclusao(t)
  <2>1. PICK e \in Exclusoes : Iniciar(t, "travar", "solicitar", Nada, e)
    BY <1>5 DEF SolicitarExclusao
  <2>2. QED
    BY <1>1, <2>1 DEF Operacoes
<1>6. CASE ExecutarExclusao(t)
  <2>1. PICK e \in Exclusoes : Iniciar(t, "reservar", "excluir", Nada, e)
    BY <1>6 DEF ExecutarExclusao
  <2>2. QED
    BY <1>1, <2>1 DEF Operacoes
<1>7. QED
  BY <1>2, <1>3, <1>4, <1>5, <1>6 DEF Pedir

LEMMA DesistirMantem ==
    ASSUME AssinaturasInd, NEW t \in Transacoes, Desistir(t)
    PROVE  AssinaturasInd'
  BY Desiste DEF Desistir, tudo, tabelas, provedor, clientes

LEMMA ReservarMantem ==
    ASSUME AssinaturasInd, NEW t \in Transacoes, Reservar(t)
    PROVE  AssinaturasInd'
<1>0. TypeOK /\ TravaInd /\ OpInd(t) /\ tx[t].passo = "reservar"
  BY DEF AssinaturasInd, Reservar, Em
<1>1. CASE Desistir(t)
  BY <1>1, DesistirMantem
<1>2. CASE exclusao[tx[t].alvo] = "pendente" /\ Ir(t, "travar")
           /\ UNCHANGED <<tabelas, provedor, clientes, trava>>
  <2> DEFINE n == [tx[t] EXCEPT !.passo = "travar"]
  <2>1. /\ n \in RegTx /\ n.passo = "travar" /\ n.op = tx[t].op /\ n.alvo = tx[t].alvo
        /\ n.atual = tx[t].atual
    BY <1>0, Registro DEF RegTx, Passos
  <2>2. tx' = [tx EXCEPT ![t] = n] /\ UNCHANGED <<tudo, trava>>
    BY <1>0, <1>2, Registro DEF Ir, tudo, tabelas, provedor, clientes, RegTx
  <2> HIDE DEF n
  <2>3. tx'[t] = n /\ \A u \in Transacoes \ {t} : tx'[u] = tx[u]
    BY <1>0, <2>2, Registro
  <2>4. TypeOK'
    <3>1. tx' \in [Transacoes -> RegTx]
      BY <1>0, <2>1, <2>2, Registro
    <3>2. QED
      BY <1>0, <2>2, <3>1 DEF TypeOK, RegTx, tudo
  <2>5. TravaInd'
    BY <1>0, <2>1, <2>2, <2>3 DEF TravaInd, tudo, Fora
  <2>6. OpInd(t)'
    BY <1>0, <1>2, <2>1, <2>2, <2>3 DEF OpInd, Op, tudo, Fora
  <2>7. DentroInd(t)'
    BY <2>1, <2>3 DEF DentroInd, Em
  <2>8. QED
    BY <2>2, <2>3, <2>4, <2>5, <2>6, <2>7, Quieto
<1>3. QED
  BY <1>1, <1>2 DEF Reservar

\* The lock is free, so nobody is past it; what is copied is the row.
LEMMA TravarMantem ==
    ASSUME AssinaturasInd, NEW t \in Transacoes, Travar(t)
    PROVE  AssinaturasInd'
<1>0. TypeOK /\ TravaInd /\ OpInd(t) /\ tx[t].passo = "travar" /\ trava = Nada
  BY DEF AssinaturasInd, Travar, Em
<1>1. CASE Desistir(t)
  BY <1>1, DesistirMantem
<1>2. CASE /\ conta = "viva" /\ trava' = t
           /\ tx' = [tx EXCEPT ![t].passo = "listar", ![t].ck = linha.ck]
           /\ UNCHANGED <<tabelas, provedor, clientes>>
  <2> DEFINE n == [tx[t] EXCEPT !.passo = "listar", !.ck = linha.ck]
  <2>1. /\ n \in RegTx /\ n.passo = "listar" /\ n.op = tx[t].op /\ n.alvo = tx[t].alvo
        /\ n.atual = tx[t].atual /\ n.ck = linha.ck
    BY <1>0, Registro DEF RegTx, Passos
  <2>2. tx' = [tx EXCEPT ![t] = n] /\ UNCHANGED tudo
    BY <1>0, <1>2, Registro DEF tudo, tabelas, provedor, clientes, RegTx
  <2> HIDE DEF n
  <2>3. tx'[t] = n /\ \A u \in Transacoes \ {t} : tx'[u] = tx[u]
    BY <1>0, <2>2, Registro
  <2>4. TypeOK'
    <3>1. tx' \in [Transacoes -> RegTx]
      BY <1>0, <2>1, <2>2, Registro
    <3>2. QED
      BY <1>0, <1>2, <2>2, <3>1 DEF TypeOK, RegTx, tudo
  <2>5. TravaInd'
    <3>1. \A u \in Transacoes : tx[u].passo \in Fora
      BY <1>0, Registro DEF TravaInd
    <3>2. \A u \in Transacoes \ {t} : (trava' = u) <=> (tx'[u].passo \notin Fora)
      BY <1>2, <2>3, <3>1
    <3>3. (trava' = t) <=> (tx'[t].passo \notin Fora)
      BY <1>2, <2>1, <2>3 DEF Fora
    <3>4. QED
      BY <1>2, <2>2, <3>2, <3>3 DEF TravaInd, tudo
  <2>6. OpInd(t)'
    BY <1>0, <2>1, <2>2, <2>3 DEF OpInd, Op, tudo, Fora
  <2>7. DentroInd(t)'
    BY <2>1, <2>2, <2>3 DEF DentroInd, Em, tudo
  <2>8. QED
    BY <2>2, <2>3, <2>4, <2>5, <2>6, <2>7, Quieto
<1>3. QED
  BY <1>1, <1>2 DEF Travar

-----------------------------------------------------------------------------
(***************************************************************************)
(* checkout                                                                *)
(***************************************************************************)
\* Once no subscription is ongoing apart from the row's session, and that
\* session cannot be paid any more, there is nothing a client may pay.
LEMMA Limpa ==
    ASSUME AssinaturasInd, EmAndamento \subseteq largadas \cup {linha.ck.sessao},
           linha.ck.sessao = Nada \/ sessao[linha.ck.sessao] = "expirada"
    PROVE  Limpo
<1>1. SUFFICES ASSUME NEW k \in Contratadas PROVE k \in largadas
  BY DEF Limpo
<1>2. k \in Chaves /\ Nada \notin Chaves
  BY <1>1, AssinaturasAssumption DEF Contratadas, EmAndamento, AssinaturasInd, TypeOK
<1>3. CASE k \in EmAndamento
  <2>1. sessao[k] = "paga"
    BY <1>2, <1>3 DEF EmAndamento, AssinaturasInd, ProvedorInd
  <2>2. QED
    BY <1>2, <1>3, <2>1
<1>4. CASE k \in dadas /\ sessao[k] = "aberta"
  BY <1>2, <1>4 DEF AssinaturasInd, ContratoInd
<1>5. QED
  BY <1>1, <1>3, <1>4 DEF Contratadas

\* The holder commits and leaves: nobody else is past the lock.
LEMMA SaidaDentro ==
    ASSUME AssinaturasInd, NEW t \in Transacoes, tx[t].passo \notin Fora, Sair(t),
           UNCHANGED assin,
           \A e \in Exclusoes : exclusao[e] = "pendente" => exclusao'[e] = "pendente"
    PROVE  TravaInd' /\ \A u \in Transacoes : OpInd(u)' /\ DentroInd(u)'
<1>0. TypeOK /\ tx'[t] = Ociosa /\ \A u \in Transacoes \ {t} : tx'[u] = tx[u]
  BY Registro DEF Sair, AssinaturasInd
<1>1. trava' = Nada /\ \A u \in Transacoes : tx'[u].passo \in Fora /\ u # Nada
  BY <1>0, Dono, Registro DEF Sair, Fora
<1>2. TravaInd'
  BY <1>1 DEF TravaInd
<1>3. \A u \in Transacoes : DentroInd(u)'
  BY <1>1 DEF DentroInd, Em, Fora
<1>4. OpInd(t)'
  BY <1>0, Registro DEF OpInd, Op
<1>5. ASSUME NEW u \in Transacoes, u # t PROVE OpInd(u)'
  <2>1. OpInd(u) /\ tx'[u] = tx[u]
    BY <1>0, <1>5 DEF AssinaturasInd
  <2>2. Op(u, "excluir") /\ tx[u].passo # "reservar" => exclusao'[tx[u].alvo] = "pendente"
    BY <2>1 DEF OpInd, Op
  <2>3. QED
    BY <2>1, <2>2 DEF OpInd, Op
<1>6. QED
  BY <1>2, <1>3, <1>4, <1>5

\* A step that only moves the call to another part of its operation.
LEMMA IrMantem ==
    ASSUME AssinaturasInd, NEW t \in Transacoes, tx[t].passo \notin Fora,
           NEW s \in Passos \ (Fora \cup {"listar"}), Ir(t, s),
           UNCHANGED <<tabelas, provedor, clientes, trava>>,
           Op(t, "checkout") =>
             /\ s \in {"consultar", "expirar"} => NaLinha(t)
             /\ s = "criar" => Limpo /\ tx[t].ck.sessao = Nada
             /\ s # "gravar",
           Op(t, "excluir") => /\ s = "conferir" => NaLinha(t)
                               /\ s = "concluir" => Limpo,
           Op(t, "reconciliar") /\ s = "gravar" => CopiaInd(t)
    PROVE  AssinaturasInd'
<1> DEFINE n == [tx[t] EXCEPT !.passo = s]
<1>0. TypeOK /\ UNCHANGED <<tudo, trava>>
  BY DEF AssinaturasInd, tudo, tabelas, provedor, clientes
<1>1. /\ n \in RegTx /\ n.passo = s /\ n.op = tx[t].op /\ n.alvo = tx[t].alvo
      /\ n.atual = tx[t].atual /\ n.ck = tx[t].ck
  BY <1>0, Registro DEF RegTx
<1>2. tx' = [tx EXCEPT ![t] = n]
  BY <1>0, Registro DEF Ir, RegTx
<1> HIDE DEF n
<1>3. tx'[t] = n
  BY <1>0, <1>2, Registro
<1>4. (NaLinha(t) => NaLinha(t)') /\ (Limpo => Limpo') /\ (CopiaInd(t) => CopiaInd(t)')
  BY <1>0, <1>1, <1>3 DEF NaLinha, Limpo, CopiaInd, Contratadas, EmAndamento, tudo
<1>5. DentroInd(t)'
  BY <1>0, <1>1, <1>3, <1>4 DEF DentroInd, Em, Op, tudo, Fora
<1>6. QED
  BY <1>0, <1>1, <1>2, <1>5, Anda

LEMMA ListarCheckoutMantem ==
    ASSUME AssinaturasInd, NEW t \in Transacoes, ListarCheckout(t)
    PROVE  AssinaturasInd'
<1>0. /\ tx[t].passo = "listar" /\ tx[t].passo \notin Fora /\ Op(t, "checkout") /\ TypeOK
      /\ tx[t].ck = linha.ck
  BY DEF ListarCheckout, NoCheckout, Em, Fora, AssinaturasInd, DentroInd
<1>1. CASE Desistir(t)
  BY <1>1, DesistirMantem
<1>2. CASE EmAndamento = {} /\ Ir(t, IF tx[t].ck.sessao # Nada THEN "consultar" ELSE "criar")
           /\ UNCHANGED <<tabelas, provedor, clientes, trava>>
  <2>1. tx[t].ck.sessao \in Chaves \cup {Nada}
    BY <1>0, Registro DEF RegTx, Vinculos
  <2>2. tx[t].ck.sessao # Nada => NaLinha(t)
    BY <1>0, <1>2, <2>1 DEF NaLinha
  <2>3. tx[t].ck.sessao = Nada => Limpo
    BY <1>0, <1>2, Limpa
  <2>4. QED
    BY <1>0, <1>2, <2>2, <2>3, IrMantem DEF Passos, Fora, Op
<1>3. QED
  BY <1>1, <1>2 DEF ListarCheckout

LEMMA SemSessao ==
    ASSUME TypeOK, NEW t \in Transacoes,
           tx' = [tx EXCEPT ![t].passo = "criar", ![t].ck = [@ EXCEPT !.sessao = Nada,
                                                                   !.chave = Nada]]
    PROVE  \E n \in RegTx : /\ n.passo = "criar" /\ n.op = tx[t].op /\ n.alvo = tx[t].alvo
                            /\ n.ck.sessao = Nada /\ tx' = [tx EXCEPT ![t] = n]
<1> DEFINE n == [tx[t] EXCEPT !.passo = "criar", !.ck = [@ EXCEPT !.sessao = Nada,
                                                                 !.chave = Nada]]
<1>1. /\ n \in RegTx /\ n.passo = "criar" /\ n.op = tx[t].op /\ n.alvo = tx[t].alvo
      /\ n.ck.sessao = Nada
  BY Registro DEF RegTx, Passos, Vinculos
<1>2. tx' = [tx EXCEPT ![t] = n]
  BY Registro DEF RegTx
<1>3. QED
  BY <1>1, <1>2

\* The url of the row's open session is one the client already had.
LEMMA ConsultarMantem ==
    ASSUME AssinaturasInd, NEW t \in Transacoes, ConsultarSessao(t)
    PROVE  AssinaturasInd'
<1>0. /\ tx[t].passo = "consultar" /\ tx[t].passo \notin Fora /\ Op(t, "checkout") /\ TypeOK
      /\ NaLinha(t)
  BY DEF ConsultarSessao, NoCheckout, Em, Fora, AssinaturasInd, DentroInd
<1>1. CASE Desistir(t)
  BY <1>1, DesistirMantem
<1>2. CASE /\ Sair(t) /\ dadas' = dadas \cup {tx[t].ck.sessao}
           /\ UNCHANGED <<tabelas, provedor, largadas>>
  <2>1. dadas' = dadas
    BY <1>0, <1>2, Registro DEF NaLinha, AssinaturasInd, ContratoInd
  <2>2. QED
    BY <1>2, <2>1, Desiste DEF tudo, tabelas, provedor
<1>3. CASE Ir(t, "expirar") /\ UNCHANGED <<tabelas, provedor, clientes, trava>>
  BY <1>0, <1>3, IrMantem DEF Passos, Fora, Op
<1>4. CASE /\ sessao[tx[t].ck.sessao] = "expirada"
           /\ tx' = [tx EXCEPT ![t].passo = "criar", ![t].ck = [@ EXCEPT !.sessao = Nada,
                                                                       !.chave = Nada]]
           /\ UNCHANGED <<tabelas, provedor, clientes, trava>>
  <2> PICK n \in RegTx : /\ n.passo = "criar" /\ n.op = tx[t].op /\ n.alvo = tx[t].alvo
                        /\ n.ck.sessao = Nada /\ tx' = [tx EXCEPT ![t] = n]
    BY <1>0, <1>4, SemSessao
  <2>2. UNCHANGED <<tudo, trava>>
    BY <1>4 DEF tudo, tabelas, provedor, clientes
  <2>3. tx'[t] = n
    BY <1>0, Registro
  <2>4. Limpo'
    <3>1. Limpo
      BY <1>0, <1>4, Limpa DEF NaLinha
    <3>2. QED
      BY <2>2, <3>1 DEF Limpo, Contratadas, EmAndamento, tudo
  <2>5. DentroInd(t)'
    BY <1>0, <2>3, <2>4 DEF DentroInd, Em, Op
  <2>6. QED
    BY <1>0, <2>2, <2>5, Anda DEF Fora
<1>5. QED
  BY <1>1, <1>2, <1>3, <1>4 DEF ConsultarSessao

\* A step of the holder that also moves the provider: the others only keep.
LEMMA MudaDentro ==
    ASSUME AssinaturasInd, NEW t \in Transacoes, tx[t].passo \notin Fora, TypeOK', ProvedorInd',
           Adiante, UNCHANGED trava, NEW n \in RegTx, tx' = [tx EXCEPT ![t] = n],
           n.op = tx[t].op, n.alvo = tx[t].alvo, n.passo \notin Fora \cup {"listar"}, DentroInd(t)'
    PROVE  AssinaturasInd'
<1>0. /\ TypeOK /\ TravaInd /\ OpInd(t) /\ UNCHANGED <<conta, exclusao>>
      /\ tx'[t] = n /\ \A u \in Transacoes \ {t} : tx'[u] = tx[u]
  BY Registro DEF AssinaturasInd, Adiante, tabelas
<1>1. TravaInd'
  BY <1>0 DEF TravaInd
<1>2. OpInd(t)'
  <2>1. tx[t].alvo \in Eventos => tx[t].alvo[1] \in Chaves /\ tx[t].alvo[2] \in Nat
    BY Registro, <1>0 DEF Eventos
  <2>2. \A k \in Chaves : /\ assin[k].versao \in Nat /\ assin'[k].versao \in Nat
                          /\ assin[k].versao <= assin'[k].versao
    BY <1>0, Registro DEF TypeOK, Adiante
  <2>3. Op(t, "reconciliar") /\ tx[t].alvo \in Eventos =>
          tx[t].alvo[2] <= assin'[tx[t].alvo[1]].versao
    BY <1>0, <2>1, <2>2 DEF OpInd
  <2>4. QED
    BY <1>0, <2>3 DEF OpInd, Op, Fora
<1>3. \A u \in Transacoes \ {t} : OpInd(u)' /\ DentroInd(u)'
  BY <1>0, Muda
<1>4. QED
  BY <1>1, <1>2, <1>3, Muda DEF AssinaturasInd

\* Only an open session is expired, and one that is not paid stays unpaid.
LEMMA Expirada ==
    ASSUME AssinaturasInd, NEW k \in Chaves, sessao[k] = "aberta",
           sessao' = [sessao EXCEPT ![k] = "expirada"], UNCHANGED <<tabelas, assin, clientes>>
    PROVE  /\ ProvedorInd' /\ Adiante /\ sessao' \in [Chaves -> {"nenhuma", "aberta", "paga", "expirada"}]
           /\ EmAndamento' = EmAndamento /\ sessao'[k] = "expirada"
<1>0. /\ TypeOK /\ ProvedorInd
      /\ sessao \in [Chaves -> {"nenhuma", "aberta", "paga", "expirada"}]
      /\ \A j \in Chaves : assin[j].versao \in Nat
      /\ dadas \subseteq Chaves
  BY Registro DEF AssinaturasInd, TypeOK
<1>1. \A j \in Chaves : sessao'[j] = IF j = k THEN "expirada" ELSE sessao[j]
  BY <1>0
<1>2. ProvedorInd'
  BY <1>0, <1>1 DEF ProvedorInd, clientes
<1>3. EmAndamento' = EmAndamento
  BY DEF EmAndamento
<1>4. Adiante
  BY <1>0, <1>1, <1>3 DEF Adiante
<1>5. QED
  BY <1>0, <1>1, <1>2, <1>3, <1>4

LEMMA ExpirarMantem ==
    ASSUME AssinaturasInd, NEW t \in Transacoes, ExpirarSessao(t)
    PROVE  AssinaturasInd'
<1>0. /\ tx[t].passo = "expirar" /\ tx[t].passo \notin Fora /\ Op(t, "checkout") /\ TypeOK
      /\ NaLinha(t)
  BY DEF ExpirarSessao, NoCheckout, Em, Fora, AssinaturasInd, DentroInd
<1>1. CASE Desistir(t)
  BY <1>1, DesistirMantem
<1>2. CASE /\ sessao[tx[t].ck.sessao] = "aberta"
           /\ sessao' = [sessao EXCEPT ![tx[t].ck.sessao] = "expirada"]
           /\ tx' = [tx EXCEPT ![t].passo = "criar", ![t].ck = [@ EXCEPT !.sessao = Nada,
                                                                       !.chave = Nada]]
           /\ UNCHANGED <<tabelas, assin, clientes, trava>>
  <2> PICK n \in RegTx : /\ n.passo = "criar" /\ n.op = tx[t].op /\ n.alvo = tx[t].alvo
                        /\ n.ck.sessao = Nada /\ tx' = [tx EXCEPT ![t] = n]
    BY <1>0, <1>2, SemSessao
  <2> PICK k \in Chaves : k = tx[t].ck.sessao
    BY <1>0 DEF NaLinha
  <2>3. tx'[t] = n /\ tx' \in [Transacoes -> RegTx]
    BY <1>0, Registro
  <2>4. /\ ProvedorInd' /\ Adiante /\ EmAndamento' = EmAndamento /\ sessao'[k] = "expirada"
        /\ sessao' \in [Chaves -> {"nenhuma", "aberta", "paga", "expirada"}]
    BY <1>2, Expirada
  <2>5. TypeOK'
    BY <1>0, <1>2, <2>3, <2>4 DEF TypeOK, RegTx, tabelas, clientes
  <2>6. Limpo'
    <3>1. SUFFICES ASSUME NEW j \in Contratadas' PROVE j \in largadas'
      BY DEF Limpo
    <3>2. j \in Contratadas /\ j \in Chaves
      BY <2>4, <2>5, <3>1, Muda DEF Contratadas, EmAndamento, TypeOK
    <3>3. CASE j \in EmAndamento
      <4>1. j # k
        BY <1>2, <3>2, <3>3 DEF EmAndamento, AssinaturasInd, ProvedorInd
      <4>2. QED
        BY <1>0, <1>2, <3>3, <4>1 DEF NaLinha, clientes
    <3>4. CASE j \in dadas /\ sessao'[j] = "aberta"
      <4>1. j # k /\ sessao[j] = "aberta"
        BY <2>4, <3>2, <3>4 DEF Adiante
      <4>2. k = linha.ck.sessao
        BY <1>0 DEF NaLinha
      <4>3. QED
        BY <1>2, <3>4, <4>1, <4>2 DEF AssinaturasInd, ContratoInd, clientes
    <3>5. QED
      BY <1>2, <2>4, <3>1, <3>3, <3>4 DEF Contratadas, clientes
  <2>7. DentroInd(t)'
    BY <1>0, <2>3, <2>6 DEF DentroInd, Em, Op
  <2>8. QED
    BY <1>0, <1>2, <2>4, <2>5, <2>7, MudaDentro DEF Fora
<1>3. QED
  BY <1>1, <1>2 DEF ExpirarSessao

\* A session just made is one no client has.
LEMMA CriarMantem ==
    ASSUME AssinaturasInd, NEW t \in Transacoes, CriarSessao(t)
    PROVE  AssinaturasInd'
<1>0. /\ tx[t].passo = "criar" /\ tx[t].passo \notin Fora /\ Op(t, "checkout") /\ TypeOK
      /\ Limpo /\ ProvedorInd
  BY DEF CriarSessao, NoCheckout, Em, Fora, AssinaturasInd, DentroInd
<1>1. CASE Desistir(t)
  BY <1>1, DesistirMantem
<1>2. ASSUME NEW k \in (IF tx[t].ck.chave = Nada THEN Novas ELSE {tx[t].ck.chave}),
             NEW feita \in BOOLEAN, NEW respondeu \in BOOLEAN, respondeu => feita,
             tx[t].ck.chave # Nada => tx[t].ck.plano = tx[t].plano,
             sessao' = [sessao EXCEPT ![k] = IF feita /\ @ = "nenhuma" THEN "aberta" ELSE @],
             tx' = [tx EXCEPT ![t].passo = "gravar", ![t].ck =
                      [sessao |-> IF respondeu THEN k ELSE Nada, chave |-> k,
                       plano |-> tx[t].plano]],
             UNCHANGED <<tabelas, assin, clientes, trava>>
      PROVE  AssinaturasInd'
  <2> DEFINE c == [sessao |-> IF respondeu THEN k ELSE Nada, chave |-> k, plano |-> tx[t].plano]
             n == [tx[t] EXCEPT !.passo = "gravar", !.ck = c]
  <2>0. k \in Chaves
    BY <1>0, <1>2, Registro DEF Novas, RegTx, Vinculos
  <2>1. /\ n \in RegTx /\ n.passo = "gravar" /\ n.op = tx[t].op /\ n.alvo = tx[t].alvo
        /\ n.ck.sessao = IF respondeu THEN k ELSE Nada
    BY <1>0, <2>0, Registro DEF RegTx, Passos, Vinculos
  <2>2. tx' = [tx EXCEPT ![t] = n]
    BY <1>0, <1>2, Registro DEF RegTx
  <2> HIDE DEF n
  <2>3. tx'[t] = n /\ tx' \in [Transacoes -> RegTx]
    BY <1>0, <2>1, <2>2, Registro
  <2>4. /\ sessao \in [Chaves -> {"nenhuma", "aberta", "paga", "expirada"}]
        /\ sessao' \in [Chaves -> {"nenhuma", "aberta", "paga", "expirada"}]
        /\ \A j \in Chaves : sessao'[j] = sessao[j]
                             \/ (sessao[j] = "nenhuma" /\ sessao'[j] = "aberta")
        /\ respondeu => sessao'[k] # "nenhuma"
    BY <1>0, <1>2, <2>0 DEF TypeOK
  <2>5. TypeOK'
    BY <1>0, <1>2, <2>3, <2>4 DEF TypeOK, RegTx, tabelas, clientes
  <2>6. ProvedorInd'
    <3>1. \A j \in Chaves : sessao'[j] = "paga" <=> sessao[j] = "paga"
      BY <2>4
    <3>2. \A j \in dadas : j \in Chaves /\ sessao[j] # "nenhuma"
      BY <1>0 DEF ProvedorInd, TypeOK
    <3>3. \A j \in dadas : sessao'[j] # "nenhuma"
      BY <2>4, <3>2
    <3>4. QED
      BY <1>0, <1>2, <3>1, <3>3 DEF ProvedorInd, clientes
  <2>7. Adiante
    <3>1. EmAndamento' = EmAndamento
      BY <1>2 DEF EmAndamento
    <3>2. \A j \in Chaves : assin[j].versao <= assin'[j].versao
      BY <1>0, <1>2, Registro DEF TypeOK
    <3>3. \A j \in dadas : sessao[j] # "nenhuma"
      BY <1>0 DEF ProvedorInd
    <3>4. QED
      BY <1>2, <2>4, <3>1, <3>2, <3>3 DEF Adiante
  <2>8. Limpo'
    BY <1>0, <1>2, <2>5, <2>7, Muda DEF Limpo, clientes
  <2>9. DentroInd(t)'
    BY <1>0, <2>1, <2>3, <2>4, <2>8 DEF DentroInd, Em, Op
  <2>10. QED
    BY <1>0, <1>2, <2>1, <2>2, <2>5, <2>6, <2>7, <2>9, MudaDentro DEF Fora
<1>3. QED
  BY <1>1, <1>2 DEF CriarSessao

\* The commit: what a client could pay before is nothing, so the new session is all.
LEMMA GravarCheckoutMantem ==
    ASSUME AssinaturasInd, NEW t \in Transacoes, GravarCheckout(t)
    PROVE  AssinaturasInd'
<1> DEFINE k == tx[t].ck.sessao
<1>0. /\ tx[t].passo = "gravar" /\ tx[t].passo \notin Fora /\ Op(t, "checkout") /\ TypeOK
      /\ Limpo /\ ProvedorInd /\ ContratoInd /\ (k # Nada => sessao[k] # "nenhuma")
      /\ trava = t /\ conta = "viva"
  BY Dono DEF GravarCheckout, NoCheckout, Em, Fora, AssinaturasInd, DentroInd
<1>1. /\ linha' = [linha EXCEPT !.ck = tx[t].ck] /\ dadas' = dadas \cup ({k} \ {Nada})
      /\ Sair(t) /\ UNCHANGED <<conta, exclusao, recibos, sessao, assin, largadas>>
  BY DEF GravarCheckout, Vincular, provedor
<1>2. /\ tx[t].ck \in Vinculos /\ k \in Chaves \cup {Nada} /\ Nada \notin Chaves
      /\ dadas \subseteq Chaves
  BY <1>0, Registro DEF RegTx, Vinculos, TypeOK
<1>3. linha'.ck = tx[t].ck /\ linha'.sub = linha.sub /\ linha'.versao = linha.versao
  BY <1>0, <1>1 DEF TypeOK
<1>4. tx'[t] = Ociosa /\ trava' = Nada /\ \A u \in Transacoes \ {t} : tx'[u] = tx[u]
  BY <1>0, <1>1, Registro DEF Sair
<1>5. TypeOK'
  <2>1. tx' \in [Transacoes -> RegTx] /\ linha' \in [sub: Chaves \cup {Nada},
                                                     versao: 0 .. MaxVersao, ck: Vinculos]
    BY <1>0, <1>1, <1>2, Registro DEF Sair, TypeOK
  <2>2. dadas' \subseteq Chaves /\ largadas' \subseteq dadas'
    BY <1>0, <1>1, <1>2 DEF TypeOK
  <2>3. QED
    BY <1>0, <1>1, <1>4, <2>1, <2>2 DEF TypeOK, RegTx
<1>6. ProvedorInd'
  BY <1>0, <1>1, <1>2 DEF ProvedorInd
<1>7. Contratadas' \ largadas' \subseteq {k}
  BY <1>0, <1>1 DEF Limpo, Contratadas, EmAndamento
<1>8. ContratoInd'
  <2>1. linha'.ck.sessao \in dadas' \cup {Nada}
    BY <1>1, <1>2, <1>3
  <2>2. \A j \in dadas' : sessao'[j] = "aberta" => j \in largadas' \/ j = linha'.ck.sessao
    BY <1>0, <1>1, <1>3 DEF Limpo, Contratadas
  <2>3. \A i, j \in Contratadas' \ largadas' : i = j
    BY <1>7
  <2>4. QED
    BY <2>1, <2>2, <2>3 DEF ContratoInd
<1>9. VersaoInd' /\ ReciboConfere' /\ ContaSemCobranca'
  BY <1>0, <1>1, <1>3 DEF AssinaturasInd, VersaoInd, ReciboConfere, ContaSemCobranca
<1>10. TravaInd' /\ \A u \in Transacoes : OpInd(u)' /\ DentroInd(u)'
  BY <1>0, <1>1, <1>4, SaidaDentro
<1>11. QED
  BY <1>5, <1>6, <1>8, <1>9, <1>10 DEF AssinaturasInd

-----------------------------------------------------------------------------
(***************************************************************************)
(* reconcile                                                               *)
(***************************************************************************)
\* What is listed is at least what the row and the receipts have.
LEMMA ListarMantem ==
    ASSUME AssinaturasInd, NEW t \in Transacoes, ListarReconciliacao(t)
    PROVE  AssinaturasInd'
<1>0. /\ tx[t].passo = "listar" /\ tx[t].passo \notin Fora /\ Op(t, "reconciliar") /\ TypeOK
      /\ tx[t].atual = Nada /\ OpInd(t) /\ VersaoInd /\ ProvedorInd
      /\ tx[t].alvo \in Eventos \cup {Nada}
  BY DEF ListarReconciliacao, NaReconciliacao, Em, Fora, AssinaturasInd, OpInd
<1>1. CASE Desistir(t)
  BY <1>1, DesistirMantem
<1>2. CASE Atuais = {} /\ Ir(t, "gravar") /\ UNCHANGED <<tabelas, provedor, clientes, trava>>
  <2>1. tx[t].alvo = Nada
    <3>1. SUFFICES ASSUME tx[t].alvo \in Eventos PROVE FALSE
      BY <1>0
    <3>2. /\ tx[t].alvo[1] \in Chaves /\ tx[t].alvo[2] >= 1
          /\ tx[t].alvo[2] <= assin[tx[t].alvo[1]].versao
          /\ tx[t].alvo[2] \in Nat /\ assin[tx[t].alvo[1]].versao \in Nat
      BY <1>0, <3>1, Registro DEF OpInd, Eventos, TypeOK
    <3>3. tx[t].alvo[1] \in Listadas
      BY <1>0, <3>2 DEF ProvedorInd, Listadas
    <3>4. QED
      BY <1>2, <3>3 DEF Atuais
  <2>2. CopiaInd(t)
    BY <1>0, <2>1 DEF CopiaInd
  <2>3. QED
    BY <1>0, <1>2, <2>2, IrMantem DEF Passos, Fora, Op
<1>3. ASSUME NEW k \in Atuais,
             tx' = [tx EXCEPT ![t].passo = "gravar", ![t].atual = <<k, assin[k].versao>>],
             UNCHANGED <<tabelas, provedor, clientes, trava>>
      PROVE  AssinaturasInd'
  <2> DEFINE a == <<k, assin[k].versao>>
             n == [tx[t] EXCEPT !.passo = "gravar", !.atual = a]
  <2>0. /\ k \in Chaves /\ assin[k].versao \in 1 .. MaxVersao
        /\ a \in Eventos /\ a # Nada
    <3>1. k \in Chaves /\ assin[k].estado # "nenhuma"
      BY <1>3 DEF Atuais, EmAndamento, Listadas
    <3>2. assin[k].versao \in 1 .. MaxVersao
      BY <1>0, <3>1, Registro DEF ProvedorInd, TypeOK
    <3>3. QED
      BY <3>1, <3>2, <1>0, Registro DEF Eventos
  <2>3. a[1] = k /\ a[2] = assin[k].versao
    OBVIOUS
  <2> HIDE DEF a
  <2>1. /\ n \in RegTx /\ n.passo = "gravar" /\ n.op = tx[t].op /\ n.alvo = tx[t].alvo
        /\ n.atual = a
    <3>1. tx[t] \in RegTx /\ "gravar" \in Passos
      BY <1>0, Registro DEF Passos
    <3>2. QED
      BY <2>0, <3>1 DEF RegTx
  <2>2. tx' = [tx EXCEPT ![t] = n] /\ UNCHANGED <<tudo, trava>>
    BY <1>0, <1>3, Registro DEF RegTx, tudo, tabelas, provedor, clientes, a
  <2> HIDE DEF n
  <2>4. tx'[t] = n
    BY <1>0, <2>2, Registro
  <2>5. CopiaInd(t)'
    <3>1. a[2] <= assin'[a[1]].versao
      BY <1>0, <2>0, <2>2, <2>3 DEF tudo
    <3>2. linha.sub = k => linha.versao <= assin[k].versao
      BY <1>0, <2>0 DEF VersaoInd
    <3>3. \A r \in recibos \cup ({tx[t].alvo} \ {Nada}) : r[1] = k => r[2] <= assin[k].versao
      BY <1>0 DEF VersaoInd, OpInd
    <3>4. QED
      BY <2>0, <2>1, <2>2, <2>3, <2>4, <3>1, <3>2, <3>3 DEF CopiaInd, tudo
  <2>6. DentroInd(t)'
    BY <1>0, <2>1, <2>4, <2>5 DEF DentroInd, Em, Op
  <2>7. QED
    BY <1>0, <2>1, <2>2, <2>6, Anda DEF Fora
<1>4. QED
  BY <1>1, <1>2, <1>3 DEF ListarReconciliacao

\* The commit of the copy: the link is cleared, and a session that a client
\* may still pay by it is set apart.
LEMMA GravarMantem ==
    ASSUME AssinaturasInd, NEW t \in Transacoes, GravarReconciliacao(t)
    PROVE  AssinaturasInd'
<1>0. /\ tx[t].passo = "gravar" /\ tx[t].passo \notin Fora /\ Op(t, "reconciliar") /\ TypeOK
      /\ CopiaInd(t) /\ OpInd(t) /\ VersaoInd /\ ContratoInd /\ ProvedorInd /\ ReciboConfere
      /\ trava = t /\ conta = "viva" /\ tx[t].alvo \in Eventos \cup {Nada}
      /\ tx[t].atual \in Eventos \cup {Nada}
  <2>1. /\ tx[t].passo = "gravar" /\ tx[t].passo \notin Fora /\ Op(t, "reconciliar")
        /\ AssinaturasInd
    BY DEF GravarReconciliacao, NaReconciliacao, Em, Fora
  <2>2. OpInd(t) /\ DentroInd(t) /\ TypeOK /\ tx[t] \in RegTx
    BY Registro DEF AssinaturasInd
  <2>3. QED
    BY <2>1, <2>2, Dono DEF AssinaturasInd, DentroInd, OpInd, Em, RegTx
<1>1. /\ Sair(t) /\ recibos' = recibos \cup ({tx[t].alvo} \ {Nada})
      /\ UNCHANGED <<conta, exclusao, sessao, assin>>
  BY DEF GravarReconciliacao, provedor
<1>2. CASE tx[t].atual = Nada
  <2>1. recibos' = recibos /\ UNCHANGED <<linha, clientes>>
    BY <1>0, <1>1, <1>2 DEF GravarReconciliacao, CopiaInd
  <2>2. QED
    BY <1>1, <2>1, Desiste DEF tudo, clientes
<1>3. CASE tx[t].atual # Nada
  <2> PICK a \in Eventos : a = tx[t].atual
    BY <1>0, <1>3
  <2>0. a[1] \in Chaves /\ a[2] \in 1 .. MaxVersao
    BY Registro DEF Eventos
  <2>1. /\ linha' = [sub |-> a[1], versao |-> a[2], ck |-> SemVinculo] /\ dadas' = dadas
        /\ largadas' = largadas \cup {k \in dadas : k = linha.ck.sessao /\ sessao[k] = "aberta"}
    BY <1>3 DEF GravarReconciliacao
  <2>2. tx'[t] = Ociosa /\ trava' = Nada /\ \A u \in Transacoes \ {t} : tx'[u] = tx[u]
    BY <1>0, <1>1, Registro DEF Sair
  <2>3. TypeOK'
    <3>1. tx' \in [Transacoes -> RegTx]
      BY <1>0, <1>1, Registro DEF Sair
    <3>2. linha' \in [sub: Chaves \cup {Nada}, versao: 0 .. MaxVersao, ck: Vinculos]
      BY <1>0, <2>0, <2>1, Registro
    <3>3. recibos' \subseteq Eventos /\ largadas' \subseteq dadas'
      BY <1>0, <1>1, <2>1 DEF TypeOK
    <3>4. QED
      BY <1>0, <1>1, <2>1, <2>2, <3>1, <3>2, <3>3 DEF TypeOK, RegTx
  <2>4. ProvedorInd'
    BY <1>0, <1>1, <2>1 DEF ProvedorInd
  <2>5. ContratoInd'
    <3>1. linha'.ck.sessao = Nada
      BY <2>1 DEF SemVinculo
    <3>2. Contratadas' \ largadas' \subseteq Contratadas \ largadas
      BY <1>1, <2>1 DEF Contratadas, EmAndamento
    <3>3. \A k \in dadas' : sessao'[k] = "aberta" => k \in largadas'
      BY <1>0, <1>1, <2>1 DEF ContratoInd
    <3>4. QED
      BY <1>0, <3>1, <3>2, <3>3 DEF ContratoInd
  <2>6. VersaoInd'
    <3>1. a[2] <= assin[a[1]].versao
      BY <1>0, <1>3 DEF CopiaInd
    <3>2. \A r \in recibos' : r[2] <= assin[r[1]].versao
      BY <1>0, <1>1 DEF VersaoInd, OpInd
    <3>3. QED
      BY <1>1, <2>1, <3>1, <3>2 DEF VersaoInd
  <2>7. ReciboConfere'
    <3>1. \A r \in recibos' : r[1] = a[1] => r[2] <= a[2]
      BY <1>0, <1>1, <1>3 DEF CopiaInd
    <3>2. \A r \in recibos' : r[2] \in Nat
      BY <2>3, Registro, <1>0 DEF TypeOK, Eventos
    <3>3. QED
      BY <2>0, <2>1, <3>1, <3>2, Registro DEF ReciboConfere
  <2>8. ContaSemCobranca'
    BY <1>0, <1>1 DEF ContaSemCobranca
  <2>9. TravaInd' /\ \A u \in Transacoes : OpInd(u)' /\ DentroInd(u)'
    BY <1>0, <1>1, <2>2, SaidaDentro
  <2>10. QED
    BY <2>3, <2>4, <2>5, <2>6, <2>7, <2>8, <2>9 DEF AssinaturasInd
<1>4. QED
  BY <1>2, <1>3

-----------------------------------------------------------------------------
(***************************************************************************)
(* validarEncerramento                                                     *)
(***************************************************************************)
LEMMA ListarEncerramentoMantem ==
    ASSUME AssinaturasInd, NEW t \in Transacoes, ListarEncerramento(t)
    PROVE  AssinaturasInd'
<1>0. /\ tx[t].passo = "listar" /\ tx[t].passo \notin Fora /\ TypeOK
      /\ tx[t].op \in {"solicitar", "excluir"} /\ tx[t].ck = linha.ck
  BY DEF ListarEncerramento, NoEncerramento, Em, Fora, AssinaturasInd, DentroInd
<1>1. CASE Desistir(t)
  BY <1>1, DesistirMantem
<1>2. CASE ~CobrancaImpede(t) /\ Ir(t, IF tx[t].ck.sessao = Nada THEN "concluir" ELSE "conferir")
           /\ UNCHANGED <<tabelas, provedor, clientes, trava>>
  <2>1. tx[t].ck.sessao \in Chaves \cup {Nada}
    BY <1>0, Registro DEF RegTx, Vinculos
  <2>2. Op(t, "excluir") => EmAndamento = {}
    BY <1>2 DEF CobrancaImpede
  <2>3. Op(t, "excluir") /\ tx[t].ck.sessao # Nada => NaLinha(t)
    BY <1>0, <2>1, <2>2 DEF NaLinha
  <2>4. Op(t, "excluir") /\ tx[t].ck.sessao = Nada => Limpo
    BY <1>0, <2>2, Limpa
  <2>5. CASE tx[t].ck.sessao = Nada
    BY <1>0, <1>2, <2>4, <2>5, IrMantem DEF Passos, Fora, Op
  <2>6. CASE tx[t].ck.sessao # Nada
    BY <1>0, <1>2, <2>3, <2>6, IrMantem DEF Passos, Fora, Op
  <2>7. QED
    BY <2>5, <2>6
<1>3. QED
  BY <1>1, <1>2 DEF ListarEncerramento

LEMMA ConferirMantem ==
    ASSUME AssinaturasInd, NEW t \in Transacoes, ConferirSessao(t)
    PROVE  AssinaturasInd'
<1>0. /\ tx[t].passo = "conferir" /\ tx[t].passo \notin Fora /\ TypeOK
      /\ tx[t].op \in {"solicitar", "excluir"} /\ (Op(t, "excluir") => NaLinha(t))
  BY DEF ConferirSessao, NoEncerramento, Em, Fora, AssinaturasInd, DentroInd
<1>1. CASE Desistir(t)
  BY <1>1, DesistirMantem
<1>2. CASE sessao[tx[t].ck.sessao] = "expirada" /\ Ir(t, "concluir")
           /\ UNCHANGED <<tabelas, provedor, clientes, trava>>
  <2>1. Op(t, "excluir") => Limpo
    BY <1>0, <1>2, Limpa DEF NaLinha
  <2>2. QED
    BY <1>0, <1>2, <2>1, IrMantem DEF Passos, Fora, Op
<1>3. QED
  BY <1>1, <1>2 DEF ConferirSessao

LEMMA ConcluirMantem ==
    ASSUME AssinaturasInd, NEW t \in Transacoes, Concluir(t)
    PROVE  AssinaturasInd'
<1>0. /\ tx[t].passo = "concluir" /\ tx[t].passo \notin Fora /\ TypeOK /\ OpInd(t)
      /\ tx[t].alvo \in Exclusoes /\ (Op(t, "excluir") => Limpo)
      /\ Sair(t) /\ UNCHANGED <<linha, recibos, sessao, assin, dadas, largadas>>
      /\ trava = t /\ conta = "viva"
  BY Dono DEF Concluir, NoEncerramento, Em, Fora, AssinaturasInd, DentroInd, OpInd, provedor, clientes
<1>1. \/ /\ exclusao[tx[t].alvo] = "nenhuma"
         /\ exclusao' = [exclusao EXCEPT ![tx[t].alvo] = "pendente"] /\ conta' = conta
      \/ Limpo /\ conta' = "removida" /\ exclusao' = exclusao
  BY <1>0 DEF Concluir
<1>2. /\ exclusao' \in [Exclusoes -> {"nenhuma", "pendente", "encerrada"}]
      /\ conta' \in {"viva", "removida"}
      /\ \A e \in Exclusoes : exclusao[e] = "pendente" => exclusao'[e] = "pendente"
  BY <1>0, <1>1 DEF TypeOK
<1>3. tx' \in [Transacoes -> RegTx] /\ trava' = Nada
  BY <1>0, Registro DEF Sair
<1>4. TypeOK'
  BY <1>0, <1>2, <1>3 DEF TypeOK, RegTx
<1>5. TravaInd' /\ \A u \in Transacoes : OpInd(u)' /\ DentroInd(u)'
  BY <1>0, <1>2, SaidaDentro
<1>6. ProvedorInd' /\ ContratoInd' /\ VersaoInd' /\ ReciboConfere'
  BY <1>0 DEF AssinaturasInd, ProvedorInd, ContratoInd, VersaoInd, ReciboConfere, Contratadas,
              EmAndamento
<1>7. ContaSemCobranca'
  BY <1>0, <1>1 DEF ContaSemCobranca, Limpo, Contratadas, EmAndamento
<1>8. QED
  BY <1>4, <1>5, <1>6, <1>7 DEF AssinaturasInd

\* Nobody has reserved a request, so the ones that are closed are nobody's.
LEMMA CancelarMantem ==
    ASSUME AssinaturasInd, CancelarExclusao
    PROVE  AssinaturasInd'
<1>0. /\ TypeOK /\ UNCHANGED <<linha, conta, recibos, trava, tx, sessao, assin, dadas, largadas>>
      /\ exclusao' \in [Exclusoes -> {"nenhuma", "pendente", "encerrada"}]
  BY DEF AssinaturasInd, CancelarExclusao, provedor, clientes, TypeOK
<1>1. TypeOK'
  BY <1>0 DEF TypeOK
<1>2. /\ ProvedorInd' /\ TravaInd' /\ ContratoInd' /\ VersaoInd' /\ ReciboConfere'
      /\ ContaSemCobranca'
  BY <1>0 DEF AssinaturasInd, ProvedorInd, TravaInd, ContratoInd, VersaoInd, ReciboConfere,
              ContaSemCobranca, Contratadas, EmAndamento
<1>3. ASSUME NEW u \in Transacoes PROVE OpInd(u)' /\ DentroInd(u)'
  <2>1. OpInd(u) /\ DentroInd(u)
    BY DEF AssinaturasInd
  <2>2. ~(Op(u, "excluir") /\ tx[u].passo # "reservar")
    <3>1. SUFFICES ASSUME Op(u, "excluir"), tx[u].passo # "reservar" PROVE FALSE
      OBVIOUS
    <3>2. tx[u].passo # "fora"
      BY <1>0, <2>1, <3>1, Registro DEF OpInd, Op
    <3>3. tx[u].alvo \in Exclusoes
      BY <2>1, <3>1 DEF OpInd, Op
    <3>4. Reservada(tx[u].alvo)
      BY <3>1, <3>2 DEF Reservada
    <3>5. QED
      BY <3>3, <3>4 DEF CancelarExclusao
  <2>3. OpInd(u)'
    BY <1>0, <2>1, <2>2 DEF OpInd, Op
  <2>4. DentroInd(u)'
    BY <1>0, <2>1 DEF DentroInd, NaLinha, Limpo, CopiaInd, Contratadas, EmAndamento, Em, Op
  <2>5. QED
    BY <2>3, <2>4
<1>4. QED
  BY <1>1, <1>2, <1>3 DEF AssinaturasInd

-----------------------------------------------------------------------------
(***************************************************************************)
(* The provider, and the theorems                                          *)
(***************************************************************************)
LEMMA ProvedorMantem ==
    ASSUME AssinaturasInd, NEW k \in Chaves, Pagar(k) \/ SessaoExpira(k) \/ Mudar(k)
    PROVE  AssinaturasInd'
<1> DEFINE SubOK == [Chaves -> [estado: {"nenhuma", "andamento", "cancelada"},
                                versao: 0 .. MaxVersao, fim: BOOLEAN]]
           SesOK == [Chaves -> {"nenhuma", "aberta", "paga", "expirada"}]
<1>0. /\ TypeOK /\ ProvedorInd /\ UNCHANGED <<linha, conta, exclusao, recibos, dadas, largadas>>
      /\ UNCHANGED <<trava, tx>> /\ assin \in SubOK /\ sessao \in SesOK /\ MaxVersao \in Nat \ {0}
      /\ dadas \subseteq Chaves
  BY AssinaturasAssumption
     DEF AssinaturasInd, Pagar, SessaoExpira, Mudar, tabelas, clientes, TypeOK
<1> HIDE DEF SubOK, SesOK
<1>1. ASSUME ProvedorInd', Adiante, sessao' \in SesOK, assin' \in SubOK PROVE AssinaturasInd'
  <2>1. TypeOK'
    BY <1>0, <1>1 DEF TypeOK, SubOK, SesOK
  <2>2. TravaInd'
    BY <1>0 DEF AssinaturasInd, TravaInd
  <2>3. QED
    BY <1>0, <1>1, <2>1, <2>2, Muda DEF AssinaturasInd
<1>2. CASE SessaoExpira(k)
  BY <1>0, <1>1, <1>2, Expirada DEF SessaoExpira, SesOK
<1>3. CASE Pagar(k)
  <2>1. /\ \A j \in Chaves : sessao'[j] = IF j = k THEN "paga" ELSE sessao[j]
        /\ \A j \in Chaves \ {k} : assin'[j] = assin[j]
        /\ assin'[k] = [estado |-> "andamento", versao |-> 1, fim |-> FALSE]
        /\ k \in dadas /\ sessao[k] = "aberta"
        /\ sessao' \in SesOK /\ assin' \in SubOK
    BY <1>0, <1>3 DEF Pagar, SesOK, SubOK
  <2>2. /\ assin'[k].estado = "andamento" /\ assin'[k].versao = 1
        /\ assin[k].estado = "nenhuma" /\ ~(assin[k].versao >= 1)
    BY <1>0, <2>1 DEF ProvedorInd
  <2>3. ProvedorInd'
    BY <1>0, <2>1, <2>2 DEF ProvedorInd
  <2>4. Adiante
    <3>1. \A j \in Chaves : assin[j].versao <= assin'[j].versao
      BY <1>0, <2>1, <2>2 DEF SubOK
    <3>2. \A j \in Chaves : j \in EmAndamento' => j \in EmAndamento \/ j = k
      BY <2>1 DEF EmAndamento
    <3>3. QED
      BY <1>0, <2>1, <3>1, <3>2 DEF Adiante, tabelas, clientes
  <2>5. QED
    BY <1>1, <2>1, <2>3, <2>4
<1>4. CASE Mudar(k)
  <2>1. PICK s \in {"andamento", "cancelada"} : \E f \in BOOLEAN :
           assin' = [assin EXCEPT ![k] = [estado |-> s, versao |-> @.versao + 1, fim |-> f]]
    BY <1>4 DEF Mudar
  <2>2. PICK f \in BOOLEAN :
           assin' = [assin EXCEPT ![k] = [estado |-> s, versao |-> @.versao + 1, fim |-> f]]
    BY <2>1
  <2>3. /\ assin[k].estado = "andamento" /\ assin[k].versao < MaxVersao
        /\ assin[k].versao \in 0 .. MaxVersao /\ sessao' = sessao
    BY <1>0, <1>4 DEF Mudar, SubOK
  <2>4. /\ \A j \in Chaves \ {k} : assin'[j] = assin[j]
        /\ assin'[k].estado = s /\ assin'[k].versao = assin[k].versao + 1
        /\ assin' \in SubOK
    BY <1>0, <2>2, <2>3 DEF SubOK
  <2>5. ProvedorInd'
    BY <1>0, <2>3, <2>4 DEF ProvedorInd
  <2>6. Adiante
    <3>1. \A j \in Chaves : assin[j].versao <= assin'[j].versao
      BY <1>0, <2>3, <2>4 DEF SubOK
    <3>2. \A j \in Chaves : j \in EmAndamento' => j \in EmAndamento
      BY <2>3, <2>4 DEF EmAndamento
    <3>3. QED
      BY <1>0, <2>3, <3>1, <3>2 DEF Adiante, tabelas, clientes
  <2>7. QED
    BY <1>0, <1>1, <2>3, <2>4, <2>5, <2>6
<1>5. QED
  BY <1>2, <1>3, <1>4

LEMMA InitMantem == Init => AssinaturasInd
<1> SUFFICES ASSUME Init PROVE AssinaturasInd
  OBVIOUS
<1>1. MaxVersao \in Nat \ {0} /\ Nada \notin Transacoes \cup Chaves
  BY AssinaturasAssumption
<1>2. Ociosa \in RegTx /\ SemVinculo \in Vinculos
  BY DEF Ociosa, RegTx, SemVinculo, Vinculos, Passos, Operacoes
<1>3. TypeOK
  BY <1>1, <1>2 DEF Init, TypeOK, RegTx
<1>4. \A t \in Transacoes : tx[t] = Ociosa /\ t # Nada
  BY <1>1 DEF Init
<1>5. TravaInd
  BY <1>4 DEF Init, TravaInd, Ociosa, Fora
<1>6. EmAndamento = {} /\ Contratadas = {}
  BY DEF Init, EmAndamento, Contratadas
<1>7. ProvedorInd /\ ContratoInd /\ VersaoInd /\ ReciboConfere /\ ContaSemCobranca
  BY <1>1, <1>6 DEF Init, ProvedorInd, ContratoInd, VersaoInd, ReciboConfere, ContaSemCobranca,
                    SemVinculo
<1>8. ASSUME NEW t \in Transacoes PROVE OpInd(t) /\ DentroInd(t)
  BY <1>3, <1>4, Registro DEF OpInd, DentroInd, Op, Em
<1>9. QED
  BY <1>3, <1>5, <1>7, <1>8 DEF AssinaturasInd

LEMMA NextMantem == AssinaturasInd /\ [Next]_vars => AssinaturasInd'
<1> SUFFICES ASSUME AssinaturasInd, [Next]_vars PROVE AssinaturasInd'
  OBVIOUS
<1>1. ASSUME NEW t \in Transacoes, Pedir(t) \/ Atualizar(t) PROVE AssinaturasInd'
  BY <1>1, PedirMantem
<1>2. ASSUME NEW t \in Transacoes, Passo(t) PROVE AssinaturasInd'
  BY <1>2, ReservarMantem, TravarMantem, ListarCheckoutMantem, ConsultarMantem, ExpirarMantem,
     CriarMantem, GravarCheckoutMantem, ListarMantem, GravarMantem, ListarEncerramentoMantem,
     ConferirMantem, ConcluirMantem DEF Passo
<1>3. ASSUME NEW t \in Transacoes, Abortar(t) PROVE AssinaturasInd'
  BY <1>3, DesistirMantem DEF Abortar
<1>4. CASE CancelarExclusao
  BY <1>4, CancelarMantem
<1>5. CASE Provedor
  BY <1>5, ProvedorMantem DEF Provedor
<1>6. CASE UNCHANGED vars
  <2>1. TypeOK' /\ ProvedorInd' /\ TravaInd' /\ ContratoInd' /\ VersaoInd'
    BY <1>6 DEF AssinaturasInd, vars, TypeOK, ProvedorInd, TravaInd, ContratoInd, VersaoInd,
                Contratadas, EmAndamento
  <2>2. ReciboConfere' /\ ContaSemCobranca'
    BY <1>6 DEF AssinaturasInd, vars, ReciboConfere, ContaSemCobranca, Contratadas, EmAndamento
  <2>3. ASSUME NEW t \in Transacoes PROVE OpInd(t)' /\ DentroInd(t)'
    BY <1>6 DEF AssinaturasInd, vars, OpInd, DentroInd, NaLinha, Limpo, CopiaInd, Contratadas,
                EmAndamento, Em, Op
  <2>4. QED
    BY <2>1, <2>2, <2>3 DEF AssinaturasInd
<1>7. QED
  BY <1>1, <1>2, <1>3, <1>4, <1>5, <1>6 DEF Next, Transacoes

\* AssinaturasInd is inductive: what the holder of the lock copied is still in
\* the row, and what the provider did meanwhile only closes sessions the row
\* knows and raises versions.
THEOREM AssinaturasIndutivo == Spec => []AssinaturasInd
  BY InitMantem, NextMantem, PTL DEF Spec

\* The rows, the calls and the provider keep their types.
THEOREM AssinaturasTipos == Spec => []TypeOK
<1>1. AssinaturasInd => TypeOK
  BY DEF AssinaturasInd
<1>2. QED
  BY <1>1, AssinaturasIndutivo, PTL

\* checkout never leaves a client two ways to pay.
THEOREM ContratacaoSempre == Spec => []UmaContratacao
<1>1. AssinaturasInd => UmaContratacao
  <2>1. SUFFICES ASSUME AssinaturasInd PROVE UmaContratacao
    OBVIOUS
  <2>2. \A j, k \in Contratadas \ largadas : j = k
    BY <2>1 DEF AssinaturasInd, ContratoInd
  <2>3. CASE Contratadas \ largadas = {}
    BY <2>3, FS_EmptySet DEF UmaContratacao
  <2>4. ASSUME NEW k \in Contratadas \ largadas PROVE UmaContratacao
    <3>1. Contratadas \ largadas = {k}
      BY <2>2, <2>4
    <3>2. Cardinality({k}) = 1
      BY FS_Singleton
    <3>3. QED
      BY <3>1, <3>2 DEF UmaContratacao
  <2>5. QED
    BY <2>3, <2>4
<1>2. QED
  BY <1>1, AssinaturasIndutivo, PTL

\* An account is removed only when nothing is charged to it, now or from an
\* open checkout that its row recorded.
THEOREM RemocaoSempre == Spec => []ContaSemCobranca
<1>1. AssinaturasInd => ContaSemCobranca
  BY DEF AssinaturasInd
<1>2. QED
  BY <1>1, AssinaturasIndutivo, PTL

\* A receipt exists only when the row has what the notification told.
THEOREM ReciboSempre == Spec => []ReciboConfere
<1>1. AssinaturasInd => ReciboConfere
  BY DEF AssinaturasInd
<1>2. QED
  BY <1>1, AssinaturasIndutivo, PTL

\* Who writes the row and who removes the account.
LEMMA QuemEscreve ==
    ASSUME [Next]_vars
    PROVE  /\ linha' # linha => \E t \in Transacoes : GravarCheckout(t) \/ GravarReconciliacao(t)
           /\ conta' # conta => \E t \in Transacoes : Concluir(t)
<1>1. ASSUME NEW t \in Transacoes, Pedir(t) \/ Atualizar(t) PROVE UNCHANGED <<linha, conta>>
  <2>1. \E s, o, p, a : Iniciar(t, s, o, p, a)
    BY <1>1 DEF Pedir, Checkout, Webhook, Atualizar, SolicitarExclusao, ExecutarExclusao
  <2>2. QED
    BY <2>1 DEF Iniciar, tabelas
<1>2. ASSUME NEW t \in Transacoes, Desistir(t) PROVE UNCHANGED <<linha, conta>>
  BY <1>2 DEF Desistir, tabelas
<1>3. ASSUME NEW t \in Transacoes, Passo(t)
      PROVE  UNCHANGED <<linha, conta>> \/ (Concluir(t) /\ linha' = linha)
             \/ ((GravarCheckout(t) \/ GravarReconciliacao(t)) /\ conta' = conta)
  <2>1. CASE Reservar(t) \/ Travar(t)
    BY <1>2, <2>1 DEF Reservar, Travar, tabelas
  <2>2. CASE ListarCheckout(t) \/ ConsultarSessao(t) \/ ExpirarSessao(t)
    BY <1>2, <2>2 DEF ListarCheckout, ConsultarSessao, ExpirarSessao, tabelas
  <2>3. CASE CriarSessao(t) \/ ListarReconciliacao(t)
    BY <1>2, <2>3 DEF CriarSessao, ListarReconciliacao, tabelas
  <2>4. CASE ListarEncerramento(t) \/ ConferirSessao(t)
    BY <1>2, <2>4 DEF ListarEncerramento, ConferirSessao, tabelas
  <2>5. CASE GravarCheckout(t) \/ GravarReconciliacao(t) \/ Concluir(t)
    BY <2>5 DEF GravarCheckout, Vincular, GravarReconciliacao, Concluir
  <2>6. QED
    BY <1>3, <2>1, <2>2, <2>3, <2>4, <2>5 DEF Passo
<1>4. CASE CancelarExclusao \/ Provedor
  BY <1>4 DEF CancelarExclusao, Provedor, Pagar, SessaoExpira, Mudar, tabelas
<1>5. ASSUME NEW t \in Transacoes, Abortar(t) PROVE UNCHANGED <<linha, conta>>
  BY <1>2, <1>5 DEF Abortar
<1>6. CASE UNCHANGED vars
  BY <1>6 DEF vars
<1>7. QED
  BY <1>1, <1>3, <1>4, <1>5, <1>6 DEF Next, Transacoes

\* Late, repeated or reordered notifications never take the row back to an
\* older state of the subscription it has.
THEOREM VoltaNunca == Spec => NuncaVolta
<1> DEFINE A == linha'.sub = linha.sub => linha'.versao >= linha.versao
<1>1. AssinaturasInd /\ [Next]_vars => [A]_linha
  <2>1. SUFFICES ASSUME AssinaturasInd, [Next]_vars, linha' # linha,
                        linha'.sub = linha.sub
                 PROVE  linha'.versao >= linha.versao
    OBVIOUS
  <2>2. TypeOK /\ linha.versao \in Nat
    BY <2>1, Registro DEF AssinaturasInd, TypeOK
  <2>4. PICK t \in Transacoes : GravarCheckout(t) \/ GravarReconciliacao(t)
    BY <2>1, QuemEscreve
  <2>5. CASE GravarCheckout(t)
    <3>1. linha' = [linha EXCEPT !.ck = tx[t].ck]
      BY <2>5 DEF GravarCheckout, Vincular
    <3>2. linha'.versao = linha.versao
      BY <2>2, <3>1 DEF TypeOK
    <3>3. QED
      BY <2>2, <3>2
  <2>6. CASE GravarReconciliacao(t)
    <3>1. CopiaInd(t) /\ tx[t].atual # Nada
      BY <2>1, <2>6 DEF GravarReconciliacao, NaReconciliacao, AssinaturasInd, DentroInd
    <3>2. /\ linha'.sub = tx[t].atual[1] /\ linha'.versao = tx[t].atual[2]
          /\ linha.sub = tx[t].atual[1] => linha.versao <= tx[t].atual[2]
      BY <2>6, <3>1 DEF GravarReconciliacao, CopiaInd
    <3>3. tx[t].atual[2] \in Nat
      BY <2>2, <3>1, Registro DEF RegTx, Eventos
    <3>4. QED
      BY <2>1, <2>2, <3>2, <3>3
  <2>7. QED
    BY <2>4, <2>5, <2>6
<1>2. QED
  BY <1>1, AssinaturasIndutivo, PTL DEF Spec, NuncaVolta

\* Once its owner has cancelled every request, the account stays.
THEOREM RemocaoPendente == Spec => CanceladaNaoRemove
<1> DEFINE A == conta' # conta => \E e \in Exclusoes : exclusao[e] = "pendente"
<1>1. AssinaturasInd /\ [Next]_vars => [A]_conta
  <2>1. SUFFICES ASSUME AssinaturasInd, [Next]_vars, conta' # conta
                 PROVE  \E e \in Exclusoes : exclusao[e] = "pendente"
    OBVIOUS
  <2>2. PICK t \in Transacoes : Concluir(t)
    BY <2>1, QuemEscreve
  <2>3. OpInd(t) /\ Op(t, "excluir") /\ tx[t].passo = "concluir"
    BY <2>1, <2>2 DEF Concluir, NoEncerramento, Em, AssinaturasInd
  <2>4. tx[t].alvo \in Exclusoes /\ exclusao[tx[t].alvo] = "pendente"
    BY <2>3 DEF OpInd, Op
  <2>5. QED
    BY <2>4
<1>2. QED
  BY <1>1, AssinaturasIndutivo, PTL DEF Spec, CanceladaNaoRemove
=============================================================================
