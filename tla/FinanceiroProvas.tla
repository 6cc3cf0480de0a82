-------------------------- MODULE FinanceiroProvas --------------------------
(***************************************************************************)
(* Proofs about Financeiro: for any accounts, keys and calls, rows keep    *)
(* their type, an account's status says what was paid and follows its      *)
(* sale, and a repeated payment is recovered.                              *)
(***************************************************************************)
EXTENDS Financeiro, Somas

ContaTipo == [status: Status, pago: Nat]
BaixaTipo == [conta: Contas \cup {Nenhum}, valor: Nat, data: Nat,
              estornada: BOOLEAN, estornadaEm: Nat]
TxTipo == [passo: Passos, pago: Nat, dia: Nat]

Andando(t) == tx[t].passo \notin {"fora", "fim"}

\* The row that t locked first.
LinhaDe(t) == IF Tipo(t, "ESTORNAR_VENDA") THEN Empresa ELSE Conta(t)

\* t holds its account; a refund only from its UPDATE of it.
TemConta(t) ==
    Andando(t) /\ (Tipo(t, "ESTORNAR_VENDA") => tx[t].passo \in {"escrever", "gravar"})

TravasInd(t) ==
    /\ Andando(t) => trava[LinhaDe(t)] = t
    /\ TemConta(t) => trava[Conta(t)] = t
    /\ tx[t].passo = "conta" => Tipo(t, "ESTORNAR_VENDA")

\* What t read still holds while it has the lock, and so what it will write.
LidoInd(t) ==
    LET c == conta[Conta(t)] IN
    /\ Tipo(t, "BAIXAR") /\ tx[t].passo \in {"escrever", "gravar"} =>
         /\ c.status \notin {"AUSENTE", "CANCELADO"}
         /\ tx[t].pago = c.pago + pedido[t].valor
         /\ tx[t].pago <= Valor[Conta(t)]
    /\ Tipo(t, "ESTORNAR_BAIXA") /\ tx[t].passo \in {"escrever", "gravar"} =>
         /\ c.status \notin {"AUSENTE", "CANCELADO"}
         /\ baixa[pedido[t].chave].conta = Conta(t)
         /\ tx[t].pago <= c.pago
         /\ tx[t].pago < Valor[Conta(t)]
    /\ Tipo(t, "CANCELAR") /\ tx[t].passo = "gravar" => Cancelavel(Conta(t))
    /\ Tipo(t, "ESTORNAR_VENDA") /\ tx[t].passo \in {"conta", "escrever", "gravar"} =>
         Existe(Conta(t)) /\ Conta(t) \notin estornadas

\* The key of a payment about to be inserted.
ChaveInd(t) ==
    /\ Tipo(t, "BAIXAR") /\ tx[t].passo = "escrever" =>
         baixa[pedido[t].chave].conta # Conta(t)
    /\ Tipo(t, "BAIXAR") /\ tx[t].passo = "gravar" =>
         /\ ~Registrada(pedido[t].chave)
         /\ \A u \in Chamadas \ {t} :
              Tipo(u, "BAIXAR") /\ tx[u].passo = "gravar" => pedido[u].chave # pedido[t].chave

\* A registered payment is of an account that exists; a sale's own, of its account.
BaixaInd ==
    \A k \in Identificacoes : Registrada(k) =>
        /\ Existe(baixa[k].conta)
        /\ baixa[k].valor > 0
        /\ k \in Contas => baixa[k].conta = k

RespostaInd(t) ==
    Tipo(t, "BAIXAR") =>
        LET b == baixa[pedido[t].chave] IN
        /\ resp[t] = "UNICIDADE" => Registrada(pedido[t].chave) /\ b.conta # Conta(t)
        /\ resp[t] = "FEITO" => b.conta = Conta(t) /\ b.valor = pedido[t].valor

ContaInd(c) ==
    Existe(c) =>
        /\ conta[c].pago <= Valor[c]
        /\ IF conta[c].status = "CANCELADO" THEN conta[c].pago = 0
                                            ELSE conta[c].status = StatusDe(c)
        /\ c \in DeVenda => (conta[c].status = "CANCELADO" <=> c \in estornadas)

FinInd ==
    /\ TypeOK
    /\ \A t \in Chamadas : TravasInd(t) /\ LidoInd(t) /\ ChaveInd(t) /\ RespostaInd(t)
    /\ \A c \in Contas : ContaInd(c) /\ (c \in estornadas => Existe(c))
    /\ BaixaInd

-----------------------------------------------------------------------------
\* What the assumption says of the content of a call.
LEMMA Conteudo ==
    ASSUME TypeOK, NEW t \in Chamadas
    PROVE  /\ pedido[t] \in Pedidos /\ Conta(t) \in Contas /\ Conta(t) # Empresa
           /\ LinhaDe(t) \in Linhas /\ Conta(t) \in Linhas
           /\ pedido[t].tipo \in Tipos
           /\ Tipo(t, "ESTORNAR_VENDA") => Conta(t) \in DeVenda
           /\ Tipo(t, "BAIXAR") => pedido[t].chave \in Chaves /\ pedido[t].valor \in Nat \ {0}
           /\ Tipo(t, "BAIXAR") \/ Tipo(t, "ESTORNAR_BAIXA") => pedido[t].chave \in Identificacoes
<1>1. pedido[t] \in Pedidos
  BY DEF TypeOK
<1>2. /\ pedido[t].conta \in Contas /\ pedido[t].tipo \in Tipos
      /\ pedido[t].tipo = "ESTORNAR_VENDA" => pedido[t].conta \in DeVenda
      /\ pedido[t].tipo = "BAIXAR" => pedido[t].chave \in Chaves /\ pedido[t].valor \in Nat \ {0}
      /\ pedido[t].tipo = "ESTORNAR_BAIXA" => pedido[t].chave \in Identificacoes
  BY <1>1, FinanceiroAssumption
<1>3. Empresa \notin Contas
  BY FinanceiroAssumption
<1>4. QED
  BY <1>1, <1>2, <1>3 DEF Conta, Tipo, LinhaDe, Linhas, Identificacoes

\* A step of t that writes no row leaves the others as they were.
LEMMA SemEscrita ==
    ASSUME FinInd, NEW t \in Chamadas, TypeOK',
           UNCHANGED <<pedido, conta, baixa, estornadas>>,
           \A u \in Chamadas \ {t} : tx'[u] = tx[u] /\ resp'[u] = resp[u],
           \A r \in Linhas : trava[r] \in Chamadas \ {t} => trava'[r] = trava[r],
           TravasInd(t)', LidoInd(t)', ChaveInd(t)', RespostaInd(t)'
    PROVE  FinInd'
<1>1. BaixaInd'
  BY DEF FinInd, BaixaInd, Registrada, Existe
<1>2. \A c \in Contas : ContaInd(c)' /\ (c \in estornadas' => Existe(c)')
  BY DEF FinInd, ContaInd, Existe, StatusDe
<1>3. ASSUME NEW u \in Chamadas \ {t}
      PROVE  TravasInd(u)' /\ LidoInd(u)' /\ ChaveInd(u)' /\ RespostaInd(u)'
  <2>1. TypeOK
    BY DEF FinInd
  <2>2. TravasInd(u)'
    BY <2>1, Conteudo DEF FinInd, TravasInd, Andando, TemConta, LinhaDe, Tipo, Conta
  <2>3. LidoInd(u)'
    BY DEF FinInd, LidoInd, Tipo, Conta, Existe, Cancelavel
  <2>4. ChaveInd(u)'
    <3>1. ASSUME NEW w \in Chamadas \ {u}, Tipo(u, "BAIXAR"), tx[u].passo = "gravar",
                 Tipo(w, "BAIXAR"), tx'[w].passo = "gravar"
          PROVE  pedido[w].chave # pedido[u].chave
      BY <3>1 DEF FinInd, ChaveInd, Tipo
    <3>2. QED
      BY <3>1 DEF FinInd, ChaveInd, Tipo, Conta, Registrada
  <2>5. RespostaInd(u)'
    BY DEF FinInd, RespostaInd, Tipo, Conta, Registrada
  <2>6. QED
    BY <2>2, <2>3, <2>4, <2>5
<1>4. QED
  BY <1>1, <1>2, <1>3 DEF FinInd

\* An end that writes nothing.
LEMMA Termina ==
    ASSUME FinInd, NEW t \in Chamadas, NEW x \in Respostas, Encerrar(t, x), RespostaInd(t)'
    PROVE  FinInd'
<1>1. tx'[t].passo = "fim" /\ tx' \in [Chamadas -> TxTipo]
  <2>1. [tx[t] EXCEPT !.passo = "fim"] \in TxTipo
    BY DEF FinInd, TypeOK, TxTipo, Passos
  <2>2. QED
    BY <2>1 DEF FinInd, TypeOK, TxTipo, Encerrar, Sair
<1>2. TypeOK'
  BY <1>1 DEF FinInd, TypeOK, Encerrar, Sair, TxTipo
<1>3. TravasInd(t)' /\ LidoInd(t)' /\ ChaveInd(t)'
  BY <1>1 DEF TravasInd, LidoInd, ChaveInd, Andando, TemConta
<1>4. \A u \in Chamadas \ {t} : tx'[u] = tx[u] /\ resp'[u] = resp[u]
  BY DEF Encerrar, Sair, FinInd, TypeOK
<1>5. \A r \in Linhas : trava[r] \in Chamadas \ {t} => trava'[r] = trava[r]
  BY DEF Encerrar, Sair
<1>6. QED
  BY <1>2, <1>3, <1>4, <1>5, SemEscrita DEF Encerrar
\* A step of t that only goes to step s, with what it read.
LEMMA Avanca ==
    ASSUME FinInd, NEW t \in Chamadas, NEW s \in Passos, NEW n \in Nat, NEW d \in Nat, SoTx,
           Ir(t, s, n, d), TravasInd(t)', LidoInd(t)', ChaveInd(t)'
    PROVE  FinInd'
<1>1. TypeOK'
  BY DEF FinInd, TypeOK, SoTx, Ir
<1>2. RespostaInd(t)'
  BY DEF FinInd, RespostaInd, SoTx, Tipo, Conta, Registrada
<1>3. \A u \in Chamadas \ {t} : tx'[u] = tx[u] /\ resp'[u] = resp[u]
  BY DEF FinInd, TypeOK, SoTx, Ir
<1>4. QED
  BY <1>1, <1>2, <1>3, SemEscrita DEF SoTx

LEMMA Tx ==
    ASSUME TypeOK, NEW t \in Chamadas
    PROVE  /\ tx[t].passo \in Passos /\ tx[t].pago \in Nat /\ tx[t].dia \in Nat /\ hoje \in Nat
           /\ conta[Conta(t)].pago \in Nat /\ conta[Conta(t)].status \in Status
           /\ Valor[Conta(t)] \in Nat
<1>1. Conta(t) \in Contas
  BY Conteudo
<1>2. QED
  BY <1>1, FinanceiroAssumption DEF TypeOK

\* The first lock.
LEMMA PassoBloquear ==
    ASSUME FinInd, NEW t \in Chamadas, Bloquear(t)
    PROVE  FinInd'
<1>0. TypeOK
  BY DEF FinInd
<1> DEFINE n == [passo |-> "ler", pago |-> 0, dia |-> 0]
<1>1. Em(t, "fora") /\ trava[LinhaDe(t)] = Livre /\ trava' = [trava EXCEPT ![LinhaDe(t)] = t]
      /\ tx' = [tx EXCEPT ![t] = n] /\ UNCHANGED <<pedido, conta, baixa, estornadas, resp, hoje>>
  BY DEF Bloquear, TravarLinha, LinhaDe, Ir
<1>3. n \in TxTipo /\ n.passo = "ler"
  BY DEF TxTipo, Passos
<1>4. TypeOK'
  <2>1. tx' \in [Chamadas -> TxTipo]
    BY <1>0, <1>1, <1>3 DEF TypeOK, TxTipo
  <2>2. trava' \in [Linhas -> Chamadas \cup {Livre}]
    BY <1>0, <1>1, Conteudo DEF TypeOK
  <2>3. QED
    BY <1>0, <1>1, <2>1, <2>2 DEF TypeOK, TxTipo
<1>5. tx'[t].passo = "ler" /\ trava'[LinhaDe(t)] = t
  BY <1>0, <1>1, <1>3, Conteudo DEF TypeOK
<1>6. TravasInd(t)' /\ LidoInd(t)' /\ ChaveInd(t)'
  <2>1. LinhaDe(t)' = LinhaDe(t) /\ Conta(t)' = Conta(t) /\ (Tipo(t, "ESTORNAR_VENDA")' <=> Tipo(t, "ESTORNAR_VENDA"))
    BY <1>1 DEF LinhaDe, Conta, Tipo
  <2>2. TravasInd(t)'
    BY <1>5, <2>1 DEF TravasInd, TemConta, LinhaDe
  <2>3. QED
    BY <1>5, <2>2 DEF LidoInd, ChaveInd
<1>7. RespostaInd(t)'
  BY <1>1 DEF FinInd, RespostaInd, Tipo, Conta, Registrada
<1>8. \A r \in Linhas : trava[r] \in Chamadas \ {t} => trava'[r] = trava[r]
  BY <1>0, <1>1, FinanceiroAssumption DEF TypeOK
<1>9. \A u \in Chamadas \ {t} : tx'[u] = tx[u] /\ resp'[u] = resp[u]
  BY <1>0, <1>1 DEF TypeOK
<1>10. QED
  BY <1>1, <1>4, <1>6, <1>7, <1>8, <1>9, SemEscrita

LEMMA PassoAbortar ==
    ASSUME FinInd, NEW t \in Chamadas, Abortar(t)
    PROVE  FinInd'
<1>1. Encerrar(t, "FALHA") /\ "FALHA" \in Respostas
  BY DEF Abortar, Respostas
<1>2. RespostaInd(t)'
  <2>1. resp'[t] = "FALHA"
    BY <1>1 DEF Encerrar, Sair, FinInd, TypeOK
  <2>2. QED
    BY <2>1 DEF RespostaInd
<1>3. QED
  BY <1>1, <1>2, Termina

-----------------------------------------------------------------------------
\* A refusal; and an answer to a call that is no payment.
LEMMA PassoRecusa ==
    ASSUME FinInd, NEW t \in Chamadas, NEW x \in Respostas, Encerrar(t, x),
           x \in {"RECUSADO", "CONFLITO"} \/ ~Tipo(t, "BAIXAR")
    PROVE  FinInd'
<1>1. resp'[t] = x
  BY DEF Encerrar, Sair, FinInd, TypeOK
<1>2. RespostaInd(t)'
  BY <1>1 DEF RespostaInd, Encerrar, Tipo
<1>3. QED
  BY <1>2, Termina

LEMMA PassoLerBaixar ==
    ASSUME FinInd, NEW t \in Chamadas, LerBaixar(t)
    PROVE  FinInd'
<1>0. TypeOK /\ Em(t, "ler") /\ Tipo(t, "BAIXAR")
  BY DEF FinInd, LerBaixar
<1> DEFINE k == pedido[t].chave
           n == conta[Conta(t)].pago + pedido[t].valor
<1>1. CASE Existe(Conta(t)) /\ Registrada(k) /\ MesmaBaixa(t)
  <2>1. Encerrar(t, "FEITO") /\ "FEITO" \in Respostas
    BY <1>1 DEF LerBaixar, Respostas
  <2>2. resp'[t] = "FEITO"
    BY <2>1 DEF Encerrar, Sair, FinInd, TypeOK
  <2>3. RespostaInd(t)'
    BY <1>1, <2>1, <2>2 DEF RespostaInd, MesmaBaixa, Encerrar, Conta, Tipo
  <2>4. QED
    BY <2>1, <2>3, Termina
<1>2. CASE Existe(Conta(t)) /\ Registrada(k) /\ ~MesmaBaixa(t)
  <2>1. Encerrar(t, "CONFLITO") /\ "CONFLITO" \in Respostas
    BY <1>2 DEF LerBaixar, Respostas
  <2>2. QED
    BY <2>1, PassoRecusa
<1>3. CASE ~(Existe(Conta(t)) /\ Registrada(k)) /\ Encerrar(t, "RECUSADO")
  BY <1>3, PassoRecusa DEF Respostas
<1>4. CASE /\ ~(Existe(Conta(t)) /\ Registrada(k))
           /\ conta[Conta(t)].status \notin {"AUSENTE", "CANCELADO"}
           /\ n <= Valor[Conta(t)]
           /\ Ir(t, "escrever", n, 0)
           /\ SoTx
  <2>1. n \in Nat
    BY <1>0, Tx, Conteudo
  <2>3. tx'[t].passo = "escrever" /\ tx'[t].pago = n
    BY <1>0, <1>4 DEF TypeOK, Ir
  <2>4. TravasInd(t)'
    BY <1>0, <1>4, <2>3 DEF FinInd, TravasInd, Andando, TemConta, LinhaDe, Tipo, Conta, Em, SoTx
  <2>5. LidoInd(t)'
    BY <1>0, <1>4, <2>3 DEF LidoInd, Tipo, Conta, SoTx
  <2>6. Conta(t) # Nenhum
    BY <1>0, Conteudo, FinanceiroAssumption
  <2>7. ChaveInd(t)'
    BY <1>0, <1>4, <2>3, <2>6 DEF ChaveInd, Tipo, Conta, SoTx, Existe, Registrada
  <2>8. QED
    BY <1>4, <2>1, <2>4, <2>5, <2>7, Avanca DEF Passos
<1>5. QED
  BY <1>0, <1>1, <1>2, <1>3, <1>4 DEF LerBaixar

LEMMA PassoCriarBaixa ==
    ASSUME FinInd, NEW t \in Chamadas, CriarBaixa(t)
    PROVE  FinInd'
<1>0. TypeOK /\ Em(t, "escrever") /\ Tipo(t, "BAIXAR")
  BY DEF FinInd, CriarBaixa
<1>1. CASE Registrada(pedido[t].chave)
  <2>1. Encerrar(t, "UNICIDADE") /\ "UNICIDADE" \in Respostas
    BY <1>1 DEF CriarBaixa, Respostas
  <2>2. resp'[t] = "UNICIDADE"
    BY <2>1 DEF Encerrar, Sair, FinInd, TypeOK
  <2>3. baixa[pedido[t].chave].conta # Conta(t)
    BY <1>0 DEF FinInd, ChaveInd, Em
  <2>4. RespostaInd(t)'
    BY <1>1, <2>1, <2>2, <2>3 DEF RespostaInd, Encerrar, Conta, Tipo, Registrada
  <2>5. QED
    BY <2>1, <2>4, Termina
<1>2. CASE ~Registrada(pedido[t].chave)
  <2>1. SoTx /\ Ir(t, "gravar", tx[t].pago, hoje)
    BY <1>2 DEF CriarBaixa
  <2>3. tx'[t].passo = "gravar" /\ tx'[t].pago = tx[t].pago
    BY <1>0, <2>1 DEF TypeOK, Ir
  <2>4. TravasInd(t)'
    BY <1>0, <2>1, <2>3 DEF FinInd, TravasInd, Andando, TemConta, LinhaDe, Tipo, Conta, Em, SoTx
  <2>5. LidoInd(t)'
    BY <1>0, <2>1, <2>3 DEF FinInd, LidoInd, Tipo, Conta, SoTx, Em
  <2>6. \A u \in Chamadas \ {t} : tx'[u] = tx[u]
    BY <1>0, <2>1 DEF TypeOK, Ir
  <2>7. ChaveInd(t)'
    BY <1>0, <1>2, <2>1, <2>3, <2>6 DEF ChaveInd, CriarBaixa, Tipo, SoTx, Registrada, Em
  <2>8. QED
    BY <1>0, <2>1, <2>4, <2>5, <2>7, Tx, Avanca DEF Passos
<1>3. QED
  BY <1>1, <1>2

LEMMA PassoLerEstornarBaixa ==
    ASSUME FinInd, NEW t \in Chamadas, LerEstornarBaixa(t)
    PROVE  FinInd'
<1>0. TypeOK /\ Em(t, "ler") /\ Tipo(t, "ESTORNAR_BAIXA") /\ ~Tipo(t, "BAIXAR")
  BY DEF FinInd, LerEstornarBaixa, Tipo
<1> DEFINE b == baixa[pedido[t].chave]
           n == conta[Conta(t)].pago - b.valor
<1>1. CASE Encerrar(t, "FEITO") \/ Encerrar(t, "RECUSADO")
  BY <1>0, <1>1, PassoRecusa DEF Respostas
<1>2. CASE /\ b.conta = Conta(t) /\ conta[Conta(t)].status # "CANCELADO"
           /\ b.valor <= conta[Conta(t)].pago
           /\ Ir(t, "escrever", n, 0)
           /\ SoTx
  <2>1. /\ pedido[t].chave \in Identificacoes /\ Conta(t) \in Contas /\ Conta(t) # Nenhum
        /\ Registrada(pedido[t].chave)
    BY <1>0, <1>2, Conteudo, FinanceiroAssumption DEF Registrada
  <2>2. Existe(Conta(t)) /\ b.valor > 0 /\ b.valor \in Nat
    BY <1>0, <1>2, <2>1 DEF FinInd, BaixaInd, TypeOK
  <2>3. conta[Conta(t)].pago <= Valor[Conta(t)]
    BY <2>1, <2>2 DEF FinInd, ContaInd
  <2>4. n \in Nat /\ n <= conta[Conta(t)].pago /\ n < Valor[Conta(t)]
    BY <1>0, <1>2, <2>2, <2>3, Tx
  <2>6. tx'[t].passo = "escrever" /\ tx'[t].pago = n
    BY <1>0, <1>2 DEF TypeOK, Ir
  <2>7. TravasInd(t)'
    BY <1>0, <1>2, <2>6 DEF FinInd, TravasInd, Andando, TemConta, LinhaDe, Tipo, Conta, Em, SoTx
  <2>8. LidoInd(t)'
    BY <1>0, <1>2, <2>2, <2>4, <2>6 DEF LidoInd, Tipo, Conta, SoTx, Existe
  <2>9. ChaveInd(t)'
    BY <1>0, <1>2 DEF ChaveInd, Tipo, SoTx
  <2>10. QED
    BY <1>2, <2>4, <2>7, <2>8, <2>9, Avanca DEF Passos
<1>3. QED
  BY <1>0, <1>1, <1>2 DEF LerEstornarBaixa

\* The statements that write what was read: a reversal, a refund's payments.
LEMMA PassoEscrever ==
    ASSUME FinInd, NEW t \in Chamadas, EscreverEstorno(t) \/ EstornarBaixas(t)
    PROVE  FinInd'
<1>0. TypeOK /\ Em(t, "escrever") /\ ~Tipo(t, "BAIXAR") /\ ~Tipo(t, "CANCELAR") /\ SoTx
  BY DEF FinInd, EscreverEstorno, EstornarBaixas, Tipo
<1>1. PICK n \in Nat : Ir(t, "gravar", n, hoje) /\ (Tipo(t, "ESTORNAR_BAIXA") => n = tx[t].pago)
  BY <1>0, Tx DEF EscreverEstorno, EstornarBaixas, Tipo
<1>2. tx'[t].passo = "gravar" /\ tx'[t].pago = n
  BY <1>0, <1>1 DEF TypeOK, Ir
<1>3. TravasInd(t)'
  BY <1>0, <1>2 DEF FinInd, TravasInd, Andando, TemConta, LinhaDe, Tipo, Conta, Em, SoTx
<1>4. LidoInd(t)'
  BY <1>0, <1>1, <1>2 DEF FinInd, LidoInd, Tipo, Conta, SoTx, Em, Existe
<1>5. ChaveInd(t)'
  BY <1>0 DEF ChaveInd, Tipo, SoTx
<1>6. QED
  BY <1>0, <1>1, <1>3, <1>4, <1>5, Tx, Avanca DEF Passos

LEMMA PassoLerCancelar ==
    ASSUME FinInd, NEW t \in Chamadas, LerCancelar(t)
    PROVE  FinInd'
<1>0. TypeOK /\ Em(t, "ler") /\ Tipo(t, "CANCELAR") /\ ~Tipo(t, "BAIXAR")
  BY DEF FinInd, LerCancelar, Tipo
<1>1. CASE Encerrar(t, "RECUSADO")
  BY <1>1, PassoRecusa DEF Respostas
<1>2. CASE Cancelavel(Conta(t)) /\ SoTx /\ Ir(t, "gravar", 0, 0)
  <2>2. tx'[t].passo = "gravar"
    BY <1>0, <1>2 DEF TypeOK, Ir
  <2>3. TravasInd(t)'
    BY <1>0, <1>2, <2>2 DEF FinInd, TravasInd, Andando, TemConta, LinhaDe, Tipo, Conta, Em, SoTx
  <2>4. LidoInd(t)'
    BY <1>0, <1>2, <2>2 DEF LidoInd, Tipo, Conta, SoTx, Existe, Cancelavel
  <2>5. ChaveInd(t)'
    BY <1>0, <1>2 DEF ChaveInd, Tipo, SoTx
  <2>6. QED
    BY <1>2, <2>3, <2>4, <2>5, Avanca DEF Passos
<1>3. QED
  BY <1>0, <1>1, <1>2 DEF LerCancelar

LEMMA PassoLerEstornarVenda ==
    ASSUME FinInd, NEW t \in Chamadas, LerEstornarVenda(t)
    PROVE  FinInd'
<1>0. TypeOK /\ Em(t, "ler") /\ Tipo(t, "ESTORNAR_VENDA") /\ ~Tipo(t, "BAIXAR")
  BY DEF FinInd, LerEstornarVenda, Tipo
<1>1. CASE Encerrar(t, "RECUSADO") \/ Encerrar(t, "FEITO")
  BY <1>0, <1>1, PassoRecusa DEF Respostas
<1>2. CASE /\ Existe(Conta(t)) /\ Conta(t) \notin estornadas
           /\ SoTx /\ Ir(t, "conta", 0, 0)
  <2>2. tx'[t].passo = "conta"
    BY <1>0, <1>2 DEF TypeOK, Ir
  <2>3. TravasInd(t)'
    BY <1>0, <1>2, <2>2 DEF FinInd, TravasInd, Andando, TemConta, LinhaDe, Tipo, Conta, Em, SoTx
  <2>4. LidoInd(t)'
    BY <1>0, <1>2, <2>2 DEF LidoInd, Tipo, Conta, SoTx, Existe
  <2>5. ChaveInd(t)'
    BY <1>0, <1>2 DEF ChaveInd, Tipo, SoTx
  <2>6. QED
    BY <1>2, <2>3, <2>4, <2>5, Avanca DEF Passos
<1>3. QED
  BY <1>0, <1>1, <1>2 DEF LerEstornarVenda

\* A refund locks the account it cancels.
LEMMA PassoEstornarConta ==
    ASSUME FinInd, NEW t \in Chamadas, EstornarConta(t)
    PROVE  FinInd'
<1>0. /\ TypeOK /\ Em(t, "conta") /\ trava[Conta(t)] = Livre
      /\ trava' = [trava EXCEPT ![Conta(t)] = t]
      /\ Ir(t, "escrever", 0, 0)
      /\ UNCHANGED <<pedido, conta, baixa, estornadas, resp, hoje>>
  BY DEF FinInd, EstornarConta, TravarLinha
<1>1. Tipo(t, "ESTORNAR_VENDA") /\ trava[Empresa] = t
  BY <1>0 DEF FinInd, TravasInd, Em, Andando, LinhaDe
<1>3. tx'[t].passo = "escrever" /\ trava'[Conta(t)] = t /\ trava'[Empresa] = t
  BY <1>0, <1>1, Conteudo DEF TypeOK, Linhas, Ir
<1>4. TypeOK'
  <2>1. tx' \in [Chamadas -> TxTipo]
    BY <1>0 DEF TypeOK, TxTipo, Passos, Ir
  <2>2. trava' \in [Linhas -> Chamadas \cup {Livre}]
    BY <1>0, Conteudo DEF TypeOK
  <2>3. QED
    BY <1>0, <2>1, <2>2 DEF TypeOK, TxTipo
<1>5. TravasInd(t)'
  BY <1>0, <1>1, <1>3 DEF TravasInd, LinhaDe, Tipo, Conta, TemConta
<1>6. LidoInd(t)'
  BY <1>0, <1>1, <1>3 DEF FinInd, LidoInd, Tipo, Conta, Em, Existe
<1>7. ChaveInd(t)' /\ RespostaInd(t)'
  BY <1>0, <1>1 DEF ChaveInd, RespostaInd, Tipo
<1>8. \A r \in Linhas : trava[r] \in Chamadas \ {t} => trava'[r] = trava[r]
  BY <1>0, FinanceiroAssumption DEF TypeOK
<1>9. \A u \in Chamadas \ {t} : tx'[u] = tx[u] /\ resp'[u] = resp[u]
  BY <1>0 DEF TypeOK, Ir
<1>10. QED
  BY <1>0, <1>4, <1>5, <1>6, <1>7, <1>8, <1>9, SemEscrita

-----------------------------------------------------------------------------
\* A commit of t: only its account changes, no payment loses its account or
\* value, and a new payment is the one t was to insert.
LEMMA Escrita ==
    ASSUME FinInd, NEW t \in Chamadas, TemConta(t), Sair(t, "FEITO"), TypeOK',
           pedido' = pedido,
           \A c \in Contas \ {Conta(t)} : conta'[c] = conta[c],
           Existe(Conta(t)), Existe(Conta(t))',
           \A k \in Identificacoes : Registrada(k) =>
               baixa'[k].conta = baixa[k].conta /\ baixa'[k].valor = baixa[k].valor,
           \A k \in Identificacoes : Registrada(k)' /\ ~Registrada(k) =>
               /\ Tipo(t, "BAIXAR") /\ tx[t].passo = "gravar" /\ k = pedido[t].chave
               /\ baixa'[k].conta = Conta(t) /\ baixa'[k].valor > 0,
           \/ estornadas' = estornadas
           \/ Tipo(t, "ESTORNAR_VENDA") /\ estornadas' = estornadas \cup {Conta(t)},
           ContaInd(Conta(t))', RespostaInd(t)'
    PROVE  FinInd'
<1>0. TypeOK /\ Andando(t) /\ Conta(t)' = Conta(t)
  BY DEF FinInd, TemConta, Conta
<1>1. /\ tx'[t].passo = "fim"
      /\ \A u \in Chamadas \ {t} : tx'[u] = tx[u] /\ resp'[u] = resp[u]
      /\ \A r \in Linhas : trava[r] \in Chamadas \ {t} => trava'[r] = trava[r]
  BY <1>0 DEF TypeOK, Sair
<1>2. BaixaInd'
  <2>1. ASSUME NEW k \in Identificacoes, Registrada(k)'
        PROVE  /\ Existe(baixa[k].conta)' /\ (baixa[k].valor > 0)'
               /\ (k \in Contas => baixa[k].conta = k)'
    <3>1. CASE Registrada(k)
      <4>1. baixa[k].conta \in Contas /\ Existe(baixa[k].conta) /\ baixa[k].valor > 0
            /\ (k \in Contas => baixa[k].conta = k)
        BY <1>0, <3>1 DEF FinInd, BaixaInd, TypeOK, Registrada
      <4>2. Existe(baixa[k].conta)'
        BY <1>0, <3>1, <4>1 DEF Existe
      <4>3. QED
        BY <3>1, <4>1, <4>2
    <3>2. CASE ~Registrada(k)
      <4>1. k \in Chaves /\ baixa'[k].conta = Conta(t) /\ baixa'[k].valor > 0
        BY <1>0, <2>1, <3>2, Conteudo
      <4>2. QED
        BY <1>0, <4>1, FinanceiroAssumption DEF Existe
    <3>3. QED
      BY <3>1, <3>2
  <2>2. QED
    BY <2>1 DEF BaixaInd
<1>3. ASSUME NEW c \in Contas
      PROVE  ContaInd(c)' /\ (c \in estornadas => Existe(c))'
  <2>1. CASE c = Conta(t)
    BY <1>0, <2>1 DEF Existe, ContaInd, StatusDe
  <2>2. CASE c # Conta(t)
    <3>1. conta'[c] = conta[c] /\ (c \in estornadas' <=> c \in estornadas)
      BY <2>2
    <3>2. QED
      BY <3>1 DEF FinInd, ContaInd, Existe, StatusDe
  <2>3. QED
    BY <2>1, <2>2
<1>4. TravasInd(t)' /\ LidoInd(t)' /\ ChaveInd(t)'
  BY <1>1 DEF TravasInd, LidoInd, ChaveInd, Andando, TemConta
<1>5. ASSUME NEW u \in Chamadas \ {t}
      PROVE  TravasInd(u)' /\ LidoInd(u)' /\ ChaveInd(u)' /\ RespostaInd(u)'
  <2>0. /\ Conta(u) \in Contas /\ Conta(u)' = Conta(u) /\ tx'[u] = tx[u] /\ resp'[u] = resp[u]
        /\ \A x \in Tipos : Tipo(u, x)' <=> Tipo(u, x)
    BY <1>0, <1>1, Conteudo DEF Conta, Tipo
  <2>1. TravasInd(u)'
    BY <1>0, <1>1, Conteudo DEF FinInd, TravasInd, Andando, TemConta, LinhaDe, Tipo, Conta
  <2>2. TemConta(u) => Conta(u) # Conta(t)
    BY DEF FinInd, TravasInd
  <2>3. Existe(Conta(u)) => Existe(Conta(u))'
    BY <1>0, <2>0 DEF Existe
  <2>4. ASSUME Tipo(u, "ESTORNAR_VENDA"), Andando(u), Conta(u) \notin estornadas
        PROVE  Conta(u) \notin estornadas'
    <3>1. trava[Empresa] = u
      BY <2>4 DEF FinInd, TravasInd, LinhaDe
    <3>2. ~Tipo(t, "ESTORNAR_VENDA")
      BY <1>0, <3>1 DEF FinInd, TravasInd, LinhaDe
    <3>3. QED
      BY <2>4, <3>2
  <2>5. LidoInd(u)'
    <3>1. CASE Tipo(u, "ESTORNAR_VENDA")
      BY <2>0, <2>3, <2>4, <3>1 DEF FinInd, LidoInd, Tipo, Andando
    <3>2. CASE ~Tipo(u, "ESTORNAR_VENDA") /\ Andando(u)
      <4>1. Conta(u) # Conta(t) /\ conta'[Conta(u)] = conta[Conta(u)]
        BY <2>0, <2>2, <3>2 DEF TemConta
      <4>2. Tipo(u, "ESTORNAR_BAIXA") /\ tx[u].passo \in {"escrever", "gravar"} =>
              /\ baixa[pedido[u].chave].conta = Conta(u)
              /\ baixa'[pedido[u].chave].conta = Conta(u)
        <5>1. Conta(u) # Nenhum /\ (Tipo(u, "ESTORNAR_BAIXA") => pedido[u].chave \in Identificacoes)
          BY <1>0, <2>0, Conteudo, FinanceiroAssumption
        <5>2. QED
          BY <5>1 DEF FinInd, LidoInd, Registrada
      <4>3. QED
        BY <2>0, <3>2, <4>1, <4>2 DEF FinInd, LidoInd, Tipo, Cancelavel, Existe
    <3>3. CASE ~Andando(u)
      BY <2>0, <3>3 DEF LidoInd, Andando
    <3>4. QED
      BY <3>1, <3>2, <3>3
  <2>6. Tipo(u, "BAIXAR") => pedido[u].chave \in Chaves /\ pedido[u].chave \in Identificacoes
    BY <1>0, Conteudo
  <2>7. ChaveInd(u)'
    <3>1. CASE Tipo(u, "BAIXAR") /\ tx[u].passo = "escrever"
      <4>1. baixa[pedido[u].chave].conta # Conta(u) /\ Conta(u) # Conta(t)
        BY <2>2, <3>1 DEF FinInd, ChaveInd, TemConta, Andando, Tipo
      <4>2. baixa'[pedido[u].chave].conta # Conta(u)
        <5>1. CASE Registrada(pedido[u].chave)
          BY <2>6, <3>1, <4>1, <5>1
        <5>2. CASE ~Registrada(pedido[u].chave) /\ Registrada(pedido[u].chave)'
          BY <2>6, <3>1, <4>1, <5>2
        <5>3. CASE ~Registrada(pedido[u].chave)'
          BY <2>0, <5>3, FinanceiroAssumption DEF Registrada
        <5>4. QED
          BY <5>1, <5>2, <5>3
      <4>3. QED
        BY <2>0, <3>1, <4>2 DEF ChaveInd
    <3>2. CASE Tipo(u, "BAIXAR") /\ tx[u].passo = "gravar"
      <4>1. ~Registrada(pedido[u].chave)
        BY <3>2 DEF FinInd, ChaveInd
      <4>2. Tipo(t, "BAIXAR") /\ tx[t].passo = "gravar" => pedido[t].chave # pedido[u].chave
        BY <3>2 DEF FinInd, ChaveInd
      <4>3. ~Registrada(pedido[u].chave)'
        BY <2>6, <3>2, <4>1, <4>2 DEF Registrada
      <4>4. ASSUME NEW w \in Chamadas \ {u}, Tipo(w, "BAIXAR"), tx'[w].passo = "gravar"
            PROVE  pedido[w].chave # pedido[u].chave
        BY <1>1, <3>2, <4>4 DEF FinInd, ChaveInd
      <4>5. QED
        BY <2>0, <3>2, <4>3, <4>4 DEF ChaveInd, Tipo
    <3>3. CASE ~(Tipo(u, "BAIXAR") /\ tx[u].passo \in {"escrever", "gravar"})
      BY <2>0, <3>3 DEF ChaveInd, Tipo
    <3>4. QED
      BY <3>1, <3>2, <3>3
  <2>8. RespostaInd(u)'
    <3>1. CASE Tipo(u, "BAIXAR") /\ Registrada(pedido[u].chave)
      BY <2>0, <2>6, <3>1 DEF FinInd, RespostaInd, Tipo, Registrada
    <3>2. CASE Tipo(u, "BAIXAR") /\ ~Registrada(pedido[u].chave)
      <4>1. resp[u] \notin {"UNICIDADE", "FEITO"}
        BY <2>0, <3>2, FinanceiroAssumption DEF FinInd, RespostaInd, Registrada
      <4>2. QED
        BY <2>0, <4>1 DEF RespostaInd
    <3>3. CASE ~Tipo(u, "BAIXAR")
      BY <3>3 DEF RespostaInd, Tipo
    <3>4. QED
      BY <3>1, <3>2, <3>3
  <2>9. QED
    BY <2>1, <2>5, <2>7, <2>8
<1>6. QED
  BY <1>2, <1>3, <1>4, <1>5 DEF FinInd

-----------------------------------------------------------------------------
\* What Sair does to the rows it writes has their type.
LEMMA SairTipo ==
    ASSUME FinInd, NEW t \in Chamadas, Sair(t, "FEITO"), pedido' = pedido, hoje' = hoje,
           conta' \in [Contas -> ContaTipo], baixa' \in [Identificacoes -> BaixaTipo],
           estornadas' \subseteq DeVenda
    PROVE  TypeOK'
<1>1. tx' \in [Chamadas -> TxTipo]
  <2>1. [tx[t] EXCEPT !.passo = "fim"] \in TxTipo
    BY DEF FinInd, TypeOK, TxTipo, Passos
  <2>2. QED
    BY <2>1 DEF FinInd, TypeOK, TxTipo, Sair
<1>2. trava' \in [Linhas -> Chamadas \cup {Livre}] /\ resp' \in [Chamadas -> Respostas \cup {Nenhum}]
  BY DEF FinInd, TypeOK, Sair, Respostas
<1>3. QED
  BY <1>1, <1>2 DEF FinInd, TypeOK, TxTipo, ContaTipo, BaixaTipo

LEMMA PassoConfirmarBaixa ==
    ASSUME FinInd, NEW t \in Chamadas, ConfirmarBaixa(t)
    PROVE  FinInd'
<1> DEFINE k == pedido[t].chave
           c == Conta(t)
           b == [SemBaixa EXCEPT !.conta = c, !.valor = pedido[t].valor, !.data = tx[t].dia]
           s == IF tx[t].pago = Valor[c] THEN "PAGO" ELSE "PARCIAL"
<1>0. /\ TypeOK /\ Em(t, "gravar") /\ Tipo(t, "BAIXAR") /\ ~Tipo(t, "ESTORNAR_VENDA")
      /\ baixa' = [baixa EXCEPT ![k] = b]
      /\ conta' = [conta EXCEPT ![c] = [status |-> s, pago |-> tx[t].pago]]
      /\ Sair(t, "FEITO") /\ UNCHANGED <<pedido, estornadas, hoje>>
  BY DEF FinInd, ConfirmarBaixa, Tipo
<1>1. /\ k \in Identificacoes /\ c \in Contas /\ pedido[t].valor \in Nat \ {0}
      /\ c # Nenhum /\ tx[t].pago \in Nat /\ tx[t].dia \in Nat
  BY <1>0, Conteudo, Tx, FinanceiroAssumption
<1>2. /\ conta[c].status \notin {"AUSENTE", "CANCELADO"} /\ Existe(c)
      /\ tx[t].pago = conta[c].pago + pedido[t].valor /\ tx[t].pago <= Valor[c]
      /\ ~Registrada(k)
  BY <1>0 DEF FinInd, LidoInd, ChaveInd, Em, Existe
<1>3. conta[c].pago \in Nat /\ tx[t].pago > 0
  BY <1>0, <1>1, <1>2, Tx
<1>4. /\ conta'[c].status = s /\ conta'[c].pago = tx[t].pago
      /\ baixa'[k].conta = c /\ baixa'[k].valor = pedido[t].valor
      /\ \A x \in Contas \ {c} : conta'[x] = conta[x]
      /\ \A x \in Identificacoes \ {k} : baixa'[x] = baixa[x]
  BY <1>0, <1>1 DEF TypeOK, SemBaixa
<1>5. TypeOK'
  <2>1. [status |-> s, pago |-> tx[t].pago] \in ContaTipo
    BY <1>1 DEF ContaTipo, Status
  <2>2. b \in BaixaTipo
    BY <1>1 DEF BaixaTipo, SemBaixa
  <2>3. conta' \in [Contas -> ContaTipo] /\ baixa' \in [Identificacoes -> BaixaTipo]
    BY <1>0, <2>1, <2>2 DEF TypeOK, ContaTipo, BaixaTipo
  <2>4. estornadas' \subseteq DeVenda
    BY <1>0 DEF TypeOK
  <2>5. QED
    BY <1>0, <2>3, <2>4, SairTipo
<1>6. ContaInd(c)'
  <2>1. c \in DeVenda => c \notin estornadas
    BY <1>1, <1>2 DEF FinInd, ContaInd
  <2>2. QED
    BY <1>0, <1>2, <1>3, <1>4, <2>1 DEF ContaInd, StatusDe, Conta
<1>7. RespostaInd(t)'
  <2>1. resp'[t] = "FEITO"
    BY <1>0 DEF TypeOK, Sair
  <2>2. QED
    BY <1>0, <1>4, <2>1 DEF RespostaInd, Conta
<1>8. Existe(c)'
  BY <1>0, <1>4 DEF Existe, Conta
<1>9. TemConta(t)
  BY <1>0 DEF TemConta, Andando, Em
<1>10. ASSUME NEW x \in Identificacoes, Registrada(x)
       PROVE  baixa'[x].conta = baixa[x].conta /\ baixa'[x].valor = baixa[x].valor
  BY <1>2, <1>4, <1>10
<1>11. ASSUME NEW x \in Identificacoes, Registrada(x)', ~Registrada(x)
       PROVE  x = k /\ baixa'[x].conta = c /\ baixa'[x].valor > 0
  BY <1>1, <1>4, <1>11 DEF Registrada
<1>12. tx[t].passo = "gravar"
  BY <1>0 DEF Em
<1> HIDE DEF k, c, b, s
<1>13. QED
  BY <1>0, <1>2, <1>4, <1>5, <1>6, <1>7, <1>8, <1>9, <1>10, <1>11, <1>12, Escrita DEF c, k

LEMMA PassoConfirmarEstornoBaixa ==
    ASSUME FinInd, NEW t \in Chamadas, ConfirmarEstornoBaixa(t)
    PROVE  FinInd'
<1> DEFINE k == pedido[t].chave
           c == Conta(t)
           s == IF tx[t].pago = 0 THEN "ABERTO" ELSE "PARCIAL"
<1>0. /\ TypeOK /\ Em(t, "gravar") /\ Tipo(t, "ESTORNAR_BAIXA")
      /\ ~Tipo(t, "ESTORNAR_VENDA") /\ ~Tipo(t, "BAIXAR")
      /\ baixa' = [baixa EXCEPT ![k] = Estornada(baixa[k], tx[t].dia)]
      /\ conta' = [conta EXCEPT ![c] = [status |-> s, pago |-> tx[t].pago]]
      /\ Sair(t, "FEITO") /\ UNCHANGED <<pedido, estornadas, hoje>>
  BY DEF FinInd, ConfirmarEstornoBaixa, Tipo
<1>1. k \in Identificacoes /\ c \in Contas /\ tx[t].pago \in Nat /\ tx[t].dia \in Nat
  BY <1>0, Conteudo, Tx
<1>2. /\ conta[c].status \notin {"AUSENTE", "CANCELADO"} /\ Existe(c)
      /\ tx[t].pago < Valor[c]
  BY <1>0 DEF FinInd, LidoInd, Em, Existe
<1>3. /\ baixa[k] \in BaixaTipo /\ Estornada(baixa[k], tx[t].dia) \in BaixaTipo
      /\ Estornada(baixa[k], tx[t].dia).conta = baixa[k].conta
      /\ Estornada(baixa[k], tx[t].dia).valor = baixa[k].valor
  BY <1>0, <1>1 DEF TypeOK, Estornada, BaixaTipo
<1>4. /\ conta'[c].status = s /\ conta'[c].pago = tx[t].pago
      /\ \A x \in Contas \ {c} : conta'[x] = conta[x]
      /\ \A x \in Identificacoes :
           baixa'[x].conta = baixa[x].conta /\ baixa'[x].valor = baixa[x].valor
  BY <1>0, <1>1, <1>3 DEF TypeOK
<1>5. TypeOK'
  <2>1. [status |-> s, pago |-> tx[t].pago] \in ContaTipo
    BY <1>1 DEF ContaTipo, Status
  <2>2. conta' \in [Contas -> ContaTipo] /\ baixa' \in [Identificacoes -> BaixaTipo]
    BY <1>0, <1>3, <2>1 DEF TypeOK, ContaTipo, BaixaTipo
  <2>3. estornadas' \subseteq DeVenda
    BY <1>0 DEF TypeOK
  <2>4. QED
    BY <1>0, <2>2, <2>3, SairTipo
<1>6. ContaInd(c)'
  <2>1. c \in DeVenda => c \notin estornadas
    BY <1>1, <1>2 DEF FinInd, ContaInd
  <2>2. Valor[c] \in Nat
    BY <1>0, Tx
  <2>3. QED
    BY <1>0, <1>1, <1>2, <1>4, <2>1, <2>2 DEF ContaInd, StatusDe, Conta
<1>7. RespostaInd(t)'
  BY <1>0 DEF RespostaInd, Tipo
<1>8. Existe(c)'
  BY <1>0, <1>4 DEF Existe, Conta
<1>9. TemConta(t)
  BY <1>0 DEF TemConta, Andando, Em
<1>10. \A x \in Identificacoes : Registrada(x)' => Registrada(x)
  BY <1>4 DEF Registrada
<1> HIDE DEF k, c, s
<1>11. QED
  BY <1>0, <1>2, <1>4, <1>5, <1>6, <1>7, <1>8, <1>9, <1>10, Escrita DEF c

LEMMA PassoConfirmarCancelar ==
    ASSUME FinInd, NEW t \in Chamadas, ConfirmarCancelar(t)
    PROVE  FinInd'
<1> DEFINE c == Conta(t)
<1>0. /\ TypeOK /\ Em(t, "gravar") /\ Tipo(t, "CANCELAR")
      /\ ~Tipo(t, "ESTORNAR_VENDA") /\ ~Tipo(t, "BAIXAR")
      /\ conta' = [conta EXCEPT ![c].status = "CANCELADO"]
      /\ Sair(t, "FEITO") /\ UNCHANGED <<pedido, baixa, estornadas, hoje>>
  BY DEF FinInd, ConfirmarCancelar, Tipo
<1>1. c \in Contas /\ Cancelavel(c) /\ conta[c] \in ContaTipo
  BY <1>0, Conteudo DEF FinInd, LidoInd, Em, TypeOK, ContaTipo
<1>2. /\ conta'[c].status = "CANCELADO" /\ conta'[c].pago = 0
      /\ \A x \in Contas \ {c} : conta'[x] = conta[x]
  BY <1>0, <1>1 DEF TypeOK, Cancelavel
<1>3. TypeOK'
  <2>1. [conta[c] EXCEPT !.status = "CANCELADO"] \in ContaTipo
    BY <1>1 DEF ContaTipo, Status
  <2>2. conta' \in [Contas -> ContaTipo]
    BY <1>0, <2>1 DEF TypeOK, ContaTipo
  <2>3. baixa' \in [Identificacoes -> BaixaTipo] /\ estornadas' \subseteq DeVenda
    BY <1>0 DEF TypeOK, BaixaTipo
  <2>4. QED
    BY <1>0, <2>2, <2>3, SairTipo
<1>4. ContaInd(c)'
  BY <1>0, <1>1, <1>2, FinanceiroAssumption DEF ContaInd, Cancelavel, Conta
<1>5. RespostaInd(t)'
  BY <1>0 DEF RespostaInd, Tipo
<1>6. Existe(c) /\ Existe(c)'
  BY <1>0, <1>1, <1>2 DEF Existe, Cancelavel, Conta
<1>7. TemConta(t)
  BY <1>0 DEF TemConta, Andando, Em
<1>8. \A x \in Identificacoes : Registrada(x)' => Registrada(x)
  BY <1>0 DEF Registrada
<1> HIDE DEF c
<1>9. QED
  BY <1>0, <1>2, <1>3, <1>4, <1>5, <1>6, <1>7, <1>8, Escrita DEF c

LEMMA PassoConfirmarEstornoVenda ==
    ASSUME FinInd, NEW t \in Chamadas, ConfirmarEstornoVenda(t)
    PROVE  FinInd'
<1> DEFINE c == Conta(t)
<1>0. /\ TypeOK /\ Em(t, "gravar") /\ Tipo(t, "ESTORNAR_VENDA") /\ ~Tipo(t, "BAIXAR")
      /\ estornadas' = estornadas \cup {c}
      /\ conta' = [conta EXCEPT ![c] = [status |-> "CANCELADO", pago |-> 0]]
      /\ baixa' = [k \in Identificacoes |->
                     IF baixa[k].conta = c THEN Estornada(baixa[k], tx[t].dia) ELSE baixa[k]]
      /\ Sair(t, "FEITO") /\ UNCHANGED <<pedido, hoje>>
  BY DEF FinInd, ConfirmarEstornoVenda, Tipo
<1>1. c \in Contas /\ c \in DeVenda /\ tx[t].dia \in Nat
  BY <1>0, Conteudo, Tx
<1>2. Existe(c)
  BY <1>0 DEF FinInd, LidoInd, Em
<1>3. \A k \in Identificacoes :
        /\ baixa[k] \in BaixaTipo /\ Estornada(baixa[k], tx[t].dia) \in BaixaTipo
        /\ Estornada(baixa[k], tx[t].dia).conta = baixa[k].conta
        /\ Estornada(baixa[k], tx[t].dia).valor = baixa[k].valor
  BY <1>0, <1>1 DEF TypeOK, Estornada, BaixaTipo
<1>4. /\ conta'[c].status = "CANCELADO" /\ conta'[c].pago = 0
      /\ \A x \in Contas \ {c} : conta'[x] = conta[x]
      /\ \A x \in Identificacoes :
           baixa'[x].conta = baixa[x].conta /\ baixa'[x].valor = baixa[x].valor
  <2>1. \A x \in Identificacoes :
           baixa'[x].conta = baixa[x].conta /\ baixa'[x].valor = baixa[x].valor
    BY <1>0, <1>3
  <2>2. QED
    BY <1>0, <1>1, <2>1 DEF TypeOK
<1>5. TypeOK'
  <2>1. conta' \in [Contas -> ContaTipo]
    BY <1>0 DEF TypeOK, ContaTipo, Status
  <2>2. baixa' \in [Identificacoes -> BaixaTipo]
    BY <1>0, <1>3
  <2>3. estornadas' \subseteq DeVenda
    BY <1>0, <1>1 DEF TypeOK
  <2>4. QED
    BY <1>0, <2>1, <2>2, <2>3, SairTipo
<1>6. ContaInd(c)'
  <2>1. Valor[c] \in Nat
    BY <1>0, Tx
  <2>2. QED
    BY <1>0, <1>4, <2>1 DEF ContaInd, Conta
<1>7. RespostaInd(t)'
  BY <1>0 DEF RespostaInd, Tipo
<1>8. Existe(c)'
  BY <1>0, <1>4 DEF Existe, Conta
<1>9. TemConta(t)
  BY <1>0 DEF TemConta, Andando, Em
<1>10. \A x \in Identificacoes : Registrada(x)' => Registrada(x)
  BY <1>4 DEF Registrada
<1> HIDE DEF c
<1>11. QED
  BY <1>0, <1>2, <1>4, <1>5, <1>6, <1>7, <1>8, <1>9, <1>10, Escrita DEF c

-----------------------------------------------------------------------------
\* A new account is nobody's yet.
LEMMA PassoAbrirConta ==
    ASSUME FinInd, NEW c \in Contas, AbrirConta(c)
    PROVE  FinInd'
<1> DEFINE s == IF c \in Recebidas \/ Valor[c] = 0 THEN "PAGO" ELSE "ABERTO"
           n == IF c \in Recebidas THEN Valor[c] ELSE 0
           b == [SemBaixa EXCEPT !.conta = c, !.valor = Valor[c], !.data = hoje]
<1>0. /\ TypeOK /\ ~Existe(c) /\ c \in Identificacoes /\ c \notin Chaves /\ Valor[c] \in Nat
      /\ conta' = [conta EXCEPT ![c] = [status |-> s, pago |-> n]]
      /\ baixa' = IF c \in Recebidas /\ Valor[c] # 0 THEN [baixa EXCEPT ![c] = b] ELSE baixa
      /\ UNCHANGED <<pedido, estornadas, trava, tx, resp, hoje>>
  BY FinanceiroAssumption DEF FinInd, AbrirConta, Identificacoes
<1>1. /\ conta'[c].status = s /\ conta'[c].pago = n
      /\ \A x \in Contas \ {c} : conta'[x] = conta[x]
  BY <1>0 DEF TypeOK
<1>2. ~Registrada(c) /\ c # Nenhum
  BY <1>0, FinanceiroAssumption DEF FinInd, BaixaInd
<1>3. /\ \A k \in Identificacoes \ {c} : baixa'[k] = baixa[k]
      /\ baixa'[c] # baixa[c] => baixa'[c].conta = c /\ baixa'[c].valor > 0
  BY <1>0 DEF TypeOK, SemBaixa
<1>4. TypeOK'
  <2>1. [status |-> s, pago |-> n] \in ContaTipo
    BY <1>0 DEF ContaTipo, Status
  <2>2. b \in BaixaTipo
    BY <1>0 DEF BaixaTipo, SemBaixa, TypeOK
  <2>3. conta' \in [Contas -> ContaTipo]
    BY <1>0, <2>1 DEF TypeOK, ContaTipo
  <2>4. baixa' \in [Identificacoes -> BaixaTipo]
    BY <1>0, <2>2 DEF TypeOK, BaixaTipo
  <2>5. QED
    BY <1>0, <2>3, <2>4 DEF TypeOK, ContaTipo, BaixaTipo
<1>5. \A x \in Contas : Existe(x) => x # c /\ Existe(x)' /\ conta'[x] = conta[x]
  BY <1>0, <1>1 DEF Existe
<1>6. \A k \in Identificacoes : Registrada(k) => k # c /\ baixa'[k] = baixa[k]
  BY <1>2, <1>3
<1>7. BaixaInd'
  <2>1. ASSUME NEW k \in Identificacoes, Registrada(k)'
        PROVE  /\ Existe(baixa[k].conta)' /\ (baixa[k].valor > 0)'
               /\ (k \in Contas => baixa[k].conta = k)'
    <3>1. CASE Registrada(k)
      BY <1>0, <1>5, <1>6, <3>1 DEF FinInd, BaixaInd, TypeOK, Registrada
    <3>2. CASE ~Registrada(k)
      <4>1. k = c /\ baixa'[k].conta = c /\ baixa'[k].valor > 0
        BY <1>3, <2>1, <3>2 DEF Registrada
      <4>2. conta'[c].status # "AUSENTE"
        BY <1>1
      <4>3. QED
        BY <4>1, <4>2 DEF Existe
    <3>3. QED
      BY <3>1, <3>2
  <2>2. QED
    BY <2>1 DEF BaixaInd
<1>8. ASSUME NEW x \in Contas
      PROVE  ContaInd(x)' /\ (x \in estornadas => Existe(x))'
  <2>1. CASE Existe(x)
    BY <1>0, <1>5, <2>1 DEF FinInd, ContaInd, Existe, StatusDe
  <2>2. CASE ~Existe(x) /\ x # c
    BY <1>0, <1>1, <2>2 DEF FinInd, ContaInd, Existe
  <2>3. CASE x = c
    <3>1. c \notin estornadas'
      BY <1>0 DEF FinInd
    <3>2. n <= Valor[c] /\ s # "CANCELADO"
      BY <1>0
    <3>3. s = IF n = Valor[c] THEN "PAGO" ELSE IF n = 0 THEN "ABERTO" ELSE "PARCIAL"
      BY <1>0
    <3>4. QED
      BY <1>1, <2>3, <3>1, <3>2, <3>3 DEF ContaInd, StatusDe
  <2>4. QED
    BY <2>1, <2>2, <2>3
<1>9. ASSUME NEW u \in Chamadas
      PROVE  TravasInd(u)' /\ LidoInd(u)' /\ ChaveInd(u)' /\ RespostaInd(u)'
  <2>0. /\ Conta(u) \in Contas /\ Conta(u)' = Conta(u) /\ Conta(u) # Nenhum
        /\ Tipo(u, "BAIXAR") => pedido[u].chave \in Identificacoes /\ pedido[u].chave # c
        /\ Tipo(u, "ESTORNAR_BAIXA") => pedido[u].chave \in Identificacoes
    BY <1>0, Conteudo, FinanceiroAssumption DEF Conta, Identificacoes
  <2>1. TravasInd(u)'
    BY <1>0 DEF FinInd, TravasInd, Andando, TemConta, LinhaDe, Tipo, Conta
  <2>2. LidoInd(u)'
    <3>1. CASE Existe(Conta(u))
      <4>1. conta'[Conta(u)] = conta[Conta(u)]
        BY <1>5, <2>0, <3>1
      <4>2. Tipo(u, "ESTORNAR_BAIXA") /\ tx[u].passo \in {"escrever", "gravar"} =>
              baixa'[pedido[u].chave].conta = Conta(u)
        BY <1>6, <2>0 DEF FinInd, LidoInd, Registrada
      <4>3. QED
        BY <1>0, <2>0, <4>1, <4>2 DEF FinInd, LidoInd, Tipo, Cancelavel, Existe
    <3>2. CASE ~Existe(Conta(u))
      BY <1>0, <3>2 DEF FinInd, LidoInd, Tipo, Cancelavel, Existe
    <3>3. QED
      BY <3>1, <3>2
  <2>3. ChaveInd(u)'
    BY <1>0, <1>3, <2>0 DEF FinInd, ChaveInd, Tipo, Registrada, Conta
  <2>4. RespostaInd(u)'
    BY <1>0, <1>3, <2>0 DEF FinInd, RespostaInd, Tipo, Registrada, Conta
  <2>5. QED
    BY <2>1, <2>2, <2>3, <2>4
<1>10. QED
  BY <1>4, <1>7, <1>8, <1>9 DEF FinInd

\* Steps that touch none of the rows: a day that ends, a stutter.
LEMMA PassoNada ==
    ASSUME FinInd, Virar \/ UNCHANGED vars
    PROVE  FinInd'
<1>1. UNCHANGED <<pedido, conta, baixa, estornadas, trava, tx, resp>> /\ hoje' \in Nat
  BY DEF FinInd, TypeOK, Virar, vars
<1>2. TypeOK'
  BY <1>1 DEF FinInd, TypeOK
<1>3. BaixaInd' /\ \A c \in Contas : ContaInd(c)' /\ (c \in estornadas => Existe(c))'
  BY <1>1 DEF FinInd, BaixaInd, ContaInd, Existe, Registrada, StatusDe
<1>4. ASSUME NEW u \in Chamadas
      PROVE  TravasInd(u)' /\ LidoInd(u)' /\ ChaveInd(u)' /\ RespostaInd(u)'
  <2>1. TravasInd(u)'
    BY <1>1 DEF FinInd, TravasInd, Andando, TemConta, LinhaDe, Tipo, Conta
  <2>2. LidoInd(u)'
    BY <1>1 DEF FinInd, LidoInd, Tipo, Conta, Existe, Cancelavel
  <2>3. ChaveInd(u)' /\ RespostaInd(u)'
    BY <1>1 DEF FinInd, ChaveInd, RespostaInd, Tipo, Conta, Registrada
  <2>4. QED
    BY <2>1, <2>2, <2>3
<1>5. QED
  BY <1>2, <1>3, <1>4 DEF FinInd

LEMMA InicioInd ==
    ASSUME Init
    PROVE  FinInd
<1>1. TypeOK
  BY DEF Init, TypeOK, SemBaixa, Status, Passos, Respostas
<1>2. BaixaInd /\ \A c \in Contas : ContaInd(c) /\ (c \in estornadas => Existe(c))
  BY DEF Init, BaixaInd, ContaInd, Existe, Registrada, SemBaixa
<1>3. \A u \in Chamadas : tx[u].passo = "fora" /\ resp[u] = Nenhum
  BY DEF Init
<1>4. ASSUME NEW u \in Chamadas
      PROVE  TravasInd(u) /\ LidoInd(u) /\ ChaveInd(u)
  BY <1>3 DEF TravasInd, LidoInd, ChaveInd, Andando, TemConta
<1>5. ASSUME NEW u \in Chamadas
      PROVE  RespostaInd(u)
  BY <1>3, FinanceiroAssumption DEF RespostaInd, Respostas
<1>6. QED
  BY <1>1, <1>2, <1>4, <1>5 DEF FinInd

\* Every step, one action at a time.
LEMMA FinPasso ==
    ASSUME FinInd, [Next]_vars
    PROVE  FinInd'
<1>1. ASSUME NEW t \in Chamadas, Chamar(t) PROVE FinInd'
  <2>1. CASE Bloquear(t)
    BY <2>1, PassoBloquear
  <2>2. CASE Abortar(t)
    BY <2>2, PassoAbortar
  <2>3. CASE LerBaixar(t)
    BY <2>3, PassoLerBaixar
  <2>4. CASE CriarBaixa(t)
    BY <2>4, PassoCriarBaixa
  <2>5. CASE ConfirmarBaixa(t)
    BY <2>5, PassoConfirmarBaixa
  <2>6. CASE LerEstornarBaixa(t)
    BY <2>6, PassoLerEstornarBaixa
  <2>7. CASE EscreverEstorno(t) \/ EstornarBaixas(t)
    BY <2>7, PassoEscrever
  <2>8. CASE ConfirmarEstornoBaixa(t)
    BY <2>8, PassoConfirmarEstornoBaixa
  <2>9. CASE LerCancelar(t)
    BY <2>9, PassoLerCancelar
  <2>10. CASE ConfirmarCancelar(t)
    BY <2>10, PassoConfirmarCancelar
  <2>11. CASE LerEstornarVenda(t)
    BY <2>11, PassoLerEstornarVenda
  <2>12. CASE EstornarConta(t)
    BY <2>12, PassoEstornarConta
  <2>13. CASE ConfirmarEstornoVenda(t)
    BY <2>13, PassoConfirmarEstornoVenda
  <2>14. QED
    BY <1>1, <2>1, <2>2, <2>3, <2>4, <2>5, <2>6, <2>7, <2>8, <2>9, <2>10, <2>11, <2>12,
       <2>13 DEF Chamar
<1>2. ASSUME NEW c \in Contas, AbrirConta(c) PROVE FinInd'
  BY <1>2, PassoAbrirConta
<1>3. CASE Virar \/ UNCHANGED vars
  BY <1>3, PassoNada
<1>4. QED
  BY <1>1, <1>2, <1>3 DEF Next

\* FinInd holds in every state of every behaviour of payments, reversals,
\* cancellations and refunds.
THEOREM FinIndutivo == Spec => []FinInd
<1>1. Init => FinInd
  BY InicioInd
<1>2. FinInd /\ [Next]_vars => FinInd'
  BY FinPasso
<1>3. QED
  BY <1>1, <1>2, PTL DEF Spec

\* Every row keeps its type.
THEOREM TiposSempre == Spec => []TypeOK
<1>1. FinInd => TypeOK
  BY DEF FinInd
<1>2. QED
  BY <1>1, FinIndutivo, PTL

\* An account's status says what was paid, which never exceeds its value, and
\* a sale's account is cancelled exactly when the sale is refunded.
THEOREM ContaSempreCoerente == Spec => []ContaCoerente
<1>1. FinInd => ContaCoerente
  BY DEF FinInd, ContaInd, ContaCoerente
<1>2. QED
  BY <1>1, FinIndutivo, PTL

\* A repeated payment never meets the unique index because of itself, and is
\* answered only by the payment that was asked for.
THEOREM RepeticaoSempreRecupera == Spec => []RepeticaoRecupera
<1>1. FinInd => RepeticaoRecupera
  BY DEF FinInd, RespostaInd, RepeticaoRecupera
<1>2. QED
  BY <1>1, FinIndutivo, PTL

-----------------------------------------------------------------------------
\* What an account was paid, by its payments.
Pago(c) == SumFunction([k \in Identificacoes |-> Parte(c, k)])

\* A reversal will write the balance that its payment leaves when it goes.
EstornoInd(t) ==
    Tipo(t, "ESTORNAR_BAIXA") /\ tx[t].passo \in {"escrever", "gravar"} =>
        LET b == baixa[pedido[t].chave] IN
        ~b.estornada /\ tx[t].pago = conta[Conta(t)].pago - b.valor

\* A key that no payment has holds nothing, and neither does an account not yet open.
LivresInd == \A k \in Identificacoes : ~Registrada(k) => baixa[k] = SemBaixa
NovasInd == \A c \in Contas : ~Existe(c) => conta[c].pago = 0

PagoInd ==
    /\ FinInd
    /\ PagoConfere
    /\ LivresInd
    /\ NovasInd
    /\ \A t \in Chamadas : EstornoInd(t)

LEMMA Finitas == IsFiniteSet(Identificacoes)
BY FinanceiroAssumption, FS_Union DEF Identificacoes

LEMMA ParteNatural ==
    ASSUME TypeOK, NEW c \in Contas, NEW k \in Identificacoes
    PROVE  Parte(c, k) \in Nat
BY DEF TypeOK, Parte

\* The payments of an account in which no part changes.
LEMMA PagoIgual ==
    ASSUME NEW c \in Contas, \A k \in Identificacoes : Parte(c, k)' = Parte(c, k)
    PROVE  Pago(c)' = Pago(c)
<1>1. [k \in Identificacoes |-> Parte(c, k)]' = [k \in Identificacoes |-> Parte(c, k)]
  OBVIOUS
<1> QED BY <1>1 DEF Pago

\* One payment, a, changes what it counts in the account.
LEMMA PagoMuda ==
    ASSUME TypeOK, TypeOK', NEW c \in Contas, NEW a \in Identificacoes,
           \A k \in Identificacoes \ {a} : Parte(c, k)' = Parte(c, k)
    PROVE  Pago(c)' = Pago(c) - Parte(c, a) + Parte(c, a)'
<1> DEFINE f == [k \in Identificacoes |-> Parte(c, k)]
           g == [k \in Identificacoes |-> Parte(c, k)']
<1>1. \A k \in Identificacoes : f[k] \in Int /\ g[k] \in Int
  <2>1. \A k \in Identificacoes : Parte(c, k) \in Nat /\ Parte(c, k)' \in Nat
    BY DEF TypeOK, Parte
  <2> QED BY <2>1
<1>2. \A k \in Identificacoes \ {a} : f[k] = g[k]
  OBVIOUS
<1>3. /\ DOMAIN f = Identificacoes /\ DOMAIN g = Identificacoes
      /\ f[a] = Parte(c, a) /\ g[a] = Parte(c, a)'
      /\ Pago(c) = SumFunction(f) /\ Pago(c)' = SumFunction(g)
  BY DEF Pago
<1> HIDE DEF f, g
<1>4. Soma(g, Identificacoes) = Soma(f, Identificacoes) - f[a] + g[a]
  BY <1>1, <1>2, Finitas, SomaMuda
<1> QED BY <1>3, <1>4, SomaFuncao

\* An account with no payment that stands.
LEMMA PagoNada ==
    ASSUME NEW c \in Contas, \A k \in Identificacoes : Parte(c, k)' = 0
    PROVE  Pago(c)' = 0
<1> DEFINE g == [k \in Identificacoes |-> Parte(c, k)']
<1>1. DOMAIN g = Identificacoes /\ Pago(c)' = SumFunction(g) /\ \A k \in Identificacoes : g[k] = 0
  BY DEF Pago
<1> HIDE DEF g
<1> QED BY <1>1, Finitas, SomaNula, SomaFuncao

\* A step of t that writes neither account nor payment.
LEMMA PagoSemEscrita ==
    ASSUME PagoInd, FinInd', NEW t \in Chamadas,
           UNCHANGED <<pedido, conta, baixa>>,
           \A u \in Chamadas \ {t} : tx'[u] = tx[u],
           EstornoInd(t)'
    PROVE  PagoInd'
<1>1. PagoConfere'
  BY DEF PagoInd, PagoConfere, Parte
<1>2. LivresInd' /\ NovasInd'
  BY DEF PagoInd, LivresInd, NovasInd, Registrada, Existe
<1>3. \A u \in Chamadas \ {t} : EstornoInd(u)'
  BY DEF PagoInd, EstornoInd, Tipo, Conta
<1> QED BY <1>1, <1>2, <1>3 DEF PagoInd

\* A commit of t that writes one account, of which t has the lock, and only payments of that
\* account or with a free key.
LEMMA PagoEscrita ==
    ASSUME PagoInd, FinInd', NEW t \in Chamadas, TemConta(t), Sair(t, "FEITO"),
           pedido' = pedido, Existe(Conta(t)),
           \A c \in Contas \ {Conta(t)} : conta'[c] = conta[c],
           Existe(Conta(t))',
           \A k \in Identificacoes : Registrada(k) /\ baixa[k].conta # Conta(t) => baixa'[k] = baixa[k],
           \A k \in Identificacoes : Registrada(k) => Registrada(k)',
           \A k \in Identificacoes : baixa'[k] # baixa[k] => baixa'[k].conta = Conta(t),
           conta'[Conta(t)].pago = Pago(Conta(t))'
    PROVE  PagoInd'
<1>0. TypeOK /\ Conta(t) \in Contas /\ Conta(t)' = Conta(t) /\ Conta(t) # Nenhum
  BY Conteudo, FinanceiroAssumption DEF PagoInd, FinInd, Conta
<1>1. LivresInd'
  BY <1>0 DEF PagoInd, LivresInd, Registrada
<1>2. NovasInd'
  <2>1. ASSUME NEW c \in Contas, ~Existe(c)' PROVE conta'[c].pago = 0
    <3>1. c # Conta(t) /\ conta'[c] = conta[c] /\ ~Existe(c)
      BY <1>0, <2>1 DEF Existe
    <3> QED BY <3>1 DEF PagoInd, NovasInd
  <2> QED BY <2>1 DEF NovasInd
<1>3. PagoConfere'
  <2>1. ASSUME NEW c \in Contas PROVE conta'[c].pago = Pago(c)'
    <3>1. CASE c = Conta(t)
      BY <1>0, <3>1 DEF Pago
    <3>2. CASE c # Conta(t)
      <4>1. \A k \in Identificacoes : Parte(c, k)' = Parte(c, k)
        <5>1. ASSUME NEW k \in Identificacoes PROVE Parte(c, k)' = Parte(c, k)
          <6>1. CASE baixa'[k] = baixa[k]
            BY <6>1 DEF Parte
          <6>2. CASE baixa'[k] # baixa[k]
            <7>1. baixa'[k].conta # c /\ baixa[k].conta # c
              BY <1>0, <3>2, <6>2, FinanceiroAssumption DEF Registrada
            <7> QED BY <7>1 DEF Parte
          <6> QED BY <6>1, <6>2
        <5> QED BY <5>1
      <4>2. Pago(c)' = Pago(c)
        BY <4>1, PagoIgual
      <4>3. conta[c].pago = Pago(c)
        BY DEF PagoInd, PagoConfere, Pago
      <4> QED BY <3>2, <4>2, <4>3
    <3> QED BY <3>1, <3>2
  <2> QED BY <2>1 DEF PagoConfere, Pago
<1>4. ASSUME NEW u \in Chamadas PROVE EstornoInd(u)'
  <2>1. CASE u = t
    <3>1. tx'[t].passo = "fim"
      BY <1>0 DEF Sair, TypeOK
    <3> QED BY <2>1, <3>1 DEF EstornoInd
  <2>2. CASE u # t /\ Tipo(u, "ESTORNAR_BAIXA") /\ tx[u].passo \in {"escrever", "gravar"}
    <3>1. tx'[u] = tx[u] /\ Conta(u)' = Conta(u) /\ Conta(u) \in Contas /\ Conta(u) # Nenhum
      BY <1>0, <2>2, Conteudo, FinanceiroAssumption DEF Sair, TypeOK, Conta
    <3>2. TemConta(u) /\ Conta(u) # Conta(t)
      BY <2>2 DEF PagoInd, FinInd, TravasInd, TemConta, Andando, Tipo
    <3>3. /\ pedido[u].chave \in Identificacoes
          /\ baixa[pedido[u].chave].conta = Conta(u)
      BY <1>0, <2>2, Conteudo DEF PagoInd, FinInd, LidoInd
    <3>4. baixa'[pedido[u].chave] = baixa[pedido[u].chave] /\ conta'[Conta(u)] = conta[Conta(u)]
      BY <3>1, <3>2, <3>3 DEF Registrada
    <3> QED BY <2>2, <3>1, <3>4 DEF PagoInd, EstornoInd
  <2>3. CASE u # t /\ ~(Tipo(u, "ESTORNAR_BAIXA") /\ tx[u].passo \in {"escrever", "gravar"})
    BY <1>0, <2>3 DEF Sair, TypeOK, EstornoInd, Tipo
  <2> QED BY <2>1, <2>2, <2>3
<1> QED BY <1>1, <1>2, <1>3, <1>4 DEF PagoInd

LEMMA PagoConfirmarBaixa ==
    ASSUME PagoInd, FinInd', NEW t \in Chamadas, ConfirmarBaixa(t)
    PROVE  PagoInd'
<1> DEFINE k == pedido[t].chave
           c == Conta(t)
<1>0. /\ FinInd /\ TypeOK /\ TypeOK' /\ Em(t, "gravar") /\ Tipo(t, "BAIXAR")
      /\ baixa' = [baixa EXCEPT ![k] =
                     [SemBaixa EXCEPT !.conta = c, !.valor = pedido[t].valor, !.data = tx[t].dia]]
      /\ conta' = [conta EXCEPT ![c] =
                     [status |-> IF tx[t].pago = Valor[c] THEN "PAGO" ELSE "PARCIAL",
                      pago |-> tx[t].pago]]
      /\ Sair(t, "FEITO") /\ UNCHANGED <<pedido, estornadas, hoje>>
  BY DEF PagoInd, FinInd, ConfirmarBaixa
<1>1. /\ k \in Identificacoes /\ c \in Contas /\ c # Nenhum /\ pedido[t].valor \in Nat
      /\ tx[t].pago \in Nat /\ conta[c].pago \in Nat
  BY <1>0, Conteudo, Tx, FinanceiroAssumption
<1>2. Existe(c) /\ tx[t].pago = conta[c].pago + pedido[t].valor /\ ~Registrada(k)
  BY <1>0 DEF FinInd, LidoInd, ChaveInd, Em, Existe
<1>3. /\ conta'[c].status # "AUSENTE" /\ conta'[c].pago = tx[t].pago
      /\ baixa'[k].conta = c /\ baixa'[k].valor = pedido[t].valor /\ ~baixa'[k].estornada
      /\ \A x \in Contas \ {c} : conta'[x] = conta[x]
      /\ \A x \in Identificacoes \ {k} : baixa'[x] = baixa[x]
  BY <1>0, <1>1 DEF TypeOK, SemBaixa
<1>4. conta'[c].pago = Pago(c)'
  <2>1. Parte(c, k) = 0
    BY <1>1, <1>2 DEF Parte, Registrada
  <2>2. (Parte(c, k) = pedido[t].valor)'
    BY <1>0, <1>3 DEF Parte, Conta
  <2>3. PICK d \in Contas : d = c
    BY <1>1
  <2>4. \A x \in Identificacoes \ {k} : Parte(d, x)' = Parte(d, x)
    BY <1>3 DEF Parte
  <2>5. PICK a \in Identificacoes : a = k
    BY <1>1
  <2>6. Pago(d)' = Pago(d) - Parte(d, a) + Parte(d, a)'
    BY <1>0, <2>4, <2>5, PagoMuda
  <2>7. conta[d].pago = Pago(d)
    BY DEF PagoInd, PagoConfere, Pago
  <2>8. Conta(t)' = c /\ pedido' = pedido
    BY <1>0 DEF Conta
  <2>9. Parte(d, a) = 0 /\ Parte(d, a)' = pedido[t].valor
    BY <2>1, <2>2, <2>3, <2>5, <2>8
  <2>10. Pago(d)' = tx[t].pago
    BY <1>1, <1>2, <2>3, <2>6, <2>7, <2>9
  <2> QED BY <1>3, <2>3, <2>8, <2>10
<1>5. Existe(c)' /\ TemConta(t) /\ Conta(t)' = c
  BY <1>0, <1>3 DEF Existe, TemConta, Andando, Em, Conta, Tipo
<1>6. \A x \in Identificacoes : Registrada(x) => baixa'[x] = baixa[x] /\ Registrada(x)'
  BY <1>2, <1>3 DEF Registrada
<1>7. \A x \in Identificacoes : baixa'[x] # baixa[x] => baixa'[x].conta = c
  BY <1>3
<1> HIDE DEF k, c
<1> QED BY <1>0, <1>2, <1>3, <1>4, <1>5, <1>6, <1>7, PagoEscrita DEF c

LEMMA PagoConfirmarEstornoBaixa ==
    ASSUME PagoInd, FinInd', NEW t \in Chamadas, ConfirmarEstornoBaixa(t)
    PROVE  PagoInd'
<1> DEFINE k == pedido[t].chave
           c == Conta(t)
<1>0. /\ FinInd /\ TypeOK /\ TypeOK' /\ Em(t, "gravar") /\ Tipo(t, "ESTORNAR_BAIXA")
      /\ baixa' = [baixa EXCEPT ![k] = Estornada(baixa[k], tx[t].dia)]
      /\ conta' = [conta EXCEPT ![c] =
                     [status |-> IF tx[t].pago = 0 THEN "ABERTO" ELSE "PARCIAL",
                      pago |-> tx[t].pago]]
      /\ Sair(t, "FEITO") /\ UNCHANGED <<pedido, estornadas, hoje>>
  BY DEF PagoInd, FinInd, ConfirmarEstornoBaixa
<1>1. /\ k \in Identificacoes /\ c \in Contas /\ c # Nenhum
      /\ tx[t].pago \in Nat /\ conta[c].pago \in Nat
  BY <1>0, Conteudo, Tx, FinanceiroAssumption
<1>2. /\ Existe(c) /\ baixa[k].conta = c /\ baixa[k].valor \in Nat
      /\ ~baixa[k].estornada /\ tx[t].pago = conta[c].pago - baixa[k].valor
  BY <1>0, <1>1 DEF PagoInd, FinInd, LidoInd, EstornoInd, Em, Existe, TypeOK
<1>3. /\ conta'[c].status # "AUSENTE" /\ conta'[c].pago = tx[t].pago
      /\ baixa'[k].conta = c /\ baixa'[k].estornada
      /\ \A x \in Contas \ {c} : conta'[x] = conta[x]
      /\ \A x \in Identificacoes \ {k} : baixa'[x] = baixa[x]
  <2>1. /\ Estornada(baixa[k], tx[t].dia).conta = c
        /\ Estornada(baixa[k], tx[t].dia).estornada
    BY <1>0, <1>1, <1>2 DEF TypeOK, Estornada
  <2> QED BY <1>0, <1>1, <2>1 DEF TypeOK
<1>4. conta'[c].pago = Pago(c)'
  <2>3. PICK d \in Contas : d = c
    BY <1>1
  <2>4. \A x \in Identificacoes \ {k} : Parte(d, x)' = Parte(d, x)
    BY <1>3 DEF Parte
  <2>5. PICK a \in Identificacoes : a = k
    BY <1>1
  <2>6. Pago(d)' = Pago(d) - Parte(d, a) + Parte(d, a)'
    BY <1>0, <2>4, <2>5, PagoMuda
  <2>7. conta[d].pago = Pago(d)
    BY DEF PagoInd, PagoConfere, Pago
  <2>8. Conta(t)' = c /\ pedido' = pedido
    BY <1>0 DEF Conta
  <2>9. Parte(d, a) = baixa[k].valor /\ Parte(d, a)' = 0
    BY <1>2, <1>3, <2>3, <2>5 DEF Parte
  <2>10. Pago(d)' = tx[t].pago
    BY <1>1, <1>2, <2>3, <2>6, <2>7, <2>9
  <2> QED BY <1>3, <2>3, <2>8, <2>10
<1>5. Existe(c)' /\ TemConta(t) /\ Conta(t)' = c
  BY <1>0, <1>3 DEF Existe, TemConta, Andando, Em, Conta, Tipo
<1>6. \A x \in Identificacoes :
        /\ Registrada(x) /\ baixa[x].conta # c => baixa'[x] = baixa[x]
        /\ Registrada(x) => Registrada(x)'
  BY <1>1, <1>2, <1>3 DEF Registrada
<1>7. \A x \in Identificacoes : baixa'[x] # baixa[x] => baixa'[x].conta = c
  BY <1>3
<1> HIDE DEF k, c
<1> QED BY <1>0, <1>2, <1>3, <1>4, <1>5, <1>6, <1>7, PagoEscrita DEF c

LEMMA PagoConfirmarCancelar ==
    ASSUME PagoInd, FinInd', NEW t \in Chamadas, ConfirmarCancelar(t)
    PROVE  PagoInd'
<1> DEFINE c == Conta(t)
<1>0. /\ FinInd /\ TypeOK /\ Em(t, "gravar") /\ Tipo(t, "CANCELAR")
      /\ conta' = [conta EXCEPT ![c].status = "CANCELADO"]
      /\ Sair(t, "FEITO") /\ UNCHANGED <<pedido, baixa, estornadas, hoje>>
  BY DEF PagoInd, FinInd, ConfirmarCancelar
<1>1. c \in Contas /\ Cancelavel(c)
  BY <1>0, Conteudo DEF FinInd, LidoInd, Em
<1>2. /\ conta'[c].status = "CANCELADO" /\ conta'[c].pago = conta[c].pago
      /\ \A x \in Contas \ {c} : conta'[x] = conta[x]
  BY <1>0, <1>1 DEF TypeOK
<1>3. conta'[c].pago = Pago(c)'
  <2>1. Pago(c)' = Pago(c)
    BY <1>0 DEF Pago, Parte, Conta
  <2>2. conta[c].pago = Pago(c)
    BY <1>1 DEF PagoInd, PagoConfere, Pago
  <2> QED BY <1>0, <1>2, <2>1, <2>2
<1>4. Existe(c) /\ Existe(c)' /\ TemConta(t) /\ Conta(t)' = c
  BY <1>0, <1>1, <1>2 DEF Existe, TemConta, Andando, Em, Conta, Tipo, Cancelavel
<1>5. \A x \in Identificacoes : baixa'[x] = baixa[x] /\ (Registrada(x) => Registrada(x)')
  BY <1>0 DEF Registrada
<1> HIDE DEF c
<1> QED BY <1>0, <1>2, <1>3, <1>4, <1>5, PagoEscrita DEF c

LEMMA PagoConfirmarEstornoVenda ==
    ASSUME PagoInd, FinInd', NEW t \in Chamadas, ConfirmarEstornoVenda(t)
    PROVE  PagoInd'
<1> DEFINE c == Conta(t)
<1>0. /\ FinInd /\ TypeOK /\ Em(t, "gravar") /\ Tipo(t, "ESTORNAR_VENDA")
      /\ conta' = [conta EXCEPT ![c] = [status |-> "CANCELADO", pago |-> 0]]
      /\ baixa' = [k \in Identificacoes |->
                     IF baixa[k].conta = c THEN Estornada(baixa[k], tx[t].dia) ELSE baixa[k]]
      /\ Sair(t, "FEITO") /\ UNCHANGED <<pedido, hoje>>
  BY DEF PagoInd, FinInd, ConfirmarEstornoVenda
<1>1. c \in Contas /\ Existe(c) /\ c # Nenhum
  BY <1>0, Conteudo, FinanceiroAssumption DEF FinInd, LidoInd, Em
<1>2. /\ conta'[c].status = "CANCELADO" /\ conta'[c].pago = 0
      /\ \A x \in Contas \ {c} : conta'[x] = conta[x]
  BY <1>0, <1>1 DEF TypeOK
<1>3. \A x \in Identificacoes :
        /\ baixa[x].conta # c => baixa'[x] = baixa[x]
        /\ baixa[x].conta = c => baixa'[x].conta = c /\ baixa'[x].estornada
  <2>1. \A x \in Identificacoes :
          /\ Estornada(baixa[x], tx[t].dia).conta = baixa[x].conta
          /\ Estornada(baixa[x], tx[t].dia).estornada
    BY <1>0 DEF TypeOK, Estornada
  <2> QED BY <1>0, <2>1
<1>4. conta'[c].pago = Pago(c)'
  <2>1. PICK d \in Contas : d = c
    BY <1>1
  <2>2. \A x \in Identificacoes : Parte(d, x)' = 0
    BY <1>3, <2>1 DEF Parte
  <2>3. Pago(d)' = 0 /\ Conta(t)' = c
    BY <1>0, <2>2, PagoNada DEF Conta
  <2> QED BY <1>2, <2>1, <2>3
<1>5. Existe(c)' /\ TemConta(t) /\ Conta(t)' = c
  BY <1>0, <1>2 DEF Existe, TemConta, Andando, Em, Conta, Tipo
<1>6. \A x \in Identificacoes : Registrada(x) => Registrada(x)'
  BY <1>1, <1>3 DEF Registrada
<1>7. \A x \in Identificacoes : baixa'[x] # baixa[x] => baixa'[x].conta = c
  BY <1>3
<1> HIDE DEF c
<1> QED BY <1>0, <1>1, <1>2, <1>3, <1>4, <1>5, <1>6, <1>7, PagoEscrita DEF c

\* A new account has the payments that its opening registers.
LEMMA PagoAbrirConta ==
    ASSUME PagoInd, FinInd', NEW c \in Contas, AbrirConta(c)
    PROVE  PagoInd'
<1> DEFINE n == IF c \in Recebidas THEN Valor[c] ELSE 0
           b == [SemBaixa EXCEPT !.conta = c, !.valor = Valor[c], !.data = hoje]
<1>0. /\ FinInd /\ TypeOK /\ TypeOK' /\ ~Existe(c) /\ c \in Identificacoes /\ Valor[c] \in Nat
      /\ conta' = [conta EXCEPT ![c] =
                     [status |-> IF c \in Recebidas \/ Valor[c] = 0 THEN "PAGO" ELSE "ABERTO",
                      pago |-> n]]
      /\ baixa' = IF c \in Recebidas /\ Valor[c] # 0 THEN [baixa EXCEPT ![c] = b] ELSE baixa
      /\ UNCHANGED <<pedido, estornadas, trava, tx, resp, hoje>>
  BY FinanceiroAssumption DEF PagoInd, FinInd, AbrirConta, Identificacoes
<1>1. /\ conta'[c].pago = n /\ conta'[c].status # "AUSENTE"
      /\ \A x \in Contas \ {c} : conta'[x] = conta[x]
  BY <1>0 DEF TypeOK
<1>2. ~Registrada(c) /\ c # Nenhum
  BY <1>0, FinanceiroAssumption DEF FinInd, BaixaInd
<1>3. /\ \A k \in Identificacoes \ {c} : baixa'[k] = baixa[k]
      /\ IF n = 0 THEN baixa' = baixa
                  ELSE baixa'[c].conta = c /\ baixa'[c].valor = n /\ ~baixa'[c].estornada
  BY <1>0 DEF TypeOK, SemBaixa
<1>4. PagoConfere'
  <2>1. ASSUME NEW x \in Contas PROVE conta'[x].pago = Pago(x)'
    <3>1. \A k \in Identificacoes \ {c} : Parte(x, k)' = Parte(x, k)
      BY <1>3 DEF Parte
    <3>2. Pago(x)' = Pago(x) - Parte(x, c) + Parte(x, c)'
      BY <1>0, <3>1, PagoMuda
    <3>3. conta[x].pago = Pago(x) /\ conta[x].pago \in Nat
      BY <1>0 DEF PagoInd, PagoConfere, Pago, TypeOK
    <3>4. Parte(x, c) = 0 /\ x # Nenhum
      BY <1>2, FinanceiroAssumption DEF Parte, Registrada
    <3>5. CASE x = c
      <4>1. conta[c].pago = 0 /\ n \in Nat
        BY <1>0 DEF PagoInd, NovasInd
      <4>2. Parte(c, c)' = n
        <5>1. CASE n = 0
          BY <1>2, <1>3, <5>1 DEF Parte, Registrada
        <5>2. CASE n # 0
          BY <1>3, <5>2 DEF Parte
        <5> QED BY <5>1, <5>2
      <4> HIDE DEF n
      <4> QED BY <1>1, <3>2, <3>3, <3>4, <3>5, <4>1, <4>2
    <3>6. CASE x # c
      <4>1. Parte(x, c)' = 0
        BY <1>2, <1>3, <3>4, <3>6 DEF Parte, Registrada
      <4> QED BY <1>1, <3>2, <3>3, <3>4, <3>6, <4>1
    <3> QED BY <3>5, <3>6
  <2> QED BY <2>1 DEF PagoConfere, Pago
<1>5. LivresInd'
  BY <1>2, <1>3 DEF PagoInd, LivresInd, Registrada
<1>6. NovasInd'
  BY <1>1 DEF PagoInd, NovasInd, Existe
<1>7. ASSUME NEW u \in Chamadas PROVE EstornoInd(u)'
  <2>1. CASE Tipo(u, "ESTORNAR_BAIXA") /\ tx[u].passo \in {"escrever", "gravar"}
    <3>1. /\ Conta(u) \in Contas /\ pedido[u].chave \in Identificacoes /\ Existe(Conta(u))
          /\ Registrada(pedido[u].chave)
      BY <1>0, <2>1, Conteudo, FinanceiroAssumption DEF FinInd, LidoInd, Existe, Registrada
    <3>2. conta'[Conta(u)] = conta[Conta(u)] /\ baixa'[pedido[u].chave] = baixa[pedido[u].chave]
      BY <1>0, <1>1, <1>2, <1>3, <3>1
    <3> QED BY <1>0, <2>1, <3>2 DEF PagoInd, EstornoInd, Tipo, Conta
  <2>2. CASE ~(Tipo(u, "ESTORNAR_BAIXA") /\ tx[u].passo \in {"escrever", "gravar"})
    BY <1>0, <2>2 DEF EstornoInd, Tipo
  <2> QED BY <2>1, <2>2
<1> QED BY <1>4, <1>5, <1>6, <1>7 DEF PagoInd

\* The steps that only read, wait, or end without writing.
LEMMA PagoLeitura ==
    ASSUME PagoInd, FinInd', NEW t \in Chamadas,
           \/ Bloquear(t) \/ Abortar(t) \/ LerBaixar(t) \/ CriarBaixa(t)
           \/ LerEstornarBaixa(t) \/ EscreverEstorno(t) \/ LerCancelar(t)
           \/ LerEstornarVenda(t) \/ EstornarConta(t) \/ EstornarBaixas(t)
    PROVE  PagoInd'
<1>0. /\ TypeOK /\ UNCHANGED <<pedido, conta, baixa>>
      /\ \A u \in Chamadas \ {t} : tx'[u] = tx[u]
  BY DEF PagoInd, FinInd, TypeOK, Bloquear, Abortar, LerBaixar, CriarBaixa, LerEstornarBaixa,
         EscreverEstorno, LerCancelar, LerEstornarVenda, EstornarConta, EstornarBaixas,
         Encerrar, Sair, TravarLinha, Ir, SoTx
<1>1. EstornoInd(t)'
  <2>1. CASE ~Tipo(t, "ESTORNAR_BAIXA")
    BY <1>0, <2>1 DEF EstornoInd, Tipo
  <2>2. CASE Tipo(t, "ESTORNAR_BAIXA") /\ tx'[t].passo \in {"ler", "fim"}
    BY <2>2 DEF EstornoInd
  <2>3. CASE Tipo(t, "ESTORNAR_BAIXA") /\ LerEstornarBaixa(t) /\ tx'[t].passo # "fim"
    <3> DEFINE b == baixa[pedido[t].chave]
               n == conta[Conta(t)].pago - b.valor
    <3>1. b.conta = Conta(t) /\ ~b.estornada /\ Ir(t, "escrever", n, 0)
      BY <1>0, <2>3 DEF LerEstornarBaixa, Encerrar, Sair, TypeOK
    <3>2. tx'[t].pago = n
      BY <1>0, <3>1 DEF Ir, TypeOK
    <3>3. baixa'[pedido'[t].chave] = b /\ conta'[Conta(t)'] = conta[Conta(t)]
      BY <1>0 DEF Conta
    <3> QED BY <3>1, <3>2, <3>3 DEF EstornoInd
  <2>4. CASE Tipo(t, "ESTORNAR_BAIXA") /\ EscreverEstorno(t)
    <3>1. tx[t].passo = "escrever" /\ tx'[t].pago = tx[t].pago
      BY <1>0, <2>4 DEF EscreverEstorno, Em, Ir, TypeOK
    <3> QED BY <1>0, <2>4, <3>1 DEF PagoInd, EstornoInd, Tipo, Conta
  <2>5. CASE /\ Tipo(t, "ESTORNAR_BAIXA")
             /\ \/ Bloquear(t) \/ Abortar(t) \/ LerBaixar(t) \/ CriarBaixa(t)
                \/ LerCancelar(t) \/ LerEstornarVenda(t) \/ EstornarConta(t)
                \/ EstornarBaixas(t)
    <3>1. ~EstornarConta(t)
      BY <2>5 DEF PagoInd, FinInd, TravasInd, EstornarConta, Em, Tipo
    <3>2. tx'[t].passo \in {"ler", "fim"}
      BY <1>0, <2>5, <3>1 DEF Bloquear, Abortar, LerBaixar, CriarBaixa, LerCancelar,
         LerEstornarVenda, EstornarBaixas, Encerrar, Sair, TravarLinha, Ir, TypeOK, Tipo
    <3> QED BY <3>2 DEF EstornoInd
  <2> QED BY <2>1, <2>2, <2>3, <2>4, <2>5
<1> QED BY <1>0, <1>1, PagoSemEscrita

LEMMA PagoPasso ==
    ASSUME PagoInd, [Next]_vars
    PROVE  PagoInd'
<1>0. FinInd'
  BY FinPasso DEF PagoInd
<1>1. ASSUME NEW t \in Chamadas, Chamar(t) PROVE PagoInd'
  <2>1. CASE ConfirmarBaixa(t)
    BY <1>0, <2>1, PagoConfirmarBaixa
  <2>2. CASE ConfirmarEstornoBaixa(t)
    BY <1>0, <2>2, PagoConfirmarEstornoBaixa
  <2>3. CASE ConfirmarCancelar(t)
    BY <1>0, <2>3, PagoConfirmarCancelar
  <2>4. CASE ConfirmarEstornoVenda(t)
    BY <1>0, <2>4, PagoConfirmarEstornoVenda
  <2>5. CASE \/ Bloquear(t) \/ Abortar(t) \/ LerBaixar(t) \/ CriarBaixa(t)
             \/ LerEstornarBaixa(t) \/ EscreverEstorno(t) \/ LerCancelar(t)
             \/ LerEstornarVenda(t) \/ EstornarConta(t) \/ EstornarBaixas(t)
    BY <1>0, <2>5, PagoLeitura
  <2> QED BY <1>1, <2>1, <2>2, <2>3, <2>4, <2>5 DEF Chamar
<1>2. ASSUME NEW c \in Contas, AbrirConta(c) PROVE PagoInd'
  BY <1>0, <1>2, PagoAbrirConta
<1>3. CASE Virar \/ UNCHANGED vars
  <2>1. UNCHANGED <<pedido, conta, baixa, tx>>
    BY <1>3 DEF Virar, vars
  <2>2. PagoConfere' /\ LivresInd' /\ NovasInd'
    BY <2>1 DEF PagoInd, PagoConfere, Parte, LivresInd, NovasInd, Registrada, Existe
  <2>3. \A u \in Chamadas : EstornoInd(u)'
    BY <2>1 DEF PagoInd, EstornoInd, Tipo, Conta
  <2> QED BY <1>0, <2>2, <2>3 DEF PagoInd
<1> QED BY <1>1, <1>2, <1>3 DEF Next

LEMMA PagoInicio ==
    ASSUME Init
    PROVE  PagoInd
<1>1. FinInd
  BY InicioInd
<1>2. PagoConfere
  <2>1. ASSUME NEW c \in Contas PROVE conta[c].pago = Pago(c)
    <3> DEFINE f == [k \in Identificacoes |-> Parte(c, k)]
    <3>1. \A k \in Identificacoes : f[k] = 0
      BY FinanceiroAssumption DEF Init, Parte, SemBaixa
    <3>2. DOMAIN f = Identificacoes /\ Pago(c) = SumFunction(f)
      BY DEF Pago
    <3> HIDE DEF f
    <3>3. Pago(c) = 0
      BY <3>1, <3>2, Finitas, SomaNula, SomaFuncao
    <3> QED BY <3>3 DEF Init
  <2> QED BY <2>1 DEF PagoConfere, Pago
<1>3. LivresInd /\ NovasInd /\ \A t \in Chamadas : EstornoInd(t)
  BY DEF Init, LivresInd, NovasInd, EstornoInd
<1> QED BY <1>1, <1>2, <1>3 DEF PagoInd

\* The stronger invariant about what each account was paid.
THEOREM PagoIndutivo == Spec => []PagoInd
<1>1. Init => PagoInd
  BY PagoInicio
<1>2. PagoInd /\ [Next]_vars => PagoInd'
  BY PagoPasso
<1> QED BY <1>1, <1>2, PTL DEF Spec

\* What an account says was paid is the sum of its payments that stand, whatever the
\* payments, reversals and refunds that ran at once.
THEOREM PagoSempreConfere == Spec => []PagoConfere
<1>1. PagoInd => PagoConfere
  BY DEF PagoInd
<1> QED BY <1>1, PagoIndutivo, PTL

-----------------------------------------------------------------------------
\* A reversal leaves a payment's account, value and day of payment.
LEMMA EstornadaMantem ==
    ASSUME NEW b \in BaixaTipo, NEW d \in Nat
    PROVE  LET e == Estornada(b, d) IN
           /\ e.conta = b.conta /\ e.valor = b.valor /\ e.data = b.data
           /\ e.estornada
           /\ b.estornada => e = b
           /\ ~b.estornada => e.estornadaEm = d
BY DEF Estornada, BaixaTipo

\* A payment moves nothing on a past day: what is written has the day of its transaction.
LEMMA DiaFechado ==
    ASSUME PagoInd, [Next]_vars, NEW d \in Nat, d < hoje,
           \A t \in Chamadas : Em(t, "gravar") => tx[t].dia # d,
           NEW k \in Identificacoes
    PROVE  NoDia(baixa'[k], d) = NoDia(baixa[k], d)
<1>0. TypeOK /\ baixa[k] \in BaixaTipo /\ hoje # d
  BY DEF PagoInd, FinInd, TypeOK, BaixaTipo
<1>1. CASE baixa'[k] = baixa[k]
  BY <1>1
<1>2. ASSUME NEW t \in Chamadas, Em(t, "gravar"), baixa'[k] = Estornada(baixa[k], tx[t].dia)
      PROVE  NoDia(baixa'[k], d) = NoDia(baixa[k], d)
  <2>1. tx[t].dia \in Nat /\ tx[t].dia # d
    BY <1>0, <1>2, Tx
  <2> DEFINE e == Estornada(baixa[k], tx[t].dia)
  <2>2. /\ e.conta = baixa[k].conta /\ e.valor = baixa[k].valor /\ e.data = baixa[k].data
        /\ (e.estornada /\ e.estornadaEm = d) <=> (baixa[k].estornada /\ baixa[k].estornadaEm = d)
    BY <1>0, <2>1, EstornadaMantem
  <2> HIDE DEF e
  <2>3. Sinal(e) = Sinal(baixa[k])
    BY <2>2 DEF Sinal
  <2>4. NoDia(e, d) = NoDia(baixa[k], d)
    BY <2>2, <2>3 DEF NoDia
  <2> QED BY <1>2, <2>4 DEF e
<1>3. ASSUME ~Registrada(k), baixa'[k].data # d, ~baixa'[k].estornada
      PROVE  NoDia(baixa'[k], d) = NoDia(baixa[k], d)
  <2>1. baixa[k].conta = Nenhum /\ ~baixa[k].estornada
    BY <1>3 DEF PagoInd, LivresInd, SemBaixa, Registrada
  <2> QED BY <1>3, <2>1 DEF NoDia
<1>4. ASSUME NEW t \in Chamadas, ConfirmarBaixa(t) PROVE NoDia(baixa'[k], d) = NoDia(baixa[k], d)
  <2>1. /\ tx[t].dia # d /\ pedido[t].chave \in Identificacoes /\ ~Registrada(pedido[t].chave)
    BY <1>0, <1>4, Conteudo DEF PagoInd, FinInd, ChaveInd, ConfirmarBaixa, Em
  <2>2. CASE k = pedido[t].chave
    <3>1. baixa'[k].data = tx[t].dia /\ ~baixa'[k].estornada
      BY <1>0, <1>4, <2>2 DEF ConfirmarBaixa, SemBaixa, TypeOK
    <3> QED BY <1>3, <2>1, <2>2, <3>1
  <2>3. CASE k # pedido[t].chave
    BY <1>0, <1>1, <1>4, <2>3 DEF ConfirmarBaixa, TypeOK
  <2> QED BY <2>2, <2>3
<1>5. ASSUME NEW t \in Chamadas, ConfirmarEstornoBaixa(t)
      PROVE  NoDia(baixa'[k], d) = NoDia(baixa[k], d)
  <2>1. Em(t, "gravar")
    BY <1>5 DEF ConfirmarEstornoBaixa
  <2>2. CASE k = pedido[t].chave
    <3>1. baixa'[k] = Estornada(baixa[k], tx[t].dia)
      BY <1>0, <1>5, <2>2 DEF ConfirmarEstornoBaixa, TypeOK
    <3> QED BY <1>2, <2>1, <3>1
  <2>3. CASE k # pedido[t].chave
    BY <1>0, <1>1, <1>5, <2>3 DEF ConfirmarEstornoBaixa, TypeOK
  <2> QED BY <2>2, <2>3
<1>6. ASSUME NEW t \in Chamadas, ConfirmarEstornoVenda(t)
      PROVE  NoDia(baixa'[k], d) = NoDia(baixa[k], d)
  <2>1. /\ Em(t, "gravar")
        /\ baixa'[k] = baixa[k] \/ baixa'[k] = Estornada(baixa[k], tx[t].dia)
    BY <1>6 DEF ConfirmarEstornoVenda
  <2> QED BY <1>1, <1>2, <2>1
<1>7. ASSUME NEW c \in Contas, AbrirConta(c) PROVE NoDia(baixa'[k], d) = NoDia(baixa[k], d)
  <2>1. ~Registrada(c)
    BY <1>7, FinanceiroAssumption DEF PagoInd, FinInd, BaixaInd, AbrirConta, Identificacoes
  <2>2. CASE baixa'[k] # baixa[k]
    <3>1. k = c /\ baixa'[k].data = hoje /\ ~baixa'[k].estornada
      BY <1>0, <1>7, <2>2 DEF AbrirConta, SemBaixa, TypeOK
    <3> QED BY <1>0, <1>3, <2>1, <3>1
  <2> QED BY <1>1, <2>2
<1>8. ASSUME NEW t \in Chamadas, Chamar(t) PROVE NoDia(baixa'[k], d) = NoDia(baixa[k], d)
  <2>1. \/ baixa' = baixa
        \/ ConfirmarBaixa(t) \/ ConfirmarEstornoBaixa(t) \/ ConfirmarEstornoVenda(t)
    BY <1>8 DEF Chamar, Bloquear, Abortar, LerBaixar, CriarBaixa, LerEstornarBaixa,
       EscreverEstorno, LerCancelar, ConfirmarCancelar, LerEstornarVenda, EstornarConta,
       EstornarBaixas, Encerrar, TravarLinha, SoTx
  <2> QED BY <1>1, <1>4, <1>5, <1>6, <2>1
<1>9. CASE Virar \/ UNCHANGED vars
  BY <1>1, <1>9 DEF Virar, vars
<1> QED BY <1>7, <1>8, <1>9 DEF Next

\* The cash of a day that is over does not change once the transactions that wrote on that
\* day have ended.
THEOREM CaixaSempreFechado == Spec => CaixaFechado
<1> DEFINE A == \A d \in 0..Horizonte :
                  (d < hoje /\ \A t \in Chamadas : Em(t, "gravar") => tx[t].dia # d)
                     => CaixaDe(d)' = CaixaDe(d)
<1>1. PagoInd /\ [Next]_vars => A
  <2>1. ASSUME PagoInd, [Next]_vars, NEW d \in 0..Horizonte, d < hoje,
               \A t \in Chamadas : Em(t, "gravar") => tx[t].dia # d
        PROVE  CaixaDe(d)' = CaixaDe(d)
    <3>1. d \in Nat
      BY FinanceiroAssumption
    <3>2. \A k \in Identificacoes : NoDia(baixa'[k], d) = NoDia(baixa[k], d)
      BY <2>1, <3>1, DiaFechado
    <3>3. CaixaDe(d) = SumFunction([k \in Identificacoes |-> NoDia(baixa[k], d)])
      BY DEF CaixaDe
    <3>4. CaixaDe(d)' = SumFunction([k \in Identificacoes |-> NoDia(baixa'[k], d)])
      BY DEF CaixaDe, NoDia, Sinal
    <3>5. [k \in Identificacoes |-> NoDia(baixa'[k], d)]
            = [k \in Identificacoes |-> NoDia(baixa[k], d)]
      BY <3>2
    <3> QED BY <3>3, <3>4, <3>5
  <2> QED BY <2>1
<1>2. PagoInd /\ [Next]_vars => [A]_vars
  BY <1>1
<1> QED BY <1>2, PagoIndutivo, PTL DEF Spec, CaixaFechado
=============================================================================
