------------------------- MODULE SuprimentosProvas -------------------------
(***************************************************************************)
(* What is proved of Suprimentos for every number of products, branches,   *)
(* orders, keys, files and calls.                                          *)
(***************************************************************************)
EXTENDS Suprimentos, Somas

-----------------------------------------------------------------------------
(* Types. *)

\* The rows, and the calls: the two halves of TypeOK.
LinhasOK ==
    /\ ativo \subseteq Produtos /\ aberta \subseteq Filiais
    /\ saldo \in [Estantes -> Int] /\ manual \in [Produtos -> -MaxManual .. 0]
    /\ pedido \in [Pedidos -> [status : Status \cup {"nenhum"}, itens : Itens \cup {Nenhum}]]
    /\ transferencia \in [Chaves -> Transferencias \cup {Nada}]
    /\ importacao \in [Envios -> Arquivos \cup {Nada}]
    /\ importados \in [Clientes -> Nat] /\ inativos \subseteq Clientes

ChamadasOK ==
    /\ tx = [c \in Chamadas |-> tx[c]]
    /\ \A c \in Chamadas : Chamado(tx[c])

\* TypeOK in three parts, so that a step opens only the one it disturbs.
LEMMA Partes == TypeOK <=> LinhasOK /\ trava \in Chamadas \cup {Nada} /\ ChamadasOK
BY DEF TypeOK, LinhasOK, ChamadasOK

\* One call's record replaced by another well-formed one.
LEMMA Substitui ==
    ASSUME ChamadasOK, NEW c \in Chamadas, NEW n, Chamado(n), tx' = [tx EXCEPT ![c] = n]
    PROVE  /\ ChamadasOK'
           /\ tx'[c] = n
           /\ \A b \in Chamadas \ {c} : tx'[b] = tx[b]
<1>1. DOMAIN tx = Chamadas
  BY DEF ChamadasOK
<1>2. tx'[c] = n /\ \A b \in Chamadas \ {c} : tx'[b] = tx[b]
  BY <1>1
<1>3. tx' = [b \in Chamadas |-> tx'[b]]
  BY <1>1
<1>4. \A b \in Chamadas : Chamado(tx'[b])
  BY <1>2 DEF ChamadasOK
<1> QED BY <1>2, <1>3, <1>4 DEF ChamadasOK

\* Leaving: the call is idle again, and gives the company's row back if it held it.
LEMMA Saida ==
    ASSUME ChamadasOK, trava \in Chamadas \cup {Nada}, NEW c \in Chamadas, Sair(c)
    PROVE  /\ ChamadasOK'
           /\ trava' \in Chamadas \cup {Nada}
           /\ tx'[c] = Ociosa
           /\ \A b \in Chamadas \ {c} : tx'[b] = tx[b]
<1> DEFINE n == Ociosa
<1>1. Chamado(n)
  BY DEF Ociosa, Chamado
<1>2. tx' = [tx EXCEPT ![c] = n]
  BY DEF Sair
<1>3. trava' \in Chamadas \cup {Nada}
  BY DEF Sair
<1> HIDE DEF n
<1>4. ChamadasOK' /\ tx'[c] = n /\ \A b \in Chamadas \ {c} : tx'[b] = tx[b]
  BY <1>1, <1>2, Substitui
<1> QED BY <1>3, <1>4 DEF n

\* A receber that enters one more item: only what it has done changes.
LEMMA Prossegue ==
    ASSUME ChamadasOK, NEW c \in Chamadas, Op(c, "receber"), NEW f \in SUBSET Produtos,
           tx' = [tx EXCEPT ![c] = [tx[c] EXCEPT !.passo = "entrar", !.feitos = f]]
    PROVE  /\ ChamadasOK'
           /\ tx'[c].passo = "entrar" /\ tx'[c].feitos = f
           /\ tx'[c].op = tx[c].op /\ tx'[c].alvo = tx[c].alvo /\ tx'[c].dados = tx[c].dados
           /\ \A b \in Chamadas \ {c} : tx'[b] = tx[b]
<1> DEFINE n == [tx[c] EXCEPT !.passo = "entrar", !.feitos = f]
<1>1. Chamado(tx[c])
  BY DEF ChamadasOK
<1>2. /\ n.passo = "entrar" /\ n.feitos = f
      /\ n.op = tx[c].op /\ n.alvo = tx[c].alvo /\ n.dados = tx[c].dados
  BY <1>1 DEF Chamado, Op
<1>3. Chamado(n)
  BY <1>1 DEF Chamado, Op
<1> HIDE DEF n
<1>4. ChamadasOK' /\ tx'[c] = n /\ \A b \in Chamadas \ {c} : tx'[b] = tx[b]
  BY <1>3, Substitui DEF n
<1> QED BY <1>2, <1>4

\* The same, when only the step changes.
LEMMA Anda ==
    ASSUME ChamadasOK, NEW c \in Chamadas, NEW s, Ir(c, s),
           \/ Op(c, "receber") /\ s \in {"itens", "reivindicar", "entrar"}
           \/ tx[c].op \in {"transferir", "importar"} /\ s \in {"travar", "conferir", "gravar"}
    PROVE  /\ ChamadasOK'
           /\ tx'[c].passo = s /\ tx'[c].feitos = tx[c].feitos
           /\ tx'[c].op = tx[c].op /\ tx'[c].alvo = tx[c].alvo /\ tx'[c].dados = tx[c].dados
           /\ \A b \in Chamadas \ {c} : tx'[b] = tx[b]
<1> DEFINE n == [tx[c] EXCEPT !.passo = s]
<1>1. Chamado(tx[c])
  BY DEF ChamadasOK
<1>2. /\ n.passo = s /\ n.feitos = tx[c].feitos
      /\ n.op = tx[c].op /\ n.alvo = tx[c].alvo /\ n.dados = tx[c].dados
  BY <1>1 DEF Chamado, Op
<1>3. Chamado(n)
  BY <1>1 DEF Chamado, Op
<1>4. tx' = [tx EXCEPT ![c] = n]
  BY DEF Ir
<1> HIDE DEF n
<1>5. ChamadasOK' /\ tx'[c] = n /\ \A b \in Chamadas \ {c} : tx'[b] = tx[b]
  BY <1>3, <1>4, Substitui
<1> QED BY <1>2, <1>5

-----------------------------------------------------------------------------
(* The inductive invariant. *)

\* The rows that the call at key's table may be looked up in.
ChaveDe(c) == (IF Op(c, "transferir") THEN transferencia ELSE importacao)[tx[c].alvo]

\* What holds of a call at each step:
\*   whoever looks up a key or writes it holds the company's row, and the key that the writer
\*   found unused, and the clients it found unregistered, are so still;
\*   a receber has seen its order sent, and no order is ever a draft again, so the items it
\*   reads are the ones the order keeps; while it holds the order's row the order is sent;
\*   a transfer has two ends.
ChamadaInd(c) ==
    /\ tx[c].passo \in {"conferir", "gravar"} => trava = c
    /\ Em(c, "gravar") => ChaveDe(c) = Nada
    /\ Em(c, "gravar") /\ Op(c, "importar") => \A i \in tx[c].feitos : importados[i] = 0
    /\ Op(c, "receber") =>
         /\ pedido[tx[c].alvo].status \in {"ENVIADO", "RECEBIDO", "CANCELADO"}
         /\ tx[c].passo \in {"reivindicar", "entrar"} => tx[c].dados = pedido[tx[c].alvo].itens
         /\ Em(c, "entrar") => pedido[tx[c].alvo].status = "ENVIADO"
    /\ Op(c, "transferir") => tx[c].dados.origem # tx[c].dados.destino

\* An order's row is held by one receber at a time.
UmPorPedido == \A b, c \in Chamadas :
    b # c /\ Em(b, "entrar") /\ Em(c, "entrar") => tx[b].alvo # tx[c].alvo

SuprimentosInd ==
    /\ LinhasOK
    /\ trava \in Chamadas \cup {Nada}
    /\ ChamadasOK
    /\ \A c \in Chamadas : ChamadaInd(c)
    /\ UmPorPedido
    /\ NinguemDuasVezes
    /\ EstoqueExplicado

\* A call that the step leaves alone keeps what held of it, if the step leaves alone the rows
\* that the call relies on at its step.
LEMMA Outra ==
    ASSUME NEW b \in Chamadas, ChamadaInd(b), tx'[b] = tx[b],
           tx[b].passo \in {"conferir", "gravar"} =>
             /\ trava' = trava /\ transferencia' = transferencia
             /\ importacao' = importacao /\ importados' = importados,
           Op(b, "receber") =>
             /\ pedido'[tx[b].alvo].itens = pedido[tx[b].alvo].itens
             /\ \/ pedido'[tx[b].alvo].status = pedido[tx[b].alvo].status
                \/ /\ ~Em(b, "entrar")
                   /\ pedido'[tx[b].alvo].status \in {"RECEBIDO", "CANCELADO"}
    PROVE  ChamadaInd(b)'
<1>1. (tx[b].passo \in {"conferir", "gravar"} => trava = b)'
  BY DEF ChamadaInd
<1>2. (Em(b, "gravar") => ChaveDe(b) = Nada)'
  BY DEF ChamadaInd, ChaveDe, Em, Op
<1>3. (Em(b, "gravar") /\ Op(b, "importar") => \A i \in tx[b].feitos : importados[i] = 0)'
  BY DEF ChamadaInd, Em, Op
<1>4. (Op(b, "receber") =>
         /\ pedido[tx[b].alvo].status \in {"ENVIADO", "RECEBIDO", "CANCELADO"}
         /\ tx[b].passo \in {"reivindicar", "entrar"} => tx[b].dados = pedido[tx[b].alvo].itens
         /\ Em(b, "entrar") => pedido[tx[b].alvo].status = "ENVIADO")'
  BY DEF ChamadaInd, Em, Op
<1>5. (Op(b, "transferir") => tx[b].dados.origem # tx[b].dados.destino)'
  BY DEF ChamadaInd, Op
<1> QED BY <1>1, <1>2, <1>3, <1>4, <1>5 DEF ChamadaInd

\* An idle call satisfies it.
LEMMA OciosaInd ==
    ASSUME NEW c \in Chamadas, tx'[c] = Ociosa
    PROVE  ChamadaInd(c)'
BY DEF ChamadaInd, Ociosa, Em, Op

\* The row of the company is not the leaver's, for anyone who relies on it.
LEMMA SairTrava ==
    ASSUME NEW c \in Chamadas, NEW b \in Chamadas \ {c}, ChamadaInd(b), Sair(c),
           tx[b].passo \in {"conferir", "gravar"}
    PROVE  trava' = trava
BY DEF ChamadaInd, Sair

\* Nothing that the stock is explained by has changed.
LEMMA EstoqueQuieto ==
    ASSUME EstoqueExplicado, saldo' = saldo, manual' = manual, transferencia' = transferencia,
           \A d \in Pedidos, p \in Produtos : Trazido(p, d)' = Trazido(p, d)
    PROVE  EstoqueExplicado'
<1>1. \A p \in Produtos : Comprado(p)' = Comprado(p)
  BY DEF Comprado
<1>2. \A e \in Estantes : Transferido(e)' = Transferido(e)
  BY DEF Transferido
<1>3. \A e \in Estantes : e[2] \in Produtos
  BY DEF Estantes
<1> QED BY <1>1, <1>2, <1>3 DEF EstoqueExplicado

\* Whoever enters is alone on its order after a step in which no call begins to enter.
LEMMA UmPorPedidoQuieto ==
    ASSUME UmPorPedido,
           \A b \in Chamadas : tx'[b].passo = "entrar" =>
             Em(b, "entrar") /\ tx'[b].alvo = tx[b].alvo
    PROVE  UmPorPedido'
BY DEF UmPorPedido, Em

-----------------------------------------------------------------------------
(* One lemma per action: the step keeps the invariant. *)

LEMMA PassoCriar ==
    ASSUME SuprimentosInd, NEW d \in Pedidos, Criar(d)
    PROVE  SuprimentosInd'
<1> USE DEF SuprimentosInd
<1>1. PICK i \in ItensValidos :
        pedido' = [pedido EXCEPT ![d] = [status |-> "RASCUNHO", itens |-> i]]
  BY DEF Criar
<1>2. i \in Itens
  BY DEF ItensValidos
<1>3. UNCHANGED <<estoque, registros, trava, tx>> /\ pedido[d].status = "nenhum"
  BY DEF Criar
<1>4. LinhasOK'
  BY <1>1, <1>2, <1>3 DEF LinhasOK, estoque, registros, Status
<1>5. ChamadasOK' /\ trava' \in Chamadas \cup {Nada} /\ NinguemDuasVezes' /\ UmPorPedido'
  BY <1>3 DEF ChamadasOK, registros, NinguemDuasVezes, UmPorPedido, Em
<1>6. ASSUME NEW b \in Chamadas PROVE ChamadaInd(b)'
  <2>1. Op(b, "receber") => tx[b].alvo # d /\ tx[b].alvo \in Pedidos
    BY <1>3 DEF ChamadaInd, ChamadasOK, Chamado, Op
  <2>2. Op(b, "receber") => pedido'[tx[b].alvo] = pedido[tx[b].alvo]
    BY <1>1, <2>1 DEF LinhasOK
  <2> QED BY <1>3, <2>2, Outra DEF registros
<1>7. ASSUME NEW e \in Pedidos, NEW p \in Produtos PROVE Trazido(p, e)' = Trazido(p, e)
  BY <1>1, <1>3 DEF Trazido, LinhasOK
<1>8. EstoqueExplicado'
  BY <1>3, <1>7, EstoqueQuieto DEF estoque, registros
<1> QED BY <1>4, <1>5, <1>6, <1>8

LEMMA PassoObter ==
    ASSUME SuprimentosInd, NEW c \in Chamadas, Obter(c)
    PROVE  SuprimentosInd'
<1> USE DEF SuprimentosInd
<1>0. PICK d \in Pedidos, o \in DOMAIN De :
        /\ pedido[d].status \in De[o]
        /\ \E i \in IF o = "atualizar" THEN ItensValidos ELSE {Nada} :
             tx' = [tx EXCEPT ![c] =
                      [Ociosa EXCEPT !.passo = IF o = "receber" THEN "itens" ELSE "reivindicar",
                                     !.op = o, !.alvo = d, !.dados = i]]
  BY DEF Obter
<1>1. PICK i \in IF o = "atualizar" THEN ItensValidos ELSE {Nada} :
        tx' = [tx EXCEPT ![c] =
                    [Ociosa EXCEPT !.passo = IF o = "receber" THEN "itens" ELSE "reivindicar",
                                   !.op = o, !.alvo = d, !.dados = i]]
  BY <1>0
<1>2. Em(c, "fora") /\ UNCHANGED <<estoque, pedido, registros, trava>>
  BY DEF Obter
<1> DEFINE n == [Ociosa EXCEPT !.passo = IF o = "receber" THEN "itens" ELSE "reivindicar",
                               !.op = o, !.alvo = d, !.dados = i]
<1>3. /\ n.passo = IF o = "receber" THEN "itens" ELSE "reivindicar"
      /\ n.op = o /\ n.alvo = d /\ n.dados = i /\ n.feitos = {}
  BY DEF Ociosa
<1>4. o \in {"atualizar", "enviar", "receber", "cancelar"}
  BY DEF De
<1>5. Chamado(n)
  BY <1>4 DEF Chamado, Ociosa, ItensValidos
<1>6. o = "receber" => pedido[d].status = "ENVIADO"
  BY <1>0 DEF De
<1>7. tx' = [tx EXCEPT ![c] = n]
  BY <1>1
<1> HIDE DEF n
<1>8. ChamadasOK' /\ tx'[c] = n /\ \A b \in Chamadas \ {c} : tx'[b] = tx[b]
  BY <1>5, <1>7, Substitui
<1>9. LinhasOK' /\ trava' \in Chamadas \cup {Nada} /\ NinguemDuasVezes'
  BY <1>2 DEF LinhasOK, estoque, registros, NinguemDuasVezes
<1>10. UmPorPedido'
  BY <1>3, <1>8, UmPorPedidoQuieto DEF Em
<1>11. ChamadaInd(c)'
  BY <1>2, <1>3, <1>4, <1>6, <1>8 DEF ChamadaInd, Em, Op
<1>12. ASSUME NEW b \in Chamadas \ {c} PROVE ChamadaInd(b)'
  BY <1>2, <1>8, Outra DEF registros
<1>13. EstoqueExplicado'
  BY <1>2, EstoqueQuieto DEF estoque, registros, Trazido
<1> QED BY <1>8, <1>9, <1>10, <1>11, <1>12, <1>13

LEMMA PassoLerItens ==
    ASSUME SuprimentosInd, NEW c \in Chamadas, LerItens(c)
    PROVE  SuprimentosInd'
<1> USE DEF SuprimentosInd
<1>1. Em(c, "itens") /\ UNCHANGED <<estoque, pedido, registros, trava>>
  BY DEF LerItens
<1>2. Chamado(tx[c])
  BY DEF ChamadasOK
<1>3. Op(c, "receber") /\ tx[c].alvo \in Pedidos
  BY <1>1, <1>2 DEF Chamado, Em, Op, Ociosa
<1> DEFINE n == [tx[c] EXCEPT !.passo = "reivindicar", !.dados = pedido[tx[c].alvo].itens]
<1>4. /\ n.passo = "reivindicar" /\ n.dados = pedido[tx[c].alvo].itens
      /\ n.op = "receber" /\ n.alvo = tx[c].alvo /\ n.feitos = tx[c].feitos
  BY <1>2, <1>3 DEF Chamado, Op
<1>5. pedido[tx[c].alvo].itens \in Itens \cup {Nenhum}
  BY <1>3 DEF LinhasOK
<1>6. Chamado(n)
  BY <1>2, <1>3, <1>5 DEF Chamado, Op
<1>7. tx' = [tx EXCEPT ![c] = n]
  BY DEF LerItens
<1> HIDE DEF n
<1>8. ChamadasOK' /\ tx'[c] = n /\ \A b \in Chamadas \ {c} : tx'[b] = tx[b]
  BY <1>6, <1>7, Substitui
<1>9. LinhasOK' /\ trava' \in Chamadas \cup {Nada} /\ NinguemDuasVezes'
  BY <1>1 DEF LinhasOK, estoque, registros, NinguemDuasVezes
<1>10. UmPorPedido'
  BY <1>4, <1>8, UmPorPedidoQuieto DEF Em
<1>11. ChamadaInd(c)'
  BY <1>1, <1>3, <1>4, <1>8 DEF ChamadaInd, Em, Op
<1>12. ASSUME NEW b \in Chamadas \ {c} PROVE ChamadaInd(b)'
  BY <1>1, <1>8, Outra DEF registros
<1>13. EstoqueExplicado'
  BY <1>1, EstoqueQuieto DEF estoque, registros, Trazido
<1> QED BY <1>8, <1>9, <1>10, <1>11, <1>12, <1>13

LEMMA PassoAtualizar ==
    ASSUME SuprimentosInd, NEW c \in Chamadas, Atualizar(c)
    PROVE  SuprimentosInd'
<1> USE DEF SuprimentosInd
<1> DEFINE d == tx[c].alvo
<1>1. /\ Op(c, "atualizar") /\ pedido[d].status \in De[tx[c].op] /\ Sair(c)
      /\ pedido' = [pedido EXCEPT ![d] = [status |-> "RASCUNHO", itens |-> tx[c].dados]]
      /\ UNCHANGED <<estoque, registros>>
  BY DEF Atualizar, PodeReivindicar
<1>2. d \in Pedidos /\ tx[c].dados \in Itens
  BY <1>1 DEF ChamadasOK, Chamado, Op
<1>3. pedido[d].status = "RASCUNHO"
  BY <1>1 DEF De, Op
<1> HIDE DEF d
<1>4. /\ ChamadasOK' /\ trava' \in Chamadas \cup {Nada} /\ tx'[c] = Ociosa
      /\ \A b \in Chamadas \ {c} : tx'[b] = tx[b]
  BY <1>1, Saida
<1>5. LinhasOK' /\ NinguemDuasVezes'
  BY <1>1, <1>2 DEF LinhasOK, estoque, registros, Status, NinguemDuasVezes
<1>6. UmPorPedido'
  BY <1>4, UmPorPedidoQuieto DEF Em, Ociosa
<1>7. ASSUME NEW b \in Chamadas \ {c} PROVE ChamadaInd(b)'
  <2>1. Op(b, "receber") => tx[b].alvo # d /\ tx[b].alvo \in Pedidos
    BY <1>3 DEF ChamadaInd, ChamadasOK, Chamado, Op
  <2>2. Op(b, "receber") => pedido'[tx[b].alvo] = pedido[tx[b].alvo]
    BY <1>1, <2>1 DEF LinhasOK
  <2>3. tx[b].passo \in {"conferir", "gravar"} => trava' = trava
    BY <1>1, SairTrava
  <2> QED BY <1>1, <1>4, <2>2, <2>3, Outra DEF registros
<1>8. ASSUME NEW e \in Pedidos, NEW p \in Produtos PROVE Trazido(p, e)' = Trazido(p, e)
  BY <1>1, <1>3 DEF Trazido, LinhasOK
<1>9. EstoqueExplicado'
  BY <1>1, <1>8, EstoqueQuieto DEF estoque, registros
<1> QED BY <1>4, <1>5, <1>6, <1>7, <1>9, OciosaInd

LEMMA PassoMudar ==
    ASSUME SuprimentosInd, NEW c \in Chamadas, Mudar(c)
    PROVE  SuprimentosInd'
<1> USE DEF SuprimentosInd
<1> DEFINE d == tx[c].alvo
<1>1. /\ tx[c].op \in {"enviar", "cancelar"} /\ PedidoLivre(d)
      /\ pedido[d].status \in De[tx[c].op] /\ Sair(c)
      /\ pedido' = [pedido EXCEPT ![d].status = Para[tx[c].op]]
      /\ UNCHANGED <<estoque, registros>>
  BY DEF Mudar, PodeReivindicar
<1>2. d \in Pedidos
  BY <1>1 DEF ChamadasOK, Chamado
<1>3. \/ pedido[d].status = "RASCUNHO" /\ Para[tx[c].op] \in {"ENVIADO", "CANCELADO"}
      \/ pedido[d].status \in {"ENVIADO", "CANCELADO"} /\ Para[tx[c].op] = "CANCELADO"
  BY <1>1 DEF De, Para
<1>4. /\ pedido'[d].status = Para[tx[c].op] /\ pedido'[d].itens = pedido[d].itens
      /\ \A e \in Pedidos \ {d} : pedido'[e] = pedido[e]
  BY <1>1, <1>2 DEF LinhasOK
<1> HIDE DEF d
<1>5. /\ ChamadasOK' /\ trava' \in Chamadas \cup {Nada} /\ tx'[c] = Ociosa
      /\ \A b \in Chamadas \ {c} : tx'[b] = tx[b]
  BY <1>1, Saida
<1>6. LinhasOK' /\ NinguemDuasVezes'
  BY <1>1, <1>2, <1>3 DEF LinhasOK, estoque, registros, Status, NinguemDuasVezes
<1>7. UmPorPedido'
  BY <1>5, UmPorPedidoQuieto DEF Em, Ociosa
<1>8. ASSUME NEW b \in Chamadas \ {c} PROVE ChamadaInd(b)'
  <2>1. Op(b, "receber") => tx[b].alvo \in Pedidos
    BY DEF ChamadasOK, Chamado, Op
  <2>2. Op(b, "receber") =>
          /\ pedido'[tx[b].alvo].itens = pedido[tx[b].alvo].itens
          /\ \/ pedido'[tx[b].alvo].status = pedido[tx[b].alvo].status
             \/ /\ ~Em(b, "entrar")
                /\ pedido'[tx[b].alvo].status \in {"RECEBIDO", "CANCELADO"}
    <3>1. CASE tx[b].alvo # d
      BY <1>4, <2>1, <3>1
    <3>2. CASE tx[b].alvo = d
      <4>1. ~Em(b, "entrar")
        BY <1>1, <3>2 DEF PedidoLivre
      <4>2. Op(b, "receber") => pedido[d].status # "RASCUNHO"
        BY <3>2 DEF ChamadaInd
      <4> QED BY <1>3, <1>4, <3>2, <4>1, <4>2
    <3> QED BY <3>1, <3>2
  <2>3. tx[b].passo \in {"conferir", "gravar"} => trava' = trava
    BY <1>1, SairTrava
  <2> QED BY <1>1, <1>5, <2>2, <2>3, Outra DEF registros
<1>9. ASSUME NEW e \in Pedidos, NEW p \in Produtos PROVE Trazido(p, e)' = Trazido(p, e)
  BY <1>3, <1>4 DEF Trazido
<1>10. EstoqueExplicado'
  BY <1>1, <1>9, EstoqueQuieto DEF estoque, registros
<1> QED BY <1>5, <1>6, <1>7, <1>8, <1>10, OciosaInd

LEMMA PassoReivindicar ==
    ASSUME SuprimentosInd, NEW c \in Chamadas, Reivindicar(c)
    PROVE  SuprimentosInd'
<1> USE DEF SuprimentosInd
<1> DEFINE d == tx[c].alvo
<1>1. /\ Op(c, "receber") /\ Em(c, "reivindicar") /\ PedidoLivre(d) /\ Ir(c, "entrar")
      /\ pedido[d].status \in De[tx[c].op]
      /\ UNCHANGED <<estoque, pedido, registros, trava>>
  BY DEF Reivindicar, PodeReivindicar
<1>2. pedido[d].status = "ENVIADO"
  BY <1>1 DEF De, Op
<1>3. /\ ChamadasOK'
      /\ tx'[c].passo = "entrar" /\ tx'[c].feitos = tx[c].feitos
      /\ tx'[c].op = tx[c].op /\ tx'[c].alvo = d /\ tx'[c].dados = tx[c].dados
      /\ \A b \in Chamadas \ {c} : tx'[b] = tx[b]
  BY <1>1, Anda
<1>4. LinhasOK' /\ trava' \in Chamadas \cup {Nada} /\ NinguemDuasVezes'
  BY <1>1 DEF LinhasOK, estoque, registros, NinguemDuasVezes
<1>5. \A b \in Chamadas \ {c} : tx'[b].passo = "entrar" => tx'[b].alvo # d
  BY <1>1, <1>3 DEF PedidoLivre, Em
<1> HIDE DEF d
<1>6. UmPorPedido'
  BY <1>3, <1>5 DEF UmPorPedido, Em
<1>7. ChamadaInd(c)'
  BY <1>1, <1>2, <1>3 DEF ChamadaInd, Em, Op, d
<1>8. ASSUME NEW b \in Chamadas \ {c} PROVE ChamadaInd(b)'
  BY <1>1, <1>3, Outra DEF registros
<1>9. EstoqueExplicado'
  BY <1>1, EstoqueQuieto DEF estoque, registros, Trazido
<1> QED BY <1>3, <1>4, <1>6, <1>7, <1>8, <1>9

LEMMA PassoEntrarItem ==
    ASSUME SuprimentosInd, NEW c \in Chamadas, EntrarItem(c)
    PROVE  SuprimentosInd'
<1> USE DEF SuprimentosInd
<1>1. PICK p \in ativo \ tx[c].feitos :
        /\ Em(c, "entrar")
        /\ tx' = [tx EXCEPT ![c].feitos = @ \cup {p}]
        /\ UNCHANGED <<estoque, pedido, registros, trava>>
  BY DEF EntrarItem
<1>2. Chamado(tx[c]) /\ ativo \subseteq Produtos
  BY DEF ChamadasOK, LinhasOK
<1>3. Op(c, "receber") /\ tx[c].feitos \subseteq Produtos
  BY <1>1, <1>2 DEF Chamado, Em, Op, Ociosa
<1> DEFINE f == tx[c].feitos \cup {p}
           n == [tx[c] EXCEPT !.passo = "entrar", !.feitos = f]
<1>4. [tx[c] EXCEPT !.feitos = f] = n
  BY <1>1, <1>2, <1>3 DEF Chamado, Em, Op
<1>5. tx' = [tx EXCEPT ![c] = n]
  BY <1>1, <1>4
<1>6. f \in SUBSET Produtos
  BY <1>2, <1>3
<1>7. /\ ChamadasOK'
      /\ tx'[c].passo = "entrar"
      /\ tx'[c].op = tx[c].op /\ tx'[c].alvo = tx[c].alvo /\ tx'[c].dados = tx[c].dados
      /\ \A b \in Chamadas \ {c} : tx'[b] = tx[b]
  <2> HIDE DEF f
  <2> QED BY <1>3, <1>5, <1>6, Prossegue
<1> HIDE DEF n, f
<1>8. LinhasOK' /\ trava' \in Chamadas \cup {Nada} /\ NinguemDuasVezes'
  BY <1>1 DEF LinhasOK, estoque, registros, NinguemDuasVezes
<1>9. UmPorPedido'
  BY <1>1, <1>7, UmPorPedidoQuieto DEF Em
<1>10. ChamadaInd(c)'
  BY <1>1, <1>3, <1>7 DEF ChamadaInd, Em, Op
<1>11. ASSUME NEW b \in Chamadas \ {c} PROVE ChamadaInd(b)'
  BY <1>1, <1>7, Outra DEF registros
<1>12. EstoqueExplicado'
  BY <1>1, EstoqueQuieto DEF estoque, registros, Trazido
<1> QED BY <1>7, <1>8, <1>9, <1>10, <1>11, <1>12

\* What the received orders brought of a product is an integer.
LEMMA CompradoInteiro ==
    ASSUME LinhasOK, NEW p \in Produtos
    PROVE  Comprado(p) \in Int
<1> DEFINE f == [d \in Pedidos |-> Trazido(p, d)]
<1>1. \A d \in Pedidos : f[d] \in Int
  BY SuprimentosAssumption DEF LinhasOK, Itens, Nenhum, Trazido
<1>2. Comprado(p) = SumFunction(f) /\ DOMAIN f = Pedidos
  BY DEF Comprado
<1> HIDE DEF f
<1>3. Comprado(p) = Soma(f, Pedidos)
  BY <1>2, SomaFuncao
<1> QED BY <1>1, <1>3, SomaInteira, SuprimentosAssumption

\* When one order changes, what the orders brought moves by what that one brings.
LEMMA CompradoMuda ==
    ASSUME LinhasOK, LinhasOK', NEW d \in Pedidos, NEW p \in Produtos,
           \A e \in Pedidos \ {d} : Trazido(p, e)' = Trazido(p, e)
    PROVE  Comprado(p)' = Comprado(p) - Trazido(p, d) + Trazido(p, d)'
<1> DEFINE f == [e \in Pedidos |-> Trazido(p, e)]
           g == [e \in Pedidos |-> Trazido(p, e)']
<1>1. \A e \in Pedidos : pedido[e].itens[p] \in Int /\ pedido'[e].itens[p] \in Int
  BY SuprimentosAssumption DEF LinhasOK, Itens, Nenhum
<1>2. \A e \in Pedidos : Trazido(p, e) \in Int /\ Trazido(p, e)' \in Int
  BY <1>1 DEF Trazido
<1>3. /\ \A e \in Pedidos : f[e] = Trazido(p, e) /\ g[e] = Trazido(p, e)'
      /\ DOMAIN f = Pedidos /\ DOMAIN g = Pedidos
  OBVIOUS
<1>4. Comprado(p) = SumFunction(f) /\ Comprado(p)' = SumFunction(g)
  BY DEF Comprado
<1> HIDE DEF f, g
<1>5. Comprado(p) = Soma(f, Pedidos) /\ Comprado(p)' = Soma(g, Pedidos)
  BY <1>3, <1>4, SomaFuncao
<1>6. IsFiniteSet(Pedidos)
  BY SuprimentosAssumption
<1>7. Soma(g, Pedidos) = Soma(f, Pedidos) - f[d] + g[d]
  BY <1>2, <1>3, <1>6, SomaMuda
<1> QED BY <1>3, <1>5, <1>7

\* What the transfers on record took to a shelf is an integer.
LEMMA TransferidoInteiro ==
    ASSUME LinhasOK, NEW e \in Estantes
    PROVE  Transferido(e) \in Int
<1> DEFINE f == [j \in Chaves |-> Levado(e, transferencia[j])]
<1>1. \A t \in Transferencias \cup {Nada} : Levado(e, t) \in Int
  BY SuprimentosAssumption DEF Levado, Transferencias
<1>2. \A j \in Chaves : f[j] \in Int
  BY <1>1 DEF LinhasOK
<1>3. Transferido(e) = SumFunction(f) /\ DOMAIN f = Chaves
  BY DEF Transferido
<1> HIDE DEF f
<1>4. Transferido(e) = Soma(f, Chaves)
  BY <1>3, SomaFuncao
<1> QED BY <1>2, <1>4, SomaInteira, SuprimentosAssumption

\* When one key's transfer changes, the same of what the transfers took.
LEMMA TransferidoMuda ==
    ASSUME LinhasOK, LinhasOK', NEW k \in Chaves, NEW e \in Estantes,
           \A j \in Chaves \ {k} : transferencia'[j] = transferencia[j]
    PROVE  Transferido(e)' = Transferido(e) - Levado(e, transferencia[k])
                                            + Levado(e, transferencia'[k])
<1> DEFINE f == [j \in Chaves |-> Levado(e, transferencia[j])]
           g == [j \in Chaves |-> Levado(e, transferencia'[j])]
<1>1. \A t \in Transferencias \cup {Nada} : Levado(e, t) \in Int
  BY SuprimentosAssumption DEF Levado, Transferencias
<1>2. \A j \in Chaves : transferencia[j] \in Transferencias \cup {Nada}
                     /\ transferencia'[j] \in Transferencias \cup {Nada}
  BY DEF LinhasOK
<1>3. /\ \A j \in Chaves : f[j] = Levado(e, transferencia[j]) /\ g[j] = Levado(e, transferencia'[j])
      /\ DOMAIN f = Chaves /\ DOMAIN g = Chaves
  OBVIOUS
<1>4. Transferido(e) = SumFunction(f) /\ Transferido(e)' = SumFunction(g)
  BY DEF Transferido
<1> HIDE DEF f, g
<1>5. Transferido(e) = Soma(f, Chaves) /\ Transferido(e)' = Soma(g, Chaves)
  BY <1>3, <1>4, SomaFuncao
<1>6. IsFiniteSet(Chaves)
  BY SuprimentosAssumption
<1>7. \A j \in Chaves : f[j] \in Int /\ g[j] \in Int
  BY <1>1, <1>2, <1>3
<1>8. \A j \in Chaves \ {k} : f[j] = g[j]
  BY <1>3
<1>9. Soma(g, Chaves) = Soma(f, Chaves) - f[k] + g[k]
  BY <1>6, <1>7, <1>8, SomaMuda
<1> QED BY <1>3, <1>5, <1>9

LEMMA PassoReceber ==
    ASSUME SuprimentosInd, NEW c \in Chamadas, Receber(c)
    PROVE  SuprimentosInd'
<1> USE DEF SuprimentosInd
<1>0. Op(c, "receber") /\ tx[c].alvo \in Pedidos
  BY DEF Receber, ChamadasOK, Chamado, Em, Op, Ociosa
<1> PICK d \in Pedidos : d = tx[c].alvo
  BY <1>0
<1>1. /\ Em(c, "entrar") /\ Sair(c)
      /\ saldo' = [e \in Estantes |->
                     saldo[e] + (IF e[1] = Central THEN tx[c].dados[e[2]] ELSE 0)]
      /\ pedido' = [pedido EXCEPT ![d].status = "RECEBIDO"]
      /\ UNCHANGED <<ativo, aberta, manual, registros>>
  BY DEF Receber
<1>3. pedido[d].status = "ENVIADO" /\ tx[c].dados = pedido[d].itens
  BY <1>0, <1>1 DEF ChamadaInd, Em
<1>4. /\ pedido'[d].status = "RECEBIDO" /\ pedido'[d].itens = pedido[d].itens
      /\ \A e \in Pedidos \ {d} : pedido'[e] = pedido[e]
  BY <1>1 DEF LinhasOK
<1>5. /\ ChamadasOK' /\ trava' \in Chamadas \cup {Nada} /\ tx'[c] = Ociosa
      /\ \A b \in Chamadas \ {c} : tx'[b] = tx[b]
  BY <1>1, Saida
<1>6. \A p \in Produtos : pedido[d].itens[p] \in Int
  BY SuprimentosAssumption DEF LinhasOK, Itens, Nenhum
<1>7. LinhasOK'
  <2>1. saldo' \in [Estantes -> Int]
    BY <1>1, <1>3, <1>6 DEF LinhasOK, Estantes
  <2>2. pedido' \in [Pedidos -> [status : Status \cup {"nenhum"}, itens : Itens \cup {Nenhum}]]
    BY <1>1 DEF LinhasOK, Status
  <2> QED BY <1>1, <2>1, <2>2 DEF LinhasOK, registros
<1>8. UmPorPedido' /\ NinguemDuasVezes'
  BY <1>1, <1>5, UmPorPedidoQuieto DEF Em, Ociosa, NinguemDuasVezes, registros
<1>9. ASSUME NEW b \in Chamadas \ {c} PROVE ChamadaInd(b)'
  <2>1. Op(b, "receber") => tx[b].alvo \in Pedidos
    BY DEF ChamadasOK, Chamado, Op
  <2>2. Em(b, "entrar") => tx[b].alvo # d
    BY <1>1 DEF UmPorPedido
  <2>3. tx[b].passo \in {"conferir", "gravar"} => trava' = trava
    BY <1>1, SairTrava
  <2> QED BY <1>1, <1>4, <1>5, <2>1, <2>2, <2>3, Outra DEF registros
<1>10. ASSUME NEW e \in Estantes
       PROVE  saldo'[e] = SaldoInicial[e] + Transferido(e)'
                          + (IF e[1] = Central THEN manual'[e[2]] + Comprado(e[2])' ELSE 0)
  <2> DEFINE p == e[2]
  <2>1. p \in Produtos
    BY DEF Estantes
  <2>2. Transferido(e)' = Transferido(e)
    BY <1>1 DEF Transferido, registros
  <2>3. Trazido(p, d) = 0 /\ Trazido(p, d)' = pedido[d].itens[p]
    BY <1>3, <1>4 DEF Trazido
  <2>4. \A a \in Pedidos \ {d} : Trazido(p, a)' = Trazido(p, a)
    BY <1>4 DEF Trazido
  <2>5. /\ Comprado(p) \in Int
        /\ Comprado(p)' = Comprado(p) - Trazido(p, d) + Trazido(p, d)'
    <3> HIDE DEF p
    <3> QED BY <1>7, <2>1, <2>4, CompradoMuda, CompradoInteiro
  <2>6. saldo[e] = SaldoInicial[e] + Transferido(e)
                   + (IF e[1] = Central THEN manual[p] + Comprado(p) ELSE 0)
    BY DEF EstoqueExplicado
  <2>7. saldo'[e] = saldo[e] + (IF e[1] = Central THEN pedido[d].itens[p] ELSE 0)
    BY <1>1, <1>3
  <2>9. /\ saldo[e] \in Int /\ SaldoInicial[e] \in Int /\ manual[p] \in Int /\ manual' = manual
        /\ pedido[d].itens[p] \in Int
    BY <1>1, <1>6, <2>1, SuprimentosAssumption DEF LinhasOK
  <2>10. Transferido(e) \in Int
    BY TransferidoInteiro
  <2> HIDE DEF p
  <2>11. CASE e[1] = Central
    BY <2>2, <2>3, <2>5, <2>6, <2>7, <2>9, <2>10, <2>11 DEF p
  <2>12. CASE e[1] # Central
    BY <2>2, <2>6, <2>7, <2>9, <2>10, <2>12
  <2> QED BY <2>11, <2>12
<1>11. EstoqueExplicado'
  BY <1>10 DEF EstoqueExplicado
<1> QED BY <1>5, <1>7, <1>8, <1>9, <1>11, OciosaInd

LEMMA PassoPedir ==
    ASSUME SuprimentosInd, NEW c \in Chamadas, Pedir(c)
    PROVE  SuprimentosInd'
<1> USE DEF SuprimentosInd
<1>1. PICK n :
        /\ tx' = [tx EXCEPT ![c] = n]
        /\ \/ \E k \in Chaves, f \in Transferencias : f.origem # f.destino /\
                n = [passo |-> "travar", op |-> "transferir", alvo |-> k, dados |-> f,
                     feitos |-> {}]
           \/ \E k \in Envios, a \in Arquivos :
                n = [passo |-> "travar", op |-> "importar", alvo |-> k, dados |-> a,
                     feitos |-> {}]
  BY DEF Pedir
<1>2. UNCHANGED <<estoque, pedido, registros, trava>>
  BY DEF Pedir
<1>3. Chamado(n)
  BY <1>1 DEF Chamado
<1>4. /\ n.passo = "travar" /\ n.op \in {"transferir", "importar"}
      /\ n.op = "transferir" => n.dados.origem # n.dados.destino
  BY <1>1
<1>5. ChamadasOK' /\ tx'[c] = n /\ \A b \in Chamadas \ {c} : tx'[b] = tx[b]
  BY <1>1, <1>3, Substitui
<1>6. LinhasOK' /\ trava' \in Chamadas \cup {Nada} /\ NinguemDuasVezes'
  BY <1>2 DEF LinhasOK, estoque, registros, NinguemDuasVezes
<1>7. UmPorPedido'
  BY <1>4, <1>5, UmPorPedidoQuieto DEF Em
<1>8. ChamadaInd(c)'
  BY <1>4, <1>5 DEF ChamadaInd, Em, Op
<1>9. ASSUME NEW b \in Chamadas \ {c} PROVE ChamadaInd(b)'
  BY <1>2, <1>5, Outra DEF registros
<1>10. EstoqueExplicado'
  BY <1>2, EstoqueQuieto DEF estoque, registros, Trazido
<1> QED BY <1>5, <1>6, <1>7, <1>8, <1>9, <1>10

LEMMA PassoTravar ==
    ASSUME SuprimentosInd, NEW c \in Chamadas, Travar(c)
    PROVE  SuprimentosInd'
<1> USE DEF SuprimentosInd
<1>1. /\ Em(c, "travar") /\ trava = Nada /\ trava' = c /\ Ir(c, "conferir")
      /\ UNCHANGED <<estoque, pedido, registros>>
  BY DEF Travar
<1>2. tx[c].op \in {"transferir", "importar"}
  BY <1>1 DEF ChamadasOK, Chamado, Em, Ociosa
<1>3. /\ ChamadasOK'
      /\ tx'[c].passo = "conferir" /\ tx'[c].op = tx[c].op /\ tx'[c].dados = tx[c].dados
      /\ \A b \in Chamadas \ {c} : tx'[b] = tx[b]
  BY <1>1, <1>2, Anda
<1>4. LinhasOK' /\ trava' \in Chamadas \cup {Nada} /\ NinguemDuasVezes'
  BY <1>1 DEF LinhasOK, estoque, registros, NinguemDuasVezes
<1>5. UmPorPedido'
  BY <1>3, UmPorPedidoQuieto DEF Em
<1>6. ChamadaInd(c)'
  BY <1>1, <1>2, <1>3 DEF ChamadaInd, Em, Op
<1>7. ASSUME NEW b \in Chamadas \ {c} PROVE ChamadaInd(b)'
  <2>1. tx[b].passo \notin {"conferir", "gravar"}
    BY <1>1, SuprimentosAssumption DEF ChamadaInd
  <2> QED BY <1>1, <1>3, <2>1, Outra DEF registros
<1>8. EstoqueExplicado'
  BY <1>1, EstoqueQuieto DEF estoque, registros, Trazido
<1> QED BY <1>3, <1>4, <1>5, <1>6, <1>7, <1>8

\* A call that ends and writes no row.
LEMMA PassoSair ==
    ASSUME SuprimentosInd, NEW c \in Chamadas, Sair(c), UNCHANGED <<estoque, pedido, registros>>
    PROVE  SuprimentosInd'
<1> USE DEF SuprimentosInd
<1>1. /\ ChamadasOK' /\ trava' \in Chamadas \cup {Nada} /\ tx'[c] = Ociosa
      /\ \A b \in Chamadas \ {c} : tx'[b] = tx[b]
  BY Saida
<1>2. LinhasOK' /\ NinguemDuasVezes'
  BY DEF LinhasOK, estoque, registros, NinguemDuasVezes
<1>3. UmPorPedido'
  BY <1>1, UmPorPedidoQuieto DEF Em, Ociosa
<1>4. ASSUME NEW b \in Chamadas \ {c} PROVE ChamadaInd(b)'
  <2>1. tx[b].passo \in {"conferir", "gravar"} => trava' = trava
    BY SairTrava
  <2> QED BY <1>1, <2>1, Outra DEF registros
<1>5. EstoqueExplicado'
  BY EstoqueQuieto DEF estoque, registros, Trazido
<1> QED BY <1>1, <1>2, <1>3, <1>4, <1>5, OciosaInd

LEMMA PassoConferirTransferencia ==
    ASSUME SuprimentosInd, NEW c \in Chamadas, ConferirTransferencia(c)
    PROVE  SuprimentosInd'
<1> USE DEF SuprimentosInd
<1>1. /\ Em(c, "conferir") /\ Op(c, "transferir") /\ transferencia[tx[c].alvo] = Nada
      /\ Ir(c, "gravar") /\ UNCHANGED <<estoque, pedido, registros, trava>>
  BY DEF ConferirTransferencia
<1>2. /\ ChamadasOK'
      /\ tx'[c].passo = "gravar" /\ tx'[c].op = tx[c].op /\ tx'[c].alvo = tx[c].alvo
      /\ tx'[c].dados = tx[c].dados
      /\ \A b \in Chamadas \ {c} : tx'[b] = tx[b]
  BY <1>1, Anda DEF Op
<1>3. LinhasOK' /\ trava' \in Chamadas \cup {Nada} /\ NinguemDuasVezes'
  BY <1>1 DEF LinhasOK, estoque, registros, NinguemDuasVezes
<1>4. UmPorPedido'
  BY <1>2, UmPorPedidoQuieto DEF Em
<1>5. ChamadaInd(c)'
  <2>1. trava = c /\ tx[c].dados.origem # tx[c].dados.destino
    BY <1>1 DEF ChamadaInd, Em
  <2>2. ChaveDe(c)' = Nada
    BY <1>1, <1>2 DEF ChaveDe, Op, registros
  <2> QED BY <1>1, <1>2, <2>1, <2>2 DEF ChamadaInd, Em, Op
<1>6. ASSUME NEW b \in Chamadas \ {c} PROVE ChamadaInd(b)'
  BY <1>1, <1>2, Outra DEF registros
<1>7. EstoqueExplicado'
  BY <1>1, EstoqueQuieto DEF estoque, registros, Trazido
<1> QED BY <1>2, <1>3, <1>4, <1>5, <1>6, <1>7

LEMMA PassoTransferir ==
    ASSUME SuprimentosInd, NEW c \in Chamadas, Transferir(c)
    PROVE  SuprimentosInd'
<1> USE DEF SuprimentosInd
<1>0. Op(c, "transferir") /\ tx[c].alvo \in Chaves /\ tx[c].dados \in Transferencias
  BY DEF Transferir, ChamadasOK, Chamado, Op
<1> PICK k \in Chaves, f \in Transferencias : k = tx[c].alvo /\ f = tx[c].dados
  BY <1>0
<1>1. /\ Em(c, "gravar") /\ Sair(c) /\ transferencia[k] = Nada
      /\ saldo' = [saldo EXCEPT ![<<f.origem, f.produto>>] = @ - f.quantidade,
                                ![<<f.destino, f.produto>>] = @ + f.quantidade]
      /\ transferencia' = [transferencia EXCEPT ![k] = f]
      /\ UNCHANGED <<ativo, aberta, manual, pedido, importacao, importados, inativos>>
  BY DEF Transferir
<1>2. trava = c /\ f.origem # f.destino
  BY <1>0, <1>1 DEF ChamadaInd, Em
<1>3. /\ ChamadasOK' /\ trava' \in Chamadas \cup {Nada} /\ tx'[c] = Ociosa
      /\ \A b \in Chamadas \ {c} : tx'[b] = tx[b]
  BY <1>1, Saida
<1>4. /\ f.produto \in Produtos /\ f.quantidade \in Int
      /\ <<f.origem, f.produto>> \in Estantes /\ <<f.destino, f.produto>> \in Estantes
  BY SuprimentosAssumption DEF Transferencias, Estantes
<1>5. LinhasOK'
  <2>1. saldo' \in [Estantes -> Int]
    <3>1. saldo \in [Estantes -> Int]
      BY DEF LinhasOK
    <3> QED BY <1>1, <1>2, <1>4, <3>1
  <2>2. transferencia' \in [Chaves -> Transferencias \cup {Nada}]
    BY <1>1 DEF LinhasOK
  <2> QED BY <1>1, <2>1, <2>2 DEF LinhasOK
<1>6. UmPorPedido' /\ NinguemDuasVezes'
  BY <1>1, <1>3, UmPorPedidoQuieto DEF Em, Ociosa, NinguemDuasVezes
<1>7. ASSUME NEW b \in Chamadas \ {c} PROVE ChamadaInd(b)'
  <2>1. tx[b].passo \notin {"conferir", "gravar"}
    BY <1>2 DEF ChamadaInd
  <2> QED BY <1>1, <1>3, <2>1, Outra
<1>8. ASSUME NEW e \in Estantes
      PROVE  saldo'[e] = SaldoInicial[e] + Transferido(e)'
                         + (IF e[1] = Central THEN manual'[e[2]] + Comprado(e[2])' ELSE 0)
  <2> DEFINE q == Levado(e, f)
  <2>1. Comprado(e[2])' = Comprado(e[2]) /\ manual' = manual
    BY <1>1 DEF Comprado, Trazido
  <2>2. \A j \in Chaves \ {k} : transferencia'[j] = transferencia[j]
    BY <1>1 DEF LinhasOK
  <2>3. Transferido(e)' = Transferido(e) - Levado(e, transferencia[k])
                                         + Levado(e, transferencia'[k])
    BY <1>5, <2>2, TransferidoMuda
  <2>4. transferencia'[k] = f
    BY <1>1 DEF LinhasOK
  <2>5. Levado(e, transferencia[k]) = 0
    BY <1>1 DEF Levado
  <2>6. q \in Int /\ saldo'[e] = saldo[e] + q
    <3>1. saldo \in [Estantes -> Int] /\ f # Nada
      BY SuprimentosAssumption DEF LinhasOK
    <3>2. q = IF <<f.destino, f.produto>> = e THEN f.quantidade
              ELSE IF <<f.origem, f.produto>> = e THEN -f.quantidade ELSE 0
      BY <3>1 DEF Levado
    <3>3. <<f.origem, f.produto>> # <<f.destino, f.produto>>
      BY <1>2
    <3> HIDE DEF q
    <3>4. CASE e = <<f.destino, f.produto>>
      BY <1>1, <1>4, <3>1, <3>2, <3>3, <3>4
    <3>5. CASE e = <<f.origem, f.produto>>
      BY <1>1, <1>4, <3>1, <3>2, <3>3, <3>5
    <3>6. CASE e # <<f.destino, f.produto>> /\ e # <<f.origem, f.produto>>
      BY <1>1, <1>4, <3>1, <3>2, <3>6
    <3> QED BY <3>4, <3>5, <3>6
  <2>7. Transferido(e) \in Int /\ SaldoInicial[e] \in Int
    BY TransferidoInteiro, SuprimentosAssumption
  <2>8. saldo[e] = SaldoInicial[e] + Transferido(e)
                   + (IF e[1] = Central THEN manual[e[2]] + Comprado(e[2]) ELSE 0)
    BY DEF EstoqueExplicado
  <2>9. Comprado(e[2]) \in Int /\ manual[e[2]] \in Int
    <3>1. e[2] \in Produtos
      BY DEF Estantes
    <3> QED BY <3>1, CompradoInteiro DEF LinhasOK
  <2> DEFINE x == IF e[1] = Central THEN manual[e[2]] + Comprado(e[2]) ELSE 0
  <2>10. x \in Int
    BY <2>9
  <2>11. x' = x
    BY <2>1
  <2>12. Transferido(e)' = Transferido(e) + q
    BY <2>3, <2>4, <2>5, <2>6, <2>7
  <2>13. saldo'[e] = SaldoInicial[e] + Transferido(e)' + x
    <3> HIDE DEF x, q
    <3> QED BY <2>6, <2>7, <2>8, <2>10, <2>12 DEF x
  <2> QED BY <2>11, <2>13
<1>9. EstoqueExplicado'
  BY <1>8 DEF EstoqueExplicado
<1> QED BY <1>3, <1>5, <1>6, <1>7, <1>9, OciosaInd

LEMMA PassoConferirImportacao ==
    ASSUME SuprimentosInd, NEW c \in Chamadas, ConferirImportacao(c)
    PROVE  SuprimentosInd'
<1> USE DEF SuprimentosInd
<1> DEFINE f == Novos(tx[c].dados)
           n == [tx[c] EXCEPT !.passo = "gravar", !.feitos = f]
<1>1. /\ Em(c, "conferir") /\ Op(c, "importar") /\ importacao[tx[c].alvo] = Nada
      /\ tx' = [tx EXCEPT ![c] = n]
      /\ UNCHANGED <<estoque, pedido, registros, trava>>
  BY DEF ConferirImportacao
<1>2. tx[c].dados \in Arquivos
  BY <1>1 DEF ChamadasOK, Chamado, Op
<1>3. f \in SUBSET Clientes /\ \A i \in f : importados[i] = 0
  <2>1. importados \in [Clientes -> Nat]
    BY DEF LinhasOK
  <2> QED BY <1>2, <2>1 DEF Novos, Registrados, Arquivos
<1> HIDE DEF f
<1>4. /\ ChamadasOK'
      /\ tx'[c].passo = "gravar" /\ tx'[c].feitos = f /\ tx'[c].op = tx[c].op
      /\ tx'[c].alvo = tx[c].alvo
      /\ \A b \in Chamadas \ {c} : tx'[b] = tx[b]
  <2>1. Chamado(tx[c])
    BY DEF ChamadasOK
  <2>2. /\ n.passo = "gravar" /\ n.feitos = f
        /\ n.op = tx[c].op /\ n.alvo = tx[c].alvo /\ n.dados = tx[c].dados
    BY <1>1, <2>1 DEF Chamado, Op
  <2>3. Chamado(n)
    BY <1>1, <1>3, <2>1 DEF Chamado, Op
  <2> HIDE DEF n
  <2>4. ChamadasOK' /\ tx'[c] = n /\ \A b \in Chamadas \ {c} : tx'[b] = tx[b]
    BY <1>1, <2>3, Substitui
  <2> QED BY <2>2, <2>4
<1>5. LinhasOK' /\ trava' \in Chamadas \cup {Nada} /\ NinguemDuasVezes'
  BY <1>1 DEF LinhasOK, estoque, registros, NinguemDuasVezes
<1>6. UmPorPedido'
  BY <1>4, UmPorPedidoQuieto DEF Em
<1>7. ChamadaInd(c)'
  <2>1. trava = c
    BY <1>1 DEF ChamadaInd, Em
  <2>2. ChaveDe(c)' = Nada
    BY <1>1, <1>4 DEF ChaveDe, Op, registros
  <2>3. \A i \in f : importados'[i] = 0
    BY <1>1, <1>3 DEF registros
  <2> QED BY <1>1, <1>4, <2>1, <2>2, <2>3 DEF ChamadaInd, Em, Op
<1>8. ASSUME NEW b \in Chamadas \ {c} PROVE ChamadaInd(b)'
  BY <1>1, <1>4, Outra DEF registros
<1>9. EstoqueExplicado'
  BY <1>1, EstoqueQuieto DEF estoque, registros, Trazido
<1> QED BY <1>4, <1>5, <1>6, <1>7, <1>8, <1>9

LEMMA PassoImportar ==
    ASSUME SuprimentosInd, NEW c \in Chamadas, Importar(c)
    PROVE  SuprimentosInd'
<1> USE DEF SuprimentosInd
<1>1. /\ Em(c, "gravar") /\ Op(c, "importar") /\ Sair(c)
      /\ importados' = [i \in Clientes |->
                          importados[i] + (IF i \in tx[c].feitos THEN 1 ELSE 0)]
      /\ importacao' = [importacao EXCEPT ![tx[c].alvo] = tx[c].dados]
      /\ UNCHANGED <<estoque, pedido, transferencia, inativos>>
  BY DEF Importar
<1>2. tx[c].dados \in Arquivos
  BY <1>1 DEF ChamadasOK, Chamado, Op
<1>3. trava = c /\ \A i \in tx[c].feitos : importados[i] = 0
  BY <1>1 DEF ChamadaInd, Em
<1>4. /\ ChamadasOK' /\ trava' \in Chamadas \cup {Nada} /\ tx'[c] = Ociosa
      /\ \A b \in Chamadas \ {c} : tx'[b] = tx[b]
  BY <1>1, Saida
<1>5. NinguemDuasVezes' /\ importados' \in [Clientes -> Nat]
  <2>1. importados \in [Clientes -> Nat]
    BY DEF LinhasOK
  <2>2. \A i \in Clientes :
          importados'[i] = importados[i] + (IF i \in tx[c].feitos THEN 1 ELSE 0)
    BY <1>1
  <2>3. \A i \in Clientes : importados'[i] \in Nat /\ importados'[i] <= 1
    BY <1>3, <2>1, <2>2 DEF NinguemDuasVezes
  <2> QED BY <1>1, <2>3 DEF NinguemDuasVezes
<1>6. LinhasOK'
  BY <1>1, <1>2, <1>5 DEF LinhasOK, estoque
<1>7. UmPorPedido'
  BY <1>4, UmPorPedidoQuieto DEF Em, Ociosa
<1>8. ASSUME NEW b \in Chamadas \ {c} PROVE ChamadaInd(b)'
  <2>1. tx[b].passo \notin {"conferir", "gravar"}
    BY <1>3 DEF ChamadaInd
  <2> QED BY <1>1, <1>4, <2>1, Outra
<1>9. EstoqueExplicado'
  BY <1>1, EstoqueQuieto DEF estoque, Trazido
<1> QED BY <1>4, <1>5, <1>6, <1>7, <1>8, <1>9, OciosaInd

\* The other screens touch no order, no key and no registered client's row.
LEMMA PassoTela ==
    ASSUME SuprimentosInd, LinhasOK', EstoqueExplicado',
           UNCHANGED <<pedido, transferencia, importacao, importados, trava, tx>>
    PROVE  SuprimentosInd'
<1> USE DEF SuprimentosInd
<1>1. ChamadasOK' /\ trava' \in Chamadas \cup {Nada} /\ UmPorPedido' /\ NinguemDuasVezes'
  BY DEF ChamadasOK, UmPorPedido, Em, NinguemDuasVezes
<1>2. ASSUME NEW b \in Chamadas PROVE ChamadaInd(b)'
  BY Outra
<1> QED BY <1>1, <1>2

LEMMA PassoMovimentar ==
    ASSUME SuprimentosInd, NEW p \in Produtos, NEW q \in {-1, 1}, Movimentar(p, q)
    PROVE  SuprimentosInd'
<1> USE DEF SuprimentosInd
<1>1. /\ manual[p] + q \in -MaxManual .. 0
      /\ manual' = [manual EXCEPT ![p] = @ + q]
      /\ saldo' = [saldo EXCEPT ![<<Central, p>>] = @ + q]
      /\ UNCHANGED <<ativo, aberta, pedido, registros, trava, tx>>
  BY DEF Movimentar
<1>2. q \in Int /\ <<Central, p>> \in Estantes
  BY DEF Estantes, Locais
<1>3. LinhasOK'
  BY <1>1, <1>2 DEF LinhasOK, registros
<1>4. ASSUME NEW e \in Estantes
      PROVE  saldo'[e] = SaldoInicial[e] + Transferido(e)'
                         + (IF e[1] = Central THEN manual'[e[2]] + Comprado(e[2])' ELSE 0)
  <2>1. Comprado(e[2])' = Comprado(e[2]) /\ Transferido(e)' = Transferido(e)
    BY <1>1 DEF Comprado, Trazido, Transferido, registros
  <2>2. e[2] \in Produtos /\ e = <<e[1], e[2]>>
    BY DEF Estantes
  <2>3. Transferido(e) \in Int /\ SaldoInicial[e] \in Int /\ Comprado(e[2]) \in Int
    BY <2>2, TransferidoInteiro, CompradoInteiro, SuprimentosAssumption
  <2>4. saldo[e] = SaldoInicial[e] + Transferido(e)
                   + (IF e[1] = Central THEN manual[e[2]] + Comprado(e[2]) ELSE 0)
    BY DEF EstoqueExplicado
  <2>5. saldo \in [Estantes -> Int] /\ manual \in [Produtos -> Int]
    BY DEF LinhasOK
  <2>6. CASE e = <<Central, p>>
    <3>1. e[1] = Central /\ e[2] = p
      BY <2>6
    <3>2. saldo'[e] = saldo[e] + q /\ manual'[p] = manual[p] + q
      BY <1>1, <2>5, <2>6, <1>2
    <3> QED BY <1>2, <2>1, <2>3, <2>4, <2>5, <3>1, <3>2
  <2>7. CASE e # <<Central, p>>
    <3>1. saldo'[e] = saldo[e]
      BY <1>1, <2>5, <2>7
    <3>2. e[1] = Central => manual'[e[2]] = manual[e[2]]
      BY <1>1, <2>2, <2>5, <2>7
    <3> QED BY <2>1, <2>4, <3>1, <3>2
  <2> QED BY <2>6, <2>7
<1>5. EstoqueExplicado'
  BY <1>4 DEF EstoqueExplicado
<1> QED BY <1>1, <1>3, <1>5, PassoTela DEF registros

LEMMA PassoDesativarProduto ==
    ASSUME SuprimentosInd, NEW p \in Produtos, DesativarProduto(p)
    PROVE  SuprimentosInd'
<1> USE DEF SuprimentosInd
<1>1. /\ ativo' = ativo \ {p}
      /\ UNCHANGED <<aberta, saldo, manual, pedido, registros, trava, tx>>
  BY DEF DesativarProduto
<1>2. LinhasOK'
  BY <1>1 DEF LinhasOK, registros
<1>3. EstoqueExplicado'
  BY <1>1, EstoqueQuieto DEF registros, Trazido
<1> QED BY <1>1, <1>2, <1>3, PassoTela DEF registros

LEMMA PassoSalvarFilial ==
    ASSUME SuprimentosInd, NEW l \in Filiais, SalvarFilial(l)
    PROVE  SuprimentosInd'
<1> USE DEF SuprimentosInd
<1>1. /\ aberta' = IF l \in aberta THEN aberta \ {l} ELSE aberta \cup {l}
      /\ UNCHANGED <<ativo, saldo, manual, pedido, registros, trava, tx>>
  BY DEF SalvarFilial
<1>2. LinhasOK'
  BY <1>1 DEF LinhasOK, registros
<1>3. EstoqueExplicado'
  BY <1>1, EstoqueQuieto DEF registros, Trazido
<1> QED BY <1>1, <1>2, <1>3, PassoTela DEF registros

LEMMA PassoDesativarCliente ==
    ASSUME SuprimentosInd, NEW i \in Clientes, DesativarCliente(i)
    PROVE  SuprimentosInd'
<1> USE DEF SuprimentosInd
<1>1. /\ inativos' = inativos \cup {i}
      /\ UNCHANGED <<estoque, pedido, transferencia, importacao, importados, trava, tx>>
  BY DEF DesativarCliente
<1>2. LinhasOK'
  BY <1>1 DEF LinhasOK, estoque
<1>3. EstoqueExplicado'
  BY <1>1, EstoqueQuieto DEF estoque, Trazido
<1> QED BY <1>1, <1>2, <1>3, PassoTela

-----------------------------------------------------------------------------
(* The theorems. *)

\* Nothing is bought, moved or imported yet: every sum is of zeros.
LEMMA InicioInd == Init => SuprimentosInd
<1> SUFFICES ASSUME Init PROVE SuprimentosInd
  OBVIOUS
<1> USE SuprimentosAssumption
<1>1. LinhasOK
  <2>1. 0 \in -MaxManual .. 0 /\ Nenhum \in [Produtos -> 0 .. MaxItem]
    BY DEF Nenhum
  <2>2. saldo \in [Estantes -> Int]
    BY DEF Init
  <2>3. manual \in [Produtos -> -MaxManual .. 0]
    BY <2>1 DEF Init
  <2>4. pedido \in [Pedidos -> [status : Status \cup {"nenhum"}, itens : Itens \cup {Nenhum}]]
    BY DEF Init
  <2> QED BY <2>2, <2>3, <2>4 DEF Init, LinhasOK
<1>2. trava \in Chamadas \cup {Nada} /\ ChamadasOK
  BY DEF Init, ChamadasOK, Chamado, Ociosa
<1>3. \A c \in Chamadas : ChamadaInd(c)
  BY DEF Init, ChamadaInd, Ociosa, Em, Op
<1>4. UmPorPedido /\ NinguemDuasVezes
  BY DEF Init, UmPorPedido, Ociosa, Em, NinguemDuasVezes
<1>5. ASSUME NEW e \in Estantes
      PROVE  saldo[e] = SaldoInicial[e] + Transferido(e)
                        + (IF e[1] = Central THEN manual[e[2]] + Comprado(e[2]) ELSE 0)
  <2>1. Transferido(e) = 0
    <3> DEFINE f == [k \in Chaves |-> Levado(e, transferencia[k])]
    <3>1. (\A k \in Chaves : f[k] = 0) /\ DOMAIN f = Chaves /\ Transferido(e) = SumFunction(f)
      BY DEF Init, Levado, Transferido
    <3> HIDE DEF f
    <3> QED BY <3>1, SomaFuncao, SomaNula
  <2>2. Comprado(e[2]) = 0
    <3> DEFINE f == [d \in Pedidos |-> Trazido(e[2], d)]
    <3>1. (\A d \in Pedidos : f[d] = 0) /\ DOMAIN f = Pedidos
          /\ Comprado(e[2]) = SumFunction(f)
      BY DEF Init, Trazido, Comprado
    <3> HIDE DEF f
    <3> QED BY <3>1, SomaFuncao, SomaNula
  <2>3. saldo[e] = SaldoInicial[e] /\ SaldoInicial[e] \in Int /\ e[2] \in Produtos
    BY DEF Init, Estantes
  <2>4. manual[e[2]] = 0
    BY <2>3 DEF Init
  <2> QED BY <2>1, <2>2, <2>3, <2>4
<1>6. EstoqueExplicado
  BY <1>5 DEF EstoqueExplicado
<1> QED BY <1>1, <1>2, <1>3, <1>4, <1>6 DEF SuprimentosInd

\* Every step of Next keeps the invariant.
LEMMA PassoInd == SuprimentosInd /\ [Next]_vars => SuprimentosInd'
<1> SUFFICES ASSUME SuprimentosInd, [Next]_vars PROVE SuprimentosInd'
  OBVIOUS
<1>1. ASSUME NEW d \in Pedidos, Criar(d) PROVE SuprimentosInd'
  BY <1>1, PassoCriar
<1>2. ASSUME NEW c \in Chamadas,
             Obter(c) \/ LerItens(c) \/ Atualizar(c) \/ Mudar(c) \/ Reivindicar(c)
             \/ EntrarItem(c) \/ Receber(c)
      PROVE  SuprimentosInd'
  BY <1>2, PassoObter, PassoLerItens, PassoAtualizar, PassoMudar, PassoReivindicar,
     PassoEntrarItem, PassoReceber
<1>3. ASSUME NEW c \in Chamadas, ChaveConhecida(c) \/ Falhar(c) PROVE SuprimentosInd'
  <2>1. Sair(c) /\ UNCHANGED <<estoque, pedido, registros>>
    BY <1>3 DEF ChaveConhecida, Falhar
  <2> QED BY <2>1, PassoSair
<1>4. ASSUME NEW c \in Chamadas,
             Pedir(c) \/ Travar(c) \/ ConferirTransferencia(c) \/ Transferir(c)
             \/ ConferirImportacao(c) \/ Importar(c)
      PROVE  SuprimentosInd'
  BY <1>4, PassoPedir, PassoTravar, PassoConferirTransferencia, PassoTransferir,
     PassoConferirImportacao, PassoImportar
<1>5. ASSUME NEW p \in Produtos, DesativarProduto(p) \/ \E q \in {-1, 1} : Movimentar(p, q)
      PROVE  SuprimentosInd'
  BY <1>5, PassoDesativarProduto, PassoMovimentar
<1>6. ASSUME NEW l \in Filiais, SalvarFilial(l) PROVE SuprimentosInd'
  BY <1>6, PassoSalvarFilial
<1>7. ASSUME NEW i \in Clientes, DesativarCliente(i) PROVE SuprimentosInd'
  BY <1>7, PassoDesativarCliente
<1>8. CASE UNCHANGED vars
  <2> USE <1>8 DEF SuprimentosInd, vars, estoque, registros
  <2>1. LinhasOK' /\ EstoqueExplicado'
    BY EstoqueQuieto DEF LinhasOK, Trazido
  <2> QED BY <2>1, PassoTela
<1> QED BY <1>1, <1>2, <1>3, <1>4, <1>5, <1>6, <1>7, <1>8 DEF Next

\* The invariant holds of every execution.
THEOREM SuprimentosIndutivo == Spec => []SuprimentosInd
<1> QED BY InicioInd, PassoInd, PTL DEF Spec

\* Every variable has its type: an order's row, a key's row and a call's record hold what the
\* operations put there.
THEOREM SuprimentosTipos == Spec => []TypeOK
<1>1. SuprimentosInd => TypeOK
  BY Partes DEF SuprimentosInd
<1> QED BY <1>1, SuprimentosIndutivo, PTL

\* For any number of orders, keys and overlapping calls, the stock of every unit is its first
\* balance, plus what the received orders list, plus what the transfers on record moved, plus
\* what the other screens moved: receber and transferir book nothing twice and nothing halfway.
THEOREM SuprimentosEstoque == Spec => []EstoqueExplicado
<1>1. SuprimentosInd => EstoqueExplicado
  BY DEF SuprimentosInd
<1> QED BY <1>1, SuprimentosIndutivo, PTL

\* The lock on the company's row is enough: a key found unused is unused when it is written.
THEOREM SuprimentosChaves == Spec => []ChaveReservada
<1>1. SuprimentosInd => ChaveReservada
  BY DEF SuprimentosInd, ChamadaInd, ChaveDe, ChaveReservada
<1> QED BY <1>1, SuprimentosIndutivo, PTL

\* The same lock keeps two imports from registering one client twice.
THEOREM SuprimentosClientes == Spec => []NinguemDuasVezes
<1>1. SuprimentosInd => NinguemDuasVezes
  BY DEF SuprimentosInd
<1> QED BY <1>1, SuprimentosIndutivo, PTL
=============================================================================
