---------------------------- MODULE Suprimentos ----------------------------
(***************************************************************************)
(* How stock reaches the company and moves inside it: purchase orders      *)
(* (PedidosCompraService), transfers between units and the import of       *)
(* clients (GestaoService).                                                *)
(*                                                                         *)
(* The calls on an order read it first and then claim it with a            *)
(* conditional update; receber goes on, in the same transaction, with one  *)
(* entry per item that it read before.  A transfer and an import lock the  *)
(* company's row before they look up their key.  A transaction's writes    *)
(* are visible at its commit; until then it keeps the rows it wrote.       *)
(***************************************************************************)
EXTENDS Integers, FiniteSetsExt

CONSTANTS
    Produtos, Filiais,
    Central,        \* "no filialId": produtos.estoque_atual
    Pedidos,        \* rows of pedidos_compra
    Chaves,         \* keys that callers give to transfers
    Envios,         \* keys that callers give to imports
    Clientes,       \* who a line of a file identifies: its e-mail, telephone or name
    Chamadas,
    Nada,
    SaldoInicial,   \* [Estantes -> Nat]
    MaxItem,        \* bound on a quantity
    MaxManual       \* bound on what the other screens take of a product, net

Locais == Filiais \cup {Central}
Estantes == Locais \X Produtos

VARIABLES
    ativo,          \* products with produto.ativo
    aberta,         \* branches with filial.ativa
    saldo,          \* estoque_atual / saldos_filiais.quantidade
    manual,         \* [Produtos -> Int]: what sales and the stock screen moved
    pedido,         \* [status, itens]
    transferencia,  \* Chaves -> row of transferencias_filiais, or Nada
    importacao,     \* Envios -> the file of the row of importacoes, or Nada
    importados,     \* [Clientes -> Nat]: rows of clientes that imports created
    inativos,       \* registered clients with cliente.ativo = false
    trava,          \* the call that holds the company's row
    tx              \* [passo, op, alvo, dados, feitos]

estoque == <<ativo, aberta, saldo, manual>>
registros == <<transferencia, importacao, importados, inativos>>
vars == <<estoque, pedido, registros, trava, tx>>

Status == {"RASCUNHO", "ENVIADO", "RECEBIDO", "CANCELADO"}
Nenhum == [p \in Produtos |-> 0]
Itens == [Produtos -> 0 .. MaxItem] \ {Nenhum}
Transferencias == [produto : Produtos, quantidade : 1 .. MaxItem,
                   origem : Locais, destino : Locais]
Arquivos == SUBSET Clientes \ {{}}

\* The tables hold finitely many rows, and "no value" is none of the values.
ASSUME SuprimentosAssumption ==
    /\ Central \notin Filiais
    /\ SaldoInicial \in [Estantes -> Nat]
    /\ MaxItem \in Nat \ {0}
    /\ MaxManual \in Nat
    /\ IsFiniteSet(Pedidos) /\ IsFiniteSet(Chaves)
    /\ Nada \notin Chamadas /\ Nada \notin Transferencias

\* The states an order may leave by each call, and the one it goes to.
De == [atualizar |-> {"RASCUNHO"}, enviar |-> {"RASCUNHO"}, receber |-> {"ENVIADO"},
       cancelar |-> {"RASCUNHO", "ENVIADO", "CANCELADO"}]
Para == [enviar |-> "ENVIADO", receber |-> "RECEBIDO", cancelar |-> "CANCELADO"]

Em(c, s) == tx[c].passo = s
Op(c, o) == tx[c].op = o

Ociosa == [passo |-> "fora", op |-> "nenhuma", alvo |-> Nada, dados |-> Nada, feitos |-> {}]

\* What a call holds, by the operation it runs.
Chamado(r) ==
    /\ r.op \in {"nenhuma", "atualizar", "enviar", "receber", "cancelar", "transferir", "importar"}
    /\ r.op = "nenhuma" => r = Ociosa
    /\ r.op \in {"enviar", "cancelar"} => r \in
         [passo : {"reivindicar"}, op : {r.op}, alvo : Pedidos, dados : {Nada}, feitos : {{}}]
    /\ r.op = "atualizar" => r \in
         [passo : {"reivindicar"}, op : {r.op}, alvo : Pedidos, dados : Itens, feitos : {{}}]
    /\ r.op = "receber" => r \in
         [passo : {"itens", "reivindicar", "entrar"}, op : {r.op}, alvo : Pedidos,
          dados : {Nada, Nenhum} \cup Itens, feitos : SUBSET Produtos]
    /\ r.op = "transferir" => r \in
         [passo : {"travar", "conferir", "gravar"}, op : {r.op}, alvo : Chaves,
          dados : Transferencias, feitos : {{}}]
    /\ r.op = "importar" => r \in
         [passo : {"travar", "conferir", "gravar"}, op : {r.op}, alvo : Envios,
          dados : Arquivos, feitos : SUBSET Clientes]

TypeOK ==
    /\ ativo \subseteq Produtos /\ aberta \subseteq Filiais
    /\ saldo \in [Estantes -> Int] /\ manual \in [Produtos -> -MaxManual .. 0]
    /\ pedido \in [Pedidos -> [status : Status \cup {"nenhum"}, itens : Itens \cup {Nenhum}]]
    /\ transferencia \in [Chaves -> Transferencias \cup {Nada}]
    /\ importacao \in [Envios -> Arquivos \cup {Nada}]
    /\ importados \in [Clientes -> Nat] /\ inativos \subseteq Clientes
    /\ trava \in Chamadas \cup {Nada}
    /\ tx = [c \in Chamadas |-> tx[c]]
    /\ \A c \in Chamadas : Chamado(tx[c])

Init ==
    /\ ativo = Produtos /\ aberta = Filiais
    /\ saldo = SaldoInicial /\ manual = [p \in Produtos |-> 0]
    /\ pedido = [d \in Pedidos |-> [status |-> "nenhum", itens |-> Nenhum]]
    /\ transferencia = [k \in Chaves |-> Nada]
    /\ importacao = [k \in Envios |-> Nada]
    /\ importados = [i \in Clientes |-> 0] /\ inativos = {}
    /\ trava = Nada
    /\ tx = [c \in Chamadas |-> Ociosa]

-----------------------------------------------------------------------------
Ir(c, s) == tx' = [tx EXCEPT ![c].passo = s]

Sair(c) ==
    /\ tx' = [tx EXCEPT ![c] = Ociosa]
    /\ trava' = IF trava = c THEN Nada ELSE trava

\* Rows that an uncommitted receber keeps: the order, and the products it has entered.
PedidoLivre(d) == \A c \in Chamadas : Em(c, "entrar") => tx[c].alvo # d
ProdutoLivre(p) == \A c \in Chamadas : Em(c, "entrar") => p \notin tx[c].feitos

\* A call ends with nothing written: an exception, the transaction's time limit, a deadlock
\* that PostgreSQL breaks, or a crash.  Its caller may repeat it.
Falhar(c) ==
    /\ ~Em(c, "fora")
    /\ Sair(c)
    /\ UNCHANGED <<estoque, pedido, registros>>

-----------------------------------------------------------------------------
(* Purchase orders. *)
\* validarReferencias: every product of the items is active.
ItensValidos == {i \in Itens : \A p \in Produtos : i[p] > 0 => p \in ativo}

Criar(d) ==
    /\ pedido[d].status = "nenhum"
    /\ \E i \in ItensValidos : pedido' = [pedido EXCEPT ![d] = [status |-> "RASCUNHO", itens |-> i]]
    /\ UNCHANGED <<estoque, registros, trava, tx>>

\* obter and the test of its status; no lock is taken.
Obter(c) == \E d \in Pedidos, o \in DOMAIN De :
    /\ Em(c, "fora")
    /\ pedido[d].status \in De[o]
    /\ \E i \in IF o = "atualizar" THEN ItensValidos ELSE {Nada} :
         tx' = [tx EXCEPT ![c] =
                  [Ociosa EXCEPT !.passo = IF o = "receber" THEN "itens" ELSE "reivindicar",
                                 !.op = o, !.alvo = d, !.dados = i]]
    /\ UNCHANGED <<estoque, pedido, registros, trava>>

\* obter's include is a second query.
LerItens(c) ==
    /\ Em(c, "itens")
    /\ tx' = [tx EXCEPT ![c].passo = "reivindicar", ![c].dados = pedido[tx[c].alvo].itens]
    /\ UNCHANGED <<estoque, pedido, registros, trava>>

PodeReivindicarSempre(c) ==    \* mutated form: updateMany without the status
    Em(c, "reivindicar") /\ PedidoLivre(tx[c].alvo)

\* updateMany waits for the order's row and then finds it in a state it may leave.
PodeReivindicar(c) ==
    /\ Em(c, "reivindicar")
    /\ PedidoLivre(tx[c].alvo)
    /\ pedido[tx[c].alvo].status \in De[tx[c].op]

\* The claim of atualizar keeps RASCUNHO; the items are replaced under the row's lock.
Atualizar(c) ==
    /\ PodeReivindicar(c) /\ Op(c, "atualizar")
    /\ pedido' = [pedido EXCEPT ![tx[c].alvo] = [status |-> "RASCUNHO", itens |-> tx[c].dados]]
    /\ Sair(c)
    /\ UNCHANGED <<estoque, registros>>

\* enviar and cancelar are one statement.
Mudar(c) ==
    /\ PodeReivindicar(c) /\ tx[c].op \in {"enviar", "cancelar"}
    /\ pedido' = [pedido EXCEPT ![tx[c].alvo].status = Para[tx[c].op]]
    /\ Sair(c)
    /\ UNCHANGED <<estoque, registros>>

\* The claim of receber: RECEBIDO, for this transaction only until it commits.
Reivindicar(c) ==
    /\ PodeReivindicar(c) /\ Op(c, "receber")
    /\ Ir(c, "entrar")
    /\ UNCHANGED <<estoque, pedido, registros, trava>>

\* registrarEntradaTx of one item, in the order in which they were read (no ORDER BY).
EntrarItem(c) == \E p \in ativo \ tx[c].feitos :
    /\ Em(c, "entrar")
    /\ tx[c].dados[p] > 0
    /\ ProdutoLivre(p)
    /\ tx' = [tx EXCEPT ![c].feitos = @ \cup {p}]
    /\ UNCHANGED <<estoque, pedido, registros, trava>>

\* The commit: every item has been entered.
Receber(c) ==
    /\ Em(c, "entrar")
    /\ \A p \in Produtos : tx[c].dados[p] > 0 => p \in tx[c].feitos
    /\ saldo' = [e \in Estantes |->
                   saldo[e] + (IF e[1] = Central THEN tx[c].dados[e[2]] ELSE 0)]
    /\ pedido' = [pedido EXCEPT ![tx[c].alvo].status = "RECEBIDO"]
    /\ Sair(c)
    /\ UNCHANGED <<ativo, aberta, manual, registros>>

-----------------------------------------------------------------------------
(* Transfers and imports: the company's row first, then the key. *)
Pedir(c) ==
    /\ Em(c, "fora")
    /\ \/ \E k \in Chaves, f \in Transferencias : f.origem # f.destino /\
            tx' = [tx EXCEPT ![c] = [passo |-> "travar", op |-> "transferir", alvo |-> k,
                                     dados |-> f, feitos |-> {}]]
       \/ \E k \in Envios, a \in Arquivos :
            tx' = [tx EXCEPT ![c] = [passo |-> "travar", op |-> "importar", alvo |-> k,
                                     dados |-> a, feitos |-> {}]]
    /\ UNCHANGED <<estoque, pedido, registros, trava>>

TravarSemEspera(c) ==    \* mutated form: the row is read without FOR UPDATE
    /\ Em(c, "travar")
    /\ Ir(c, "conferir")
    /\ UNCHANGED <<estoque, pedido, registros, trava>>

\* SELECT ... FROM empresas FOR UPDATE.
Travar(c) ==
    /\ Em(c, "travar")
    /\ trava = Nada
    /\ trava' = c
    /\ Ir(c, "conferir")
    /\ UNCHANGED <<estoque, pedido, registros>>

\* The key is known: the stored row is the answer, or 409 for other contents.
ChaveConhecida(c) ==
    /\ Em(c, "conferir")
    /\ (IF Op(c, "transferir") THEN transferencia ELSE importacao)[tx[c].alvo] # Nada
    /\ Sair(c)
    /\ UNCHANGED <<estoque, pedido, registros>>

\* transferir goes on when the product and both branches are active.
ConferirTransferencia(c) == LET f == tx[c].dados IN
    /\ Em(c, "conferir") /\ Op(c, "transferir")
    /\ transferencia[tx[c].alvo] = Nada
    /\ f.produto \in ativo
    /\ {f.origem, f.destino} \ {Central} \subseteq aberta
    /\ Ir(c, "gravar")
    /\ UNCHANGED <<estoque, pedido, registros, trava>>

\* saidaFilial or registrarSaidaTx.
PodeSair(l, p, q) ==
    /\ saldo[<<l, p>>] >= q
    /\ IF l = Central THEN p \in ativo ELSE l \in aberta

\* The exit, the entry (registrarEntradaTx asks for an active product, entradaFilial for
\* nothing) and the row with the key.
Transferir(c) == LET f == tx[c].dados IN
    /\ Em(c, "gravar") /\ Op(c, "transferir")
    /\ Central \in {f.origem, f.destino} => ProdutoLivre(f.produto)
    /\ PodeSair(f.origem, f.produto, f.quantidade)
    /\ f.destino = Central => f.produto \in ativo
    /\ transferencia[tx[c].alvo] = Nada
    /\ saldo' = [saldo EXCEPT ![<<f.origem, f.produto>>] = @ - f.quantidade,
                              ![<<f.destino, f.produto>>] = @ + f.quantidade]
    /\ transferencia' = [transferencia EXCEPT ![tx[c].alvo] = f]
    /\ Sair(c)
    /\ UNCHANGED <<ativo, aberta, manual, pedido, importacao, importados, inativos>>

Registrados == {i \in Clientes : importados[i] > 0}

NovosAtivos(a) == a \ (Registrados \ inativos)    \* mutated form: only active clients are looked up

\* previa: the lines whose client is not registered, active or not.
Novos(a) == a \ Registrados

ConferirImportacao(c) ==
    /\ Em(c, "conferir") /\ Op(c, "importar")
    /\ importacao[tx[c].alvo] = Nada
    /\ tx' = [tx EXCEPT ![c].passo = "gravar", ![c].feitos = Novos(tx[c].dados)]
    /\ UNCHANGED <<estoque, pedido, registros, trava>>

\* createMany and the row with the key and the file's hash.
Importar(c) ==
    /\ Em(c, "gravar") /\ Op(c, "importar")
    /\ importacao[tx[c].alvo] = Nada
    /\ importados' = [i \in Clientes |-> importados[i] + (IF i \in tx[c].feitos THEN 1 ELSE 0)]
    /\ importacao' = [importacao EXCEPT ![tx[c].alvo] = tx[c].dados]
    /\ Sair(c)
    /\ UNCHANGED <<estoque, pedido, transferencia, inativos>>

-----------------------------------------------------------------------------
(* The other screens, one statement each. *)
Movimentar(p, q) ==
    /\ ProdutoLivre(p) /\ p \in ativo
    /\ saldo[<<Central, p>>] + q >= 0
    /\ manual[p] + q \in -MaxManual .. 0
    /\ manual' = [manual EXCEPT ![p] = @ + q]
    /\ saldo' = [saldo EXCEPT ![<<Central, p>>] = @ + q]
    /\ UNCHANGED <<ativo, aberta, pedido, registros, trava, tx>>

DesativarProduto(p) ==
    /\ ProdutoLivre(p) /\ p \in ativo
    /\ ativo' = ativo \ {p}
    /\ UNCHANGED <<aberta, saldo, manual, pedido, registros, trava, tx>>

SalvarFilial(l) ==
    /\ aberta' = IF l \in aberta THEN aberta \ {l} ELSE aberta \cup {l}
    /\ UNCHANGED <<ativo, saldo, manual, pedido, registros, trava, tx>>

DesativarCliente(i) ==
    /\ i \in Registrados \ inativos
    /\ inativos' = inativos \cup {i}
    /\ UNCHANGED <<estoque, pedido, transferencia, importacao, importados, trava, tx>>

Next ==
    \/ \E d \in Pedidos : Criar(d)
    \/ \E c \in Chamadas :
         \/ Obter(c) \/ LerItens(c) \/ Atualizar(c) \/ Mudar(c)
         \/ Reivindicar(c) \/ EntrarItem(c) \/ Receber(c)
         \/ Pedir(c) \/ Travar(c) \/ ChaveConhecida(c)
         \/ ConferirTransferencia(c) \/ Transferir(c)
         \/ ConferirImportacao(c) \/ Importar(c) \/ Falhar(c)
    \/ \E p \in Produtos : DesativarProduto(p) \/ \E q \in {-1, 1} : Movimentar(p, q)
    \/ \E l \in Filiais : SalvarFilial(l)
    \/ \E i \in Clientes : DesativarCliente(i)

Spec == Init /\ [][Next]_vars

-----------------------------------------------------------------------------
(* Properties. *)

\* What orders brought: each received order once, with the items that it now shows.
Trazido(p, d) == IF pedido[d].status = "RECEBIDO" THEN pedido[d].itens[p] ELSE 0
Comprado(p) == SumFunction([d \in Pedidos |-> Trazido(p, d)])

\* What the transfers on record took to a shelf, less what they took from it.
Levado(e, f) ==
    IF f = Nada THEN 0
    ELSE IF <<f.destino, f.produto>> = e THEN f.quantidade
    ELSE IF <<f.origem, f.produto>> = e THEN -f.quantidade ELSE 0
Transferido(e) == SumFunction([k \in Chaves |-> Levado(e, transferencia[k])])

\* The stock of every unit is explained by what the screens show: each received order
\* brought the items it lists, once, each transfer on record moved its quantity, once, and a
\* call that failed or lost a race moved nothing.
EstoqueExplicado == \A e \in Estantes :
    saldo[e] = SaldoInicial[e] + Transferido(e)
               + (IF e[1] = Central THEN manual[e[2]] + Comprado(e[2]) ELSE 0)

\* A call that has found its key unused still finds it unused when it writes: repeating a
\* transfer or an import while the first runs gives the recorded answer, not the error of
\* the unique constraint.
ChaveReservada == \A c \in Chamadas : Em(c, "gravar") =>
    (IF Op(c, "transferir") THEN transferencia ELSE importacao)[tx[c].alvo] = Nada

\* Imports register nobody twice and bring back nobody who was deactivated, whatever the
\* files and keys and however the calls overlap.
NinguemDuasVezes == \A i \in Clientes : importados[i] <= 1
=============================================================================
