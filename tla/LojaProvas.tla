----------------------------- MODULE LojaProvas -----------------------------
(***************************************************************************)
(* Proofs about Loja, for any number of transactions, units, products,     *)
(* coupons, clients and appointments:                                      *)
(*   - every row keeps its type;                                           *)
(*   - no balance is negative and every balance is explained by the log;   *)
(*   - a key is sold once;                                                 *)
(*   - the log is explained by the sales and the consumptions;             *)
(*   - totalGasto, usoAtual and the consumptions count what they should.   *)
(***************************************************************************)
EXTENDS Loja, Somas

LEMMA TravarTipo ==
    ASSUME NEW t \in Transacoes, NEW r, CadastroTypeOK, Travar(t, r)
    PROVE  trava' \in [Linhas -> Transacoes \cup {Livre}]
  BY DEF CadastroTypeOK, Travar

LEMMA SoltarTipo ==
    ASSUME NEW t \in Transacoes, CadastroTypeOK, Soltar(t)
    PROVE  trava' \in [Linhas -> Transacoes \cup {Livre}]
  BY DEF CadastroTypeOK, Soltar

LEMMA MovimentarTipo ==
    ASSUME NEW q \in [Estantes -> Int], CadastroTypeOK, Movimentar(q)
    PROVE  saldo' \in [Estantes -> Int] /\ livro' \in [Estantes -> Int]
  BY DEF CadastroTypeOK, Movimentar

LEMMA InitTipos == Init => TiposOK
<1> SUFFICES ASSUME Init PROVE TiposOK
  OBVIOUS
<1>1. CadastroTypeOK
  BY CadastroAssumption DEF Init, CadastroInit, CadastroTypeOK, Status
<1>2. VendasTypeOK
  BY VendasAssumption DEF Init, VendasInit, VendasTypeOK, VendaTx, Passos
<1>3. AtendimentoTypeOK
  BY DEF Init, AtendimentoInit, AtendimentoTypeOK, PassosA, Status
<1>4. QED
  BY <1>1, <1>2, <1>3 DEF TiposOK

-----------------------------------------------------------------------------
LEMMA CadastroTipos ==
    TiposOK /\ CadastroNext /\ UNCHANGED <<vendas, atendimento>> => TiposOK'
<1> SUFFICES ASSUME TiposOK, CadastroNext, UNCHANGED <<vendas, atendimento>>
             PROVE  TiposOK'
  OBVIOUS
<1>1. VendasTypeOK' /\ AtendimentoTypeOK'
  BY DEF TiposOK, VendasTypeOK, AtendimentoTypeOK, vendas, atendimento
<1>2. CadastroTypeOK'
  <2>1. ASSUME NEW p \in Produtos, NEW q \in {-1, 1}, MovimentarManual(p, q)
        PROVE  CadastroTypeOK'
    <3> DEFINE d == [e \in Estantes |-> IF e = <<Central, p>> THEN q ELSE 0]
    <3>1. d \in [Estantes -> Int]
      OBVIOUS
    <3>2. Movimentar(d)
      BY <2>1 DEF MovimentarManual
    <3>3. saldo' \in [Estantes -> Int] /\ livro' \in [Estantes -> Int]
      BY <3>1, <3>2, MovimentarTipo DEF TiposOK
    <3> HIDE DEF d
    <3>4. manual' \in [Produtos -> Int]
      BY <2>1 DEF MovimentarManual, TiposOK, CadastroTypeOK
    <3>5. QED
      BY <2>1, <3>3, <3>4 DEF MovimentarManual, TiposOK, CadastroTypeOK
  <2>2. ASSUME NEW p \in Produtos, DesativarProduto(p) PROVE CadastroTypeOK'
    BY <2>2 DEF DesativarProduto, TiposOK, CadastroTypeOK
  <2>3. ASSUME NEW f \in Filiais, SalvarFilial(f) PROVE CadastroTypeOK'
    BY <2>3 DEF SalvarFilial, TiposOK, CadastroTypeOK
  <2>4. ASSUME NEW c \in Clientes, DesativarCliente(c) PROVE CadastroTypeOK'
    BY <2>4 DEF DesativarCliente, TiposOK, CadastroTypeOK
  <2>5. ASSUME NEW s \in Servicos, DesativarServico(s) PROVE CadastroTypeOK'
    BY <2>5 DEF DesativarServico, TiposOK, CadastroTypeOK
  <2>6. QED
    BY <2>1, <2>2, <2>3, <2>4, <2>5 DEF CadastroNext
<1>3. QED
  BY <1>1, <1>2 DEF TiposOK

-----------------------------------------------------------------------------
(***************************************************************************)
(* The transactions of Vendas.  Most steps end the transaction (Encerrar), *)
(* lock one row (Escrever), or take one item (Item).                       *)
(***************************************************************************)
LEMMA EncerrarTipos ==
    ASSUME TiposOK, NEW t \in VendaTx, NEW x \in Requisicoes \cup Recusas, Encerrar(t, x)
    PROVE  CadastroTypeOK' /\ VendasTypeOK'
<1>1. t \in Transacoes
  BY VendasAssumption DEF VendaTx
<1>2. trava' \in [Linhas -> Transacoes \cup {Livre}]
  BY <1>1, SoltarTipo DEF Encerrar, TiposOK
<1>3. CadastroTypeOK'
  BY <1>2 DEF Encerrar, TiposOK, CadastroTypeOK
<1>4. VendasTypeOK'
  BY DEF Encerrar, TiposOK, VendasTypeOK, Ir, Passos
<1>5. QED
  BY <1>3, <1>4

LEMMA EscreverTipos ==
    ASSUME TiposOK, NEW t \in VendaTx, NEW r, NEW s \in Passos,
           Escrever(t, r, s)
    PROVE  CadastroTypeOK' /\ VendasTypeOK'
<1>1. t \in Transacoes
  BY VendasAssumption DEF VendaTx
<1>2. trava' \in [Linhas -> Transacoes \cup {Livre}]
  BY <1>1, TravarTipo DEF Escrever, TiposOK
<1>3. CadastroTypeOK'
  BY <1>2 DEF Escrever, TiposOK, CadastroTypeOK
<1>4. VendasTypeOK'
  BY DEF Escrever, TiposOK, VendasTypeOK, Ir
<1>5. QED
  BY <1>3, <1>4

LEMMA ConteudoTipo ==
    ASSUME TiposOK, NEW t \in VendaTx
    PROVE  /\ VendaDe(t) \in Requisicoes
           /\ Conteudo(t) \in Pedidos
           /\ Conteudo(t).itens \in [Produtos -> Nat]
           /\ Conteudo(t).local \in Locais
           /\ Conteudo(t).cliente \in Clientes \cup {Nenhum}
           /\ Conteudo(t).cupom \in Cupons \cup {Nenhum}
           /\ t \in Requisicoes => Conteudo(t) = pedido[t]
<1>1. VendaDe(t) \in Requisicoes
  BY DEF TiposOK, VendasTypeOK, VendaDe, VendaTx
<1>2. Conteudo(t) \in Pedidos
  BY <1>1 DEF TiposOK, VendasTypeOK, Conteudo
<1>3. QED
  BY <1>1, <1>2, VendasAssumption DEF Conteudo, VendaDe

LEMMA ItemTipos ==
    ASSUME TiposOK, NEW t \in VendaTx, NEW p \in Produtos, NEW s \in Passos, Item(t, p, s)
    PROVE  CadastroTypeOK' /\ VendasTypeOK'
<1>1. t \in Transacoes
  BY VendasAssumption DEF VendaTx
<1>3. trava' \in [Linhas -> Transacoes \cup {Livre}]
  BY <1>1, TravarTipo DEF Item, TiposOK
<1>4. CadastroTypeOK'
  BY <1>3 DEF Item, TiposOK, CadastroTypeOK
<1>5. VendasTypeOK'
  <2> DEFINE f == [txv EXCEPT ![t].feitos = @ \cup {p}]
             z == IF ProdutosDe(t) \ txv[t].feitos = {p} THEN s ELSE "itens"
  <2>1. f \in [VendaTx -> [passo: Passos, feitos: SUBSET Produtos, uso: Int, em: Nat]]
    BY DEF TiposOK, VendasTypeOK
  <2>2. z \in Passos
    BY DEF Passos
  <2>3. txv' = [f EXCEPT ![t].passo = z]
    BY DEF Item, TiposOK, VendasTypeOK
  <2> HIDE DEF f, z
  <2>4. txv' \in [VendaTx -> [passo: Passos, feitos: SUBSET Produtos, uso: Int, em: Nat]]
    BY <2>1, <2>2, <2>3
  <2>5. QED
    BY <2>4 DEF Item, TiposOK, VendasTypeOK
<1>6. QED
  BY <1>4, <1>5

LEMMA RepetirTipos ==
    ASSUME TiposOK, NEW t \in VendaTx, Repetir(t)
    PROVE  CadastroTypeOK' /\ VendasTypeOK'
<1>1. PICK v \in Anterior(t) : Encerrar(t, IF MesmoConteudo(v, t) THEN v ELSE "CONFLITO")
  BY DEF Repetir
<1>2. v \in Requisicoes
  BY DEF Anterior
<1>3. QED
  BY <1>1, <1>2, EncerrarTipos DEF Recusas

LEMMA RetiradaTipo ==
    ASSUME TiposOK, NEW t \in Requisicoes
    PROVE  Retirada(t) \in [Estantes -> Int]
<1>1. t \in VendaTx
  BY DEF VendaTx
<1>2. pedido[t].itens \in [Produtos -> Nat]
  BY <1>1, ConteudoTipo
<1>3. \A e \in Estantes : e[2] \in Produtos
  BY DEF Estantes
<1>4. QED
  BY <1>2, <1>3 DEF Retirada

LEMMA DevolucaoTipo ==
    ASSUME TiposOK, NEW t \in Estornos
    PROVE  Devolucao(t) \in [Estantes -> Int]
<1>1. t \in VendaTx
  BY DEF VendaTx
<1>2. Conteudo(t).itens \in [Produtos -> Nat]
  BY <1>1, ConteudoTipo
<1>3. \A e \in Estantes : e[2] \in Produtos
  BY DEF Estantes
<1>4. QED
  BY <1>2, <1>3 DEF Devolucao

LEMMA RequisicaoTipos ==
    ASSUME TiposOK, NEW t \in Requisicoes,
           \/ ConsultarChave(t) \/ AbrirVenda(t) \/ ValidarVenda(t) \/ SairItem(t)
           \/ UsarCupom(t) \/ ComprarCliente(t) \/ ConfirmarVenda(t)
    PROVE  CadastroTypeOK' /\ VendasTypeOK'
<1>t. t \in VendaTx /\ t \in Transacoes
  BY VendasAssumption DEF VendaTx
<1>s. AposItens(t) \in Passos /\ AposCliente(t) \in Passos
  BY DEF AposItens, AposCliente, Passos
<1>c. Conteudo(t) = pedido[t] /\ pedido[t].cliente \in Clientes \cup {Nenhum}
      /\ pedido[t].cupom \in Cupons \cup {Nenhum}
  BY <1>t, ConteudoTipo
<1>1. CASE ConsultarChave(t)
  <2>1. CASE Repetir(t)
    BY <1>t, <2>1, RepetirTipos
  <2>2. CASE ~Repetir(t)
    <3>1. Ir(t, "abrir") /\ UNCHANGED <<cadastro, pedido, alvo, venda, cupom, relogio, lida, resp>>
      BY <1>1, <2>2 DEF ConsultarChave
    <3>2. QED
      BY <3>1 DEF Ir, cadastro, TiposOK, CadastroTypeOK, VendasTypeOK, Passos
  <2>3. QED
    BY <2>1, <2>2
<1>2. CASE AbrirVenda(t)
  BY <1>2, <1>t, RepetirTipos, EscreverTipos DEF AbrirVenda, Passos
<1>3. CASE ValidarVenda(t)
  <2>1. CASE Encerrar(t, "RECUSADA") \/ Encerrar(t, "UNICIDADE")
    BY <2>1, <1>t, EncerrarTipos DEF Recusas
  <2>2. CASE /\ txv' = [txv EXCEPT ![t].passo = "itens", ![t].em = relogio,
                                  ![t].uso = IF pedido[t].cupom = Nenhum THEN 0
                                             ELSE cupom[pedido[t].cupom].uso]
             /\ relogio' = relogio + 1
             /\ UNCHANGED <<cadastro, pedido, alvo, venda, cupom, lida, resp>>
    <3> DEFINE u == IF pedido[t].cupom = Nenhum THEN 0 ELSE cupom[pedido[t].cupom].uso
               R == [passo: Passos, feitos: SUBSET Produtos, uso: Int, em: Nat]
               f == [txv EXCEPT ![t].passo = "itens"]
               g == [f EXCEPT ![t].em = relogio]
    <3>1. u \in Int
      BY <1>c DEF TiposOK, VendasTypeOK
    <3>2. f \in [VendaTx -> R]
      BY DEF TiposOK, VendasTypeOK, Passos
    <3>3. relogio \in Nat
      BY DEF TiposOK, VendasTypeOK
    <3>4. txv' = [g EXCEPT ![t].uso = u]
      BY <2>2 DEF TiposOK, VendasTypeOK
    <3> HIDE DEF f, u
    <3>5. g \in [VendaTx -> R]
      BY <3>2, <3>3
    <3> HIDE DEF g
    <3>6. txv' \in [VendaTx -> R]
      BY <3>1, <3>4, <3>5
    <3>7. QED
      BY <2>2, <3>6 DEF cadastro, TiposOK, CadastroTypeOK, VendasTypeOK
  <2>3. QED
    BY <1>3, <2>1, <2>2 DEF ValidarVenda
<1>4. CASE SairItem(t)
  BY <1>4, <1>t, <1>s, ItemTipos, EncerrarTipos DEF SairItem, Recusas
<1>5. CASE UsarCupom(t)
  <2>1. CASE Encerrar(t, "CONFLITO")
    BY <2>1, <1>t, EncerrarTipos DEF Recusas
  <2>2. CASE Desocupada(LinhaCupom(pedido[t].cupom))
             /\ Escrever(t, LinhaCupom(pedido[t].cupom), AposCliente(t))
    BY <2>2, <1>t, <1>s, EscreverTipos
  <2>3. QED
    BY <1>5, <2>1, <2>2 DEF UsarCupom
<1>6. CASE ComprarCliente(t)
  BY <1>6, <1>t, EncerrarTipos, EscreverTipos DEF ComprarCliente, Recusas, Passos
<1>7. CASE ConfirmarVenda(t)
  <2>1. saldo' \in [Estantes -> Int] /\ livro' \in [Estantes -> Int]
    BY <1>7, RetiradaTipo, MovimentarTipo DEF ConfirmarVenda, TiposOK
  <2>2. trava' \in [Linhas -> Transacoes \cup {Livre}]
    BY <1>7, <1>t, SoltarTipo DEF ConfirmarVenda, TiposOK
  <2>3. CadastroTypeOK'
    BY <1>7, <2>1, <2>2 DEF ConfirmarVenda, TiposOK, CadastroTypeOK
  <2>4. cupom' \in [Cupons -> [existe: BOOLEAN, valido: BOOLEAN, uso: Int, max: Nat]]
    BY <1>7 DEF ConfirmarVenda, TiposOK, VendasTypeOK
  <2>5. VendasTypeOK'
    <3>1. txv[t].em \in Nat
      BY <1>t DEF TiposOK, VendasTypeOK
    <3>2. venda' \in [Requisicoes -> [status: {"AUSENTE", "CONCLUIDA", "ESTORNADA"},
                                     cupom: Cupons \cup {Nenhum}, em: Nat]]
      BY <1>7, <1>c, <3>1 DEF ConfirmarVenda, TiposOK, VendasTypeOK
    <3>3. txv' \in [VendaTx -> [passo: Passos, feitos: SUBSET Produtos, uso: Int, em: Nat]]
      BY <1>7, <1>t DEF ConfirmarVenda, TiposOK, VendasTypeOK, Ir, Passos
    <3>4. resp' \in [VendaTx -> Requisicoes \cup Recusas \cup {Nenhum}]
      BY <1>7, <1>t DEF ConfirmarVenda, TiposOK, VendasTypeOK
    <3>5. QED
      BY <1>7, <2>4, <3>2, <3>3, <3>4 DEF ConfirmarVenda, TiposOK, VendasTypeOK
  <2>6. QED
    BY <2>3, <2>5
<1>8. QED
  BY <1>1, <1>2, <1>3, <1>4, <1>5, <1>6, <1>7

LEMMA EstornoTipos ==
    ASSUME TiposOK, NEW t \in Estornos,
           \/ AbrirEstorno(t) \/ DevolverItem(t) \/ DevolverCupom(t)
           \/ LerAtividade(t) \/ GravarCliente(t) \/ ConfirmarEstorno(t)
    PROVE  CadastroTypeOK' /\ VendasTypeOK'
<1>t. t \in VendaTx /\ t \in Transacoes /\ alvo[t] \in Requisicoes
  BY VendasAssumption DEF VendaTx, TiposOK, VendasTypeOK
<1>s. AposCupom(t) \in Passos
  BY DEF AposCupom, Passos
<1>1. CASE AbrirEstorno(t)
  BY <1>1, <1>t, EncerrarTipos, EscreverTipos DEF AbrirEstorno, Recusas, Passos
<1>2. CASE DevolverItem(t)
  BY <1>2, <1>t, <1>s, ItemTipos DEF DevolverItem, Passos
<1>3. CASE DevolverCupom(t)
  <2>1. CASE Escrever(t, LinhaCupom(venda[alvo[t]].cupom), AposCupom(t))
    BY <2>1, <1>t, <1>s, EscreverTipos
  <2>2. CASE /\ Ir(t, AposCupom(t))
             /\ UNCHANGED <<cadastro, pedido, alvo, venda, cupom, relogio, lida, resp>>
    BY <2>2, <1>t, <1>s DEF Ir, cadastro, TiposOK, CadastroTypeOK, VendasTypeOK
  <2>3. QED
    BY <1>3, <2>1, <2>2 DEF DevolverCupom
<1>4. CASE LerAtividade(t)
  <2>1. /\ Ir(t, "cliente")
        /\ UNCHANGED <<cadastro, pedido, alvo, venda, cupom, relogio, resp>>
    BY <1>4 DEF LerAtividade
  <2>2. QED
    BY <2>1, <1>t DEF Ir, Passos, cadastro, TiposOK, CadastroTypeOK, VendasTypeOK
<1>5. CASE GravarCliente(t)
  BY <1>5, <1>t, EscreverTipos DEF GravarCliente, Passos
<1>6. CASE ConfirmarEstorno(t)
  <2>1. saldo' \in [Estantes -> Int] /\ livro' \in [Estantes -> Int]
    BY <1>6, DevolucaoTipo, MovimentarTipo DEF ConfirmarEstorno, TiposOK
  <2>2. trava' \in [Linhas -> Transacoes \cup {Livre}]
    BY <1>6, <1>t, SoltarTipo DEF ConfirmarEstorno, TiposOK
  <2>3. CadastroTypeOK'
    BY <1>6, <2>1, <2>2 DEF ConfirmarEstorno, TiposOK, CadastroTypeOK
  <2>4. \A c \in Cupons : CupomAposEstorno(t)[c] \in
            [existe: BOOLEAN, valido: BOOLEAN, uso: Int, max: Nat]
    BY DEF CupomAposEstorno, TiposOK, VendasTypeOK
  <2>c. cupom' \in [Cupons -> [existe: BOOLEAN, valido: BOOLEAN, uso: Int, max: Nat]]
    BY <1>6, <2>4 DEF ConfirmarEstorno, CupomAposEstorno
  <2>5. VendasTypeOK'
    <3>1. venda' \in [Requisicoes -> [status: {"AUSENTE", "CONCLUIDA", "ESTORNADA"},
                                     cupom: Cupons \cup {Nenhum}, em: Nat]]
      BY <1>6, <1>t DEF ConfirmarEstorno, TiposOK, VendasTypeOK
    <3>2. txv' \in [VendaTx -> [passo: Passos, feitos: SUBSET Produtos, uso: Int, em: Nat]]
      BY <1>6, <1>t DEF ConfirmarEstorno, TiposOK, VendasTypeOK, Ir, Passos
    <3>3. resp' \in [VendaTx -> Requisicoes \cup Recusas \cup {Nenhum}]
      BY <1>6, <1>t DEF ConfirmarEstorno, TiposOK, VendasTypeOK
    <3>4. QED
      BY <1>6, <2>c, <3>1, <3>2, <3>3 DEF ConfirmarEstorno, TiposOK, VendasTypeOK
  <2>6. QED
    BY <2>3, <2>5
<1>7. QED
  BY <1>1, <1>2, <1>3, <1>4, <1>5, <1>6

LEMMA CupomTipos ==
    ASSUME TiposOK, NEW c \in Cupons, AtualizarCupom(c) \/ ExcluirCupom(c), VendasAssumption
    PROVE  CadastroTypeOK' /\ VendasTypeOK'
<1>1. CASE AtualizarCupom(c)
  <2>1. PICK v \in BOOLEAN, m \in Limites :
          cupom' = [cupom EXCEPT ![c].valido = v, ![c].max = m]
    BY <1>1 DEF AtualizarCupom
  <2> DEFINE f == [cupom EXCEPT ![c].valido = v]
             R == [existe: BOOLEAN, valido: BOOLEAN, uso: Int, max: Nat]
  <2>2. m \in Nat
    BY VendasAssumption
  <2>3. f \in [Cupons -> R]
    BY DEF TiposOK, VendasTypeOK
  <2>4. cupom' = [f EXCEPT ![c].max = m]
    BY <2>1 DEF TiposOK, VendasTypeOK
  <2> HIDE DEF f
  <2>5. cupom' \in [Cupons -> R]
    BY <2>2, <2>3, <2>4
  <2>6. QED
    BY <1>1, <2>5 DEF AtualizarCupom, cadastro, TiposOK, CadastroTypeOK, VendasTypeOK
<1>2. CASE ExcluirCupom(c)
  <2>1. cupom' \in [Cupons -> [existe: BOOLEAN, valido: BOOLEAN, uso: Int, max: Nat]]
    <3>1. ASSUME NEW v \in BOOLEAN
          PROVE  [cupom EXCEPT ![c].existe = v] \in
                    [Cupons -> [existe: BOOLEAN, valido: BOOLEAN, uso: Int, max: Nat]]
      BY DEF TiposOK, VendasTypeOK
    <3>2. QED
      BY <1>2, <3>1 DEF ExcluirCupom
  <2>2. venda' \in [Requisicoes -> [status: {"AUSENTE", "CONCLUIDA", "ESTORNADA"},
                                   cupom: Cupons \cup {Nenhum}, em: Nat]]
    <3>1. ASSUME NEW v \in Requisicoes
          PROVE  [venda[v] EXCEPT !.cupom = Nenhum] \in
              [status: {"AUSENTE", "CONCLUIDA", "ESTORNADA"}, cupom: Cupons \cup {Nenhum}, em: Nat]
      <4> DEFINE x == venda[v]
      <4>1. x \in [status: {"AUSENTE", "CONCLUIDA", "ESTORNADA"}, cupom: Cupons \cup {Nenhum}, em: Nat]
        BY DEF TiposOK, VendasTypeOK
      <4> HIDE DEF x
      <4>2. [x EXCEPT !.cupom = Nenhum] \in
              [status: {"AUSENTE", "CONCLUIDA", "ESTORNADA"}, cupom: Cupons \cup {Nenhum}, em: Nat]
        BY <4>1
      <4>3. QED
        BY <4>2 DEF x
    <3>2. QED
      BY <1>2, <3>1 DEF ExcluirCupom, TiposOK, VendasTypeOK
  <2>3. UNCHANGED <<cadastro, pedido, alvo, relogio, txv, lida, resp>>
    BY <1>2 DEF ExcluirCupom
  <2>4. CadastroTypeOK'
    BY <2>3 DEF cadastro, TiposOK, CadastroTypeOK
  <2>5. QED
    BY <2>1, <2>2, <2>3, <2>4 DEF TiposOK, VendasTypeOK
<1>3. QED
  BY <1>1, <1>2

LEMMA VendasTipos ==
    TiposOK /\ VendasNext /\ UNCHANGED atendimento => TiposOK'
<1> SUFFICES ASSUME TiposOK, VendasNext, UNCHANGED atendimento
             PROVE  TiposOK'
  OBVIOUS
<1>1. AtendimentoTypeOK'
  BY DEF TiposOK, AtendimentoTypeOK, atendimento
<1>2. ASSUME NEW t \in VendaTx, Abortar(t) PROVE CadastroTypeOK' /\ VendasTypeOK'
  BY <1>2, EncerrarTipos DEF Abortar, Recusas
<1>3. CadastroTypeOK' /\ VendasTypeOK'
  BY <1>2, RequisicaoTipos, EstornoTipos, CupomTipos, VendasAssumption DEF VendasNext
<1>4. QED
  BY <1>1, <1>3 DEF TiposOK

-----------------------------------------------------------------------------
(***************************************************************************)
(* The transactions of Atendimento.                                        *)
(***************************************************************************)
RegistroA == [passo: PassosA, lido: Status, itens: SUBSET Produtos,
              feitos: SUBSET Produtos, faltas: SUBSET Produtos]

LEMMA EncerrarATipos ==
    ASSUME TiposOK, NEW t \in Chamadas, EncerrarA(t)
    PROVE  CadastroTypeOK' /\ AtendimentoTypeOK'
<1>1. t \in Transacoes
  BY AtendimentoAssumption
<1>2. trava' \in [Linhas -> Transacoes \cup {Livre}]
  BY <1>1, SoltarTipo DEF EncerrarA, TiposOK
<1>3. CadastroTypeOK'
  BY <1>2 DEF EncerrarA, TiposOK, CadastroTypeOK
<1>4. AtendimentoTypeOK'
  BY DEF EncerrarA, TiposOK, AtendimentoTypeOK, PassosA
<1>5. QED
  BY <1>3, <1>4

\* A step that only takes a lock, or none, and moves its own record.
LEMMA PassoATipos ==
    ASSUME TiposOK, NEW t \in Chamadas, NEW r, NEW x \in RegistroA,
           Travar(t, r) \/ UNCHANGED trava,
           txa' = [txa EXCEPT ![t] = x],
           UNCHANGED <<ativo, aberta, oferta, saldo, livro, manual, cliente, agendamento,
                       consumo, oper>>
    PROVE  CadastroTypeOK' /\ AtendimentoTypeOK'
<1>1. t \in Transacoes
  BY AtendimentoAssumption
<1>2. trava' \in [Linhas -> Transacoes \cup {Livre}]
  BY <1>1, TravarTipo DEF TiposOK, CadastroTypeOK
<1>3. CadastroTypeOK'
  BY <1>2 DEF TiposOK, CadastroTypeOK
<1>4. AtendimentoTypeOK'
  BY DEF TiposOK, AtendimentoTypeOK, RegistroA
<1>5. QED
  BY <1>3, <1>4

LEMMA AtendimentoTipos ==
    TiposOK /\ AtendimentoNext /\ UNCHANGED vendas => TiposOK'
<1> SUFFICES ASSUME TiposOK, AtendimentoNext, UNCHANGED vendas PROVE TiposOK'
  OBVIOUS
<1>v. VendasTypeOK'
  BY DEF TiposOK, VendasTypeOK, vendas
<1>n. PICK t \in Chamadas :
        \/ LerAgendamento(t) \/ MudarStatus(t) \/ RegistrarVisita(t) \/ Bloquear(t)
        \/ ConsumirItem(t) \/ ConfirmarAtendimento(t) \/ AbortarA(t)
  BY DEF AtendimentoNext
<1>t. /\ t \in Transacoes /\ Alvo(t) \in Agendamentos /\ oper[t].para \in Status
      /\ txa[t] \in RegistroA
      /\ agendamento[Alvo(t)] \in [status: Status, pendencias: SUBSET Produtos,
                                   anuladas: SUBSET Produtos]
      /\ InsumoDe(Alvo(t)) \in [Produtos -> Nat]
  BY AtendimentoAssumption, CadastroAssumption
     DEF TiposOK, CadastroTypeOK, AtendimentoTypeOK, RegistroA, Alvo, InsumoDe
<1>p. "cas" \in PassosA /\ "visita" \in PassosA /\ "itens" \in PassosA
      /\ "commit" \in PassosA /\ "fim" \in PassosA /\ \A i : AposVisita(i) \in PassosA
  BY DEF PassosA, AposVisita
<1>e. CASE EncerrarA(t)
  BY <1>e, <1>v, EncerrarATipos DEF TiposOK
<1> DEFINE Quieto == UNCHANGED <<ativo, aberta, oferta, saldo, livro, manual, cliente,
                                 agendamento, consumo, oper>>
<1>1. ASSUME NEW r, NEW x \in RegistroA, Travar(t, r) \/ UNCHANGED trava,
             txa' = [txa EXCEPT ![t] = x], Quieto
      PROVE  TiposOK'
  BY <1>1, <1>v, PassoATipos DEF TiposOK
<1>2. CASE LerAgendamento(t) /\ ~EncerrarA(t)
  <2> DEFINE x == [txa[t] EXCEPT !.passo = "cas", !.lido = agendamento[Alvo(t)].status]
  <2>1. x \in RegistroA
    BY <1>t, <1>p DEF RegistroA
  <2>2. txa' = [txa EXCEPT ![t] = x] /\ UNCHANGED <<cadastro, oper>>
    BY <1>2 DEF LerAgendamento, TiposOK, AtendimentoTypeOK
  <2>3. QED
    BY <1>1, <2>1, <2>2 DEF cadastro
<1>3. CASE MudarStatus(t) /\ ~EncerrarA(t)
  <2> DEFINE i == IF Conclui(t) THEN InsumosDe(Alvo(t)) ELSE {}
             s == IF Conclui(t) THEN "visita" ELSE "commit"
             x == [txa[t] EXCEPT !.passo = s, !.itens = i]
  <2>1. x \in RegistroA
    BY <1>t, <1>p DEF RegistroA, InsumosDe
  <2>2. txa' = [txa EXCEPT ![t] = x] /\ Travar(t, LinhaAgenda(Alvo(t))) /\ Quieto
    BY <1>3 DEF MudarStatus, TiposOK, AtendimentoTypeOK
  <2>3. QED
    BY <1>1, <2>1, <2>2
<1>4. CASE RegistrarVisita(t)
  <2> DEFINE x == [txa[t] EXCEPT !.passo = AposVisita(txa[t].itens)]
  <2>1. x \in RegistroA
    BY <1>t, <1>p DEF RegistroA
  <2>2. /\ txa' = [txa EXCEPT ![t] = x]
        /\ Travar(t, LinhaCliente(ClienteDe[Alvo(t)])) \/ UNCHANGED trava
        /\ Quieto
    BY <1>4 DEF RegistrarVisita, TiposOK, AtendimentoTypeOK
  <2>3. QED
    BY <1>1, <2>1, <2>2
<1>5. CASE Bloquear(t) /\ ~EncerrarA(t)
  <2> DEFINE i == agendamento[Alvo(t)].pendencias
             s == IF oper[t].tipo = "REPROCESSAR" THEN AposVisita(i) ELSE "commit"
             x == [txa[t] EXCEPT !.itens = i, !.passo = s]
  <2>1. x \in RegistroA
    BY <1>t, <1>p DEF RegistroA
  <2>2. txa' = [txa EXCEPT ![t] = x] /\ Travar(t, LinhaAgenda(Alvo(t))) /\ Quieto
    BY <1>5 DEF Bloquear, TiposOK, AtendimentoTypeOK
  <2>3. QED
    BY <1>1, <2>1, <2>2
<1>6. CASE ConsumirItem(t)
  <2>1. PICK p \in txa[t].itens, s \in {"commit", "itens"} :
          \/ /\ Travar(t, Estante(Central, p))
             /\ txa' = [txa EXCEPT ![t].passo = s, ![t].feitos = @ \cup {p}]
          \/ /\ UNCHANGED trava
             /\ txa' = [txa EXCEPT ![t].passo = s, ![t].faltas = @ \cup {p}]
    BY <1>6 DEF ConsumirItem
  <2> DEFINE x == [txa[t] EXCEPT !.passo = s, !.feitos = @ \cup {p}]
             y == [txa[t] EXCEPT !.passo = s, !.faltas = @ \cup {p}]
  <2>2. p \in Produtos
    BY <1>t DEF RegistroA
  <2>3. x \in RegistroA /\ y \in RegistroA
    BY <1>t, <1>p, <2>2 DEF RegistroA
  <2>4. \/ Travar(t, Estante(Central, p)) /\ txa' = [txa EXCEPT ![t] = x]
        \/ UNCHANGED trava /\ txa' = [txa EXCEPT ![t] = y]
    BY <2>1 DEF TiposOK, AtendimentoTypeOK
  <2>5. Quieto
    BY <1>6 DEF ConsumirItem
  <2> HIDE DEF x, y
  <2>6. QED
    BY <1>1, <2>3, <2>4, <2>5
<1>7. CASE ConfirmarAtendimento(t)
  <2>1. Consumida(t) \in [Estantes -> Int]
    BY <1>t DEF Consumida, Estantes
  <2>2. saldo' \in [Estantes -> Int] /\ livro' \in [Estantes -> Int]
    BY <1>7, <2>1, MovimentarTipo DEF ConfirmarAtendimento, TiposOK
  <2>3. trava' \in [Linhas -> Transacoes \cup {Livre}]
    BY <1>7, <1>t, SoltarTipo DEF ConfirmarAtendimento, TiposOK
  <2>4. LinhaFinal(t) \in [status: Status, pendencias: SUBSET Produtos,
                            anuladas: SUBSET Produtos]
    <3> DEFINE a == agendamento[Alvo(t)]
               R == [status: Status, pendencias: SUBSET Produtos, anuladas: SUBSET Produtos]
    <3>1. oper[t].tipo \in {"STATUS", "REPROCESSAR", "ANULAR"}
      BY AtendimentoAssumption DEF TiposOK, AtendimentoTypeOK, Tipos
    <3>2. \/ Conclui(t) /\ LinhaFinal(t) = [a EXCEPT !.status = "CONCLUIDO", !.pendencias = txa[t].faltas]
          \/ LinhaFinal(t) = [a EXCEPT !.status = oper[t].para]
          \/ LinhaFinal(t) = [a EXCEPT !.pendencias = txa[t].faltas]
          \/ LinhaFinal(t) = [a EXCEPT !.pendencias = {}, !.anuladas = @ \cup txa[t].itens]
      BY <3>1 DEF LinhaFinal, Conclui
    <3>3. a \in R /\ txa[t].faltas \in SUBSET Produtos /\ txa[t].itens \in SUBSET Produtos
      BY <1>t DEF RegistroA
    <3> HIDE DEF a
    <3>4. "CONCLUIDO" \in Status
      BY DEF Status
    <3>5. QED
      BY <3>2, <3>3, <3>4, <1>t
  <2>5. consumo' \in [Agendamentos -> [Produtos -> Nat]]
    <3> DEFINE f == [p \in Produtos |-> IF p \in txa[t].feitos
                        THEN consumo[Alvo(t)][p] + InsumoDe(Alvo(t))[p]
                        ELSE consumo[Alvo(t)][p]]
    <3>1. f \in [Produtos -> Nat]
      BY <1>t DEF TiposOK, CadastroTypeOK
    <3>2. consumo' = [consumo EXCEPT ![Alvo(t)] = f]
      BY <1>7 DEF ConfirmarAtendimento
    <3> HIDE DEF f
    <3>3. QED
      BY <3>1, <3>2 DEF TiposOK, CadastroTypeOK
  <2>6. agendamento' \in [Agendamentos -> [status: Status, pendencias: SUBSET Produtos,
                                          anuladas: SUBSET Produtos]]
    BY <1>7, <2>4 DEF ConfirmarAtendimento, TiposOK, CadastroTypeOK
  <2>7. CadastroTypeOK'
    BY <1>7, <2>2, <2>3, <2>5, <2>6 DEF ConfirmarAtendimento, TiposOK, CadastroTypeOK
  <2>8. AtendimentoTypeOK'
    BY <1>7, <1>p DEF ConfirmarAtendimento, TiposOK, AtendimentoTypeOK
  <2>9. QED
    BY <1>v, <2>7, <2>8 DEF TiposOK
<1>8. QED
  BY <1>n, <1>e, <1>2, <1>3, <1>4, <1>5, <1>6, <1>7 DEF AbortarA

-----------------------------------------------------------------------------
\* Every row and every transaction keeps its type in every reachable state.
THEOREM TiposSempre == Spec => []TiposOK
<1>1. Init => TiposOK
  BY InitTipos
<1>2. TiposOK /\ [Next]_vars => TiposOK'
  <2>1. TiposOK /\ Next => TiposOK'
    BY CadastroTipos, VendasTipos, AtendimentoTipos DEF Next
  <2>2. TiposOK /\ UNCHANGED vars => TiposOK'
    BY DEF vars, cadastro, vendas, atendimento, TiposOK, CadastroTypeOK, VendasTypeOK,
           AtendimentoTypeOK
  <2>3. QED
    BY <2>1, <2>2
<1>3. QED
  BY <1>1, <1>2, PTL DEF Spec

-----------------------------------------------------------------------------
(***************************************************************************)
(* The stock is safe for any number of transactions, units and products:   *)
(* no balance is negative and every balance is explained by the log.       *)
(*                                                                         *)
(* A commit subtracts what was checked several steps earlier, so the       *)
(* invariant has to say why the check still holds: the row has been locked *)
(* by the transaction since, hence nobody else moved it.                   *)
(***************************************************************************)
ReservaV(t) ==
    txv[t].passo # "fim" =>
        \A p \in txv[t].feitos :
            /\ trava[LinhaItem(t, p)] = t
            /\ t \in Requisicoes =>
                 saldo[<<Conteudo(t).local, p>>] >= Conteudo(t).itens[p]

ReservaA(t) ==
    txa[t].passo # "fim" =>
        \A p \in txa[t].feitos :
            /\ trava[Estante(Central, p)] = t
            /\ saldo[<<Central, p>>] >= InsumoDe(Alvo(t))[p]

\* Every balance is its initial stock plus the movement log.
LivroConfere == \A e \in Estantes : saldo[e] = SaldoInicial[e] + livro[e]

EstoqueInd ==
    /\ TiposOK
    /\ EstoqueNaoNegativo
    /\ LivroConfere
    /\ \A t \in VendaTx : ReservaV(t)
    /\ \A t \in Chamadas : ReservaA(t)

\* What a step of t does to the locks, and to the balances others hold.
TravaDe(t) ==
    \/ Soltar(t)
    \/ \E x : Desocupada(x) /\ Travar(t, x)
    \/ UNCHANGED trava

PassoDe(t) ==
    /\ TravaDe(t)
    /\ UNCHANGED <<pedido, alvo, oper>>
    /\ \A l \in Locais, p \in Produtos :
         trava[Estante(l, p)] \notin {t, Livre} => saldo'[<<l, p>>] = saldo[<<l, p>>]

LEMMA Transacao ==
    /\ Livre \notin Transacoes
    /\ \A t \in VendaTx : t \in Transacoes /\ t # Livre
    /\ \A t \in Chamadas : t \in Transacoes /\ t # Livre /\ t \notin VendaTx
  BY CadastroAssumption, VendasAssumption, AtendimentoAssumption, LojaAssumption DEF VendaTx

LEMMA EstanteLinha ==
    ASSUME NEW l \in Locais, NEW p \in Produtos
    PROVE  Estante(l, p) \in Linhas
  BY DEF Linhas

\* Nobody else's lock is touched.
LEMMA TravaAlheia ==
    ASSUME TiposOK, NEW t, TravaDe(t), NEW r \in Linhas, trava[r] # t, trava[r] # Livre
    PROVE  trava'[r] = trava[r]
<1>1. CASE Soltar(t)
  BY <1>1 DEF Soltar
<1>2. ASSUME NEW x, Desocupada(x), Travar(t, x) PROVE trava'[r] = trava[r]
  BY <1>2 DEF Desocupada, Travar, TiposOK, CadastroTypeOK
<1>3. QED
  BY <1>1, <1>2 DEF TravaDe

LEMMA AlheiaV ==
    ASSUME EstoqueInd, NEW t, PassoDe(t), NEW u \in VendaTx, u # t, txv'[u] = txv[u]
    PROVE  ReservaV(u)'
<1> SUFFICES ASSUME txv[u].passo # "fim", NEW p \in txv[u].feitos
             PROVE  /\ trava'[LinhaItem(u, p)] = u
                    /\ u \in Requisicoes =>
                         saldo'[<<Conteudo(u).local, p>>] >= Conteudo(u).itens[p]
  BY DEF ReservaV, PassoDe, LinhaItem, Conteudo, VendaDe
<1>1. p \in Produtos /\ Conteudo(u).local \in Locais
  BY ConteudoTipo DEF EstoqueInd, TiposOK, VendasTypeOK
<1>2. trava[LinhaItem(u, p)] = u
  BY DEF EstoqueInd, ReservaV
<1>3. LinhaItem(u, p) = Estante(Conteudo(u).local, p) /\ LinhaItem(u, p) \in Linhas
  BY <1>1, EstanteLinha DEF LinhaItem
<1>4. trava'[LinhaItem(u, p)] = u
  BY <1>2, <1>3, TravaAlheia, Transacao DEF PassoDe, EstoqueInd
<1>5. saldo'[<<Conteudo(u).local, p>>] = saldo[<<Conteudo(u).local, p>>]
  BY <1>1, <1>2, <1>3, Transacao DEF PassoDe
<1>6. QED
  BY <1>4, <1>5 DEF EstoqueInd, ReservaV

LEMMA AlheiaA ==
    ASSUME EstoqueInd, NEW t, PassoDe(t), NEW u \in Chamadas, u # t, txa'[u] = txa[u]
    PROVE  ReservaA(u)'
<1> SUFFICES ASSUME txa[u].passo # "fim", NEW p \in txa[u].feitos
             PROVE  /\ trava'[Estante(Central, p)] = u
                    /\ saldo'[<<Central, p>>] >= InsumoDe(Alvo(u))[p]
  BY DEF ReservaA, PassoDe, Alvo
<1>1. p \in Produtos /\ Central \in Locais
  BY DEF EstoqueInd, TiposOK, AtendimentoTypeOK, Locais
<1>2. trava[Estante(Central, p)] = u
  BY DEF EstoqueInd, ReservaA
<1>3. Estante(Central, p) \in Linhas
  BY <1>1, EstanteLinha
<1>4. trava'[Estante(Central, p)] = u
  BY <1>2, <1>3, TravaAlheia, Transacao DEF PassoDe, EstoqueInd
<1>5. saldo'[<<Central, p>>] = saldo[<<Central, p>>]
  BY <1>1, <1>2, Transacao DEF PassoDe
<1>6. QED
  BY <1>4, <1>5 DEF EstoqueInd, ReservaA

\* A step of sale or refund t that moves no stock.
LEMMA PassoVenda ==
    ASSUME EstoqueInd, TiposOK', NEW t \in VendaTx, TravaDe(t),
           UNCHANGED <<pedido, alvo, saldo, livro, oper, txa>>,
           \A u \in VendaTx \ {t} : txv'[u] = txv[u],
           ReservaV(t)'
    PROVE  EstoqueInd'
<1>1. PassoDe(t)
  BY DEF PassoDe
<1>2. \A u \in VendaTx : ReservaV(u)'
  BY <1>1, AlheiaV
<1>3. \A u \in Chamadas : ReservaA(u)'
  BY <1>1, AlheiaA, Transacao
<1>4. EstoqueNaoNegativo' /\ LivroConfere'
  BY DEF EstoqueInd, EstoqueNaoNegativo, LivroConfere
<1>5. QED
  BY <1>2, <1>3, <1>4 DEF EstoqueInd

LEMMA PropriaV ==
    ASSUME EstoqueInd, NEW t \in VendaTx, txv[t].passo # "fim",
           UNCHANGED <<pedido, alvo, saldo>>, txv'[t].feitos = txv[t].feitos,
           \/ UNCHANGED trava
           \/ \E x : Travar(t, x)
    PROVE  ReservaV(t)'
<1> SUFFICES ASSUME NEW p \in txv[t].feitos
             PROVE  /\ trava'[LinhaItem(t, p)] = t
                    /\ t \in Requisicoes =>
                         saldo'[<<Conteudo(t).local, p>>] >= Conteudo(t).itens[p]
  BY DEF ReservaV, LinhaItem, Conteudo, VendaDe
<1>1. p \in Produtos /\ Conteudo(t).local \in Locais
  BY ConteudoTipo DEF EstoqueInd, TiposOK, VendasTypeOK
<1>2. LinhaItem(t, p) \in Linhas
  BY <1>1, EstanteLinha DEF LinhaItem
<1>3. trava[LinhaItem(t, p)] = t
  BY DEF EstoqueInd, ReservaV
<1>4. trava'[LinhaItem(t, p)] = t
  BY <1>2, <1>3 DEF Travar, EstoqueInd, TiposOK, CadastroTypeOK
<1>5. QED
  BY <1>4 DEF EstoqueInd, ReservaV

LEMMA EncerrarV ==
    ASSUME EstoqueInd, TiposOK', NEW t \in VendaTx, NEW x, Encerrar(t, x), UNCHANGED atendimento
    PROVE  EstoqueInd'
<1>1. txv'[t].passo = "fim" /\ \A u \in VendaTx \ {t} : txv'[u] = txv[u]
  BY DEF Encerrar, Ir, EstoqueInd, TiposOK, VendasTypeOK
<1>2. ReservaV(t)'
  BY <1>1 DEF ReservaV
<1>3. QED
  BY <1>1, <1>2, PassoVenda DEF Encerrar, TravaDe, atendimento

LEMMA EscreverV ==
    ASSUME EstoqueInd, TiposOK', NEW t \in VendaTx, txv[t].passo # "fim", NEW r, Desocupada(r),
           NEW s, Escrever(t, r, s), UNCHANGED atendimento
    PROVE  EstoqueInd'
<1>1. /\ txv'[t].feitos = txv[t].feitos
      /\ \A u \in VendaTx \ {t} : txv'[u] = txv[u]
  BY DEF Escrever, Ir, EstoqueInd, TiposOK, VendasTypeOK
<1>2. ReservaV(t)'
  BY <1>1, PropriaV DEF Escrever
<1>3. QED
  BY <1>1, <1>2, PassoVenda DEF Escrever, TravaDe, atendimento

\* A step that only moves t along, taking no lock.
LEMMA AndarV ==
    ASSUME EstoqueInd, TiposOK', NEW t \in VendaTx, txv[t].passo # "fim",
           txv'[t].feitos = txv[t].feitos,
           \A u \in VendaTx \ {t} : txv'[u] = txv[u],
           UNCHANGED <<cadastro, pedido, alvo, atendimento>>
    PROVE  EstoqueInd'
<1>1. ReservaV(t)'
  BY PropriaV DEF cadastro
<1>2. QED
  BY <1>1, PassoVenda DEF TravaDe, cadastro, atendimento

LEMMA ItemV ==
    ASSUME EstoqueInd, TiposOK', NEW t \in VendaTx, txv[t].passo # "fim", NEW p \in Produtos,
           NEW s, Item(t, p, s), UNCHANGED atendimento,
           t \in Requisicoes => saldo[<<Conteudo(t).local, p>>] >= Conteudo(t).itens[p]
    PROVE  EstoqueInd'
<1>1. /\ txv'[t].feitos = txv[t].feitos \cup {p}
      /\ \A u \in VendaTx \ {t} : txv'[u] = txv[u]
  BY DEF Item, EstoqueInd, TiposOK, VendasTypeOK
<1>2. ReservaV(t)'
  <2> SUFFICES ASSUME NEW o \in txv[t].feitos \cup {p}
               PROVE  /\ trava'[LinhaItem(t, o)] = t
                      /\ t \in Requisicoes =>
                           saldo'[<<Conteudo(t).local, o>>] >= Conteudo(t).itens[o]
    BY <1>1 DEF ReservaV, LinhaItem, Conteudo, VendaDe, Item
  <2>1. o \in Produtos /\ Conteudo(t).local \in Locais
    BY ConteudoTipo DEF EstoqueInd, TiposOK, VendasTypeOK
  <2>2. LinhaItem(t, o) \in Linhas
    BY <2>1, EstanteLinha DEF LinhaItem
  <2>3. o # p => trava[LinhaItem(t, o)] = t
    BY DEF EstoqueInd, ReservaV
  <2>4. trava'[LinhaItem(t, o)] = t
    BY <2>2, <2>3 DEF Item, Travar, EstoqueInd, TiposOK, CadastroTypeOK
  <2>5. UNCHANGED saldo
    BY DEF Item
  <2>6. QED
    BY <2>4, <2>5 DEF EstoqueInd, ReservaV
<1>3. QED
  BY <1>1, <1>2, PassoVenda DEF Item, TravaDe, atendimento

\* A commit of t that moves stock by q, only on rows t holds.
LEMMA CommitEstoque ==
    ASSUME EstoqueInd, NEW t, t # Livre, NEW q \in [Estantes -> Int], Movimentar(q), Soltar(t),
           UNCHANGED <<pedido, alvo, oper>>,
           \A l \in Locais, p \in Produtos :
              q[<<l, p>>] # 0 => trava[Estante(l, p)] = t,
           \A e \in Estantes : saldo[e] + q[e] >= 0
    PROVE  EstoqueNaoNegativo' /\ LivroConfere' /\ PassoDe(t)
<1>0. saldo \in [Estantes -> Int] /\ livro \in [Estantes -> Int]
      /\ SaldoInicial \in [Estantes -> Nat]
  BY CadastroAssumption DEF EstoqueInd, TiposOK, CadastroTypeOK
<1>1. EstoqueNaoNegativo' /\ LivroConfere'
  BY <1>0 DEF Movimentar, EstoqueNaoNegativo, LivroConfere, EstoqueInd
<1>2. ASSUME NEW l \in Locais, NEW p \in Produtos, trava[Estante(l, p)] \notin {t, Livre}
      PROVE  saldo'[<<l, p>>] = saldo[<<l, p>>]
  <2>1. <<l, p>> \in Estantes
    BY DEF Estantes
  <2>2. q[<<l, p>>] = 0
    BY <1>2
  <2>3. QED
    BY <1>0, <2>1, <2>2 DEF Movimentar
<1>3. QED
  BY <1>1, <1>2 DEF PassoDe, TravaDe

\* A commit of sale or refund t, once its effect q on the stock is known.
LEMMA CommitV ==
    ASSUME EstoqueInd, TiposOK', NEW t \in VendaTx, NEW q \in [Estantes -> Int],
           Movimentar(q), Soltar(t), Ir(t, "fim"), UNCHANGED <<pedido, alvo, oper, txa>>,
           \A l \in Locais, p \in Produtos :
              q[<<l, p>>] # 0 => trava[Estante(l, p)] = t,
           \A e \in Estantes : saldo[e] + q[e] >= 0
    PROVE  EstoqueInd'
<1>1. EstoqueNaoNegativo' /\ LivroConfere' /\ PassoDe(t)
  BY CommitEstoque, Transacao
<1>2. txv'[t].passo = "fim" /\ \A u \in VendaTx \ {t} : txv'[u] = txv[u]
  BY DEF Ir, EstoqueInd, TiposOK, VendasTypeOK
<1>3. \A u \in VendaTx : ReservaV(u)'
  BY <1>1, <1>2, AlheiaV DEF ReservaV
<1>4. \A u \in Chamadas : ReservaA(u)'
  BY <1>1, AlheiaA, Transacao
<1>5. QED
  BY <1>1, <1>3, <1>4 DEF EstoqueInd

LEMMA VendaCommit ==
    ASSUME EstoqueInd, TiposOK', NEW t \in Requisicoes, ConfirmarVenda(t), UNCHANGED atendimento
    PROVE  EstoqueInd'
<1> DEFINE q == Retirada(t)
<1>0. t \in VendaTx /\ TiposOK
  BY DEF VendaTx, EstoqueInd
<1>1. q \in [Estantes -> Int]
  BY <1>0, RetiradaTipo
<1>2. txv[t].passo # "fim" /\ VendaDe(t) = t /\ Conteudo(t) = pedido[t]
  BY DEF ConfirmarVenda, Em, VendaDe, Conteudo
<1>3. /\ pedido[t].local \in Locais
      /\ \A p \in Produtos : pedido[t].itens[p] \in Nat
      /\ saldo \in [Estantes -> Int]
  BY <1>0, <1>2, ConteudoTipo DEF TiposOK, CadastroTypeOK
<1>4. ASSUME NEW l \in Locais, NEW p \in Produtos
      PROVE  /\ q[<<l, p>>] # 0 => trava[Estante(l, p)] = t
             /\ saldo[<<l, p>>] + q[<<l, p>>] >= 0
  <2>1. <<l, p>> \in Estantes
    BY DEF Estantes
  <2>2. q[<<l, p>>] = IF l = pedido[t].local /\ p \in txv[t].feitos
                      THEN -pedido[t].itens[p] ELSE 0
    BY <2>1 DEF Retirada
  <2>3. saldo[<<l, p>>] \in Int /\ saldo[<<l, p>>] >= 0
    BY <2>1, <1>3 DEF EstoqueInd, EstoqueNaoNegativo
  <2>4. CASE l = pedido[t].local /\ p \in txv[t].feitos
    <3>1. trava[Estante(l, p)] = t /\ saldo[<<l, p>>] >= pedido[t].itens[p]
      BY <1>0, <1>2, <2>4 DEF EstoqueInd, ReservaV, LinhaItem
    <3>2. pedido[t].itens[p] \in Nat
      BY <1>3
    <3>3. q[<<l, p>>] = -pedido[t].itens[p]
      BY <2>2, <2>4
    <3> HIDE DEF q
    <3>4. QED
      BY <3>1, <3>2, <3>3, <2>3
  <2>5. CASE ~(l = pedido[t].local /\ p \in txv[t].feitos)
    <3>1. q[<<l, p>>] = 0
      BY <2>2, <2>5
    <3> HIDE DEF q
    <3>2. QED
      BY <3>1, <2>3
  <2>6. QED
    BY <2>4, <2>5
<1>5. /\ Movimentar(q) /\ Soltar(t) /\ Ir(t, "fim")
      /\ UNCHANGED <<pedido, alvo, oper, txa>>
  BY DEF ConfirmarVenda, atendimento
<1> HIDE DEF q
<1>6. \A e \in Estantes : saldo[e] + q[e] >= 0
  BY <1>4 DEF Estantes
<1>7. QED
  BY <1>0, <1>1, <1>4, <1>5, <1>6, CommitV

LEMMA EstornoCommit ==
    ASSUME EstoqueInd, TiposOK', NEW t \in Estornos, ConfirmarEstorno(t), UNCHANGED atendimento
    PROVE  EstoqueInd'
<1> DEFINE q == Devolucao(t)
<1>0. t \in VendaTx /\ TiposOK
  BY DEF VendaTx, EstoqueInd
<1>1. q \in [Estantes -> Int]
  BY <1>0, DevolucaoTipo
<1>2. txv[t].passo # "fim"
  BY DEF ConfirmarEstorno, Em
<1>3. /\ Conteudo(t).local \in Locais
      /\ \A p \in Produtos : Conteudo(t).itens[p] \in Nat
      /\ saldo \in [Estantes -> Int]
  BY <1>0, ConteudoTipo DEF TiposOK, CadastroTypeOK
<1>4. ASSUME NEW l \in Locais, NEW p \in Produtos
      PROVE  /\ q[<<l, p>>] # 0 => trava[Estante(l, p)] = t
             /\ saldo[<<l, p>>] + q[<<l, p>>] >= 0
  <2>1. <<l, p>> \in Estantes
    BY DEF Estantes
  <2>2. q[<<l, p>>] = IF l = Conteudo(t).local /\ p \in txv[t].feitos
                      THEN Conteudo(t).itens[p] ELSE 0
    BY <2>1 DEF Devolucao
  <2>3. saldo[<<l, p>>] \in Int /\ saldo[<<l, p>>] >= 0
    BY <2>1, <1>3 DEF EstoqueInd, EstoqueNaoNegativo
  <2>4. l = Conteudo(t).local /\ p \in txv[t].feitos => trava[Estante(l, p)] = t
    BY <1>0, <1>2 DEF EstoqueInd, ReservaV, LinhaItem
  <2>5. q[<<l, p>>] \in Nat
    BY <2>2, <1>3
  <2>6. q[<<l, p>>] # 0 => trava[Estante(l, p)] = t
    BY <2>2, <2>4
  <2> HIDE DEF q
  <2>7. QED
    BY <2>3, <2>5, <2>6
<1>5. /\ Movimentar(q) /\ Soltar(t) /\ Ir(t, "fim")
      /\ UNCHANGED <<pedido, alvo, oper, txa>>
  BY DEF ConfirmarEstorno, atendimento
<1> HIDE DEF q
<1>6. \A e \in Estantes : saldo[e] + q[e] >= 0
  BY <1>4 DEF Estantes
<1>7. QED
  BY <1>0, <1>1, <1>4, <1>5, <1>6, CommitV

LEMMA RepetirV ==
    ASSUME EstoqueInd, TiposOK', NEW t \in VendaTx, Repetir(t), UNCHANGED atendimento
    PROVE  EstoqueInd'
  BY EncerrarV DEF Repetir

\* Every statement of a sale.
LEMMA RequisicaoEstoque ==
    ASSUME EstoqueInd, TiposOK', UNCHANGED atendimento, NEW t \in Requisicoes,
           \/ ConsultarChave(t) \/ AbrirVenda(t) \/ ValidarVenda(t) \/ SairItem(t)
           \/ UsarCupom(t) \/ ComprarCliente(t) \/ ConfirmarVenda(t)
    PROVE  EstoqueInd'
<1>0. t \in VendaTx /\ VendaDe(t) = t /\ Conteudo(t) = pedido[t]
  BY DEF VendaTx, VendaDe, Conteudo
<1>v. txv \in [VendaTx -> [passo: Passos, feitos: SUBSET Produtos, uso: Int, em: Nat]]
  BY DEF EstoqueInd, TiposOK, VendasTypeOK
<1>1. CASE ConsultarChave(t)
  <2>1. CASE Repetir(t)
    BY <1>0, <2>1, RepetirV
  <2>2. CASE Ir(t, "abrir") /\ UNCHANGED <<cadastro, pedido, alvo>>
    <3>1. /\ txv'[t].feitos = txv[t].feitos
          /\ \A u \in VendaTx \ {t} : txv'[u] = txv[u]
      BY <1>0, <1>v, <2>2 DEF Ir
    <3>2. txv[t].passo # "fim"
      BY <1>1 DEF ConsultarChave, Em
    <3>3. QED
      BY <1>0, <2>2, <3>1, <3>2, AndarV
  <2>3. QED
    BY <1>1, <2>1, <2>2 DEF ConsultarChave
<1>2. CASE AbrirVenda(t)
  <2>1. txv[t].passo # "fim" /\ Desocupada(Empresa)
    BY <1>2 DEF AbrirVenda, Em
  <2>2. QED
    BY <1>0, <1>2, <2>1, RepetirV, EscreverV DEF AbrirVenda
<1>3. CASE ValidarVenda(t)
  <2>1. CASE \E x : Encerrar(t, x)
    BY <1>0, <2>1, EncerrarV
  <2>2. CASE /\ txv' = [txv EXCEPT ![t].passo = "itens", ![t].em = relogio,
                                ![t].uso = IF pedido[t].cupom = Nenhum THEN 0
                                           ELSE cupom[pedido[t].cupom].uso]
             /\ UNCHANGED <<cadastro, pedido, alvo>>
    <3>1. /\ txv'[t].feitos = txv[t].feitos
          /\ \A u \in VendaTx \ {t} : txv'[u] = txv[u]
      BY <1>0, <1>v, <2>2
    <3>2. txv[t].passo # "fim"
      BY <1>3 DEF ValidarVenda, Em
    <3>3. QED
      BY <1>0, <2>2, <3>1, <3>2, AndarV
  <2>3. QED
    BY <1>3, <2>1, <2>2 DEF ValidarVenda
<1>4. CASE SairItem(t)
  <2>1. PICK p \in Produtos : IF PodeSair(pedido[t].local, p, pedido[t].itens[p])
                              THEN Item(t, p, AposItens(t))
                              ELSE Encerrar(t, "RECUSADA")
    BY <1>4 DEF SairItem
  <2>2. CASE PodeSair(pedido[t].local, p, pedido[t].itens[p])
    <3>1. saldo[<<Conteudo(t).local, p>>] >= Conteudo(t).itens[p]
      BY <1>0, <2>2 DEF PodeSair
    <3>2. txv[t].passo # "fim"
      BY <1>4 DEF SairItem, Em
    <3>3. QED
      BY <1>0, <2>1, <2>2, <3>1, <3>2, ItemV
  <2>3. QED
    BY <1>0, <2>1, <2>2, EncerrarV
<1>5. CASE UsarCupom(t)
  <2>1. txv[t].passo # "fim"
    BY <1>5 DEF UsarCupom, Em
  <2>2. QED
    BY <1>0, <1>5, <2>1, EscreverV, EncerrarV DEF UsarCupom
<1>6. CASE ComprarCliente(t)
  <2>1. txv[t].passo # "fim"
    BY <1>6 DEF ComprarCliente, Em
  <2>2. QED
    BY <1>0, <1>6, <2>1, EscreverV, EncerrarV DEF ComprarCliente
<1>7. CASE ConfirmarVenda(t)
  BY <1>7, VendaCommit
<1>8. QED
  BY <1>1, <1>2, <1>3, <1>4, <1>5, <1>6, <1>7

\* Every statement of a refund.
LEMMA EstornoEstoque ==
    ASSUME EstoqueInd, TiposOK', UNCHANGED atendimento, NEW t \in Estornos,
           \/ AbrirEstorno(t) \/ DevolverItem(t) \/ DevolverCupom(t)
           \/ LerAtividade(t) \/ GravarCliente(t) \/ ConfirmarEstorno(t)
    PROVE  EstoqueInd'
<1>0. t \in VendaTx /\ t \notin Requisicoes
  BY VendasAssumption DEF VendaTx
<1>v. txv \in [VendaTx -> [passo: Passos, feitos: SUBSET Produtos, uso: Int, em: Nat]]
  BY DEF EstoqueInd, TiposOK, VendasTypeOK
<1>a. ASSUME NEW s, Ir(t, s), UNCHANGED <<cadastro, pedido, alvo>>, txv[t].passo # "fim"
      PROVE  EstoqueInd'
  <2>1. /\ txv'[t].feitos = txv[t].feitos
        /\ \A u \in VendaTx \ {t} : txv'[u] = txv[u]
    BY <1>0, <1>v, <1>a DEF Ir
  <2>2. QED
    BY <1>0, <1>a, <2>1, AndarV
<1>1. CASE AbrirEstorno(t)
  <2>1. txv[t].passo # "fim"
    BY <1>1 DEF AbrirEstorno, Em
  <2>2. QED
    BY <1>0, <1>1, <2>1, EscreverV, EncerrarV DEF AbrirEstorno
<1>2. CASE DevolverItem(t)
  <2>1. txv[t].passo # "fim"
    BY <1>2 DEF DevolverItem, Em
  <2>2. QED
    BY <1>0, <1>2, <2>1, ItemV DEF DevolverItem
<1>3. CASE DevolverCupom(t)
  <2>1. txv[t].passo # "fim"
    BY <1>3 DEF DevolverCupom, Em
  <2>2. QED
    BY <1>0, <1>3, <2>1, <1>a, EscreverV DEF DevolverCupom
<1>4. CASE LerAtividade(t)
  <2>1. txv[t].passo # "fim" /\ Ir(t, "cliente") /\ UNCHANGED <<cadastro, pedido, alvo>>
    BY <1>4 DEF LerAtividade, Em
  <2>2. QED
    BY <2>1, <1>a
<1>5. CASE GravarCliente(t)
  <2>1. txv[t].passo # "fim"
    BY <1>5 DEF GravarCliente, Em
  <2>2. QED
    BY <1>0, <1>5, <2>1, EscreverV DEF GravarCliente
<1>6. CASE ConfirmarEstorno(t)
  BY <1>6, EstornoCommit
<1>7. QED
  BY <1>1, <1>2, <1>3, <1>4, <1>5, <1>6

\* What leaves stock, locks and transactions as they are.
LEMMA Alheio ==
    ASSUME EstoqueInd, TiposOK', UNCHANGED <<saldo, livro, trava, pedido, alvo, txv, oper, txa>>
    PROVE  EstoqueInd'
<1>1. \A t \in VendaTx : ReservaV(t)'
  BY DEF EstoqueInd, ReservaV, LinhaItem, Conteudo, VendaDe, Estante
<1>2. \A t \in Chamadas : ReservaA(t)'
  BY DEF EstoqueInd, ReservaA, Alvo, Estante
<1>3. EstoqueNaoNegativo' /\ LivroConfere'
  BY DEF EstoqueInd, EstoqueNaoNegativo, LivroConfere
<1>4. QED
  BY <1>1, <1>2, <1>3 DEF EstoqueInd

\* The manual movement takes the row only while it is free.
LEMMA ManualEstoque ==
    ASSUME EstoqueInd, TiposOK', UNCHANGED <<vendas, atendimento>>, NEW p \in Produtos,
           NEW q \in {-1, 1}, MovimentarManual(p, q)
    PROVE  EstoqueInd'
<1> DEFINE d == [e \in Estantes |-> IF e = <<Central, p>> THEN q ELSE 0]
<1>0. /\ d \in [Estantes -> Int]
      /\ saldo \in [Estantes -> Int] /\ livro \in [Estantes -> Int]
      /\ SaldoInicial \in [Estantes -> Nat]
      /\ <<Central, p>> \in Estantes
  BY CadastroAssumption DEF EstoqueInd, TiposOK, CadastroTypeOK, Estantes, Locais
<1>1. \A e \in Estantes : d[e] = IF e = <<Central, p>> THEN q ELSE 0
  OBVIOUS
<1>2. Movimentar(d) /\ UNCHANGED trava /\ Desocupada(Estante(Central, p))
  BY DEF MovimentarManual
<1>3. q < 0 => saldo[<<Central, p>>] >= -q
  BY DEF MovimentarManual, PodeSair
<1> HIDE DEF d
<1>4. EstoqueNaoNegativo'
  <2>1. ASSUME NEW e \in Estantes PROVE saldo[e] + d[e] >= 0
    <3>1. saldo[e] \in Int /\ saldo[e] >= 0
      BY <1>0 DEF EstoqueInd, EstoqueNaoNegativo
    <3>2. CASE e = <<Central, p>>
      BY <3>1, <3>2, <1>1, <1>3
    <3>3. CASE e # <<Central, p>>
      BY <3>1, <3>3, <1>1
    <3>4. QED
      BY <3>2, <3>3
  <2>2. QED
    BY <2>1, <1>2 DEF Movimentar, EstoqueNaoNegativo
<1>5. LivroConfere'
  BY <1>0, <1>2 DEF Movimentar, LivroConfere, EstoqueInd
<1>6. PassoDe(Livre)
  <2>1. ASSUME NEW l \in Locais, NEW o \in Produtos, trava[Estante(l, o)] # Livre
        PROVE  saldo'[<<l, o>>] = saldo[<<l, o>>]
    <3>1. <<l, o>> \in Estantes
      BY DEF Estantes
    <3>2. <<l, o>> # <<Central, p>>
      BY <2>1, <1>2 DEF Desocupada
    <3>3. d[<<l, o>>] = 0
      BY <1>1, <3>1, <3>2
    <3>4. QED
      BY <1>0, <1>2, <3>1, <3>3 DEF Movimentar
  <2>2. QED
    BY <1>2, <2>1 DEF PassoDe, TravaDe, vendas, atendimento
<1>7. \A t \in VendaTx : ReservaV(t)'
  BY <1>6, AlheiaV, Transacao DEF vendas
<1>8. \A t \in Chamadas : ReservaA(t)'
  BY <1>6, AlheiaA, Transacao DEF atendimento
<1>9. QED
  BY <1>4, <1>5, <1>7, <1>8 DEF EstoqueInd

LEMMA CadastroEstoque ==
    ASSUME EstoqueInd, TiposOK', CadastroNext, UNCHANGED <<vendas, atendimento>>
    PROVE  EstoqueInd'
<1>1. ASSUME NEW p \in Produtos, NEW q \in {-1, 1}, MovimentarManual(p, q) PROVE EstoqueInd'
  BY <1>1, ManualEstoque
<1>2. ASSUME NEW p \in Produtos, DesativarProduto(p) PROVE EstoqueInd'
  BY <1>2, Alheio DEF DesativarProduto, vendas, atendimento
<1>3. ASSUME NEW f \in Filiais, SalvarFilial(f) PROVE EstoqueInd'
  BY <1>3, Alheio DEF SalvarFilial, vendas, atendimento
<1>4. ASSUME NEW c \in Clientes, DesativarCliente(c) PROVE EstoqueInd'
  BY <1>4, Alheio DEF DesativarCliente, vendas, atendimento
<1>5. ASSUME NEW s \in Servicos, DesativarServico(s) PROVE EstoqueInd'
  BY <1>5, Alheio DEF DesativarServico, vendas, atendimento
<1>6. QED
  BY <1>1, <1>2, <1>3, <1>4, <1>5 DEF CadastroNext

LEMMA VendasEstoque ==
    ASSUME EstoqueInd, TiposOK', VendasNext, UNCHANGED atendimento
    PROVE  EstoqueInd'
<1>1. ASSUME NEW t \in VendaTx, Abortar(t) PROVE EstoqueInd'
  BY <1>1, EncerrarV DEF Abortar
<1>2. ASSUME NEW c \in Cupons, AtualizarCupom(c) \/ ExcluirCupom(c) PROVE EstoqueInd'
  BY <1>2, Alheio DEF AtualizarCupom, ExcluirCupom, cadastro, atendimento
<1>3. QED
  BY <1>1, <1>2, RequisicaoEstoque, EstornoEstoque DEF VendasNext

-----------------------------------------------------------------------------
\* A step of appointment call t that moves no stock.
LEMMA PassoAtend ==
    ASSUME EstoqueInd, TiposOK', NEW t \in Chamadas, TravaDe(t),
           UNCHANGED <<saldo, livro, oper, vendas>>,
           \A u \in Chamadas \ {t} : txa'[u] = txa[u],
           ReservaA(t)'
    PROVE  EstoqueInd'
<1>1. PassoDe(t)
  BY DEF PassoDe, vendas
<1>2. \A u \in VendaTx : ReservaV(u)'
  BY <1>1, AlheiaV, Transacao DEF vendas
<1>3. \A u \in Chamadas : ReservaA(u)'
  BY <1>1, AlheiaA
<1>4. EstoqueNaoNegativo' /\ LivroConfere'
  BY DEF EstoqueInd, EstoqueNaoNegativo, LivroConfere
<1>5. QED
  BY <1>2, <1>3, <1>4 DEF EstoqueInd

\* A statement of t that takes at most one lock and consumes nothing yet.
LEMMA AndarA ==
    ASSUME EstoqueInd, TiposOK', NEW t \in Chamadas, txa[t].passo # "fim",
           txa'[t].feitos = txa[t].feitos,
           \A u \in Chamadas \ {t} : txa'[u] = txa[u],
           UNCHANGED <<saldo, livro, oper, vendas>>,
           \/ UNCHANGED trava
           \/ \E x : Desocupada(x) /\ Travar(t, x)
    PROVE  EstoqueInd'
<1>1. ReservaA(t)'
  <2> SUFFICES ASSUME NEW p \in txa[t].feitos
               PROVE  /\ trava'[Estante(Central, p)] = t
                      /\ saldo'[<<Central, p>>] >= InsumoDe(Alvo(t))[p]
    BY DEF ReservaA, Alvo
  <2>1. p \in Produtos /\ Central \in Locais
    BY DEF EstoqueInd, TiposOK, AtendimentoTypeOK, Locais
  <2>2. Estante(Central, p) \in Linhas
    BY <2>1, EstanteLinha
  <2>3. trava[Estante(Central, p)] = t
    BY DEF EstoqueInd, ReservaA
  <2>4. trava'[Estante(Central, p)] = t
    BY <2>2, <2>3 DEF Travar, EstoqueInd, TiposOK, CadastroTypeOK
  <2>5. QED
    BY <2>4 DEF EstoqueInd, ReservaA
<1>2. QED
  BY <1>1, PassoAtend DEF TravaDe

LEMMA EncerrarAEstoque ==
    ASSUME EstoqueInd, TiposOK', NEW t \in Chamadas, EncerrarA(t), UNCHANGED vendas
    PROVE  EstoqueInd'
<1>1. txa'[t].passo = "fim" /\ \A u \in Chamadas \ {t} : txa'[u] = txa[u]
  BY DEF EncerrarA, EstoqueInd, TiposOK, AtendimentoTypeOK
<1>2. ReservaA(t)'
  BY <1>1 DEF ReservaA
<1>3. QED
  BY <1>1, <1>2, PassoAtend DEF EncerrarA, TravaDe

LEMMA ConsumirEstoque ==
    ASSUME EstoqueInd, TiposOK', NEW t \in Chamadas, ConsumirItem(t), UNCHANGED vendas
    PROVE  EstoqueInd'
<1>0. txa \in [Chamadas -> [passo: PassosA, lido: Status, itens: SUBSET Produtos,
                            feitos: SUBSET Produtos, faltas: SUBSET Produtos]]
  BY DEF EstoqueInd, TiposOK, AtendimentoTypeOK
<1>f. txa[t].passo # "fim"
  BY DEF ConsumirItem, EmA
<1>u. UNCHANGED <<saldo, livro, oper>>
  BY DEF ConsumirItem
<1>1. PICK p \in Produtos, s \in PassosA :
        IF PodeSair(Central, p, InsumoDe(Alvo(t))[p])
        THEN /\ Desocupada(Estante(Central, p))
             /\ Travar(t, Estante(Central, p))
             /\ txa' = [txa EXCEPT ![t].passo = s, ![t].feitos = @ \cup {p}]
        ELSE /\ UNCHANGED trava
             /\ txa' = [txa EXCEPT ![t].passo = s, ![t].faltas = @ \cup {p}]
  <2>1. PICK p \in txa[t].itens \ (txa[t].feitos \cup txa[t].faltas) :
         LET resta == txa[t].itens \ (txa[t].feitos \cup txa[t].faltas)
             s == IF resta = {p} THEN "commit" ELSE "itens"
         IN
         IF PodeSair(Central, p, InsumoDe(Alvo(t))[p])
         THEN /\ Desocupada(Estante(Central, p))
              /\ Travar(t, Estante(Central, p))
              /\ txa' = [txa EXCEPT ![t].passo = s, ![t].feitos = @ \cup {p}]
         ELSE /\ UNCHANGED trava
              /\ txa' = [txa EXCEPT ![t].passo = s, ![t].faltas = @ \cup {p}]
    BY DEF ConsumirItem
  <2>2. p \in Produtos
    BY <1>0
  <2>3. "commit" \in PassosA /\ "itens" \in PassosA
    BY DEF PassosA
  <2>4. QED
    BY <2>1, <2>2, <2>3
<1>2. CASE PodeSair(Central, p, InsumoDe(Alvo(t))[p])
  <2>1. /\ txa'[t].feitos = txa[t].feitos \cup {p}
        /\ \A u \in Chamadas \ {t} : txa'[u] = txa[u]
    BY <1>0, <1>1, <1>2
  <2>2. ReservaA(t)'
    <3> SUFFICES ASSUME NEW o \in txa[t].feitos \cup {p}
                 PROVE  /\ trava'[Estante(Central, o)] = t
                        /\ saldo'[<<Central, o>>] >= InsumoDe(Alvo(t))[o]
      BY <2>1, <1>u DEF ReservaA, Alvo
    <3>1. o \in Produtos /\ Central \in Locais
      BY <1>0 DEF Locais
    <3>2. Estante(Central, o) \in Linhas
      BY <3>1, EstanteLinha
    <3>3. o # p => trava[Estante(Central, o)] = t /\ saldo[<<Central, o>>] >= InsumoDe(Alvo(t))[o]
      BY <1>f DEF EstoqueInd, ReservaA
    <3>4. trava'[Estante(Central, o)] = t
      BY <1>1, <1>2, <3>2, <3>3 DEF Travar, EstoqueInd, TiposOK, CadastroTypeOK
    <3>5. QED
      BY <1>u, <1>2, <3>3, <3>4 DEF PodeSair
  <2>3. TravaDe(t)
    BY <1>1, <1>2 DEF TravaDe
  <2>4. QED
    BY <1>u, <2>1, <2>2, <2>3, PassoAtend
<1>3. CASE ~PodeSair(Central, p, InsumoDe(Alvo(t))[p])
  <2>1. /\ txa'[t].feitos = txa[t].feitos
        /\ \A u \in Chamadas \ {t} : txa'[u] = txa[u]
    BY <1>0, <1>1, <1>3
  <2>2. QED
    BY <1>f, <1>u, <1>1, <1>3, <2>1, AndarA
<1>4. QED
  BY <1>2, <1>3

LEMMA AtendimentoCommit ==
    ASSUME EstoqueInd, TiposOK', NEW t \in Chamadas, ConfirmarAtendimento(t), UNCHANGED vendas
    PROVE  EstoqueInd'
<1> DEFINE q == Consumida(t)
<1>0. /\ Alvo(t) \in Agendamentos
      /\ \A p \in Produtos : InsumoDe(Alvo(t))[p] \in Nat
      /\ saldo \in [Estantes -> Int]
  BY CadastroAssumption, AtendimentoAssumption
     DEF EstoqueInd, TiposOK, AtendimentoTypeOK, CadastroTypeOK, Alvo, InsumoDe
<1>1. \A e \in Estantes : e[2] \in Produtos
  BY DEF Estantes
<1>2. q \in [Estantes -> Int]
  BY <1>0, <1>1 DEF Consumida
<1>3. txa[t].passo # "fim"
  BY DEF ConfirmarAtendimento, EmA
<1>4. ASSUME NEW l \in Locais, NEW p \in Produtos
      PROVE  /\ q[<<l, p>>] # 0 => trava[Estante(l, p)] = t
             /\ saldo[<<l, p>>] + q[<<l, p>>] >= 0
  <2>1. <<l, p>> \in Estantes
    BY DEF Estantes
  <2>2. q[<<l, p>>] = IF l = Central /\ p \in txa[t].feitos
                      THEN -InsumoDe(Alvo(t))[p] ELSE 0
    BY <2>1 DEF Consumida
  <2>3. saldo[<<l, p>>] \in Int /\ saldo[<<l, p>>] >= 0
    BY <2>1, <1>0 DEF EstoqueInd, EstoqueNaoNegativo
  <2>4. CASE l = Central /\ p \in txa[t].feitos
    <3>1. trava[Estante(l, p)] = t /\ saldo[<<l, p>>] >= InsumoDe(Alvo(t))[p]
      BY <1>3, <2>4 DEF EstoqueInd, ReservaA
    <3>2. InsumoDe(Alvo(t))[p] \in Nat
      BY <1>0
    <3>3. q[<<l, p>>] = -InsumoDe(Alvo(t))[p]
      BY <2>2, <2>4
    <3> HIDE DEF q
    <3>4. QED
      BY <3>1, <3>2, <3>3, <2>3
  <2>5. CASE ~(l = Central /\ p \in txa[t].feitos)
    <3>1. q[<<l, p>>] = 0
      BY <2>2, <2>5
    <3> HIDE DEF q
    <3>2. QED
      BY <3>1, <2>3
  <2>6. QED
    BY <2>4, <2>5
<1>5. Movimentar(q) /\ Soltar(t) /\ UNCHANGED <<pedido, alvo, oper, txv>>
  BY DEF ConfirmarAtendimento, vendas
<1>6. txa'[t].passo = "fim" /\ \A u \in Chamadas \ {t} : txa'[u] = txa[u]
  BY DEF ConfirmarAtendimento, EstoqueInd, TiposOK, AtendimentoTypeOK
<1> HIDE DEF q
<1>7. \A e \in Estantes : saldo[e] + q[e] >= 0
  BY <1>4 DEF Estantes
<1>8. EstoqueNaoNegativo' /\ LivroConfere' /\ PassoDe(t)
  BY <1>2, <1>4, <1>5, <1>7, Transacao, CommitEstoque
<1>9. \A u \in VendaTx : ReservaV(u)'
  BY <1>5, <1>8, AlheiaV, Transacao
<1>10. \A u \in Chamadas : ReservaA(u)'
  BY <1>6, <1>8, AlheiaA DEF ReservaA
<1>11. QED
  BY <1>8, <1>9, <1>10 DEF EstoqueInd

LEMMA AtendimentoEstoque ==
    ASSUME EstoqueInd, TiposOK', AtendimentoNext, UNCHANGED vendas
    PROVE  EstoqueInd'
<1> PICK t \in Chamadas : \/ LerAgendamento(t) \/ MudarStatus(t) \/ RegistrarVisita(t) \/ Bloquear(t)
                          \/ ConsumirItem(t) \/ ConfirmarAtendimento(t) \/ AbortarA(t)
  BY DEF AtendimentoNext
<1>0. txa \in [Chamadas -> [passo: PassosA, lido: Status, itens: SUBSET Produtos,
                            feitos: SUBSET Produtos, faltas: SUBSET Produtos]]
  BY DEF EstoqueInd, TiposOK, AtendimentoTypeOK
<1>a. ASSUME txa[t].passo # "fim", UNCHANGED <<saldo, livro, oper>>,
             NEW y, y.feitos = txa[t].feitos, txa' = [txa EXCEPT ![t] = y],
             UNCHANGED trava \/ \E x : Desocupada(x) /\ Travar(t, x)
      PROVE  EstoqueInd'
  <2>1. /\ txa'[t].feitos = txa[t].feitos
        /\ \A u \in Chamadas \ {t} : txa'[u] = txa[u]
    BY <1>0, <1>a
  <2>2. QED
    BY <1>a, <2>1, AndarA
<1>1. CASE LerAgendamento(t)
  <2> DEFINE y == [txa[t] EXCEPT !.passo = "cas", !.lido = agendamento[Alvo(t)].status]
  <2>1. txa[t].passo # "fim"
    BY <1>1 DEF LerAgendamento, EmA
  <2>2. y.feitos = txa[t].feitos
    BY <1>0
  <2>3. EncerrarA(t) \/ (txa' = [txa EXCEPT ![t] = y] /\ UNCHANGED <<cadastro, oper>>)
    BY <1>1, <1>0 DEF LerAgendamento
  <2> HIDE DEF y
  <2>4. QED
    BY <2>1, <2>2, <2>3, <1>a, EncerrarAEstoque DEF cadastro
<1>2. CASE MudarStatus(t)
  <2> DEFINE y == [txa[t] EXCEPT !.passo = IF Conclui(t) THEN "visita" ELSE "commit",
                                 !.itens = IF Conclui(t) THEN InsumosDe(Alvo(t)) ELSE {}]
  <2>1. txa[t].passo # "fim"
    BY <1>2 DEF MudarStatus, EmA
  <2>2. y.feitos = txa[t].feitos
    BY <1>0
  <2>3. \/ EncerrarA(t)
        \/ /\ txa' = [txa EXCEPT ![t] = y]
           /\ UNCHANGED <<saldo, livro, oper>>
           /\ \E x : Desocupada(x) /\ Travar(t, x)
    BY <1>2, <1>0 DEF MudarStatus
  <2> HIDE DEF y
  <2>4. QED
    BY <2>1, <2>2, <2>3, <1>a, EncerrarAEstoque
<1>3. CASE RegistrarVisita(t)
  <2> DEFINE y == [txa[t] EXCEPT !.passo = AposVisita(txa[t].itens)]
  <2>1. txa[t].passo # "fim"
    BY <1>3 DEF RegistrarVisita, EmA
  <2>2. y.feitos = txa[t].feitos
    BY <1>0
  <2>3. /\ txa' = [txa EXCEPT ![t] = y]
        /\ UNCHANGED <<saldo, livro, oper>>
        /\ UNCHANGED trava \/ \E x : Desocupada(x) /\ Travar(t, x)
    BY <1>3, <1>0 DEF RegistrarVisita
  <2> HIDE DEF y
  <2>4. QED
    BY <2>1, <2>2, <2>3, <1>a
<1>4. CASE Bloquear(t)
  <2> DEFINE y == [txa[t] EXCEPT
                 !.itens = agendamento[Alvo(t)].pendencias,
                 !.passo = IF oper[t].tipo = "REPROCESSAR"
                           THEN AposVisita(agendamento[Alvo(t)].pendencias) ELSE "commit"]
  <2>1. txa[t].passo # "fim"
    BY <1>4 DEF Bloquear, EmA
  <2>2. y.feitos = txa[t].feitos
    BY <1>0
  <2>3. \/ EncerrarA(t)
        \/ /\ txa' = [txa EXCEPT ![t] = y]
           /\ UNCHANGED <<saldo, livro, oper>>
           /\ \E x : Desocupada(x) /\ Travar(t, x)
    BY <1>4, <1>0 DEF Bloquear
  <2> HIDE DEF y
  <2>4. QED
    BY <2>1, <2>2, <2>3, <1>a, EncerrarAEstoque
<1>5. CASE AbortarA(t)
  BY <1>5, EncerrarAEstoque DEF AbortarA
<1>6. QED
  BY <1>1, <1>2, <1>3, <1>4, <1>5, ConsumirEstoque, AtendimentoCommit

-----------------------------------------------------------------------------
LEMMA InitEstoque == Init => EstoqueInd
<1> SUFFICES ASSUME Init PROVE EstoqueInd
  OBVIOUS
<1>1. TiposOK
  BY InitTipos
<1>2. EstoqueNaoNegativo /\ LivroConfere
  BY CadastroAssumption DEF Init, CadastroInit, EstoqueNaoNegativo, LivroConfere
<1>3. \A t \in VendaTx : ReservaV(t)
  BY DEF Init, VendasInit, ReservaV
<1>4. \A t \in Chamadas : ReservaA(t)
  BY DEF Init, AtendimentoInit, ReservaA
<1>5. QED
  BY <1>1, <1>2, <1>3, <1>4 DEF EstoqueInd

\* EstoqueInd is an inductive invariant of the whole shop: a transaction that
\* has taken an item out of a unit still holds the row, and the balance it
\* will subtract from is still enough.
THEOREM EstoqueIndutivo == Spec => []EstoqueInd
<1>1. EstoqueInd /\ [Next]_vars => EstoqueInd'
  <2> SUFFICES ASSUME EstoqueInd, [Next]_vars PROVE EstoqueInd'
    OBVIOUS
  <2>1. CASE CadastroNext /\ UNCHANGED <<vendas, atendimento>>
    BY <2>1, CadastroTipos, CadastroEstoque DEF EstoqueInd
  <2>2. CASE VendasNext /\ UNCHANGED atendimento
    BY <2>2, VendasTipos, VendasEstoque DEF EstoqueInd
  <2>3. CASE AtendimentoNext /\ UNCHANGED vendas
    BY <2>3, AtendimentoTipos, AtendimentoEstoque DEF EstoqueInd
  <2>4. CASE UNCHANGED vars
    <3>1. TiposOK'
      BY <2>4 DEF vars, cadastro, vendas, atendimento, TiposOK, CadastroTypeOK, VendasTypeOK,
                  AtendimentoTypeOK, EstoqueInd
    <3>2. QED
      BY <2>4, <3>1, Alheio DEF vars, cadastro, vendas, atendimento
  <2>5. QED
    BY <2>1, <2>2, <2>3, <2>4 DEF Next
<1>2. QED
  BY <1>1, InitEstoque, PTL DEF Spec

\* No unit ever shows a negative balance, whatever sales, refunds,
\* consumptions and manual movements run side by side.
THEOREM EstoqueSempre == Spec => []EstoqueNaoNegativo
<1>1. EstoqueInd => EstoqueNaoNegativo
  BY DEF EstoqueInd
<1>2. QED
  BY <1>1, EstoqueIndutivo, PTL

-----------------------------------------------------------------------------
(***************************************************************************)
(* A key is sold once, for any number of requests and refunds.  The        *)
(* argument is the company's row: it is locked before the key is looked up *)
(* for the second time and until the commit, so the look-up stays true.    *)
(***************************************************************************)
\* Steps at which a transaction holds the company's row, and those of a sale
\* after its key was found unused.
Dentro == {"validar", "itens", "cupom", "ler", "cliente", "commit"}
Depois == {"validar", "itens", "cupom", "cliente", "commit"}

ChaveT(t) ==
    /\ txv[t].passo \in Dentro => trava[Empresa] = t
    /\ t \in Requisicoes =>
         /\ txv[t].passo # "fim" => venda[t].status = "AUSENTE"
         /\ txv[t].passo \in Depois => Anterior(t) = {}
         /\ resp[t] \in Requisicoes => /\ venda[resp[t]].status # "AUSENTE"
                                       /\ pedido[resp[t]] = pedido[t]
    /\ t \in Estornos =>
         (txv[t].passo \in Dentro => venda[alvo[t]].status = "CONCLUIDA")

ChaveInd ==
    /\ TiposOK
    /\ \A t \in VendaTx : ChaveT(t)
    /\ UmaVendaPorChave

LEMMA TxTipo ==
    ASSUME TiposOK
    PROVE  /\ txv \in [VendaTx -> [passo: Passos, feitos: SUBSET Produtos, uso: Int, em: Nat]]
           /\ resp \in [VendaTx -> Requisicoes \cup Recusas \cup {Nenhum}]
           /\ trava \in [Linhas -> Transacoes \cup {Livre}]
           /\ Empresa \in Linhas
           /\ Requisicoes \subseteq VendaTx /\ Estornos \subseteq VendaTx
           /\ Requisicoes \cap Estornos = {}
           /\ (Recusas \cup {Nenhum}) \cap Requisicoes = {}
  BY VendasAssumption DEF TiposOK, VendasTypeOK, CadastroTypeOK, Linhas, VendaTx

\* The parts of another transaction survive while no sale is written.
LEMMA ChaveAlheia ==
    ASSUME ChaveInd, NEW t, TravaDe(t), NEW u \in VendaTx, u # t,
           UNCHANGED <<pedido, alvo>>, txv'[u] = txv[u], resp'[u] = resp[u],
           \A v \in Requisicoes : venda'[v].status = venda[v].status
    PROVE  ChaveT(u)'
<1>1. Empresa \in Linhas /\ u # Livre /\ TiposOK
  BY TxTipo, Transacao DEF ChaveInd
<1>2. ChaveT(u)
  BY DEF ChaveInd
<1>3. txv'[u].passo \in Dentro => trava'[Empresa] = u
  BY <1>1, <1>2, TravaAlheia DEF ChaveT
<1>4. u \in Requisicoes => Anterior(u)' = Anterior(u)
  BY DEF Anterior
<1>5. u \in Estornos => alvo[u] \in Requisicoes
  BY <1>1 DEF TiposOK, VendasTypeOK
<1>6. QED
  BY <1>2, <1>3, <1>4, <1>5 DEF ChaveT

LEMMA RespostaVale ==
    ASSUME ChaveInd, UNCHANGED pedido, \A t \in VendaTx : ChaveT(t)',
           \A v \in Requisicoes : venda'[v].status = venda[v].status
    PROVE  UmaVendaPorChave'
  BY TxTipo DEF ChaveInd, ChaveT, UmaVendaPorChave

\* A step of t that writes no sale.
LEMMA PassoChave ==
    ASSUME ChaveInd, TiposOK', NEW t \in VendaTx, TravaDe(t), UNCHANGED <<pedido, alvo, venda>>,
           \A u \in VendaTx \ {t} : txv'[u] = txv[u] /\ resp'[u] = resp[u],
           ChaveT(t)'
    PROVE  ChaveInd'
<1>1. \A u \in VendaTx : ChaveT(u)'
  BY ChaveAlheia
<1>2. QED
  BY <1>1, RespostaVale DEF ChaveInd

LEMMA EncerrarChave ==
    ASSUME ChaveInd, TiposOK', NEW t \in VendaTx, NEW x, Encerrar(t, x),
           t \in Requisicoes /\ x \in Requisicoes =>
              venda[x].status # "AUSENTE" /\ pedido[x] = pedido[t]
    PROVE  ChaveInd'
<1>1. /\ txv'[t].passo = "fim" /\ resp'[t] = x
      /\ \A u \in VendaTx \ {t} : txv'[u] = txv[u] /\ resp'[u] = resp[u]
  BY TxTipo DEF Encerrar, Ir, ChaveInd
<1>2. "fim" \notin Dentro /\ "fim" \notin Depois
  BY DEF Dentro, Depois
<1>3. ChaveT(t)'
  BY <1>1, <1>2 DEF ChaveT, Encerrar
<1>4. QED
  BY <1>1, <1>3, PassoChave DEF Encerrar, TravaDe

LEMMA RepetirChave ==
    ASSUME ChaveInd, TiposOK', NEW t \in Requisicoes, Repetir(t)
    PROVE  ChaveInd'
<1>1. PICK v \in Anterior(t) : Encerrar(t, IF MesmoConteudo(v, t) THEN v ELSE "CONFLITO")
  BY DEF Repetir
<1>2. t \in VendaTx /\ "CONFLITO" \notin Requisicoes
  BY TxTipo DEF ChaveInd, Recusas
<1>3. venda[v].status # "AUSENTE" /\ (MesmoConteudo(v, t) => pedido[v] = pedido[t])
  BY DEF Anterior, MesmoConteudo
<1>4. QED
  BY <1>1, <1>2, <1>3, EncerrarChave

\* A statement of t between its two ends.
LEMMA AndarChave ==
    ASSUME ChaveInd, TiposOK', NEW t \in VendaTx, UNCHANGED <<pedido, alvo, venda, resp>>,
           NEW y, txv' = [txv EXCEPT ![t] = y],
           txv[t].passo \in Dentro, y.passo \in Dentro,
           t \in Requisicoes => /\ y.passo \in Depois
                                /\ txv[t].passo \in Depois \/ Anterior(t) = {},
           UNCHANGED trava \/ \E r : Desocupada(r) /\ Travar(t, r)
    PROVE  ChaveInd'
<1>1. txv'[t] = y /\ \A u \in VendaTx \ {t} : txv'[u] = txv[u]
  BY TxTipo DEF ChaveInd
<1>2. ChaveT(t)
  BY DEF ChaveInd
<1>3. trava'[Empresa] = t
  BY <1>2, TxTipo DEF ChaveT, ChaveInd, Travar
<1>4. Anterior(t)' = Anterior(t)
  BY DEF Anterior
<1>5. "fim" \notin Dentro
  BY DEF Dentro
<1>6. ChaveT(t)'
  BY <1>1, <1>2, <1>3, <1>4, <1>5 DEF ChaveT
<1>7. QED
  BY <1>1, <1>6, PassoChave DEF TravaDe

LEMMA EscreverChave ==
    ASSUME ChaveInd, TiposOK', NEW t \in VendaTx, NEW r, Desocupada(r), NEW s \in Dentro,
           Escrever(t, r, s), txv[t].passo \in Dentro,
           t \in Requisicoes => s \in Depois /\ txv[t].passo \in Depois
    PROVE  ChaveInd'
<1> DEFINE y == [txv[t] EXCEPT !.passo = s]
<1>1. y.passo = s /\ txv' = [txv EXCEPT ![t] = y]
  BY TxTipo DEF Escrever, Ir, ChaveInd
<1> HIDE DEF y
<1>2. QED
  BY <1>1, AndarChave DEF Escrever

LEMMA ItemChave ==
    ASSUME ChaveInd, TiposOK', NEW t \in VendaTx, NEW p, NEW s \in Dentro,
           Item(t, p, s), txv[t].passo = "itens", t \in Requisicoes => s \in Depois
    PROVE  ChaveInd'
<1> DEFINE y == [txv[t] EXCEPT !.feitos = @ \cup {p},
                   !.passo = IF ProdutosDe(t) \ txv[t].feitos = {p} THEN s ELSE "itens"]
<1>0. "itens" \in Dentro /\ "itens" \in Depois
  BY DEF Dentro, Depois
<1>1. y.passo \in {s, "itens"} /\ txv' = [txv EXCEPT ![t] = y]
  BY TxTipo DEF Item, ChaveInd
<1> HIDE DEF y
<1>2. QED
  BY <1>0, <1>1, AndarChave DEF Item

-----------------------------------------------------------------------------
\* While t is inside, nobody else is.
LEMMA Sozinha ==
    ASSUME ChaveInd, NEW t \in VendaTx, txv[t].passo \in Dentro, NEW u \in VendaTx, u # t
    PROVE  txv[u].passo \notin Dentro
  BY DEF ChaveInd, ChaveT

\* The commit of a sale: its key was unused and still is.
LEMMA VendaChave ==
    ASSUME ChaveInd, TiposOK', NEW t \in Requisicoes, ConfirmarVenda(t)
    PROVE  ChaveInd'
<1>0. /\ t \in VendaTx /\ "commit" \in Dentro /\ "commit" \in Depois
      /\ "fim" \notin Dentro /\ "fim" \notin Depois /\ Depois \subseteq Dentro
  BY TxTipo DEF ChaveInd, Dentro, Depois
<1>1. /\ txv[t].passo = "commit" /\ UNCHANGED <<pedido, alvo>>
      /\ txv'[t].passo = "fim" /\ resp'[t] = t
      /\ \A u \in VendaTx \ {t} : txv'[u] = txv[u] /\ resp'[u] = resp[u]
  BY <1>0, TxTipo DEF ConfirmarVenda, Em, Ir, ChaveInd
<1>2. /\ venda'[t].status = "CONCLUIDA"
      /\ \A v \in Requisicoes \ {t} : venda'[v] = venda[v]
  BY DEF ConfirmarVenda, ChaveInd, TiposOK, VendasTypeOK
<1>3. Anterior(t) = {}
  BY <1>0, <1>1 DEF ChaveInd, ChaveT
<1>4. ChaveT(t)'
  BY <1>0, <1>1, <1>2, TxTipo DEF ChaveT, ChaveInd
<1>5. ASSUME NEW u \in VendaTx \ {t} PROVE ChaveT(u)'
  <2>1. txv'[u].passo \notin Dentro
    BY <1>0, <1>1, Sozinha
  <2>2. QED
    BY <1>0, <1>1, <1>2, <2>1 DEF ChaveT, ChaveInd
<1>6. \A u \in VendaTx : ChaveT(u)'
  BY <1>4, <1>5
<1>7. UmaVendaPorChave'
  <2>1. ASSUME NEW v \in Requisicoes, NEW w \in Requisicoes, v # w,
               venda'[v].status # "AUSENTE", venda'[w].status # "AUSENTE"
        PROVE  pedido[v].chave = Nenhum \/ pedido[v].chave # pedido[w].chave
    <3>1. CASE v # t /\ w # t
      BY <1>2, <2>1, <3>1 DEF ChaveInd, UmaVendaPorChave
    <3>2. CASE v = t
      BY <1>2, <1>3, <2>1, <3>2 DEF Anterior
    <3>3. CASE w = t
      BY <1>2, <1>3, <2>1, <3>3 DEF Anterior
    <3>4. QED
      BY <3>1, <3>2, <3>3
  <2>2. \A u \in Requisicoes : resp'[u] \in Requisicoes =>
          venda'[resp'[u]].status # "AUSENTE" /\ pedido'[resp'[u]] = pedido'[u]
    BY <1>6, TxTipo DEF ChaveT, ChaveInd
  <2>3. QED
    BY <1>1, <2>1, <2>2 DEF UmaVendaPorChave
<1>8. QED
  BY <1>6, <1>7 DEF ChaveInd

\* The commit of a refund finds the sale still CONCLUIDA.
LEMMA EstornoChave ==
    ASSUME ChaveInd, TiposOK', NEW t \in Estornos, ConfirmarEstorno(t)
    PROVE  ChaveInd'
<1>0. /\ t \in VendaTx /\ t \notin Requisicoes /\ "commit" \in Dentro
      /\ "fim" \notin Dentro /\ Depois \subseteq Dentro
  BY TxTipo DEF ChaveInd, Dentro, Depois
<1>1. /\ txv[t].passo = "commit" /\ UNCHANGED <<pedido, alvo>>
      /\ txv'[t].passo = "fim"
      /\ \A u \in VendaTx \ {t} : txv'[u] = txv[u] /\ resp'[u] = resp[u]
  BY <1>0, TxTipo DEF ConfirmarEstorno, Em, Ir, ChaveInd
<1>2. /\ alvo[t] \in Requisicoes /\ venda[alvo[t]].status = "CONCLUIDA"
      /\ venda'[alvo[t]].status = "ESTORNADA"
      /\ \A v \in Requisicoes \ {alvo[t]} : venda'[v] = venda[v]
  BY <1>0, <1>1 DEF ConfirmarEstorno, ChaveInd, ChaveT, TiposOK, VendasTypeOK
<1>3. \A v \in Requisicoes : venda'[v].status = "AUSENTE" <=> venda[v].status = "AUSENTE"
  BY <1>2
<1>4. ASSUME NEW u \in VendaTx PROVE ChaveT(u)'
  <2>1. txv'[u].passo \notin Dentro
    BY <1>0, <1>1, Sozinha
  <2>2. u \in Requisicoes => u # t
    BY <1>0
  <2>3. QED
    BY <1>0, <1>1, <1>3, <2>1, <2>2 DEF ChaveT, ChaveInd
<1>5. UmaVendaPorChave'
  <2>1. \A u \in Requisicoes : resp'[u] \in Requisicoes =>
          venda'[resp'[u]].status # "AUSENTE" /\ pedido'[resp'[u]] = pedido'[u]
    BY <1>4, TxTipo DEF ChaveT, ChaveInd
  <2>2. QED
    BY <1>1, <1>3, <2>1 DEF UmaVendaPorChave, ChaveInd
<1>6. QED
  BY <1>4, <1>5 DEF ChaveInd

\* Every statement of a sale.
LEMMA RequisicaoChave ==
    ASSUME ChaveInd, TiposOK', NEW t \in Requisicoes,
           \/ ConsultarChave(t) \/ AbrirVenda(t) \/ ValidarVenda(t) \/ SairItem(t)
           \/ UsarCupom(t) \/ ComprarCliente(t) \/ ConfirmarVenda(t)
    PROVE  ChaveInd'
<1>0. t \in VendaTx /\ Recusas \cap Requisicoes = {}
  BY TxTipo DEF ChaveInd
<1>t. txv \in [VendaTx -> [passo: Passos, feitos: SUBSET Produtos, uso: Int, em: Nat]]
  BY TxTipo DEF ChaveInd
<1>e. ASSUME NEW x \in Recusas, Encerrar(t, x) PROVE ChaveInd'
  BY <1>0, <1>e, EncerrarChave
<1>1. CASE ConsultarChave(t)
  <2>1. CASE Ir(t, "abrir") /\ UNCHANGED <<cadastro, pedido, alvo, venda, resp>>
    <3>1. /\ txv'[t].passo = "abrir"
          /\ \A u \in VendaTx \ {t} : txv'[u] = txv[u]
      BY <1>0, <1>t, <2>1 DEF Ir
    <3>2. ChaveT(t)'
      BY <1>0, <1>1, <2>1, <3>1 DEF ChaveT, ChaveInd, ConsultarChave, Em, Dentro, Depois
    <3>3. QED
      BY <1>0, <2>1, <3>1, <3>2, PassoChave DEF TravaDe, cadastro
  <2>2. QED
    BY <1>1, <2>1, RepetirChave DEF ConsultarChave
<1>2. CASE AbrirVenda(t)
  <2>1. CASE JaVendida(t)
    BY <1>2, <2>1, RepetirChave DEF AbrirVenda
  <2>2. CASE ~JaVendida(t)
    <3>1. Desocupada(Empresa) /\ Escrever(t, Empresa, "validar")
      BY <1>2, <2>2 DEF AbrirVenda
    <3>2. /\ txv'[t].passo = "validar" /\ trava'[Empresa] = t
          /\ \A u \in VendaTx \ {t} : txv'[u] = txv[u]
      BY <1>0, <3>1, TxTipo DEF Escrever, Ir, Travar, ChaveInd
    <3>3. ChaveT(t)'
      BY <1>0, <1>2, <2>2, <3>1, <3>2, TxTipo
         DEF ChaveT, ChaveInd, AbrirVenda, JaVendida, Anterior, Escrever, Em
    <3>4. QED
      BY <1>0, <3>1, <3>2, <3>3, PassoChave DEF Escrever, TravaDe
  <2>3. QED
    BY <2>1, <2>2
<1>3. CASE ValidarVenda(t)
  <2>1. CASE \E x \in {"RECUSADA", "UNICIDADE"} : Encerrar(t, x)
    BY <2>1, <1>e DEF Recusas
  <2>2. CASE /\ Anterior(t) = {}
             /\ txv' = [txv EXCEPT ![t].passo = "itens", ![t].em = relogio,
                                ![t].uso = IF pedido[t].cupom = Nenhum THEN 0
                                           ELSE cupom[pedido[t].cupom].uso]
             /\ UNCHANGED <<cadastro, pedido, alvo, venda, resp>>
    <3> DEFINE y == [txv[t] EXCEPT !.passo = "itens", !.em = relogio,
                        !.uso = IF pedido[t].cupom = Nenhum THEN 0 ELSE cupom[pedido[t].cupom].uso]
    <3>1. y.passo = "itens" /\ txv' = [txv EXCEPT ![t] = y]
      BY <1>0, <1>t, <2>2
    <3> HIDE DEF y
    <3>2. txv[t].passo = "validar"
      BY <1>3 DEF ValidarVenda, Em
    <3>3. QED
      BY <1>0, <2>2, <3>1, <3>2, AndarChave DEF Dentro, Depois, cadastro
  <2>3. QED
    BY <1>3, <2>1, <2>2 DEF ValidarVenda
<1>s. AposItens(t) \in Depois \cap Dentro /\ AposCliente(t) \in Depois \cap Dentro
  BY DEF AposItens, AposCliente, Depois, Dentro
<1>4. CASE SairItem(t)
  <2>1. PICK p \in Produtos : Item(t, p, AposItens(t)) \/ Encerrar(t, "RECUSADA")
    BY <1>4 DEF SairItem
  <2>2. txv[t].passo = "itens"
    BY <1>4 DEF SairItem, Em
  <2>3. QED
    BY <1>0, <1>s, <1>e, <2>1, <2>2, ItemChave DEF Recusas
<1>5. CASE UsarCupom(t)
  <2>1. txv[t].passo = "cupom" /\ "cupom" \in Dentro \cap Depois
    BY <1>5 DEF UsarCupom, Em, Dentro, Depois
  <2>2. QED
    BY <1>0, <1>s, <1>e, <1>5, <2>1, EscreverChave DEF UsarCupom, Recusas
<1>6. CASE ComprarCliente(t)
  <2>1. txv[t].passo = "cliente" /\ {"cliente", "commit"} \subseteq Dentro \cap Depois
    BY <1>6 DEF ComprarCliente, Em, Dentro, Depois
  <2>2. QED
    BY <1>0, <1>e, <1>6, <2>1, EscreverChave DEF ComprarCliente, Recusas
<1>7. CASE ConfirmarVenda(t)
  BY <1>7, VendaChave
<1>8. QED
  BY <1>1, <1>2, <1>3, <1>4, <1>5, <1>6, <1>7

\* Every statement of a refund.
LEMMA EstornosChave ==
    ASSUME ChaveInd, TiposOK', NEW t \in Estornos,
           \/ AbrirEstorno(t) \/ DevolverItem(t) \/ DevolverCupom(t)
           \/ LerAtividade(t) \/ GravarCliente(t) \/ ConfirmarEstorno(t)
    PROVE  ChaveInd'
<1>0. t \in VendaTx /\ t \notin Requisicoes
  BY TxTipo DEF ChaveInd
<1>t. txv \in [VendaTx -> [passo: Passos, feitos: SUBSET Produtos, uso: Int, em: Nat]]
  BY TxTipo DEF ChaveInd
<1>s. {"itens", "cupom", "ler", "cliente", "commit"} \subseteq Dentro /\ AposCupom(t) \in Dentro
  BY DEF Dentro, AposCupom
<1>a. ASSUME NEW s \in Dentro, Ir(t, s), txv[t].passo \in Dentro,
             UNCHANGED <<trava, pedido, alvo, venda, resp>>
      PROVE  ChaveInd'
  <2> DEFINE y == [txv[t] EXCEPT !.passo = s]
  <2>1. y.passo = s /\ txv' = [txv EXCEPT ![t] = y]
    BY <1>0, <1>t, <1>a DEF Ir
  <2> HIDE DEF y
  <2>2. QED
    BY <1>0, <1>a, <2>1, AndarChave
<1>1. CASE AbrirEstorno(t)
  <2>1. CASE PodeEstornar(alvo[t])
    <3>1. Desocupada(Empresa) /\ Escrever(t, Empresa, "itens")
      BY <1>1, <2>1 DEF AbrirEstorno
    <3>2. /\ txv'[t].passo = "itens" /\ trava'[Empresa] = t
          /\ \A u \in VendaTx \ {t} : txv'[u] = txv[u]
      BY <1>0, <3>1, TxTipo DEF Escrever, Ir, Travar, ChaveInd
    <3>3. ChaveT(t)'
      BY <1>0, <2>1, <3>1, <3>2 DEF ChaveT, Escrever, PodeEstornar
    <3>4. QED
      BY <1>0, <3>1, <3>2, <3>3, PassoChave DEF Escrever, TravaDe
  <2>2. CASE ~PodeEstornar(alvo[t])
    BY <1>0, <1>1, <2>2, EncerrarChave DEF AbrirEstorno
  <2>3. QED
    BY <2>1, <2>2
<1>2. CASE DevolverItem(t)
  <2>1. PICK p \in Produtos :
          Item(t, p, IF venda[alvo[t]].cupom # Nenhum THEN "cupom" ELSE AposCupom(t))
    BY <1>2 DEF DevolverItem
  <2>2. txv[t].passo = "itens"
    BY <1>2 DEF DevolverItem, Em
  <2>3. QED
    BY <1>0, <1>s, <2>1, <2>2, ItemChave
<1>3. CASE DevolverCupom(t)
  <2>1. txv[t].passo \in Dentro
    BY <1>3, <1>s DEF DevolverCupom, Em
  <2>2. QED
    BY <1>0, <1>s, <1>a, <1>3, <2>1, EscreverChave DEF DevolverCupom, cadastro
<1>4. CASE LerAtividade(t)
  <2>1. txv[t].passo \in Dentro /\ Ir(t, "cliente")
        /\ UNCHANGED <<trava, pedido, alvo, venda, resp>>
    BY <1>4, <1>s DEF LerAtividade, Em, cadastro
  <2>2. QED
    BY <1>s, <2>1, <1>a
<1>5. CASE GravarCliente(t)
  <2>1. txv[t].passo \in Dentro
    BY <1>5, <1>s DEF GravarCliente, Em
  <2>2. QED
    BY <1>0, <1>s, <1>5, <2>1, EscreverChave DEF GravarCliente
<1>6. CASE ConfirmarEstorno(t)
  BY <1>6, EstornoChave
<1>7. QED
  BY <1>1, <1>2, <1>3, <1>4, <1>5, <1>6

-----------------------------------------------------------------------------
\* Steps of others: the company's row and the sales' statuses do not move.
LEMMA AlheioChave ==
    ASSUME ChaveInd, TiposOK', UNCHANGED <<pedido, alvo, txv, resp>>,
           \A v \in Requisicoes : venda'[v].status = venda[v].status,
           UNCHANGED trava \/ \E t \in Chamadas : TravaDe(t)
    PROVE  ChaveInd'
<1>1. PICK t : TravaDe(t) /\ t \notin VendaTx
  BY Transacao DEF TravaDe
<1>2. \A u \in VendaTx : ChaveT(u)'
  BY <1>1, ChaveAlheia
<1>3. QED
  BY <1>2, RespostaVale DEF ChaveInd

LEMMA AtendimentoTrava ==
    ASSUME NEW t \in Chamadas,
           \/ LerAgendamento(t) \/ MudarStatus(t) \/ RegistrarVisita(t) \/ Bloquear(t)
           \/ ConsumirItem(t) \/ ConfirmarAtendimento(t) \/ AbortarA(t)
    PROVE  TravaDe(t)
<1>1. CASE ConsumirItem(t)
  BY <1>1 DEF ConsumirItem, TravaDe
<1>2. CASE LerAgendamento(t) \/ MudarStatus(t) \/ RegistrarVisita(t) \/ Bloquear(t)
  BY <1>2 DEF LerAgendamento, MudarStatus, RegistrarVisita, Bloquear, EncerrarA, TravaDe, cadastro
<1>3. CASE ConfirmarAtendimento(t) \/ AbortarA(t)
  BY <1>3 DEF ConfirmarAtendimento, AbortarA, EncerrarA, TravaDe
<1>4. QED
  BY <1>1, <1>2, <1>3

LEMMA CupomChave ==
    ASSUME ChaveInd, TiposOK', NEW c \in Cupons, AtualizarCupom(c) \/ ExcluirCupom(c)
    PROVE  ChaveInd'
<1>1. \A v \in Requisicoes : venda'[v].status = venda[v].status
  <2>1. CASE AtualizarCupom(c)
    BY <2>1 DEF AtualizarCupom
  <2>2. CASE ExcluirCupom(c)
    <3>1. ASSUME NEW v \in Requisicoes
          PROVE  [venda[v] EXCEPT !.cupom = Nenhum].status = venda[v].status
      BY DEF ChaveInd, TiposOK, VendasTypeOK
    <3>2. QED
      BY <2>2, <3>1 DEF ExcluirCupom
  <2>3. QED
    BY <2>1, <2>2
<1>2. QED
  BY <1>1, AlheioChave DEF AtualizarCupom, ExcluirCupom, cadastro

LEMMA InitChave == Init => ChaveInd
<1> SUFFICES ASSUME Init PROVE ChaveInd
  OBVIOUS
<1>1. TiposOK
  BY InitTipos
<1>2. /\ \A v \in Requisicoes : venda[v].status = "AUSENTE"
      /\ \A t \in VendaTx : resp[t] \notin Requisicoes /\ txv[t].passo \notin Dentro
  BY <1>1, TxTipo DEF Init, VendasInit, Dentro
<1>3. Depois \subseteq Dentro /\ VendaTx = Requisicoes \cup Estornos
  BY DEF Depois, Dentro, VendaTx
<1>4. QED
  BY <1>1, <1>2, <1>3 DEF ChaveInd, ChaveT, UmaVendaPorChave

\* ChaveInd is inductive: a sale or refund at work holds the company's row,
\* the key it found unused is unused still, and the sale it refunds stands.
THEOREM ChaveIndutiva == Spec => []ChaveInd
<1>1. ChaveInd /\ [Next]_vars => ChaveInd'
  <2> SUFFICES ASSUME ChaveInd, [Next]_vars PROVE ChaveInd'
    OBVIOUS
  <2>1. CASE CadastroNext /\ UNCHANGED <<vendas, atendimento>>
    <3>1. TiposOK'
      BY <2>1, CadastroTipos DEF ChaveInd
    <3>2. UNCHANGED trava
      BY <2>1 DEF CadastroNext, MovimentarManual, DesativarProduto, DesativarServico,
                  SalvarFilial, DesativarCliente
    <3>3. QED
      BY <2>1, <3>1, <3>2, AlheioChave DEF vendas
  <2>2. CASE VendasNext /\ UNCHANGED atendimento
    <3>1. TiposOK'
      BY <2>2, VendasTipos DEF ChaveInd
    <3>2. ASSUME NEW t \in VendaTx, Abortar(t) PROVE ChaveInd'
      BY <3>1, <3>2, EncerrarChave, TxTipo DEF Abortar, Recusas, ChaveInd
    <3>3. QED
      BY <2>2, <3>1, <3>2, RequisicaoChave, EstornosChave, CupomChave DEF VendasNext
  <2>3. CASE AtendimentoNext /\ UNCHANGED vendas
    <3>1. TiposOK'
      BY <2>3, AtendimentoTipos DEF ChaveInd
    <3>2. \E t \in Chamadas : TravaDe(t)
      BY <2>3, AtendimentoTrava DEF AtendimentoNext
    <3>3. QED
      BY <2>3, <3>1, <3>2, AlheioChave DEF vendas
  <2>4. CASE UNCHANGED vars
    <3>1. TiposOK'
      BY <2>4 DEF vars, cadastro, vendas, atendimento, TiposOK, CadastroTypeOK, VendasTypeOK,
                  AtendimentoTypeOK, ChaveInd
    <3>2. QED
      BY <2>4, <3>1, AlheioChave DEF vars, cadastro, vendas, atendimento
  <2>5. QED
    BY <2>1, <2>2, <2>3, <2>4 DEF Next
<1>2. QED
  BY <1>1, InitChave, PTL DEF Spec

\* No two sales stand for one key, and a call is only ever answered with a
\* sale of its own key and content.
THEOREM ChaveSempre == Spec => []UmaVendaPorChave
<1>1. ChaveInd => UmaVendaPorChave
  BY DEF ChaveInd
<1>2. QED
  BY <1>1, ChaveIndutiva, PTL

-----------------------------------------------------------------------------
(***************************************************************************)
(* The shape of a step.  Every statement of a sale or a refund but its     *)
(* last only takes a lock and moves the transaction along; so does every   *)
(* statement of an appointment call.                                       *)
(***************************************************************************)
linhas == <<ativo, aberta, oferta, saldo, livro, manual, cliente, agendamento, consumo>>

QuietoV(t) ==
    /\ UNCHANGED <<linhas, pedido, alvo, venda, cupom>>
    /\ TravaDe(t)
    /\ \A u \in VendaTx \ {t} : txv'[u] = txv[u] /\ resp'[u] = resp[u]
    /\ \A u \in Estornos \ {t} : lida'[u] = lida[u]

QuietoA(t) ==
    /\ UNCHANGED <<linhas, oper>>
    /\ TravaDe(t)
    /\ \A u \in Chamadas \ {t} : txa'[u] = txa[u]

LEMMA EncerrarQuieto ==
    ASSUME TiposOK, NEW t \in VendaTx, NEW x, Encerrar(t, x)
    PROVE  QuietoV(t)
  BY TxTipo DEF Encerrar, Ir, QuietoV, TravaDe, linhas

LEMMA EscreverQuieto ==
    ASSUME TiposOK, NEW t \in VendaTx, NEW r, NEW s, Desocupada(r), Escrever(t, r, s)
    PROVE  QuietoV(t)
  BY TxTipo DEF Escrever, Ir, QuietoV, TravaDe, linhas

LEMMA ItemQuieto ==
    ASSUME TiposOK, NEW t \in VendaTx, NEW p, NEW s, Item(t, p, s)
    PROVE  QuietoV(t)
<1>1. \A u \in VendaTx \ {t} : txv'[u] = txv[u]
  BY TxTipo DEF Item
<1>2. QED
  BY <1>1 DEF Item, QuietoV, TravaDe, linhas

LEMMA RequisicaoQuieta ==
    ASSUME TiposOK, NEW t \in Requisicoes,
           \/ ConsultarChave(t) \/ AbrirVenda(t) \/ ValidarVenda(t) \/ SairItem(t)
           \/ UsarCupom(t) \/ ComprarCliente(t)
    PROVE  QuietoV(t)
<1>0. t \in VendaTx
  BY TxTipo
<1>r. Repetir(t) => QuietoV(t)
  BY <1>0, EncerrarQuieto DEF Repetir
<1>1. CASE ConsultarChave(t)
  <2>1. CASE Ir(t, "abrir") /\ UNCHANGED <<cadastro, pedido, alvo, venda, cupom, relogio, lida, resp>>
    BY <2>1, TxTipo DEF Ir, QuietoV, TravaDe, linhas, cadastro
  <2>2. QED
    BY <1>1, <1>r, <2>1 DEF ConsultarChave
<1>2. CASE AbrirVenda(t)
  BY <1>0, <1>2, <1>r, EscreverQuieto DEF AbrirVenda
<1>3. CASE ValidarVenda(t)
  <2>1. CASE \E x : Encerrar(t, x)
    BY <1>0, <2>1, EncerrarQuieto
  <2>2. CASE /\ txv' = [txv EXCEPT ![t].passo = "itens", ![t].em = relogio,
                                ![t].uso = IF pedido[t].cupom = Nenhum THEN 0
                                           ELSE cupom[pedido[t].cupom].uso]
             /\ UNCHANGED <<cadastro, pedido, alvo, venda, cupom, lida, resp>>
    <3>1. \A u \in VendaTx \ {t} : txv'[u] = txv[u]
      BY <2>2, TxTipo
    <3>2. QED
      BY <2>2, <3>1 DEF QuietoV, TravaDe, linhas, cadastro
  <2>3. QED
    BY <1>3, <2>1, <2>2 DEF ValidarVenda
<1>4. CASE SairItem(t)
  BY <1>0, <1>4, EncerrarQuieto, ItemQuieto DEF SairItem
<1>5. CASE UsarCupom(t)
  BY <1>0, <1>5, EncerrarQuieto, EscreverQuieto DEF UsarCupom
<1>6. CASE ComprarCliente(t)
  BY <1>0, <1>6, EncerrarQuieto, EscreverQuieto DEF ComprarCliente
<1>7. QED
  BY <1>1, <1>2, <1>3, <1>4, <1>5, <1>6

LEMMA EstornoQuieto ==
    ASSUME TypeOK, NEW t \in Estornos,
           \/ AbrirEstorno(t) \/ DevolverItem(t) \/ DevolverCupom(t)
           \/ LerAtividade(t) \/ GravarCliente(t)
    PROVE  QuietoV(t)
<1>0. t \in VendaTx /\ TiposOK
  BY TxTipo DEF TypeOK
<1>1. CASE AbrirEstorno(t)
  BY <1>0, <1>1, EncerrarQuieto, EscreverQuieto DEF AbrirEstorno
<1>2. CASE DevolverItem(t)
  BY <1>0, <1>2, ItemQuieto DEF DevolverItem
<1>3. CASE DevolverCupom(t)
  <2>1. CASE Ir(t, AposCupom(t))
             /\ UNCHANGED <<cadastro, pedido, alvo, venda, cupom, relogio, lida, resp>>
    BY <1>0, <2>1, TxTipo DEF Ir, QuietoV, TravaDe, linhas, cadastro
  <2>2. QED
    BY <1>0, <1>3, <2>1, EscreverQuieto DEF DevolverCupom
<1>4. CASE LerAtividade(t)
  BY <1>0, <1>4, TxTipo DEF LerAtividade, Ir, QuietoV, TravaDe, linhas, cadastro, TypeOK, LidaTypeOK
<1>5. CASE GravarCliente(t)
  BY <1>0, <1>5, EscreverQuieto DEF GravarCliente
<1>6. QED
  BY <1>1, <1>2, <1>3, <1>4, <1>5

LEMMA ChamadaQuieta ==
    ASSUME TiposOK, NEW t \in Chamadas,
           \/ LerAgendamento(t) \/ MudarStatus(t) \/ RegistrarVisita(t) \/ Bloquear(t)
           \/ ConsumirItem(t) \/ AbortarA(t)
    PROVE  QuietoA(t)
<1>1. TravaDe(t)
  BY AtendimentoTrava
<1>2. UNCHANGED <<linhas, oper>>
  BY DEF LerAgendamento, MudarStatus, RegistrarVisita, Bloquear, ConsumirItem, AbortarA, EncerrarA,
         linhas, cadastro
<1>3. \E y : txa' = [txa EXCEPT ![t] = y]
  BY DEF LerAgendamento, MudarStatus, RegistrarVisita, Bloquear, ConsumirItem, AbortarA, EncerrarA
<1>4. \A u \in Chamadas \ {t} : txa'[u] = txa[u]
  BY <1>3 DEF TiposOK, AtendimentoTypeOK
<1>5. QED
  BY <1>1, <1>2, <1>4 DEF QuietoA

-----------------------------------------------------------------------------
(***************************************************************************)
(* The clients' totals and dates keep their type: a refund writes the sum  *)
(* and the maximum it read, and both are taken over finite sets.           *)
(***************************************************************************)
LEMMA AtividadeTipo ==
    ASSUME TiposOK, NEW t \in Estornos
    PROVE  /\ IsFiniteSet(OutrasCompras(t))
           /\ SumFunction([v \in OutrasCompras(t) |-> pedido[v].total]) \in Nat
           /\ UltimaAtividade(t) \in Nat
<1>1. OutrasCompras(t) \subseteq Requisicoes /\ IsFiniteSet(OutrasCompras(t))
  BY VendasAssumption, FS_Subset DEF OutrasCompras
<1>2. SumFunction([v \in OutrasCompras(t) |-> pedido[v].total]) \in Nat
  <2> DEFINE f == [v \in OutrasCompras(t) |-> pedido[v].total]
             S == OutrasCompras(t)
  <2>1. \A v \in S : f[v] \in Nat
    BY <1>1, VendasAssumption DEF TiposOK, VendasTypeOK
  <2>2. DOMAIN f = S
    OBVIOUS
  <2> HIDE DEF f
  <2>3. SumFunction(f) = Soma(f, S)
    BY <2>2, SomaFuncao
  <2>4. Soma(f, S) \in Nat
    BY <1>1, <2>1, SomaNatural
  <2>5. QED
    BY <2>3, <2>4 DEF f
<1>3. UltimaAtividade(t) \in Nat
  <2> DEFINE E == {venda[v].em : v \in OutrasCompras(t)}
             C == {b \in Agendamentos : /\ ClienteDe[b] = Conteudo(t).cliente
                                        /\ agendamento[b].status = "CONCLUIDO"}
             V == {DataDe[a] : a \in C}
             M == {0} \cup E \cup V
  <2>1. IsFiniteSet(E)
    <3> DEFINE f == [v \in OutrasCompras(t) |-> venda[v].em]
               D == {f[v] : v \in OutrasCompras(t)}
    <3>1. E = D
      OBVIOUS
    <3> HIDE DEF E, f
    <3>2. QED
      BY <1>1, <3>1, ImagemFinita
  <2>2. IsFiniteSet(C)
    BY CadastroAssumption, FS_Subset
  <2>3. IsFiniteSet(V)
    <3> HIDE DEF C
    <3>1. QED
      BY <2>2, ImagemFinita
  <2>4. IsFiniteSet(M)
    <3> HIDE DEF E, V
    <3>1. IsFiniteSet({0} \cup E)
      BY <2>1, FS_Union, FS_Singleton
    <3>2. QED
      BY <2>3, <3>1, FS_Union
  <2>5. M \subseteq Nat
    <3>1. E \subseteq Nat
      BY <1>1 DEF TiposOK, VendasTypeOK
    <3>2. V \subseteq Nat
      BY CadastroAssumption
    <3>3. QED
      BY <3>1, <3>2
  <2>6. UltimaAtividade(t) = Max(M)
    BY DEF UltimaAtividade, Visitas
  <2>7. M # {} /\ M \in SUBSET Int
    BY <2>5
  <2> HIDE DEF M
  <2>8. Max(M) \in M
    BY <2>4, <2>7, MaximoPertence
  <2>9. QED
    BY <2>5, <2>6, <2>8
<1>4. QED
  BY <1>1, <1>2, <1>3

FichaCliente == [ativo: BOOLEAN, gasto: Nat, visita: Nat]

LEMMA CompraTipo ==
    ASSUME TypeOK, NEW t \in Requisicoes, ConfirmarVenda(t)
    PROVE  ClienteTypeOK' /\ LidaTypeOK'
<1>0. t \in VendaTx /\ TiposOK
  BY TxTipo DEF TypeOK
<1>1. LidaTypeOK'
  BY DEF ConfirmarVenda, TypeOK, LidaTypeOK
<1>2. CASE pedido[t].cliente = Nenhum
  BY <1>1, <1>2 DEF ConfirmarVenda, ClienteAposCompra, TypeOK, ClienteTypeOK
<1>3. CASE pedido[t].cliente # Nenhum
  <2>1. PICK c \in Clientes : c = pedido[t].cliente
    BY <1>0, <1>3, ConteudoTipo
  <2> DEFINE g == cliente[c].gasto + pedido[t].total
             m == Maior(cliente[c].visita, txv[t].em)
             f == [cliente EXCEPT ![c].gasto = g]
  <2>2. g \in Nat /\ m \in Nat
    BY <1>0, TxTipo, VendasAssumption
       DEF TypeOK, ClienteTypeOK, TiposOK, VendasTypeOK, Maior
  <2>3. cliente' = [f EXCEPT ![c].visita = m]
    BY <1>3, <2>1 DEF ConfirmarVenda, ClienteAposCompra, TypeOK, ClienteTypeOK
  <2> HIDE DEF g, m
  <2>4. f \in [Clientes -> FichaCliente]
    BY <2>2 DEF TypeOK, ClienteTypeOK, FichaCliente
  <2> HIDE DEF f
  <2>5. cliente' \in [Clientes -> FichaCliente]
    BY <2>2, <2>3, <2>4 DEF FichaCliente
  <2>6. QED
    BY <1>1, <2>5 DEF ClienteTypeOK, FichaCliente
<1>4. QED
  BY <1>2, <1>3

LEMMA EstornoTipo ==
    ASSUME TypeOK, NEW t \in Estornos, ConfirmarEstorno(t)
    PROVE  ClienteTypeOK' /\ LidaTypeOK'
<1>0. t \in VendaTx /\ TiposOK
  BY TxTipo DEF TypeOK
<1>1. LidaTypeOK'
  BY DEF ConfirmarEstorno, TypeOK, LidaTypeOK
<1>2. CASE Conteudo(t).cliente = Nenhum
  BY <1>1, <1>2 DEF ConfirmarEstorno, ClienteAposEstorno, TypeOK, ClienteTypeOK
<1>3. CASE Conteudo(t).cliente # Nenhum
  <2>1. PICK c \in Clientes : c = Conteudo(t).cliente
    BY <1>0, <1>3, ConteudoTipo
  <2> DEFINE g == lida[t].gasto
             m == lida[t].visita
             f == [cliente EXCEPT ![c].gasto = g]
  <2>2. g \in Nat /\ m \in Nat
    BY DEF TypeOK, LidaTypeOK
  <2>3. cliente' = [f EXCEPT ![c].visita = m]
    BY <1>3, <2>1 DEF ConfirmarEstorno, ClienteAposEstorno, TypeOK, ClienteTypeOK
  <2> HIDE DEF g, m
  <2>4. f \in [Clientes -> FichaCliente]
    BY <2>2 DEF TypeOK, ClienteTypeOK, FichaCliente
  <2> HIDE DEF f
  <2>5. cliente' \in [Clientes -> FichaCliente]
    BY <2>2, <2>3, <2>4 DEF FichaCliente
  <2>6. QED
    BY <1>1, <2>5 DEF ClienteTypeOK, FichaCliente
<1>4. QED
  BY <1>2, <1>3

LEMMA VendasFicha ==
    ASSUME TypeOK, VendasNext
    PROVE  ClienteTypeOK' /\ LidaTypeOK'
<1>0. TiposOK
  BY DEF TypeOK
<1>1. ASSUME NEW t \in Estornos, LerAtividade(t) PROVE ClienteTypeOK' /\ LidaTypeOK'
  <2> DEFINE y == [gasto |-> SumFunction([v \in OutrasCompras(t) |-> pedido[v].total]),
                   visita |-> UltimaAtividade(t)]
  <2>1. y \in [gasto: Nat, visita: Nat]
    BY <1>0, AtividadeTipo
  <2>2. lida' = [lida EXCEPT ![t] = y] /\ UNCHANGED cliente
    BY <1>1 DEF LerAtividade, cadastro
  <2> HIDE DEF y
  <2>3. QED
    BY <2>1, <2>2 DEF TypeOK, ClienteTypeOK, LidaTypeOK
<1>2. ASSUME UNCHANGED <<cliente, lida>> PROVE ClienteTypeOK' /\ LidaTypeOK'
  BY <1>2 DEF TypeOK, ClienteTypeOK, LidaTypeOK
<1>3. ASSUME NEW t \in Requisicoes,
           \/ ConsultarChave(t) \/ AbrirVenda(t) \/ ValidarVenda(t) \/ SairItem(t)
           \/ UsarCupom(t) \/ ComprarCliente(t)
      PROVE UNCHANGED <<cliente, lida>>
  BY <1>3 DEF ConsultarChave, AbrirVenda, ValidarVenda, SairItem, UsarCupom, ComprarCliente,
              Repetir, Encerrar, Escrever, Item, cadastro
<1>4. ASSUME NEW t \in Estornos,
             AbrirEstorno(t) \/ DevolverItem(t) \/ DevolverCupom(t) \/ GravarCliente(t)
      PROVE UNCHANGED <<cliente, lida>>
  BY <1>4 DEF AbrirEstorno, DevolverItem, DevolverCupom, GravarCliente, Encerrar, Escrever, Item,
              cadastro
<1>5. ASSUME NEW t \in VendaTx, Abortar(t) PROVE UNCHANGED <<cliente, lida>>
  BY <1>5 DEF Abortar, Encerrar
<1>6. ASSUME NEW c \in Cupons, AtualizarCupom(c) \/ ExcluirCupom(c) PROVE UNCHANGED <<cliente, lida>>
  BY <1>6 DEF AtualizarCupom, ExcluirCupom, cadastro
<1>7. QED
  BY <1>1, <1>2, <1>3, <1>4, <1>5, <1>6, CompraTipo, EstornoTipo DEF VendasNext

LEMMA AtendimentoFicha ==
    ASSUME TypeOK, AtendimentoNext, UNCHANGED vendas
    PROVE  ClienteTypeOK' /\ LidaTypeOK'
<1>0. LidaTypeOK'
  BY DEF TypeOK, LidaTypeOK, vendas
<1>1. ASSUME NEW t \in Chamadas, ConfirmarAtendimento(t) PROVE ClienteTypeOK'
  <2>1. Alvo(t) \in Agendamentos
    BY AtendimentoAssumption DEF TypeOK, TiposOK, AtendimentoTypeOK, Alvo
  <2>2. PICK c \in Clientes : c = ClienteDe[Alvo(t)]
    BY <2>1, CadastroAssumption
  <2>3. PICK d \in Nat : d = DataDe[Alvo(t)]
    BY <2>1, CadastroAssumption
  <2>4. cliente' = cliente \/ cliente' = [cliente EXCEPT ![c].visita = d]
    BY <1>1, <2>2, <2>3 DEF ConfirmarAtendimento, ClienteAposVisita
  <2>5. QED
    BY <2>4 DEF TypeOK, ClienteTypeOK
<1>2. ASSUME NEW t \in Chamadas, QuietoA(t) PROVE ClienteTypeOK'
  BY <1>2 DEF QuietoA, linhas, TypeOK, ClienteTypeOK
<1>3. QED
  BY <1>0, <1>1, <1>2, ChamadaQuieta DEF AtendimentoNext, TypeOK

\* The full type invariant, the clients' rows and what the refunds read
\* included.
THEOREM TiposCompletos == Spec => []TypeOK
<1>1. Init => TypeOK
  BY InitTipos DEF Init, CadastroInit, VendasInit, TypeOK, ClienteTypeOK, LidaTypeOK
<1>2. TypeOK /\ [Next]_vars => TypeOK'
  <2> SUFFICES ASSUME TypeOK, [Next]_vars PROVE TypeOK'
    OBVIOUS
  <2>1. CASE CadastroNext /\ UNCHANGED <<vendas, atendimento>>
    <3>1. TiposOK'
      BY <2>1, CadastroTipos DEF TypeOK
    <3>2. LidaTypeOK'
      BY <2>1 DEF TypeOK, LidaTypeOK, vendas
    <3>3. ASSUME NEW c \in Clientes, DesativarCliente(c) PROVE ClienteTypeOK'
      BY <3>3 DEF DesativarCliente, TypeOK, ClienteTypeOK
    <3>4. UNCHANGED cliente => ClienteTypeOK'
      BY DEF TypeOK, ClienteTypeOK
    <3>5. ClienteTypeOK'
      BY <2>1, <3>3, <3>4 DEF CadastroNext, MovimentarManual, DesativarProduto, DesativarServico,
                              SalvarFilial
    <3>6. QED
      BY <3>1, <3>2, <3>5 DEF TypeOK
  <2>2. CASE VendasNext /\ UNCHANGED atendimento
    BY <2>2, VendasTipos, VendasFicha DEF TypeOK
  <2>3. CASE AtendimentoNext /\ UNCHANGED vendas
    BY <2>3, AtendimentoTipos, AtendimentoFicha DEF TypeOK
  <2>4. CASE UNCHANGED vars
    BY <2>4 DEF vars, cadastro, vendas, atendimento, TypeOK, TiposOK, CadastroTypeOK, VendasTypeOK,
                AtendimentoTypeOK, ClienteTypeOK, LidaTypeOK
  <2>5. QED
    BY <2>1, <2>2, <2>3, <2>4 DEF Next
<1>3. QED
  BY <1>1, <1>2, PTL DEF Spec

-----------------------------------------------------------------------------
\* A repetition is in conflict only with a sale of another content: there is
\* one sale for the key, so the one compared is the one that exists.
LEMMA RepetirRecupera ==
    ASSUME ChaveInd, NEW t \in Requisicoes, Repetir(t),
           resp'[t] \in {"RECUSADA", "CONFLITO", "UNICIDADE"}
    PROVE  \A v \in Anterior(t) : pedido[v] # pedido[t]
<1>1. PICK v \in Anterior(t) : Encerrar(t, IF MesmoConteudo(v, t) THEN v ELSE "CONFLITO")
  BY DEF Repetir
<1>2. v \in Requisicoes /\ t \in VendaTx
  BY TxTipo DEF Anterior, ChaveInd
<1>3. resp'[t] = IF MesmoConteudo(v, t) THEN v ELSE "CONFLITO"
  BY <1>1, <1>2, TxTipo DEF Encerrar, ChaveInd
<1>4. v \notin Recusas
  BY <1>2, TxTipo DEF ChaveInd
<1>5. pedido[v] # pedido[t]
  BY <1>3, <1>4 DEF MesmoConteudo, Recusas
<1>6. ASSUME NEW w \in Anterior(t) PROVE w = v
  BY <1>1, <1>6 DEF Anterior, ChaveInd, UmaVendaPorChave
<1>7. QED
  BY <1>5, <1>6

LEMMA RecusaRecupera ==
    ASSUME TypeOK, ChaveInd, NEW t \in Requisicoes, VendasNext,
           resp[t] = Nenhum, resp'[t] \in {"RECUSADA", "CONFLITO", "UNICIDADE"}
    PROVE  \A v \in Anterior(t) : pedido[v] # pedido[t]
<1>0. /\ t \in VendaTx /\ TiposOK /\ t \notin Estornos
      /\ resp'[t] # resp[t] /\ resp'[t] # "FALHA" /\ resp'[t] \notin Requisicoes
      /\ resp \in [VendaTx -> Requisicoes \cup Recusas \cup {Nenhum}]
      /\ ChaveT(t)
  BY TxTipo, VendasAssumption DEF Recusas, TypeOK, ChaveInd
<1>1. ASSUME NEW u \in VendaTx, QuietoV(u) PROVE u = t
  BY <1>0, <1>1 DEF QuietoV
<1>2. ASSUME txv[t].passo \in Depois PROVE Anterior(t) = {}
  BY <1>0, <1>2 DEF ChaveT
<1>3. ASSUME NEW u \in Requisicoes,
           \/ ConsultarChave(u) \/ AbrirVenda(u) \/ ValidarVenda(u) \/ SairItem(u)
           \/ UsarCupom(u) \/ ComprarCliente(u)
      PROVE  \A v \in Anterior(t) : pedido[v] # pedido[t]
  <2>1. u = t
    BY <1>0, <1>1, <1>3, RequisicaoQuieta, TxTipo
  <2>2. CASE ConsultarChave(t) \/ AbrirVenda(t)
    <3>1. Repetir(t)
      BY <1>0, <2>2 DEF ConsultarChave, AbrirVenda, Escrever
    <3>2. QED
      BY <3>1, RepetirRecupera
  <2>3. CASE ValidarVenda(t) \/ SairItem(t) \/ UsarCupom(t) \/ ComprarCliente(t)
    <3>1. txv[t].passo \in Depois
      BY <2>3 DEF ValidarVenda, SairItem, UsarCupom, ComprarCliente, Em, Depois
    <3>2. QED
      BY <1>2, <3>1
  <2>4. QED
    BY <1>3, <2>1, <2>2, <2>3
<1>4. ASSUME NEW u \in Requisicoes, ConfirmarVenda(u) PROVE FALSE
  BY <1>0, <1>4 DEF ConfirmarVenda
<1>5. ASSUME NEW u \in Estornos,
           \/ AbrirEstorno(u) \/ DevolverItem(u) \/ DevolverCupom(u)
           \/ LerAtividade(u) \/ GravarCliente(u)
      PROVE  FALSE
  BY <1>0, <1>1, <1>5, EstornoQuieto, TxTipo
<1>6. ASSUME NEW u \in Estornos, ConfirmarEstorno(u) PROVE FALSE
  BY <1>0, <1>6 DEF ConfirmarEstorno
<1>7. ASSUME NEW u \in VendaTx, Abortar(u) PROVE FALSE
  BY <1>0, <1>7 DEF Abortar, Encerrar
<1>8. ASSUME NEW c \in Cupons, AtualizarCupom(c) \/ ExcluirCupom(c) PROVE FALSE
  BY <1>0, <1>8 DEF AtualizarCupom, ExcluirCupom
<1>9. QED
  BY <1>3, <1>4, <1>5, <1>6, <1>7, <1>8 DEF VendasNext

\* A call whose key and content were already sold is never refused, whatever
\* became of the stock, the coupon and the client since.
THEOREM RepeticaoSempre == Spec => RepeticaoRecupera
<1> DEFINE A == \A t \in Requisicoes :
         (resp[t] = Nenhum /\ resp'[t] \in {"RECUSADA", "CONFLITO", "UNICIDADE"})
            => \A v \in Anterior(t) : pedido[v] # pedido[t]
<1>1. TypeOK /\ ChaveInd /\ [Next]_vars => [A]_vars
  <2> SUFFICES ASSUME TypeOK, ChaveInd, Next, NEW t \in Requisicoes,
                      resp[t] = Nenhum, resp'[t] \in {"RECUSADA", "CONFLITO", "UNICIDADE"}
               PROVE  \A v \in Anterior(t) : pedido[v] # pedido[t]
    OBVIOUS
  <2>1. resp' # resp
    BY VendasAssumption DEF Recusas
  <2>2. VendasNext
    BY <2>1 DEF Next, vendas
  <2>3. QED
    BY <2>2, RecusaRecupera
<1>2. QED
  BY <1>1, TiposCompletos, ChaveIndutiva, PTL DEF Spec, RepeticaoRecupera

-----------------------------------------------------------------------------
(***************************************************************************)
(* The books.  The log and the clients' totals are explained by the rows   *)
(* of the sales and of the consumptions.  A transaction writes what it     *)
(* collected on the way, so the invariant follows what it collected: all   *)
(* the items of the sale once the loop is over, and the total of the other *)
(* purchases, which the company's row keeps from moving.                   *)
(***************************************************************************)
Cheio == {"cupom", "ler", "cliente", "commit"}

ItensT(t) ==
    /\ txv[t].passo \in {"fora", "abrir", "validar"} => txv[t].feitos = {}
    /\ txv[t].passo = "itens" => txv[t].feitos \subseteq ProdutosDe(t)
    /\ txv[t].passo \in Cheio => txv[t].feitos = ProdutosDe(t)

GastoLido(t) == SumFunction([v \in OutrasCompras(t) |-> pedido[v].total])

LidaT(t) ==
    txv[t].passo \in {"cliente", "commit"} /\ Conteudo(t).cliente # Nenhum
        => lida[t].gasto = GastoLido(t)

\* The log's part of Conservacao.
LogExplicado ==
    \A l \in Locais, p \in Produtos :
        livro[<<l, p>>] = (IF l = Central THEN manual[p] ELSE 0)
                          - Vendido(l, p) - Consumido(l, p)

ContaInd ==
    /\ TypeOK
    /\ ChaveInd
    /\ \A t \in VendaTx : ItensT(t)
    /\ \A t \in Estornos : LidaT(t)
    /\ LogExplicado
    /\ GastoConfere

Total(c) == SumFunction([v \in Requisicoes |-> Gasta(v, c)])
ConsumoTotal(p) == SumFunction([a \in Agendamentos |-> consumo[a][p]])

\* The sums are integers.
LEMMA SomasInteiras ==
    ASSUME TypeOK
    PROVE  /\ \A l \in Locais, p \in Produtos : Vendido(l, p) \in Int
           /\ \A c : Total(c) \in Int
           /\ \A p \in Produtos : ConsumoTotal(p) \in Int
<1>0. /\ pedido \in [Requisicoes -> Pedidos]
      /\ \A v \in Requisicoes : \A p \in Produtos : pedido[v].itens[p] \in Int
      /\ \A v \in Requisicoes : pedido[v].total \in Int
      /\ \A a \in Agendamentos, p \in Produtos : consumo[a][p] \in Int
  BY VendasAssumption DEF TypeOK, TiposOK, VendasTypeOK, CadastroTypeOK
<1>1. ASSUME NEW l, NEW p \in Produtos PROVE Vendido(l, p) \in Int
  <2> DEFINE f == [v \in Requisicoes |-> Leva(v, l, p)]
  <2>1. \A v \in Requisicoes : f[v] \in Int
    BY <1>0 DEF Leva
  <2>2. DOMAIN f = Requisicoes /\ Vendido(l, p) = SumFunction(f)
    BY DEF Vendido
  <2> HIDE DEF f
  <2>3. QED
    BY <2>1, <2>2, SomaFuncao, SomaInteira, VendasAssumption
<1>2. ASSUME NEW c PROVE Total(c) \in Int
  <2> DEFINE f == [v \in Requisicoes |-> Gasta(v, c)]
  <2>1. \A v \in Requisicoes : f[v] \in Int
    BY <1>0 DEF Gasta
  <2>2. DOMAIN f = Requisicoes /\ Total(c) = SumFunction(f)
    BY DEF Total
  <2> HIDE DEF f
  <2>3. QED
    BY <2>1, <2>2, SomaFuncao, SomaInteira, VendasAssumption
<1>3. ASSUME NEW p \in Produtos PROVE ConsumoTotal(p) \in Int
  <2> DEFINE f == [a \in Agendamentos |-> consumo[a][p]]
  <2>1. \A v \in Agendamentos : f[v] \in Int
    BY <1>0
  <2>2. DOMAIN f = Agendamentos /\ ConsumoTotal(p) = SumFunction(f)
    BY DEF ConsumoTotal
  <2> HIDE DEF f
  <2>3. QED
    BY <2>1, <2>2, SomaFuncao, SomaInteira, CadastroAssumption
<1>4. QED
  BY <1>1, <1>2, <1>3

\* One sale changes its status: the sums change by its own part.
LEMMA VendaMuda ==
    ASSUME TypeOK, TypeOK', UNCHANGED pedido, NEW t \in Requisicoes,
           \A v \in Requisicoes \ {t} : venda'[v].status = venda[v].status
    PROVE  /\ \A l \in Locais, p \in Produtos :
                Vendido(l, p)' = Vendido(l, p) - Leva(t, l, p) + Leva(t, l, p)'
           /\ \A c : Total(c)' = Total(c) - Gasta(t, c) + Gasta(t, c)'
<1>0. /\ \A v \in Requisicoes : \A p \in Produtos : pedido[v].itens[p] \in Int
      /\ \A v \in Requisicoes : pedido[v].total \in Int
  BY VendasAssumption DEF TypeOK, TiposOK, VendasTypeOK
<1>1. ASSUME NEW l, NEW p \in Produtos
      PROVE  Vendido(l, p)' = Vendido(l, p) - Leva(t, l, p) + Leva(t, l, p)'
  <2> DEFINE f == [v \in Requisicoes |-> Leva(v, l, p)]
             g == [v \in Requisicoes |-> Leva(v, l, p)']
  <2>1. \A v \in Requisicoes : f[v] \in Int /\ g[v] \in Int
    BY <1>0 DEF Leva
  <2>2. \A v \in Requisicoes \ {t} : f[v] = g[v]
    BY DEF Leva
  <2>3. /\ DOMAIN f = Requisicoes /\ Vendido(l, p) = SumFunction(f)
        /\ DOMAIN g = Requisicoes /\ Vendido(l, p)' = SumFunction(g)
        /\ f[t] = Leva(t, l, p) /\ g[t] = Leva(t, l, p)'
    BY DEF Vendido
  <2> HIDE DEF f, g
  <2>4. Soma(g, Requisicoes) = Soma(f, Requisicoes) - f[t] + g[t]
    BY <2>1, <2>2, SomaMuda, VendasAssumption
  <2>5. QED
    BY <2>3, <2>4, SomaFuncao
<1>2. ASSUME NEW c
      PROVE  Total(c)' = Total(c) - Gasta(t, c) + Gasta(t, c)'
  <2> DEFINE f == [v \in Requisicoes |-> Gasta(v, c)]
             g == [v \in Requisicoes |-> Gasta(v, c)']
  <2>1. \A v \in Requisicoes : f[v] \in Int /\ g[v] \in Int
    BY <1>0 DEF Gasta
  <2>2. \A v \in Requisicoes \ {t} : f[v] = g[v]
    BY DEF Gasta
  <2>3. /\ DOMAIN f = Requisicoes /\ Total(c) = SumFunction(f)
        /\ DOMAIN g = Requisicoes /\ Total(c)' = SumFunction(g)
        /\ f[t] = Gasta(t, c) /\ g[t] = Gasta(t, c)'
    BY DEF Total
  <2> HIDE DEF f, g
  <2>4. Soma(g, Requisicoes) = Soma(f, Requisicoes) - f[t] + g[t]
    BY <2>1, <2>2, SomaMuda, VendasAssumption
  <2>5. QED
    BY <2>3, <2>4, SomaFuncao
<1>3. QED
  BY <1>1, <1>2

\* One appointment changes its consumption.
LEMMA ConsumoMuda ==
    ASSUME TypeOK, TypeOK', NEW b \in Agendamentos, NEW p \in Produtos,
           \A a \in Agendamentos \ {b} : consumo'[a] = consumo[a]
    PROVE  ConsumoTotal(p)' = ConsumoTotal(p) - consumo[b][p] + consumo'[b][p]
<1> DEFINE f == [a \in Agendamentos |-> consumo[a][p]]
           g == [a \in Agendamentos |-> consumo'[a][p]]
<1>1. \A a \in Agendamentos : f[a] \in Int /\ g[a] \in Int
  BY DEF TypeOK, TiposOK, CadastroTypeOK
<1>2. \A a \in Agendamentos \ {b} : f[a] = g[a]
  OBVIOUS
<1>3. /\ DOMAIN f = Agendamentos /\ ConsumoTotal(p) = SumFunction(f)
      /\ DOMAIN g = Agendamentos /\ ConsumoTotal(p)' = SumFunction(g)
      /\ f[b] = consumo[b][p] /\ g[b] = consumo'[b][p]
  BY DEF ConsumoTotal
<1> HIDE DEF f, g
<1>4. Soma(g, Agendamentos) = Soma(f, Agendamentos) - f[b] + g[b]
  BY <1>1, <1>2, SomaMuda, CadastroAssumption
<1>5. QED
  BY <1>3, <1>4, SomaFuncao

\* Nothing changes its status: the sums stay.
LEMMA VendaParada ==
    ASSUME UNCHANGED pedido, \A v \in Requisicoes : venda'[v].status = venda[v].status
    PROVE  /\ \A l, p : Vendido(l, p)' = Vendido(l, p)
           /\ \A c : Total(c)' = Total(c)
           /\ \A t : UNCHANGED alvo => OutrasCompras(t)' = OutrasCompras(t)
<1>1. ASSUME NEW l, NEW p PROVE Vendido(l, p)' = Vendido(l, p)
  <2>1. [v \in Requisicoes |-> Leva(v, l, p)]' = [v \in Requisicoes |-> Leva(v, l, p)]
    BY DEF Leva
  <2>2. QED
    BY <2>1 DEF Vendido
<1>2. ASSUME NEW c PROVE Total(c)' = Total(c)
  <2>1. [v \in Requisicoes |-> Gasta(v, c)]' = [v \in Requisicoes |-> Gasta(v, c)]
    BY DEF Gasta
  <2>2. QED
    BY <2>1 DEF Total
<1>3. ASSUME NEW t, UNCHANGED alvo PROVE OutrasCompras(t)' = OutrasCompras(t)
  BY <1>3 DEF OutrasCompras, Conteudo, VendaDe
<1>4. QED
  BY <1>1, <1>2, <1>3

\* The two statements through their sums.
LEMMA LivroPorSomas ==
    LogExplicado <=> \A l \in Locais, p \in Produtos :
        livro[<<l, p>>] = (IF l = Central THEN manual[p] ELSE 0) - Vendido(l, p)
                          - (IF l = Central THEN ConsumoTotal(p) ELSE 0)
  BY DEF LogExplicado, Consumido, ConsumoTotal

LEMMA GastoPorSomas ==
    GastoConfere <=> \A c \in Clientes : cliente[c].gasto = Total(c)
  BY DEF GastoConfere, Total

-----------------------------------------------------------------------------
\* A step of t that writes nothing yet.
LEMMA ContaQuieta ==
    ASSUME ContaInd, TypeOK', ChaveInd', NEW t \in VendaTx, QuietoV(t), ItensT(t)',
           t \in Estornos => LidaT(t)'
    PROVE  ContaInd'
<1>0. UNCHANGED <<livro, manual, cliente, consumo, pedido, alvo, venda>>
  BY DEF QuietoV, linhas
<1>1. ASSUME NEW u \in VendaTx PROVE ItensT(u)'
  BY <1>0, <1>1 DEF QuietoV, ContaInd, ItensT, ProdutosDe, Conteudo, VendaDe
<1>2. ASSUME NEW u \in Estornos PROVE LidaT(u)'
  <2>1. u \in VendaTx
    BY DEF VendaTx
  <2>2. CASE u # t
    <3>1. LidaT(u) /\ txv'[u] = txv[u] /\ lida'[u] = lida[u]
      BY <2>1, <2>2 DEF QuietoV, ContaInd
    <3>2. GastoLido(u)' = GastoLido(u)
      BY <1>0 DEF GastoLido, OutrasCompras, Conteudo, VendaDe
    <3>3. QED
      BY <1>0, <3>1, <3>2 DEF LidaT, Conteudo, VendaDe
  <2>3. QED
    BY <2>2
<1>3. LogExplicado'
  BY <1>0 DEF ContaInd, LogExplicado, Vendido, Leva, Consumido
<1>4. GastoConfere'
  BY <1>0 DEF ContaInd, GastoConfere, Gasta
<1>5. QED
  BY <1>1, <1>2, <1>3, <1>4 DEF ContaInd

\* The end of a transaction leaves nothing to say of it.
LEMMA ContaFim ==
    ASSUME ContaInd, TypeOK', ChaveInd', NEW t \in VendaTx, NEW x, Encerrar(t, x)
    PROVE  ContaInd'
<1>0. TiposOK
  BY DEF ContaInd, TypeOK
<1>1. txv'[t].passo = "fim"
  BY <1>0, TxTipo DEF Encerrar, Ir
<1>2. ItensT(t)' /\ LidaT(t)'
  BY <1>1 DEF ItensT, LidaT, Cheio
<1>3. QED
  BY <1>0, <1>2, EncerrarQuieto, ContaQuieta

\* A statement that keeps the items as they are and what was read too.
LEMMA ContaAnda ==
    ASSUME ContaInd, TypeOK', ChaveInd', NEW t \in VendaTx, QuietoV(t), UNCHANGED lida,
           NEW s, txv'[t].passo = s, txv'[t].feitos = txv[t].feitos,
           \/ txv[t].passo \in {"fora", "abrir", "validar"} /\ s \in {"abrir", "validar", "itens"}
           \/ txv[t].passo \in Cheio /\ s \in Cheio,
           t \in Estornos /\ s \in {"cliente", "commit"} =>
              \/ txv[t].passo \in {"cliente", "commit"}
              \/ Conteudo(t).cliente = Nenhum
    PROVE  ContaInd'
<1>0. UNCHANGED <<pedido, alvo, venda>> /\ ItensT(t)
  BY DEF QuietoV, ContaInd
<1>1. ItensT(t)'
  BY <1>0 DEF ItensT, Cheio, ProdutosDe, Conteudo, VendaDe
<1>2. ASSUME t \in Estornos PROVE LidaT(t)'
  <2>1. LidaT(t)
    BY <1>2 DEF ContaInd
  <2>2. GastoLido(t)' = GastoLido(t) /\ Conteudo(t)' = Conteudo(t)
    BY <1>0 DEF GastoLido, OutrasCompras, Conteudo, VendaDe
  <2>3. QED
    BY <1>2, <2>1, <2>2 DEF LidaT
<1>3. QED
  BY <1>1, <1>2, ContaQuieta

LEMMA ContaEscreve ==
    ASSUME ContaInd, TypeOK', ChaveInd', NEW t \in VendaTx, NEW r, NEW s, Desocupada(r),
           Escrever(t, r, s),
           \/ txv[t].passo \in {"fora", "abrir", "validar"} /\ s \in {"abrir", "validar", "itens"}
           \/ txv[t].passo \in Cheio /\ s \in Cheio,
           t \in Estornos /\ s \in {"cliente", "commit"} =>
              \/ txv[t].passo \in {"cliente", "commit"}
              \/ Conteudo(t).cliente = Nenhum
    PROVE  ContaInd'
<1>0. TiposOK
  BY DEF ContaInd, TypeOK
<1>1. txv'[t].passo = s /\ txv'[t].feitos = txv[t].feitos /\ UNCHANGED lida
  BY <1>0, TxTipo DEF Escrever, Ir
<1>2. QED
  BY <1>0, <1>1, EscreverQuieto, ContaAnda

\* The loop over the items ends when all of them are done.
LEMMA ContaItem ==
    ASSUME ContaInd, TypeOK', ChaveInd', NEW t \in VendaTx, NEW p, NEW s \in Cheio,
           txv[t].passo = "itens", Proximo(t, p), Item(t, p, s),
           t \in Estornos /\ s \in {"cliente", "commit"} => Conteudo(t).cliente = Nenhum
    PROVE  ContaInd'
<1>0. TiposOK /\ ItensT(t)
  BY DEF ContaInd, TypeOK
<1>1. /\ txv'[t].feitos = txv[t].feitos \cup {p}
      /\ txv'[t].passo = IF ProdutosDe(t) \ txv[t].feitos = {p} THEN s ELSE "itens"
      /\ UNCHANGED <<pedido, alvo, venda>>
  BY <1>0, TxTipo DEF Item
<1>2. p \in ProdutosDe(t) \ txv[t].feitos /\ txv[t].feitos \subseteq ProdutosDe(t)
  BY <1>0 DEF Proximo, ItensT
<1>3. ProdutosDe(t)' = ProdutosDe(t) /\ Conteudo(t)' = Conteudo(t)
  BY <1>1 DEF ProdutosDe, Conteudo, VendaDe
<1>4. ItensT(t)'
  <2>1. CASE ProdutosDe(t) \ txv[t].feitos = {p}
    <3>1. txv'[t].feitos = ProdutosDe(t) /\ txv'[t].passo = s
      BY <1>1, <1>2, <2>1
    <3>2. QED
      BY <1>3, <3>1 DEF ItensT, Cheio
  <2>2. CASE ProdutosDe(t) \ txv[t].feitos # {p}
    <3>1. txv'[t].feitos \subseteq ProdutosDe(t) /\ txv'[t].passo = "itens"
      BY <1>1, <1>2, <2>2
    <3>2. QED
      BY <1>3, <3>1 DEF ItensT, Cheio
  <2>3. QED
    BY <2>1, <2>2
<1>5. t \in Estornos => LidaT(t)'
  BY <1>1, <1>3 DEF LidaT
<1>6. QED
  BY <1>0, <1>4, <1>5, ItemQuieto, ContaQuieta

LEMMA RequisicaoConta ==
    ASSUME ContaInd, TypeOK', ChaveInd', NEW t \in Requisicoes,
           \/ ConsultarChave(t) \/ AbrirVenda(t) \/ ValidarVenda(t) \/ SairItem(t)
           \/ UsarCupom(t) \/ ComprarCliente(t)
    PROVE  ContaInd'
<1>0. t \in VendaTx /\ t \notin Estornos /\ TiposOK
  BY TxTipo DEF ContaInd, TypeOK
<1>q. QuietoV(t)
  BY <1>0, RequisicaoQuieta
<1>s. AposItens(t) \in Cheio /\ AposCliente(t) \in Cheio
  BY DEF AposItens, AposCliente, Cheio
<1>r. Repetir(t) => ContaInd'
  BY <1>0, ContaFim DEF Repetir
<1>1. CASE ConsultarChave(t)
  <2>1. CASE Ir(t, "abrir") /\ UNCHANGED lida
    <3>1. txv'[t].passo = "abrir" /\ txv'[t].feitos = txv[t].feitos
      BY <1>0, <2>1, TxTipo DEF Ir
    <3>2. QED
      BY <1>0, <1>q, <1>1, <2>1, <3>1, ContaAnda DEF ConsultarChave, Em
  <2>2. QED
    BY <1>1, <1>r, <2>1 DEF ConsultarChave
<1>2. CASE AbrirVenda(t)
  BY <1>0, <1>2, <1>r, ContaEscreve DEF AbrirVenda, Em
<1>3. CASE ValidarVenda(t)
  <2>1. CASE \E x : Encerrar(t, x)
    BY <1>0, <2>1, ContaFim
  <2>2. CASE /\ txv' = [txv EXCEPT ![t].passo = "itens", ![t].em = relogio,
                                ![t].uso = IF pedido[t].cupom = Nenhum THEN 0
                                           ELSE cupom[pedido[t].cupom].uso]
             /\ UNCHANGED lida
    <3>1. txv'[t].passo = "itens" /\ txv'[t].feitos = txv[t].feitos
      BY <1>0, <2>2, TxTipo
    <3>2. QED
      BY <1>0, <1>q, <1>3, <2>2, <3>1, ContaAnda DEF ValidarVenda, Em
  <2>3. QED
    BY <1>3, <2>1, <2>2 DEF ValidarVenda
<1>4. CASE SairItem(t)
  <2>1. PICK p \in Produtos :
          Proximo(t, p) /\ (Item(t, p, AposItens(t)) \/ Encerrar(t, "RECUSADA"))
    BY <1>4 DEF SairItem
  <2>2. txv[t].passo = "itens"
    BY <1>4 DEF SairItem, Em
  <2>3. QED
    BY <1>0, <1>s, <2>1, <2>2, ContaItem, ContaFim
<1>5. CASE UsarCupom(t)
  <2>1. txv[t].passo \in Cheio
    BY <1>5 DEF UsarCupom, Em, Cheio
  <2>2. QED
    BY <1>0, <1>s, <1>5, <2>1, ContaEscreve, ContaFim DEF UsarCupom
<1>6. CASE ComprarCliente(t)
  <2>1. txv[t].passo \in Cheio /\ "commit" \in Cheio
    BY <1>6 DEF ComprarCliente, Em, Cheio
  <2>2. QED
    BY <1>0, <1>6, <2>1, ContaEscreve, ContaFim DEF ComprarCliente
<1>7. QED
  BY <1>1, <1>2, <1>3, <1>4, <1>5, <1>6

LEMMA EstornoConta ==
    ASSUME ContaInd, TypeOK', ChaveInd', NEW t \in Estornos,
           \/ AbrirEstorno(t) \/ DevolverItem(t) \/ DevolverCupom(t)
           \/ LerAtividade(t) \/ GravarCliente(t)
    PROVE  ContaInd'
<1>0. t \in VendaTx /\ TiposOK /\ TypeOK
  BY TxTipo DEF ContaInd, TypeOK
<1>q. QuietoV(t)
  BY <1>0, EstornoQuieto
<1>s. /\ AposCupom(t) \in Cheio /\ "cupom" \in Cheio
      /\ AposCupom(t) \in {"cliente", "commit"} => Conteudo(t).cliente = Nenhum
  BY DEF AposCupom, Cheio
<1>1. CASE AbrirEstorno(t)
  BY <1>0, <1>1, ContaEscreve, ContaFim DEF AbrirEstorno, Em
<1>2. CASE DevolverItem(t)
  <2> DEFINE s == IF venda[alvo[t]].cupom # Nenhum THEN "cupom" ELSE AposCupom(t)
  <2>1. s \in Cheio /\ (s \in {"cliente", "commit"} => Conteudo(t).cliente = Nenhum)
    BY <1>s
  <2>2. PICK p \in Produtos : Proximo(t, p) /\ Item(t, p, s)
    BY <1>2 DEF DevolverItem
  <2> HIDE DEF s
  <2>3. txv[t].passo = "itens"
    BY <1>2 DEF DevolverItem, Em
  <2>4. QED
    BY <1>0, <2>1, <2>2, <2>3, ContaItem
<1>3. CASE DevolverCupom(t)
  <2>1. txv[t].passo = "cupom"
    BY <1>3 DEF DevolverCupom, Em
  <2>2. CASE Ir(t, AposCupom(t)) /\ UNCHANGED lida
    <3>1. txv'[t].passo = AposCupom(t) /\ txv'[t].feitos = txv[t].feitos
      BY <1>0, <2>2, TxTipo DEF Ir
    <3>2. QED
      BY <1>0, <1>q, <1>s, <2>1, <2>2, <3>1, ContaAnda
  <2>3. QED
    BY <1>0, <1>s, <1>3, <2>1, <2>2, ContaEscreve DEF DevolverCupom
<1>4. CASE LerAtividade(t)
  <2>1. /\ txv[t].passo = "ler" /\ txv'[t].passo = "cliente" /\ txv'[t].feitos = txv[t].feitos
        /\ UNCHANGED <<pedido, alvo, venda>>
    BY <1>0, <1>4, TxTipo DEF LerAtividade, Em, Ir
  <2>2. ItensT(t)'
    BY <1>0, <2>1 DEF ContaInd, ItensT, Cheio, ProdutosDe, Conteudo, VendaDe
  <2>3. lida'[t].gasto = GastoLido(t)
    BY <1>0, <1>4 DEF LerAtividade, GastoLido, TypeOK, LidaTypeOK
  <2>4. GastoLido(t)' = GastoLido(t)
    BY <2>1 DEF GastoLido, OutrasCompras, Conteudo, VendaDe
  <2>5. LidaT(t)'
    BY <2>3, <2>4 DEF LidaT
  <2>6. QED
    BY <1>0, <1>q, <2>2, <2>5, ContaQuieta
<1>5. CASE GravarCliente(t)
  <2>1. txv[t].passo = "cliente" /\ {"cliente", "commit"} \subseteq Cheio
    BY <1>5 DEF GravarCliente, Em, Cheio
  <2>2. QED
    BY <1>0, <1>5, <2>1, ContaEscreve DEF GravarCliente
<1>6. QED
  BY <1>1, <1>2, <1>3, <1>4, <1>5

-----------------------------------------------------------------------------
\* The commit of t, once what it changes in the sale v is known: the log by
\* q, and no other sale.
LEMMA LivroCommit ==
    ASSUME ContaInd, TypeOK', NEW v \in Requisicoes, UNCHANGED <<pedido, manual, consumo>>,
           \A w \in Requisicoes \ {v} : venda'[w].status = venda[w].status,
           NEW q \in [Estantes -> Int], Movimentar(q),
           \A l \in Locais, p \in Produtos : q[<<l, p>>] = Leva(v, l, p) - Leva(v, l, p)'
    PROVE  LogExplicado'
<1>0. TypeOK
  BY DEF ContaInd
<1>1. ASSUME NEW l \in Locais, NEW p \in Produtos
      PROVE  livro'[<<l, p>>] = (IF l = Central THEN manual'[p] ELSE 0) - Vendido(l, p)'
                                - (IF l = Central THEN ConsumoTotal(p)' ELSE 0)
  <2> DEFINE m == IF l = Central THEN manual[p] ELSE 0
             c == IF l = Central THEN ConsumoTotal(p) ELSE 0
             L == Leva(v, l, p)
             M == Leva(v, l, p)'
             V == Vendido(l, p)
             W == Vendido(l, p)'
  <2>1. <<l, p>> \in Estantes
    BY DEF Estantes
  <2>2. livro'[<<l, p>>] = livro[<<l, p>>] + q[<<l, p>>] /\ q[<<l, p>>] = L - M
    BY <2>1 DEF Movimentar
  <2>3. livro[<<l, p>>] = m - V - c
    BY LivroPorSomas DEF ContaInd
  <2>4. W = V - L + M
    BY <1>0, VendaMuda
  <2>5. m \in Int /\ c \in Int /\ V \in Int
    BY <1>0, SomasInteiras DEF TypeOK, TiposOK, CadastroTypeOK
  <2>6. L \in Int /\ M \in Int
    BY <1>0, VendasAssumption DEF Leva, TypeOK, TiposOK, VendasTypeOK
  <2>7. (IF l = Central THEN manual'[p] ELSE 0) = m
        /\ (IF l = Central THEN ConsumoTotal(p)' ELSE 0) = c
    BY DEF ConsumoTotal
  <2> HIDE DEF m, c, L, M, V, W
  <2>8. livro'[<<l, p>>] = m - W - c
    BY <2>2, <2>3, <2>4, <2>5, <2>6
  <2>9. QED
    BY <2>7, <2>8 DEF W
<1>2. QED
  BY <1>1 DEF LogExplicado, Consumido, ConsumoTotal

\* After the commit of t nobody is inside, so nobody relies on what he read.
LEMMA CommitT ==
    ASSUME ContaInd, NEW t \in VendaTx, txv[t].passo = "commit", Ir(t, "fim"),
           UNCHANGED <<pedido, alvo>>
    PROVE  (\A u \in VendaTx : ItensT(u)') /\ (\A u \in Estornos : LidaT(u)')
<1>0. TiposOK /\ ChaveInd
  BY DEF ContaInd, TypeOK
<1>1. txv'[t].passo = "fim" /\ \A u \in VendaTx \ {t} : txv'[u] = txv[u]
  BY <1>0, TxTipo DEF Ir
<1>2. ASSUME NEW u \in VendaTx PROVE ItensT(u)'
  <2>1. CASE u = t
    BY <1>1, <2>1 DEF ItensT, Cheio
  <2>2. CASE u # t
    BY <1>1, <2>2 DEF ContaInd, ItensT, ProdutosDe, Conteudo, VendaDe
  <2>3. QED
    BY <2>1, <2>2
<1>3. ASSUME NEW u \in Estornos PROVE LidaT(u)'
  <2>1. u \in VendaTx
    BY DEF VendaTx
  <2>2. txv'[u].passo \notin {"cliente", "commit"}
    BY <1>0, <1>1, <2>1, Sozinha DEF Dentro
  <2>3. QED
    BY <2>2 DEF LidaT
<1>4. QED
  BY <1>2, <1>3

LEMMA VendaConta ==
    ASSUME ContaInd, TypeOK', ChaveInd', NEW t \in Requisicoes, ConfirmarVenda(t)
    PROVE  ContaInd'
<1>0. t \in VendaTx /\ TiposOK /\ TypeOK /\ txv[t].passo = "commit"
  BY TxTipo DEF ContaInd, TypeOK, ConfirmarVenda, Em
<1>1. /\ venda[t].status = "AUSENTE" /\ venda'[t].status = "CONCLUIDA"
      /\ \A v \in Requisicoes \ {t} : venda'[v] = venda[v]
      /\ UNCHANGED <<pedido, alvo, manual, consumo>>
  BY <1>0 DEF ConfirmarVenda, ContaInd, ChaveInd, ChaveT, TiposOK, VendasTypeOK
<1>2. txv[t].feitos = ProdutosDe(t)
  BY <1>0 DEF ContaInd, ItensT, Cheio
<1>3. /\ pedido[t].itens \in [Produtos -> Nat] /\ pedido[t].total \in Nat
      /\ Conteudo(t) = pedido[t]
  BY <1>0, VendasAssumption DEF TiposOK, VendasTypeOK, Conteudo, VendaDe
<1>4. LogExplicado'
  <2> DEFINE q == Retirada(t)
  <2>1. q \in [Estantes -> Int] /\ Movimentar(q)
    BY <1>0, RetiradaTipo DEF ConfirmarVenda
  <2>2. ASSUME NEW l \in Locais, NEW p \in Produtos
        PROVE  q[<<l, p>>] = Leva(t, l, p) - Leva(t, l, p)'
    <3>1. <<l, p>> \in Estantes
      BY DEF Estantes
    <3>2. q[<<l, p>>] = IF l = pedido[t].local /\ p \in txv[t].feitos
                        THEN -pedido[t].itens[p] ELSE 0
      BY <3>1 DEF Retirada
    <3>3. p \in txv[t].feitos <=> pedido[t].itens[p] > 0
      BY <1>2, <1>3 DEF ProdutosDe
    <3>4. Leva(t, l, p) = 0
      BY <1>1 DEF Leva
    <3>5. Leva(t, l, p)' = IF l = pedido[t].local THEN pedido[t].itens[p] ELSE 0
      BY <1>1 DEF Leva
    <3>6. pedido[t].itens[p] \in Nat
      BY <1>3
    <3> HIDE DEF q
    <3>7. QED
      BY <3>2, <3>3, <3>4, <3>5, <3>6
  <2> HIDE DEF q
  <2>3. QED
    BY <1>1, <2>1, <2>2, LivroCommit
<1>5. GastoConfere'
  <2>1. ASSUME NEW c \in Clientes PROVE cliente'[c].gasto = Total(c)'
    <3>1. Total(c)' = Total(c) - Gasta(t, c) + Gasta(t, c)'
      BY <1>0, <1>1, VendaMuda
    <3>2. cliente[c].gasto = Total(c) /\ Total(c) \in Int
      BY <1>0, GastoPorSomas, SomasInteiras DEF ContaInd
    <3>3. Gasta(t, c) = 0 /\ Gasta(t, c)' = IF pedido[t].cliente = c THEN pedido[t].total ELSE 0
      BY <1>1 DEF Gasta
    <3>4. cliente'[c].gasto = cliente[c].gasto + Gasta(t, c)'
      <4>1. CASE pedido[t].cliente = c
        <5>1. c # Nenhum
          BY VendasAssumption
        <5>2. cliente'[c].gasto = cliente[c].gasto + pedido[t].total
          BY <4>1, <5>1 DEF ConfirmarVenda, ClienteAposCompra, ContaInd, TypeOK, ClienteTypeOK
        <5>3. QED
          BY <3>3, <4>1, <5>2
      <4>2. CASE pedido[t].cliente # c
        <5>1. cliente'[c].gasto = cliente[c].gasto
          BY <4>2 DEF ConfirmarVenda, ClienteAposCompra, ContaInd, TypeOK, ClienteTypeOK
        <5>2. QED
          BY <3>2, <3>3, <4>2, <5>1
      <4>3. QED
        BY <4>1, <4>2
    <3>5. Gasta(t, c)' \in Int
      BY <1>3, <3>3
    <3>6. QED
      BY <3>1, <3>2, <3>3, <3>4, <3>5
  <2>2. QED
    BY <2>1 DEF GastoConfere, Total
<1>6. QED
  BY <1>0, <1>1, <1>4, <1>5, CommitT DEF ContaInd, ConfirmarVenda

\* What a refund read of its client is the total without the sale refunded.
LEMMA GastoLidoTotal ==
    ASSUME TypeOK, NEW t \in Estornos, UNCHANGED <<pedido, alvo>>,
           venda'[alvo[t]].status = "ESTORNADA",
           \A v \in Requisicoes \ {alvo[t]} : venda'[v] = venda[v]
    PROVE  GastoLido(t) = Total(Conteudo(t).cliente)'
<1> DEFINE c == Conteudo(t).cliente
           g == [v \in Requisicoes |-> Gasta(v, c)']
           h == [v \in OutrasCompras(t) |-> pedido[v].total]
           P == OutrasCompras(t)
<1>1. Total(c)' = SumFunction(g) /\ DOMAIN g = Requisicoes
  BY DEF Total, Conteudo, VendaDe
<1>2. GastoLido(t) = SumFunction(h) /\ DOMAIN h = P
  BY DEF GastoLido
<1>3. P \in SUBSET Requisicoes /\ IsFiniteSet(P) /\ IsFiniteSet(Requisicoes)
  BY VendasAssumption, AtividadeTipo DEF TypeOK, OutrasCompras
<1>4. \A v \in Requisicoes : g[v] = IF v \in P THEN pedido[v].total ELSE 0
  BY DEF Gasta, OutrasCompras, Conteudo, VendaDe
<1>5. \A v \in P : h[v] = pedido[v].total
  OBVIOUS
<1>6. \A v \in Requisicoes : pedido[v].total \in Int
  BY VendasAssumption DEF TypeOK, TiposOK, VendasTypeOK
<1> HIDE DEF g, h, P
<1>7. Soma(g, Requisicoes) = Soma(g, P)
  BY <1>3, <1>4, <1>6, SomaParcial
<1>8. Soma(g, P) = Soma(h, P)
  BY <1>3, <1>4, <1>5, SomaIgual
<1>9. QED
  BY <1>1, <1>2, <1>7, <1>8, SomaFuncao

LEMMA EstornoContaCommit ==
    ASSUME ContaInd, TypeOK', ChaveInd', NEW t \in Estornos, ConfirmarEstorno(t)
    PROVE  ContaInd'
<1>0. t \in VendaTx /\ TiposOK /\ TypeOK /\ txv[t].passo = "commit" /\ t \notin Requisicoes
  BY TxTipo DEF ContaInd, TypeOK, ConfirmarEstorno, Em
<1>d. PICK d \in Requisicoes : d = alvo[t]
  BY DEF ContaInd, TypeOK, TiposOK, VendasTypeOK
<1>1. /\ venda[d].status = "CONCLUIDA" /\ venda'[d].status = "ESTORNADA"
      /\ \A v \in Requisicoes \ {d} : venda'[v] = venda[v]
      /\ UNCHANGED <<pedido, alvo, manual, consumo>>
  BY <1>0, <1>d DEF ConfirmarEstorno, ContaInd, ChaveInd, ChaveT, Dentro, TiposOK, VendasTypeOK
<1>2. txv[t].feitos = ProdutosDe(t)
  BY <1>0 DEF ContaInd, ItensT, Cheio
<1>3. /\ pedido[d].itens \in [Produtos -> Nat] /\ pedido[d].total \in Nat
      /\ Conteudo(t) = pedido[d]
  BY <1>0, <1>d, VendasAssumption DEF TiposOK, VendasTypeOK, Conteudo, VendaDe
<1>4. LogExplicado'
  <2> DEFINE q == Devolucao(t)
  <2>1. q \in [Estantes -> Int] /\ Movimentar(q)
    BY <1>0, DevolucaoTipo DEF ConfirmarEstorno
  <2>2. ASSUME NEW l \in Locais, NEW p \in Produtos
        PROVE  q[<<l, p>>] = Leva(d, l, p) - Leva(d, l, p)'
    <3>1. <<l, p>> \in Estantes
      BY DEF Estantes
    <3>2. q[<<l, p>>] = IF l = pedido[d].local /\ p \in txv[t].feitos
                        THEN pedido[d].itens[p] ELSE 0
      BY <1>3, <3>1 DEF Devolucao
    <3>3. p \in txv[t].feitos <=> pedido[d].itens[p] > 0
      BY <1>2, <1>3 DEF ProdutosDe
    <3>4. Leva(d, l, p)' = 0
      BY <1>1 DEF Leva
    <3>5. Leva(d, l, p) = IF l = pedido[d].local THEN pedido[d].itens[p] ELSE 0
      BY <1>1 DEF Leva
    <3>6. pedido[d].itens[p] \in Nat
      BY <1>3
    <3> HIDE DEF q
    <3>7. QED
      BY <3>2, <3>3, <3>4, <3>5, <3>6
  <2> HIDE DEF q
  <2>3. QED
    BY <1>1, <2>1, <2>2, LivroCommit
<1>5. GastoConfere'
  <2>1. ASSUME NEW c \in Clientes PROVE cliente'[c].gasto = Total(c)'
    <3>1. CASE pedido[d].cliente = c
      <4>1. c # Nenhum
        BY VendasAssumption
      <4>2. lida[t].gasto = GastoLido(t)
        BY <1>0, <1>3, <3>1, <4>1 DEF ContaInd, LidaT
      <4>3. cliente'[c].gasto = lida[t].gasto
        BY <1>3, <3>1, <4>1 DEF ConfirmarEstorno, ClienteAposEstorno, ContaInd, TypeOK, ClienteTypeOK
      <4>4. GastoLido(t) = Total(Conteudo(t).cliente)'
        BY <1>0, <1>d, <1>1, GastoLidoTotal
      <4>5. (Conteudo(t).cliente)' = c
        BY <1>1, <1>3, <3>1 DEF Conteudo, VendaDe
      <4>6. QED
        BY <4>2, <4>3, <4>4, <4>5 DEF Total, Gasta
    <3>2. CASE pedido[d].cliente # c
      <4>1. Total(c)' = Total(c) - Gasta(d, c) + Gasta(d, c)'
        BY <1>0, <1>1, VendaMuda
      <4>2. cliente[c].gasto = Total(c) /\ Total(c) \in Int
        BY <1>0, GastoPorSomas, SomasInteiras DEF ContaInd
      <4>3. Gasta(d, c) = 0 /\ Gasta(d, c)' = 0
        BY <1>1, <3>2 DEF Gasta
      <4>4. cliente'[c].gasto = cliente[c].gasto
        BY <1>3, <3>2 DEF ConfirmarEstorno, ClienteAposEstorno, ContaInd, TypeOK, ClienteTypeOK
      <4>5. QED
        BY <4>1, <4>2, <4>3, <4>4
    <3>3. QED
      BY <3>1, <3>2
  <2>2. QED
    BY <2>1 DEF GastoConfere, Total
<1>6. QED
  BY <1>0, <1>1, <1>4, <1>5, CommitT DEF ContaInd, ConfirmarEstorno

-----------------------------------------------------------------------------
\* Steps that leave the sales' statuses and transactions as they are.
LEMMA ContaAlheia ==
    ASSUME ContaInd, TypeOK', ChaveInd', UNCHANGED <<pedido, alvo, txv, lida>>,
           \A v \in Requisicoes : venda'[v].status = venda[v].status,
           \A c \in Clientes : cliente'[c].gasto = cliente[c].gasto,
           LogExplicado'
    PROVE  ContaInd'
<1>1. \A u \in VendaTx : ItensT(u)'
  BY DEF ContaInd, ItensT, ProdutosDe, Conteudo, VendaDe
<1>2. ASSUME NEW u \in Estornos PROVE LidaT(u)'
  <2>1. OutrasCompras(u)' = OutrasCompras(u)
    BY VendaParada
  <2>2. GastoLido(u)' = GastoLido(u)
    BY <2>1 DEF GastoLido
  <2>3. QED
    BY <2>2 DEF ContaInd, LidaT, Conteudo, VendaDe
<1>3. GastoConfere'
  <2>1. ASSUME NEW c \in Clientes PROVE cliente'[c].gasto = Total(c)'
    BY VendaParada, GastoPorSomas DEF ContaInd
  <2>2. QED
    BY <2>1 DEF GastoConfere, Total
<1>4. QED
  BY <1>1, <1>2, <1>3 DEF ContaInd

LEMMA LivroParado ==
    ASSUME ContaInd, UNCHANGED <<pedido, livro, manual, consumo>>,
           \A v \in Requisicoes : venda'[v].status = venda[v].status
    PROVE  LogExplicado'
<1>1. ASSUME NEW l \in Locais, NEW p \in Produtos
      PROVE  livro'[<<l, p>>] = (IF l = Central THEN manual'[p] ELSE 0) - Vendido(l, p)'
                                - Consumido(l, p)'
  <2>1. Vendido(l, p)' = Vendido(l, p)
    BY VendaParada
  <2>2. Consumido(l, p)' = Consumido(l, p)
    BY DEF Consumido
  <2>3. QED
    BY <2>1, <2>2 DEF ContaInd, LogExplicado
<1>2. QED
  BY <1>1 DEF LogExplicado

LEMMA CupomConta ==
    ASSUME ContaInd, TypeOK', ChaveInd', NEW c \in Cupons, AtualizarCupom(c) \/ ExcluirCupom(c)
    PROVE  ContaInd'
<1>1. \A v \in Requisicoes : venda'[v].status = venda[v].status
  <2>1. CASE AtualizarCupom(c)
    BY <2>1 DEF AtualizarCupom
  <2>2. CASE ExcluirCupom(c)
    <3>1. ASSUME NEW v \in Requisicoes
          PROVE  [venda[v] EXCEPT !.cupom = Nenhum].status = venda[v].status
      BY DEF ContaInd, ChaveInd, TiposOK, VendasTypeOK
    <3>2. QED
      BY <2>2, <3>1 DEF ExcluirCupom
  <2>3. QED
    BY <2>1, <2>2
<1>2. UNCHANGED <<livro, manual, consumo, cliente, pedido, alvo, txv, lida>>
  BY DEF AtualizarCupom, ExcluirCupom, cadastro
<1>3. QED
  BY <1>1, <1>2, LivroParado, ContaAlheia

\* A manual movement moves the log and its own count together.
LEMMA ManualConta ==
    ASSUME ContaInd, TypeOK', UNCHANGED vendas, NEW p \in Produtos, NEW q \in {-1, 1},
           MovimentarManual(p, q)
    PROVE  LogExplicado'
<1>0. /\ livro \in [Estantes -> Int] /\ manual \in [Produtos -> Int] /\ TypeOK
  BY DEF ContaInd, TypeOK, TiposOK, CadastroTypeOK
<1>1. ASSUME NEW l \in Locais, NEW o \in Produtos
      PROVE  livro'[<<l, o>>] = (IF l = Central THEN manual'[o] ELSE 0) - Vendido(l, o)'
                                - (IF l = Central THEN ConsumoTotal(o)' ELSE 0)
  <2> DEFINE c == IF l = Central THEN ConsumoTotal(o) ELSE 0
             V == Vendido(l, o)
  <2>1. <<l, o>> \in Estantes
    BY DEF Estantes
  <2>2. livro'[<<l, o>>] = livro[<<l, o>>] + (IF <<l, o>> = <<Central, p>> THEN q ELSE 0)
    BY <2>1 DEF MovimentarManual, Movimentar
  <2>3. manual'[o] = manual[o] + (IF o = p THEN q ELSE 0)
    BY <1>0 DEF MovimentarManual
  <2>4. livro[<<l, o>>] = (IF l = Central THEN manual[o] ELSE 0) - V - c
    BY LivroPorSomas DEF ContaInd
  <2>5. Vendido(l, o)' = V
    BY VendaParada DEF vendas
  <2>6. (IF l = Central THEN ConsumoTotal(o)' ELSE 0) = c
    BY DEF MovimentarManual, ConsumoTotal
  <2>7. c \in Int /\ V \in Int /\ manual[o] \in Int /\ q \in Int
    BY <1>0, SomasInteiras
  <2> HIDE DEF c, V
  <2>8. QED
    BY <2>2, <2>3, <2>4, <2>5, <2>6, <2>7
<1>2. QED
  BY <1>1 DEF LogExplicado, Consumido, ConsumoTotal

LEMMA CadastroConta ==
    ASSUME ContaInd, TypeOK', ChaveInd', CadastroNext, UNCHANGED <<vendas, atendimento>>
    PROVE  ContaInd'
<1>1. UNCHANGED <<pedido, alvo, txv, lida, venda>>
  BY DEF vendas
<1>2. \A c \in Clientes : cliente'[c].gasto = cliente[c].gasto
  <2>1. ASSUME NEW d \in Clientes, DesativarCliente(d)
        PROVE  \A c \in Clientes : cliente'[c].gasto = cliente[c].gasto
    BY <2>1 DEF DesativarCliente, ContaInd, TypeOK, ClienteTypeOK
  <2>2. UNCHANGED cliente \/ \E d \in Clientes : DesativarCliente(d)
    BY DEF CadastroNext, MovimentarManual, DesativarProduto, DesativarServico, SalvarFilial
  <2>3. QED
    BY <2>1, <2>2
<1>3. LogExplicado'
  <2>1. ASSUME UNCHANGED <<livro, manual, consumo>> PROVE LogExplicado'
    BY <1>1, <2>1, LivroParado
  <2>2. QED
    BY <2>1, ManualConta
       DEF CadastroNext, DesativarProduto, DesativarServico, SalvarFilial, DesativarCliente
<1>4. QED
  BY <1>1, <1>2, <1>3, ContaAlheia

\* The commit of an appointment call: the log and the movements that carry
\* the appointment's id change together.
LEMMA AtendimentoConta ==
    ASSUME ContaInd, TypeOK', ChaveInd', NEW t \in Chamadas, ConfirmarAtendimento(t), UNCHANGED vendas
    PROVE  ContaInd'
<1> PICK b \in Agendamentos : b = Alvo(t)
  BY AtendimentoAssumption DEF ContaInd, TypeOK, TiposOK, AtendimentoTypeOK, Alvo
<1>0. /\ livro \in [Estantes -> Int] /\ manual \in [Produtos -> Int] /\ TypeOK
      /\ consumo \in [Agendamentos -> [Produtos -> Nat]]
      /\ \A p \in Produtos : InsumoDe(b)[p] \in Nat
  BY CadastroAssumption DEF ContaInd, TypeOK, TiposOK, CadastroTypeOK, InsumoDe
<1>1. UNCHANGED <<pedido, alvo, txv, lida, venda, manual>>
  BY DEF vendas, ConfirmarAtendimento
<1>2. ASSUME NEW c \in Clientes PROVE cliente'[c].gasto = cliente[c].gasto
  BY <1>2 DEF ConfirmarAtendimento, ClienteAposVisita, ContaInd, TypeOK, ClienteTypeOK
<1>3. /\ \A a \in Agendamentos \ {b} : consumo'[a] = consumo[a]
      /\ \A p \in Produtos : consumo'[b][p] = IF p \in txa[t].feitos
                                             THEN consumo[b][p] + InsumoDe(b)[p] ELSE consumo[b][p]
  BY <1>0 DEF ConfirmarAtendimento
<1>4. ASSUME NEW l \in Locais, NEW p \in Produtos
      PROVE  livro'[<<l, p>>] = (IF l = Central THEN manual'[p] ELSE 0) - Vendido(l, p)'
                                - (IF l = Central THEN ConsumoTotal(p)' ELSE 0)
  <2> DEFINE i == InsumoDe(b)[p]
             C == ConsumoTotal(p)
             D == ConsumoTotal(p)'
             V == Vendido(l, p)
             x == consumo[b][p]
             y == consumo'[b][p]
  <2>1. <<l, p>> \in Estantes
    BY DEF Estantes
  <2>2. livro'[<<l, p>>] = livro[<<l, p>>] + (IF l = Central /\ p \in txa[t].feitos THEN -i ELSE 0)
    BY <2>1 DEF ConfirmarAtendimento, Movimentar, Consumida
  <2>3. D = C - x + y
    BY <1>0, <1>3, ConsumoMuda
  <2>4. y = IF p \in txa[t].feitos THEN x + i ELSE x
    BY <1>3
  <2>5. livro[<<l, p>>] = (IF l = Central THEN manual[p] ELSE 0) - V - (IF l = Central THEN C ELSE 0)
    BY LivroPorSomas DEF ContaInd
  <2>6. Vendido(l, p)' = V
    BY <1>1, VendaParada
  <2>7. C \in Int /\ V \in Int /\ manual[p] \in Int /\ i \in Int /\ x \in Int
    BY <1>0, SomasInteiras
  <2>8. manual'[p] = manual[p]
    BY <1>1
  <2> HIDE DEF i, C, D, V, x, y
  <2>9. QED
    <3>1. CASE l # Central
      <4>1. livro'[<<l, p>>] = livro[<<l, p>>] /\ livro[<<l, p>>] = 0 - V - 0
        BY <2>1, <2>2, <2>5, <2>7, <3>1, <1>0
      <4>2. QED
        BY <2>6, <3>1, <4>1
    <3>2. CASE l = Central /\ p \in txa[t].feitos
      <4>1. livro'[<<l, p>>] = livro[<<l, p>>] - i /\ livro[<<l, p>>] = manual[p] - V - C
            /\ D = C + i
        BY <2>2, <2>3, <2>4, <2>5, <2>7, <3>2
      <4>2. livro'[<<l, p>>] = manual[p] - V - D
        BY <2>7, <4>1
      <4>3. QED
        BY <2>6, <2>8, <3>2, <4>2 DEF D
    <3>3. CASE l = Central /\ p \notin txa[t].feitos
      <4>1. livro'[<<l, p>>] = livro[<<l, p>>] /\ livro[<<l, p>>] = manual[p] - V - C /\ D = C
        BY <2>1, <2>2, <2>3, <2>4, <2>5, <2>7, <3>3, <1>0
      <4>2. QED
        BY <2>6, <2>8, <3>3, <4>1 DEF D
    <3>4. QED
      BY <3>1, <3>2, <3>3
<1>5. LogExplicado'
  BY <1>4 DEF LogExplicado, Consumido, ConsumoTotal
<1>6. QED
  BY <1>1, <1>2, <1>5, ContaAlheia

LEMMA InitConta == Init => ContaInd
<1> SUFFICES ASSUME Init PROVE ContaInd
  OBVIOUS
<1>1. ChaveInd /\ TypeOK
  BY InitChave, InitTipos DEF Init, CadastroInit, VendasInit, TypeOK, ClienteTypeOK, LidaTypeOK
<1>2. ASSUME NEW t \in VendaTx PROVE ItensT(t) /\ txv[t].passo \in {"fora", "abrir"}
  BY <1>2 DEF Init, VendasInit, ItensT, Cheio
<1>3. \A t \in Estornos : LidaT(t)
  BY <1>2 DEF LidaT, VendaTx
<1>4. ASSUME NEW l, NEW p PROVE Vendido(l, p) = 0
  <2> DEFINE f == [v \in Requisicoes |-> Leva(v, l, p)]
  <2>1. \A v \in Requisicoes : f[v] = 0
    BY DEF Init, VendasInit, Leva
  <2>2. DOMAIN f = Requisicoes /\ Vendido(l, p) = SumFunction(f)
    BY DEF Vendido
  <2> HIDE DEF f
  <2>3. QED
    BY <2>1, <2>2, SomaFuncao, SomaNula, VendasAssumption
<1>5. ASSUME NEW c PROVE Total(c) = 0
  <2> DEFINE f == [v \in Requisicoes |-> Gasta(v, c)]
  <2>1. \A v \in Requisicoes : f[v] = 0
    BY DEF Init, VendasInit, Gasta
  <2>2. DOMAIN f = Requisicoes /\ Total(c) = SumFunction(f)
    BY DEF Total
  <2> HIDE DEF f
  <2>3. QED
    BY <2>1, <2>2, SomaFuncao, SomaNula, VendasAssumption
<1>6. ASSUME NEW p \in Produtos PROVE ConsumoTotal(p) = 0
  <2> DEFINE f == [a \in Agendamentos |-> consumo[a][p]]
  <2>1. \A v \in Agendamentos : f[v] = 0
    BY DEF Init, CadastroInit
  <2>2. DOMAIN f = Agendamentos /\ ConsumoTotal(p) = SumFunction(f)
    BY DEF ConsumoTotal
  <2> HIDE DEF f
  <2>3. QED
    BY <2>1, <2>2, SomaFuncao, SomaNula, CadastroAssumption
<1>7. LogExplicado
  <2>1. ASSUME NEW l \in Locais, NEW p \in Produtos
        PROVE  livro[<<l, p>>] = 0 /\ manual[p] = 0
    BY DEF Init, CadastroInit, Estantes
  <2>2. QED
    BY <1>4, <1>6, <2>1, LivroPorSomas
<1>8. GastoConfere
  <2>1. \A c \in Clientes : cliente[c].gasto = 0
    BY DEF Init, CadastroInit
  <2>2. QED
    BY <1>5, <2>1, GastoPorSomas
<1>9. QED
  BY <1>1, <1>2, <1>3, <1>7, <1>8 DEF ContaInd

\* ContaInd is inductive: the running transactions have collected exactly what
\* the rows they are about to write must account for.
THEOREM ContaIndutiva == Spec => []ContaInd
<1>1. ContaInd /\ TypeOK' /\ ChaveInd' /\ [Next]_vars => ContaInd'
  <2> SUFFICES ASSUME ContaInd, TypeOK', ChaveInd', [Next]_vars PROVE ContaInd'
    OBVIOUS
  <2>0. TiposOK
    BY DEF ContaInd, TypeOK
  <2>1. CASE CadastroNext /\ UNCHANGED <<vendas, atendimento>>
    BY <2>1, CadastroConta
  <2>2. CASE VendasNext /\ UNCHANGED atendimento
    <3>1. ASSUME NEW t \in VendaTx, Abortar(t) PROVE ContaInd'
      BY <3>1, ContaFim DEF Abortar
    <3>2. QED
      BY <2>2, <3>1, RequisicaoConta, EstornoConta, VendaConta, EstornoContaCommit, CupomConta
         DEF VendasNext
  <2>3. CASE AtendimentoNext /\ UNCHANGED vendas
    <3>1. ASSUME NEW t \in Chamadas, QuietoA(t) PROVE ContaInd'
      <4>1. UNCHANGED <<livro, manual, consumo, cliente, pedido, alvo, txv, lida, venda>>
        BY <2>3, <3>1 DEF QuietoA, linhas, vendas
      <4>2. QED
        BY <4>1, LivroParado, ContaAlheia
    <3>2. QED
      BY <2>0, <2>3, <3>1, ChamadaQuieta, AtendimentoConta DEF AtendimentoNext
  <2>4. CASE UNCHANGED vars
    <3>1. UNCHANGED <<livro, manual, consumo, cliente, pedido, alvo, txv, lida, venda>>
      BY <2>4 DEF vars, cadastro, vendas
    <3>2. QED
      BY <3>1, LivroParado, ContaAlheia
  <2>5. QED
    BY <2>1, <2>2, <2>3, <2>4 DEF Next
<1>2. QED
  BY <1>1, InitConta, TiposCompletos, ChaveIndutiva, PTL DEF Spec

\* Balance and log are explained by the rows of the business: whatever is
\* sold, refunded, repeated, aborted and consumed side by side, each sale that
\* stands weighs once and the others nothing.
THEOREM ConservacaoSempre == Spec => []Conservacao
<1>1. ContaInd /\ EstoqueInd => Conservacao
  <2>1. SUFFICES ASSUME ContaInd, EstoqueInd, NEW l \in Locais, NEW p \in Produtos
                 PROVE  /\ livro[<<l, p>>] = Liquido(l, p)
                        /\ saldo[<<l, p>>] = SaldoInicial[<<l, p>>] + Liquido(l, p)
    BY DEF Conservacao
  <2>2. livro[<<l, p>>] = Liquido(l, p)
    BY <2>1 DEF ContaInd, LogExplicado, Liquido
  <2>3. <<l, p>> \in Estantes
    BY DEF Estantes
  <2>4. saldo[<<l, p>>] = SaldoInicial[<<l, p>>] + livro[<<l, p>>]
    BY <2>1, <2>3 DEF EstoqueInd, LivroConfere
  <2>5. QED
    BY <2>2, <2>4
<1>2. QED
  BY <1>1, ContaIndutiva, EstoqueIndutivo, PTL

\* A client's totalGasto is the total of the sales that stand, added one by
\* one by the sales and recomputed by the refunds.
THEOREM GastoSempre == Spec => []GastoConfere
<1>1. ContaInd => GastoConfere
  BY DEF ContaInd
<1>2. QED
  BY <1>1, ContaIndutiva, PTL

-----------------------------------------------------------------------------
(***************************************************************************)
(* The coupons.  A sale keeps its coupon from being deleted and a refund   *)
(* holds the coupon's row exactly when the sale it refunds names it, so    *)
(* each use is given back once.                                            *)
(***************************************************************************)
Segura == {"itens"} \cup Cheio
Devolvido == {"ler", "cliente", "commit"}

CupomV(t) ==
    txv[t].passo \in Segura /\ pedido[t].cupom # Nenhum => cupom[pedido[t].cupom].existe

CupomE(t) ==
    /\ \A c \in Cupons : trava[LinhaCupom(c)] = t =>
          txv[t].passo \in Devolvido /\ venda[alvo[t]].cupom = c
    /\ txv[t].passo \in Devolvido /\ venda[alvo[t]].cupom # Nenhum =>
          trava[LinhaCupom(venda[alvo[t]].cupom)] = t
    /\ txv[t].passo = "cupom" => venda[alvo[t]].cupom # Nenhum

RefInd == \A v \in Requisicoes : venda[v].cupom # Nenhum => cupom[venda[v].cupom].existe

CupomInd ==
    /\ TypeOK
    /\ ChaveInd
    /\ RefInd
    /\ \A t \in Requisicoes : CupomV(t)
    /\ \A t \in Estornos : CupomE(t)
    /\ CupomContaVendas

Usos(c) == {v \in Requisicoes : venda[v].status = "CONCLUIDA" /\ venda[v].cupom = c}

LEMMA UsosFinitos ==
    ASSUME NEW c
    PROVE  IsFiniteSet(Usos(c)) /\ Cardinality(Usos(c)) \in Nat
  BY VendasAssumption, FS_Subset, FS_CardinalityType DEF Usos

LEMMA CupomLinha ==
    /\ \A c \in Cupons : LinhaCupom(c) \in Linhas /\ LinhaCupom(c) # Empresa
    /\ \A c, d : LinhaCupom(c) = LinhaCupom(d) => c = d
    /\ \A c, d : LinhaCupom(c) # LinhaCliente(d)
    /\ \A c, t, p : LinhaCupom(c) # LinhaItem(t, p)
<1>1. \A c, t, p : LinhaCupom(c) # LinhaItem(t, p)
  BY DEF LinhaCupom, LinhaItem, Estante
<1>2. \A c, d : (LinhaCupom(c) = LinhaCupom(d) => c = d) /\ LinhaCupom(c) # LinhaCliente(d)
  BY DEF LinhaCupom, LinhaCliente
<1>3. \A c \in Cupons : LinhaCupom(c) \in Linhas /\ LinhaCupom(c) # Empresa
  BY DEF LinhaCupom, Linhas, Empresa
<1>4. QED
  BY <1>1, <1>2, <1>3

\* The locks of u are his own business.
LEMMA TravaDono ==
    ASSUME TiposOK, NEW t, TravaDe(t), NEW u, u # t, u # Livre, NEW r \in Linhas
    PROVE  trava'[r] = u <=> trava[r] = u
<1>1. CASE Soltar(t)
  BY <1>1 DEF Soltar
<1>2. ASSUME NEW x, Desocupada(x), Travar(t, x) PROVE trava'[r] = u <=> trava[r] = u
  BY <1>2 DEF Desocupada, Travar, TiposOK, CadastroTypeOK
<1>3. QED
  BY <1>1, <1>2 DEF TravaDe

\* A step of t, of sales or of appointments, as seen by refund u.
LEMMA CupomAlheio ==
    ASSUME CupomInd, NEW t, TravaDe(t), NEW u \in Estornos, u # t, txv'[u] = txv[u],
           UNCHANGED alvo, venda'[alvo[u]].cupom = venda[alvo[u]].cupom
    PROVE  CupomE(u)'
<1>0. /\ u # Livre /\ TiposOK /\ CupomE(u) /\ alvo[u] \in Requisicoes
      /\ venda[alvo[u]].cupom \in Cupons \cup {Nenhum}
  BY Transacao, TxTipo DEF CupomInd, TypeOK, TiposOK, VendasTypeOK
<1>1. \A c \in Cupons : trava'[LinhaCupom(c)] = u <=> trava[LinhaCupom(c)] = u
  BY <1>0, TravaDono, CupomLinha
<1>2. QED
  BY <1>0, <1>1 DEF CupomE

LEMMA CupomQuieto ==
    ASSUME CupomInd, TypeOK', ChaveInd', NEW t \in VendaTx, QuietoV(t),
           t \in Requisicoes => CupomV(t)', t \in Estornos => CupomE(t)'
    PROVE  CupomInd'
<1>0. UNCHANGED <<pedido, alvo, venda, cupom>> /\ TravaDe(t)
      /\ \A u \in VendaTx \ {t} : txv'[u] = txv[u]
  BY DEF QuietoV
<1>1. \A u \in Estornos : CupomE(u)'
  BY <1>0, CupomAlheio DEF VendaTx
<1>2. \A u \in Requisicoes : CupomV(u)'
  BY <1>0 DEF CupomInd, CupomV, VendaTx
<1>3. RefInd' /\ CupomContaVendas'
  BY <1>0 DEF CupomInd, RefInd, CupomContaVendas
<1>4. QED
  BY <1>1, <1>2, <1>3 DEF CupomInd

LEMMA CupomFim ==
    ASSUME CupomInd, TypeOK', ChaveInd', NEW t \in VendaTx, NEW x, Encerrar(t, x)
    PROVE  CupomInd'
<1>0. TiposOK /\ t # Livre
  BY Transacao DEF CupomInd, TypeOK
<1>1. txv'[t].passo = "fim" /\ Soltar(t)
  BY <1>0, TxTipo DEF Encerrar, Ir
<1>2. \A c \in Cupons : trava'[LinhaCupom(c)] # t
  BY <1>0, <1>1, CupomLinha DEF Soltar
<1>3. CupomV(t)' /\ CupomE(t)'
  BY <1>1, <1>2 DEF CupomV, CupomE, Segura, Cheio, Devolvido
<1>4. QED
  BY <1>0, <1>3, EncerrarQuieto, CupomQuieto

LEMMA RequisicaoCupom ==
    ASSUME CupomInd, TypeOK', ChaveInd', NEW t \in Requisicoes,
           \/ ConsultarChave(t) \/ AbrirVenda(t) \/ ValidarVenda(t) \/ SairItem(t)
           \/ UsarCupom(t) \/ ComprarCliente(t)
    PROVE  CupomInd'
<1>0. t \in VendaTx /\ t \notin Estornos /\ TiposOK /\ CupomV(t)
  BY TxTipo DEF CupomInd, TypeOK
<1>q. QuietoV(t) /\ UNCHANGED <<pedido, cupom>>
  BY <1>0, RequisicaoQuieta DEF QuietoV
<1>v. CupomV(t)' => CupomInd'
  BY <1>0, <1>q, CupomQuieto
<1>r. Repetir(t) => CupomInd'
  BY <1>0, CupomFim DEF Repetir
<1>e. ASSUME NEW r, NEW s, Escrever(t, r, s), s \in Segura => txv[t].passo \in Segura
      PROVE  CupomInd'
  <2>1. txv'[t].passo = s
    BY <1>0, <1>e, TxTipo DEF Escrever, Ir
  <2>2. QED
    BY <1>0, <1>q, <1>v, <1>e, <2>1 DEF CupomV
<1>1. CASE ConsultarChave(t)
  <2>1. CASE Ir(t, "abrir")
    <3>1. txv'[t].passo = "abrir"
      BY <1>0, <2>1, TxTipo DEF Ir
    <3>2. QED
      BY <1>v, <3>1 DEF CupomV, Segura, Cheio
  <2>2. QED
    BY <1>1, <1>r, <2>1 DEF ConsultarChave
<1>2. CASE AbrirVenda(t)
  BY <1>2, <1>r, <1>e DEF AbrirVenda, Segura, Cheio
<1>3. CASE ValidarVenda(t)
  <2>1. CASE \E x : Encerrar(t, x)
    BY <1>0, <2>1, CupomFim
  <2>2. CASE Aceitavel(t)
    BY <1>q, <1>v, <2>2 DEF CupomV, Aceitavel, CupomAceita
  <2>3. QED
    BY <1>3, <2>1, <2>2 DEF ValidarVenda
<1>s. txv[t].passo \in Segura => CupomV(t)'
  BY <1>0, <1>q DEF CupomV
<1>4. CASE SairItem(t)
  BY <1>4, <1>s, <1>v DEF SairItem, Em, Segura
<1>5. CASE UsarCupom(t)
  BY <1>5, <1>s, <1>v DEF UsarCupom, Em, Segura, Cheio
<1>6. CASE ComprarCliente(t)
  BY <1>6, <1>s, <1>v DEF ComprarCliente, Em, Segura, Cheio
<1>7. QED
  BY <1>1, <1>2, <1>3, <1>4, <1>5, <1>6

\* The refund's own rows: nothing of a coupon before, its own after.
LEMMA EstornoCupom ==
    ASSUME CupomInd, TypeOK', ChaveInd', NEW t \in Estornos,
           \/ AbrirEstorno(t) \/ DevolverItem(t) \/ DevolverCupom(t)
           \/ LerAtividade(t) \/ GravarCliente(t)
    PROVE  CupomInd'
<1>0. t \in VendaTx /\ t \notin Requisicoes /\ TiposOK /\ TypeOK /\ CupomE(t) /\ t # Livre
  BY TxTipo, Transacao DEF CupomInd, TypeOK
<1>d. PICK d \in Requisicoes : d = alvo[t]
  BY DEF CupomInd, TypeOK, TiposOK, VendasTypeOK
<1>c. venda[d].cupom \in Cupons \cup {Nenhum} /\ Nenhum \notin Cupons
  BY <1>d, VendasAssumption DEF CupomInd, TypeOK, TiposOK, VendasTypeOK
<1>q. QuietoV(t) /\ UNCHANGED <<alvo, venda>>
  BY <1>0, EstornoQuieto DEF QuietoV
<1>v. CupomE(t)' => CupomInd'
  BY <1>0, <1>q, CupomQuieto
<1>s. /\ AposCupom(t) \in Devolvido /\ "cupom" \notin Devolvido /\ "itens" \notin Devolvido
      /\ "abrir" \notin Devolvido /\ "ler" \in Devolvido
      /\ "cliente" \in Devolvido /\ "commit" \in Devolvido
  BY DEF AposCupom, Devolvido
<1>e. ASSUME NEW r, NEW s, Escrever(t, r, s)
      PROVE  txv'[t].passo = s /\ Travar(t, r)
  BY <1>0, <1>e, TxTipo DEF Escrever, Ir
<1>k. ASSUME NEW r, Travar(t, r), \A c \in Cupons : LinhaCupom(c) # r
      PROVE  \A c \in Cupons : trava'[LinhaCupom(c)] = trava[LinhaCupom(c)]
  BY <1>0, <1>k, CupomLinha, TxTipo DEF Travar
<1>1. CASE AbrirEstorno(t)
  <2>1. CASE Escrever(t, Empresa, "itens")
    <3>1. txv'[t].passo = "itens" /\ \A c \in Cupons : trava'[LinhaCupom(c)] = trava[LinhaCupom(c)]
      BY <1>e, <1>k, <2>1, CupomLinha
    <3>2. txv[t].passo = "abrir"
      BY <1>1 DEF AbrirEstorno, Em
    <3>3. QED
      BY <1>0, <1>v, <1>s, <3>1, <3>2 DEF CupomE
  <2>2. QED
    BY <1>0, <1>1, <2>1, CupomFim DEF AbrirEstorno
<1>2. CASE DevolverItem(t)
  <2> DEFINE s == IF venda[alvo[t]].cupom # Nenhum THEN "cupom" ELSE AposCupom(t)
  <2>1. PICK p \in Produtos : Item(t, p, s)
    BY <1>2 DEF DevolverItem
  <2>2. txv[t].passo = "itens"
    BY <1>2 DEF DevolverItem, Em
  <2>3. /\ txv'[t].passo \in {"itens", s}
        /\ \A c \in Cupons : trava'[LinhaCupom(c)] = trava[LinhaCupom(c)]
    BY <1>0, <1>k, <2>1, CupomLinha, TxTipo DEF Item
  <2>4. /\ s = "cupom" => venda[alvo[t]].cupom # Nenhum
        /\ s # "cupom" => venda[alvo[t]].cupom = Nenhum
    BY <1>s
  <2> HIDE DEF s
  <2>5. CupomE(t)'
    BY <1>0, <1>q, <1>s, <2>2, <2>3, <2>4 DEF CupomE
  <2>6. QED
    BY <1>v, <2>5
<1>3. CASE DevolverCupom(t)
  <2>1. /\ txv[t].passo = "cupom" /\ venda[d].cupom \in Cupons
        /\ \A c \in Cupons : trava[LinhaCupom(c)] # t
    BY <1>0, <1>c, <1>d, <1>s, <1>3 DEF DevolverCupom, Em, CupomE
  <2>c. PICK c \in Cupons : c = venda[d].cupom
    BY <2>1
  <2>2. cupom[c].uso > 0
    <3>1. cupom[c].existe
      BY <1>c, <2>c DEF CupomInd, RefInd
    <3>2. cupom[c].uso = Cardinality(Usos(c))
      BY <3>1 DEF CupomInd, CupomContaVendas, Usos
    <3>3. d \in Usos(c)
      BY <1>0, <1>d, <2>1, <2>c DEF Usos, CupomInd, ChaveInd, ChaveT, Dentro
    <3>4. Cardinality(Usos(c)) # 0
      BY <3>3, UsosFinitos, FS_EmptySet
    <3>5. QED
      BY <3>2, <3>4, UsosFinitos
  <2>3. Escrever(t, LinhaCupom(c), AposCupom(t))
    BY <1>3, <1>d, <2>c, <2>2 DEF DevolverCupom
  <2>4. txv'[t].passo = AposCupom(t) /\ Travar(t, LinhaCupom(c))
    BY <1>e, <2>3
  <2>5. /\ trava'[LinhaCupom(c)] = t
        /\ \A b \in Cupons : trava'[LinhaCupom(b)] = t => b = c
    BY <1>0, <2>1, <2>4, CupomLinha, TxTipo DEF Travar
  <2>6. CupomE(t)'
    BY <1>d, <1>q, <1>s, <2>c, <2>4, <2>5 DEF CupomE
  <2>7. QED
    BY <1>v, <2>6
<1>4. CASE LerAtividade(t)
  <2>1. txv[t].passo = "ler" /\ txv'[t].passo = "cliente" /\ UNCHANGED trava
    BY <1>0, <1>4, TxTipo DEF LerAtividade, Em, Ir, cadastro
  <2>2. CupomE(t)'
    BY <1>0, <1>q, <1>s, <2>1 DEF CupomE
  <2>3. QED
    BY <1>v, <2>2
<1>5. CASE GravarCliente(t)
  <2>1. txv[t].passo = "cliente" /\ txv'[t].passo = "commit"
        /\ Travar(t, LinhaCliente(Conteudo(t).cliente))
    BY <1>e, <1>5 DEF GravarCliente, Em
  <2>2. \A c \in Cupons : trava'[LinhaCupom(c)] = trava[LinhaCupom(c)]
    BY <1>k, <2>1, CupomLinha
  <2>3. CupomE(t)'
    BY <1>0, <1>c, <1>d, <1>q, <1>s, <2>1, <2>2 DEF CupomE
  <2>4. QED
    BY <1>v, <2>3
<1>6. QED
  BY <1>1, <1>2, <1>3, <1>4, <1>5

-----------------------------------------------------------------------------
\* At a commit of t nobody else is inside, and t leaves.
LEMMA CupomCommit ==
    ASSUME CupomInd, NEW t \in VendaTx, txv[t].passo = "commit", Ir(t, "fim"), Soltar(t),
           UNCHANGED alvo
    PROVE  /\ \A u \in Requisicoes : txv'[u].passo \notin Segura
           /\ \A u \in Estornos : CupomE(u)'
<1>0. TiposOK /\ ChaveInd /\ t # Livre /\ Segura \subseteq Dentro /\ Devolvido \subseteq Dentro
      /\ "commit" \in Dentro /\ "fim" \notin Segura /\ "fim" \notin Devolvido
      /\ "cupom" \in Dentro
  BY Transacao DEF CupomInd, TypeOK, Segura, Cheio, Devolvido, Dentro
<1>1. txv'[t].passo = "fim" /\ \A u \in VendaTx \ {t} : txv'[u] = txv[u]
  BY <1>0, TxTipo DEF Ir
<1>2. \A u \in VendaTx \ {t} : txv[u].passo \notin Dentro
  BY <1>0, Sozinha
<1>3. \A u \in VendaTx : txv'[u].passo \notin Segura \cup Devolvido /\ txv'[u].passo # "cupom"
  BY <1>0, <1>1, <1>2
<1>4. ASSUME NEW u \in Estornos, NEW c \in Cupons PROVE trava'[LinhaCupom(c)] # u
  <2>1. u \in VendaTx /\ LinhaCupom(c) \in Linhas /\ u # Livre
    BY CupomLinha, Transacao DEF VendaTx
  <2>2. CASE u = t
    BY <2>1, <2>2, <1>0 DEF Soltar
  <2>3. CASE u # t
    <3>1. trava[LinhaCupom(c)] # u
      BY <1>0, <1>2, <2>1, <2>3 DEF CupomInd, CupomE
    <3>2. QED
      BY <1>0, <2>1, <2>3, <3>1, TravaDono DEF TravaDe
  <2>4. QED
    BY <2>2, <2>3
<1>5. QED
  BY <1>3, <1>4 DEF CupomE, VendaTx

LEMMA VendaCupom ==
    ASSUME CupomInd, TypeOK', ChaveInd', NEW t \in Requisicoes, ConfirmarVenda(t)
    PROVE  CupomInd'
<1>0. t \in VendaTx /\ TiposOK /\ txv[t].passo = "commit"
  BY TxTipo DEF CupomInd, TypeOK, ConfirmarVenda, Em
<1>1. /\ venda[t].status = "AUSENTE" /\ venda'[t].status = "CONCLUIDA"
      /\ venda'[t].cupom = pedido[t].cupom
      /\ \A v \in Requisicoes \ {t} : venda'[v] = venda[v]
      /\ UNCHANGED <<pedido, alvo>>
  BY <1>0 DEF ConfirmarVenda, CupomInd, ChaveInd, ChaveT, TiposOK, VendasTypeOK
<1>2. /\ \A u \in Requisicoes : txv'[u].passo \notin Segura
      /\ \A u \in Estornos : CupomE(u)'
  BY <1>0, CupomCommit DEF ConfirmarVenda
<1>3. \A c \in Cupons : /\ cupom'[c].existe = cupom[c].existe
                        /\ cupom'[c].uso = IF c = pedido[t].cupom THEN cupom[c].uso + 1 ELSE cupom[c].uso
  BY <1>0 DEF ConfirmarVenda, TiposOK, VendasTypeOK
<1>4. RefInd'
  <2>1. \A v \in Requisicoes : venda[v].cupom \in Cupons \cup {Nenhum}
    BY <1>0 DEF TiposOK, VendasTypeOK
  <2>2. pedido[t].cupom \in Cupons \cup {Nenhum}
    BY <1>0, VendasAssumption DEF TiposOK, VendasTypeOK
  <2>3. pedido[t].cupom # Nenhum => cupom[pedido[t].cupom].existe
    BY <1>0 DEF CupomInd, CupomV, Segura, Cheio
  <2>4. QED
    BY <1>1, <1>3, <2>1, <2>2, <2>3 DEF RefInd, CupomInd
<1>5. CupomContaVendas'
  <2>1. ASSUME NEW c \in Cupons, cupom'[c].existe PROVE cupom'[c].uso = Cardinality(Usos(c)')
    <3>1. cupom[c].uso = Cardinality(Usos(c))
      BY <1>3, <2>1 DEF CupomInd, CupomContaVendas, Usos
    <3>2. t \notin Usos(c)
      BY <1>1 DEF Usos
    <3>3. CASE c = pedido[t].cupom
      <4>1. Usos(c)' = Usos(c) \cup {t}
        BY <1>1, <3>3 DEF Usos
      <4>2. cupom'[c].uso = cupom[c].uso + 1
        BY <1>3, <3>3
      <4>3. Cardinality(Usos(c) \cup {t}) = Cardinality(Usos(c)) + 1
        BY <3>2, UsosFinitos, FS_AddElement
      <4>4. QED
        BY <3>1, <4>1, <4>2, <4>3
    <3>4. CASE c # pedido[t].cupom
      <4>1. Usos(c)' = Usos(c)
        BY <1>1, <3>4 DEF Usos
      <4>2. QED
        BY <1>3, <3>1, <3>4, <4>1
    <3>5. QED
      BY <3>3, <3>4
  <2>2. QED
    BY <2>1 DEF CupomContaVendas, Usos
<1>6. QED
  BY <1>2, <1>4, <1>5 DEF CupomInd, CupomV

LEMMA EstornoCupomCommit ==
    ASSUME CupomInd, TypeOK', ChaveInd', NEW t \in Estornos, ConfirmarEstorno(t)
    PROVE  CupomInd'
<1>0. t \in VendaTx /\ TiposOK /\ txv[t].passo = "commit" /\ t \notin Requisicoes
  BY TxTipo DEF CupomInd, TypeOK, ConfirmarEstorno, Em
<1>d. PICK d \in Requisicoes : d = alvo[t]
  BY <1>0 DEF TiposOK, VendasTypeOK
<1>1. /\ venda[d].status = "CONCLUIDA" /\ venda'[d].status = "ESTORNADA"
      /\ venda'[d].cupom = venda[d].cupom
      /\ \A v \in Requisicoes \ {d} : venda'[v] = venda[v]
      /\ UNCHANGED <<pedido, alvo>>
  BY <1>0, <1>d DEF ConfirmarEstorno, CupomInd, ChaveInd, ChaveT, Dentro, TiposOK, VendasTypeOK
<1>2. /\ \A u \in Requisicoes : txv'[u].passo \notin Segura
      /\ \A u \in Estornos : CupomE(u)'
  BY <1>0, CupomCommit DEF ConfirmarEstorno
<1>k. \A c \in Cupons : trava[LinhaCupom(c)] = t <=> venda[d].cupom = c
  <2>1. CupomE(t) /\ Nenhum \notin Cupons
    BY VendasAssumption DEF CupomInd
  <2>2. QED
    BY <1>0, <1>d, <2>1 DEF CupomE, Devolvido
<1>3. \A c \in Cupons : /\ cupom'[c].existe = cupom[c].existe
                        /\ cupom'[c].uso = IF c = venda[d].cupom THEN cupom[c].uso - 1 ELSE cupom[c].uso
  BY <1>0, <1>k DEF ConfirmarEstorno, CupomAposEstorno, TiposOK, VendasTypeOK
<1>4. RefInd'
  <2>1. \A v \in Requisicoes : venda[v].cupom \in Cupons \cup {Nenhum}
    BY <1>0 DEF TiposOK, VendasTypeOK
  <2>2. \A v \in Requisicoes : venda'[v].cupom = venda[v].cupom
    BY <1>1
  <2>3. QED
    BY <1>3, <2>1, <2>2 DEF RefInd, CupomInd
<1>5. CupomContaVendas'
  <2>1. ASSUME NEW c \in Cupons, cupom'[c].existe PROVE cupom'[c].uso = Cardinality(Usos(c)')
    <3>1. cupom[c].uso = Cardinality(Usos(c))
      BY <1>3, <2>1 DEF CupomInd, CupomContaVendas, Usos
    <3>2. Usos(c)' = Usos(c) \ {d}
      BY <1>1 DEF Usos
    <3>3. d \in Usos(c) <=> venda[d].cupom = c
      BY <1>1 DEF Usos
    <3>4. QED
      BY <1>3, <3>1, <3>2, <3>3, UsosFinitos, FS_RemoveElement
  <2>2. QED
    BY <2>1 DEF CupomContaVendas, Usos
<1>6. QED
  BY <1>2, <1>4, <1>5 DEF CupomInd, CupomV

\* The coupon screen.
LEMMA TelaCupom ==
    ASSUME CupomInd, TypeOK', ChaveInd', NEW c \in Cupons, AtualizarCupom(c) \/ ExcluirCupom(c)
    PROVE  CupomInd'
<1>0. TiposOK /\ Nenhum \notin Cupons
  BY VendasAssumption DEF CupomInd, TypeOK
<1>u. UNCHANGED <<pedido, alvo, txv, trava>>
  BY DEF AtualizarCupom, ExcluirCupom, cadastro
<1>1. CASE AtualizarCupom(c)
  <2>1. PICK v \in BOOLEAN, m \in Limites : cupom' = [cupom EXCEPT ![c].valido = v, ![c].max = m]
    BY <1>1 DEF AtualizarCupom
  <2>2. \A b \in Cupons : cupom'[b].existe = cupom[b].existe /\ cupom'[b].uso = cupom[b].uso
    BY <1>0, <2>1 DEF TiposOK, VendasTypeOK
  <2>3. UNCHANGED venda
    BY <1>1 DEF AtualizarCupom
  <2>4. RefInd'
    BY <1>0, <2>2, <2>3 DEF CupomInd, RefInd, TiposOK, VendasTypeOK
  <2>5. CupomContaVendas'
    BY <2>2, <2>3 DEF CupomInd, CupomContaVendas
  <2>6. \A t \in Requisicoes : CupomV(t)'
    <3>1. \A t \in Requisicoes : pedido[t].cupom \in Cupons \cup {Nenhum}
      BY <1>0, VendasAssumption DEF TiposOK, VendasTypeOK
    <3>2. QED
      BY <1>u, <2>2, <3>1 DEF CupomInd, CupomV
  <2>7. \A t \in Estornos : CupomE(t)'
    BY <1>u, <2>3 DEF CupomInd, CupomE
  <2>8. QED
    BY <2>4, <2>5, <2>6, <2>7 DEF CupomInd
<1>2. CASE ExcluirCupom(c)
  <2>1. \A b \in Cupons \ {c} : cupom'[b] = cupom[b]
    BY <1>0, <1>2 DEF ExcluirCupom, TiposOK, VendasTypeOK
  <2>e. cupom'[c].existe = FALSE
    BY <1>0, <1>2 DEF ExcluirCupom, TiposOK, VendasTypeOK
  <2>2. \A v \in Requisicoes : /\ venda'[v].status = venda[v].status
                               /\ venda[v].cupom = c => venda'[v].cupom = Nenhum
                               /\ venda[v].cupom # c => venda'[v] = venda[v]
    <3>1. ASSUME NEW v \in Requisicoes
          PROVE  LET y == [venda[v] EXCEPT !.cupom = Nenhum]
                 IN  y.status = venda[v].status /\ y.cupom = Nenhum
      BY <1>0 DEF TiposOK, VendasTypeOK
    <3>2. QED
      BY <1>2, <3>1 DEF ExcluirCupom
  <2>3. ~Referenciado(c)
    BY <1>2 DEF ExcluirCupom
  <2>4. RefInd'
    <3>1. ASSUME NEW v \in Requisicoes, venda'[v].cupom # Nenhum PROVE cupom'[venda'[v].cupom].existe
      <4>1. venda[v].cupom # c /\ venda'[v] = venda[v]
        BY <2>2, <3>1
      <4>2. venda[v].cupom \in Cupons \ {c}
        BY <1>0, <3>1, <4>1 DEF TiposOK, VendasTypeOK
      <4>3. cupom[venda[v].cupom].existe
        BY <1>0, <4>2 DEF CupomInd, RefInd
      <4>4. QED
        BY <2>1, <4>1, <4>2, <4>3
    <3>2. QED
      BY <3>1 DEF RefInd
  <2>5. CupomContaVendas'
    <3>1. ASSUME NEW b \in Cupons, cupom'[b].existe PROVE cupom'[b].uso = Cardinality(Usos(b)')
      <4>1. b # c /\ cupom'[b] = cupom[b]
        BY <2>1, <2>e, <3>1
      <4>2. Usos(b)' = Usos(b)
        BY <1>0, <2>2, <4>1 DEF Usos
      <4>3. QED
        BY <3>1, <4>1, <4>2 DEF CupomInd, CupomContaVendas, Usos
    <3>2. QED
      BY <3>1 DEF CupomContaVendas, Usos
  <2>6. ASSUME NEW t \in Requisicoes PROVE CupomV(t)'
    <3>1. SUFFICES ASSUME txv[t].passo \in Segura, pedido[t].cupom # Nenhum
                   PROVE  cupom'[pedido[t].cupom].existe
      BY <1>u DEF CupomV
    <3>2. pedido[t].cupom # c
      BY <2>3, <3>1 DEF Referenciado, Segura, Cheio, VendaTx
    <3>3. pedido[t].cupom \in Cupons \ {c}
      BY <1>0, <3>1, <3>2, VendasAssumption DEF TiposOK, VendasTypeOK
    <3>4. QED
      BY <2>1, <3>1, <3>3 DEF CupomInd, CupomV
  <2>7. ASSUME NEW t \in Estornos PROVE CupomE(t)'
    <3>0. alvo[t] \in Requisicoes /\ CupomE(t) /\ t \notin Requisicoes
      BY <1>0, TxTipo DEF TiposOK, VendasTypeOK, CupomInd
    <3>1. CASE txv[t].passo \in Devolvido \cup {"cupom"}
      <4>1. venda[alvo[t]].cupom # c
        BY <2>3, <3>0, <3>1 DEF Referenciado, Devolvido, VendaTx
      <4>2. QED
        BY <1>u, <2>2, <3>0, <4>1 DEF CupomE
    <3>2. CASE txv[t].passo \notin Devolvido \cup {"cupom"}
      BY <1>u, <3>0, <3>2 DEF CupomE
    <3>3. QED
      BY <3>1, <3>2
  <2>8. QED
    BY <2>4, <2>5, <2>6, <2>7 DEF CupomInd
<1>3. QED
  BY <1>1, <1>2

\* Steps of the registry and of the appointments.
LEMMA CupomDeFora ==
    ASSUME CupomInd, TypeOK', ChaveInd', UNCHANGED vendas,
           UNCHANGED trava \/ \E t \in Chamadas : TravaDe(t)
    PROVE  CupomInd'
<1>1. PICK t : TravaDe(t) /\ t \notin VendaTx
  BY Transacao DEF TravaDe
<1>2. \A u \in Estornos : CupomE(u)'
  BY <1>1, CupomAlheio DEF vendas, VendaTx
<1>3. RefInd' /\ CupomContaVendas' /\ \A u \in Requisicoes : CupomV(u)'
  BY DEF CupomInd, RefInd, CupomContaVendas, CupomV, vendas
<1>4. QED
  BY <1>2, <1>3 DEF CupomInd

LEMMA InitCupom == Init => CupomInd
<1> SUFFICES ASSUME Init PROVE CupomInd
  OBVIOUS
<1>1. ChaveInd /\ TypeOK
  BY InitConta DEF ContaInd
<1>2. RefInd
  BY DEF Init, VendasInit, RefInd
<1>3. \A t \in VendaTx : txv[t].passo \in {"fora", "abrir"}
  BY DEF Init, VendasInit
<1>4. ASSUME NEW t \in Estornos PROVE CupomE(t)
  <2>1. t \in VendaTx /\ t # Livre
    BY Transacao DEF VendaTx
  <2>2. \A c \in Cupons : trava[LinhaCupom(c)] = Livre
    BY CupomLinha DEF Init, CadastroInit
  <2>3. QED
    BY <1>3, <2>1, <2>2 DEF CupomE, Devolvido
<1>5. \A t \in Requisicoes : CupomV(t)
  BY <1>3 DEF CupomV, Segura, Cheio, VendaTx
<1>6. CupomContaVendas
  <2>1. ASSUME NEW c \in Cupons PROVE cupom[c].uso = 0 /\ Usos(c) = {}
    BY DEF Init, VendasInit, Usos
  <2>2. QED
    BY <2>1, FS_EmptySet DEF CupomContaVendas, Usos
<1>7. QED
  BY <1>1, <1>2, <1>4, <1>5, <1>6 DEF CupomInd

\* CupomInd is inductive: whoever is about to count a use holds what makes
\* the count right.
THEOREM CupomIndutivo == Spec => []CupomInd
<1>1. CupomInd /\ TypeOK' /\ ChaveInd' /\ [Next]_vars => CupomInd'
  <2> SUFFICES ASSUME CupomInd, TypeOK', ChaveInd', [Next]_vars PROVE CupomInd'
    OBVIOUS
  <2>1. CASE CadastroNext /\ UNCHANGED <<vendas, atendimento>>
    <3>1. UNCHANGED trava
      BY <2>1 DEF CadastroNext, MovimentarManual, DesativarProduto, DesativarServico,
                  SalvarFilial, DesativarCliente
    <3>2. QED
      BY <2>1, <3>1, CupomDeFora
  <2>2. CASE VendasNext /\ UNCHANGED atendimento
    <3>1. ASSUME NEW t \in VendaTx, Abortar(t) PROVE CupomInd'
      BY <3>1, CupomFim DEF Abortar
    <3>2. QED
      BY <2>2, <3>1, RequisicaoCupom, EstornoCupom, VendaCupom, EstornoCupomCommit, TelaCupom
         DEF VendasNext
  <2>3. CASE AtendimentoNext /\ UNCHANGED vendas
    <3>1. \E t \in Chamadas : TravaDe(t)
      BY <2>3, AtendimentoTrava DEF AtendimentoNext
    <3>2. QED
      BY <2>3, <3>1, CupomDeFora
  <2>4. CASE UNCHANGED vars
    BY <2>4, CupomDeFora DEF vars, cadastro
  <2>5. QED
    BY <2>1, <2>2, <2>3, <2>4 DEF Next
<1>2. QED
  BY <1>1, InitCupom, TiposCompletos, ChaveIndutiva, PTL DEF Spec

\* usoAtual of a coupon counts the sales that use it and stand: a sale that
\* fails gives no use away and a refund gives back exactly its own.
THEOREM CupomSempre == Spec => []CupomContaVendas
<1>1. CupomInd => CupomContaVendas
  BY DEF CupomInd
<1>2. QED
  BY <1>1, CupomIndutivo, PTL

-----------------------------------------------------------------------------
(***************************************************************************)
(* The consumption of an appointment.  A call that is past the lock of the *)
(* appointment's row keeps it until it ends, so what the call read of the  *)
(* row (its status, its shortages) is still so when it writes.             *)
(***************************************************************************)
Presas == {"visita", "itens", "commit"}

PresaT(t) ==
    /\ trava[LinhaAgenda(Alvo(t))] = t
    /\ txa[t].feitos \cup txa[t].faltas \subseteq txa[t].itens
    /\ txa[t].feitos \cap txa[t].faltas = {}
    /\ oper[t].tipo = "STATUS" =>
         /\ agendamento[Alvo(t)].status # "CONCLUIDO"
         /\ txa[t].itens = IF Conclui(t) THEN InsumosDe(Alvo(t)) ELSE {}
    /\ oper[t].tipo # "STATUS" =>
         /\ agendamento[Alvo(t)].status = "CONCLUIDO"
         /\ txa[t].itens = agendamento[Alvo(t)].pendencias
    /\ oper[t].tipo = "ANULAR" => txa[t].feitos = {} /\ txa[t].passo = "commit"
    /\ txa[t].passo = "visita" => txa[t].feitos = {} /\ txa[t].faltas = {}
    /\ txa[t].passo = "commit" /\ oper[t].tipo # "ANULAR" =>
         txa[t].itens = txa[t].feitos \cup txa[t].faltas

AtendT(t) ==
    /\ txa[t].passo \in {"fora", "cas", "bloquear"} =>
         txa[t].feitos = {} /\ txa[t].faltas = {}
    /\ txa[t].passo \in {"fora", "cas"} <=> txa[t].passo \notin Presas \cup {"bloquear", "fim"}
    /\ txa[t].passo \in {"fora", "cas"} => oper[t].tipo = "STATUS"
    /\ txa[t].passo = "bloquear" => oper[t].tipo # "STATUS"
    /\ txa[t].passo = "cas" => oper[t].para \in TRANSICOES[txa[t].lido]
    /\ txa[t].passo \in Presas => PresaT(t)

FichaInd ==
    \A a \in Agendamentos :
        /\ agendamento[a].status # "CONCLUIDO" =>
             agendamento[a].pendencias = {} /\ agendamento[a].anuladas = {}
        /\ agendamento[a].pendencias \cap agendamento[a].anuladas = {}

AtendInd ==
    /\ TiposOK
    /\ \A t \in Chamadas : AtendT(t)
    /\ FichaInd
    /\ ConsumoUmaVez

LEMMA AgendaLinha ==
    /\ \A a \in Agendamentos : LinhaAgenda(a) \in Linhas
    /\ \A a, b : LinhaAgenda(a) = LinhaAgenda(b) => a = b
    /\ \A a, c : LinhaAgenda(a) # LinhaCliente(c)
    /\ \A a, l, p : LinhaAgenda(a) # Estante(l, p)
<1>1. \A a, l, p : LinhaAgenda(a) # Estante(l, p)
  BY DEF LinhaAgenda, Estante
<1>2. \A a, b : (LinhaAgenda(a) = LinhaAgenda(b) => a = b) /\ LinhaAgenda(a) # LinhaCliente(b)
  BY DEF LinhaAgenda, LinhaCliente
<1>3. \A a \in Agendamentos : LinhaAgenda(a) \in Linhas
  BY DEF Linhas
<1>4. QED
  BY <1>1, <1>2, <1>3

LEMMA OperTipo ==
    ASSUME TiposOK, NEW t \in Chamadas
    PROVE  /\ Alvo(t) \in Agendamentos /\ oper[t].tipo \in Tipos /\ oper[t].para \in Status
           /\ LinhaAgenda(Alvo(t)) \in Linhas
           /\ txa[t] \in RegistroA /\ txa \in [Chamadas -> RegistroA]
           /\ t # Livre
  BY AtendimentoAssumption, AgendaLinha, Transacao DEF TiposOK, AtendimentoTypeOK, Alvo, RegistroA

\* A step of t as seen by another call u.
LEMMA AtendAlheia ==
    ASSUME AtendInd, NEW t, TravaDe(t), NEW u \in Chamadas, u # t, txa'[u] = txa[u],
           UNCHANGED oper,
           trava[LinhaAgenda(Alvo(u))] = u => agendamento'[Alvo(u)] = agendamento[Alvo(u)]
    PROVE  AtendT(u)'
<1>0. AtendT(u) /\ TiposOK /\ Alvo(u)' = Alvo(u) /\ (Conclui(u)' <=> Conclui(u))
  BY DEF AtendInd, Alvo, Conclui
<1>1. trava[LinhaAgenda(Alvo(u))] = u => trava'[LinhaAgenda(Alvo(u))] = u
  BY <1>0, OperTipo, TravaDono
<1>2. txa[u].passo \in Presas => PresaT(u)'
  <2>1. SUFFICES ASSUME txa[u].passo \in Presas PROVE PresaT(u)'
    OBVIOUS
  <2>2. PresaT(u) /\ trava[LinhaAgenda(Alvo(u))] = u
    BY <1>0, <2>1 DEF AtendT, PresaT
  <2>3. QED
    BY <1>0, <1>1, <2>2 DEF PresaT
<1>3. QED
  BY <1>0, <1>2 DEF AtendT

LEMMA AtendQuieta ==
    ASSUME AtendInd, TiposOK', NEW t \in Chamadas, QuietoA(t), AtendT(t)'
    PROVE  AtendInd'
<1>1. \A u \in Chamadas : AtendT(u)'
  BY AtendAlheia DEF QuietoA, linhas
<1>2. FichaInd' /\ ConsumoUmaVez'
  BY DEF QuietoA, linhas, AtendInd, FichaInd, ConsumoUmaVez
<1>3. QED
  BY <1>1, <1>2 DEF AtendInd

LEMMA AtendFim ==
    ASSUME AtendInd, TiposOK', NEW t \in Chamadas, QuietoA(t), EncerrarA(t)
    PROVE  AtendInd'
<1>1. txa'[t].passo = "fim"
  BY OperTipo DEF EncerrarA, AtendInd, RegistroA
<1>2. AtendT(t)'
  BY <1>1 DEF AtendT, Presas
<1>3. QED
  BY <1>2, AtendQuieta

LEMMA LerAtend ==
    ASSUME AtendInd, TiposOK', NEW t \in Chamadas, QuietoA(t), LerAgendamento(t)
    PROVE  AtendInd'
<1>0. TiposOK /\ AtendT(t) /\ UNCHANGED oper
  BY DEF AtendInd, QuietoA
<1>1. CASE oper[t].para \in TRANSICOES[agendamento[Alvo(t)].status]
  <2> DEFINE n == [txa[t] EXCEPT !.passo = "cas", !.lido = agendamento[Alvo(t)].status]
  <2>1. txa' = [txa EXCEPT ![t] = n]
    BY <1>0, <1>1, OperTipo DEF LerAgendamento, RegistroA
  <2>2. /\ n.passo = "cas" /\ n.lido = agendamento[Alvo(t)].status
        /\ n.feitos = txa[t].feitos /\ n.faltas = txa[t].faltas
    BY <1>0, OperTipo DEF RegistroA
  <2> HIDE DEF n
  <2>3. txa'[t] = n /\ txa[t].passo = "fora"
    BY <1>0, <2>1, OperTipo DEF LerAgendamento, EmA
  <2>4. AtendT(t)'
    BY <1>0, <1>1, <2>2, <2>3 DEF AtendT, Presas
  <2>5. QED
    BY <2>4, AtendQuieta
<1>2. CASE oper[t].para \notin TRANSICOES[agendamento[Alvo(t)].status]
  BY <1>2, AtendFim DEF LerAgendamento
<1>3. QED
  BY <1>1, <1>2

\* The status is still the one read, so an allowed transition leaves a status
\* that is not CONCLUIDO.
LEMMA MudarAtend ==
    ASSUME AtendInd, TiposOK', NEW t \in Chamadas, QuietoA(t), MudarStatus(t)
    PROVE  AtendInd'
<1>0. /\ TiposOK /\ AtendT(t) /\ UNCHANGED oper /\ UNCHANGED agendamento
      /\ Alvo(t)' = Alvo(t) /\ (Conclui(t)' <=> Conclui(t))
  BY DEF AtendInd, QuietoA, linhas, Alvo, Conclui
<1>1. CASE StatusIntacto(t)
  <2> DEFINE i == IF Conclui(t) THEN InsumosDe(Alvo(t)) ELSE {}
             n == [txa[t] EXCEPT !.passo = IF Conclui(t) THEN "visita" ELSE "commit",
                                 !.itens = i]
  <2>1. txa' = [txa EXCEPT ![t] = n] /\ Travar(t, LinhaAgenda(Alvo(t)))
    BY <1>0, <1>1, OperTipo DEF MudarStatus, RegistroA
  <2>2. /\ n.passo \in {"visita", "commit"} /\ n.itens = i
        /\ n.feitos = txa[t].feitos /\ n.faltas = txa[t].faltas
        /\ n.passo = "commit" => i = {}
    BY <1>0, OperTipo DEF RegistroA
  <2>3. i = IF Conclui(t) THEN InsumosDe(Alvo(t)) ELSE {}
    OBVIOUS
  <2> HIDE DEF n, i
  <2>4. txa'[t] = n /\ txa[t].passo = "cas" /\ trava'[LinhaAgenda(Alvo(t))] = t
    BY <1>0, <2>1, OperTipo, TxTipo DEF MudarStatus, EmA, Travar
  <2>5. /\ txa[t].feitos = {} /\ txa[t].faltas = {} /\ oper[t].tipo = "STATUS"
        /\ oper[t].para \in TRANSICOES[txa[t].lido]
    BY <1>0, <2>4 DEF AtendT
  <2>6. agendamento[Alvo(t)].status # "CONCLUIDO"
    BY <1>1, <2>5 DEF StatusIntacto, TRANSICOES
  <2>7. PresaT(t)'
    BY <1>0, <2>2, <2>3, <2>4, <2>5, <2>6 DEF PresaT, InsumosDe
  <2>8. AtendT(t)'
    BY <1>0, <2>2, <2>4, <2>7 DEF AtendT, Presas
  <2>9. QED
    BY <2>8, AtendQuieta
<1>2. CASE ~StatusIntacto(t)
  BY <1>2, AtendFim DEF MudarStatus
<1>3. QED
  BY <1>1, <1>2

LEMMA VisitaAtend ==
    ASSUME AtendInd, TiposOK', NEW t \in Chamadas, QuietoA(t), RegistrarVisita(t)
    PROVE  AtendInd'
<1>0. /\ TiposOK /\ AtendT(t) /\ UNCHANGED oper /\ UNCHANGED agendamento
      /\ Alvo(t)' = Alvo(t) /\ (Conclui(t)' <=> Conclui(t))
      /\ txa[t].passo = "visita"
  BY DEF AtendInd, QuietoA, linhas, Alvo, Conclui, RegistrarVisita, EmA
<1>1. PresaT(t)
  BY <1>0 DEF AtendT, Presas
<1> DEFINE n == [txa[t] EXCEPT !.passo = AposVisita(txa[t].itens)]
<1>2. txa' = [txa EXCEPT ![t] = n]
  BY <1>0, OperTipo DEF RegistrarVisita, RegistroA
<1>3. /\ n.passo = (IF txa[t].itens = {} THEN "commit" ELSE "itens") /\ n.itens = txa[t].itens
      /\ n.feitos = txa[t].feitos /\ n.faltas = txa[t].faltas
  BY <1>0, OperTipo DEF RegistroA, AposVisita
<1> HIDE DEF n
<1>4. txa'[t] = n
  BY <1>0, <1>2, OperTipo
<1>5. trava'[LinhaAgenda(Alvo(t))] = t
  BY <1>0, <1>1, OperTipo, TxTipo DEF RegistrarVisita, PresaT, Travar
<1>6. oper[t].tipo # "ANULAR"
  BY <1>0, <1>1 DEF PresaT
<1>7. PresaT(t)'
  BY <1>0, <1>1, <1>3, <1>4, <1>5, <1>6 DEF PresaT, InsumosDe
<1>8. AtendT(t)'
  BY <1>0, <1>3, <1>4, <1>7 DEF AtendT, Presas
<1>9. QED
  BY <1>8, AtendQuieta

LEMMA BloquearAtend ==
    ASSUME AtendInd, TiposOK', NEW t \in Chamadas, QuietoA(t), Bloquear(t)
    PROVE  AtendInd'
<1>0. /\ TiposOK /\ AtendT(t) /\ UNCHANGED oper /\ UNCHANGED agendamento
      /\ Alvo(t)' = Alvo(t) /\ (Conclui(t)' <=> Conclui(t))
      /\ txa[t].passo = "bloquear"
  BY DEF AtendInd, QuietoA, linhas, Alvo, Conclui, Bloquear, EmA
<1>1. CASE agendamento[Alvo(t)].status = "CONCLUIDO"
  <2> DEFINE i == agendamento[Alvo(t)].pendencias
             n == [txa[t] EXCEPT !.itens = i,
                                 !.passo = IF oper[t].tipo = "REPROCESSAR"
                                           THEN AposVisita(i) ELSE "commit"]
  <2>1. txa' = [txa EXCEPT ![t] = n] /\ Travar(t, LinhaAgenda(Alvo(t)))
    BY <1>0, <1>1, OperTipo DEF Bloquear, RegistroA
  <2>2. /\ n.passo \in {"itens", "commit"} /\ n.itens = i
        /\ n.feitos = txa[t].feitos /\ n.faltas = txa[t].faltas
        /\ n.passo = "commit" /\ oper[t].tipo = "REPROCESSAR" => i = {}
        /\ oper[t].tipo # "REPROCESSAR" => n.passo = "commit"
    BY <1>0, OperTipo DEF RegistroA, AposVisita
  <2>3. i = agendamento[Alvo(t)].pendencias
    OBVIOUS
  <2> HIDE DEF n, i
  <2>4. txa'[t] = n /\ trava'[LinhaAgenda(Alvo(t))] = t
    BY <1>0, <2>1, OperTipo, TxTipo DEF Travar
  <2>5. /\ txa[t].feitos = {} /\ txa[t].faltas = {} /\ oper[t].tipo \in {"REPROCESSAR", "ANULAR"}
    BY <1>0, OperTipo DEF AtendT, Tipos
  <2>7. PresaT(t)'
    BY <1>0, <1>1, <2>2, <2>3, <2>4, <2>5 DEF PresaT
  <2>8. AtendT(t)'
    BY <1>0, <2>2, <2>4, <2>7 DEF AtendT, Presas
  <2>9. QED
    BY <2>8, AtendQuieta
<1>2. CASE agendamento[Alvo(t)].status # "CONCLUIDO"
  BY <1>2, AtendFim DEF Bloquear
<1>3. QED
  BY <1>1, <1>2

\* Each item goes to one side, and the loop ends when none is left.
LEMMA ConsumirAtend ==
    ASSUME AtendInd, TiposOK', NEW t \in Chamadas, QuietoA(t), ConsumirItem(t)
    PROVE  AtendInd'
<1>0. /\ TiposOK /\ AtendT(t) /\ UNCHANGED oper /\ UNCHANGED agendamento
      /\ Alvo(t)' = Alvo(t) /\ (Conclui(t)' <=> Conclui(t))
      /\ txa[t].passo = "itens"
  BY DEF AtendInd, QuietoA, linhas, Alvo, Conclui, ConsumirItem, EmA
<1>1. PresaT(t) /\ oper[t].tipo # "ANULAR"
  BY <1>0 DEF AtendT, Presas, PresaT
<1>2. PICK p \in txa[t].itens \ (txa[t].feitos \cup txa[t].faltas) :
         LET resta == txa[t].itens \ (txa[t].feitos \cup txa[t].faltas)
             s == IF resta = {p} THEN "commit" ELSE "itens"
         IN
         \/ /\ Travar(t, Estante(Central, p))
            /\ txa' = [txa EXCEPT ![t].passo = s, ![t].feitos = @ \cup {p}]
         \/ /\ UNCHANGED trava
            /\ txa' = [txa EXCEPT ![t].passo = s, ![t].faltas = @ \cup {p}]
  BY DEF ConsumirItem
<1> DEFINE resta == txa[t].itens \ (txa[t].feitos \cup txa[t].faltas)
           s == IF resta = {p} THEN "commit" ELSE "itens"
           n == [txa[t] EXCEPT !.passo = s, !.feitos = @ \cup {p}]
           m == [txa[t] EXCEPT !.passo = s, !.faltas = @ \cup {p}]
<1>3. txa' = [txa EXCEPT ![t] = n] \/ txa' = [txa EXCEPT ![t] = m]
  BY <1>0, <1>2, OperTipo DEF RegistroA
<1>4. /\ n.passo = s /\ n.itens = txa[t].itens
      /\ n.feitos = txa[t].feitos \cup {p} /\ n.faltas = txa[t].faltas
      /\ m.passo = s /\ m.itens = txa[t].itens
      /\ m.feitos = txa[t].feitos /\ m.faltas = txa[t].faltas \cup {p}
  BY <1>0, OperTipo DEF RegistroA
<1>5. s \in {"itens", "commit"} /\ (s = "commit" => resta = {p})
  OBVIOUS
<1> HIDE DEF n, m, s
<1>6. txa'[t] = n \/ txa'[t] = m
  BY <1>0, <1>3, OperTipo
<1>7. trava'[LinhaAgenda(Alvo(t))] = t
  BY <1>0, <1>1, <1>2, OperTipo, TxTipo, AgendaLinha DEF PresaT, Travar
<1>8. /\ txa'[t].passo = s /\ txa'[t].itens = txa[t].itens
      /\ txa'[t].feitos \cup txa'[t].faltas = txa[t].feitos \cup txa[t].faltas \cup {p}
      /\ txa'[t].feitos \cap txa'[t].faltas = {}
  BY <1>1, <1>4, <1>6 DEF PresaT
<1>9. /\ txa'[t].feitos \cup txa'[t].faltas \subseteq txa'[t].itens
      /\ s = "commit" => txa'[t].itens = txa'[t].feitos \cup txa'[t].faltas
  BY <1>1, <1>5, <1>8 DEF PresaT
<1>10. PresaT(t)'
  BY <1>0, <1>1, <1>5, <1>7, <1>8, <1>9 DEF PresaT, InsumosDe
<1>11. AtendT(t)'
  BY <1>0, <1>5, <1>8, <1>10 DEF AtendT, Presas
<1>12. QED
  BY <1>11, AtendQuieta

\* What the commit makes of the appointment's row.
LEMMA LinhaConfirmada ==
    ASSUME AtendInd, NEW t \in Chamadas, EmA(t, "commit")
    PROVE  LET a == agendamento[Alvo(t)]
               b == LinhaFinal(t)
           IN  /\ Conclui(t) => /\ b.status = "CONCLUIDO" /\ b.pendencias = txa[t].faltas
                                /\ b.anuladas = a.anuladas
               /\ oper[t].tipo = "STATUS" /\ ~Conclui(t) =>
                    /\ b.status # "CONCLUIDO" /\ b.pendencias = a.pendencias
                    /\ b.anuladas = a.anuladas
               /\ oper[t].tipo = "REPROCESSAR" =>
                    /\ b.status = a.status /\ b.pendencias = txa[t].faltas
                    /\ b.anuladas = a.anuladas
               /\ oper[t].tipo = "ANULAR" =>
                    /\ b.status = a.status /\ b.pendencias = {}
                    /\ b.anuladas = a.anuladas \cup txa[t].itens
<1> DEFINE a == agendamento[Alvo(t)]
<1>1. /\ Alvo(t) \in Agendamentos
      /\ a \in [status: Status, pendencias: SUBSET Produtos, anuladas: SUBSET Produtos]
  BY OperTipo DEF AtendInd, TiposOK, CadastroTypeOK
<1> HIDE DEF a
<1>2. CASE Conclui(t)
  <2>1. LinhaFinal(t) = [a EXCEPT !.status = "CONCLUIDO", !.pendencias = txa[t].faltas]
    BY <1>2 DEF LinhaFinal, Conclui, a
  <2>2. QED
    BY <1>1, <1>2, <2>1 DEF Conclui, a
<1>3. CASE oper[t].tipo = "STATUS" /\ ~Conclui(t)
  <2>1. LinhaFinal(t) = [a EXCEPT !.status = oper[t].para]
    BY <1>3 DEF LinhaFinal, Conclui, a
  <2>2. QED
    BY <1>1, <1>3, <2>1 DEF Conclui, a
<1>4. CASE oper[t].tipo = "REPROCESSAR"
  <2>1. LinhaFinal(t) = [a EXCEPT !.pendencias = txa[t].faltas]
    BY <1>4 DEF LinhaFinal, Conclui, a
  <2>2. QED
    BY <1>1, <1>4, <2>1 DEF Conclui, a
<1>5. CASE oper[t].tipo = "ANULAR"
  <2>1. LinhaFinal(t) = [a EXCEPT !.pendencias = {}, !.anuladas = @ \cup txa[t].itens]
    BY <1>5 DEF LinhaFinal, Conclui, a
  <2>2. QED
    BY <1>1, <1>5, <2>1 DEF Conclui, a
<1>6. QED
  BY <1>1, <1>2, <1>3, <1>4, <1>5, OperTipo DEF Tipos, AtendInd, Conclui

\* The commit writes what the call read under the row's lock: the items it
\* took are consumed for the first time, the others stay short or cancelled.
LEMMA ConfirmarAtend ==
    ASSUME AtendInd, TiposOK', NEW t \in Chamadas, ConfirmarAtendimento(t)
    PROVE  AtendInd'
<1> PICK b \in Agendamentos : b = Alvo(t)
  BY OperTipo DEF AtendInd
<1>0. /\ TiposOK /\ AtendT(t) /\ FichaInd /\ ConsumoUmaVez /\ PresaT(t) /\ EmA(t, "commit")
      /\ UNCHANGED oper /\ Soltar(t) /\ TravaDe(t)
  BY DEF AtendInd, AtendT, Presas, EmA, ConfirmarAtendimento, TravaDe
<1> DEFINE l == LinhaFinal(t)
           f == txa[t].feitos
           g == txa[t].faltas
           i == txa[t].itens
           m == InsumoDe(b)
<1>1. /\ agendamento \in [Agendamentos -> [status: Status, pendencias: SUBSET Produtos,
                                           anuladas: SUBSET Produtos]]
      /\ consumo \in [Agendamentos -> [Produtos -> Nat]]
      /\ \A p \in Produtos : m[p] \in Nat /\ consumo[b][p] \in Nat
  BY <1>0, CadastroAssumption DEF TiposOK, CadastroTypeOK, InsumoDe
<1>2. agendamento' = [agendamento EXCEPT ![b] = l]
  BY DEF ConfirmarAtendimento
<1>3. /\ Conclui(t) => l.status = "CONCLUIDO" /\ l.pendencias = g
                       /\ l.anuladas = agendamento[b].anuladas
      /\ oper[t].tipo = "STATUS" /\ ~Conclui(t) =>
           l.status # "CONCLUIDO" /\ l.pendencias = agendamento[b].pendencias
           /\ l.anuladas = agendamento[b].anuladas
      /\ oper[t].tipo = "REPROCESSAR" =>
           l.status = agendamento[b].status /\ l.pendencias = g
           /\ l.anuladas = agendamento[b].anuladas
      /\ oper[t].tipo = "ANULAR" =>
           l.status = agendamento[b].status /\ l.pendencias = {}
           /\ l.anuladas = agendamento[b].anuladas \cup i
  BY <1>0, LinhaConfirmada
<1>4. /\ f \cap g = {} /\ (oper[t].tipo = "ANULAR" => f = {})
      /\ oper[t].tipo # "ANULAR" => i = f \cup g
      /\ oper[t].tipo = "STATUS" => agendamento[b].status # "CONCLUIDO"
      /\ oper[t].tipo = "STATUS" => i = IF Conclui(t) THEN {p \in Produtos : m[p] > 0} ELSE {}
      /\ oper[t].tipo # "STATUS" => agendamento[b].status = "CONCLUIDO"
                                    /\ i = agendamento[b].pendencias
  <2>1. /\ f \cap g = {} /\ (oper[t].tipo = "ANULAR" => f = {})
        /\ oper[t].tipo # "ANULAR" => i = f \cup g
    BY <1>0 DEF PresaT, EmA
  <2>2. oper[t].tipo = "STATUS" =>
          /\ agendamento[b].status # "CONCLUIDO"
          /\ i = IF Conclui(t) THEN InsumosDe(b) ELSE {}
    BY <1>0 DEF PresaT
  <2>3. oper[t].tipo # "STATUS" => agendamento[b].status = "CONCLUIDO"
                                   /\ i = agendamento[b].pendencias
    BY <1>0 DEF PresaT
  <2>4. InsumosDe(b) = {p \in Produtos : m[p] > 0}
    BY DEF InsumosDe
  <2> HIDE DEF f, g, i, m
  <2>5. QED
    BY <2>1, <2>2, <2>3, <2>4
<1>5. \A p \in Produtos : consumo'[b][p] = IF p \in f THEN consumo[b][p] + m[p] ELSE consumo[b][p]
  BY <1>1 DEF ConfirmarAtendimento
<1>6. \A a \in Agendamentos \ {b} :
         agendamento'[a] = agendamento[a] /\ consumo'[a] = consumo[a]
  BY <1>1, <1>2 DEF ConfirmarAtendimento
<1>7. agendamento'[b] = l
  BY <1>1, <1>2
<1>8. /\ agendamento[b].status # "CONCLUIDO" =>
           agendamento[b].pendencias = {} /\ agendamento[b].anuladas = {}
      /\ agendamento[b].pendencias \cap agendamento[b].anuladas = {}
      /\ \A p \in Produtos :
           IF p \in agendamento[b].pendencias \cup agendamento[b].anuladas
           THEN consumo[b][p] = 0
           ELSE consumo[b][p] = IF agendamento[b].status = "CONCLUIDO" THEN m[p] ELSE 0
  BY <1>0 DEF FichaInd, ConsumoUmaVez
<1>9. oper[t].tipo \in {"STATUS", "REPROCESSAR", "ANULAR"} /\ (Conclui(t) => oper[t].tipo = "STATUS")
  BY <1>0, OperTipo DEF Tipos, Conclui
<1> HIDE DEF l, f, g, i, m
<1>10. /\ l.status # "CONCLUIDO" => l.pendencias = {} /\ l.anuladas = {}
       /\ l.pendencias \cap l.anuladas = {}
  BY <1>3, <1>4, <1>8, <1>9
<1>11. ASSUME NEW p \in Produtos
       PROVE  IF p \in l.pendencias \cup l.anuladas THEN consumo'[b][p] = 0
              ELSE consumo'[b][p] = IF l.status = "CONCLUIDO" THEN m[p] ELSE 0
  <2> DEFINE x == consumo[b][p]
             y == consumo'[b][p]
             q == m[p]
  <2>1. x \in Nat /\ q \in Nat /\ (y = IF p \in f THEN x + q ELSE x)
    BY <1>1, <1>5
  <2>2. IF p \in agendamento[b].pendencias \cup agendamento[b].anuladas
        THEN x = 0 ELSE x = IF agendamento[b].status = "CONCLUIDO" THEN q ELSE 0
    BY <1>8
  <2>3. oper[t].tipo = "STATUS" => (p \in i <=> Conclui(t) /\ q > 0)
    BY <1>4
  <2> HIDE DEF x, y, q
  <2>4. CASE Conclui(t)
    <3>1. x = 0 /\ l.status = "CONCLUIDO" /\ (p \in l.pendencias \cup l.anuladas <=> p \in g)
      BY <1>3, <1>4, <1>8, <1>9, <2>2, <2>4
    <3>2. p \in f <=> q > 0 /\ p \notin g
      BY <1>4, <1>9, <2>3, <2>4
    <3>3. p \in g => y = 0
      BY <2>1, <3>1, <3>2
    <3>4. p \notin g => y = q
      BY <2>1, <3>1, <3>2
    <3>5. QED
      BY <3>1, <3>3, <3>4 DEF y, q
  <2>5. CASE oper[t].tipo = "STATUS" /\ ~Conclui(t)
    <3>1. x = 0 /\ l.status # "CONCLUIDO" /\ p \notin l.pendencias \cup l.anuladas /\ p \notin f
      BY <1>3, <1>4, <1>8, <2>2, <2>3, <2>5
    <3>2. QED
      BY <2>1, <3>1 DEF y
  <2>6. CASE oper[t].tipo = "REPROCESSAR"
    <3>1. l.status = "CONCLUIDO" /\ agendamento[b].status = "CONCLUIDO"
      BY <1>3, <1>4, <2>6
    <3>2. CASE p \in f
      <4>1. x = 0 /\ p \notin l.pendencias \cup l.anuladas
        BY <1>3, <1>4, <1>8, <2>2, <2>6, <3>2
      <4>2. y = q
        BY <2>1, <3>2, <4>1
      <4>3. QED
        BY <3>1, <4>1, <4>2 DEF y, q
    <3>3. CASE p \notin f
      <4>1. p \in l.pendencias \cup l.anuladas
               <=> p \in agendamento[b].pendencias \cup agendamento[b].anuladas
        BY <1>3, <1>4, <2>6, <3>3
      <4>2. QED
        BY <2>1, <2>2, <3>1, <3>3, <4>1 DEF y, q
    <3>4. QED
      BY <3>2, <3>3
  <2>7. CASE oper[t].tipo = "ANULAR"
    <3>1. /\ l.status = "CONCLUIDO" /\ agendamento[b].status = "CONCLUIDO" /\ p \notin f
          /\ p \in l.pendencias \cup l.anuladas
               <=> p \in agendamento[b].pendencias \cup agendamento[b].anuladas
      BY <1>0, <1>3, <1>4, <2>7 DEF PresaT, f
    <3>2. QED
      BY <2>1, <2>2, <3>1 DEF y, q
  <2>8. QED
    BY <1>9, <2>4, <2>5, <2>6, <2>7
<1>12. FichaInd'
  BY <1>0, <1>6, <1>7, <1>10 DEF FichaInd
<1>13. ConsumoUmaVez'
  <2>1. ASSUME NEW a \in Agendamentos, NEW p \in Produtos
        PROVE  IF p \in agendamento'[a].pendencias \cup agendamento'[a].anuladas
               THEN consumo'[a][p] = 0
               ELSE consumo'[a][p] = IF agendamento'[a].status = "CONCLUIDO"
                                     THEN InsumoDe(a)[p] ELSE 0
    BY <1>0, <1>6, <1>7, <1>11 DEF ConsumoUmaVez, m
  <2>2. QED
    BY <2>1 DEF ConsumoUmaVez, InsumoDe
<1>14. ASSUME NEW u \in Chamadas, u # t PROVE AtendT(u)'
  <2>1. txa'[u] = txa[u]
    BY <1>0, <1>14, OperTipo DEF ConfirmarAtendimento, RegistroA
  <2>2. trava[LinhaAgenda(Alvo(u))] = u => Alvo(u) # b
    BY <1>0, <1>14 DEF PresaT
  <2>3. trava[LinhaAgenda(Alvo(u))] = u => agendamento'[Alvo(u)] = agendamento[Alvo(u)]
    BY <1>0, <1>6, <2>2, OperTipo
  <2>4. QED
    BY <1>0, <1>14, <2>1, <2>3, AtendAlheia
<1>15. AtendT(t)'
  <2>1. txa'[t].passo = "fim"
    BY <1>0, OperTipo DEF ConfirmarAtendimento, RegistroA
  <2>2. QED
    BY <2>1 DEF AtendT, Presas
<1>16. QED
  BY <1>12, <1>13, <1>14, <1>15 DEF AtendInd

\* Steps of the registry and of the sales: they touch no appointment, and the
\* locks they take or give back are not an appointment call's.
LEMMA AtendDeFora ==
    ASSUME AtendInd, TiposOK', UNCHANGED <<agendamento, consumo, oper, txa>>,
           UNCHANGED trava \/ \E t \in VendaTx : TravaDe(t)
    PROVE  AtendInd'
<1>1. PICK t : TravaDe(t) /\ t \notin Chamadas
  BY Transacao DEF TravaDe
<1>2. \A u \in Chamadas : AtendT(u)'
  BY <1>1, AtendAlheia
<1>3. FichaInd' /\ ConsumoUmaVez'
  BY DEF AtendInd, FichaInd, ConsumoUmaVez, InsumoDe
<1>4. QED
  BY <1>2, <1>3 DEF AtendInd

LEMMA VendasDeFora ==
    ASSUME TypeOK, VendasNext
    PROVE  /\ UNCHANGED <<agendamento, consumo>>
           /\ UNCHANGED trava \/ \E t \in VendaTx : TravaDe(t)
<1>0. TiposOK /\ Requisicoes \subseteq VendaTx /\ Estornos \subseteq VendaTx
  BY TxTipo DEF TypeOK
<1>1. ASSUME NEW t \in VendaTx, QuietoV(t)
      PROVE  UNCHANGED <<agendamento, consumo>> /\ \E u \in VendaTx : TravaDe(u)
  BY <1>1 DEF QuietoV, linhas
<1>2. ASSUME NEW t \in VendaTx, ConfirmarVenda(t) \/ ConfirmarEstorno(t)
      PROVE  UNCHANGED <<agendamento, consumo>> /\ \E u \in VendaTx : TravaDe(u)
  BY <1>2 DEF ConfirmarVenda, ConfirmarEstorno, TravaDe
<1>3. ASSUME NEW c \in Cupons, AtualizarCupom(c) \/ ExcluirCupom(c)
      PROVE  UNCHANGED <<agendamento, consumo, trava>>
  BY <1>3 DEF AtualizarCupom, ExcluirCupom, cadastro
<1>4. ASSUME NEW t \in VendaTx, Abortar(t) PROVE QuietoV(t)
  BY <1>0, <1>4, EncerrarQuieto DEF Abortar
<1>5. QED
  BY <1>0, <1>1, <1>2, <1>3, <1>4, RequisicaoQuieta, EstornoQuieto DEF VendasNext

LEMMA InitAtend == Init => AtendInd
<1> SUFFICES ASSUME Init PROVE AtendInd
  OBVIOUS
<1>1. TiposOK
  BY InitTipos
<1>2. ASSUME NEW t \in Chamadas PROVE AtendT(t)
  <2>1. txa[t] = [passo |-> IF oper[t].tipo = "STATUS" THEN "fora" ELSE "bloquear",
                  lido |-> "AGENDADO", itens |-> {}, feitos |-> {}, faltas |-> {}]
    BY DEF Init, AtendimentoInit
  <2>2. QED
    BY <2>1 DEF AtendT, Presas
<1>3. FichaInd /\ ConsumoUmaVez
  BY DEF Init, CadastroInit, FichaInd, ConsumoUmaVez
<1>4. QED
  BY <1>1, <1>2, <1>3 DEF AtendInd

\* AtendInd is inductive: whoever writes the row of an appointment has held it
\* since it read what it writes from.
THEOREM AtendIndutivo == Spec => []AtendInd
<1>1. AtendInd /\ TypeOK /\ TypeOK' /\ [Next]_vars => AtendInd'
  <2> SUFFICES ASSUME AtendInd, TypeOK, TypeOK', [Next]_vars PROVE AtendInd'
    OBVIOUS
  <2>0. TiposOK /\ TiposOK'
    BY DEF TypeOK
  <2>1. CASE CadastroNext /\ UNCHANGED <<vendas, atendimento>>
    <3>1. UNCHANGED <<trava, agendamento, consumo>>
      BY <2>1 DEF CadastroNext, MovimentarManual, DesativarProduto, DesativarServico,
                  SalvarFilial, DesativarCliente
    <3>2. QED
      BY <2>0, <2>1, <3>1, AtendDeFora DEF atendimento
  <2>2. CASE VendasNext /\ UNCHANGED atendimento
    BY <2>0, <2>2, VendasDeFora, AtendDeFora DEF atendimento
  <2>3. CASE AtendimentoNext /\ UNCHANGED vendas
    <3>1. PICK t \in Chamadas :
             \/ LerAgendamento(t) \/ MudarStatus(t) \/ RegistrarVisita(t) \/ Bloquear(t)
             \/ ConsumirItem(t) \/ ConfirmarAtendimento(t) \/ AbortarA(t)
      BY <2>3 DEF AtendimentoNext
    <3>2. CASE ConfirmarAtendimento(t)
      BY <2>0, <3>2, ConfirmarAtend
    <3>3. CASE ~ConfirmarAtendimento(t)
      <4>1. QuietoA(t)
        BY <2>0, <3>1, <3>3, ChamadaQuieta
      <4>2. CASE LerAgendamento(t)
        BY <2>0, <4>1, <4>2, LerAtend
      <4>3. CASE MudarStatus(t)
        BY <2>0, <4>1, <4>3, MudarAtend
      <4>4. CASE RegistrarVisita(t)
        BY <2>0, <4>1, <4>4, VisitaAtend
      <4>5. CASE Bloquear(t)
        BY <2>0, <4>1, <4>5, BloquearAtend
      <4>6. CASE ConsumirItem(t)
        BY <2>0, <4>1, <4>6, ConsumirAtend
      <4>7. CASE AbortarA(t)
        BY <2>0, <4>1, <4>7, AtendFim DEF AbortarA
      <4>8. QED
        BY <3>1, <3>3, <4>2, <4>3, <4>4, <4>5, <4>6, <4>7
    <3>4. QED
      BY <3>2, <3>3
  <2>4. CASE UNCHANGED vars
    BY <2>0, <2>4, AtendDeFora DEF vars, cadastro, atendimento
  <2>5. QED
    BY <2>1, <2>2, <2>3, <2>4 DEF Next
<1>2. QED
  BY <1>1, InitAtend, TiposCompletos, PTL DEF Spec

\* Each insumo of a concluded appointment is consumed once, or still a
\* shortage, or cancelled: never twice, never forgotten.
THEOREM ConsumoSempre == Spec => []ConsumoUmaVez
<1>1. AtendInd => ConsumoUmaVez
  BY DEF AtendInd
<1>2. QED
  BY <1>1, AtendIndutivo, PTL
=============================================================================
