--------------------------- MODULE SessoesProvas ---------------------------
(***************************************************************************)
(* Proofs about Sessoes, for any users, codes and requests: a session has  *)
(* one branch, no token outlives its session, an administrator remains, a  *)
(* recovery link, a challenge and a one-time code serve once, and no       *)
(* session lives on over a reset.  The argument: what a request holds      *)
(* locked nobody else changes, a sweep holds every valid token of the      *)
(* sessions that it ends, and what was spent is in no account and nobody   *)
(* gives it again.                                                         *)
(***************************************************************************)
EXTENDS Sessoes, FiniteSetTheorems, TLAPS

USE SessoesAssumption

Varrendo == {"sessoes", "tokens", "gravar"}

\* Rows refer to rows that exist; one valid token per session, only of live sessions; one
\* valid link per user; a challenge only with a second factor.
LinhasInd ==
    /\ \A s \in Ids : sessao[s].estado = "nenhuma" <=> sessao[s].dono = Nada
    /\ \A k \in Ids : token[k].estado # "nenhum" =>
          token[k].sessao \in Ids /\ sessao[token[k].sessao].estado # "nenhuma"
    /\ TokenDeSessaoViva
    /\ \A k, l \in Ids :
          token[k].estado = "vivo" /\ token[l].estado = "vivo" /\ token[k].sessao = token[l].sessao
          => k = l
    /\ \A l \in Chamadas : link[l].estado # "nenhum" => link[l].dono \in Usuarios
    /\ \A l, m \in Chamadas :
          link[l].estado = "valido" /\ link[m].estado = "valido" /\ link[l].dono = link[m].dono
          => l = m
    /\ DesafioSoComFator
    /\ SempreHaAdmin

\* What a request has asked for exists; what it will create does not yet.
PedidoInd(t) ==
    /\ tx[t].passo # "fora" => tx[t].u \in Usuarios
    /\ tx[t].passo # "fora" /\ tx[t].op \in {"renovar", "sair", "ligar"} =>
          tx[t].alvo \in Ids /\ token[tx[t].alvo].estado # "nenhum"
    /\ tx[t].passo # "fora" /\ tx[t].op = "redefinir" =>
          /\ tx[t].alvo \in Chamadas /\ link[tx[t].alvo].estado # "nenhum"
          /\ link[tx[t].alvo].dono = tx[t].u
    /\ tx[t].passo # "fim" =>
          /\ resp[t] = Nada
          /\ sessao[t].estado = "nenhuma" /\ token[t].estado = "nenhum" /\ link[t].estado = "nenhum"
    /\ tx[t].passo = "ler" => tx[t].ses = {}
    /\ \A s \in tx[t].ses : sessao[s].estado # "nenhuma"
    /\ \A k \in tx[t].tok : token[k].estado # "nenhum"

\* An administrator's change holds the company, and knows another administrator.
AdminInd(t) ==
    tx[t].op \in Atualizacoes /\ tx[t].passo \in Varrendo =>
        /\ Empresa \in tx[t].usr
        /\ tx[t].op \in {"desativar", "rebaixar"} => \E a \in AdminsAtivos : a # tx[t].u

\* A rotation holds its live session, and from its claim on a valid token.
RotacaoInd(t) ==
    tx[t].op = "renovar" /\ tx[t].passo \in {"reivindicar", "emitir"} =>
        LET k == tx[t].alvo IN
        /\ token[k].sessao \in tx[t].ses /\ sessao[token[k].sessao].estado = "viva"
        /\ tx[t].passo = "emitir" => token[k].estado = "vivo" /\ k \in tx[t].tok

\* A sweep has every valid token of the sessions it has.
VarreduraInd(t) ==
    /\ tx[t].passo = "tokens" => tx[t].ses \subseteq Alcance(t)
    /\ tx[t].passo = "gravar" =>
          \A k \in Ids : token[k].estado = "vivo" /\ token[k].sessao \in tx[t].ses => k \in tx[t].tok

\* A reset has the user, a valid link, and every session of the user.
RedefinirInd(t) ==
    tx[t].op = "redefinir" =>
        /\ tx[t].passo \in Varrendo =>
              tx[t].u \in tx[t].usr /\ link[tx[t].alvo].estado = "valido"
        /\ tx[t].passo \in {"tokens", "gravar"} => DoUsuario(tx[t].u) \subseteq tx[t].ses
        /\ resp[t] = "FEITO" => tx[t].passo = "fim" /\ link[tx[t].alvo].estado = "usado"

SolicitarInd(t) ==
    tx[t].op = "solicitar" /\ tx[t].passo = "criar" =>
        tx[t].u \in tx[t].usr /\ tx[t].links = LinksDe(tx[t].u)

ChamadaInd(t) ==
    PedidoInd(t) /\ AdminInd(t) /\ RotacaoInd(t) /\ VarreduraInd(t) /\ RedefinirInd(t)
    /\ SolicitarInd(t)

\* Two requests hold no row both, and no two resets used one link.
ParInd(t, o) ==
    /\ tx[t].usr \cap tx[o].usr = {} /\ tx[t].ses \cap tx[o].ses = {}
    /\ tx[t].op = "redefinir" /\ tx[o].op = "redefinir" /\ resp[t] = "FEITO" /\ resp[o] = "FEITO"
          => tx[t].alvo # tx[o].alvo

SessoesInd ==
    /\ TypeOK
    /\ LinhasInd
    /\ \A t \in Chamadas : ChamadaInd(t)
    /\ \A t \in Chamadas : \A o \in Chamadas \ {t} : ParInd(t, o)

-----------------------------------------------------------------------------
LEMMA SessoesInicio == Init => SessoesInd
<1> SUFFICES ASSUME Init PROVE SessoesInd
  OBVIOUS
<1>1. TypeOK
  <2>1. usuario \in [Usuarios -> Contas]
    BY DEF Init, Contas, Ids
  <2>2. sessao \in [Ids -> Registros]
    BY DEF Init, Registros, Ids, SessaoCom
  <2>3. tx \in [Chamadas -> Andamentos]
    BY DEF Init, Andamentos, Fora, Passos, Ops
  <2>4. QED
    BY <2>1, <2>2, <2>3 DEF Init, TypeOK, Ids, Respostas
<1>2. \A t \in Chamadas : tx[t] = Fora /\ resp[t] = Nada
  BY DEF Init
<1>3. LinhasInd
  BY DEF Init, LinhasInd, Ids, SessaoCom, TokenDeSessaoViva, DesafioSoComFator, SempreHaAdmin,
         AdminsAtivos
<1>4. \A t \in Chamadas : ChamadaInd(t)
  BY <1>2 DEF Init, Ids, SessaoCom, Fora, ChamadaInd, PedidoInd, AdminInd, RotacaoInd, VarreduraInd,
         RedefinirInd, SolicitarInd, Varrendo
<1>5. \A t \in Chamadas : \A o \in Chamadas \ {t} : ParInd(t, o)
  BY <1>2 DEF Fora, ParInd
<1>6. QED
  BY <1>1, <1>3, <1>4, <1>5 DEF SessoesInd

-----------------------------------------------------------------------------
\* A step of t that leaves sessions, tokens and links, and who is an active administrator.
LEMMA SemLinhas ==
    ASSUME SessoesInd, NEW t \in Chamadas, TypeOK', UNCHANGED <<sessao, token, link>>,
           AdminsAtivos' = AdminsAtivos, DesafioSoComFator',
           \A o \in Chamadas \ {t} : tx'[o] = tx[o] /\ resp'[o] = resp[o],
           ChamadaInd(t)', \A o \in Chamadas \ {t} : ParInd(t, o)'
    PROVE  SessoesInd'
<1>1. LinhasInd'
  BY DEF SessoesInd, LinhasInd, TokenDeSessaoViva, SempreHaAdmin
<1>2. ASSUME NEW o \in Chamadas \ {t} PROVE ChamadaInd(o)'
  <2>1. ChamadaInd(o) /\ tx'[o] = tx[o] /\ resp'[o] = resp[o]
    BY DEF SessoesInd
  <2>2. PedidoInd(o)'
    BY <2>1 DEF ChamadaInd, PedidoInd
  <2>3. AdminInd(o)'
    BY <2>1 DEF ChamadaInd, AdminInd
  <2>4. RotacaoInd(o)'
    BY <2>1 DEF ChamadaInd, RotacaoInd
  <2>5. VarreduraInd(o)'
    BY <2>1 DEF ChamadaInd, VarreduraInd, Alcance, DoUsuario
  <2>6. RedefinirInd(o)' /\ SolicitarInd(o)'
    BY <2>1 DEF ChamadaInd, RedefinirInd, SolicitarInd, DoUsuario, LinksDe
  <2>7. QED
    BY <2>2, <2>3, <2>4, <2>5, <2>6 DEF ChamadaInd
<1>3. ASSUME NEW o \in Chamadas, NEW m \in Chamadas \ {o} PROVE ParInd(o, m)'
  <2>1. CASE o = t
    BY <2>1
  <2>2. CASE m = t
    BY <2>2 DEF ParInd
  <2>3. CASE o # t /\ m # t
    BY <2>3 DEF SessoesInd, ParInd
  <2>4. QED
    BY <2>1, <2>2, <2>3
<1>4. QED
  BY <1>1, <1>2, <1>3 DEF SessoesInd

\* What an answer changes of a call.
LEMMA Resposta ==
    ASSUME TypeOK, NEW t \in Chamadas, NEW x \in Respostas, Responder(t, x)
    PROVE  /\ tx' \in [Chamadas -> Andamentos] /\ resp' \in [Chamadas -> Respostas \cup {Nada}]
           /\ \A o \in Chamadas \ {t} : tx'[o] = tx[o] /\ resp'[o] = resp[o]
           /\ tx'[t].passo = "fim" /\ resp'[t] = x
           /\ tx'[t].op = tx[t].op /\ tx'[t].u = tx[t].u /\ tx'[t].alvo = tx[t].alvo
           /\ tx'[t].usr = {} /\ tx'[t].ses = {} /\ tx'[t].tok = {}
<1>1. tx[t] \in Andamentos /\ tx \in [Chamadas -> Andamentos]
  BY DEF TypeOK
<1> DEFINE n == [tx[t] EXCEPT !.passo = "fim", !.visto = Nada, !.links = {},
                              !.usr = {}, !.ses = {}, !.tok = {}]
<1>2. /\ n \in Andamentos
      /\ n.passo = "fim" /\ n.op = tx[t].op /\ n.u = tx[t].u /\ n.alvo = tx[t].alvo
      /\ n.usr = {} /\ n.ses = {} /\ n.tok = {}
  BY <1>1 DEF Andamentos, Passos
<1>3. tx' = [tx EXCEPT ![t] = n]
  BY <1>1 DEF Responder, Andamentos
<1> HIDE DEF n
<1>4. resp \in [Chamadas -> Respostas \cup {Nada}] /\ resp' = [resp EXCEPT ![t] = x]
  BY DEF TypeOK, Responder
<1>5. tx' \in [Chamadas -> Andamentos] /\ tx'[t] = n /\ \A o \in Chamadas \ {t} : tx'[o] = tx[o]
  BY <1>1, <1>2, <1>3
<1>6. QED
  BY <1>2, <1>4, <1>5

\* A call that is answered without a session, a token or a link.
LEMMA Acaba ==
    ASSUME SessoesInd, NEW t \in Chamadas, NEW x \in Respostas, Responder(t, x),
           tx[t].passo # "fora", tx[t].op = "redefinir" => x # "FEITO",
           UNCHANGED <<sessao, token, link>>, usuario' \in [Usuarios -> Contas],
           AdminsAtivos' = AdminsAtivos, DesafioSoComFator'
    PROVE  SessoesInd'
<1>1. TypeOK
  BY DEF SessoesInd
<1>2. TypeOK'
  BY <1>1, Resposta DEF TypeOK
<1>3. ChamadaInd(t)'
  <2>1. PedidoInd(t)
    BY DEF SessoesInd, ChamadaInd
  <2>2. PedidoInd(t)'
    BY <1>1, <2>1, Resposta DEF PedidoInd
  <2>3. AdminInd(t)' /\ RotacaoInd(t)' /\ VarreduraInd(t)' /\ RedefinirInd(t)' /\ SolicitarInd(t)'
    BY <1>1, Resposta DEF AdminInd, RotacaoInd, VarreduraInd, RedefinirInd, SolicitarInd, Varrendo
  <2>4. QED
    BY <2>2, <2>3 DEF ChamadaInd
<1>4. \A o \in Chamadas \ {t} : ParInd(t, o)'
  BY <1>1, Resposta DEF ParInd
<1>5. QED
  BY <1>1, <1>2, <1>3, <1>4, Resposta, SemLinhas

LEMMA Nega ==
    ASSUME SessoesInd, NEW t \in Chamadas, NEW x \in Respostas, Negar(t, x),
           tx[t].passo # "fora", tx[t].op = "redefinir" => x # "FEITO"
    PROVE  SessoesInd'
<1>1. UNCHANGED tabelas /\ Responder(t, x)
  BY DEF Negar
<1>2. usuario' \in [Usuarios -> Contas] /\ DesafioSoComFator' /\ AdminsAtivos' = AdminsAtivos
  BY <1>1 DEF SessoesInd, TypeOK, LinhasInd, DesafioSoComFator, AdminsAtivos, tabelas
<1>3. QED
  BY <1>1, <1>2, Acaba DEF tabelas

LEMMA Vazio == Nada \notin Ids /\ Nada # "FEITO" /\ \A x \in Respostas : x # Nada
  BY DEF Ids, Respostas

\* A call goes on: it takes only rows that nobody else has, and answers nothing.
LEMMA Anda ==
    ASSUME SessoesInd, NEW t \in Chamadas, tx[t].passo # "fim",
           NEW n \in Andamentos, tx' = [tx EXCEPT ![t] = n],
           UNCHANGED <<sessao, token, link, resp>>, usuario' \in [Usuarios -> Contas],
           AdminsAtivos' = AdminsAtivos, DesafioSoComFator',
           \A r \in n.usr : r \in tx[t].usr \/ Livre(t, r),
           n.ses = tx[t].ses \/ SessoesLivres(t, n.ses),
           ChamadaInd(t)'
    PROVE  SessoesInd'
<1>1. TypeOK
  BY DEF SessoesInd
<1>2. tx'[t] = n /\ \A o \in Chamadas \ {t} : tx'[o] = tx[o]
  BY <1>1 DEF TypeOK
<1>3. TypeOK'
  BY <1>1 DEF TypeOK
<1>4. ASSUME NEW o \in Chamadas \ {t} PROVE ParInd(t, o)'
  <2>1. ParInd(t, o) /\ resp[t] = Nada
    BY DEF SessoesInd, ChamadaInd, PedidoInd
  <2>2. n.usr \cap tx[o].usr = {}
    BY <2>1 DEF ParInd, Livre
  <2>3. n.ses \cap tx[o].ses = {}
    BY <2>1 DEF ParInd, SessoesLivres
  <2>4. resp'[t] # "FEITO"
    BY <2>1, Vazio
  <2>5. QED
    BY <1>2, <2>2, <2>3, <2>4 DEF ParInd
<1>5. QED
  BY <1>2, <1>3, <1>4, SemLinhas

Quietos == {"desafiar", "consumir", "inserir", "mudar", "trocar", "travar"}

\* Steps between a read and the statement that uses it.
LEMMA Quieta ==
    ASSUME SessoesInd, NEW t \in Chamadas, tx[t].passo \notin {"fora", "fim"},
           NEW n \in Andamentos, tx' = [tx EXCEPT ![t] = n],
           n.op = tx[t].op, n.u = tx[t].u, n.alvo = tx[t].alvo,
           n.usr = tx[t].usr, n.ses = tx[t].ses, n.tok = tx[t].tok,
           n.passo \in Quietos \/ (n.passo = "sessoes" /\ n.op = "sair"),
           UNCHANGED <<sessao, token, link, resp>>, usuario' \in [Usuarios -> Contas],
           AdminsAtivos' = AdminsAtivos, DesafioSoComFator'
    PROVE  SessoesInd'
<1>1. tx'[t] = n
  BY DEF SessoesInd, TypeOK
<1>2. PedidoInd(t) /\ RedefinirInd(t)
  BY DEF SessoesInd, ChamadaInd
<1>3. n.passo # "ler" /\ n.passo # "fim" /\ n.passo # "fora"
  BY DEF Quietos
<1>4. PedidoInd(t)'
  BY <1>1, <1>2, <1>3 DEF PedidoInd
<1>5. resp'[t] # "FEITO"
  BY <1>2, Vazio DEF PedidoInd
<1>6. AdminInd(t)' /\ RotacaoInd(t)' /\ VarreduraInd(t)' /\ SolicitarInd(t)'
  BY <1>1 DEF AdminInd, RotacaoInd, VarreduraInd, SolicitarInd, Varrendo, Quietos, Atualizacoes
<1>7. RedefinirInd(t)'
  BY <1>1, <1>5 DEF RedefinirInd, Varrendo, Quietos
<1>8. ChamadaInd(t)'
  BY <1>4, <1>6, <1>7 DEF ChamadaInd
<1>9. QED
  BY <1>8, Anda

-----------------------------------------------------------------------------
\* What a step needs to know of the account.
LEMMA MesmaConta ==
    ASSUME SessoesInd, UNCHANGED usuario
    PROVE  usuario' \in [Usuarios -> Contas] /\ DesafioSoComFator' /\ AdminsAtivos' = AdminsAtivos
  BY DEF SessoesInd, TypeOK, LinhasInd, DesafioSoComFator, AdminsAtivos

LEMMA OutraConta ==
    ASSUME SessoesInd, NEW u \in Usuarios, NEW r \in Contas, usuario' = [usuario EXCEPT ![u] = r],
           r.ativo = usuario[u].ativo, r.admin = usuario[u].admin, r.desafio # Nada => r.fator
    PROVE  usuario' \in [Usuarios -> Contas] /\ DesafioSoComFator' /\ AdminsAtivos' = AdminsAtivos
<1>1. usuario \in [Usuarios -> Contas] /\ DesafioSoComFator
  BY DEF SessoesInd, TypeOK, LinhasInd
<1>2. usuario'[u] = r /\ \A v \in Usuarios \ {u} : usuario'[v] = usuario[v]
  BY <1>1
<1>3. QED
  BY <1>1, <1>2 DEF DesafioSoComFator, AdminsAtivos

LEMMA DoPedido ==
    ASSUME SessoesInd, NEW t \in Chamadas, tx[t].passo # "fora"
    PROVE  /\ tx[t] \in Andamentos /\ tx \in [Chamadas -> Andamentos]
           /\ tx[t].u \in Usuarios /\ usuario[tx[t].u] \in Contas
           /\ usuario \in [Usuarios -> Contas]
           /\ usuario[tx[t].u].desafio # Nada => usuario[tx[t].u].fator
  BY DEF SessoesInd, TypeOK, ChamadaInd, PedidoInd, LinhasInd, DesafioSoComFator

\* A call moves to another step of its own and changes nothing else.
LEMMA IrInd ==
    ASSUME SessoesInd, NEW t \in Chamadas, tx[t].passo \notin {"fora", "fim"}, NEW p \in Passos,
           Ir(t, p), SoTx, p \in Quietos \/ (p = "sessoes" /\ tx[t].op = "sair")
    PROVE  SessoesInd'
<1> DEFINE n == [tx[t] EXCEPT !.passo = p]
<1>1. tx[t] \in Andamentos /\ tx \in [Chamadas -> Andamentos]
  BY DoPedido
<1>2. /\ n \in Andamentos /\ n.passo = p /\ n.op = tx[t].op /\ n.u = tx[t].u
      /\ n.alvo = tx[t].alvo /\ n.usr = tx[t].usr /\ n.ses = tx[t].ses /\ n.tok = tx[t].tok
  BY <1>1 DEF Andamentos
<1>3. tx' = [tx EXCEPT ![t] = n]
  BY <1>1 DEF Ir
<1>4. UNCHANGED <<usuario, sessao, token, link, resp>>
  BY DEF SoTx, tabelas
<1> HIDE DEF n
<1>5. QED
  BY <1>2, <1>3, <1>4, MesmaConta, Quieta

\* The same, with what was read of the account, or of the password.
LEMMA VeInd ==
    ASSUME SessoesInd, NEW t \in Chamadas, tx[t].passo \notin {"fora", "fim"},
           NEW p \in Quietos, NEW v \in Contas \cup Ids \cup {Nada},
           tx' = [tx EXCEPT ![t].passo = p, ![t].visto = v],
           UNCHANGED <<sessao, token, link, resp>>, usuario' \in [Usuarios -> Contas],
           AdminsAtivos' = AdminsAtivos, DesafioSoComFator'
    PROVE  SessoesInd'
<1> DEFINE n == [tx[t] EXCEPT !.passo = p, !.visto = v]
<1>1. tx[t] \in Andamentos /\ tx \in [Chamadas -> Andamentos]
  BY DoPedido
<1>2. /\ n \in Andamentos /\ n.passo = p /\ n.op = tx[t].op /\ n.u = tx[t].u
      /\ n.alvo = tx[t].alvo /\ n.usr = tx[t].usr /\ n.ses = tx[t].ses /\ n.tok = tx[t].tok
  <2>1. p \in Passos
    BY DEF Passos, Quietos
  <2> DEFINE V == Contas \cup Ids \cup {Nada}
  <2>2. v \in V
    OBVIOUS
  <2>3. Andamentos = [passo : Passos, op : Ops, u : Usuarios \cup {Nada}, alvo : Ids \cup {Nada},
                      codigo : (Codigos \X Ids) \cup {Nada}, visto : V, links : SUBSET Chamadas,
                      usr : SUBSET (Usuarios \cup {Empresa}), ses : SUBSET Ids, tok : SUBSET Ids]
    BY DEF Andamentos
  <2> HIDE DEF V
  <2>4. QED
    BY <1>1, <2>1, <2>2, <2>3
<1>3. tx' = [tx EXCEPT ![t] = n]
  BY <1>1 DEF Andamentos
<1> HIDE DEF n
<1>4. QED
  BY <1>2, <1>3, Quieta

LEMMA LerLoginInd ==
    ASSUME SessoesInd, NEW t \in Chamadas, LerLogin(t)
    PROVE  SessoesInd'
<1>1. tx[t].passo = "ler" /\ tx[t].op \in Entradas
  BY DEF LerLogin, Em
<1>2. CASE Negar(t, "RECUSADO")
  BY <1>1, <1>2, Nega DEF Respostas
<1>3. ASSUME NEW p \in {"desafiar", "inserir"}, Ir(t, p), SoTx PROVE SessoesInd'
  BY <1>1, <1>3, IrInd DEF Quietos, Passos
<1>4. QED
  BY <1>2, <1>3 DEF LerLogin

LEMMA DesafiarInd ==
    ASSUME SessoesInd, NEW t \in Chamadas, Desafiar(t)
    PROVE  SessoesInd'
<1>1. tx[t].passo = "desafiar" /\ tx[t].op \in Entradas
  BY DEF Desafiar, DesafiarSe, Em
<1>2. CASE Negar(t, "RECUSADO")
  BY <1>1, <1>2, Nega DEF Respostas
<1>3. CASE /\ usuario[tx[t].u].fator
           /\ usuario' = [usuario EXCEPT ![tx[t].u].desafio = t]
           /\ Responder(t, "DESAFIO")
           /\ UNCHANGED <<sessao, token, link>>
  <2> DEFINE r == [usuario[tx[t].u] EXCEPT !.desafio = t]
  <2>1. /\ r \in Contas /\ r.ativo = usuario[tx[t].u].ativo /\ r.admin = usuario[tx[t].u].admin
        /\ r.fator /\ usuario' = [usuario EXCEPT ![tx[t].u] = r]
    BY <1>1, <1>3, DoPedido DEF Contas
  <2> HIDE DEF r
  <2>2. usuario' \in [Usuarios -> Contas] /\ DesafioSoComFator' /\ AdminsAtivos' = AdminsAtivos
    BY <1>1, <2>1, DoPedido, OutraConta
  <2>3. QED
    BY <1>1, <1>3, <2>2, Acaba DEF Respostas, Entradas
<1>4. QED
  BY <1>2, <1>3 DEF Desafiar, DesafiarSe

LEMMA LerFatorInd ==
    ASSUME SessoesInd, NEW t \in Chamadas, LerFator(t)
    PROVE  SessoesInd'
<1>1. tx[t].passo = "ler" /\ tx[t].op = "verificar"
  BY DEF LerFator, Em
<1>2. CASE Negar(t, "RECUSADO")
  BY <1>1, <1>2, Nega DEF Respostas
<1>3. CASE tx' = [tx EXCEPT ![t].passo = "consumir", ![t].visto = usuario[tx[t].u]] /\ SoTx
  BY <1>1, <1>3, DoPedido, MesmaConta, VeInd DEF Quietos, SoTx, tabelas
<1>4. QED
  BY <1>2, <1>3 DEF LerFator

\* Without a challenge and with fewer codes.
LEMMA CodigoUsado ==
    ASSUME SessoesInd, NEW t \in Chamadas, tx[t].passo # "fora", NEW c,
           usuario' = [usuario EXCEPT ![tx[t].u].desafio = Nada, ![tx[t].u].codigos = @ \ {c}]
    PROVE  usuario' \in [Usuarios -> Contas] /\ DesafioSoComFator' /\ AdminsAtivos' = AdminsAtivos
<1> DEFINE u == tx[t].u
           r == [usuario[u] EXCEPT !.desafio = Nada, !.codigos = @ \ {c}]
<1>1. usuario[u] \in Contas /\ usuario \in [Usuarios -> Contas] /\ u \in Usuarios
  BY DoPedido
<1>2. usuario[u].codigos \ {c} \in SUBSET (Codigos \X Ids)
  BY <1>1 DEF Contas
<1>3. /\ r \in Contas /\ r.ativo = usuario[u].ativo /\ r.admin = usuario[u].admin
      /\ r.desafio = Nada
  <2> DEFINE C == Codigos \X Ids
  <2>1. usuario[u].codigos \ {c} \in SUBSET C
    BY <1>2
  <2>2. Contas = [ativo : BOOLEAN, admin : BOOLEAN, senha : Ids, google : BOOLEAN,
                  fator : BOOLEAN, segredo : Ids \cup {Nada}, desafio : Chamadas \cup {Nada},
                  codigos : SUBSET C]
    BY DEF Contas
  <2> HIDE DEF C
  <2>3. QED
    BY <1>1, <2>1, <2>2
<1>4. usuario' = [usuario EXCEPT ![u] = r]
  BY <1>1 DEF Contas
<1> HIDE DEF r
<1>5. QED
  BY <1>1, <1>3, <1>4, OutraConta

LEMMA ConsumirInd ==
    ASSUME SessoesInd, NEW t \in Chamadas, Consumir(t)
    PROVE  SessoesInd'
<1>1. tx[t].passo = "consumir" /\ tx[t].op = "verificar"
  BY DEF Consumir, ConsumirSe, Em
<1>2. CASE Negar(t, "RECUSADO")
  BY <1>1, <1>2, Nega DEF Respostas
<1>3. CASE /\ usuario' = [usuario EXCEPT ![tx[t].u].desafio = Nada,
                                         ![tx[t].u].codigos = @ \ {tx[t].codigo}]
           /\ tx' = [tx EXCEPT ![t].passo = "inserir", ![t].visto = Nada]
           /\ UNCHANGED <<sessao, token, link, resp>>
  <2>1. usuario' \in [Usuarios -> Contas] /\ DesafioSoComFator' /\ AdminsAtivos' = AdminsAtivos
    BY <1>1, <1>3, CodigoUsado
  <2>2. QED
    BY <1>1, <1>3, <2>1, VeInd DEF Quietos
<1>4. QED
  BY <1>2, <1>3 DEF Consumir, ConsumirSe

LEMMA LerVincularInd ==
    ASSUME SessoesInd, NEW t \in Chamadas, LerVincular(t)
    PROVE  SessoesInd'
<1>1. tx[t].passo = "ler" /\ tx[t].op = "vincular"
  BY DEF LerVincular, Em
<1>2. CASE Negar(t, "RECUSADO")
  BY <1>1, <1>2, Nega DEF Respostas
<1>3. CASE /\ tx' = [tx EXCEPT ![t].passo = "mudar", ![t].visto = usuario[tx[t].u],
                             ![t].codigo = IF usuario[tx[t].u].fator THEN @ ELSE Nada]
           /\ SoTx
  <2> DEFINE c == IF usuario[tx[t].u].fator THEN tx[t].codigo ELSE Nada
             n == [tx[t] EXCEPT !.passo = "mudar", !.visto = usuario[tx[t].u], !.codigo = c]
  <2>1. /\ tx[t] \in Andamentos /\ tx \in [Chamadas -> Andamentos]
        /\ usuario[tx[t].u] \in Contas
    BY <1>1, DoPedido
  <2>2. /\ n \in Andamentos /\ n.passo = "mudar" /\ n.op = tx[t].op /\ n.u = tx[t].u
        /\ n.alvo = tx[t].alvo /\ n.usr = tx[t].usr /\ n.ses = tx[t].ses /\ n.tok = tx[t].tok
    <3> DEFINE V == Contas \cup Ids \cup {Nada}
               C == (Codigos \X Ids) \cup {Nada}
    <3>1. Andamentos = [passo : Passos, op : Ops, u : Usuarios \cup {Nada}, alvo : Ids \cup {Nada},
                        codigo : C, visto : V, links : SUBSET Chamadas,
                        usr : SUBSET (Usuarios \cup {Empresa}), ses : SUBSET Ids, tok : SUBSET Ids]
      BY DEF Andamentos
    <3>2. usuario[tx[t].u] \in V /\ "mudar" \in Passos /\ Nada \in C
      BY <2>1 DEF Passos
    <3>3. c \in C
      BY <2>1, <3>1, <3>2
    <3> HIDE DEF V, C, c
    <3>4. QED
      BY <2>1, <3>1, <3>2, <3>3
  <2>3. tx' = [tx EXCEPT ![t] = n]
    BY <1>3, <2>1 DEF Andamentos
  <2>4. UNCHANGED <<usuario, sessao, token, link, resp>>
    BY <1>3 DEF SoTx, tabelas
  <2> HIDE DEF n
  <2>5. QED
    BY <1>1, <2>2, <2>3, <2>4, MesmaConta, Quieta DEF Quietos
<1>4. QED
  BY <1>2, <1>3 DEF LerVincular

LEMMA VincularInd ==
    ASSUME SessoesInd, NEW t \in Chamadas, Vincular(t)
    PROVE  SessoesInd'
<1>1. tx[t].passo = "mudar" /\ tx[t].op = "vincular"
  BY DEF Vincular, Em
<1>2. CASE Negar(t, "RECUSADO")
  BY <1>1, <1>2, Nega DEF Respostas
<1>3. CASE /\ usuario' = [usuario EXCEPT ![tx[t].u].google = TRUE,
                                         ![tx[t].u].codigos = @ \ {tx[t].codigo}]
           /\ Responder(t, "FEITO")
           /\ UNCHANGED <<sessao, token, link>>
  <2> DEFINE u == tx[t].u
             r == [usuario[u] EXCEPT !.google = TRUE, !.codigos = @ \ {tx[t].codigo}]
             C == Codigos \X Ids
  <2>1. /\ usuario[u] \in Contas /\ usuario \in [Usuarios -> Contas] /\ u \in Usuarios
        /\ usuario[u].desafio # Nada => usuario[u].fator
    BY <1>1, DoPedido
  <2>2. Contas = [ativo : BOOLEAN, admin : BOOLEAN, senha : Ids, google : BOOLEAN,
                  fator : BOOLEAN, segredo : Ids \cup {Nada}, desafio : Chamadas \cup {Nada},
                  codigos : SUBSET C]
    BY DEF Contas
  <2> HIDE DEF C
  <2>3. usuario[u].codigos \ {tx[t].codigo} \in SUBSET C
    BY <2>1, <2>2
  <2>4. /\ r \in Contas /\ r.ativo = usuario[u].ativo /\ r.admin = usuario[u].admin
        /\ r.desafio = usuario[u].desafio /\ r.fator = usuario[u].fator
    BY <2>1, <2>2, <2>3
  <2>5. usuario' = [usuario EXCEPT ![u] = r]
    BY <1>3, <2>1, <2>2
  <2> HIDE DEF r
  <2>6. usuario' \in [Usuarios -> Contas] /\ DesafioSoComFator' /\ AdminsAtivos' = AdminsAtivos
    BY <2>1, <2>4, <2>5, OutraConta
  <2>7. QED
    BY <1>1, <1>3, <2>6, Acaba DEF Respostas
<1>4. QED
  BY <1>2, <1>3 DEF Vincular

LEMMA ConfigurarInd ==
    ASSUME SessoesInd, NEW t \in Chamadas, Configurar(t)
    PROVE  SessoesInd'
<1>1. tx[t].passo = "ler" /\ tx[t].op = "configurar"
  BY DEF Configurar, Em
<1>2. CASE Negar(t, "RECUSADO")
  BY <1>1, <1>2, Nega DEF Respostas
<1>3. CASE /\ usuario' = [usuario EXCEPT ![tx[t].u].segredo = t]
           /\ Responder(t, "FEITO")
           /\ UNCHANGED <<sessao, token, link>>
  <2> DEFINE r == [usuario[tx[t].u] EXCEPT !.segredo = t]
  <2>1. /\ r \in Contas /\ r.ativo = usuario[tx[t].u].ativo /\ r.admin = usuario[tx[t].u].admin
        /\ r.desafio = usuario[tx[t].u].desafio /\ r.fator = usuario[tx[t].u].fator
        /\ usuario' = [usuario EXCEPT ![tx[t].u] = r]
    BY <1>1, <1>3, DoPedido DEF Contas, Ids
  <2> HIDE DEF r
  <2>2. usuario' \in [Usuarios -> Contas] /\ DesafioSoComFator' /\ AdminsAtivos' = AdminsAtivos
    BY <1>1, <2>1, DoPedido, OutraConta
  <2>3. QED
    BY <1>1, <1>3, <2>2, Acaba DEF Respostas
<1>4. QED
  BY <1>2, <1>3 DEF Configurar

LEMMA DesligarInd ==
    ASSUME SessoesInd, NEW t \in Chamadas, Desligar(t)
    PROVE  SessoesInd'
<1>1. tx[t].passo = "mudar" /\ tx[t].op = "desligar"
  BY DEF Desligar, Em
<1>2. CASE Negar(t, "RECUSADO")
  BY <1>1, <1>2, Nega DEF Respostas
<1>3. CASE /\ usuario' = [usuario EXCEPT ![tx[t].u] = [@ EXCEPT !.fator = FALSE, !.segredo = Nada,
                                                    !.codigos = {}, !.desafio = Nada]]
           /\ Responder(t, "FEITO")
           /\ UNCHANGED <<sessao, token, link>>
  <2> DEFINE r == [usuario[tx[t].u] EXCEPT !.fator = FALSE, !.segredo = Nada, !.codigos = {},
                                           !.desafio = Nada]
  <2>1. /\ r \in Contas /\ r.ativo = usuario[tx[t].u].ativo /\ r.admin = usuario[tx[t].u].admin
        /\ r.desafio = Nada
    BY <1>1, DoPedido DEF Contas
  <2>2. usuario' = [usuario EXCEPT ![tx[t].u] = r]
    BY <1>1, <1>3, DoPedido
  <2> HIDE DEF r
  <2>3. usuario' \in [Usuarios -> Contas] /\ DesafioSoComFator' /\ AdminsAtivos' = AdminsAtivos
    BY <1>1, <2>1, <2>2, DoPedido, OutraConta
  <2>4. QED
    BY <1>1, <1>3, <2>3, Acaba DEF Respostas
<1>4. QED
  BY <1>2, <1>3 DEF Desligar

\* The reads that precede a statement, and the refusals.
LEMMA LeiturasInd ==
    ASSUME SessoesInd, NEW t \in Chamadas,
           LerLigar(t) \/ LerSenha(t) \/ LerLink(t) \/ LogoutSair(t) \/ Abortar(t)
    PROVE  SessoesInd'
<1>1. CASE LerLigar(t)
  <2>1. tx[t].passo = "ler" /\ tx[t].op \in {"ligar", "desligar"}
    BY <1>1 DEF LerLigar, Em
  <2>2. CASE Negar(t, "RECUSADO")
    BY <2>1, <2>2, Nega DEF Respostas
  <2>3. CASE tx' = [tx EXCEPT ![t].passo = "mudar", ![t].visto = usuario[tx[t].u]] /\ SoTx
    BY <2>1, <2>3, DoPedido, MesmaConta, VeInd DEF Quietos, SoTx, tabelas
  <2>4. QED
    BY <1>1, <2>2, <2>3 DEF LerLigar
<1>2. CASE LerSenha(t)
  <2>1. tx[t].passo = "ler"
    BY <1>2 DEF LerSenha, Em
  <2>2. usuario[tx[t].u].senha \in Ids
    BY <2>1, DoPedido DEF Contas
  <2>3. QED
    BY <1>2, <2>1, <2>2, MesmaConta, VeInd DEF LerSenha, Quietos, SoTx, tabelas
<1>3. CASE LerLink(t)
  <2>1. tx[t].passo = "ler"
    BY <1>3 DEF LerLink, Em
  <2>2. CASE Negar(t, "RECUSADO")
    BY <2>1, <2>2, Nega DEF Respostas
  <2>3. CASE Ir(t, "travar") /\ SoTx
    BY <2>1, <2>3, IrInd DEF Quietos, Passos
  <2>4. QED
    BY <1>3, <2>2, <2>3 DEF LerLink
<1>4. CASE LogoutSair(t)
  BY <1>4, IrInd DEF LogoutSair, Em, Passos
<1>5. CASE Abortar(t)
  BY <1>5, Nega DEF Abortar, Respostas
<1>6. QED
  BY <1>1, <1>2, <1>3, <1>4, <1>5

-----------------------------------------------------------------------------
\* A request as it arrives.
LEMMA PedidoTipo ==
    ASSUME NEW o \in Ops, NEW u \in Usuarios, NEW a \in Ids \cup {Nada},
           NEW c \in (Codigos \X Ids) \cup {Nada}
    PROVE  LET n == Pedido(o, u, a, c) IN
           /\ n \in Andamentos /\ n.passo = "ler" /\ n.op = o /\ n.u = u /\ n.alvo = a
           /\ n.usr = {} /\ n.ses = {} /\ n.tok = {}
<1> DEFINE C == (Codigos \X Ids) \cup {Nada}
<1>1. Andamentos = [passo : Passos, op : Ops, u : Usuarios \cup {Nada}, alvo : Ids \cup {Nada},
                    codigo : C, visto : Contas \cup Ids \cup {Nada}, links : SUBSET Chamadas,
                    usr : SUBSET (Usuarios \cup {Empresa}), ses : SUBSET Ids, tok : SUBSET Ids]
  BY DEF Andamentos
<1>2. c \in C /\ Nada \in C /\ "sair" \in Ops /\ "fora" \in Passos /\ "ler" \in Passos
  BY DEF Ops, Passos
<1> HIDE DEF C
<1>3. Fora \in Andamentos /\ Fora.usr = {} /\ Fora.ses = {} /\ Fora.tok = {}
  BY <1>1, <1>2 DEF Fora
<1>4. QED
  BY <1>1, <1>2, <1>3 DEF Pedido

LEMMA PedidosTipo ==
    ASSUME SessoesInd, NEW n \in Pedidos
    PROVE  /\ n \in Andamentos /\ n.passo = "ler" /\ n.u \in Usuarios
           /\ n.usr = {} /\ n.ses = {} /\ n.tok = {}
           /\ n.op \in {"renovar", "sair", "ligar"} =>
                 n.alvo \in Ids /\ token[n.alvo].estado # "nenhum"
           /\ n.op = "redefinir" =>
                 /\ n.alvo \in Chamadas /\ link[n.alvo].estado # "nenhum"
                 /\ link[n.alvo].dono = n.u
<1> DEFINE C == (Codigos \X Ids) \cup {Nada}
<1>1. TypeOK /\ LinhasInd /\ \A t \in Chamadas : PedidoInd(t)
  BY DEF SessoesInd, ChamadaInd
<1>2. Nada \in C /\ \A u \in Usuarios : \A c \in usuario[u].codigos : c \in C
  BY <1>1 DEF TypeOK, Contas
<1>3. Simples \cup {"desligar", "vincular", "verificar", "renovar", "sair", "ligar", "redefinir"}
        \subseteq Ops
  BY DEF Simples, Ops
<1>4. \A u \in Usuarios : u \in Ids
  BY DEF Ids
<1>5. \A l \in Chamadas : l \in Ids
  BY DEF Ids
<1> HIDE DEF C
<1>6. CASE \E o \in Simples, u \in Usuarios : n = Pedido(o, u, Nada, Nada)
  <2>1. PICK o \in Simples, u \in Usuarios : n = Pedido(o, u, Nada, Nada)
    BY <1>6
  <2>2. o \notin {"renovar", "sair", "ligar", "redefinir"}
    BY DEF Simples
  <2>3. QED
    BY <1>3, <2>1, <2>2, PedidoTipo
<1>7. CASE \E d \in Chamadas : /\ resp[d] = "DESAFIO"
                               /\ \E c \in usuario[tx[d].u].codigos : n = Pedido("verificar", tx[d].u, d, c)
  <2>1. PICK d \in Chamadas : /\ resp[d] = "DESAFIO"
                              /\ \E c \in usuario[tx[d].u].codigos :
                                    n = Pedido("verificar", tx[d].u, d, c)
    BY <1>7
  <2>2. tx[d].u \in Usuarios
    BY <1>1, <2>1, Vazio DEF PedidoInd, Respostas
  <2>3. PICK c \in usuario[tx[d].u].codigos : n = Pedido("verificar", tx[d].u, d, c)
    BY <2>1
  <2>4. c \in (Codigos \X Ids) \cup {Nada}
    BY <1>2, <2>2 DEF C
  <2>5. QED
    BY <1>3, <1>5, <2>2, <2>3, <2>4, PedidoTipo
<1>8. CASE \E u \in Usuarios, o \in {"desligar", "vincular"} : \E c \in usuario[u].codigos :
               n = Pedido(o, u, Nada, c)
  <2>1. PICK u \in Usuarios, o \in {"desligar", "vincular"} : \E c \in usuario[u].codigos :
               n = Pedido(o, u, Nada, c)
    BY <1>8
  <2>2. PICK c \in usuario[u].codigos : n = Pedido(o, u, Nada, c)
    BY <2>1
  <2>3. c \in (Codigos \X Ids) \cup {Nada}
    BY <1>2, <2>1 DEF C
  <2>4. o \in Ops /\ o \notin {"renovar", "sair", "ligar", "redefinir"}
    BY <1>3
  <2>5. QED
    BY <2>2, <2>3, <2>4, PedidoTipo
<1>9. CASE \E o \in {"renovar", "sair", "ligar"}, k \in Ids :
               /\ token[k].estado # "nenhum"
               /\ n = Pedido(o, sessao[token[k].sessao].dono, k, Nada)
  <2>1. PICK o \in {"renovar", "sair", "ligar"}, k \in Ids :
               /\ token[k].estado # "nenhum"
               /\ n = Pedido(o, sessao[token[k].sessao].dono, k, Nada)
    BY <1>9
  <2>2. sessao[token[k].sessao].dono \in Usuarios
    BY <1>1, <2>1 DEF LinhasInd, TypeOK, Registros
  <2>3. QED
    BY <1>3, <2>1, <2>2, PedidoTipo
<1>10. CASE \E l \in Chamadas : /\ link[l].estado # "nenhum"
                                /\ n = Pedido("redefinir", link[l].dono, l, Nada)
  <2>1. PICK l \in Chamadas : /\ link[l].estado # "nenhum"
                              /\ n = Pedido("redefinir", link[l].dono, l, Nada)
    BY <1>10
  <2>2. link[l].dono \in Usuarios
    BY <1>1, <2>1 DEF LinhasInd
  <2>3. QED
    BY <1>3, <1>5, <2>1, <2>2, PedidoTipo
<1>11. \/ n \in {Pedido(o, u, Nada, Nada) : o \in Simples, u \in Usuarios}
       \/ n \in UNION {{Pedido("verificar", tx[d].u, d, c) : c \in usuario[tx[d].u].codigos} :
                         d \in {t \in Chamadas : resp[t] = "DESAFIO"}}
       \/ n \in UNION {{Pedido(o, u, Nada, c) :
                            o \in {"desligar", "vincular"}, c \in usuario[u].codigos} :
                         u \in Usuarios}
       \/ n \in {Pedido(o, sessao[token[k].sessao].dono, k, Nada) :
                    o \in {"renovar", "sair", "ligar"}, k \in {i \in Ids : token[i].estado # "nenhum"}}
       \/ n \in {Pedido("redefinir", link[l].dono, l, Nada) :
                    l \in {c \in Chamadas : link[c].estado # "nenhum"}}
  BY DEF Pedidos
<1>12. QED
  BY <1>6, <1>7, <1>8, <1>9, <1>10, <1>11

LEMMA ChegarInd ==
    ASSUME SessoesInd, NEW t \in Chamadas, Chegar(t)
    PROVE  SessoesInd'
<1>1. PICK n \in Pedidos : tx' = [tx EXCEPT ![t] = n]
  BY DEF Chegar
<1>2. tx[t].passo = "fora" /\ UNCHANGED <<usuario, sessao, token, link, resp>>
  BY DEF Chegar, SoTx, tabelas
<1>3. PedidoInd(t) /\ tx \in [Chamadas -> Andamentos]
  BY DEF SessoesInd, ChamadaInd, TypeOK
<1>4. tx'[t] = n
  BY <1>1, <1>3
<1>5. PedidoInd(t)'
  BY <1>2, <1>3, <1>4, PedidosTipo DEF PedidoInd
<1>6. AdminInd(t)' /\ RotacaoInd(t)' /\ VarreduraInd(t)' /\ SolicitarInd(t)'
  BY <1>4, PedidosTipo DEF AdminInd, RotacaoInd, VarreduraInd, SolicitarInd, Varrendo
<1>7. RedefinirInd(t)'
  BY <1>2, <1>3, <1>4, PedidosTipo, Vazio DEF RedefinirInd, PedidoInd, Varrendo
<1>8. ChamadaInd(t)'
  BY <1>5, <1>6, <1>7 DEF ChamadaInd
<1>9. SessoesLivres(t, n.ses) /\ n.usr = {} /\ n \in Andamentos
  BY PedidosTipo DEF SessoesLivres
<1>10. QED
  BY <1>1, <1>2, <1>8, <1>9, MesmaConta, Anda
\* A call goes on to a step that its own rows allow.
LEMMA Segue ==
    ASSUME SessoesInd, NEW t \in Chamadas, tx[t].passo \notin {"fora", "fim"},
           NEW n \in Andamentos, tx' = [tx EXCEPT ![t] = n], SoTx,
           n.op = tx[t].op, n.u = tx[t].u, n.alvo = tx[t].alvo,
           n.passo \notin {"fora", "ler", "fim"},
           \A r \in n.usr : r \in tx[t].usr \/ Livre(t, r),
           n.ses = tx[t].ses \/ SessoesLivres(t, n.ses),
           \A s \in n.ses : sessao[s].estado # "nenhuma",
           \A k \in n.tok : token[k].estado # "nenhum",
           AdminInd(t)', RotacaoInd(t)', VarreduraInd(t)', SolicitarInd(t)',
           n.op = "redefinir" =>
              /\ n.passo \in Varrendo => n.u \in n.usr /\ link[n.alvo].estado = "valido"
              /\ n.passo \in {"tokens", "gravar"} => DoUsuario(n.u) \subseteq n.ses
    PROVE  SessoesInd'
<1>1. tx'[t] = n /\ UNCHANGED <<usuario, sessao, token, link, resp>>
  BY DEF SessoesInd, TypeOK, SoTx, tabelas
<1>2. PedidoInd(t)
  BY DEF SessoesInd, ChamadaInd
<1>3. PedidoInd(t)'
  BY <1>1, <1>2 DEF PedidoInd
<1>4. resp'[t] # "FEITO"
  BY <1>1, <1>2, Vazio DEF PedidoInd
<1>5. DoUsuario(n.u)' = DoUsuario(n.u)
  BY <1>1 DEF DoUsuario
<1>6. RedefinirInd(t)'
  BY <1>1, <1>4, <1>5 DEF RedefinirInd, DoUsuario
<1>7. ChamadaInd(t)'
  BY <1>3, <1>6 DEF ChamadaInd
<1>8. QED
  BY <1>1, <1>7, MesmaConta, Anda

\* What a request has of the token that it presents.
LEMMA DoToken ==
    ASSUME SessoesInd, NEW t \in Chamadas, tx[t].passo # "fora",
           tx[t].op \in {"renovar", "sair", "ligar"}
    PROVE  /\ tx[t].alvo \in Ids /\ token[tx[t].alvo].estado # "nenhum"
           /\ token[tx[t].alvo].sessao \in Ids
           /\ sessao[token[tx[t].alvo].sessao].estado # "nenhuma"
  BY DEF SessoesInd, ChamadaInd, PedidoInd, LinhasInd

LEMMA DecidirInd ==
    ASSUME SessoesInd, NEW t \in Chamadas, Decidir(t)
    PROVE  SessoesInd'
<1> DEFINE k == tx[t].alvo
           s == token[k].sessao
<1>1. tx[t].passo = "ler" /\ tx[t].op = "renovar" /\ SessoesLivres(t, {s})
  BY DEF Decidir, DecidirSe, Em
<1>2. /\ k \in Ids /\ s \in Ids /\ sessao[s].estado # "nenhuma"
      /\ tx[t] \in Andamentos /\ tx \in [Chamadas -> Andamentos] /\ tx[t].tok \in SUBSET Ids
  BY <1>1, DoToken, DoPedido DEF Andamentos
<1>3. \A l \in tx[t].tok : token[l].estado # "nenhum"
  BY DEF SessoesInd, ChamadaInd, PedidoInd
<1>4. ASSUME NEW p \in {"reivindicar", "sessoes"}, p = "reivindicar" => sessao[s].estado = "viva",
             tx' = [tx EXCEPT ![t].passo = p, ![t].ses = {s}], SoTx
      PROVE  SessoesInd'
  <2> DEFINE n == [tx[t] EXCEPT !.passo = p, !.ses = {s}]
  <2>1. /\ n \in Andamentos /\ n.passo = p /\ n.op = "renovar" /\ n.u = tx[t].u
        /\ n.alvo = k /\ n.usr = tx[t].usr /\ n.ses = {s} /\ n.tok = tx[t].tok
    BY <1>1, <1>2 DEF Andamentos, Passos
  <2>2. tx' = [tx EXCEPT ![t] = n]
    BY <1>2, <1>4 DEF Andamentos
  <2> HIDE DEF n
  <2>3. tx'[t] = n /\ UNCHANGED <<usuario, sessao, token, link, resp>>
    BY <1>2, <1>4, <2>2 DEF SoTx, tabelas
  <2>4. AdminInd(t)' /\ RotacaoInd(t)' /\ VarreduraInd(t)' /\ SolicitarInd(t)'
    BY <1>4, <2>1, <2>3 DEF AdminInd, RotacaoInd, VarreduraInd, SolicitarInd, Atualizacoes
  <2>5. /\ n.passo \notin {"fora", "ler", "fim"} /\ n.op # "redefinir"
        /\ \A r \in n.usr : r \in tx[t].usr \/ Livre(t, r)
        /\ n.ses = tx[t].ses \/ SessoesLivres(t, n.ses)
        /\ \A i \in n.ses : sessao[i].estado # "nenhuma"
        /\ \A i \in n.tok : token[i].estado # "nenhum"
    BY <1>1, <1>2, <1>3, <2>1
  <2>6. tx[t].passo \notin {"fora", "fim"} /\ n.op = tx[t].op /\ n.alvo = tx[t].alvo
    BY <1>1, <2>1
  <2>7. QED
    BY <1>4, <2>1, <2>2, <2>4, <2>5, <2>6, Segue
<1>5. CASE Negar(t, "RECUSADO") \/ Negar(t, "FEITO")
  BY <1>1, <1>5, Nega DEF Respostas
<1>6. QED
  BY <1>4, <1>5 DEF Decidir, DecidirSe, Expirou

LEMMA ReivindicarInd ==
    ASSUME SessoesInd, NEW t \in Chamadas, Reivindicar(t)
    PROVE  SessoesInd'
<1> DEFINE k == tx[t].alvo
           n == [tx[t] EXCEPT !.passo = "emitir", !.tok = {k}]
<1>1. tx[t].passo = "reivindicar" /\ tx[t].op = "renovar"
  BY DEF Reivindicar, Em
<1>2. CASE Negar(t, "RECUSADO")
  BY <1>1, <1>2, Nega DEF Respostas
<1>3. CASE /\ token[k].estado = "vivo"
           /\ tx' = [tx EXCEPT ![t].passo = "emitir", ![t].tok = {k}]
           /\ SoTx
  <2>1. k \in Ids /\ tx[t] \in Andamentos /\ tx \in [Chamadas -> Andamentos]
    BY <1>1, DoToken, DoPedido
  <2>2. RotacaoInd(t) /\ \A s \in tx[t].ses : sessao[s].estado # "nenhuma"
    BY DEF SessoesInd, ChamadaInd, PedidoInd
  <2>3. /\ n \in Andamentos /\ n.passo = "emitir" /\ n.op = "renovar" /\ n.u = tx[t].u
        /\ n.alvo = k /\ n.usr = tx[t].usr /\ n.ses = tx[t].ses /\ n.tok = {k}
    BY <1>1, <2>1 DEF Andamentos, Passos
  <2>4. tx' = [tx EXCEPT ![t] = n]
    BY <1>3, <2>1 DEF Andamentos
  <2> HIDE DEF n
  <2>5. tx'[t] = n /\ UNCHANGED <<usuario, sessao, token, link, resp>>
    BY <1>3, <2>1, <2>4 DEF SoTx, tabelas
  <2>6. AdminInd(t)' /\ RotacaoInd(t)' /\ VarreduraInd(t)' /\ SolicitarInd(t)'
    BY <1>1, <1>3, <2>2, <2>3, <2>5 DEF AdminInd, RotacaoInd, VarreduraInd, SolicitarInd,
                                        Atualizacoes
  <2>7. QED
    BY <1>1, <1>3, <2>2, <2>3, <2>4, <2>6, Segue
<1>4. QED
  BY <1>2, <1>3 DEF Reivindicar

-----------------------------------------------------------------------------
\* Which sessions a sweep reaches, and which of them it updates.
LEMMA DoAlcance ==
    ASSUME SessoesInd, NEW t \in Chamadas, tx[t].passo # "fora", tx[t].op \in Varredores
    PROVE  /\ Alcance(t) \in SUBSET Ids /\ Visadas(t) \subseteq Alcance(t)
           /\ \A s \in Visadas(t) : sessao[s].estado # "nenhuma"
           /\ tx[t].op = "redefinir" => Visadas(t) = DoUsuario(tx[t].u)
<1>1. DoUsuario(tx[t].u) \in SUBSET Ids
  BY DEF DoUsuario
<1>2. \A s \in DoUsuario(tx[t].u) : sessao[s].estado # "nenhuma"
  <2>1. tx[t].u \in Usuarios
    BY DoPedido
  <2>2. \A s \in Ids : sessao[s].estado = "nenhuma" => sessao[s].dono = Nada
    BY DEF SessoesInd, LinhasInd
  <2>3. QED
    BY <2>1, <2>2, Vazio DEF DoUsuario, Ids
<1>3. CASE tx[t].op = "sair"
  <2>1. Alcance(t) = {token[tx[t].alvo].sessao} /\ Visadas(t) = Alcance(t)
    BY <1>3 DEF Alcance, Visadas
  <2>2. QED
    BY <1>3, <2>1, DoToken
<1>4. CASE tx[t].op = "ligar"
  <2>1. Alcance(t) = DoUsuario(tx[t].u) \ {token[tx[t].alvo].sessao}
    BY <1>4 DEF Alcance
  <2>2. Visadas(t) = {s \in Alcance(t) : sessao[s].estado = "viva"}
    BY <1>4 DEF Visadas
  <2>3. QED
    BY <1>1, <1>2, <1>4, <2>1, <2>2
<1>5. CASE tx[t].op \notin {"sair", "ligar"}
  <2>1. Alcance(t) = DoUsuario(tx[t].u)
    BY <1>5 DEF Alcance
  <2>2. Visadas(t) \subseteq Alcance(t) /\ (tx[t].op = "redefinir" => Visadas(t) = Alcance(t))
    BY DEF Visadas
  <2>3. QED
    BY <1>1, <1>2, <1>5, <2>1, <2>2
<1>6. QED
  BY <1>3, <1>4, <1>5

LEMMA MesmoAlcance ==
    ASSUME NEW t \in Chamadas, UNCHANGED <<sessao, token>>,
           tx'[t].op = tx[t].op, tx'[t].u = tx[t].u, tx'[t].alvo = tx[t].alvo
    PROVE  Alcance(t)' = Alcance(t)
  BY DEF Alcance, DoUsuario

LEMMA VarrerSessoesInd ==
    ASSUME SessoesInd, NEW t \in Chamadas, VarrerSessoes(t)
    PROVE  SessoesInd'
<1> DEFINE V == Visadas(t)
           n == [tx[t] EXCEPT !.passo = "tokens", !.ses = V]
<1>1. /\ tx[t].passo = "sessoes" /\ tx[t].op \in Varredores /\ SessoesLivres(t, V)
      /\ tx' = [tx EXCEPT ![t].passo = "tokens", ![t].ses = V] /\ SoTx
  BY DEF VarrerSessoes, Em
<1>2. /\ V \in SUBSET Ids /\ \A s \in V : sessao[s].estado # "nenhuma"
      /\ V \subseteq Alcance(t) /\ (tx[t].op = "redefinir" => V = DoUsuario(tx[t].u))
  BY <1>1, DoAlcance
<1>3. tx[t] \in Andamentos /\ tx \in [Chamadas -> Andamentos]
  BY <1>1, DoPedido
<1>4. AdminInd(t) /\ RedefinirInd(t) /\ \A k \in tx[t].tok : token[k].estado # "nenhum"
  BY DEF SessoesInd, ChamadaInd, PedidoInd
<1> HIDE DEF V
<1>5. /\ n \in Andamentos /\ n.passo = "tokens" /\ n.op = tx[t].op /\ n.u = tx[t].u
      /\ n.alvo = tx[t].alvo /\ n.usr = tx[t].usr /\ n.ses = V /\ n.tok = tx[t].tok
  BY <1>2, <1>3 DEF Andamentos, Passos
<1>6. tx' = [tx EXCEPT ![t] = n]
  BY <1>1, <1>3 DEF Andamentos
<1> HIDE DEF n
<1>7. tx'[t] = n /\ UNCHANGED <<usuario, sessao, token, link, resp>>
  BY <1>1, <1>3, <1>6 DEF SoTx, tabelas
<1>8. AdminInd(t)'
  BY <1>1, <1>4, <1>5, <1>7 DEF AdminInd, AdminsAtivos, Varrendo
<1>9. VarreduraInd(t)'
  <2>1. Alcance(t)' = Alcance(t)
    BY <1>5, <1>7, MesmoAlcance
  <2>2. QED
    BY <1>2, <1>5, <1>7, <2>1 DEF VarreduraInd
<1>10. RotacaoInd(t)' /\ SolicitarInd(t)'
  BY <1>5, <1>7 DEF RotacaoInd, SolicitarInd
<1>11. n.op = "redefinir" => n.u \in n.usr /\ link[n.alvo].estado = "valido" /\ DoUsuario(n.u) \subseteq n.ses
  BY <1>1, <1>2, <1>4, <1>5 DEF RedefinirInd, Varrendo
<1>12. /\ tx[t].passo \notin {"fora", "fim"} /\ n.passo \notin {"fora", "ler", "fim"}
       /\ \A r \in n.usr : r \in tx[t].usr \/ Livre(t, r)
       /\ n.ses = tx[t].ses \/ SessoesLivres(t, n.ses)
       /\ \A s \in n.ses : sessao[s].estado # "nenhuma"
       /\ \A k \in n.tok : token[k].estado # "nenhum"
  BY <1>1, <1>2, <1>4, <1>5
<1>13. QED
  BY <1>1, <1>5, <1>6, <1>8, <1>9, <1>10, <1>11, <1>12, Segue

LEMMA VarrerTokensInd ==
    ASSUME SessoesInd, NEW t \in Chamadas, VarrerTokens(t)
    PROVE  SessoesInd'
<1> DEFINE K == TokensDe(Alcance(t))
           n == [tx[t] EXCEPT !.passo = "gravar", !.tok = K]
<1>1. /\ tx[t].passo = "tokens" /\ tx[t].op \in Varredores
      /\ tx' = [tx EXCEPT ![t].passo = "gravar", ![t].tok = K] /\ SoTx
  BY DEF VarrerTokens, Em
<1>2. K \in SUBSET Ids /\ \A k \in K : token[k].estado # "nenhum"
  BY DEF TokensDe
<1>3. tx[t] \in Andamentos /\ tx \in [Chamadas -> Andamentos]
  BY <1>1, DoPedido
<1>4. /\ AdminInd(t) /\ RedefinirInd(t) /\ tx[t].ses \subseteq Alcance(t)
      /\ \A s \in tx[t].ses : sessao[s].estado # "nenhuma"
  BY <1>1 DEF SessoesInd, ChamadaInd, PedidoInd, VarreduraInd
<1>5. \A k \in Ids : token[k].estado = "vivo" /\ token[k].sessao \in tx[t].ses => k \in K
  BY <1>4 DEF TokensDe
<1> HIDE DEF K
<1>6. /\ n \in Andamentos /\ n.passo = "gravar" /\ n.op = tx[t].op /\ n.u = tx[t].u
      /\ n.alvo = tx[t].alvo /\ n.usr = tx[t].usr /\ n.ses = tx[t].ses /\ n.tok = K
  BY <1>2, <1>3 DEF Andamentos, Passos
<1>7. tx' = [tx EXCEPT ![t] = n]
  BY <1>1, <1>3 DEF Andamentos
<1> HIDE DEF n
<1>8. tx'[t] = n /\ UNCHANGED <<usuario, sessao, token, link, resp>>
  BY <1>1, <1>3, <1>7 DEF SoTx, tabelas
<1>9. AdminInd(t)'
  BY <1>1, <1>4, <1>6, <1>8 DEF AdminInd, AdminsAtivos, Varrendo
<1>10. VarreduraInd(t)' /\ RotacaoInd(t)' /\ SolicitarInd(t)'
  BY <1>5, <1>6, <1>8 DEF VarreduraInd, RotacaoInd, SolicitarInd
<1>11. n.op = "redefinir" => n.u \in n.usr /\ link[n.alvo].estado = "valido" /\ DoUsuario(n.u) \subseteq n.ses
  BY <1>1, <1>4, <1>6 DEF RedefinirInd, Varrendo
<1>12. /\ tx[t].passo \notin {"fora", "fim"} /\ n.passo \notin {"fora", "ler", "fim"}
       /\ \A r \in n.usr : r \in tx[t].usr \/ Livre(t, r)
       /\ n.ses = tx[t].ses \/ SessoesLivres(t, n.ses)
       /\ \A s \in n.ses : sessao[s].estado # "nenhuma"
       /\ \A k \in n.tok : token[k].estado # "nenhum"
  BY <1>1, <1>2, <1>4, <1>6
<1>13. QED
  BY <1>1, <1>6, <1>7, <1>9, <1>10, <1>11, <1>12, Segue

-----------------------------------------------------------------------------
\* The user's row is taken, and the sessions come next.
LEMMA TravaInd ==
    ASSUME SessoesInd, NEW t \in Chamadas, tx[t].passo \notin {"fora", "fim"},
           tx[t].op \in {"ligar", "trocar", "redefinir"}, Livre(t, tx[t].u),
           tx[t].op = "redefinir" => link[tx[t].alvo].estado = "valido",
           tx' = [tx EXCEPT ![t].passo = "sessoes", ![t].usr = {tx[t].u}], SoTx
    PROVE  SessoesInd'
<1> DEFINE n == [tx[t] EXCEPT !.passo = "sessoes", !.usr = {tx[t].u}]
<1>1. tx[t] \in Andamentos /\ tx \in [Chamadas -> Andamentos] /\ tx[t].u \in Usuarios
  BY DoPedido
<1>2. /\ \A s \in tx[t].ses : sessao[s].estado # "nenhuma"
      /\ \A k \in tx[t].tok : token[k].estado # "nenhum"
  BY DEF SessoesInd, ChamadaInd, PedidoInd
<1>3. /\ n \in Andamentos /\ n.passo = "sessoes" /\ n.op = tx[t].op /\ n.u = tx[t].u
      /\ n.alvo = tx[t].alvo /\ n.usr = {tx[t].u} /\ n.ses = tx[t].ses /\ n.tok = tx[t].tok
  BY <1>1 DEF Andamentos, Passos
<1>4. tx' = [tx EXCEPT ![t] = n]
  BY <1>1 DEF Andamentos
<1> HIDE DEF n
<1>5. tx'[t] = n /\ UNCHANGED <<usuario, sessao, token, link, resp>>
  BY <1>1, <1>4 DEF SoTx, tabelas
<1>6. AdminInd(t)' /\ RotacaoInd(t)' /\ VarreduraInd(t)' /\ SolicitarInd(t)'
  BY <1>3, <1>5 DEF AdminInd, RotacaoInd, VarreduraInd, SolicitarInd, Atualizacoes
<1>7. /\ \A r \in n.usr : r \in tx[t].usr \/ Livre(t, r)
      /\ n.op = "redefinir" => n.u \in n.usr /\ link[n.alvo].estado = "valido"
  BY <1>3
<1>8. QED
  BY <1>2, <1>3, <1>4, <1>6, <1>7, Segue

LEMMA TravasInd ==
    ASSUME SessoesInd, NEW t \in Chamadas, Ligar(t) \/ TrocarSenha(t) \/ Redefinir(t)
    PROVE  SessoesInd'
<1>1. /\ tx[t].passo \notin {"fora", "fim"} /\ tx[t].op \in {"ligar", "trocar", "redefinir"}
      /\ Livre(t, tx[t].u)
  BY DEF Ligar, TrocarSenha, Redefinir, TravarRedefinir, Em
<1>2. CASE Negar(t, "RECUSADO")
  BY <1>1, <1>2, Nega DEF Respostas
<1>3. CASE /\ tx' = [tx EXCEPT ![t].passo = "sessoes", ![t].usr = {tx[t].u}] /\ SoTx
           /\ tx[t].op = "redefinir" => link[tx[t].alvo].estado = "valido"
  BY <1>1, <1>3, TravaInd
<1>4. QED
  BY <1>2, <1>3 DEF Ligar, TrocarSenha, Redefinir, TravarRedefinir, Em

\* With the company locked, the last administrator is not taken away.
LEMMA OutroAdmin ==
    ASSUME SessoesInd, NEW t \in Chamadas, ~UltimoAdmin(t), tx[t].op \in {"desativar", "rebaixar"}
    PROVE  \E a \in AdminsAtivos : a # tx[t].u
<1>1. AdminsAtivos # {} /\ AdminsAtivos \subseteq Usuarios
  BY DEF SessoesInd, LinhasInd, SempreHaAdmin, AdminsAtivos
<1>2. SUFFICES ASSUME AdminsAtivos = {tx[t].u} PROVE FALSE
  BY <1>1
<1>3. Cardinality(AdminsAtivos) = 1
  BY <1>2, FS_Singleton
<1>4. QED
  BY <1>2, <1>3 DEF UltimoAdmin

LEMMA AtualizarInd ==
    ASSUME SessoesInd, NEW t \in Chamadas, Atualizar(t)
    PROVE  SessoesInd'
<1> DEFINE L == {Empresa, tx[t].u}
<1>1. tx[t].passo = "ler" /\ tx[t].op \in Atualizacoes /\ \A r \in L : Livre(t, r)
  BY DEF Atualizar, AtualizarCom, Em
<1>2. CASE Negar(t, "RECUSADO")
  BY <1>1, <1>2, Nega DEF Respostas
<1>3. ASSUME NEW p \in {"sessoes", "gravar"}, ~UltimoAdmin(t),
             tx' = [tx EXCEPT ![t].passo = p, ![t].usr = L], SoTx
      PROVE  SessoesInd'
  <2> DEFINE n == [tx[t] EXCEPT !.passo = p, !.usr = L]
  <2>1. /\ tx[t] \in Andamentos /\ tx \in [Chamadas -> Andamentos]
        /\ L \in SUBSET (Usuarios \cup {Empresa})
    BY <1>1, DoPedido
  <2>2. tx[t].ses = {} /\ \A k \in tx[t].tok : token[k].estado # "nenhum"
    BY <1>1 DEF SessoesInd, ChamadaInd, PedidoInd
  <2>3. tx[t].op \in {"desativar", "rebaixar"} => \E a \in AdminsAtivos : a # tx[t].u
    BY <1>3, OutroAdmin
  <2>4. Empresa \in L
    OBVIOUS
  <2> HIDE DEF L
  <2>5. /\ n \in Andamentos /\ n.passo = p /\ n.op = tx[t].op /\ n.u = tx[t].u
        /\ n.alvo = tx[t].alvo /\ n.usr = L /\ n.ses = {} /\ n.tok = tx[t].tok
    BY <2>1, <2>2 DEF Andamentos, Passos
  <2>6. tx' = [tx EXCEPT ![t] = n]
    BY <1>3, <2>1 DEF Andamentos
  <2> HIDE DEF n
  <2>7. tx'[t] = n /\ UNCHANGED <<usuario, sessao, token, link, resp>>
    BY <1>3, <2>1, <2>6 DEF SoTx, tabelas
  <2>8. AdminInd(t)'
    BY <2>3, <2>4, <2>5, <2>7 DEF AdminInd, AdminsAtivos
  <2>9. RotacaoInd(t)' /\ VarreduraInd(t)' /\ SolicitarInd(t)'
    BY <2>5, <2>7 DEF RotacaoInd, VarreduraInd, SolicitarInd
  <2>10. /\ n.op # "redefinir" /\ n.passo \notin {"fora", "ler", "fim"}
         /\ \A r \in n.usr : r \in tx[t].usr \/ Livre(t, r)
         /\ n.ses = tx[t].ses
         /\ \A s \in n.ses : sessao[s].estado # "nenhuma"
    BY <1>1, <2>2, <2>5 DEF Atualizacoes
  <2>11. QED
    BY <1>1, <2>2, <2>5, <2>6, <2>8, <2>9, <2>10, <1>3, Segue
<1>4. QED
  BY <1>2, <1>3 DEF Atualizar, AtualizarCom

LEMMA SolicitarPassoInd ==
    ASSUME SessoesInd, NEW t \in Chamadas, Solicitar(t)
    PROVE  SessoesInd'
<1>1. tx[t].passo = "ler" /\ tx[t].op = "solicitar" /\ Livre(t, tx[t].u)
  BY DEF Solicitar, SolicitarCom, Em
<1>2. CASE Negar(t, "RECUSADO")
  BY <1>1, <1>2, Nega DEF Respostas
<1>3. CASE tx' = [tx EXCEPT ![t].passo = "criar", ![t].usr = {tx[t].u},
                            ![t].links = LinksDe(tx[t].u)] /\ SoTx
  <2> DEFINE W == LinksDe(tx[t].u)
             n == [tx[t] EXCEPT !.passo = "criar", !.usr = {tx[t].u}, !.links = W]
  <2>1. tx[t] \in Andamentos /\ tx \in [Chamadas -> Andamentos] /\ tx[t].u \in Usuarios
    BY <1>1, DoPedido
  <2>2. W \in SUBSET Chamadas
    BY DEF LinksDe
  <2>3. tx[t].ses = {} /\ \A k \in tx[t].tok : token[k].estado # "nenhum"
    BY <1>1 DEF SessoesInd, ChamadaInd, PedidoInd
  <2> HIDE DEF W
  <2>4. /\ n \in Andamentos /\ n.passo = "criar" /\ n.op = "solicitar" /\ n.u = tx[t].u
        /\ n.alvo = tx[t].alvo /\ n.usr = {tx[t].u} /\ n.links = W /\ n.ses = {}
        /\ n.tok = tx[t].tok
    BY <1>1, <2>1, <2>2, <2>3 DEF Andamentos, Passos
  <2>5. tx' = [tx EXCEPT ![t] = n]
    BY <1>3, <2>1 DEF Andamentos, W
  <2> HIDE DEF n
  <2>6. tx'[t] = n /\ UNCHANGED <<usuario, sessao, token, link, resp>>
    BY <1>3, <2>1, <2>5 DEF SoTx, tabelas
  <2>7. AdminInd(t)' /\ RotacaoInd(t)' /\ VarreduraInd(t)'
    BY <2>4, <2>6 DEF AdminInd, RotacaoInd, VarreduraInd, Atualizacoes
  <2>8. SolicitarInd(t)'
    BY <2>4, <2>6 DEF SolicitarInd, LinksDe, W
  <2>9. /\ n.passo \notin {"fora", "ler", "fim"} /\ n.op # "redefinir"
        /\ \A r \in n.usr : r \in tx[t].usr \/ Livre(t, r)
        /\ n.ses = tx[t].ses
        /\ \A s \in n.ses : sessao[s].estado # "nenhuma"
    BY <1>1, <2>3, <2>4
  <2>10. QED
    BY <1>1, <1>3, <2>3, <2>4, <2>5, <2>7, <2>8, <2>9, Segue
<1>4. QED
  BY <1>2, <1>3 DEF Solicitar, SolicitarCom

-----------------------------------------------------------------------------
\* Rows stay, with their owner; only t has new ones.
Cresce(t) ==
    /\ \A s \in Ids : sessao[s].estado # "nenhuma" =>
          sessao'[s].estado # "nenhuma" /\ sessao'[s].dono = sessao[s].dono
    /\ \A s \in Ids \ {t} : sessao[s].estado = "nenhuma" => sessao'[s] = sessao[s]
    /\ \A k \in Ids : token[k].estado # "nenhum" =>
          token'[k].estado # "nenhum" /\ token'[k].sessao = token[k].sessao
    /\ \A k \in Ids \ {t} : token[k].estado = "nenhum" => token'[k] = token[k]
    /\ \A l \in Chamadas : link[l].estado # "nenhum" =>
          link'[l].estado # "nenhum" /\ link'[l].dono = link[l].dono
    /\ \A l \in Chamadas \ {t} : link[l].estado = "nenhum" => link'[l] = link[l]

\* What the others have asked for is still there.
LEMMA PedidoFica ==
    ASSUME SessoesInd, NEW t \in Chamadas, Cresce(t), NEW o \in Chamadas \ {t},
           tx'[o] = tx[o], resp'[o] = resp[o]
    PROVE  PedidoInd(o)'
<1>1. PedidoInd(o) /\ tx[o] \in Andamentos
  BY DEF SessoesInd, ChamadaInd, TypeOK
<1>2. tx[o].ses \subseteq Ids /\ tx[o].tok \subseteq Ids
  BY <1>1 DEF Andamentos
<1>3. o \in Ids \ {t}
  BY DEF Ids
<1>4. QED
  BY <1>1, <1>2, <1>3 DEF PedidoInd, Cresce

\* A call that ends; a reset has used its link.
LEMMA Fim ==
    ASSUME SessoesInd, NEW t \in Chamadas, Cresce(t), NEW x \in Respostas, Responder(t, x),
           tx[t].passo # "fora",
           tx[t].op = "redefinir" /\ x = "FEITO" => link'[tx[t].alvo].estado = "usado"
    PROVE  ChamadaInd(t)'
<1>1. TypeOK /\ PedidoInd(t)
  BY DEF SessoesInd, ChamadaInd
<1>2. PedidoInd(t)'
  BY <1>1, Resposta DEF PedidoInd, Cresce
<1>3. AdminInd(t)' /\ RotacaoInd(t)' /\ VarreduraInd(t)' /\ RedefinirInd(t)' /\ SolicitarInd(t)'
  BY <1>1, Resposta DEF AdminInd, RotacaoInd, VarreduraInd, RedefinirInd, SolicitarInd, Varrendo
<1>4. QED
  BY <1>2, <1>3 DEF ChamadaInd

\* A call that ends lets its rows go, so that the others still hold none in common.
LEMMA FimPar ==
    ASSUME SessoesInd, NEW t \in Chamadas, NEW x \in Respostas, Responder(t, x),
           tx[t].op = "redefinir" /\ x = "FEITO" => link[tx[t].alvo].estado = "valido"
    PROVE  \A o \in Chamadas : \A m \in Chamadas \ {o} : ParInd(o, m)'
<1>1. TypeOK /\ \A o \in Chamadas : RedefinirInd(o)
  BY DEF SessoesInd, ChamadaInd
<1>2. ASSUME NEW o \in Chamadas, NEW m \in Chamadas \ {o} PROVE ParInd(o, m)'
  <2>1. ParInd(o, m)
    BY DEF SessoesInd
  <2>2. CASE o = t
    <3>1. tx'[m] = tx[m] /\ resp'[m] = resp[m]
      BY <1>1, <2>2, Resposta
    <3>2. QED
      BY <1>1, <2>2, <3>1, Resposta DEF ParInd, RedefinirInd
  <2>3. CASE m = t
    <3>1. tx'[o] = tx[o] /\ resp'[o] = resp[o]
      BY <1>1, <2>3, Resposta
    <3>2. QED
      BY <1>1, <2>3, <3>1, Resposta DEF ParInd, RedefinirInd
  <2>4. CASE o # t /\ m # t
    <3>1. tx'[o] = tx[o] /\ resp'[o] = resp[o] /\ tx'[m] = tx[m] /\ resp'[m] = resp[m]
      BY <1>1, <2>4, Resposta
    <3>2. QED
      BY <2>1, <3>1 DEF ParInd
  <2>5. QED
    BY <2>2, <2>3, <2>4
<1>3. QED
  BY <1>2

\* Everything of a step that ends t but what is its own.
LEMMA Conclui ==
    ASSUME SessoesInd, NEW t \in Chamadas, Cresce(t), NEW x \in Respostas, Responder(t, x),
           tx[t].passo # "fora", TypeOK', LinhasInd',
           tx[t].op = "redefinir" /\ x = "FEITO" =>
              link[tx[t].alvo].estado = "valido" /\ link'[tx[t].alvo].estado = "usado",
           \A o \in Chamadas \ {t} : tx'[o] = tx[o] /\ resp'[o] = resp[o] =>
              AdminInd(o)' /\ RotacaoInd(o)' /\ VarreduraInd(o)' /\ RedefinirInd(o)'
              /\ SolicitarInd(o)'
    PROVE  SessoesInd'
<1>1. \A o \in Chamadas \ {t} : tx'[o] = tx[o] /\ resp'[o] = resp[o]
  BY Resposta DEF SessoesInd
<1>2. ASSUME NEW o \in Chamadas \ {t} PROVE ChamadaInd(o)'
  BY <1>1, PedidoFica DEF ChamadaInd
<1>3. ChamadaInd(t)'
  BY Fim
<1>4. \A o \in Chamadas : \A m \in Chamadas \ {o} : ParInd(o, m)'
  BY FimPar
<1>5. QED
  BY <1>2, <1>3, <1>4 DEF SessoesInd

-----------------------------------------------------------------------------
LEMMA InserirInd ==
    ASSUME SessoesInd, NEW t \in Chamadas, Inserir(t)
    PROVE  SessoesInd'
<1> DEFINE u == tx[t].u
           S == SessaoCom(u, "viva", usuario[u].senha)
           K == [sessao |-> t, estado |-> "vivo"]
<1>1. /\ tx[t].passo = "inserir" /\ tx[t].op \in {"entrar", "google", "verificar"}
      /\ Responder(t, "FEITO") /\ UNCHANGED <<usuario, link>>
      /\ sessao' = [sessao EXCEPT ![t] = S] /\ token' = [token EXCEPT ![t] = K]
  BY DEF Inserir, Em, Entradas
<1>2. TypeOK /\ LinhasInd /\ t \in Ids /\ u \in Usuarios
  BY <1>1, DoPedido DEF SessoesInd, Ids
<1>3. sessao[t].estado = "nenhuma" /\ token[t].estado = "nenhum" /\ sessao[t].dono = Nada
  BY <1>1, <1>2 DEF SessoesInd, ChamadaInd, PedidoInd, LinhasInd
<1>4. /\ S.estado = "viva" /\ S.dono = u /\ S \in Registros
      /\ K.estado = "vivo" /\ K.sessao = t
      /\ K \in [sessao : Ids \cup {Nada}, estado : {"nenhum", "vivo", "revogado"}]
  <2>1. usuario[u].senha \in Ids
    BY <1>2 DEF TypeOK, Contas
  <2>2. QED
    BY <1>2, <2>1 DEF SessaoCom, Registros
<1> HIDE DEF S, K
<1>5. /\ sessao'[t] = S /\ \A s \in Ids \ {t} : sessao'[s] = sessao[s]
      /\ token'[t] = K /\ \A k \in Ids \ {t} : token'[k] = token[k]
  BY <1>1, <1>2 DEF TypeOK
<1>6. TypeOK'
  BY <1>1, <1>2, <1>4, Resposta DEF TypeOK, Respostas
<1>7. Cresce(t)
  BY <1>1, <1>3, <1>5 DEF Cresce
<1>8. LinhasInd'
  <2>1. \A s \in Ids : sessao'[s].estado = "nenhuma" <=> sessao'[s].dono = Nada
    BY <1>2, <1>4, <1>5, Vazio DEF LinhasInd, Ids
  <2>2. \A k \in Ids : token'[k].estado # "nenhum" =>
           token'[k].sessao \in Ids /\ sessao'[token'[k].sessao].estado # "nenhuma"
    BY <1>2, <1>4, <1>5 DEF LinhasInd
  <2>3. TokenDeSessaoViva'
    BY <1>2, <1>3, <1>4, <1>5 DEF LinhasInd, TokenDeSessaoViva
  <2>4. \A k \in Ids \ {t} : token[k].estado = "vivo" => token[k].sessao # t
    BY <1>2, <1>3 DEF LinhasInd
  <2>5. \A k, l \in Ids :
           token'[k].estado = "vivo" /\ token'[l].estado = "vivo" /\ token'[k].sessao = token'[l].sessao
           => k = l
    BY <1>2, <1>4, <1>5, <2>4 DEF LinhasInd
  <2>6. QED
    BY <1>1, <1>2, <2>1, <2>2, <2>3, <2>5 DEF LinhasInd, DesafioSoComFator, SempreHaAdmin,
                                              AdminsAtivos
<1>9. ASSUME NEW o \in Chamadas \ {t}, tx'[o] = tx[o], resp'[o] = resp[o]
      PROVE  AdminInd(o)' /\ RotacaoInd(o)' /\ VarreduraInd(o)' /\ RedefinirInd(o)' /\ SolicitarInd(o)'
  <2>1. ChamadaInd(o)
    BY DEF SessoesInd
  <2>2. AdminInd(o)' /\ SolicitarInd(o)'
    BY <1>1, <1>9, <2>1 DEF ChamadaInd, AdminInd, SolicitarInd, AdminsAtivos, LinksDe
  <2>3. RotacaoInd(o)'
    <3>1. CASE tx[o].op = "renovar" /\ tx[o].passo \in {"reivindicar", "emitir"}
      <4>1. tx[o].alvo \in Ids /\ tx[o].alvo # t /\ token[tx[o].alvo].sessao \in Ids
        BY <1>3, <3>1, DoToken
      <4>2. RotacaoInd(o) /\ sessao[token[tx[o].alvo].sessao].estado = "viva"
        BY <2>1, <3>1 DEF ChamadaInd, RotacaoInd
      <4>3. token[tx[o].alvo].sessao # t
        BY <1>3, <4>2
      <4>4. QED
        BY <1>5, <1>9, <4>1, <4>2, <4>3 DEF RotacaoInd
    <3>2. QED
      BY <1>9, <3>1 DEF RotacaoInd
  <2>4. /\ tx[o].ses \subseteq Ids \ {t}
        /\ VarreduraInd(o) /\ RedefinirInd(o)
    <3>1. tx[o] \in Andamentos
      BY <1>2 DEF TypeOK
    <3>2. QED
      BY <1>3, <2>1, <3>1 DEF ChamadaInd, PedidoInd, Andamentos
  <2>5. \A v \in Usuarios : DoUsuario(v) \subseteq DoUsuario(v)'
    BY <1>3, <1>5, Vazio DEF DoUsuario, Ids
  <2>6. VarreduraInd(o)'
    <3>1. CASE tx[o].passo = "tokens"
      <4>1. \A s \in tx[o].ses : s \in Alcance(o) => s \in Alcance(o)'
        <5>1. CASE tx[o].op = "sair"
          BY <1>2, <1>3, <1>5, <1>9, <3>1, <5>1, DoToken DEF Alcance
        <5>2. CASE tx[o].op = "ligar"
          <6>1. token'[tx[o].alvo].sessao = token[tx[o].alvo].sessao
            BY <1>3, <1>5, <3>1, <5>2, DoToken
          <6>2. QED
            BY <1>9, <2>5, <3>1, <5>2, <6>1, DoPedido DEF Alcance
        <5>3. CASE tx[o].op \notin {"sair", "ligar"}
          BY <1>9, <2>5, <3>1, <5>3, DoPedido DEF Alcance
        <5>4. QED
          BY <5>1, <5>2, <5>3
      <4>2. QED
        BY <1>9, <2>4, <3>1, <4>1 DEF VarreduraInd
    <3>2. CASE tx[o].passo = "gravar"
      BY <1>4, <1>5, <1>9, <2>4, <3>2 DEF VarreduraInd
    <3>3. QED
      BY <1>9, <3>1, <3>2 DEF VarreduraInd
  <2>7. RedefinirInd(o)'
    <3>1. tx[o].op = "redefinir" /\ tx[o].passo \in {"tokens", "gravar"} => tx[o].u # u
      BY <1>1, <2>4 DEF Inserir, RedefinirInd, Varrendo
    <3>2. \A v \in Usuarios : v # u => DoUsuario(v)' = DoUsuario(v)
      <4>1. t \in Ids /\ sessao[t].dono = Nada /\ sessao'[t].dono = u
        BY <1>2, <1>3, <1>4, <1>5
      <4>2. QED
        BY <1>5, <4>1, Vazio DEF DoUsuario, Ids
    <3>3. CASE tx[o].op = "redefinir" /\ tx[o].passo \in {"tokens", "gravar"}
      <4>1. DoUsuario(tx[o].u)' = DoUsuario(tx[o].u)
        BY <1>9, <3>1, <3>2, <3>3, DoPedido DEF DoUsuario
      <4>2. QED
        BY <1>1, <1>9, <2>4, <3>3, <4>1 DEF RedefinirInd, DoUsuario
    <3>4. QED
      BY <1>1, <1>9, <2>4, <3>3 DEF RedefinirInd
  <2>8. QED
    BY <2>2, <2>3, <2>6, <2>7
<1>10. QED
  BY <1>1, <1>6, <1>7, <1>8, <1>9, Conclui DEF Respostas

\* What a sweep reaches depends only on owners and on the session of its own token.
LEMMA AlcanceFica ==
    ASSUME SessoesInd, NEW o \in Chamadas, tx'[o] = tx[o],
           \A s \in Ids : sessao'[s].dono = sessao[s].dono,
           \A k \in Ids : token[k].estado # "nenhum" => token'[k].sessao = token[k].sessao,
           tx[o].passo # "fora"
    PROVE  Alcance(o)' = Alcance(o) /\ DoUsuario(tx[o].u)' = DoUsuario(tx[o].u)
<1>1. DoUsuario(tx[o].u)' = DoUsuario(tx[o].u)
  BY DEF DoUsuario
<1>2. CASE tx[o].op \in {"sair", "ligar"}
  <2>1. token'[tx[o].alvo].sessao = token[tx[o].alvo].sessao
    BY <1>2, DoToken
  <2>2. QED
    BY <1>1, <1>2, <2>1 DEF Alcance, DoUsuario
<1>3. CASE tx[o].op \notin {"sair", "ligar"}
  BY <1>1, <1>3 DEF Alcance, DoUsuario
<1>4. QED
  BY <1>1, <1>2, <1>3

LEMMA EmitirInd ==
    ASSUME SessoesInd, NEW t \in Chamadas, Emitir(t)
    PROVE  SessoesInd'
<1> DEFINE k == tx[t].alvo
           s == token[k].sessao
           S == [sessao[s] EXCEPT !.ultima = k, !.sucessor = t, !.recente = TRUE]
           R == [token[k] EXCEPT !.estado = "revogado"]
           N == [sessao |-> s, estado |-> "vivo"]
<1>1. tx[t].passo = "emitir" /\ tx[t].op = "renovar" /\ Responder(t, "FEITO") /\ UNCHANGED <<usuario, link>>
  BY DEF Emitir, Em
<1>2. TypeOK /\ LinhasInd /\ RotacaoInd(t) /\ PedidoInd(t) /\ t \in Ids
  BY DEF SessoesInd, ChamadaInd, Ids
<1>3. /\ k \in Ids /\ s \in Ids /\ token[k].estado = "vivo" /\ sessao[s].estado = "viva"
      /\ s \in tx[t].ses
  BY <1>1, <1>2, DoToken DEF RotacaoInd
<1>4. token[t].estado = "nenhum" /\ k # t
  BY <1>1, <1>2, <1>3 DEF PedidoInd
<1>5. /\ S \in Registros /\ S.estado = "viva" /\ S.dono = sessao[s].dono
      /\ R \in [sessao : Ids \cup {Nada}, estado : {"nenhum", "vivo", "revogado"}]
      /\ N \in [sessao : Ids \cup {Nada}, estado : {"nenhum", "vivo", "revogado"}]
      /\ R.estado = "revogado" /\ R.sessao = s /\ N.estado = "vivo" /\ N.sessao = s
  <2>1. /\ sessao[s] \in Registros
        /\ token[k] \in [sessao : Ids \cup {Nada}, estado : {"nenhum", "vivo", "revogado"}]
    BY <1>2, <1>3 DEF TypeOK
  <2>2. S \in Registros /\ S.estado = "viva" /\ S.dono = sessao[s].dono
    BY <1>2, <1>3, <2>1 DEF Registros
  <2>3. /\ R \in [sessao : Ids \cup {Nada}, estado : {"nenhum", "vivo", "revogado"}]
        /\ R.estado = "revogado" /\ R.sessao = s
    BY <2>1
  <2>4. QED
    BY <1>3, <2>2, <2>3
<1>6. /\ sessao' = [sessao EXCEPT ![s] = S]
      /\ token' = [token EXCEPT ![k] = R, ![t] = N]
  BY DEF Emitir
<1> HIDE DEF S, R, N
<1>7. /\ sessao'[s] = S /\ \A i \in Ids \ {s} : sessao'[i] = sessao[i]
      /\ token'[k] = R /\ token'[t] = N /\ \A i \in Ids \ {k, t} : token'[i] = token[i]
  BY <1>2, <1>3, <1>4, <1>6 DEF TypeOK
<1>8. TypeOK'
  BY <1>1, <1>2, <1>5, <1>6, Resposta DEF TypeOK, Respostas
<1>9. \A i \in Ids : sessao'[i].dono = sessao[i].dono /\ sessao'[i].estado = sessao[i].estado
  BY <1>3, <1>5, <1>7
<1>10. /\ \A i \in Ids : token[i].estado # "nenhum" =>
             token'[i].estado # "nenhum" /\ token'[i].sessao = token[i].sessao
       /\ \A i \in Ids \ {t} : token[i].estado = "nenhum" => token'[i] = token[i]
  BY <1>3, <1>4, <1>5, <1>7
<1>11. Cresce(t)
  BY <1>1, <1>3, <1>7, <1>9, <1>10 DEF Cresce
<1>12. LinhasInd'
  <2>1. \A i \in Ids : token'[i].estado # "nenhum" =>
           token'[i].sessao \in Ids /\ sessao'[token'[i].sessao].estado # "nenhuma"
    BY <1>2, <1>3, <1>5, <1>7, <1>9 DEF LinhasInd
  <2>2. TokenDeSessaoViva'
    BY <1>2, <1>3, <1>5, <1>7, <1>9 DEF LinhasInd, TokenDeSessaoViva
  <2>3. \A i \in Ids \ {k, t} : token[i].estado = "vivo" => token[i].sessao # s
    BY <1>2, <1>3 DEF LinhasInd
  <2>4. \A i, j \in Ids :
           token'[i].estado = "vivo" /\ token'[j].estado = "vivo" /\ token'[i].sessao = token'[j].sessao
           => i = j
    BY <1>2, <1>5, <1>7, <2>3 DEF LinhasInd
  <2>5. QED
    BY <1>1, <1>2, <1>9, <2>1, <2>2, <2>4 DEF LinhasInd, DesafioSoComFator, SempreHaAdmin,
                                              AdminsAtivos
<1>13. ASSUME NEW o \in Chamadas \ {t}, tx'[o] = tx[o], resp'[o] = resp[o]
       PROVE  AdminInd(o)' /\ RotacaoInd(o)' /\ VarreduraInd(o)' /\ RedefinirInd(o)' /\ SolicitarInd(o)'
  <2>1. ChamadaInd(o) /\ s \notin tx[o].ses
    BY <1>3 DEF SessoesInd, ParInd
  <2>2. AdminInd(o)' /\ SolicitarInd(o)'
    BY <1>1, <1>13, <2>1 DEF ChamadaInd, AdminInd, SolicitarInd, AdminsAtivos, LinksDe
  <2>3. RotacaoInd(o)'
    <3>1. CASE tx[o].op = "renovar" /\ tx[o].passo \in {"reivindicar", "emitir"}
      <4>1. RotacaoInd(o)
        BY <2>1 DEF ChamadaInd
      <4>2. tx[o].alvo \in Ids /\ token[tx[o].alvo].estado # "nenhum" /\ token[tx[o].alvo].sessao \in Ids
        BY <3>1, DoToken
      <4>3. tx[o].alvo # k /\ tx[o].alvo # t
        BY <1>4, <2>1, <3>1, <4>1, <4>2 DEF RotacaoInd
      <4>4. QED
        BY <1>7, <1>9, <1>13, <4>1, <4>2, <4>3 DEF RotacaoInd
    <3>2. QED
      BY <1>13, <3>1 DEF RotacaoInd
  <2>4. tx[o].passo # "fora" => Alcance(o)' = Alcance(o) /\ DoUsuario(tx[o].u)' = DoUsuario(tx[o].u)
    BY <1>9, <1>10, <1>13, AlcanceFica
  <2>5. VarreduraInd(o)'
    BY <1>5, <1>7, <1>13, <2>1, <2>4 DEF ChamadaInd, VarreduraInd
  <2>6. RedefinirInd(o)'
    BY <1>1, <1>13, <2>1, <2>4 DEF ChamadaInd, RedefinirInd, DoUsuario
  <2>7. QED
    BY <2>2, <2>3, <2>5, <2>6
<1>14. QED
  BY <1>1, <1>8, <1>11, <1>12, <1>13, Conclui DEF Respostas

LEMMA TempoInd ==
    ASSUME SessoesInd, NEW s \in Ids, Tempo(s)
    PROVE  SessoesInd'
<1> DEFINE S == [sessao[s] EXCEPT !.recente = FALSE]
<1>1. TypeOK /\ LinhasInd /\ UNCHANGED <<usuario, token, link, tx, resp>>
  BY DEF Tempo, SessoesInd
<1>2. sessao' = [sessao EXCEPT ![s] = S]
  BY DEF Tempo
<1>3. S \in Registros /\ S.dono = sessao[s].dono /\ S.estado = sessao[s].estado
  <2>1. sessao[s] \in Registros
    BY <1>1 DEF TypeOK
  <2>2. QED
    BY <2>1 DEF Registros
<1> HIDE DEF S
<1>4. TypeOK'
  BY <1>1, <1>2, <1>3 DEF TypeOK
<1>5. \A i \in Ids : sessao'[i].dono = sessao[i].dono /\ sessao'[i].estado = sessao[i].estado
  BY <1>1, <1>2, <1>3 DEF TypeOK
<1>6. LinhasInd'
  BY <1>1, <1>5 DEF LinhasInd, TokenDeSessaoViva, DesafioSoComFator, SempreHaAdmin, AdminsAtivos
<1>7. ASSUME NEW o \in Chamadas PROVE ChamadaInd(o)'
  <2>1. ChamadaInd(o) /\ tx[o] \in Andamentos
    BY <1>1 DEF SessoesInd, TypeOK
  <2>2. PedidoInd(o)'
    <3>1. tx[o].ses \subseteq Ids /\ o \in Ids
      BY <2>1 DEF Andamentos, Ids
    <3>2. QED
      BY <1>1, <1>5, <2>1, <3>1 DEF ChamadaInd, PedidoInd
  <2>3. tx[o].passo # "fora" => Alcance(o)' = Alcance(o) /\ DoUsuario(tx[o].u)' = DoUsuario(tx[o].u)
    BY <1>1, <1>5, AlcanceFica
  <2>4. RotacaoInd(o)'
    <3>1. CASE tx[o].op = "renovar" /\ tx[o].passo \in {"reivindicar", "emitir"}
      BY <1>1, <1>5, <2>1, <3>1, DoToken DEF ChamadaInd, RotacaoInd
    <3>2. QED
      BY <1>1, <3>1 DEF RotacaoInd
  <2>5. AdminInd(o)' /\ SolicitarInd(o)'
    BY <1>1, <2>1 DEF ChamadaInd, AdminInd, SolicitarInd, AdminsAtivos, LinksDe
  <2>6. VarreduraInd(o)'
    BY <1>1, <2>1, <2>3 DEF ChamadaInd, VarreduraInd
  <2>7. RedefinirInd(o)'
    BY <1>1, <2>1, <2>3 DEF ChamadaInd, RedefinirInd, DoUsuario
  <2>8. QED
    BY <2>2, <2>4, <2>5, <2>6, <2>7 DEF ChamadaInd
<1>8. \A t \in Chamadas : \A o \in Chamadas \ {t} : ParInd(t, o)'
  BY <1>1 DEF SessoesInd, ParInd
<1>9. QED
  BY <1>4, <1>6, <1>7, <1>8 DEF SessoesInd

\* Two requests under way that hold the same user's row are one.
LEMMA SoUm ==
    ASSUME SessoesInd, NEW t \in Chamadas, NEW o \in Chamadas \ {t}, NEW r
    PROVE  ~(r \in tx[t].usr /\ r \in tx[o].usr)
  BY DEF SessoesInd, ParInd

LEMMA CriarLinkInd ==
    ASSUME SessoesInd, NEW t \in Chamadas, CriarLink(t)
    PROVE  SessoesInd'
<1> DEFINE u == tx[t].u
           D == [dono : Usuarios \cup {Nada}, estado : {"nenhum", "valido", "usado"}]
<1>1. /\ tx[t].passo = "criar" /\ tx[t].op = "solicitar" /\ Responder(t, "FEITO")
      /\ UNCHANGED <<usuario, sessao, token>>
  BY DEF CriarLink, Em
<1>2. /\ TypeOK /\ LinhasInd /\ u \in Usuarios /\ u \in tx[t].usr /\ tx[t].links = LinksDe(u)
      /\ link[t].estado = "nenhum"
  BY <1>1, DoPedido DEF SessoesInd, ChamadaInd, PedidoInd, SolicitarInd
<1>3. /\ link' \in [Chamadas -> D]
      /\ link'[t].dono = u /\ link'[t].estado = "valido"
      /\ \A l \in LinksDe(u) \ {t} : link'[l].estado = "usado" /\ link'[l].dono = link[l].dono
      /\ \A l \in Chamadas \ {t} : l \notin LinksDe(u) => link'[l] = link[l]
  <2>1. link \in [Chamadas -> D]
    BY <1>2 DEF TypeOK
  <2>2. link' = [l \in Chamadas |-> IF l = t THEN [dono |-> u, estado |-> "valido"]
                                   ELSE IF l \in LinksDe(u) THEN [link[l] EXCEPT !.estado = "usado"]
                                   ELSE link[l]]
    BY <1>2 DEF CriarLink
  <2>3. [dono |-> u, estado |-> "valido"] \in D
    BY <1>2
  <2>4. \A l \in Chamadas : /\ [link[l] EXCEPT !.estado = "usado"] \in D
                            /\ [link[l] EXCEPT !.estado = "usado"].estado = "usado"
                            /\ [link[l] EXCEPT !.estado = "usado"].dono = link[l].dono
    BY <2>1
  <2>5. \A l \in LinksDe(u) : l \in Chamadas
    BY DEF LinksDe
  <2> HIDE DEF D
  <2>6. link' \in [Chamadas -> D]
    BY <2>1, <2>2, <2>3, <2>4
  <2>7. \A l \in LinksDe(u) \ {t} : link'[l] = [link[l] EXCEPT !.estado = "usado"]
    BY <2>2, <2>5
  <2>8. QED
    BY <2>2, <2>4, <2>5, <2>6, <2>7
<1>4. \A l \in Chamadas : l \in LinksDe(u) <=> link[l].dono = u /\ link[l].estado = "valido"
  BY DEF LinksDe
<1>5. TypeOK'
  BY <1>1, <1>2, <1>3, Resposta DEF TypeOK, Respostas
<1>6. Cresce(t)
  BY <1>1, <1>2, <1>3, <1>4 DEF Cresce
<1>7. LinhasInd'
  <2>1. \A l \in Chamadas : link'[l].estado # "nenhum" => link'[l].dono \in Usuarios
    BY <1>2, <1>3, <1>4 DEF LinhasInd
  <2>2. \A l \in Chamadas \ {t} : link'[l].estado = "valido" =>
           link'[l].dono # u /\ link'[l] = link[l]
    BY <1>3, <1>4
  <2>3. \A l, m \in Chamadas :
           link'[l].estado = "valido" /\ link'[m].estado = "valido" /\ link'[l].dono = link'[m].dono
           => l = m
    BY <1>2, <1>3, <2>2 DEF LinhasInd
  <2>4. QED
    BY <1>1, <1>2, <2>1, <2>3 DEF LinhasInd, TokenDeSessaoViva, DesafioSoComFator, SempreHaAdmin,
                                  AdminsAtivos
<1>8. ASSUME NEW o \in Chamadas \ {t}, tx'[o] = tx[o], resp'[o] = resp[o]
      PROVE  AdminInd(o)' /\ RotacaoInd(o)' /\ VarreduraInd(o)' /\ RedefinirInd(o)' /\ SolicitarInd(o)'
  <2>1. ChamadaInd(o)
    BY DEF SessoesInd
  <2>2. AdminInd(o)' /\ RotacaoInd(o)'
    BY <1>1, <1>8, <2>1 DEF ChamadaInd, AdminInd, AdminsAtivos, RotacaoInd
  <2>3. VarreduraInd(o)'
    BY <1>1, <1>8, <2>1 DEF ChamadaInd, VarreduraInd, Alcance, DoUsuario
  <2>4. RedefinirInd(o)'
    <3>1. CASE tx[o].op = "redefinir"
      <4>1. RedefinirInd(o) /\ PedidoInd(o)
        BY <2>1 DEF ChamadaInd
      <4>2. tx[o].passo # "fora" => /\ tx[o].alvo \in Chamadas \ {t} /\ link[tx[o].alvo].dono = tx[o].u
        BY <1>2, <3>1, <4>1 DEF PedidoInd
      <4>3. tx[o].passo \in Varrendo => link'[tx[o].alvo] = link[tx[o].alvo]
        BY <1>2, <1>3, <1>4, <3>1, <4>1, <4>2, SoUm DEF RedefinirInd, Varrendo
      <4>4. tx[o].passo = "fim" /\ link[tx[o].alvo].estado = "usado" => link'[tx[o].alvo] = link[tx[o].alvo]
        BY <1>3, <1>4, <4>2
      <4>5. DoUsuario(tx[o].u)' = DoUsuario(tx[o].u)
        BY <1>1, <1>8 DEF DoUsuario
      <4>6. QED
        BY <1>8, <3>1, <4>1, <4>3, <4>4, <4>5 DEF RedefinirInd, DoUsuario
    <3>2. QED
      BY <1>8, <3>1 DEF RedefinirInd
  <2>5. SolicitarInd(o)'
    <3>1. CASE tx[o].op = "solicitar" /\ tx[o].passo = "criar"
      <4>1. tx[o].u \in tx[o].usr /\ tx[o].links = LinksDe(tx[o].u)
        BY <2>1, <3>1 DEF ChamadaInd, SolicitarInd
      <4>2. tx[o].u # u
        BY <1>2, <4>1, SoUm
      <4>3. LinksDe(tx[o].u)' = LinksDe(tx[o].u)
        BY <1>2, <1>3, <1>4, <1>8, <4>2 DEF LinksDe
      <4>4. QED
        BY <1>8, <4>1, <4>3 DEF SolicitarInd, LinksDe
    <3>2. QED
      BY <1>8, <3>1 DEF SolicitarInd
  <2>6. QED
    BY <2>2, <2>3, <2>4, <2>5
<1>9. QED
  BY <1>1, <1>5, <1>6, <1>7, <1>8, Conclui DEF Respostas

-----------------------------------------------------------------------------
\* The account as a change leaves it.
LEMMA DaConta ==
    ASSUME SessoesInd, NEW t \in Chamadas, tx[t].passo # "fora"
    PROVE  /\ Conta(t) \in Contas
           /\ Conta(t).desafio # Nada => Conta(t).fator
           /\ tx[t].op \notin {"desativar", "rebaixar"} =>
                 (usuario[tx[t].u].ativo => Conta(t).ativo)
                 /\ (usuario[tx[t].u].admin => Conta(t).admin)
           /\ tx[t].op \notin Atualizacoes =>
                 Conta(t).ativo = usuario[tx[t].u].ativo /\ Conta(t).admin = usuario[tx[t].u].admin
<1> DEFINE r == usuario[tx[t].u]
           C == Codigos \X Ids
<1>1. r \in Contas /\ (r.desafio # Nada => r.fator) /\ t \in Ids
  BY DoPedido DEF Ids
<1>2. Contas = [ativo : BOOLEAN, admin : BOOLEAN, senha : Ids, google : BOOLEAN,
                fator : BOOLEAN, segredo : Ids \cup {Nada}, desafio : Chamadas \cup {Nada},
                codigos : SUBSET C]
  BY DEF Contas
<1>3. Codigos \X {t} \in SUBSET C
  BY <1>1
<1> DEFINE Q == Codigos \X {t}
<1>4. Conta(t) = CASE tx[t].op = "desativar" -> [r EXCEPT !.ativo = FALSE]
                   [] tx[t].op = "ativar" -> [r EXCEPT !.ativo = TRUE]
                   [] tx[t].op = "rebaixar" -> [r EXCEPT !.admin = FALSE]
                   [] tx[t].op = "promover" -> [r EXCEPT !.admin = TRUE]
                   [] tx[t].op \in {"trocar", "redefinir"} -> [r EXCEPT !.senha = t, !.desafio = Nada]
                   [] tx[t].op = "ligar" -> [r EXCEPT !.fator = TRUE, !.codigos = Q]
                   [] OTHER -> r
  BY DEF Conta
<1>5. Q \in SUBSET C
  BY <1>3
<1> HIDE DEF C, Q, r
<1>6. CASE tx[t].op \in {"desativar", "ativar"}
  BY <1>1, <1>2, <1>4, <1>6 DEF Atualizacoes, r
<1>7. CASE tx[t].op \in {"rebaixar", "promover"}
  BY <1>1, <1>2, <1>4, <1>7 DEF Atualizacoes, r
<1>8. CASE tx[t].op \in {"trocar", "redefinir"}
  BY <1>1, <1>2, <1>4, <1>8 DEF Atualizacoes, r
<1>9. CASE tx[t].op = "ligar"
  BY <1>1, <1>2, <1>4, <1>5, <1>9 DEF Atualizacoes, r
<1>10. CASE tx[t].op \notin {"desativar", "ativar", "rebaixar", "promover", "trocar", "redefinir", "ligar"}
  BY <1>1, <1>4, <1>10 DEF Atualizacoes, r
<1>11. QED
  BY <1>6, <1>7, <1>8, <1>9, <1>10

\* The administrators after the commit.
LEMMA GravarAdmins ==
    ASSUME SessoesInd, NEW t \in Chamadas, Gravar(t)
    PROVE  /\ usuario' \in [Usuarios -> Contas] /\ DesafioSoComFator' /\ SempreHaAdmin'
           /\ tx[t].op \notin Atualizacoes => AdminsAtivos' = AdminsAtivos
<1> DEFINE u == tx[t].u
           r == Conta(t)
<1>1. tx[t].passo = "gravar" /\ usuario' = [usuario EXCEPT ![u] = r]
  BY DEF Gravar
<1>2. /\ usuario \in [Usuarios -> Contas] /\ u \in Usuarios
      /\ DesafioSoComFator /\ AdminInd(t) /\ AdminsAtivos # {}
  BY <1>1, DoPedido DEF SessoesInd, LinhasInd, ChamadaInd, SempreHaAdmin
<1>3. /\ r \in Contas
      /\ r.desafio # Nada => r.fator
      /\ tx[t].op \notin {"desativar", "rebaixar"} =>
            (usuario[u].ativo => r.ativo) /\ (usuario[u].admin => r.admin)
      /\ tx[t].op \notin Atualizacoes => r.ativo = usuario[u].ativo /\ r.admin = usuario[u].admin
  BY <1>1, DaConta
<1> HIDE DEF r
<1>4. usuario'[u] = r /\ \A v \in Usuarios \ {u} : usuario'[v] = usuario[v]
  BY <1>1, <1>2
<1>5. usuario' \in [Usuarios -> Contas] /\ DesafioSoComFator'
  BY <1>1, <1>2, <1>3, <1>4 DEF DesafioSoComFator
<1>6. tx[t].op \notin Atualizacoes => AdminsAtivos' = AdminsAtivos
  BY <1>2, <1>3, <1>4 DEF AdminsAtivos
<1>7. SempreHaAdmin'
  <2>1. CASE tx[t].op \in {"desativar", "rebaixar"}
    <3>1. PICK a \in AdminsAtivos : a # u
      BY <1>1, <1>2, <2>1 DEF AdminInd, Atualizacoes, Varrendo
    <3>2. QED
      BY <1>4, <3>1 DEF SempreHaAdmin, AdminsAtivos
  <2>2. CASE tx[t].op \notin {"desativar", "rebaixar"}
    <3>1. PICK a \in Usuarios : usuario[a].ativo /\ usuario[a].admin
      BY <1>2 DEF AdminsAtivos
    <3>2. usuario'[a].ativo /\ usuario'[a].admin
      BY <1>2, <1>3, <1>4, <2>2, <3>1
    <3>3. QED
      BY <3>1, <3>2 DEF SempreHaAdmin, AdminsAtivos
  <2>3. QED
    BY <2>1, <2>2
<1>8. QED
  BY <1>5, <1>6, <1>7

\* The rows after the commit.
LEMMA GravarLinhas ==
    ASSUME SessoesInd, NEW t \in Chamadas, Gravar(t)
    PROVE  /\ TypeOK' /\ LinhasInd' /\ Cresce(t)
           /\ \A s \in Ids : sessao'[s].dono = sessao[s].dono
           /\ \A s \in Ids \ tx[t].ses : sessao'[s] = sessao[s]
           /\ \A s \in tx[t].ses : sessao'[s].estado = "revogada"
           /\ \A k \in Ids : token'[k].sessao = token[k].sessao
           /\ \A k \in Ids \ tx[t].tok : token'[k] = token[k]
           /\ \A k \in tx[t].tok : token'[k].estado = "revogado"
           /\ \A l \in Chamadas : link'[l].dono = link[l].dono
           /\ \A l \in Chamadas : tx[t].op = "redefinir" /\ l \in LinksDe(tx[t].u) =>
                 link'[l].estado = "usado"
           /\ \A l \in Chamadas : ~(tx[t].op = "redefinir" /\ l \in LinksDe(tx[t].u)) =>
                 link'[l] = link[l]
<1> DEFINE S == tx[t].ses
           K == tx[t].tok
           W == {l \in Chamadas : tx[t].op = "redefinir" /\ l \in LinksDe(tx[t].u)}
           T == [sessao : Ids \cup {Nada}, estado : {"nenhum", "vivo", "revogado"}]
           D == [dono : Usuarios \cup {Nada}, estado : {"nenhum", "valido", "usado"}]
<1>1. /\ tx[t].passo = "gravar"
      /\ sessao' = [s \in Ids |-> IF s \in S THEN [sessao[s] EXCEPT !.estado = "revogada"]
                                             ELSE sessao[s]]
      /\ token' = [k \in Ids |-> IF k \in K THEN [token[k] EXCEPT !.estado = "revogado"]
                                            ELSE token[k]]
      /\ link' = [l \in Chamadas |-> IF l \in W THEN [link[l] EXCEPT !.estado = "usado"]
                                                ELSE link[l]]
      /\ \E x \in Respostas : Responder(t, x)
  BY DEF Gravar, Respostas
<1>2. TypeOK /\ LinhasInd /\ PedidoInd(t) /\ VarreduraInd(t) /\ tx[t] \in Andamentos
  BY DEF SessoesInd, ChamadaInd, TypeOK
<1>3. S \in SUBSET Ids /\ K \in SUBSET Ids /\ W \in SUBSET Chamadas
  BY <1>2 DEF Andamentos
<1>4. /\ \A s \in S : sessao[s].estado # "nenhuma"
      /\ \A k \in K : token[k].estado # "nenhum"
      /\ \A l \in W : link[l].estado = "valido"
      /\ \A k \in Ids : token[k].estado = "vivo" /\ token[k].sessao \in S => k \in K
  BY <1>1, <1>2 DEF PedidoInd, VarreduraInd, LinksDe
<1>5. sessao \in [Ids -> Registros] /\ token \in [Ids -> T] /\ link \in [Chamadas -> D]
  BY <1>2 DEF TypeOK
<1>6. \A l \in Chamadas : l \in W <=> tx[t].op = "redefinir" /\ l \in LinksDe(tx[t].u)
  OBVIOUS
<1> HIDE DEF S, K, W
<1>7. /\ sessao' \in [Ids -> Registros]
      /\ \A s \in Ids : sessao'[s].dono = sessao[s].dono
      /\ \A s \in S : sessao'[s].estado = "revogada"
      /\ \A s \in Ids \ S : sessao'[s] = sessao[s]
  <2>1. \A s \in Ids : /\ [sessao[s] EXCEPT !.estado = "revogada"] \in Registros
                       /\ [sessao[s] EXCEPT !.estado = "revogada"].estado = "revogada"
                       /\ [sessao[s] EXCEPT !.estado = "revogada"].dono = sessao[s].dono
    BY <1>5 DEF Registros
  <2>2. QED
    BY <1>1, <1>3, <1>5, <2>1
<1>8. /\ token' \in [Ids -> T]
      /\ \A k \in Ids : token'[k].sessao = token[k].sessao
      /\ \A k \in K : token'[k].estado = "revogado"
      /\ \A k \in Ids \ K : token'[k] = token[k]
  <2>1. \A k \in Ids : /\ [token[k] EXCEPT !.estado = "revogado"] \in T
                       /\ [token[k] EXCEPT !.estado = "revogado"].estado = "revogado"
                       /\ [token[k] EXCEPT !.estado = "revogado"].sessao = token[k].sessao
    BY <1>5
  <2> HIDE DEF T
  <2>2. QED
    BY <1>1, <1>3, <1>5, <2>1
<1>9. /\ link' \in [Chamadas -> D]
      /\ \A l \in Chamadas : link'[l].dono = link[l].dono
      /\ \A l \in W : link'[l].estado = "usado"
      /\ \A l \in Chamadas \ W : link'[l] = link[l]
  <2>1. \A l \in Chamadas : /\ [link[l] EXCEPT !.estado = "usado"] \in D
                            /\ [link[l] EXCEPT !.estado = "usado"].estado = "usado"
                            /\ [link[l] EXCEPT !.estado = "usado"].dono = link[l].dono
    BY <1>5
  <2> HIDE DEF D
  <2>2. QED
    BY <1>1, <1>3, <1>5, <2>1
<1>10. TypeOK'
  <2>1. tx' \in [Chamadas -> Andamentos] /\ resp' \in [Chamadas -> Respostas \cup {Nada}]
    BY <1>1, <1>2, Resposta
  <2>2. QED
    BY <1>7, <1>8, <1>9, <2>1, GravarAdmins DEF TypeOK
<1>11. Cresce(t)
  BY <1>4, <1>7, <1>8, <1>9 DEF Cresce
<1>12. LinhasInd'
  <2>1. \A s \in Ids : sessao'[s].estado = "nenhuma" <=> sessao'[s].dono = Nada
    BY <1>2, <1>4, <1>7 DEF LinhasInd
  <2>2. \A k \in Ids : token'[k].estado # "nenhum" =>
           token'[k].sessao \in Ids /\ sessao'[token'[k].sessao].estado # "nenhuma"
    <3>1. \A k \in Ids : token'[k].estado # "nenhum" => token[k].estado # "nenhum"
      BY <1>4, <1>8
    <3>2. \A k \in Ids : token[k].estado # "nenhum" =>
             token[k].sessao \in Ids /\ sessao[token[k].sessao].estado # "nenhuma"
      BY <1>2 DEF LinhasInd
    <3>3. \A s \in Ids : sessao[s].estado # "nenhuma" => sessao'[s].estado # "nenhuma"
      BY <1>7
    <3>4. QED
      BY <1>8, <3>1, <3>2, <3>3
  <2>3. \A k \in Ids : token'[k].estado = "vivo" =>
           k \notin K /\ token[k].estado = "vivo" /\ token'[k] = token[k]
    BY <1>8
  <2>4. TokenDeSessaoViva'
    <3>1. ASSUME NEW k \in Ids, token'[k].estado = "vivo" PROVE sessao'[token'[k].sessao].estado = "viva"
      <4>1. /\ token[k].sessao \in Ids /\ sessao[token[k].sessao].estado = "viva"
            /\ token[k].sessao \notin S
        BY <1>2, <1>4, <2>3, <3>1 DEF LinhasInd, TokenDeSessaoViva
      <4>2. QED
        BY <1>7, <1>8, <4>1
    <3>2. QED
      BY <3>1 DEF TokenDeSessaoViva
  <2>5. \A k, l \in Ids :
           token'[k].estado = "vivo" /\ token'[l].estado = "vivo" /\ token'[k].sessao = token'[l].sessao
           => k = l
    BY <1>2, <2>3 DEF LinhasInd
  <2>6. \A l \in Chamadas : link'[l].estado # "nenhum" => link'[l].dono \in Usuarios
    <3>1. \A l \in Chamadas : link'[l].estado # "nenhum" => link[l].estado # "nenhum"
      BY <1>4, <1>9
    <3>2. QED
      BY <1>2, <1>9, <3>1 DEF LinhasInd
  <2>7. \A l, m \in Chamadas :
           link'[l].estado = "valido" /\ link'[m].estado = "valido" /\ link'[l].dono = link'[m].dono
           => l = m
    BY <1>2, <1>9 DEF LinhasInd
  <2>8. QED
    BY <2>1, <2>2, <2>4, <2>5, <2>6, <2>7, GravarAdmins DEF LinhasInd
<1>13. QED
  BY <1>6, <1>7, <1>8, <1>9, <1>10, <1>11, <1>12 DEF S, K

LEMMA GravarInd ==
    ASSUME SessoesInd, NEW t \in Chamadas, Gravar(t)
    PROVE  SessoesInd'
<1> DEFINE u == tx[t].u
<1>1. /\ tx[t].passo = "gravar" /\ tx[t].op \in Varredores \cup {"ativar"}
      /\ \A o \in Chamadas : Em(o, {"renovar"}, "emitir") => tx[o].tok \cap tx[t].tok = {}
  BY DEF Gravar
<1>2. PICK x \in Respostas : Responder(t, x)
  BY DEF Gravar, Respostas
<1>3. /\ TypeOK' /\ LinhasInd' /\ Cresce(t)
      /\ \A s \in Ids : sessao'[s].dono = sessao[s].dono
      /\ \A s \in Ids \ tx[t].ses : sessao'[s] = sessao[s]
  BY GravarLinhas
<1>4. /\ \A k \in Ids : token'[k].sessao = token[k].sessao
      /\ \A k \in Ids \ tx[t].tok : token'[k] = token[k]
      /\ \A k \in tx[t].tok : token'[k].estado = "revogado"
  BY GravarLinhas
<1>5. /\ \A l \in Chamadas : link'[l].dono = link[l].dono
      /\ \A l \in Chamadas : tx[t].op = "redefinir" /\ l \in LinksDe(u) => link'[l].estado = "usado"
      /\ \A l \in Chamadas : ~(tx[t].op = "redefinir" /\ l \in LinksDe(u)) => link'[l] = link[l]
  BY GravarLinhas
<1>6. \A l \in Chamadas : l \in LinksDe(u) <=> link[l].dono = u /\ link[l].estado = "valido"
  BY DEF LinksDe
<1>7. tx[t].op = "redefinir" =>
         /\ u \in tx[t].usr /\ tx[t].alvo \in Chamadas
         /\ link[tx[t].alvo].estado = "valido" /\ link'[tx[t].alvo].estado = "usado"
  <2>1. RedefinirInd(t) /\ PedidoInd(t)
    BY DEF SessoesInd, ChamadaInd
  <2>2. QED
    BY <1>1, <1>5, <1>6, <2>1 DEF RedefinirInd, PedidoInd, Varrendo
<1>8. ASSUME NEW o \in Chamadas \ {t}, tx'[o] = tx[o], resp'[o] = resp[o]
      PROVE  AdminInd(o)' /\ RotacaoInd(o)' /\ VarreduraInd(o)' /\ RedefinirInd(o)' /\ SolicitarInd(o)'
  <2>1. /\ ChamadaInd(o) /\ AdminInd(t) /\ tx[o].ses \cap tx[t].ses = {}
    BY DEF SessoesInd, ChamadaInd, ParInd
  <2>2. AdminInd(o)'
    <3>1. CASE tx[o].op \in Atualizacoes /\ tx[o].passo \in Varrendo
      <4>1. tx[t].op \notin Atualizacoes
        BY <1>1, <2>1, <3>1, SoUm DEF AdminInd, ChamadaInd, Varrendo
      <4>2. AdminsAtivos' = AdminsAtivos
        BY <4>1, GravarAdmins
      <4>3. QED
        BY <1>8, <2>1, <3>1, <4>2 DEF ChamadaInd, AdminInd
    <3>2. QED
      BY <1>8, <3>1 DEF AdminInd
  <2>3. RotacaoInd(o)'
    <3>1. CASE tx[o].op = "renovar" /\ tx[o].passo \in {"reivindicar", "emitir"}
      <4>1. /\ tx[o].alvo \in Ids /\ token[tx[o].alvo].sessao \in Ids /\ RotacaoInd(o)
            /\ token'[tx[o].alvo].sessao = token[tx[o].alvo].sessao
        BY <1>4, <2>1, <3>1, DoToken DEF ChamadaInd
      <4>2. sessao'[token[tx[o].alvo].sessao] = sessao[token[tx[o].alvo].sessao]
        BY <1>3, <2>1, <3>1, <4>1 DEF RotacaoInd
      <4>3. tx[o].passo = "emitir" => token'[tx[o].alvo] = token[tx[o].alvo]
        BY <1>1, <1>4, <3>1, <4>1 DEF RotacaoInd, Em
      <4>4. QED
        BY <1>8, <3>1, <4>1, <4>2, <4>3 DEF RotacaoInd
    <3>2. QED
      BY <1>8, <3>1 DEF RotacaoInd
  <2>4. tx[o].passo # "fora" => Alcance(o)' = Alcance(o) /\ DoUsuario(tx[o].u)' = DoUsuario(tx[o].u)
    BY <1>3, <1>4, <1>8, AlcanceFica
  <2>5. VarreduraInd(o)'
    <3>1. VarreduraInd(o)
      BY <2>1 DEF ChamadaInd
    <3>2. \A k \in Ids : token'[k].estado = "vivo" => token'[k] = token[k]
      BY <1>4
    <3>3. CASE tx[o].passo = "tokens"
      BY <1>8, <2>4, <3>1, <3>3 DEF VarreduraInd
    <3>4. CASE tx[o].passo # "tokens"
      BY <1>8, <3>1, <3>2, <3>4 DEF VarreduraInd
    <3>5. QED
      BY <3>3, <3>4
  <2>6. RedefinirInd(o)'
    <3>1. CASE tx[o].op = "redefinir"
      <4>1. RedefinirInd(o) /\ PedidoInd(o)
        BY <2>1 DEF ChamadaInd
      <4>2. tx[o].passo # "fora" => tx[o].alvo \in Chamadas /\ link[tx[o].alvo].dono = tx[o].u
        BY <3>1, <4>1 DEF PedidoInd
      <4>3. tx[o].passo \in Varrendo => link'[tx[o].alvo] = link[tx[o].alvo]
        BY <1>5, <1>6, <1>7, <3>1, <4>1, <4>2, SoUm DEF RedefinirInd, Varrendo
      <4>4. tx[o].passo = "fim" /\ link[tx[o].alvo].estado = "usado" => link'[tx[o].alvo] = link[tx[o].alvo]
        BY <1>5, <1>6, <4>2
      <4>5. QED
        BY <1>8, <2>4, <3>1, <4>1, <4>3, <4>4 DEF RedefinirInd, DoUsuario
    <3>2. QED
      BY <1>8, <3>1 DEF RedefinirInd
  <2>7. SolicitarInd(o)'
    <3>1. CASE tx[o].op = "solicitar" /\ tx[o].passo = "criar"
      <4>1. tx[o].u \in tx[o].usr /\ tx[o].links = LinksDe(tx[o].u)
        BY <2>1, <3>1 DEF ChamadaInd, SolicitarInd
      <4>2. tx[t].op = "redefinir" => tx[o].u # u
        BY <1>7, <4>1, SoUm
      <4>3. \A l \in Chamadas : link[l].dono = tx[o].u => link'[l] = link[l]
        BY <1>5, <1>6, <4>2
      <4>4. LinksDe(tx[o].u)' = LinksDe(tx[o].u)
        BY <1>5, <1>8, <4>3 DEF LinksDe
      <4>5. QED
        BY <1>8, <4>1, <4>4 DEF SolicitarInd, LinksDe
    <3>2. QED
      BY <1>8, <3>1 DEF SolicitarInd
  <2>8. QED
    BY <2>2, <2>3, <2>5, <2>6, <2>7
<1>9. QED
  BY <1>1, <1>2, <1>3, <1>7, <1>8, Conclui

-----------------------------------------------------------------------------
LEMMA Parado == ASSUME SessoesInd, UNCHANGED vars PROVE SessoesInd'
<1>1. UNCHANGED <<usuario, sessao, token, link, tx, resp>>
  BY DEF vars
<1>2. TypeOK'
  BY <1>1 DEF SessoesInd, TypeOK
<1>3. LinhasInd'
  BY <1>1 DEF SessoesInd, LinhasInd, TokenDeSessaoViva, DesafioSoComFator, SempreHaAdmin,
              AdminsAtivos
<1>4. ASSUME NEW o \in Chamadas PROVE ChamadaInd(o)'
  <2>1. ChamadaInd(o)
    BY DEF SessoesInd
  <2>2. PedidoInd(o)' /\ AdminInd(o)' /\ RotacaoInd(o)'
    BY <1>1, <2>1 DEF ChamadaInd, PedidoInd, AdminInd, AdminsAtivos, RotacaoInd
  <2>3. VarreduraInd(o)'
    BY <1>1, <2>1 DEF ChamadaInd, VarreduraInd, Alcance, DoUsuario
  <2>4. RedefinirInd(o)' /\ SolicitarInd(o)'
    BY <1>1, <2>1 DEF ChamadaInd, RedefinirInd, SolicitarInd, DoUsuario, LinksDe
  <2>5. QED
    BY <2>2, <2>3, <2>4 DEF ChamadaInd
<1>5. \A t \in Chamadas : \A o \in Chamadas \ {t} : ParInd(t, o)'
  BY <1>1 DEF SessoesInd, ParInd
<1>6. QED
  BY <1>2, <1>3, <1>4, <1>5 DEF SessoesInd

\* SessoesInd holds in every state of every behaviour of the requests.
THEOREM SessoesIndutivo == Spec => []SessoesInd
<1>1. Init => SessoesInd
  BY SessoesInicio
<1>2. SessoesInd /\ [Next]_vars => SessoesInd'
  <2>1. SUFFICES ASSUME SessoesInd, [Next]_vars PROVE SessoesInd'
    OBVIOUS
  <2>2. CASE UNCHANGED vars
    BY <2>1, <2>2, Parado
  <2>3. CASE \E s \in Ids : Tempo(s)
    BY <2>1, <2>3, TempoInd
  <2>4. ASSUME NEW t \in Chamadas,
               LerLogin(t) \/ Desafiar(t) \/ LerFator(t) \/ Consumir(t) \/ Inserir(t)
        PROVE  SessoesInd'
    BY <2>1, <2>4, LerLoginInd, DesafiarInd, LerFatorInd, ConsumirInd, InserirInd
  <2>5. ASSUME NEW t \in Chamadas, Chegar(t) \/ Decidir(t) \/ Reivindicar(t) \/ Emitir(t)
        PROVE  SessoesInd'
    BY <2>1, <2>5, ChegarInd, DecidirInd, ReivindicarInd, EmitirInd
  <2>6. ASSUME NEW t \in Chamadas,
               LogoutSair(t) \/ VarrerSessoes(t) \/ VarrerTokens(t) \/ Gravar(t)
        PROVE  SessoesInd'
    BY <2>1, <2>6, LeiturasInd, VarrerSessoesInd, VarrerTokensInd, GravarInd
  <2>7. ASSUME NEW t \in Chamadas,
               \/ LerVincular(t) \/ Vincular(t) \/ Configurar(t) \/ LerLigar(t) \/ Ligar(t)
               \/ Desligar(t)
        PROVE  SessoesInd'
    BY <2>1, <2>7, LerVincularInd, VincularInd, ConfigurarInd, LeiturasInd, TravasInd, DesligarInd
  <2>8. ASSUME NEW t \in Chamadas,
               \/ Atualizar(t) \/ LerSenha(t) \/ TrocarSenha(t)
               \/ Solicitar(t) \/ CriarLink(t) \/ LerLink(t) \/ Redefinir(t) \/ Abortar(t)
        PROVE  SessoesInd'
    BY <2>1, <2>8, AtualizarInd, LeiturasInd, TravasInd, SolicitarPassoInd, CriarLinkInd
  <2>9. QED
    BY <2>1, <2>2, <2>3, <2>4, <2>5, <2>6, <2>7, <2>8 DEF Next
<1>3. QED
  BY <1>1, <1>2, PTL DEF Spec

\* Accounts, sessions, tokens, links and requests keep their types.
THEOREM TiposDeSessoes == Spec => []TypeOK
<1>1. SessoesInd => TypeOK
  BY DEF SessoesInd
<1>2. QED
  BY <1>1, SessoesIndutivo, PTL

\* A session never has two valid tokens: rotateRefreshToken never opens a second branch.
THEOREM SempreUmRamo == Spec => []UmRamo
<1>1. SessoesInd => UmRamo
  <2>1. SUFFICES ASSUME SessoesInd, NEW s \in Ids PROVE Cardinality(TokensDe({s})) <= 1
    BY DEF UmRamo
  <2>2. \A k, l \in TokensDe({s}) : k = l
    BY <2>1 DEF SessoesInd, LinhasInd, TokensDe
  <2>3. CASE TokensDe({s}) = {}
    BY <2>3, FS_EmptySet
  <2>4. CASE \E k : k \in TokensDe({s})
    <3>1. PICK k : k \in TokensDe({s})
      BY <2>4
    <3>2. TokensDe({s}) = {k}
      BY <2>2, <3>1
    <3>3. Cardinality(TokensDe({s})) = 1
      BY <3>2, FS_Singleton
    <3>4. QED
      BY <3>3
  <2>5. QED
    BY <2>3, <2>4
<1>2. QED
  BY <1>1, SessoesIndutivo, PTL

\* What a logout, a deactivation or a new password ends, no rotation brings back.
THEOREM TokenSempreDeSessaoViva == Spec => []TokenDeSessaoViva
<1>1. SessoesInd => TokenDeSessaoViva
  BY DEF SessoesInd, LinhasInd
<1>2. QED
  BY <1>1, SessoesIndutivo, PTL

\* Demotions and deactivations under way together leave an active administrator.
THEOREM SempreAdmin == Spec => []SempreHaAdmin
<1>1. SessoesInd => SempreHaAdmin
  BY DEF SessoesInd, LinhasInd
<1>2. QED
  BY <1>1, SessoesIndutivo, PTL

\* A user has at most one good recovery link, and it changes the password once.
THEOREM SempreUmLink == Spec => []UmLink
<1>1. SessoesInd => UmLink
  <2>1. SUFFICES ASSUME SessoesInd PROVE UmLink
    OBVIOUS
  <2>2. ASSUME NEW u \in Usuarios PROVE Cardinality(LinksDe(u)) <= 1
    <3>1. \A l, m \in LinksDe(u) : l = m
      BY <2>1 DEF SessoesInd, LinhasInd, LinksDe
    <3>2. CASE LinksDe(u) = {}
      BY <3>2, FS_EmptySet
    <3>3. CASE \E l : l \in LinksDe(u)
      <4>1. PICK l : l \in LinksDe(u)
        BY <3>3
      <4>2. LinksDe(u) = {l}
        BY <3>1, <4>1
      <4>3. Cardinality(LinksDe(u)) = 1
        BY <4>2, FS_Singleton
      <4>4. QED
        BY <4>3
    <3>4. QED
      BY <3>2, <3>3
  <2>3. ASSUME NEW t \in Chamadas, NEW o \in Chamadas,
               tx[t].op = "redefinir", tx[o].op = "redefinir", resp[t] = "FEITO",
               resp[o] = "FEITO", tx[t].alvo = tx[o].alvo
        PROVE  t = o
    BY <2>1, <2>3 DEF SessoesInd, ParInd
  <2>4. QED
    BY <2>2, <2>3 DEF UmLink
<1>2. QED
  BY <1>1, SessoesIndutivo, PTL

\* A challenge never outlives the second factor that it asks for.
THEOREM DesafioSempreComFator == Spec => []DesafioSoComFator
<1>1. SessoesInd => DesafioSoComFator
  BY DEF SessoesInd, LinhasInd
<1>2. QED
  BY <1>1, SessoesIndutivo, PTL

\* The request that set the password in force is over.
SenhaInd ==
    \A u \in Usuarios : usuario[u].senha \in Chamadas => tx[usuario[u].senha].passo = "fim"

EncerraInd == SenhaInd /\ RedefinirEncerra

\* A request moves only itself, and not once it is over.
LEMMA SoASua ==
    ASSUME SessoesInd, Next
    PROVE  \A o \in Chamadas : tx[o].passo = "fim" => tx'[o] = tx[o]
<1>1. tx \in [Chamadas -> Andamentos] /\ TypeOK
  BY DEF SessoesInd, TypeOK
<1> SUFFICES ASSUME NEW o \in Chamadas, tx[o].passo = "fim" PROVE tx'[o] = tx[o]
  OBVIOUS
<1>2. ASSUME NEW t \in Chamadas, tx[t].passo # "fim", NEW n, tx' = [tx EXCEPT ![t] = n]
      PROVE  tx'[o] = tx[o]
  BY <1>1, <1>2
<1>3. ASSUME NEW t \in Chamadas, tx[t].passo # "fim", NEW x, Responder(t, x)
      PROVE  tx'[o] = tx[o]
  BY <1>1, <1>3 DEF Responder
<1>4. ASSUME NEW t \in Chamadas,
             LerLogin(t) \/ Desafiar(t) \/ LerFator(t) \/ Consumir(t) \/ Inserir(t) \/ Chegar(t)
      PROVE  tx'[o] = tx[o]
  BY <1>1, <1>2, <1>3, <1>4 DEF LerLogin, Desafiar, DesafiarSe, LerFator, Consumir, ConsumirSe,
                                Inserir, Chegar, Em, Ir, Negar
<1>5. ASSUME NEW t \in Chamadas,
             \/ Decidir(t) \/ Reivindicar(t) \/ Emitir(t)
             \/ LogoutSair(t) \/ VarrerSessoes(t) \/ VarrerTokens(t) \/ Gravar(t)
      PROVE  tx'[o] = tx[o]
  BY <1>1, <1>2, <1>3, <1>5 DEF Decidir, DecidirSe, Expirou, Reivindicar, Emitir, LogoutSair,
                                VarrerSessoes, VarrerTokens, Gravar, Em, Ir, Negar
<1>6. ASSUME NEW t \in Chamadas,
             \/ LerVincular(t) \/ Vincular(t) \/ Configurar(t) \/ LerLigar(t) \/ Ligar(t)
             \/ Desligar(t)
      PROVE  tx'[o] = tx[o]
  BY <1>1, <1>2, <1>3, <1>6 DEF LerVincular, Vincular, Configurar, LerLigar, Ligar, Desligar, Em,
                                Negar
<1>7. ASSUME NEW t \in Chamadas,
             \/ Atualizar(t) \/ LerSenha(t) \/ TrocarSenha(t) \/ Solicitar(t) \/ CriarLink(t)
             \/ LerLink(t) \/ Redefinir(t) \/ Abortar(t)
      PROVE  tx'[o] = tx[o]
  BY <1>1, <1>2, <1>3, <1>7 DEF Atualizar, AtualizarCom, LerSenha, TrocarSenha, Solicitar,
                                SolicitarCom, CriarLink, LerLink, Redefinir, TravarRedefinir,
                                Abortar, Em, Ir, Negar
<1>8. QED
  BY <1>4, <1>5, <1>6, <1>7 DEF Next, Tempo

\* A password changes only when a request commits it.
LEMMA SenhaFica ==
    ASSUME SessoesInd, Next, \A t \in Chamadas : ~Gravar(t)
    PROVE  \A u \in Usuarios : usuario'[u].senha = usuario[u].senha
<1>1. usuario \in [Usuarios -> Contas]
  BY DEF SessoesInd, TypeOK
<1> SUFFICES ASSUME NEW u \in Usuarios PROVE usuario'[u].senha = usuario[u].senha
  OBVIOUS
<1>2. ASSUME NEW t \in Chamadas, Desafiar(t) \/ Consumir(t)
      PROVE  usuario'[u].senha = usuario[u].senha
  BY <1>1, <1>2 DEF Desafiar, DesafiarSe, Consumir, ConsumirSe, Contas, Negar, tabelas
<1>3. ASSUME NEW t \in Chamadas, Configurar(t) \/ Vincular(t)
      PROVE  usuario'[u].senha = usuario[u].senha
  BY <1>1, <1>3 DEF Configurar, Vincular, Contas, Negar, tabelas
<1>4. ASSUME NEW t \in Chamadas, Desligar(t)
      PROVE  usuario'[u].senha = usuario[u].senha
  <2> DEFINE n == [usuario[tx[t].u] EXCEPT !.fator = FALSE, !.segredo = Nada, !.codigos = {},
                                         !.desafio = Nada]
  <2>1. tx[t].u \in Usuarios /\ usuario[tx[t].u] \in Contas
    BY <1>4, DoPedido DEF Desligar, Em
  <2>2. n.senha = usuario[tx[t].u].senha
    BY <2>1 DEF Contas
  <2>3. usuario' = usuario \/ usuario' = [usuario EXCEPT ![tx[t].u] = n]
    BY <1>4 DEF Desligar, Negar, tabelas
  <2> HIDE DEF n
  <2>4. QED
    BY <1>1, <2>1, <2>2, <2>3
<1>5. ASSUME NEW t \in Chamadas,
             LerLogin(t) \/ LerFator(t) \/ Inserir(t) \/ Chegar(t) \/ Decidir(t) \/ Reivindicar(t)
             \/ Emitir(t) \/ LogoutSair(t) \/ VarrerSessoes(t) \/ VarrerTokens(t)
      PROVE  usuario' = usuario
  BY <1>5 DEF LerLogin, LerFator, Inserir, Chegar, Decidir, DecidirSe, Expirou, Reivindicar, Emitir,
              LogoutSair, VarrerSessoes, VarrerTokens, SoTx, Negar, tabelas
<1>6. ASSUME NEW t \in Chamadas,
             LerVincular(t) \/ LerLigar(t) \/ Ligar(t) \/ Atualizar(t) \/ LerSenha(t)
             \/ TrocarSenha(t) \/ Solicitar(t) \/ CriarLink(t) \/ LerLink(t) \/ Redefinir(t)
             \/ Abortar(t)
      PROVE  usuario' = usuario
  BY <1>6 DEF LerVincular, LerLigar, Ligar, Atualizar, AtualizarCom, LerSenha, TrocarSenha,
              Solicitar, SolicitarCom, CriarLink, LerLink, Redefinir, TravarRedefinir, Abortar,
              SoTx, Negar, tabelas
<1>7. QED
  BY <1>2, <1>3, <1>4, <1>5, <1>6 DEF Next, Tempo

\* A live session was live before, with its owner and password, or begins under the password
\* in force.
LEMMA VivaFica ==
    ASSUME SessoesInd, Next, \A t \in Chamadas : ~Gravar(t),
           NEW s \in Ids, sessao'[s].estado = "viva"
    PROVE  \/ /\ sessao[s].estado = "viva" /\ sessao'[s].dono = sessao[s].dono
              /\ sessao'[s].sob = sessao[s].sob
           \/ /\ sessao'[s].dono \in Usuarios
              /\ sessao'[s].sob = usuario[sessao'[s].dono].senha
<1>1. sessao \in [Ids -> Registros]
  BY DEF SessoesInd, TypeOK
<1>2. CASE UNCHANGED sessao
  BY <1>2
<1>3. CASE \E i \in Ids : Tempo(i)
  BY <1>1, <1>3 DEF Tempo, Registros
<1>4. ASSUME NEW t \in Chamadas, Emitir(t)
      PROVE  /\ sessao'[s].estado = sessao[s].estado /\ sessao'[s].dono = sessao[s].dono
             /\ sessao'[s].sob = sessao[s].sob
  BY <1>1, <1>4 DEF Emitir, Registros
<1>5. ASSUME NEW t \in Chamadas, Inserir(t)
      PROVE  \/ sessao'[s] = sessao[s]
             \/ /\ sessao'[s].dono \in Usuarios
                /\ sessao'[s].sob = usuario[sessao'[s].dono].senha
  <2>1. tx[t].u \in Usuarios
    BY <1>5, DoPedido DEF Inserir, Em
  <2>2. QED
    BY <1>1, <1>5, <2>1 DEF Inserir, SessaoCom
<1>6. ASSUME NEW t \in Chamadas,
             LerLogin(t) \/ Desafiar(t) \/ LerFator(t) \/ Consumir(t) \/ Chegar(t) \/ Decidir(t)
             \/ Reivindicar(t) \/ LogoutSair(t) \/ VarrerSessoes(t) \/ VarrerTokens(t)
      PROVE  UNCHANGED sessao
  BY <1>6 DEF LerLogin, Desafiar, DesafiarSe, LerFator, Consumir, ConsumirSe, Chegar, Decidir,
              DecidirSe, Expirou, Reivindicar, LogoutSair, VarrerSessoes, VarrerTokens, SoTx, Negar,
              tabelas
<1>7. ASSUME NEW t \in Chamadas,
             LerVincular(t) \/ Vincular(t) \/ Configurar(t) \/ LerLigar(t) \/ Ligar(t)
             \/ Desligar(t) \/ Atualizar(t) \/ LerSenha(t)
      PROVE  UNCHANGED sessao
  BY <1>7 DEF LerVincular, Vincular, Configurar, LerLigar, Ligar, Desligar, Atualizar,
              AtualizarCom, LerSenha, SoTx, Negar, tabelas
<1>8. ASSUME NEW t \in Chamadas,
             TrocarSenha(t) \/ Solicitar(t) \/ CriarLink(t) \/ LerLink(t) \/ Redefinir(t)
             \/ Abortar(t)
      PROVE  UNCHANGED sessao
  BY <1>8 DEF TrocarSenha, Solicitar, SolicitarCom, CriarLink, LerLink, Redefinir, TravarRedefinir,
              Abortar, SoTx, Negar, tabelas
<1>9. QED
  BY <1>2, <1>3, <1>4, <1>5, <1>6, <1>7, <1>8 DEF Next

\* Every step but the commit of a change.
LEMMA EncerraPasso ==
    ASSUME SessoesInd, EncerraInd, Next, \A t \in Chamadas : ~Gravar(t)
    PROVE  EncerraInd'
<1>1. \A u \in Usuarios : usuario'[u].senha = usuario[u].senha
  BY SenhaFica
<1>2. \A u \in Usuarios : usuario[u].senha \in Chamadas =>
         tx[usuario[u].senha].passo = "fim" /\ tx'[usuario[u].senha] = tx[usuario[u].senha]
  BY SoASua DEF EncerraInd, SenhaInd
<1>3. SenhaInd'
  BY <1>1, <1>2 DEF SenhaInd
<1>4. ASSUME NEW s \in Ids, sessao'[s].estado = "viva",
             usuario'[sessao'[s].dono].senha \in Chamadas,
             tx'[usuario'[sessao'[s].dono].senha].op = "redefinir"
      PROVE  sessao'[s].sob = usuario'[sessao'[s].dono].senha
  <2>1. CASE /\ sessao[s].estado = "viva" /\ sessao'[s].dono = sessao[s].dono
             /\ sessao'[s].sob = sessao[s].sob
    <3>1. sessao[s].dono \in Usuarios
      BY <2>1 DEF SessoesInd, LinhasInd, TypeOK, Registros
    <3>2. QED
      BY <1>1, <1>2, <1>4, <2>1, <3>1 DEF EncerraInd, RedefinirEncerra
  <2>2. CASE sessao'[s].dono \in Usuarios /\ sessao'[s].sob = usuario[sessao'[s].dono].senha
    BY <1>1, <2>2
  <2>3. QED
    BY <1>4, <2>1, <2>2, VivaFica
<1>5. QED
  BY <1>3, <1>4 DEF EncerraInd, RedefinirEncerra

\* The commit: a reset ends every session of its user, the others leave the password or are
\* no reset.
LEMMA EncerraGravar ==
    ASSUME SessoesInd, EncerraInd, Next, NEW t \in Chamadas, Gravar(t)
    PROVE  EncerraInd'
<1> DEFINE u == tx[t].u
<1>1. tx[t].passo = "gravar" /\ usuario' = [usuario EXCEPT ![u] = Conta(t)]
  BY DEF Gravar
<1>2. /\ usuario \in [Usuarios -> Contas] /\ u \in Usuarios /\ usuario[u] \in Contas
      /\ RedefinirInd(t)
  BY <1>1, DoPedido DEF SessoesInd, ChamadaInd
<1>3. tx'[t].passo = "fim" /\ tx'[t].op = tx[t].op
  BY Resposta DEF Gravar, SessoesInd, Respostas
<1>4. Conta(t).senha = IF tx[t].op \in {"trocar", "redefinir"} THEN t ELSE usuario[u].senha
  <2>1. CASE tx[t].op \in {"desativar", "ativar", "rebaixar", "promover", "ligar"}
    BY <1>2, <2>1 DEF Conta, Contas
  <2>2. CASE tx[t].op \in {"trocar", "redefinir"}
    BY <1>2, <2>2 DEF Conta, Contas
  <2>3. CASE tx[t].op \notin {"desativar", "ativar", "rebaixar", "promover", "ligar", "trocar",
                              "redefinir"}
    BY <2>3 DEF Conta
  <2>4. QED
    BY <2>1, <2>2, <2>3
<1>5. /\ \A v \in Usuarios \ {u} : usuario'[v].senha = usuario[v].senha
      /\ usuario'[u].senha = IF tx[t].op \in {"trocar", "redefinir"} THEN t ELSE usuario[u].senha
  BY <1>1, <1>2, <1>4
<1>6. \A v \in Usuarios : usuario[v].senha \in Chamadas =>
         tx[usuario[v].senha].passo = "fim" /\ tx'[usuario[v].senha] = tx[usuario[v].senha]
  BY SoASua DEF EncerraInd, SenhaInd
<1>7. SenhaInd'
  BY <1>3, <1>5, <1>6 DEF SenhaInd
<1>8. ASSUME NEW s \in Ids, sessao'[s].estado = "viva",
             usuario'[sessao'[s].dono].senha \in Chamadas,
             tx'[usuario'[sessao'[s].dono].senha].op = "redefinir"
      PROVE  sessao'[s].sob = usuario'[sessao'[s].dono].senha
  <2>1. s \notin tx[t].ses /\ sessao'[s] = sessao[s]
    BY <1>8, GravarLinhas
  <2>2. sessao[s].dono \in Usuarios
    BY <1>8, <2>1 DEF SessoesInd, LinhasInd, TypeOK, Registros
  <2>3. CASE sessao[s].dono = u /\ tx[t].op \in {"trocar", "redefinir"}
    <3>1. tx[t].op = "redefinir"
      BY <1>3, <1>5, <1>8, <2>1, <2>3
    <3>2. s \in tx[t].ses
      BY <1>1, <1>2, <2>3, <3>1 DEF RedefinirInd, DoUsuario
    <3>3. QED
      BY <2>1, <3>2
  <2>4. CASE ~(sessao[s].dono = u /\ tx[t].op \in {"trocar", "redefinir"})
    <3>1. usuario'[sessao[s].dono].senha = usuario[sessao[s].dono].senha
      BY <1>5, <2>2, <2>4
    <3>2. QED
      BY <1>6, <1>8, <2>1, <2>2, <3>1 DEF EncerraInd, RedefinirEncerra
  <2>5. QED
    BY <2>3, <2>4
<1>9. QED
  BY <1>7, <1>8 DEF EncerraInd, RedefinirEncerra

\* While a password that a reset set is in force, every live session of the user began after
\* the reset, for any users, codes and requests.
THEOREM RedefinirSempreEncerra == Spec => []RedefinirEncerra
<1>1. Init => EncerraInd
  <2>1. SUFFICES ASSUME Init PROVE EncerraInd
    OBVIOUS
  <2>2. ASSUME NEW u \in Usuarios PROVE usuario[u].senha = u
    BY <2>1 DEF Init
  <2>3. ASSUME NEW s \in Ids, sessao[s].estado = "viva" PROVE sessao[s].dono \in Usuarios
    <3>1. sessao[s] = IF s \in Usuarios THEN SessaoCom(s, "viva", s)
                                        ELSE SessaoCom(Nada, "nenhuma", Nada)
      BY <2>1 DEF Init
    <3>2. QED
      BY <2>3, <3>1 DEF SessaoCom
  <2>4. QED
    BY <2>2, <2>3 DEF EncerraInd, SenhaInd, RedefinirEncerra
<1>2. SessoesInd /\ EncerraInd /\ [Next]_vars => EncerraInd'
  <2>1. SUFFICES ASSUME SessoesInd, EncerraInd, [Next]_vars PROVE EncerraInd'
    OBVIOUS
  <2>2. CASE UNCHANGED vars
    BY <2>1, <2>2 DEF vars, EncerraInd, SenhaInd, RedefinirEncerra
  <2>3. CASE Next
    BY <2>1, <2>3, EncerraPasso, EncerraGravar
  <2>4. QED
    BY <2>1, <2>2, <2>3
<1>3. EncerraInd => RedefinirEncerra
  BY DEF EncerraInd
<1>4. QED
  BY <1>1, <1>2, <1>3, SessoesIndutivo, PTL DEF Spec

-----------------------------------------------------------------------------
(***************************************************************************)
(* The second factor: where a code and a challenge come from, what a       *)
(* request has seen of them, and what it has spent.                        *)
(***************************************************************************)
DoFator == {"verificar", "desligar", "vincular"}

\* c was given to u, at the start or by an enable2fa that is over.
CodigoDe(c, u) ==
    c[2] = u \/ (c[2] \in Chamadas /\ tx[c[2]].passo = "fim" /\ tx[c[2]].u = u)

ContaFatorInd(u) ==
    /\ \A c \in usuario[u].codigos : CodigoDe(c, u)
    /\ usuario[u].desafio # Nada =>
          tx[usuario[u].desafio].passo = "fim" /\ tx[usuario[u].desafio].u = u

\* What the request read of the account has the code it carries.
VistoInd(t) ==
    /\ tx[t].op \in {"desligar", "vincular"} => tx[t].alvo = Nada
    /\ Em(t, {"verificar"}, "consumir") => tx[t].codigo \in tx[t].visto.codigos
    /\ Em(t, {"desligar"}, "mudar") => tx[t].codigo \in tx[t].visto.codigos
    /\ Em(t, {"vincular"}, "mudar") => tx[t].codigo = Nada \/ tx[t].codigo \in tx[t].visto.codigos

\* The request has consumed its code and its challenge.
Gastou(t) ==
    \/ Em(t, {"verificar"}, "inserir")
    \/ Em(t, DoFator, "fim") /\ resp[t] = "FEITO"

\* What was spent is in no account any more, and whoever gave it is over.
GastoInd(t) ==
    Gastou(t) =>
        /\ tx[t].codigo # Nada =>
              /\ tx[t].codigo[2] \in Chamadas => tx[tx[t].codigo[2]].passo = "fim"
              /\ \A v \in Usuarios : tx[t].codigo \notin usuario[v].codigos
        /\ tx[t].alvo # Nada =>
              /\ tx[t].alvo \in Chamadas => tx[tx[t].alvo].passo = "fim"
              /\ \A v \in Usuarios : usuario[v].desafio # tx[t].alvo

ParFatorInd(t, o) ==
    Gastou(t) /\ Gastou(o) =>
        /\ tx[t].codigo = tx[o].codigo => tx[t].codigo = Nada
        /\ tx[t].alvo = tx[o].alvo => tx[t].alvo = Nada

FatorInd ==
    /\ \A u \in Usuarios : ContaFatorInd(u)
    /\ \A t \in Chamadas : VistoInd(t) /\ GastoInd(t)
    /\ \A t, o \in Chamadas : t # o => ParFatorInd(t, o)

-----------------------------------------------------------------------------
\* t spends in this step what the account still has.
Gasta(t) ==
    LET u == tx[t].u IN
    /\ u \in Usuarios
    /\ tx'[t].codigo = Nada \/ tx'[t].codigo \in usuario[u].codigos \ usuario'[u].codigos
    /\ tx'[t].alvo = Nada \/ (/\ tx'[t].alvo = usuario[u].desafio
                              /\ usuario'[u].desafio # tx'[t].alvo)

\* An account loses codes or its challenge, or gets those of t.
ContaDe(t, v) ==
    /\ \A c \in usuario'[v].codigos :
          c \in usuario[v].codigos \/ (c[2] = t /\ tx'[t].passo = "fim" /\ tx'[t].u = v)
    /\ \/ usuario'[v].desafio \in {usuario[v].desafio, Nada}
       \/ usuario'[v].desafio = t /\ tx'[t].passo = "fim" /\ tx'[t].u = v

\* What was given by a request that is over stays of its account only.
LEMMA GastoFica ==
    ASSUME FatorInd, NEW t \in Chamadas, tx[t].passo # "fim",
           \A v \in Usuarios : ContaDe(t, v)
    PROVE  /\ \A c : (/\ c[2] \in Chamadas => tx[c[2]].passo = "fim"
                      /\ \A v \in Usuarios : c \notin usuario[v].codigos)
                  => \A v \in Usuarios : c \notin usuario'[v].codigos
           /\ \A d \in Ids : (/\ d \in Chamadas => tx[d].passo = "fim"
                      /\ \A v \in Usuarios : usuario[v].desafio # d)
                  => \A v \in Usuarios : usuario'[v].desafio # d
<1>1. ASSUME NEW c, c[2] \in Chamadas => tx[c[2]].passo = "fim", NEW v \in Usuarios,
             c \notin usuario[v].codigos
      PROVE  c \notin usuario'[v].codigos
  BY <1>1 DEF ContaDe
<1>2. ASSUME NEW d \in Ids, d \in Chamadas => tx[d].passo = "fim", NEW v \in Usuarios,
             usuario[v].desafio # d
      PROVE  usuario'[v].desafio # d
  BY <1>2, Vazio DEF ContaDe
<1>3. QED
  BY <1>1, <1>2

LEMMA GastaNovo ==
    ASSUME SessoesInd, FatorInd, NEW t \in Chamadas, tx[t].passo # "fim",
           \A v \in Usuarios : ContaDe(t, v), Gasta(t)
    PROVE  /\ tx'[t].codigo # Nada =>
                 /\ tx'[t].codigo[2] \in Chamadas => tx[tx'[t].codigo[2]].passo = "fim"
                 /\ \A v \in Usuarios : tx'[t].codigo \notin usuario'[v].codigos
           /\ tx'[t].alvo # Nada =>
                 /\ tx'[t].alvo \in Chamadas /\ tx[tx'[t].alvo].passo = "fim"
                 /\ \A v \in Usuarios : usuario'[v].desafio # tx'[t].alvo
           /\ \A o \in Chamadas : Gastou(o) =>
                 /\ tx'[t].codigo = tx[o].codigo => tx'[t].codigo = Nada
                 /\ tx'[t].alvo = tx[o].alvo => tx'[t].alvo = Nada
<1> DEFINE u == tx[t].u
           c == tx'[t].codigo
           d == tx'[t].alvo
<1>1. u \in Usuarios /\ ContaFatorInd(u) /\ usuario[u].desafio \in Chamadas \cup {Nada}
  BY DEF Gasta, FatorInd, SessoesInd, TypeOK, Contas
<1>2. ASSUME c # Nada
      PROVE  /\ c[2] \in Chamadas => tx[c[2]].passo = "fim"
             /\ \A v \in Usuarios : c \notin usuario'[v].codigos
  <2>1. c \in usuario[u].codigos /\ c \notin usuario'[u].codigos /\ CodigoDe(c, u)
    BY <1>1, <1>2 DEF Gasta, ContaFatorInd
  <2>2. c[2] \in Chamadas => tx[c[2]].passo = "fim" /\ tx[c[2]].u = u
    BY <1>1, <2>1 DEF CodigoDe
  <2>3. ASSUME NEW v \in Usuarios, c \in usuario'[v].codigos
        PROVE  FALSE
    <3>1. c[2] # t
      BY <2>2
    <3>2. c \in usuario[v].codigos
      BY <2>3, <3>1 DEF ContaDe
    <3>3. CodigoDe(c, v)
      BY <3>2 DEF FatorInd, ContaFatorInd
    <3>4. v = u
      BY <1>1, <2>1, <2>2, <3>3 DEF CodigoDe
    <3>5. QED
      BY <2>1, <2>3, <3>4
  <2>4. QED
    BY <2>2, <2>3
<1>3. ASSUME d # Nada
      PROVE  /\ d \in Chamadas /\ tx[d].passo = "fim"
             /\ \A v \in Usuarios : usuario'[v].desafio # d
  <2>1. d = usuario[u].desafio /\ usuario'[u].desafio # d
    BY <1>1, <1>3 DEF Gasta
  <2>2. tx[d].passo = "fim" /\ tx[d].u = u /\ d \in Chamadas
    BY <1>1, <1>3, <2>1 DEF ContaFatorInd
  <2>3. ASSUME NEW v \in Usuarios, usuario'[v].desafio = d
        PROVE  FALSE
    <3>1. usuario[v].desafio = d
      BY <1>3, <2>2, <2>3 DEF ContaDe
    <3>2. tx[d].u = v
      BY <1>3, <3>1 DEF FatorInd, ContaFatorInd
    <3>3. QED
      BY <2>1, <2>2, <2>3, <3>2
  <2>4. QED
    BY <2>2, <2>3
<1>4. ASSUME NEW o \in Chamadas, Gastou(o)
      PROVE  /\ c = tx[o].codigo => c = Nada
             /\ d = tx[o].alvo => d = Nada
  <2>1. GastoInd(o)
    BY DEF FatorInd
  <2>2. c # Nada => c \in usuario[u].codigos
    BY DEF Gasta
  <2>3. d # Nada => d = usuario[u].desafio
    BY DEF Gasta
  <2>4. QED
    BY <1>1, <1>4, <2>1, <2>2, <2>3 DEF GastoInd
<1>5. QED
  BY <1>2, <1>3, <1>4

\* A step of t, which is not over, preserves the invariant of the second factor.
LEMMA FatorPasso ==
    ASSUME SessoesInd, SessoesInd', FatorInd, NEW t \in Chamadas, tx[t].passo # "fim",
           \A o \in Chamadas \ {t} : tx'[o] = tx[o] /\ resp'[o] = resp[o],
           \A v \in Usuarios : ContaDe(t, v),
           VistoInd(t)',
           Gastou(t)' => \/ Gastou(t) /\ tx'[t].codigo = tx[t].codigo /\ tx'[t].alvo = tx[t].alvo
                         \/ Gasta(t)
    PROVE  FatorInd'
<1>1. \A o \in Chamadas : tx[o].passo = "fim" => tx'[o].passo = "fim" /\ tx'[o].u = tx[o].u
  OBVIOUS
<1>2. ASSUME NEW v \in Usuarios
      PROVE  ContaFatorInd(v)'
  <2>1. ContaFatorInd(v) /\ ContaDe(t, v) /\ usuario[v].desafio \in Chamadas \cup {Nada}
    BY DEF FatorInd, SessoesInd, TypeOK, Contas
  <2>2. ASSUME NEW c \in usuario'[v].codigos
        PROVE  CodigoDe(c, v)'
    <3>1. CASE c \in usuario[v].codigos
      BY <1>1, <2>1, <3>1 DEF ContaFatorInd, CodigoDe
    <3>2. CASE c[2] = t /\ tx'[t].passo = "fim" /\ tx'[t].u = v
      BY <3>2 DEF CodigoDe
    <3>3. QED
      BY <2>1, <2>2, <3>1, <3>2 DEF ContaDe
  <2>3. usuario'[v].desafio # Nada =>
          tx'[usuario'[v].desafio].passo = "fim" /\ tx'[usuario'[v].desafio].u = v
    BY <1>1, <2>1 DEF ContaFatorInd, ContaDe
  <2>4. QED
    BY <2>2, <2>3 DEF ContaFatorInd
<1>3. ASSUME NEW o \in Chamadas \ {t}
      PROVE  /\ tx'[o] = tx[o] /\ resp'[o] = resp[o]
             /\ Gastou(o)' <=> Gastou(o)
             /\ VistoInd(o)'
  BY DEF FatorInd, Gastou, VistoInd, Em
<1>4. \A o \in Chamadas : tx[o].alvo \in Ids \cup {Nada}
  BY DEF SessoesInd, TypeOK, Andamentos
<1>5. ASSUME NEW o \in Chamadas, Gastou(o),
             tx'[o].codigo = tx[o].codigo /\ tx'[o].alvo = tx[o].alvo
      PROVE  GastoInd(o)'
  <2>1. GastoInd(o)
    BY DEF FatorInd
  <2>2. tx[o].codigo # Nada =>
          /\ tx[o].codigo[2] \in Chamadas => tx'[tx[o].codigo[2]].passo = "fim"
          /\ \A v \in Usuarios : tx[o].codigo \notin usuario'[v].codigos
    BY <1>1, <1>5, <2>1, GastoFica DEF GastoInd
  <2>3. tx[o].alvo # Nada =>
          /\ tx[o].alvo \in Chamadas => tx'[tx[o].alvo].passo = "fim"
          /\ \A v \in Usuarios : usuario'[v].desafio # tx[o].alvo
    BY <1>1, <1>4, <1>5, <2>1, GastoFica DEF GastoInd
  <2>4. QED
    BY <1>5, <2>2, <2>3 DEF GastoInd
<1>6. ASSUME Gastou(t)'
      PROVE  /\ GastoInd(t)'
             /\ \A o \in Chamadas \ {t} : ParFatorInd(t, o)' /\ ParFatorInd(o, t)'
  <2>1. CASE Gastou(t) /\ tx'[t].codigo = tx[t].codigo /\ tx'[t].alvo = tx[t].alvo
    <3>1. GastoInd(t)'
      BY <1>5, <2>1
    <3>2. ASSUME NEW o \in Chamadas \ {t}
          PROVE  ParFatorInd(t, o)' /\ ParFatorInd(o, t)'
      <4>1. ParFatorInd(t, o) /\ ParFatorInd(o, t)
        BY DEF FatorInd
      <4>2. QED
        BY <1>3, <2>1, <4>1 DEF ParFatorInd
    <3>3. QED
      BY <3>1, <3>2
  <2>2. CASE Gasta(t)
    <3>1. GastoInd(t)'
      BY <1>1, <2>2, GastaNovo DEF GastoInd
    <3>2. ASSUME NEW o \in Chamadas \ {t}
          PROVE  ParFatorInd(t, o)' /\ ParFatorInd(o, t)'
      BY <1>3, <2>2, GastaNovo DEF ParFatorInd
    <3>3. QED
      BY <3>1, <3>2
  <2>3. QED
    BY <1>6, <2>1, <2>2
<1>7. ASSUME NEW o \in Chamadas
      PROVE  VistoInd(o)' /\ GastoInd(o)'
  <2>1. CASE o = t
    BY <1>6, <2>1 DEF GastoInd
  <2>2. CASE o # t
    <3>1. Gastou(o)' => GastoInd(o)'
      BY <1>3, <1>5, <2>2
    <3>2. QED
      BY <1>3, <2>2, <3>1 DEF GastoInd
  <2>3. QED
    BY <2>1, <2>2
<1>8. ASSUME NEW a \in Chamadas, NEW b \in Chamadas, a # b
      PROVE  ParFatorInd(a, b)'
  <2>1. CASE a # t /\ b # t
    <3>1. ParFatorInd(a, b)
      BY <1>8 DEF FatorInd
    <3>2. QED
      BY <1>3, <2>1, <3>1 DEF ParFatorInd
  <2>2. CASE a = t
    BY <1>6, <1>8, <2>2 DEF ParFatorInd
  <2>3. CASE b = t
    BY <1>6, <1>8, <2>3 DEF ParFatorInd
  <2>4. QED
    BY <2>1, <2>2, <2>3
<1>9. QED
  BY <1>2, <1>7, <1>8 DEF FatorInd

-----------------------------------------------------------------------------
LEMMA MesmasContas ==
    ASSUME NEW t \in Chamadas, UNCHANGED usuario
    PROVE  \A v \in Usuarios : ContaDe(t, v)
  BY DEF ContaDe

\* A call that is answered with nothing spent.
LEMMA NegaFator ==
    ASSUME SessoesInd, SessoesInd', FatorInd, NEW t \in Chamadas, NEW x \in Respostas,
           Responder(t, x), tx[t].passo # "fim", x # "FEITO" \/ tx[t].op \notin DoFator,
           \A v \in Usuarios : ContaDe(t, v)
    PROVE  FatorInd'
<1>1. /\ \A o \in Chamadas \ {t} : tx'[o] = tx[o] /\ resp'[o] = resp[o]
      /\ tx'[t].passo = "fim" /\ resp'[t] = x
      /\ tx'[t].op = tx[t].op /\ tx'[t].alvo = tx[t].alvo
  BY Resposta DEF SessoesInd
<1>2. VistoInd(t)'
  <2>1. VistoInd(t)
    BY DEF FatorInd
  <2>2. QED
    BY <1>1, <2>1 DEF VistoInd, Em
<1>3. ~Gastou(t)'
  BY <1>1 DEF Gastou, Em
<1>4. QED
  BY <1>1, <1>2, <1>3, FatorPasso

\* A call that goes on, of another kind or to where nothing of the factor is read or spent.
LEMMA AndaFator ==
    ASSUME SessoesInd, SessoesInd', FatorInd, NEW t \in Chamadas, tx[t].passo # "fim",
           UNCHANGED <<usuario, resp>>,
           \A o \in Chamadas \ {t} : tx'[o] = tx[o],
           tx'[t].op = tx[t].op, tx'[t].alvo = tx[t].alvo, tx'[t].passo # "fim",
           tx[t].op \notin DoFator
    PROVE  FatorInd'
<1>1. VistoInd(t)'
  BY DEF VistoInd, Em, DoFator
<1>2. ~Gastou(t)'
  BY DEF Gastou, Em, DoFator
<1>3. QED
  BY <1>1, <1>2, MesmasContas, FatorPasso

\* The requests that never touch codes.
LEMMA OutrosAndam ==
    ASSUME SessoesInd, SessoesInd', FatorInd, NEW t \in Chamadas,
           \/ Decidir(t) \/ Reivindicar(t) \/ LogoutSair(t) \/ VarrerSessoes(t)
           \/ VarrerTokens(t) \/ Ligar(t) \/ Atualizar(t) \/ LerSenha(t) \/ TrocarSenha(t)
           \/ Solicitar(t) \/ LerLink(t) \/ Redefinir(t) \/ LerLogin(t)
    PROVE  FatorInd'
<1>1. tx[t].passo # "fim" /\ tx[t].op \notin DoFator
  BY DEF Decidir, DecidirSe, Reivindicar, LogoutSair, VarrerSessoes, VarrerTokens, Ligar,
         Atualizar, AtualizarCom, LerSenha, TrocarSenha, Solicitar, SolicitarCom, LerLink,
         Redefinir, TravarRedefinir, LerLogin, Em, DoFator, Entradas, Varredores, Atualizacoes
<1>2. ASSUME NEW x \in Respostas, Negar(t, x)
      PROVE  FatorInd'
  BY <1>1, <1>2, MesmasContas, NegaFator DEF Negar, tabelas
<1>3. ASSUME SoTx, \A o \in Chamadas \ {t} : tx'[o] = tx[o],
             tx'[t].op = tx[t].op, tx'[t].alvo = tx[t].alvo, tx'[t].passo # "fim"
      PROVE  FatorInd'
  BY <1>1, <1>3, AndaFator DEF SoTx, tabelas
<1>4. tx[t] \in Andamentos /\ tx \in [Chamadas -> Andamentos]
  BY DEF SessoesInd, TypeOK
<1>5. CASE Decidir(t) \/ Reivindicar(t)
  <2>1. \/ \E x \in Respostas : Negar(t, x)
        \/ SoTx /\ \E p \in {"reivindicar", "sessoes", "emitir"} : \E S :
              \/ tx' = [tx EXCEPT ![t].passo = p, ![t].ses = S]
              \/ tx' = [tx EXCEPT ![t].passo = p, ![t].tok = S]
    BY <1>5 DEF Decidir, DecidirSe, Reivindicar, Expirou, Respostas
  <2>2. ASSUME NEW p \in {"reivindicar", "sessoes", "emitir"}, NEW S,
               \/ tx' = [tx EXCEPT ![t].passo = p, ![t].ses = S]
               \/ tx' = [tx EXCEPT ![t].passo = p, ![t].tok = S]
        PROVE  /\ \A o \in Chamadas \ {t} : tx'[o] = tx[o]
               /\ tx'[t].op = tx[t].op /\ tx'[t].alvo = tx[t].alvo /\ tx'[t].passo # "fim"
    BY <1>4, <2>2 DEF Andamentos
  <2>3. QED
    BY <1>2, <1>3, <2>1, <2>2
<1>6. CASE LogoutSair(t) \/ LerLink(t) \/ LerLogin(t)
  <2>1. \/ \E x \in Respostas : Negar(t, x)
        \/ SoTx /\ \E p \in {"sessoes", "travar", "desafiar", "inserir"} :
              tx' = [tx EXCEPT ![t].passo = p]
    BY <1>6 DEF LogoutSair, LerLink, LerLogin, Ir, Respostas
  <2>2. ASSUME NEW p \in {"sessoes", "travar", "desafiar", "inserir"},
               tx' = [tx EXCEPT ![t].passo = p]
        PROVE  /\ \A o \in Chamadas \ {t} : tx'[o] = tx[o]
               /\ tx'[t].op = tx[t].op /\ tx'[t].alvo = tx[t].alvo /\ tx'[t].passo # "fim"
    BY <1>4, <2>2 DEF Andamentos
  <2>3. QED
    BY <1>2, <1>3, <2>1, <2>2
<1>7. CASE VarrerSessoes(t) \/ VarrerTokens(t)
  <2>1. SoTx /\ \E p \in {"tokens", "gravar"} : \E S :
              \/ tx' = [tx EXCEPT ![t].passo = p, ![t].ses = S]
              \/ tx' = [tx EXCEPT ![t].passo = p, ![t].tok = S]
    BY <1>7 DEF VarrerSessoes, VarrerTokens
  <2>2. ASSUME NEW p \in {"tokens", "gravar"}, NEW S,
               \/ tx' = [tx EXCEPT ![t].passo = p, ![t].ses = S]
               \/ tx' = [tx EXCEPT ![t].passo = p, ![t].tok = S]
        PROVE  /\ \A o \in Chamadas \ {t} : tx'[o] = tx[o]
               /\ tx'[t].op = tx[t].op /\ tx'[t].alvo = tx[t].alvo /\ tx'[t].passo # "fim"
    BY <1>4, <2>2 DEF Andamentos
  <2>3. QED
    BY <1>3, <2>1, <2>2
<1>8. CASE Ligar(t) \/ Atualizar(t) \/ TrocarSenha(t) \/ Redefinir(t)
  <2>1. \/ Negar(t, "RECUSADO")
        \/ SoTx /\ \E p \in {"sessoes", "gravar"} : \E S :
              tx' = [tx EXCEPT ![t].passo = p, ![t].usr = S]
    <3>1. CASE Ligar(t)
      BY <3>1 DEF Ligar
    <3>2. CASE Atualizar(t)
      BY <3>2 DEF Atualizar, AtualizarCom
    <3>3. CASE TrocarSenha(t)
      BY <3>3 DEF TrocarSenha
    <3>4. CASE Redefinir(t)
      BY <3>4 DEF Redefinir, TravarRedefinir
    <3>5. QED
      BY <1>8, <3>1, <3>2, <3>3, <3>4
  <2>2. ASSUME NEW p \in {"sessoes", "gravar"}, NEW S,
               tx' = [tx EXCEPT ![t].passo = p, ![t].usr = S]
        PROVE  /\ \A o \in Chamadas \ {t} : tx'[o] = tx[o]
               /\ tx'[t].op = tx[t].op /\ tx'[t].alvo = tx[t].alvo /\ tx'[t].passo # "fim"
    BY <1>4, <2>2 DEF Andamentos
  <2>3. QED
    BY <1>2, <1>3, <2>1, <2>2 DEF Respostas
<1>9. CASE LerSenha(t) \/ Solicitar(t)
  <2>1. \/ Negar(t, "RECUSADO")
        \/ SoTx /\ \E S, L :
              \/ tx' = [tx EXCEPT ![t].passo = "trocar", ![t].visto = S]
              \/ tx' = [tx EXCEPT ![t].passo = "criar", ![t].usr = S, ![t].links = L]
    BY <1>9 DEF LerSenha, Solicitar, SolicitarCom
  <2>2. ASSUME NEW S, NEW L,
               \/ tx' = [tx EXCEPT ![t].passo = "trocar", ![t].visto = S]
               \/ tx' = [tx EXCEPT ![t].passo = "criar", ![t].usr = S, ![t].links = L]
        PROVE  /\ \A o \in Chamadas \ {t} : tx'[o] = tx[o]
               /\ tx'[t].op = tx[t].op /\ tx'[t].alvo = tx[t].alvo /\ tx'[t].passo # "fim"
    BY <1>4, <2>2 DEF Andamentos
  <2>3. QED
    BY <1>2, <1>3, <2>1, <2>2 DEF Respostas
<1>10. QED
  BY <1>5, <1>6, <1>7, <1>8, <1>9

-----------------------------------------------------------------------------
\* disable2fa and linkGoogle carry no challenge.
LEMMA PedidoSemDesafio ==
    ASSUME SessoesInd, NEW n \in Pedidos
    PROVE  n.passo = "ler" /\ (n.op \in {"desligar", "vincular"} => n.alvo = Nada)
<1>1. n.passo = "ler"
  BY PedidosTipo
<1>2. \E o, u, a, c : n = Pedido(o, u, a, c) /\ (o \in {"desligar", "vincular"} => a = Nada)
  BY DEF Pedidos
<1>3. \A o, u, a, c : Pedido(o, u, a, c).op = o /\ Pedido(o, u, a, c).alvo = a
  BY DEF Pedido, Fora
<1>4. QED
  BY <1>1, <1>2, <1>3

LEMMA ChegarFator ==
    ASSUME SessoesInd, SessoesInd', FatorInd, NEW t \in Chamadas, Chegar(t)
    PROVE  FatorInd'
<1>1. PICK n \in Pedidos : tx' = [tx EXCEPT ![t] = n]
  BY DEF Chegar
<1>2. tx[t].passo = "fora" /\ UNCHANGED <<usuario, resp>>
  BY DEF Chegar, SoTx, tabelas
<1>3. tx'[t] = n /\ \A o \in Chamadas \ {t} : tx'[o] = tx[o]
  BY <1>1 DEF SessoesInd, TypeOK
<1>4. VistoInd(t)' /\ ~Gastou(t)'
  BY <1>3, PedidoSemDesafio DEF VistoInd, Gastou, Em
<1>5. QED
  BY <1>2, <1>3, <1>4, MesmasContas, FatorPasso

\* What a request of the factor reads.
LEMMA LeFator ==
    ASSUME SessoesInd, SessoesInd', FatorInd, NEW t \in Chamadas,
           LerFator(t) \/ LerVincular(t) \/ LerLigar(t)
    PROVE  FatorInd'
<1>1. tx[t].passo = "ler" /\ VistoInd(t)
  BY DEF LerFator, LerVincular, LerLigar, Em, FatorInd
<1>2. CASE Negar(t, "RECUSADO")
  BY <1>1, <1>2, MesmasContas, NegaFator DEF Negar, tabelas, Respostas
<1>3. tx[t] \in Andamentos /\ tx \in [Chamadas -> Andamentos]
  BY DEF SessoesInd, TypeOK
<1>4. ASSUME SoTx, \A o \in Chamadas \ {t} : tx'[o] = tx[o], VistoInd(t)',
             tx'[t].passo \in {"consumir", "mudar"}
      PROVE  FatorInd'
  <2>1. ~Gastou(t)'
    BY <1>4 DEF Gastou, Em
  <2>2. QED
    BY <1>1, <1>4, <2>1, MesmasContas, FatorPasso DEF SoTx, tabelas
<1> DEFINE u == tx[t].u
           r == usuario[u]
<1>5. CASE LerFator(t) /\ ~Negar(t, "RECUSADO")
  <2>1. /\ tx[t].op = "verificar" /\ tx[t].codigo \in r.codigos /\ SoTx
        /\ tx' = [tx EXCEPT ![t].passo = "consumir", ![t].visto = r]
    BY <1>5 DEF LerFator, Em
  <2> HIDE DEF r
  <2>2. /\ \A o \in Chamadas \ {t} : tx'[o] = tx[o]
        /\ tx'[t].op = tx[t].op /\ tx'[t].codigo = tx[t].codigo /\ tx'[t].visto = r
        /\ tx'[t].passo = "consumir"
    BY <1>3, <2>1 DEF Andamentos
  <2>3. VistoInd(t)'
    BY <2>1, <2>2 DEF VistoInd, Em
  <2>4. QED
    BY <1>4, <2>1, <2>2, <2>3
<1>6. CASE LerLigar(t) /\ ~Negar(t, "RECUSADO")
  <2>1. /\ tx[t].op \in {"ligar", "desligar"} /\ SoTx
        /\ tx[t].op = "desligar" => tx[t].codigo \in r.codigos
        /\ tx' = [tx EXCEPT ![t].passo = "mudar", ![t].visto = r]
    BY <1>6 DEF LerLigar, Em
  <2> HIDE DEF r
  <2>2. /\ \A o \in Chamadas \ {t} : tx'[o] = tx[o]
        /\ tx'[t].op = tx[t].op /\ tx'[t].codigo = tx[t].codigo /\ tx'[t].visto = r
        /\ tx'[t].passo = "mudar" /\ tx'[t].alvo = tx[t].alvo
    BY <1>3, <2>1 DEF Andamentos
  <2>3. VistoInd(t)'
    BY <1>1, <2>1, <2>2 DEF VistoInd, Em
  <2>4. QED
    BY <1>4, <2>1, <2>2, <2>3
<1>7. CASE LerVincular(t) /\ ~Negar(t, "RECUSADO")
  <2> DEFINE c == IF r.fator THEN tx[t].codigo ELSE Nada
  <2>1. /\ tx[t].op = "vincular" /\ SoTx
        /\ r.fator => tx[t].codigo \in r.codigos
        /\ tx' = [tx EXCEPT ![t].passo = "mudar", ![t].visto = r, ![t].codigo = c]
    BY <1>7 DEF LerVincular, Em
  <2>2. c = Nada \/ c \in r.codigos
    BY <2>1
  <2> HIDE DEF r, c
  <2>3. /\ \A o \in Chamadas \ {t} : tx'[o] = tx[o]
        /\ tx'[t].op = tx[t].op /\ tx'[t].codigo = c /\ tx'[t].visto = r
        /\ tx'[t].passo = "mudar" /\ tx'[t].alvo = tx[t].alvo
    BY <1>3, <2>1 DEF Andamentos
  <2>4. VistoInd(t)'
    BY <1>1, <2>1, <2>2, <2>3 DEF VistoInd, Em
  <2>5. QED
    BY <1>4, <2>1, <2>3, <2>4
<1>8. QED
  BY <1>2, <1>5, <1>6, <1>7

\* verify2fa answers; a login's session is inserted.
LEMMA InserirFator ==
    ASSUME SessoesInd, SessoesInd', FatorInd, NEW t \in Chamadas, Inserir(t)
    PROVE  FatorInd'
<1>1. tx[t].passo = "inserir" /\ UNCHANGED usuario /\ Responder(t, "FEITO")
  BY DEF Inserir, Em
<1>2. CASE tx[t].op \notin DoFator
  BY <1>1, <1>2, MesmasContas, NegaFator DEF Respostas
<1>3. CASE tx[t].op \in DoFator
  <2>1. tx[t].op = "verificar" /\ Gastou(t)
    BY <1>1, <1>3 DEF Inserir, Em, Entradas, DoFator, Gastou
  <2>2. /\ \A o \in Chamadas \ {t} : tx'[o] = tx[o] /\ resp'[o] = resp[o]
        /\ tx'[t].passo = "fim"
        /\ tx'[t].op = tx[t].op /\ tx'[t].alvo = tx[t].alvo
    BY <1>1, Resposta DEF SessoesInd, Respostas
  <2>3. tx'[t].codigo = tx[t].codigo
    <3>1. tx[t] \in Andamentos /\ tx \in [Chamadas -> Andamentos]
      BY DEF SessoesInd, TypeOK
    <3>2. QED
      BY <1>1, <3>1 DEF Responder, Andamentos
  <2>4. VistoInd(t)'
    BY <2>1, <2>2 DEF VistoInd, Em
  <2>5. QED
    BY <1>1, <2>1, <2>2, <2>3, <2>4, MesmasContas, FatorPasso
<1>4. QED
  BY <1>2, <1>3

-----------------------------------------------------------------------------
\* Only the account of t changes, to r.
LEMMA SoAConta ==
    ASSUME SessoesInd, NEW t \in Chamadas, tx[t].passo # "fora", NEW r,
           usuario' = [usuario EXCEPT ![tx[t].u] = r],
           \A c \in r.codigos : c \in usuario[tx[t].u].codigos
                                \/ (c[2] = t /\ tx'[t].passo = "fim" /\ tx'[t].u = tx[t].u),
           \/ r.desafio \in {usuario[tx[t].u].desafio, Nada}
           \/ r.desafio = t /\ tx'[t].passo = "fim" /\ tx'[t].u = tx[t].u
    PROVE  usuario'[tx[t].u] = r /\ \A v \in Usuarios : ContaDe(t, v)
<1>1. tx[t].u \in Usuarios /\ usuario \in [Usuarios -> Contas]
  BY DoPedido
<1>2. usuario'[tx[t].u] = r /\ \A v \in Usuarios \ {tx[t].u} : usuario'[v] = usuario[v]
  BY <1>1
<1>3. QED
  BY <1>1, <1>2 DEF ContaDe

LEMMA DesafiarFator ==
    ASSUME SessoesInd, SessoesInd', FatorInd, NEW t \in Chamadas, Desafiar(t)
    PROVE  FatorInd'
<1>1. tx[t].passo = "desafiar" /\ tx[t].op \notin DoFator
  BY DEF Desafiar, DesafiarSe, Em, Entradas, DoFator
<1>2. CASE Negar(t, "RECUSADO")
  BY <1>1, <1>2, MesmasContas, NegaFator DEF Negar, tabelas, Respostas
<1>3. CASE usuario' = [usuario EXCEPT ![tx[t].u].desafio = t] /\ Responder(t, "DESAFIO")
  <2> DEFINE r == [usuario[tx[t].u] EXCEPT !.desafio = t]
  <2>1. usuario' = [usuario EXCEPT ![tx[t].u] = r]
    BY <1>3
  <2>2. r.desafio = t /\ r.codigos = usuario[tx[t].u].codigos
    BY <1>1, DoPedido DEF Contas
  <2>3. tx'[t].passo = "fim" /\ tx'[t].u = tx[t].u
    BY <1>3, Resposta DEF SessoesInd, Respostas
  <2> HIDE DEF r
  <2>4. \A v \in Usuarios : ContaDe(t, v)
    BY <1>1, <2>1, <2>2, <2>3, SoAConta
  <2>5. QED
    BY <1>1, <1>3, <2>4, NegaFator DEF Respostas
<1>4. QED
  BY <1>2, <1>3 DEF Desafiar, DesafiarSe

LEMMA ConsumirFator ==
    ASSUME SessoesInd, SessoesInd', FatorInd, NEW t \in Chamadas, Consumir(t)
    PROVE  FatorInd'
<1> DEFINE u == tx[t].u
           r == [usuario[u] EXCEPT !.desafio = Nada, !.codigos = @ \ {tx[t].codigo}]
<1>1. tx[t].passo = "consumir" /\ tx[t].op = "verificar"
  BY DEF Consumir, ConsumirSe, Em
<1>2. CASE Negar(t, "RECUSADO")
  BY <1>1, <1>2, MesmasContas, NegaFator DEF Negar, tabelas, Respostas
<1>3. CASE ~Negar(t, "RECUSADO")
  <2>1. /\ usuario[u].codigos = tx[t].visto.codigos /\ usuario[u].desafio = tx[t].alvo
        /\ usuario' = [usuario EXCEPT ![u].desafio = Nada, ![u].codigos = @ \ {tx[t].codigo}]
        /\ tx' = [tx EXCEPT ![t].passo = "inserir", ![t].visto = Nada]
        /\ resp' = resp
    BY <1>3 DEF Consumir, ConsumirSe, Igual
  <2>2. tx[t].codigo \in usuario[u].codigos
    BY <1>1, <2>1 DEF FatorInd, VistoInd, Em
  <2>3. /\ tx[t] \in Andamentos /\ tx \in [Chamadas -> Andamentos] /\ u \in Usuarios
        /\ usuario[u] \in Contas /\ usuario \in [Usuarios -> Contas]
    BY <1>1, DoPedido
  <2>4. usuario' = [usuario EXCEPT ![u] = r]
    BY <2>1, <2>3 DEF Contas
  <2>5. r.desafio = Nada /\ r.codigos = usuario[u].codigos \ {tx[t].codigo}
    BY <2>3 DEF Contas
  <2>6. /\ \A o \in Chamadas \ {t} : tx'[o] = tx[o]
        /\ tx'[t].op = tx[t].op /\ tx'[t].alvo = tx[t].alvo /\ tx'[t].codigo = tx[t].codigo
        /\ tx'[t].passo = "inserir"
    BY <2>1, <2>3 DEF Andamentos
  <2> HIDE DEF r
  <2>7. usuario'[u] = r /\ \A v \in Usuarios : ContaDe(t, v)
    BY <1>1, <2>4, <2>5, SoAConta
  <2>8. Gasta(t)
    BY <2>1, <2>2, <2>3, <2>5, <2>6, <2>7 DEF Gasta
  <2>9. VistoInd(t)'
    BY <1>1, <2>6 DEF VistoInd, Em
  <2>10. QED
    BY <1>1, <2>1, <2>6, <2>7, <2>8, <2>9, FatorPasso
<1>4. QED
  BY <1>2, <1>3

\* disable2fa and linkGoogle answer and spend their code in one step.
LEMMA GastaFim ==
    ASSUME SessoesInd, SessoesInd', FatorInd, NEW t \in Chamadas,
           tx[t].op \in {"desligar", "vincular"}, tx[t].passo = "mudar",
           Responder(t, "FEITO"), NEW r, usuario' = [usuario EXCEPT ![tx[t].u] = r],
           r.desafio \in {usuario[tx[t].u].desafio, Nada},
           r.codigos \subseteq usuario[tx[t].u].codigos,
           tx[t].codigo = Nada \/ (/\ tx[t].codigo \in usuario[tx[t].u].codigos
                                   /\ tx[t].codigo \notin r.codigos)
    PROVE  FatorInd'
<1>1. /\ \A o \in Chamadas \ {t} : tx'[o] = tx[o] /\ resp'[o] = resp[o]
      /\ tx'[t].passo = "fim"
      /\ tx'[t].op = tx[t].op /\ tx'[t].alvo = tx[t].alvo
  BY Resposta DEF SessoesInd, Respostas
<1>2. tx[t] \in Andamentos /\ tx \in [Chamadas -> Andamentos] /\ tx[t].u \in Usuarios
  BY DoPedido
<1>3. tx'[t].codigo = tx[t].codigo
  BY <1>2 DEF Responder, Andamentos
<1>4. usuario'[tx[t].u] = r /\ \A v \in Usuarios : ContaDe(t, v)
  BY SoAConta
<1>5. VistoInd(t)
  BY DEF FatorInd
<1>6. Gasta(t)
  BY <1>1, <1>2, <1>3, <1>4, <1>5 DEF Gasta, VistoInd
<1>7. VistoInd(t)'
  BY <1>1, <1>5 DEF VistoInd, Em
<1>8. QED
  BY <1>1, <1>4, <1>6, <1>7, FatorPasso

LEMMA DesligarFator ==
    ASSUME SessoesInd, SessoesInd', FatorInd, NEW t \in Chamadas, Desligar(t)
    PROVE  FatorInd'
<1> DEFINE u == tx[t].u
           r == [usuario[u] EXCEPT !.fator = FALSE, !.segredo = Nada, !.codigos = {},
                                   !.desafio = Nada]
<1>1. tx[t].passo = "mudar" /\ tx[t].op = "desligar"
  BY DEF Desligar, Em
<1>2. CASE Negar(t, "RECUSADO")
  BY <1>1, <1>2, MesmasContas, NegaFator DEF Negar, tabelas, Respostas
<1>3. CASE ~Negar(t, "RECUSADO")
  <2>1. /\ usuario[u].codigos = tx[t].visto.codigos /\ Responder(t, "FEITO")
        /\ usuario' = [usuario EXCEPT ![u] = r]
    BY <1>3 DEF Desligar, Igual
  <2>2. tx[t].codigo \in usuario[u].codigos
    BY <1>1, <2>1 DEF FatorInd, VistoInd, Em
  <2>3. r.desafio = Nada /\ r.codigos = {}
    BY <1>1, DoPedido DEF Contas
  <2> HIDE DEF r
  <2>4. QED
    BY <1>1, <2>1, <2>2, <2>3, GastaFim
<1>4. QED
  BY <1>2, <1>3

LEMMA VincularFator ==
    ASSUME SessoesInd, SessoesInd', FatorInd, NEW t \in Chamadas, Vincular(t)
    PROVE  FatorInd'
<1> DEFINE u == tx[t].u
           r == [usuario[u] EXCEPT !.google = TRUE, !.codigos = @ \ {tx[t].codigo}]
<1>1. tx[t].passo = "mudar" /\ tx[t].op = "vincular"
  BY DEF Vincular, Em
<1>2. CASE Negar(t, "RECUSADO")
  BY <1>1, <1>2, MesmasContas, NegaFator DEF Negar, tabelas, Respostas
<1>3. CASE ~Negar(t, "RECUSADO")
  <2>1. /\ usuario[u]["codigos"] = tx[t].visto["codigos"] /\ Responder(t, "FEITO")
        /\ usuario' = [usuario EXCEPT ![u].google = TRUE, ![u].codigos = @ \ {tx[t].codigo}]
    BY <1>3 DEF Vincular
  <2>2. tx[t].codigo = Nada \/ tx[t].codigo \in usuario[u].codigos
    BY <1>1, <2>1 DEF FatorInd, VistoInd, Em
  <2>3. usuario[u] \in Contas /\ usuario \in [Usuarios -> Contas] /\ u \in Usuarios
    BY <1>1, DoPedido
  <2>4. usuario' = [usuario EXCEPT ![u] = r]
    BY <2>1, <2>3 DEF Contas
  <2>5. r.desafio = usuario[u].desafio /\ r.codigos = usuario[u].codigos \ {tx[t].codigo}
    BY <2>3 DEF Contas
  <2> HIDE DEF r
  <2>6. QED
    BY <1>1, <2>1, <2>2, <2>4, <2>5, GastaFim
<1>4. QED
  BY <1>2, <1>3

LEMMA ConfigurarFator ==
    ASSUME SessoesInd, SessoesInd', FatorInd, NEW t \in Chamadas, Configurar(t)
    PROVE  FatorInd'
<1>1. tx[t].passo = "ler" /\ tx[t].op \notin DoFator
  BY DEF Configurar, Em, DoFator
<1>2. CASE Negar(t, "RECUSADO")
  BY <1>1, <1>2, MesmasContas, NegaFator DEF Negar, tabelas, Respostas
<1>3. CASE usuario' = [usuario EXCEPT ![tx[t].u].segredo = t] /\ Responder(t, "FEITO")
  <2> DEFINE r == [usuario[tx[t].u] EXCEPT !.segredo = t]
  <2>1. usuario' = [usuario EXCEPT ![tx[t].u] = r]
    BY <1>3
  <2>2. r.desafio = usuario[tx[t].u].desafio /\ r.codigos = usuario[tx[t].u].codigos
    BY <1>1, DoPedido DEF Contas
  <2> HIDE DEF r
  <2>3. \A v \in Usuarios : ContaDe(t, v)
    BY <1>1, <2>1, <2>2, SoAConta
  <2>4. QED
    BY <1>1, <1>3, <2>3, NegaFator DEF Respostas
<1>4. QED
  BY <1>2, <1>3 DEF Configurar

\* enable2fa gives its codes when it commits; the other changes give none.
LEMMA GravarFator ==
    ASSUME SessoesInd, SessoesInd', FatorInd, NEW t \in Chamadas, Gravar(t)
    PROVE  FatorInd'
<1> DEFINE u == tx[t].u
           Q == Codigos \X {t}
<1>1. tx[t].passo = "gravar" /\ tx[t].op \notin DoFator
  BY DEF Gravar, DoFator, Varredores
<1>2. PICK x \in {"REUSO", "FEITO"} : Responder(t, x)
  BY DEF Gravar
<1>3. tx'[t].passo = "fim" /\ tx'[t].u = u
  BY <1>2, Resposta DEF SessoesInd, Respostas
<1>4. usuario[u] \in Contas
  BY <1>1, DoPedido
<1>5. \A c \in Q : c[2] = t
  OBVIOUS
<1>6. Conta(t).codigos \in {usuario[u].codigos, Q} /\ Conta(t).desafio \in {usuario[u].desafio, Nada}
  <2> HIDE DEF Q
  <2>1. CASE tx[t].op \in {"desativar", "ativar", "rebaixar", "promover"}
    BY <1>4, <2>1 DEF Conta, Contas
  <2>2. CASE tx[t].op \in {"trocar", "redefinir"}
    BY <1>4, <2>2 DEF Conta, Contas
  <2>3. CASE tx[t].op = "ligar"
    <3>1. Conta(t) = [usuario[u] EXCEPT !.fator = TRUE, !.codigos = Q]
      BY <2>3 DEF Conta, Q
    <3>2. QED
      BY <1>4, <3>1 DEF Contas
  <2>4. CASE tx[t].op \notin {"desativar", "ativar", "rebaixar", "promover", "trocar", "redefinir",
                              "ligar"}
    BY <2>4 DEF Conta
  <2>5. QED
    BY <2>1, <2>2, <2>3, <2>4
<1>7. usuario' = [usuario EXCEPT ![u] = Conta(t)]
  BY DEF Gravar
<1> HIDE DEF Q
<1>8. \A c \in Conta(t).codigos : c \in usuario[u].codigos \/ c[2] = t
  BY <1>5, <1>6
<1>9. \A v \in Usuarios : ContaDe(t, v)
  BY <1>1, <1>3, <1>6, <1>7, <1>8, SoAConta
<1>10. QED
  BY <1>1, <1>2, <1>9, NegaFator DEF Respostas

LEMMA RestoFator ==
    ASSUME SessoesInd, SessoesInd', FatorInd, NEW t \in Chamadas,
           Emitir(t) \/ CriarLink(t) \/ Abortar(t)
    PROVE  FatorInd'
<1>1. /\ tx[t].passo # "fim" /\ UNCHANGED usuario
      /\ \/ Responder(t, "FEITO") /\ tx[t].op \notin DoFator
         \/ Responder(t, "FALHA")
  BY DEF Emitir, CriarLink, Abortar, Negar, tabelas, Em, DoFator
<1>2. QED
  BY <1>1, MesmasContas, NegaFator DEF Respostas

LEMMA ParadoFator ==
    ASSUME FatorInd, UNCHANGED <<usuario, tx, resp>>
    PROVE  FatorInd'
<1>1. \A u \in Usuarios : ContaFatorInd(u)'
  BY DEF FatorInd, ContaFatorInd, CodigoDe
<1>2. \A t \in Chamadas : VistoInd(t)' /\ GastoInd(t)' /\ (Gastou(t)' <=> Gastou(t))
  BY DEF FatorInd, VistoInd, GastoInd, Gastou, Em
<1>3. \A t, o \in Chamadas : t # o => ParFatorInd(t, o)'
  BY <1>2 DEF FatorInd, ParFatorInd
<1>4. QED
  BY <1>1, <1>2, <1>3 DEF FatorInd

LEMMA InicioFator ==
    ASSUME Init
    PROVE  FatorInd
<1>1. ASSUME NEW u \in Usuarios
      PROVE  ContaFatorInd(u)
  <2>1. usuario[u].codigos \in {Codigos \X {u}, {}} /\ usuario[u].desafio = Nada
    BY DEF Init
  <2>2. \A c \in usuario[u].codigos : c[2] = u
    BY <2>1
  <2>3. QED
    BY <2>1, <2>2 DEF ContaFatorInd, CodigoDe
<1>2. \A t \in Chamadas : tx[t].passo = "fora" /\ tx[t].op = "sair"
  BY DEF Init, Fora
<1>3. \A t \in Chamadas : VistoInd(t) /\ ~Gastou(t)
  BY <1>2 DEF VistoInd, Gastou, Em, DoFator
<1>4. QED
  BY <1>1, <1>3 DEF FatorInd, GastoInd, ParFatorInd

THEOREM FatorIndutivo == Spec => []FatorInd
<1>1. Init => FatorInd
  BY InicioFator
<1>2. SessoesInd /\ SessoesInd' /\ FatorInd /\ [Next]_vars => FatorInd'
  <2>1. SUFFICES ASSUME SessoesInd, SessoesInd', FatorInd, [Next]_vars PROVE FatorInd'
    OBVIOUS
  <2>2. CASE UNCHANGED vars \/ \E s \in Ids : Tempo(s)
    BY <2>1, <2>2, ParadoFator DEF vars, Tempo
  <2>3. ASSUME NEW t \in Chamadas,
               \/ Decidir(t) \/ Reivindicar(t) \/ LogoutSair(t) \/ VarrerSessoes(t)
               \/ VarrerTokens(t) \/ Ligar(t) \/ Atualizar(t) \/ LerSenha(t) \/ TrocarSenha(t)
               \/ Solicitar(t) \/ LerLink(t) \/ Redefinir(t) \/ LerLogin(t)
        PROVE  FatorInd'
    BY <2>1, <2>3, OutrosAndam
  <2>4. ASSUME NEW t \in Chamadas,
               \/ Chegar(t) \/ LerFator(t) \/ LerVincular(t) \/ LerLigar(t) \/ Inserir(t)
               \/ Emitir(t) \/ CriarLink(t) \/ Abortar(t)
        PROVE  FatorInd'
    BY <2>1, <2>4, ChegarFator, LeFator, InserirFator, RestoFator
  <2>5. ASSUME NEW t \in Chamadas,
               \/ Desafiar(t) \/ Consumir(t) \/ Desligar(t) \/ Vincular(t) \/ Configurar(t)
               \/ Gravar(t)
        PROVE  FatorInd'
    BY <2>1, <2>5, DesafiarFator, ConsumirFator, DesligarFator, VincularFator, ConfigurarFator,
       GravarFator
  <2>6. QED
    BY <2>1, <2>2, <2>3, <2>4, <2>5 DEF Next
<1>3. QED
  BY <1>1, <1>2, SessoesIndutivo, PTL DEF Spec

\* A challenge and a one-time code each serve one request, for any users, codes and requests.
THEOREM FatorSempreUmaVez == Spec => []FatorUmaVez
<1>1. FatorInd => FatorUmaVez
  <2>1. SUFFICES ASSUME FatorInd, NEW t \in Chamadas, NEW o \in Chamadas, t # o,
                        Em(t, DoFator, "fim"), resp[t] = "FEITO",
                        Em(o, DoFator, "fim"), resp[o] = "FEITO"
                 PROVE  /\ ~(tx[t].codigo = tx[o].codigo /\ tx[t].codigo # Nada)
                        /\ ~(tx[t].alvo = tx[o].alvo /\ tx[t].alvo # Nada)
    BY DEF FatorUmaVez, DoFator
  <2>2. Gastou(t) /\ Gastou(o) /\ ParFatorInd(t, o)
    BY <2>1 DEF Gastou, FatorInd
  <2>3. QED
    BY <2>2 DEF ParFatorInd
<1>2. QED
  BY <1>1, FatorIndutivo, PTL
=============================================================================
