------------------------------ MODULE Sessoes ------------------------------
(***************************************************************************)
(* Accounts, sessions and refresh tokens of one company (AuthService,      *)
(* TokenService, RecuperacaoService, UsuariosService).                     *)
(*                                                                         *)
(* A call is one request.  What it creates (a session, a token, a link, a  *)
(* challenge, a password) has the call's name; what a user has from the    *)
(* start has the user's.  Rows show committed values; a call's locks are   *)
(* the rows in tx[t].usr, ses and tok, and what it writes appears when it  *)
(* commits.  Deadlines (of tokens, links, challenges) are a refusal that   *)
(* may come at any time.                                                   *)
(***************************************************************************)
EXTENDS Integers, FiniteSets

CONSTANTS Usuarios, Chamadas, Codigos, ComFator, Admins, Empresa, Nada, Tipos

Respostas == {"FEITO", "RECUSADO", "DESAFIO", "REUSO", "FALHA"}

ASSUME SessoesAssumption ==
    /\ Usuarios \cap Chamadas = {}
    /\ Empresa \notin Usuarios
    /\ Nada \notin Usuarios \cup Chamadas \cup Codigos \cup Respostas
    /\ ComFator \subseteq Usuarios
    /\ Admins \subseteq Usuarios /\ Admins # {}

Ids == Usuarios \cup Chamadas

VARIABLES
    usuario,        \* usuarios: [ativo, admin, senha, google, fator, segredo, desafio, codigos]
    sessao,         \* sessoes: [dono, estado, ultima, sucessor, recente, sob]; sob is history:
                    \* the password in force when the row was inserted
    token,          \* refresh_tokens: [sessao, estado]
    link,           \* recuperacoes_senha: [dono, estado]
    tx,             \* running calls: [passo, op, u, alvo, codigo, visto, links, usr, ses, tok]
    resp            \* what each call answered

vars == <<usuario, sessao, token, link, tx, resp>>
tabelas == <<usuario, sessao, token, link>>

Ops == {"entrar", "google", "verificar", "renovar", "sair", "desativar", "ativar", "rebaixar",
        "promover", "trocar", "solicitar", "redefinir",
        "configurar", "ligar", "desligar", "vincular"}

SessaoCom(d, e, p) == [dono |-> d, estado |-> e, ultima |-> Nada, sucessor |-> Nada,
                       recente |-> FALSE, sob |-> p]
Fora == [passo |-> "fora", op |-> "sair", u |-> Nada, alvo |-> Nada, codigo |-> Nada,
         visto |-> Nada, links |-> {}, usr |-> {}, ses |-> {}, tok |-> {}]

Init ==
    /\ usuario = [u \in Usuarios |->
          [ativo |-> TRUE, admin |-> u \in Admins, senha |-> u, google |-> FALSE,
           fator |-> u \in ComFator, segredo |-> IF u \in ComFator THEN u ELSE Nada, desafio |-> Nada,
           codigos |-> IF u \in ComFator THEN Codigos \X {u} ELSE {}]]
    /\ sessao = [i \in Ids |-> IF i \in Usuarios THEN SessaoCom(i, "viva", i)
                                               ELSE SessaoCom(Nada, "nenhuma", Nada)]
    /\ token = [i \in Ids |-> IF i \in Usuarios THEN [sessao |-> i, estado |-> "vivo"]
                                                ELSE [sessao |-> Nada, estado |-> "nenhum"]]
    /\ link = [t \in Chamadas |-> [dono |-> Nada, estado |-> "nenhum"]]
    /\ tx = [t \in Chamadas |-> Fora]
    /\ resp = [t \in Chamadas |-> Nada]

Contas == [ativo : BOOLEAN, admin : BOOLEAN, senha : Ids, google : BOOLEAN, fator : BOOLEAN,
           segredo : Ids \cup {Nada}, desafio : Chamadas \cup {Nada},
           codigos : SUBSET (Codigos \X Ids)]
Registros == [dono : Usuarios \cup {Nada}, estado : {"nenhuma", "viva", "revogada"},
              ultima : Ids \cup {Nada}, sucessor : Ids \cup {Nada}, recente : BOOLEAN,
              sob : Ids \cup {Nada}]
Passos == {"fora", "ler", "desafiar", "consumir", "inserir", "reivindicar", "emitir", "mudar",
           "trocar", "criar", "travar", "sessoes", "tokens", "gravar", "fim"}
Andamentos == [passo : Passos, op : Ops, u : Usuarios \cup {Nada}, alvo : Ids \cup {Nada},
               codigo : (Codigos \X Ids) \cup {Nada}, visto : Contas \cup Ids \cup {Nada},
               links : SUBSET Chamadas, usr : SUBSET (Usuarios \cup {Empresa}),
               ses : SUBSET Ids, tok : SUBSET Ids]

TypeOK ==
    /\ usuario \in [Usuarios -> Contas]
    /\ sessao \in [Ids -> Registros]
    /\ token \in [Ids -> [sessao : Ids \cup {Nada}, estado : {"nenhum", "vivo", "revogado"}]]
    /\ link \in [Chamadas -> [dono : Usuarios \cup {Nada},
                             estado : {"nenhum", "valido", "usado"}]]
    /\ tx \in [Chamadas -> Andamentos]
    /\ resp \in [Chamadas -> Respostas \cup {Nada}]

-----------------------------------------------------------------------------
Em(t, o, s) == tx[t].op \in o /\ tx[t].passo = s
DoUsuario(u) == {s \in Ids : sessao[s].dono = u}
TokensDe(S) == {k \in Ids : token[k].estado = "vivo" /\ token[k].sessao \in S}
LinksDe(u) == {l \in Chamadas : link[l].dono = u /\ link[l].estado = "valido"}

Livre(t, r) == \A o \in Chamadas \ {t} : r \notin tx[o].usr
SessoesLivres(t, S) == \A o \in Chamadas \ {t} : tx[o].ses \cap S = {}

Ir(t, s) == tx' = [tx EXCEPT ![t].passo = s]
SoTx == UNCHANGED <<tabelas, resp>>

\* The call ends with answer x and lets its locks go.
Responder(t, x) ==
    /\ tx' = [tx EXCEPT ![t].passo = "fim", ![t].visto = Nada, ![t].links = {},
                        ![t].usr = {}, ![t].ses = {}, ![t].tok = {}]
    /\ resp' = [resp EXCEPT ![t] = x]

Negar(t, x) == Responder(t, x) /\ UNCHANGED tabelas

Pedido(o, u, a, c) == [Fora EXCEPT !.passo = "ler", !.op = o, !.u = u, !.alvo = a, !.codigo = c]

Simples == {"entrar", "google", "desativar", "ativar", "rebaixar", "promover", "trocar",
            "solicitar", "configurar", "vincular"}

\* verify2fa carries a challenge that some login gave and a code, disable2fa a code, linkGoogle
\* perhaps one, a refresh, a logout and enable2fa (by its session) a token, a reset a link.
Pedidos ==
    {Pedido(o, u, Nada, Nada) : o \in Simples, u \in Usuarios}
    \cup (UNION {{Pedido("verificar", tx[d].u, d, c) : c \in usuario[tx[d].u].codigos} :
                   d \in {t \in Chamadas : resp[t] = "DESAFIO"}})
    \cup (UNION {{Pedido(o, u, Nada, c) : o \in {"desligar", "vincular"}, c \in usuario[u].codigos} :
                   u \in Usuarios})
    \cup {Pedido(o, sessao[token[k].sessao].dono, k, Nada) :
             o \in {"renovar", "sair", "ligar"}, k \in {i \in Ids : token[i].estado # "nenhum"}}
    \cup {Pedido("redefinir", link[l].dono, l, Nada) :
             l \in {c \in Chamadas : link[c].estado # "nenhum"}}

Chegar(t) ==
    /\ tx[t].passo = "fora"
    /\ \E p \in {q \in Pedidos : q.op \in Tipos} : tx' = [tx EXCEPT ![t] = p]
    /\ SoTx

-----------------------------------------------------------------------------
(* login, loginGoogle and verify2fa *)

Entradas == {"entrar", "google"}

\* The password (a linked Google account) was verified against this read; argon2 takes its
\* time from here on.
LerLogin(t) ==
    /\ Em(t, Entradas, "ler")
    /\ LET u == tx[t].u
           aceito == usuario[u].ativo /\ (tx[t].op = "google" => usuario[u].google)
       IN
       \/ ~aceito /\ Negar(t, "RECUSADO")
       \/ /\ aceito
          /\ Ir(t, IF usuario[u].fator THEN "desafiar" ELSE "inserir")
          /\ SoTx

DesafiarSe(t, vale) ==
    /\ Em(t, Entradas, "desafiar")
    /\ LET u == tx[t].u IN
       /\ Livre(t, u)
       /\ \/ ~vale /\ Negar(t, "RECUSADO")
          \/ /\ vale
             /\ usuario' = [usuario EXCEPT ![u].desafio = t]
             /\ Responder(t, "DESAFIO")
             /\ UNCHANGED <<sessao, token, link>>

DesafiarSoAtivo(t) == DesafiarSe(t, usuario[tx[t].u].ativo)    \* mutated form

\* generateTempToken: the new challenge replaces the last one.
Desafiar(t) == DesafiarSe(t, usuario[tx[t].u].ativo /\ usuario[tx[t].u].fator)

LerFator(t) ==
    /\ Em(t, {"verificar"}, "ler")
    /\ LET u == tx[t].u IN
       \/ Negar(t, "RECUSADO")
       \/ /\ usuario[u].ativo /\ usuario[u].fator /\ usuario[u].desafio = tx[t].alvo
          /\ tx[t].codigo \in usuario[u].codigos
          /\ tx' = [tx EXCEPT ![t].passo = "consumir", ![t].visto = usuario[u]]
          /\ SoTx

ConsumirSe(t, igual) ==
    /\ Em(t, {"verificar"}, "consumir")
    /\ LET u == tx[t].u IN
       /\ Livre(t, u)
       /\ \/ ~igual /\ Negar(t, "RECUSADO")
          \/ /\ igual
             /\ usuario' = [usuario EXCEPT ![u].desafio = Nada,
                                           ![u].codigos = @ \ {tx[t].codigo}]
             /\ tx' = [tx EXCEPT ![t].passo = "inserir", ![t].visto = Nada]
             /\ UNCHANGED <<sessao, token, link, resp>>

\* The columns a second-factor write compares with what was read.
Igual(t) ==
    LET r == usuario[tx[t].u]   v == tx[t].visto IN
    r.fator /\ r.senha = v.senha /\ r.segredo = v.segredo /\ r.codigos = v.codigos

ConsumirSemDesafio(t) == ConsumirSe(t, usuario[tx[t].u].ativo)    \* mutated form

\* One UPDATE consumes challenge and code if the row is still the one that was read.
Consumir(t) ==
    LET r == usuario[tx[t].u] IN
    ConsumirSe(t, r.ativo /\ Igual(t) /\ r.desafio = tx[t].alvo)

\* issueRefreshToken: session and token in one statement.  Its foreign key waits for a
\* FOR UPDATE of the user (solicitar, redefinir), not for an UPDATE.  Nothing of what the
\* login read is looked at again, also after that wait.
Inserir(t) ==
    /\ Em(t, Entradas \cup {"verificar"}, "inserir")
    /\ \A o \in Chamadas : tx[o].op \in {"solicitar", "redefinir"} => tx[t].u \notin tx[o].usr
    /\ sessao' = [sessao EXCEPT ![t] = SessaoCom(tx[t].u, "viva", usuario[tx[t].u].senha)]
    /\ token' = [token EXCEPT ![t] = [sessao |-> t, estado |-> "vivo"]]
    /\ Responder(t, "FEITO")
    /\ UNCHANGED <<usuario, link>>

-----------------------------------------------------------------------------
(* rotateRefreshToken *)

Expirou(t) == Negar(t, "RECUSADO")

\* With the session's row locked: refused, reused, repeated within the leeway, or to rotate.
DecidirSe(t, livre, travadas) ==
    LET k == tx[t].alvo   s == token[k].sessao   u == tx[t].u
        conc == sessao[s].ultima = k /\ sessao[s].recente
    IN /\ Em(t, {"renovar"}, "ler")
       /\ livre
       /\ \/ Expirou(t)
          \/ /\ sessao[s].estado = "viva" /\ usuario[u].ativo
             /\ \/ /\ token[k].estado = "vivo"
                   /\ tx' = [tx EXCEPT ![t].passo = "reivindicar", ![t].ses = travadas]
                   /\ SoTx
                \/ /\ token[k].estado = "revogado" /\ ~conc
                   /\ tx' = [tx EXCEPT ![t].passo = "sessoes", ![t].ses = travadas]
                   /\ SoTx
                \/ /\ token[k].estado = "revogado" /\ conc
                   /\ token[sessao[s].sucessor].estado = "vivo"
                   /\ Negar(t, "FEITO")

DecidirSemTrava(t) == DecidirSe(t, TRUE, {})    \* mutated form: no FOR UPDATE

Decidir(t) ==
    LET s == token[tx[t].alvo].sessao IN DecidirSe(t, SessoesLivres(t, {s}), {s})

\* UPDATE ... WHERE revogado = false, which waits for a sweep that has the token.
Reivindicar(t) ==
    /\ Em(t, {"renovar"}, "reivindicar")
    /\ LET k == tx[t].alvo IN
       /\ \A o \in Chamadas \ {t} : k \notin tx[o].tok
       /\ \/ token[k].estado # "vivo" /\ Negar(t, "RECUSADO")
          \/ /\ token[k].estado = "vivo"
             /\ tx' = [tx EXCEPT ![t].passo = "emitir", ![t].tok = {k}]
             /\ SoTx

EmitirSemMarcar(t) ==    \* mutated form: the presented token stays valid
    /\ Em(t, {"renovar"}, "emitir")
    /\ LET k == tx[t].alvo   s == token[k].sessao IN
       /\ token' = [token EXCEPT ![t] = [sessao |-> s, estado |-> "vivo"]]
       /\ sessao' = [sessao EXCEPT ![s] = [@ EXCEPT !.ultima = k, !.sucessor = t,
                                                    !.recente = TRUE]]
       /\ Responder(t, "FEITO")
       /\ UNCHANGED <<usuario, link>>

\* The successor, and the sealed answer that a repetition will get; the commit.
Emitir(t) ==
    /\ Em(t, {"renovar"}, "emitir")
    /\ LET k == tx[t].alvo   s == token[k].sessao IN
       /\ token' = [token EXCEPT ![k].estado = "revogado",
                                 ![t] = [sessao |-> s, estado |-> "vivo"]]
       /\ sessao' = [sessao EXCEPT ![s] = [@ EXCEPT !.ultima = k, !.sucessor = t,
                                                    !.recente = TRUE]]
       /\ Responder(t, "FEITO")
       /\ UNCHANGED <<usuario, link>>

\* ROTATION_LEEWAY_MS goes by.
Tempo(s) ==
    /\ sessao[s].recente
    /\ sessao' = [sessao EXCEPT ![s].recente = FALSE]
    /\ UNCHANGED <<usuario, token, link, tx, resp>>

-----------------------------------------------------------------------------
(* What ends sessions: reuse, logout, atualizar, trocarSenha, redefinir.  Two statements, *)
(* each over the rows it sees when it starts: the live sessions, then the valid tokens.   *)

Varredores == {"renovar", "sair", "desativar", "rebaixar", "promover", "trocar", "redefinir",
               "ligar"}

\* logout and revogarSessao end one session, enable2fa all but the caller's, the others all.
Alcance(t) ==
    LET s == token[tx[t].alvo].sessao IN
    CASE tx[t].op = "sair" -> {s}
      [] tx[t].op = "ligar" -> DoUsuario(tx[t].u) \ {s}
      [] OTHER -> DoUsuario(tx[t].u)

\* The sessions that the first statement updates (logout and redefinir do not ask for live ones).
Visadas(t) == IF tx[t].op \in {"sair", "redefinir"} THEN Alcance(t)
              ELSE {s \in Alcance(t) : sessao[s].estado = "viva"}

VarrerSessoes(t) ==
    /\ Em(t, Varredores, "sessoes")
    /\ SessoesLivres(t, Visadas(t))
    /\ tx' = [tx EXCEPT ![t].passo = "tokens", ![t].ses = Visadas(t)]
    /\ SoTx

VarrerTokens(t) ==
    /\ Em(t, Varredores, "tokens")
    /\ tx' = [tx EXCEPT ![t].passo = "gravar", ![t].tok = TokensDe(Alcance(t))]
    /\ SoTx

\* What the call does to the account besides.
Conta(t) ==
    LET u == tx[t].u   r == usuario[u] IN
    CASE tx[t].op = "desativar" -> [r EXCEPT !.ativo = FALSE]
      [] tx[t].op = "ativar" -> [r EXCEPT !.ativo = TRUE]
      [] tx[t].op = "rebaixar" -> [r EXCEPT !.admin = FALSE]
      [] tx[t].op = "promover" -> [r EXCEPT !.admin = TRUE]
      [] tx[t].op \in {"trocar", "redefinir"} -> [r EXCEPT !.senha = t, !.desafio = Nada]
      [] tx[t].op = "ligar" -> [r EXCEPT !.fator = TRUE, !.codigos = Codigos \X {t}]
      [] OTHER -> r

\* The tokens wait for a rotation that has claimed one; then the commit.
Gravar(t) ==
    /\ tx[t].passo = "gravar"
    /\ tx[t].op \in Varredores \cup {"ativar"}
    /\ \A o \in Chamadas : Em(o, {"renovar"}, "emitir") => tx[o].tok \cap tx[t].tok = {}
    /\ usuario' = [usuario EXCEPT ![tx[t].u] = Conta(t)]
    /\ sessao' = [s \in Ids |-> IF s \in tx[t].ses THEN [sessao[s] EXCEPT !.estado = "revogada"]
                                                   ELSE sessao[s]]
    /\ token' = [k \in Ids |-> IF k \in tx[t].tok THEN [token[k] EXCEPT !.estado = "revogado"]
                                                  ELSE token[k]]
    /\ link' = [l \in Chamadas |-> IF tx[t].op = "redefinir" /\ l \in LinksDe(tx[t].u)
                                   THEN [link[l] EXCEPT !.estado = "usado"] ELSE link[l]]
    /\ Responder(t, IF tx[t].op = "renovar" THEN "REUSO" ELSE "FEITO")

LogoutSair(t) ==
    /\ Em(t, {"sair"}, "ler")
    /\ Ir(t, "sessoes")
    /\ SoTx

-----------------------------------------------------------------------------
(* setup2fa, enable2fa, disable2fa *)

Configurar(t) ==
    /\ Em(t, {"configurar"}, "ler")
    /\ LET u == tx[t].u IN
       /\ Livre(t, u)
       /\ \/ (usuario[u].fator \/ ~usuario[u].ativo) /\ Negar(t, "RECUSADO")
          \/ /\ usuario[u].ativo /\ ~usuario[u].fator
             /\ usuario' = [usuario EXCEPT ![u].segredo = t]
             /\ Responder(t, "FEITO")
             /\ UNCHANGED <<sessao, token, link>>

LerLigar(t) ==
    /\ Em(t, {"ligar", "desligar"}, "ler")
    /\ \/ Negar(t, "RECUSADO")
       \/ /\ usuario[tx[t].u].segredo # Nada
          /\ IF tx[t].op = "ligar" THEN ~usuario[tx[t].u].fator
                                   ELSE tx[t].codigo \in usuario[tx[t].u].codigos
          /\ tx' = [tx EXCEPT ![t].passo = "mudar", ![t].visto = usuario[tx[t].u]]
          /\ SoTx

\* Only with the secret whose code was checked.
Ligar(t) ==
    /\ Em(t, {"ligar"}, "mudar")
    /\ LET u == tx[t].u   r == usuario[u]
           igual == r.ativo /\ ~r.fator /\ r.segredo = tx[t].visto.segredo
       IN /\ Livre(t, u)
          /\ \/ ~igual /\ Negar(t, "RECUSADO")
             \/ /\ igual
                /\ tx' = [tx EXCEPT ![t].passo = "sessoes", ![t].usr = {u}]
                /\ SoTx

Desligar(t) ==
    /\ Em(t, {"desligar"}, "mudar")
    /\ LET u == tx[t].u IN
       /\ Livre(t, u)
       /\ \/ ~Igual(t) /\ Negar(t, "RECUSADO")
          \/ /\ Igual(t)
             /\ usuario' = [usuario EXCEPT ![u] = [@ EXCEPT !.fator = FALSE, !.segredo = Nada,
                                                    !.codigos = {}, !.desafio = Nada]]
             /\ Responder(t, "FEITO")
             /\ UNCHANGED <<sessao, token, link>>

-----------------------------------------------------------------------------
(* linkGoogle *)

\* Password, e-mail and, with a second factor, a code are checked; without one the code is
\* not looked at.
LerVincular(t) ==
    /\ Em(t, {"vincular"}, "ler")
    /\ LET r == usuario[tx[t].u] IN
       \/ Negar(t, "RECUSADO")
       \/ /\ r.ativo /\ (r.fator => tx[t].codigo \in r.codigos)
          /\ tx' = [tx EXCEPT ![t].passo = "mudar", ![t].visto = r,
                              ![t].codigo = IF r.fator THEN @ ELSE Nada]
          /\ SoTx

\* One UPDATE links and consumes the code if every column is as it was read; also refused
\* when the Google account is another user's (a unique index).
Vincular(t) ==
    /\ Em(t, {"vincular"}, "mudar")
    /\ LET u == tx[t].u   r == usuario[u]   v == tx[t].visto IN
       /\ Livre(t, u)
       /\ \/ Negar(t, "RECUSADO")
          \/ /\ r.ativo
             /\ \A c \in {"google", "senha", "fator", "segredo", "codigos"} : r[c] = v[c]
             /\ usuario' = [usuario EXCEPT ![u].google = TRUE,
                                           ![u].codigos = @ \ {tx[t].codigo}]
             /\ Responder(t, "FEITO")
             /\ UNCHANGED <<sessao, token, link>>

-----------------------------------------------------------------------------
(* UsuariosService *)

Atualizacoes == {"desativar", "ativar", "rebaixar", "promover"}

AdminsAtivos == {u \in Usuarios : usuario[u].ativo /\ usuario[u].admin}

UltimoAdmin(t) ==
    /\ tx[t].op \in {"desativar", "rebaixar"}
    /\ tx[t].u \in AdminsAtivos
    /\ Cardinality(AdminsAtivos) <= 1

\* Sessions end with a change of role, and with ativo = false even if it already was.
MudaAcesso(t) ==
    \/ tx[t].op = "desativar"
    \/ tx[t].op = "rebaixar" /\ usuario[tx[t].u].admin
    \/ tx[t].op = "promover" /\ ~usuario[tx[t].u].admin

AtualizarCom(t, linhas) ==
    /\ Em(t, Atualizacoes, "ler")
    /\ \A r \in linhas : Livre(t, r)
    /\ \/ UltimoAdmin(t) /\ Negar(t, "RECUSADO")
       \/ /\ ~UltimoAdmin(t)
          /\ tx' = [tx EXCEPT ![t].passo = IF MudaAcesso(t) THEN "sessoes" ELSE "gravar",
                              ![t].usr = linhas]
          /\ SoTx

AtualizarSemEmpresa(t) == AtualizarCom(t, {tx[t].u})    \* mutated form

\* The company's row, then the user's.
Atualizar(t) == AtualizarCom(t, {Empresa, tx[t].u})

LerSenha(t) ==
    /\ Em(t, {"trocar"}, "ler")
    /\ tx' = [tx EXCEPT ![t].passo = "trocar", ![t].visto = usuario[tx[t].u].senha]
    /\ SoTx

\* UPDATE ... WHERE senhaHash is the one that was verified.
TrocarSenha(t) ==
    /\ Em(t, {"trocar"}, "trocar")
    /\ LET u == tx[t].u IN
       /\ Livre(t, u)
       /\ \/ usuario[u].senha # tx[t].visto /\ Negar(t, "RECUSADO")
          \/ /\ usuario[u].senha = tx[t].visto
             /\ tx' = [tx EXCEPT ![t].passo = "sessoes", ![t].usr = {u}]
             /\ SoTx

-----------------------------------------------------------------------------
(* RecuperacaoService *)

SolicitarCom(t, linhas) ==
    /\ Em(t, {"solicitar"}, "ler")
    /\ \A r \in linhas : Livre(t, r)
    /\ \/ ~usuario[tx[t].u].ativo /\ Negar(t, "RECUSADO")
       \/ /\ usuario[tx[t].u].ativo
          /\ tx' = [tx EXCEPT ![t].passo = "criar", ![t].usr = linhas,
                              ![t].links = LinksDe(tx[t].u)]
          /\ SoTx

SolicitarSemTrava(t) == SolicitarCom(t, {})    \* mutated form: no FOR UPDATE of the user

Solicitar(t) == SolicitarCom(t, {tx[t].u})

\* The older links end, the new one and its EMAIL_RECUPERACAO job begin.
CriarLink(t) ==
    /\ Em(t, {"solicitar"}, "criar")
    /\ link' = [l \in Chamadas |-> IF l = t THEN [dono |-> tx[t].u, estado |-> "valido"]
                                   ELSE IF l \in tx[t].links THEN [link[l] EXCEPT !.estado = "usado"]
                                   ELSE link[l]]
    /\ Responder(t, "FEITO")
    /\ UNCHANGED <<usuario, sessao, token>>

LerLink(t) ==
    /\ Em(t, {"redefinir"}, "ler")
    /\ \/ Negar(t, "RECUSADO")
       \/ link[tx[t].alvo].estado = "valido" /\ Ir(t, "travar") /\ SoTx

TravarRedefinir(t, linhas) ==
    /\ Em(t, {"redefinir"}, "travar")
    /\ \A r \in linhas : Livre(t, r)
    /\ \/ Negar(t, "RECUSADO")
       \/ /\ link[tx[t].alvo].estado = "valido"
          /\ usuario[tx[t].u].ativo
          /\ tx' = [tx EXCEPT ![t].passo = "sessoes", ![t].usr = linhas]
          /\ SoTx

RedefinirSemTrava(t) == TravarRedefinir(t, {})    \* mutated form: no FOR UPDATE of the user

\* The user's row locked, the link claimed, the account still active.
Redefinir(t) == TravarRedefinir(t, {tx[t].u})

-----------------------------------------------------------------------------
\* The process stops, the database ends a deadlock or the request fails: a rollback.
Abortar(t) == tx[t].passo \notin {"fora", "fim"} /\ Negar(t, "FALHA")

Next ==
    \/ \E t \in Chamadas :
         \/ Chegar(t)
         \/ LerLogin(t) \/ Desafiar(t) \/ LerFator(t) \/ Consumir(t) \/ Inserir(t)
         \/ Decidir(t) \/ Reivindicar(t) \/ Emitir(t)
         \/ LogoutSair(t) \/ VarrerSessoes(t) \/ VarrerTokens(t) \/ Gravar(t)
         \/ LerVincular(t) \/ Vincular(t) \/ Configurar(t) \/ LerLigar(t) \/ Ligar(t) \/ Desligar(t)
         \/ Atualizar(t) \/ LerSenha(t) \/ TrocarSenha(t)
         \/ Solicitar(t) \/ CriarLink(t) \/ LerLink(t) \/ Redefinir(t)
         \/ Abortar(t)
    \/ \E s \in Ids : Tempo(s)

Spec == Init /\ [][Next]_vars

-----------------------------------------------------------------------------
(***************************************************************************)
(* Two tabs that refresh together, a repetition after a lost answer or any *)
(* other interleaving never opens a second branch: a session has at most   *)
(* one valid token.                                                        *)
(***************************************************************************)
UmRamo == \A s \in Ids : Cardinality(TokensDe({s})) <= 1

(***************************************************************************)
(* No valid token outlives its session: what a logout, a deactivation or a *)
(* change of password ends is not brought back by a rotation in progress.  *)
(***************************************************************************)
TokenDeSessaoViva ==
    \A k \in Ids : token[k].estado = "vivo" => sessao[token[k].sessao].estado = "viva"

(***************************************************************************)
(* Concurrent demotions and deactivations never leave the company without  *)
(* an active administrator.                                                *)
(***************************************************************************)
SempreHaAdmin == AdminsAtivos # {}

(***************************************************************************)
(* Of the recovery links of a user only one is ever good, and no link      *)
(* changes the password twice.                                             *)
(***************************************************************************)
UmLink ==
    /\ \A u \in Usuarios : Cardinality(LinksDe(u)) <= 1
    /\ \A t, o \in Chamadas :
          tx[t].op = "redefinir" /\ tx[o].op = "redefinir" /\ resp[t] = "FEITO" /\ resp[o] = "FEITO"
          /\ tx[t].alvo = tx[o].alvo => t = o

(***************************************************************************)
(* A challenge and a one-time code each serve one request, be it a login,  *)
(* the end of the second factor or the link of a Google account.           *)
(***************************************************************************)
FatorUmaVez ==
    \A t, o \in {c \in Chamadas : Em(c, {"verificar", "desligar", "vincular"}, "fim")
                                   /\ resp[c] = "FEITO"} :
        (tx[t].codigo = tx[o].codigo /\ tx[t].codigo # Nada) \/ (tx[t].alvo = tx[o].alvo /\ tx[t].alvo # Nada) => t = o

(***************************************************************************)
(* A challenge never outlives the second factor it asks for, whatever      *)
(* logins were under way when it was turned off.                           *)
(***************************************************************************)
DesafioSoComFator ==
    \A u \in Usuarios : usuario[u].desafio # Nada => usuario[u].fator

(***************************************************************************)
(* While the password in force is one that a reset set, every live session *)
(* of the user was inserted after that reset's commit: no session that was *)
(* there before, and none that was inserted or rotated while the reset     *)
(* swept, is left or comes back.  A login that had verified the older      *)
(* password may still insert its own after the commit.                     *)
(***************************************************************************)
RedefinirEncerra ==
    \A s \in Ids : sessao[s].estado = "viva" =>
        LET p == usuario[sessao[s].dono].senha IN
        p \in Chamadas /\ tx[p].op = "redefinir" => sessao[s].sob = p
=============================================================================
