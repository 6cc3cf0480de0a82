----------------------------- MODULE AgendaProvas -----------------------------
(***************************************************************************)
(* Proofs about Agenda: for any number of calls, professionals and dates,  *)
(* no two active appointments of a professional overlap, a cancelled       *)
(* series keeps nothing to come, a concluded or cancelled appointment      *)
(* stays so, agendar refuses what the public page lists only in the cases  *)
(* OfertaAceita names, and a new telephone gets at most one client row per *)
(* professional it booked.                                                 *)
(***************************************************************************)
EXTENDS Agenda, FiniteSetTheorems, TLAPS

VagaTipo == [status: Status, prof: Profissionais \cup {Qualquer}, servico: Servicos,
             inicio: Nat, fim: Nat]
TxTipo == [passo: Passos, prof: Profissionais \cup {Qualquer}, duracao: Nat, nova: BOOLEAN]

\* Steps between bloquearAgenda and the commit.
Trancado == {"validar", "checar", "cliente", "gravar"}

AgendaTipos ==
    /\ pedido \in [Chamadas -> Pedidos]
    /\ agenda \in [Vagas -> VagaTipo]
    /\ serie \in [Chamadas -> {"AUSENTE", "ATIVA", "CANCELADA"}]
    /\ servico \in [Servicos -> [ativo: BOOLEAN, duracao: Duracoes]]
    /\ equipe \subseteq Profissionais
    /\ trancada \in [Profissionais -> Chamadas \cup {Livre}]
    /\ tx \in [Chamadas -> TxTipo]
    /\ agora \in Nat

\* A call past the lock holds it, for a professional it chose.
TravaInd(c) ==
    /\ tx[c].passo \notin {"fora", "fim"} => tx[c].prof \in Profissionais
    /\ tx[c].passo \in Trancado => trancada[tx[c].prof] = c
    /\ tx[c].passo = "fora" => tx[c].prof = pedido[c].prof
    /\ tx[c].passo # "fora" /\ Tipo(c, "SERIE") /\ tx[c].passo # "fim" =>
          tx[c].prof = pedido[c].prof

\* What the checks of a call established stays true while it holds the lock.
ChecadoInd(c) ==
    /\ tx[c].passo \in {"checar", "cliente", "gravar"} /\ Tipo(c, "SERIE") =>
          tx[c].duracao < pedido[c].intervalo
    /\ tx[c].passo \in {"cliente", "gravar"} => ~Conflito(c)

SerieInd(c) ==
    /\ serie[c] # "AUSENTE" => tx[c].passo = "fim"
    /\ serie[c] = "CANCELADA" =>
          \A v \in Vagas : v[1] = c /\ Ativa(v) => agenda[v].inicio <= agora

AgendaInd ==
    /\ AgendaTipos
    /\ \A c \in Chamadas : TravaInd(c) /\ ChecadoInd(c) /\ SerieInd(c)
    /\ SemSobreposicao

-----------------------------------------------------------------------------
\* Dates of a series are an interval apart.
LEMMA Espacadas ==
    ASSUME NEW v \in Nat, NEW i \in Nat, NEW k \in Nat, i < k
    PROVE  (i - 1) * v + v <= (k - 1) * v
<1>1. PICK m \in Nat : k = i + 1 + m
  <2>1. k - i - 1 \in Nat /\ k = i + 1 + (k - i - 1)
    OBVIOUS
  <2>2. QED
    BY <2>1
<1>2. (k - 1) * v = (i - 1) * v + v + m * v
  BY <1>1
<1>3. m * v \in Nat
  OBVIOUS
<1>4. (i - 1) * v \in Int
  OBVIOUS
<1>5. QED
  BY <1>2, <1>3, <1>4

LEMMA InicioNat ==
    ASSUME AgendaTipos, NEW c \in Chamadas, NEW i \in Partes(c)
    PROVE  Inicio(c, i) \in Nat /\ i \in 1..MaxQuantidade /\ pedido[c].intervalo \in Nat
<1>1. pedido[c] \in Pedidos
  BY DEF AgendaTipos
<1>2. /\ pedido[c].inicio \in Nat /\ pedido[c].intervalo \in Nat
      /\ pedido[c].quantidade \in 1..MaxQuantidade
  BY <1>1, AgendaAssumption
<1>3. i - 1 \in Nat /\ i \in 1..MaxQuantidade
  BY <1>2, AgendaAssumption DEF Partes
<1>4. (i - 1) * pedido[c].intervalo \in Nat
  BY <1>2, <1>3
<1>5. QED
  BY <1>2, <1>3, <1>4 DEF Inicio

\* Two dates of one call do not overlap.
LEMMA PartesSeparadas ==
    ASSUME AgendaTipos, NEW c \in Chamadas, NEW i \in Partes(c), NEW k \in Partes(c), i < k,
           ChecadoInd(c), tx[c].passo = "gravar"
    PROVE  Inicio(c, i) + tx[c].duracao <= Inicio(c, k)
<1>1. pedido[c] \in Pedidos /\ tx[c].duracao \in Nat
  BY DEF AgendaTipos, TxTipo
<1>2. /\ pedido[c].inicio \in Nat /\ pedido[c].intervalo \in Nat
      /\ pedido[c].quantidade \in 1..MaxQuantidade
      /\ ~Tipo(c, "SERIE") => pedido[c].quantidade = 1
  BY <1>1, AgendaAssumption DEF Tipo
<1>3. i \in Nat /\ k \in Nat
  BY <1>2, AgendaAssumption DEF Partes
<1>4. Tipo(c, "SERIE")
  BY <1>2, <1>3 DEF Partes
<1>5. tx[c].duracao < pedido[c].intervalo
  BY <1>4 DEF ChecadoInd
<1>6. (i - 1) * pedido[c].intervalo + pedido[c].intervalo <= (k - 1) * pedido[c].intervalo
  BY <1>2, <1>3, Espacadas
<1>7. (i - 1) * pedido[c].intervalo \in Int /\ (k - 1) * pedido[c].intervalo \in Int
  BY <1>2, <1>3
<1>8. QED
  BY <1>1, <1>2, <1>5, <1>6, <1>7 DEF Inicio

-----------------------------------------------------------------------------
\* A step of one call that writes no row: the others keep their locks.
LEMMA UmaChamada ==
    ASSUME AgendaInd, NEW c \in Chamadas,
           UNCHANGED <<pedido, agenda, serie, servico, equipe, agora>>,
           tx' \in [Chamadas -> TxTipo],
           trancada' \in [Profissionais -> Chamadas \cup {Livre}],
           \A b \in Chamadas \ {c} : tx'[b] = tx[b],
           \A p \in Profissionais : trancada[p] \in Chamadas \ {c} => trancada'[p] = trancada[p],
           TravaInd(c)', ChecadoInd(c)',
           tx[c].passo # "fim"
    PROVE  AgendaInd'
<1>1. AgendaTipos'
  BY DEF AgendaInd, AgendaTipos
<1>2. SemSobreposicao'
  BY DEF AgendaInd, SemSobreposicao, Ativa
<1>3. ASSUME NEW b \in Chamadas
      PROVE  SerieInd(b)'
  <2>1. serie[b] # "AUSENTE" => tx'[b].passo = "fim"
    BY DEF AgendaInd, SerieInd
  <2>2. QED
    BY <2>1 DEF AgendaInd, SerieInd, Ativa
<1>4. ASSUME NEW b \in Chamadas \ {c}
      PROVE  TravaInd(b)' /\ ChecadoInd(b)'
  <2>1. TravaInd(b)'
    BY DEF AgendaInd, TravaInd, Tipo, Trancado
  <2>2. Conflito(b)' <=> Conflito(b)
    BY DEF Conflito, Partes, Ocupado, Ativa, Inicio
  <2>3. QED
    BY <2>1, <2>2 DEF AgendaInd, ChecadoInd, Tipo
<1>5. QED
  BY <1>1, <1>2, <1>3, <1>4 DEF AgendaInd

\* A step that leaves the calls alone and makes no appointment active.
LEMMA SemNovas ==
    ASSUME AgendaInd, AgendaTipos', UNCHANGED <<pedido, tx, trancada>>,
           \A v \in Vagas : /\ Ativa(v)' => Ativa(v)
                            /\ agenda'[v].prof = agenda[v].prof
                            /\ agenda'[v].inicio = agenda[v].inicio
                            /\ agenda'[v].fim = agenda[v].fim,
           \A c \in Chamadas : SerieInd(c)'
    PROVE  AgendaInd'
<1>1. SemSobreposicao'
  BY DEF AgendaInd, SemSobreposicao
<1>2. ASSUME NEW b \in Chamadas
      PROVE  TravaInd(b)' /\ ChecadoInd(b)'
  <2>1. TravaInd(b)'
    BY DEF AgendaInd, TravaInd, Tipo
  <2>2. Conflito(b)' => Conflito(b)
    BY DEF Conflito, Partes, Ocupado, Inicio
  <2>3. QED
    BY <2>1, <2>2 DEF AgendaInd, ChecadoInd, Tipo
<1>3. QED
  BY <1>1, <1>2 DEF AgendaInd

-----------------------------------------------------------------------------
LEMMA EncerrarInd ==
    ASSUME AgendaInd, NEW c \in Chamadas, NEW x \in Respostas, Encerrar(c, x),
           tx[c].passo # "fim"
    PROVE  AgendaInd'
<1>1. tx' \in [Chamadas -> TxTipo] /\ \A b \in Chamadas \ {c} : tx'[b] = tx[b]
  BY DEF AgendaInd, AgendaTipos, TxTipo, Encerrar, Passos
<1>2. tx'[c].passo = "fim"
  BY DEF AgendaInd, AgendaTipos, TxTipo, Encerrar
<1>3. /\ trancada' \in [Profissionais -> Chamadas \cup {Livre}]
      /\ \A p \in Profissionais : trancada[p] \in Chamadas \ {c} => trancada'[p] = trancada[p]
  BY DEF AgendaInd, AgendaTipos, Encerrar
<1>4. TravaInd(c)' /\ ChecadoInd(c)'
  BY <1>2 DEF TravaInd, ChecadoInd, Trancado
<1>5. QED
  BY <1>1, <1>3, <1>4, UmaChamada DEF Encerrar

\* The call goes on to the lock, for professional p.
LEMMA AceitarInd ==
    ASSUME AgendaInd, NEW c \in Chamadas, NEW p \in Profissionais, NEW d \in Nat,
           Aceitar(c, p, d), Em(c, "fora"), Tipo(c, "SERIE") => p = pedido[c].prof
    PROVE  AgendaInd'
<1>1. tx' \in [Chamadas -> TxTipo] /\ \A b \in Chamadas \ {c} : tx'[b] = tx[b]
  <2>1. /\ tx' = [tx EXCEPT ![c] = [tx[c] EXCEPT !.passo = "trancar", !.prof = p, !.duracao = d]]
        /\ tx \in [Chamadas -> TxTipo] /\ tx[c] \in TxTipo
    BY DEF AgendaInd, AgendaTipos, Aceitar
  <2>2. [tx[c] EXCEPT !.passo = "trancar", !.prof = p, !.duracao = d] \in TxTipo
    BY <2>1 DEF TxTipo, Passos
  <2>3. QED
    BY <2>1, <2>2
<1>2. tx'[c].passo = "trancar" /\ tx'[c].prof = p
  BY DEF AgendaInd, AgendaTipos, TxTipo, Aceitar
<1>3. TravaInd(c)' /\ ChecadoInd(c)'
  BY <1>2 DEF TravaInd, ChecadoInd, Trancado, Tipo, Aceitar, SoPasso
<1>4. trancada' = trancada /\ trancada \in [Profissionais -> Chamadas \cup {Livre}]
  BY DEF Aceitar, SoPasso, AgendaInd, AgendaTipos
<1>5. QED
  BY <1>1, <1>3, <1>4, UmaChamada DEF Aceitar, SoPasso, Em

LEMMA ValidarInd ==
    ASSUME AgendaInd, NEW c \in Chamadas,
           ValidarCriar(c) \/ ValidarPublico(c) \/ AbrirSerie(c)
    PROVE  AgendaInd'
<1>1. pedido[c] \in Pedidos
  BY DEF AgendaInd, AgendaTipos
<1>2. /\ pedido[c].servico \in Servicos /\ servico[pedido[c].servico].duracao \in Nat
      /\ pedido[c].prof \in Profissionais \/ (Tipo(c, "PUBLICO") /\ pedido[c].prof = Qualquer)
      /\ \A x \in {"RECUSADO", "OCUPADO"} : x \in Respostas
  <2>1. /\ pedido[c].servico \in Servicos
        /\ pedido[c].prof \in Profissionais \/ (Tipo(c, "PUBLICO") /\ pedido[c].prof = Qualquer)
    BY <1>1, AgendaAssumption DEF Tipo
  <2>2. servico[pedido[c].servico].duracao \in Duracoes
    BY <2>1 DEF AgendaInd, AgendaTipos
  <2>3. Duracoes \subseteq Nat
    BY AgendaAssumption
  <2>4. QED
    BY <2>1, <2>2, <2>3 DEF Respostas
<1>3. CASE ValidarCriar(c)
  <2>1. pedido[c].prof \in Profissionais /\ Em(c, "fora")
    BY <1>2, <1>3 DEF ValidarCriar, Tipo
  <2>2. \/ Aceitar(c, pedido[c].prof, servico[pedido[c].servico].duracao)
        \/ Encerrar(c, "RECUSADO")
    BY <1>3 DEF ValidarCriar
  <2>3. QED
    BY <1>2, <2>1, <2>2, AceitarInd, EncerrarInd DEF Em
<1>4. CASE ValidarPublico(c)
  <2>1. Em(c, "fora") /\ ~Tipo(c, "SERIE")
    BY <1>4 DEF ValidarPublico, Tipo
  <2>2. \/ \E p \in Profissionais : Aceitar(c, p, servico[pedido[c].servico].duracao)
        \/ \E x \in Respostas : Encerrar(c, x)
    BY <1>2, <1>4 DEF ValidarPublico
  <2>3. QED
    BY <1>2, <2>1, <2>2, AceitarInd, EncerrarInd DEF Em
<1>5. CASE AbrirSerie(c)
  <2>1. pedido[c].prof \in Profissionais /\ Em(c, "fora")
    BY <1>2, <1>5 DEF AbrirSerie, Tipo
  <2>2. Aceitar(c, pedido[c].prof, 0) \/ Encerrar(c, "RECUSADO")
    BY <1>5 DEF AbrirSerie
  <2>3. QED
    BY <1>2, <2>1, <2>2, AceitarInd, EncerrarInd DEF Em
<1>6. QED
  BY <1>3, <1>4, <1>5

LEMMA TrancarInd ==
    ASSUME AgendaInd, NEW c \in Chamadas, Trancar(c)
    PROVE  AgendaInd'
<1>1. tx' \in [Chamadas -> TxTipo] /\ \A b \in Chamadas \ {c} : tx'[b] = tx[b]
  BY DEF AgendaInd, AgendaTipos, TxTipo, Trancar, Passos
<1>2. /\ tx'[c].passo = IF Tipo(c, "SERIE") THEN "validar" ELSE "checar"
      /\ tx'[c].prof = tx[c].prof
  BY DEF AgendaInd, AgendaTipos, TxTipo, Trancar
<1>3. /\ tx[c].passo = "trancar" /\ tx[c].prof \in Profissionais
      /\ Tipo(c, "SERIE") => tx[c].prof = pedido[c].prof
  BY DEF AgendaInd, TravaInd, Trancar, Em
<1>4. /\ trancada' \in [Profissionais -> Chamadas \cup {Livre}]
      /\ trancada'[tx[c].prof] = c
  BY <1>3 DEF AgendaInd, AgendaTipos, Trancar
<1>5. \A p \in Profissionais : trancada[p] \in Chamadas \ {c} => trancada'[p] = trancada[p]
  BY AgendaAssumption DEF AgendaInd, AgendaTipos, Trancar, Desocupada
<1>6. UNCHANGED pedido
  BY DEF Trancar
<1>7. TravaInd(c)' /\ ChecadoInd(c)'
  BY <1>2, <1>3, <1>4, <1>6 DEF TravaInd, ChecadoInd, Trancado, Tipo
<1>8. QED
  BY <1>1, <1>3, <1>4, <1>5, <1>7, UmaChamada DEF Trancar

LEMMA ValidarSerieInd ==
    ASSUME AgendaInd, NEW c \in Chamadas, ValidarSerie(c)
    PROVE  AgendaInd'
<1>1. CASE Encerrar(c, "RECUSADO")
  BY <1>1, EncerrarInd DEF ValidarSerie, Em, Respostas
<1>2. CASE ~Encerrar(c, "RECUSADO")
  <2>1. pedido[c] \in Pedidos /\ tx[c].passo = "validar"
    BY <1>2 DEF AgendaInd, AgendaTipos, ValidarSerie, Em
  <2>2. servico[pedido[c].servico].duracao \in Nat
    BY <2>1, AgendaAssumption DEF AgendaInd, AgendaTipos
  <2>3. /\ servico[pedido[c].servico].duracao < pedido[c].intervalo
        /\ tx' = [tx EXCEPT ![c].passo = "checar", ![c].duracao = servico[pedido[c].servico].duracao]
        /\ SoPasso
    BY <1>2 DEF ValidarSerie
  <2>4. tx' \in [Chamadas -> TxTipo] /\ \A b \in Chamadas \ {c} : tx'[b] = tx[b]
    BY <2>2, <2>3 DEF AgendaInd, AgendaTipos, TxTipo, Passos
  <2>5. /\ tx'[c].passo = "checar" /\ tx'[c].prof = tx[c].prof
        /\ tx'[c].duracao < pedido[c].intervalo
    BY <2>3 DEF AgendaInd, AgendaTipos, TxTipo
  <2>6. TravaInd(c) /\ trancada \in [Profissionais -> Chamadas \cup {Livre}]
    BY DEF AgendaInd, AgendaTipos
  <2>7. TravaInd(c)' /\ ChecadoInd(c)'
    BY <2>1, <2>3, <2>5, <2>6 DEF TravaInd, ChecadoInd, Trancado, Tipo, SoPasso
  <2>8. QED
    BY <2>1, <2>3, <2>4, <2>6, <2>7, UmaChamada DEF SoPasso
<1>3. QED
  BY <1>1, <1>2

LEMMA ChecarInd ==
    ASSUME AgendaInd, NEW c \in Chamadas, Checar(c) \/ AcharCliente(c)
    PROVE  AgendaInd'
<1>1. CASE Checar(c) /\ Conflito(c)
  BY <1>1, EncerrarInd DEF Checar, Em, Respostas
<1>2. ASSUME AcharCliente(c) \/ (Checar(c) /\ ~Conflito(c))
      PROVE  AgendaInd'
  <2>1. tx[c].passo \in {"checar", "cliente"} /\ ~Conflito(c) /\ SoPasso
    BY <1>2 DEF Checar, AcharCliente, Em, AgendaInd, ChecadoInd
  <2>2. PICK s \in {"cliente", "gravar"}, n \in BOOLEAN :
          tx' = [tx EXCEPT ![c] = [tx[c] EXCEPT !.passo = s, !.nova = n]]
    <3>1. tx \in [Chamadas -> TxTipo] /\ tx[c] \in TxTipo
      BY DEF AgendaInd, AgendaTipos
    <3>2. CASE Checar(c) /\ ~Conflito(c)
      <4>1. PICK s \in {"cliente", "gravar"} : tx' = [tx EXCEPT ![c].passo = s]
        BY <3>2 DEF Checar
      <4>2. [tx[c] EXCEPT !.passo = s, !.nova = tx[c].nova] = [tx[c] EXCEPT !.passo = s]
        BY <3>1 DEF TxTipo
      <4>3. tx[c].nova \in BOOLEAN
        BY <3>1 DEF TxTipo
      <4>4. tx' = [tx EXCEPT ![c] = [tx[c] EXCEPT !.passo = s, !.nova = tx[c].nova]]
        BY <4>1, <4>2
      <4>5. QED
        BY <4>3, <4>4
    <3>3. CASE AcharCliente(c)
      <4>1. tx' = [tx EXCEPT ![c] = [tx[c] EXCEPT !.passo = "gravar",
                                            !.nova = fichas[pedido[c].telefone] = 0]]
        BY <3>3 DEF AcharCliente
      <4>2. (fichas[pedido[c].telefone] = 0) \in BOOLEAN
        BY Zenon
      <4>3. QED
        BY <4>1, <4>2
    <3>4. QED
      BY <1>2, <3>2, <3>3
  <2>3. tx' \in [Chamadas -> TxTipo] /\ \A b \in Chamadas \ {c} : tx'[b] = tx[b]
    <3>1. tx \in [Chamadas -> TxTipo] /\ tx[c] \in TxTipo
      BY DEF AgendaInd, AgendaTipos
    <3>2. [tx[c] EXCEPT !.passo = s, !.nova = n] \in TxTipo
      BY <3>1 DEF TxTipo, Passos
    <3>3. QED
      BY <2>2, <3>1, <3>2
  <2>4. /\ tx'[c].passo \in {"cliente", "gravar"} /\ tx'[c].prof = tx[c].prof
        /\ tx'[c].duracao = tx[c].duracao
    BY <2>2 DEF AgendaInd, AgendaTipos, TxTipo
  <2>5. Conflito(c)' <=> Conflito(c)
    BY <2>1, <2>4 DEF Conflito, Partes, Ocupado, Ativa, Inicio, SoPasso
  <2>6. TravaInd(c) /\ ChecadoInd(c) /\ trancada \in [Profissionais -> Chamadas \cup {Livre}]
    BY DEF AgendaInd, AgendaTipos
  <2>7. TravaInd(c)' /\ ChecadoInd(c)'
    BY <2>1, <2>4, <2>5, <2>6 DEF TravaInd, ChecadoInd, Trancado, Tipo, SoPasso
  <2>8. QED
    BY <2>1, <2>3, <2>6, <2>7, UmaChamada DEF SoPasso
<1>3. QED
  BY <1>1, <1>2

-----------------------------------------------------------------------------
\* An appointment that exists keeps professional and hours; c's are its own.
LEMMA GravarInd ==
    ASSUME AgendaInd, NEW c \in Chamadas, Gravar(c)
    PROVE  AgendaInd'
<1>1. /\ tx[c].passo = "gravar" /\ tx[c].prof \in Profissionais /\ ~Conflito(c)
      /\ trancada[tx[c].prof] = c /\ ChecadoInd(c) /\ AgendaTipos
  BY DEF AgendaInd, TravaInd, ChecadoInd, Gravar, Em, Trancado
<1>2. tx[c] \in TxTipo /\ tx[c].duracao \in Nat /\ pedido[c] \in Pedidos
  BY <1>1 DEF AgendaTipos, TxTipo
<1>3. pedido[c].servico \in Servicos
  BY <1>2, AgendaAssumption
<1>4. DEFINE nova(v) == v[1] = c /\ v[2] \in Partes(c)
<1>5. ASSUME NEW v \in Vagas, nova(v)
      PROVE  /\ agenda'[v] = [status |-> "AGENDADO", prof |-> tx[c].prof,
                              servico |-> pedido[c].servico, inicio |-> Inicio(c, v[2]),
                              fim |-> Inicio(c, v[2]) + tx[c].duracao]
             /\ Inicio(c, v[2]) \in Nat
             /\ agenda'[v].prof = tx[c].prof
             /\ agenda'[v].inicio = Inicio(c, v[2])
             /\ agenda'[v].fim = Inicio(c, v[2]) + tx[c].duracao
  <2>1. Inicio(c, v[2]) \in Nat
    BY <1>1, <1>5, InicioNat
  <2>2. agenda'[v] = [status |-> "AGENDADO", prof |-> tx[c].prof,
                      servico |-> pedido[c].servico, inicio |-> Inicio(c, v[2]),
                      fim |-> Inicio(c, v[2]) + tx[c].duracao]
    BY <1>5 DEF Gravar
  <2>3. QED
    BY <2>1, <2>2
<1>6. ASSUME NEW v \in Vagas, ~nova(v)
      PROVE  agenda'[v] = agenda[v]
  BY <1>6 DEF Gravar
<1>7. agenda' \in [Vagas -> VagaTipo]
  <2>1. ASSUME NEW v \in Vagas
        PROVE  agenda'[v] \in VagaTipo
    <3>1. CASE nova(v)
      <4>1. Inicio(c, v[2]) \in Nat /\ Inicio(c, v[2]) + tx[c].duracao \in Nat
        <5>1. Inicio(c, v[2]) \in Nat
          BY <1>5, <3>1
        <5>2. QED
          BY <1>2, <5>1
      <4>2. [status |-> "AGENDADO", prof |-> tx[c].prof, servico |-> pedido[c].servico,
             inicio |-> Inicio(c, v[2]), fim |-> Inicio(c, v[2]) + tx[c].duracao] \in VagaTipo
        BY <1>1, <1>3, <4>1 DEF VagaTipo, Status, Ativos
      <4>3. QED
        BY <1>5, <3>1, <4>2
    <3>2. CASE ~nova(v)
      BY <1>1, <1>6, <3>2 DEF AgendaTipos
    <3>3. QED
      BY <3>1, <3>2
  <2>2. agenda' = [v \in Vagas |-> agenda'[v]]
    BY DEF Gravar
  <2>3. QED
    BY <2>1, <2>2
<1>8. /\ tx' \in [Chamadas -> TxTipo] /\ tx'[c].passo = "fim"
      /\ \A b \in Chamadas \ {c} : tx'[b] = tx[b]
  BY <1>1, <1>2 DEF Gravar, AgendaTipos, TxTipo, Passos
<1>9. /\ trancada' \in [Profissionais -> Chamadas \cup {Livre}]
      /\ \A p \in Profissionais : trancada[p] \in Chamadas \ {c} => trancada'[p] = trancada[p]
  BY <1>1 DEF Gravar, AgendaTipos
<1>10. AgendaTipos'
  <2>1. serie' \in [Chamadas -> {"AUSENTE", "ATIVA", "CANCELADA"}]
    BY <1>1 DEF Gravar, AgendaTipos
  <2>2. QED
    BY <1>1, <1>7, <1>8, <1>9, <2>1 DEF Gravar, AgendaTipos
<1>11. SemSobreposicao'
  <2>1. SUFFICES ASSUME NEW v \in Vagas, NEW w \in Vagas, v # w, Ativa(v)', Ativa(w)',
                        agenda'[v].prof = agenda'[w].prof
                 PROVE  \/ agenda'[v].fim <= agenda'[w].inicio
                        \/ agenda'[w].fim <= agenda'[v].inicio
    BY DEF SemSobreposicao
  <2>2. CASE nova(v) /\ nova(w)
    <3>1. v = <<v[1], v[2]>> /\ w = <<w[1], w[2]>>
      BY DEF Vagas
    <3>2. v[2] # w[2] /\ v[2] \in Partes(c) /\ w[2] \in Partes(c)
      BY <2>1, <2>2, <3>1
    <3>3. v[2] \in Int /\ w[2] \in Int
      BY <3>2 DEF Vagas
    <3>4. CASE v[2] < w[2]
      BY <1>1, <1>5, <2>2, <3>2, <3>4, PartesSeparadas
    <3>5. CASE w[2] < v[2]
      BY <1>1, <1>5, <2>2, <3>2, <3>5, PartesSeparadas
    <3>6. QED
      BY <3>2, <3>3, <3>4, <3>5
  <2>3. ASSUME NEW x \in Vagas, NEW y \in Vagas, nova(x), ~nova(y), Ativa(y)',
               agenda'[x].prof = agenda'[y].prof
        PROVE  \/ agenda'[x].fim <= agenda'[y].inicio
               \/ agenda'[y].fim <= agenda'[x].inicio
    <3>1. agenda'[y] = agenda[y] /\ Ativa(y) /\ agenda[y].prof = tx[c].prof
      BY <1>5, <1>6, <2>3 DEF Ativa
    <3>2. /\ agenda'[x].inicio = Inicio(c, x[2]) /\ agenda'[x].fim = Inicio(c, x[2]) + tx[c].duracao
          /\ x[2] \in Partes(c) /\ Inicio(c, x[2]) \in Nat
      BY <1>5, <2>3
    <3>3. ~Ocupado(tx[c].prof, Inicio(c, x[2]), Inicio(c, x[2]) + tx[c].duracao)
      BY <1>1, <3>2 DEF Conflito
    <3>4. ~(agenda[y].inicio < Inicio(c, x[2]) + tx[c].duracao /\ agenda[y].fim > Inicio(c, x[2]))
      BY <3>1, <3>3 DEF Ocupado
    <3>5. agenda[y].inicio \in Nat /\ agenda[y].fim \in Nat
      BY <1>1 DEF AgendaTipos, VagaTipo
    <3>6. QED
      BY <1>2, <3>1, <3>2, <3>4, <3>5
  <2>4. CASE nova(v) /\ ~nova(w)
    BY <2>1, <2>3, <2>4
  <2>5. CASE ~nova(v) /\ nova(w)
    BY <2>1, <2>3, <2>5
  <2>6. CASE ~nova(v) /\ ~nova(w)
    <3>1. agenda'[v] = agenda[v] /\ agenda'[w] = agenda[w]
      BY <1>6, <2>6
    <3>2. QED
      BY <2>1, <3>1 DEF AgendaInd, SemSobreposicao, Ativa
  <2>7. QED
    BY <2>2, <2>4, <2>5, <2>6
<1>12. ASSUME NEW b \in Chamadas
       PROVE  SerieInd(b)'
  <2>1. CASE b = c
    <3>1. serie'[c] # "CANCELADA"
      BY <1>1 DEF Gravar, AgendaTipos, AgendaInd, SerieInd
    <3>2. QED
      BY <1>8, <2>1, <3>1 DEF SerieInd
  <2>2. CASE b # c
    <3>1. serie'[b] = serie[b] /\ tx'[b] = tx[b]
      BY <1>1, <1>8, <2>2 DEF Gravar, AgendaTipos
    <3>2. \A v \in Vagas : v[1] = b => agenda'[v] = agenda[v]
      BY <1>6, <2>2
    <3>3. agora' = agora
      BY DEF Gravar
    <3>4. QED
      BY <3>1, <3>2, <3>3 DEF AgendaInd, SerieInd, Ativa
  <2>3. QED
    BY <2>1, <2>2
<1>13. ASSUME NEW b \in Chamadas
       PROVE  TravaInd(b)' /\ ChecadoInd(b)'
  <2>1. CASE b = c
    BY <1>8, <2>1 DEF TravaInd, ChecadoInd, Trancado
  <2>2. CASE b # c
    <3>1. tx'[b] = tx[b] /\ TravaInd(b) /\ ChecadoInd(b) /\ pedido' = pedido
      BY <1>8, <2>2 DEF AgendaInd, Gravar
    <3>2. TravaInd(b)'
      BY <1>9, <2>2, <3>1 DEF TravaInd, Tipo, Trancado
    <3>3. ASSUME tx[b].passo \in {"cliente", "gravar"}, NEW i \in Partes(b)
          PROVE  ~Ocupado(tx[b].prof, Inicio(b, i), Inicio(b, i) + tx[b].duracao)'
      <4>1. trancada[tx[b].prof] = b /\ tx[b].prof # tx[c].prof
        BY <1>1, <2>2, <3>1, <3>3 DEF TravaInd, Trancado
      <4>2. ~Ocupado(tx[b].prof, Inicio(b, i), Inicio(b, i) + tx[b].duracao)
        BY <3>1, <3>3 DEF ChecadoInd, Conflito
      <4>3. \A v \in Vagas : agenda'[v].prof = tx[b].prof => agenda'[v] = agenda[v]
        BY <1>5, <1>6, <4>1
      <4>4. QED
        BY <3>1, <4>2, <4>3 DEF Ocupado, Ativa, Inicio
    <3>4. tx'[b].passo \in {"cliente", "gravar"} => ~Conflito(b)'
      BY <3>1, <3>3 DEF Conflito, Partes
    <3>5. ChecadoInd(b)'
      BY <3>1, <3>4 DEF ChecadoInd, Tipo
    <3>6. QED
      BY <3>2, <3>5
  <2>3. QED
    BY <2>1, <2>2
<1>14. QED
  BY <1>10, <1>11, <1>12, <1>13 DEF AgendaInd

-----------------------------------------------------------------------------
LEMMA MudarStatusInd ==
    ASSUME AgendaInd, NEW v \in Vagas, MudarStatus(v)
    PROVE  AgendaInd'
<1>1. PICK x \in TRANSICOES[agenda[v].status] : agenda' = [agenda EXCEPT ![v].status = x]
  BY DEF MudarStatus
<1>2. agenda \in [Vagas -> VagaTipo] /\ agenda[v] \in VagaTipo
  BY DEF AgendaInd, AgendaTipos
<1>3. Ativa(v) /\ x \in Status
  BY <1>1, <1>2 DEF VagaTipo, Status, Ativos, Ativa, TRANSICOES
<1>4. agenda' \in [Vagas -> VagaTipo]
  BY <1>1, <1>2, <1>3 DEF VagaTipo
<1>5. \A w \in Vagas : /\ Ativa(w)' => Ativa(w)
                       /\ agenda'[w].prof = agenda[w].prof
                       /\ agenda'[w].inicio = agenda[w].inicio
                       /\ agenda'[w].fim = agenda[w].fim
  BY <1>1, <1>2, <1>3 DEF VagaTipo, Ativa
<1>6. \A c \in Chamadas : SerieInd(c)'
  BY <1>5 DEF AgendaInd, SerieInd, MudarStatus
<1>7. AgendaTipos'
  BY <1>4 DEF AgendaInd, AgendaTipos, MudarStatus
<1>8. QED
  BY <1>5, <1>6, <1>7, SemNovas DEF MudarStatus

LEMMA CancelarSerieInd ==
    ASSUME AgendaInd, NEW c \in Chamadas, CancelarSerie(c)
    PROVE  AgendaInd'
<1>1. agenda \in [Vagas -> VagaTipo] /\ AgendaTipos /\ SerieInd(c)
  BY DEF AgendaInd, AgendaTipos
<1>2. ASSUME NEW w \in Vagas
      PROVE  /\ agenda'[w] = IF w[1] = c /\ Cancelavel(w)
                             THEN [agenda[w] EXCEPT !.status = "CANCELADO"] ELSE agenda[w]
             /\ agenda[w] \in VagaTipo
  BY <1>1 DEF CancelarSerie
<1>3. ASSUME NEW w \in Vagas
      PROVE  /\ agenda'[w] \in VagaTipo
             /\ Ativa(w)' => Ativa(w)
             /\ agenda'[w].prof = agenda[w].prof
             /\ agenda'[w].inicio = agenda[w].inicio
             /\ agenda'[w].fim = agenda[w].fim
             /\ w[1] = c /\ Cancelavel(w) => ~Ativa(w)'
  <2>1. CASE w[1] = c /\ Cancelavel(w)
    <3>1. agenda'[w] = [agenda[w] EXCEPT !.status = "CANCELADO"]
      BY <1>2, <2>1
    <3>2. QED
      BY <1>2, <3>1 DEF VagaTipo, Status, Ativos, Ativa
  <2>2. CASE ~(w[1] = c /\ Cancelavel(w))
    BY <1>2, <2>2 DEF Ativa
  <2>3. QED
    BY <2>1, <2>2
<1>4. agenda' \in [Vagas -> VagaTipo]
  <2>1. agenda' = [w \in Vagas |-> agenda'[w]]
    BY DEF CancelarSerie
  <2>2. QED
    BY <1>3, <2>1
<1>5. AgendaTipos'
  BY <1>1, <1>4 DEF AgendaTipos, CancelarSerie
<1>6. ASSUME NEW b \in Chamadas
      PROVE  SerieInd(b)'
  <2>1. CASE b = c
    <3>1. tx'[c].passo = "fim"
      BY <1>1 DEF SerieInd, CancelarSerie
    <3>2. ASSUME NEW w \in Vagas, w[1] = c, Ativa(w)'
          PROVE  agenda'[w].inicio <= agora'
      <4>1. ~Cancelavel(w) /\ Ativa(w)
        BY <1>3, <3>2
      <4>2. agenda[w].inicio \in Nat /\ agora \in Nat
        BY <1>1 DEF AgendaTipos, VagaTipo
      <4>3. agenda'[w].inicio = agenda[w].inicio /\ agora' = agora
        BY <1>3 DEF CancelarSerie
      <4>4. QED
        BY <4>1, <4>2, <4>3 DEF Cancelavel
    <3>3. QED
      BY <2>1, <3>1, <3>2 DEF SerieInd
  <2>2. CASE b # c
    <3>1. serie'[b] = serie[b] /\ tx' = tx /\ agora' = agora
      BY <1>1, <2>2 DEF AgendaTipos, CancelarSerie
    <3>2. QED
      BY <1>3, <3>1 DEF AgendaInd, SerieInd
  <2>3. QED
    BY <2>1, <2>2
<1>7. UNCHANGED <<pedido, tx, trancada>>
  BY DEF CancelarSerie
<1>8. QED
  BY <1>3, <1>5, <1>6, <1>7, SemNovas

\* Edition and deactivation, and the clock.
LEMMA CadastroInd ==
    ASSUME AgendaInd,
           \/ \E s \in Servicos : AtualizarServico(s) \/ ContarFuturos(s) \/ DesativarServico(s)
           \/ \E p \in Profissionais : DesativarProfissional(p)
           \/ Passar
    PROVE  AgendaInd'
<1>1. UNCHANGED <<pedido, agenda, serie, trancada, tx>>
  BY DEF AtualizarServico, ContarFuturos, DesativarServico, DesativarProfissional, Passar
<1>2. servico \in [Servicos -> [ativo: BOOLEAN, duracao: Duracoes]] /\ equipe \subseteq Profissionais
      /\ agora \in Nat
  BY DEF AgendaInd, AgendaTipos
<1>3. servico' \in [Servicos -> [ativo: BOOLEAN, duracao: Duracoes]]
  <2>1. ASSUME NEW s \in Servicos, AtualizarServico(s) \/ DesativarServico(s)
        PROVE  servico' \in [Servicos -> [ativo: BOOLEAN, duracao: Duracoes]]
    <3>1. CASE AtualizarServico(s)
      BY <1>2, <3>1 DEF AtualizarServico
    <3>2. CASE DesativarServico(s)
      BY <1>2, <3>2 DEF DesativarServico
    <3>3. QED
      BY <2>1, <3>1, <3>2
  <2>2. CASE \E s \in Servicos : ContarFuturos(s)
    BY <1>2, <2>2 DEF ContarFuturos
  <2>3. CASE (\E p \in Profissionais : DesativarProfissional(p)) \/ Passar
    BY <1>2, <2>3 DEF DesativarProfissional, Passar
  <2>4. QED
    BY <2>1, <2>2, <2>3
<1>4. equipe' \subseteq Profissionais /\ agora' \in Nat /\ agora <= agora'
  BY <1>2 DEF AtualizarServico, ContarFuturos, DesativarServico, DesativarProfissional, Passar
<1>5. AgendaTipos'
  BY <1>1, <1>3, <1>4 DEF AgendaInd, AgendaTipos
<1>6. ASSUME NEW c \in Chamadas
      PROVE  SerieInd(c)'
  <2>1. \A v \in Vagas : agenda[v].inicio \in Nat
    BY DEF AgendaInd, AgendaTipos, VagaTipo
  <2>2. QED
    BY <1>1, <1>2, <1>4, <2>1 DEF AgendaInd, SerieInd, Ativa
<1>7. QED
  BY <1>1, <1>5, <1>6, SemNovas DEF Ativa

-----------------------------------------------------------------------------
LEMMA AgendaInicio ==
    ASSUME Init
    PROVE  AgendaInd
<1>1. \A c \in Chamadas : /\ pedido[c].servico \in Servicos
                          /\ pedido[c].prof \in Profissionais \cup {Qualquer}
  BY AgendaAssumption DEF Init
<1>2. agenda \in [Vagas -> VagaTipo]
  BY <1>1 DEF Init, Vagas, VagaTipo, Status
<1>3. tx \in [Chamadas -> TxTipo]
  BY <1>1 DEF Init, TxTipo, Passos
<1>4. servico \in [Servicos -> [ativo: BOOLEAN, duracao: Duracoes]]
  BY DEF Init
<1>5. AgendaTipos
  BY <1>2, <1>3, <1>4 DEF Init, AgendaTipos
<1>6. \A v \in Vagas : ~Ativa(v)
  BY DEF Init, Ativa, Ativos
<1>7. \A c \in Chamadas : TravaInd(c) /\ ChecadoInd(c) /\ SerieInd(c)
  BY DEF Init, TravaInd, ChecadoInd, SerieInd, Trancado
<1>8. QED
  BY <1>5, <1>6, <1>7 DEF AgendaInd, SemSobreposicao

LEMMA AgendaPasso ==
    ASSUME AgendaInd, [Next]_vars
    PROVE  AgendaInd'
<1>1. ASSUME NEW c \in Chamadas, Chamar(c)
      PROVE  AgendaInd'
  <2>1. CASE Abortar(c)
    BY <2>1, EncerrarInd DEF Abortar, Respostas
  <2>2. QED
    BY <1>1, <2>1, ValidarInd, TrancarInd, ValidarSerieInd, ChecarInd, GravarInd DEF Chamar
<1>2. CASE UNCHANGED vars
  <2>1. AgendaTipos' /\ \A c \in Chamadas : SerieInd(c)'
    BY <1>2 DEF vars, AgendaInd, AgendaTipos, SerieInd, Ativa
  <2>2. QED
    BY <1>2, <2>1, SemNovas DEF vars, Ativa
<1>3. QED
  BY <1>1, <1>2, MudarStatusInd, CancelarSerieInd, CadastroInd DEF Next

THEOREM AgendaIndutiva == Spec => []AgendaInd
  BY AgendaInicio, AgendaPasso, PTL DEF Spec

\* No two active appointments of one professional overlap, for any number of
\* calls, dates of a series, durations and professionals.
THEOREM NuncaSobrepoe == Spec => []SemSobreposicao
<1>1. AgendaInd => SemSobreposicao
  BY DEF AgendaInd
<1>2. QED
  BY <1>1, AgendaIndutiva, PTL

\* A cancelled series keeps no appointment that is still to come.
THEOREM CancelaTudo == Spec => []SerieCancelada
<1>1. AgendaInd => SerieCancelada
  BY DEF AgendaInd, SerieInd, SerieCancelada
<1>2. QED
  BY <1>1, AgendaIndutiva, PTL

-----------------------------------------------------------------------------
(***************************************************************************)
(* The rest of the types, what becomes of a row, and the client rows of    *)
(* the public page.                                                        *)
(***************************************************************************)
\* The public calls for telephone f that were answered, and their professionals.
Criados(f) == {b \in Chamadas : /\ resp[b] = "CRIADO"
                                /\ Tipo(b, "PUBLICO")
                                /\ pedido[b].telefone = f}
Agendas(f) == {tx[c].prof : c \in Criados(f)}

RestoTipos ==
    /\ fichas \in [Telefones -> Nat]
    /\ contado \subseteq Servicos
    /\ resp \in [Chamadas -> Respostas \cup {Nenhum}]

\* A call that is not over has no row and no client row of its own.
AbertaInd(c) ==
    tx[c].passo # "fim" => /\ resp[c] # "CRIADO"
                           /\ \A v \in Vagas : v[1] = c => agenda[v].status = "AUSENTE"

\* A call about to create a client holds the agenda no earlier call with its
\* telephone booked in; one that is not has found the row.
FichaInd(c) ==
    /\ tx[c].passo = "cliente" => Tipo(c, "PUBLICO")
    /\ tx[c].nova => Tipo(c, "PUBLICO")
    /\ tx[c].passo = "gravar" /\ Tipo(c, "PUBLICO") =>
          IF tx[c].nova
          THEN \A b \in Criados(pedido[c].telefone) : tx[b].prof # tx[c].prof
          ELSE fichas[pedido[c].telefone] # 0
    /\ resp[c] = "CRIADO" /\ Tipo(c, "PUBLICO") => fichas[pedido[c].telefone] # 0

PublicoInd ==
    /\ RestoTipos
    /\ \A c \in Chamadas : AbertaInd(c) /\ FichaInd(c)
    /\ FichaPorAgenda

-----------------------------------------------------------------------------
\* What a call does to itself before it writes: b is over or is not touched.
Intacta(b) ==
    /\ tx'[b].passo # "fim" => tx[b].passo # "fim"
    /\ tx[b].passo = "fim" => tx'[b] = tx[b]
    /\ resp'[b] = resp[b] \/ (tx[b].passo # "fim" /\ resp'[b] # "CRIADO")
    /\ tx'[b].passo = "cliente" => Tipo(b, "PUBLICO") \/ tx[b].passo = "cliente"
    /\ tx'[b].nova => tx[b].nova \/ Tipo(b, "PUBLICO")
    /\ tx'[b].passo = "gravar" /\ Tipo(b, "PUBLICO") =>
          \/ tx'[b] = tx[b]
          \/ tx'[b].nova = (fichas[pedido[b].telefone] = 0)

\* A row that changes does so along TRANSICOES.
PorTransicao ==
    \A v \in Vagas : agenda'[v].status # agenda[v].status =>
        agenda'[v].status \in TRANSICOES[agenda[v].status]

LEMMA ForaDaGravacao ==
    ASSUME AgendaInd, AgendaInd', PublicoInd,
           UNCHANGED <<pedido, fichas>>,
           contado' \subseteq Servicos,
           resp' \in [Chamadas -> Respostas \cup {Nenhum}],
           \A b \in Chamadas : Intacta(b),
           PorTransicao
    PROVE  PublicoInd'
<1>1. RestoTipos'
  BY DEF PublicoInd, RestoTipos
<1>2. \A b \in Chamadas : resp'[b] = "CRIADO" <=> resp[b] = "CRIADO"
  BY DEF PublicoInd, AbertaInd, Intacta
<1>3. \A b \in Chamadas : resp[b] = "CRIADO" => tx'[b] = tx[b]
  BY DEF PublicoInd, AbertaInd, Intacta
<1>4. ASSUME NEW f
      PROVE  Criados(f)' = Criados(f) /\ Agendas(f)' = Agendas(f)
  <2>1. Criados(f)' = Criados(f)
    BY <1>2 DEF Criados, Tipo
  <2>2. \A b \in Criados(f) : tx'[b] = tx[b]
    BY <1>3 DEF Criados
  <2>3. QED
    BY <2>1, <2>2 DEF Agendas
<1>5. FichaPorAgenda'
  <2>1. ASSUME NEW f \in Telefones
        PROVE  fichas'[f] <= Cardinality(Agendas(f)')
    <3>1. fichas[f] <= Cardinality(Agendas(f))
      BY DEF PublicoInd, FichaPorAgenda, Agendas, Criados
    <3>2. QED
      BY <1>4, <3>1
  <2>2. QED
    BY <2>1 DEF FichaPorAgenda, Agendas, Criados
<1>6. ASSUME NEW c \in Chamadas
      PROVE  AbertaInd(c)'
  <2>1. SUFFICES ASSUME tx'[c].passo # "fim"
                 PROVE  /\ resp'[c] # "CRIADO"
                        /\ \A v \in Vagas : v[1] = c => agenda'[v].status = "AUSENTE"
    BY DEF AbertaInd
  <2>2. AbertaInd(c) /\ tx[c].passo # "fim"
    BY <2>1 DEF PublicoInd, Intacta
  <2>3. \A v \in Vagas : agenda[v].status = "AUSENTE" => agenda'[v].status = "AUSENTE"
    BY DEF PorTransicao, TRANSICOES
  <2>4. QED
    BY <1>2, <2>2, <2>3 DEF AbertaInd
<1>7. ASSUME NEW c \in Chamadas
      PROVE  FichaInd(c)'
  <2>1. FichaInd(c) /\ Intacta(c) /\ (Tipo(c, "PUBLICO")' <=> Tipo(c, "PUBLICO"))
        /\ pedido' = pedido /\ fichas' = fichas
    BY DEF PublicoInd, Tipo
  <2>2. /\ tx'[c].passo = "cliente" => Tipo(c, "PUBLICO")
        /\ tx'[c].nova => Tipo(c, "PUBLICO")
    BY <2>1 DEF FichaInd, Intacta
  <2>3. resp'[c] = "CRIADO" /\ Tipo(c, "PUBLICO") => fichas'[pedido[c].telefone] # 0
    BY <1>2, <2>1 DEF FichaInd
  <2>4. ASSUME tx'[c].passo = "gravar", Tipo(c, "PUBLICO")
        PROVE  IF tx'[c].nova
               THEN \A b \in Criados(pedido[c].telefone) : tx'[b].prof # tx'[c].prof
               ELSE fichas[pedido[c].telefone] # 0
    <3>1. \A b \in Criados(pedido[c].telefone) : tx'[b] = tx[b]
      BY <1>3 DEF Criados
    <3>2. CASE tx'[c] = tx[c]
      BY <2>1, <2>4, <3>1, <3>2 DEF FichaInd
    <3>3. CASE tx'[c].nova = (fichas[pedido[c].telefone] = 0)
      <4>1. \A b \in Criados(pedido[c].telefone) : fichas[pedido[c].telefone] # 0
        BY DEF PublicoInd, FichaInd, Criados
      <4>2. QED
        BY <3>3, <4>1
    <3>4. QED
      BY <2>1, <2>4, <3>2, <3>3 DEF Intacta
  <2>5. Criados(pedido[c].telefone)' = Criados(pedido[c].telefone)
    BY <1>4, <2>1 DEF Criados, Tipo
  <2>6. QED
    BY <2>1, <2>2, <2>3, <2>4, <2>5 DEF FichaInd
<1>8. QED
  BY <1>1, <1>5, <1>6, <1>7 DEF PublicoInd

\* A step of one call c that is not over keeps the others intact.
LEMMA SoUma ==
    ASSUME AgendaInd, AgendaInd', PublicoInd, NEW c \in Chamadas,
           UNCHANGED <<pedido, agenda, fichas, contado>>,
           \A b \in Chamadas \ {c} : tx'[b] = tx[b] /\ resp'[b] = resp[b],
           resp' \in [Chamadas -> Respostas \cup {Nenhum}],
           Intacta(c)
    PROVE  PublicoInd'
<1>1. \A b \in Chamadas : Intacta(b)
  BY DEF Intacta
<1>2. PorTransicao
  BY DEF PorTransicao
<1>3. contado' \subseteq Servicos
  BY DEF PublicoInd, RestoTipos
<1>4. QED
  BY <1>1, <1>2, <1>3, ForaDaGravacao

LEMMA EncerrarFicha ==
    ASSUME AgendaInd, AgendaInd', PublicoInd, NEW c \in Chamadas,
           NEW x \in Respostas \ {"CRIADO"}, Encerrar(c, x), tx[c].passo # "fim"
    PROVE  PublicoInd'
<1>1. tx \in [Chamadas -> TxTipo] /\ resp \in [Chamadas -> Respostas \cup {Nenhum}]
  BY DEF AgendaInd, AgendaTipos, PublicoInd, RestoTipos
<1>2. /\ \A b \in Chamadas \ {c} : tx'[b] = tx[b] /\ resp'[b] = resp[b]
      /\ resp' \in [Chamadas -> Respostas \cup {Nenhum}]
      /\ resp'[c] = x
      /\ tx'[c].passo = "fim" /\ tx'[c].nova = tx[c].nova
  BY <1>1 DEF Encerrar, TxTipo
<1>3. Intacta(c)
  BY <1>2 DEF Intacta
<1>4. UNCHANGED <<pedido, agenda, fichas, contado>>
  BY DEF Encerrar
<1>5. QED
  BY <1>2, <1>3, <1>4, SoUma

LEMMA AceitarFicha ==
    ASSUME AgendaInd, AgendaInd', PublicoInd, NEW c \in Chamadas, NEW p, NEW d,
           Aceitar(c, p, d), Em(c, "fora")
    PROVE  PublicoInd'
<1>1. tx \in [Chamadas -> TxTipo] /\ resp \in [Chamadas -> Respostas \cup {Nenhum}]
  BY DEF AgendaInd, AgendaTipos, PublicoInd, RestoTipos
<1>2. /\ \A b \in Chamadas \ {c} : tx'[b] = tx[b]
      /\ tx'[c].passo = "trancar" /\ tx'[c].nova = tx[c].nova
      /\ resp' = resp
  BY <1>1 DEF Aceitar, SoPasso, TxTipo
<1>3. Intacta(c)
  BY <1>2 DEF Intacta, Em
<1>4. UNCHANGED <<pedido, agenda, fichas, contado>>
  BY DEF Aceitar, SoPasso
<1>5. QED
  BY <1>1, <1>2, <1>3, <1>4, SoUma

LEMMA TrancarFicha ==
    ASSUME AgendaInd, AgendaInd', PublicoInd, NEW c \in Chamadas, Trancar(c)
    PROVE  PublicoInd'
<1>1. tx \in [Chamadas -> TxTipo] /\ resp \in [Chamadas -> Respostas \cup {Nenhum}]
  BY DEF AgendaInd, AgendaTipos, PublicoInd, RestoTipos
<1>2. /\ \A b \in Chamadas \ {c} : tx'[b] = tx[b]
      /\ tx'[c].passo \in {"validar", "checar"} /\ tx'[c].nova = tx[c].nova
      /\ resp' = resp
  BY <1>1 DEF Trancar, TxTipo
<1>3. Intacta(c)
  BY <1>2 DEF Intacta, Em, Trancar
<1>4. UNCHANGED <<pedido, agenda, fichas, contado>>
  BY DEF Trancar
<1>5. QED
  BY <1>1, <1>2, <1>3, <1>4, SoUma

LEMMA ValidarSerieFicha ==
    ASSUME AgendaInd, AgendaInd', PublicoInd, NEW c \in Chamadas, ValidarSerie(c)
    PROVE  PublicoInd'
<1>1. CASE Encerrar(c, "RECUSADO")
  BY <1>1, EncerrarFicha DEF ValidarSerie, Em, Respostas
<1>2. CASE ~Encerrar(c, "RECUSADO")
  <2>1. tx \in [Chamadas -> TxTipo] /\ resp \in [Chamadas -> Respostas \cup {Nenhum}]
    BY DEF AgendaInd, AgendaTipos, PublicoInd, RestoTipos
  <2>2. /\ \A b \in Chamadas \ {c} : tx'[b] = tx[b]
        /\ tx'[c].passo = "checar" /\ tx'[c].nova = tx[c].nova
        /\ UNCHANGED <<pedido, agenda, fichas, contado, resp>>
    BY <1>2, <2>1 DEF ValidarSerie, SoPasso, TxTipo
  <2>3. Intacta(c)
    BY <2>2 DEF Intacta, Em, ValidarSerie
  <2>4. QED
    BY <2>1, <2>2, <2>3, SoUma
<1>3. QED
  BY <1>1, <1>2

LEMMA ChecarFicha ==
    ASSUME AgendaInd, AgendaInd', PublicoInd, NEW c \in Chamadas, Checar(c)
    PROVE  PublicoInd'
<1>1. CASE Conflito(c)
  BY <1>1, EncerrarFicha DEF Checar, Em, Respostas
<1>2. CASE ~Conflito(c)
  <2>1. tx \in [Chamadas -> TxTipo] /\ resp \in [Chamadas -> Respostas \cup {Nenhum}]
    BY DEF AgendaInd, AgendaTipos, PublicoInd, RestoTipos
  <2>2. /\ \A b \in Chamadas \ {c} : tx'[b] = tx[b]
        /\ tx'[c].passo = IF Tipo(c, "PUBLICO") THEN "cliente" ELSE "gravar"
        /\ tx'[c].nova = tx[c].nova
        /\ UNCHANGED <<pedido, agenda, fichas, contado, resp>>
    BY <1>2, <2>1 DEF Checar, SoPasso, TxTipo
  <2>3. Intacta(c)
    BY <2>2 DEF Intacta, Em, Checar
  <2>4. QED
    BY <2>1, <2>2, <2>3, SoUma
<1>3. QED
  BY <1>1, <1>2

LEMMA AcharFicha ==
    ASSUME AgendaInd, AgendaInd', PublicoInd, NEW c \in Chamadas, AcharCliente(c)
    PROVE  PublicoInd'
<1>1. tx \in [Chamadas -> TxTipo] /\ resp \in [Chamadas -> Respostas \cup {Nenhum}]
  BY DEF AgendaInd, AgendaTipos, PublicoInd, RestoTipos
<1>2. tx[c].passo = "cliente" /\ Tipo(c, "PUBLICO")
  BY DEF AcharCliente, Em, PublicoInd, FichaInd
<1>3. /\ \A b \in Chamadas \ {c} : tx'[b] = tx[b]
      /\ tx'[c].passo = "gravar"
      /\ UNCHANGED <<pedido, agenda, fichas, contado, resp>>
  BY <1>1 DEF AcharCliente, SoPasso, TxTipo
<1>4. tx'[c].nova = (fichas[pedido[c].telefone] = 0)
  <2>1. tx' = [tx EXCEPT ![c] = [tx[c] EXCEPT !.passo = "gravar",
                                       !.nova = fichas[pedido[c].telefone] = 0]]
    BY DEF AcharCliente
  <2>2. tx'[c] = [tx[c] EXCEPT !.passo = "gravar", !.nova = fichas[pedido[c].telefone] = 0]
    BY <1>1, <2>1
  <2>3. tx[c] \in TxTipo
    BY <1>1
  <2>4. QED
    BY <2>2, <2>3, Zenon DEF TxTipo
<1>5. Intacta(c)
  BY <1>2, <1>3, <1>4 DEF Intacta
<1>6. QED
  BY <1>1, <1>3, <1>5, SoUma

LEMMA ValidarFicha ==
    ASSUME AgendaInd, AgendaInd', PublicoInd, NEW c \in Chamadas,
           ValidarCriar(c) \/ ValidarPublico(c) \/ AbrirSerie(c)
    PROVE  PublicoInd'
<1>1. Em(c, "fora") /\ tx[c].passo # "fim"
  BY DEF ValidarCriar, ValidarPublico, AbrirSerie, Em
<1>2. \/ \E p, d : Aceitar(c, p, d)
      \/ Encerrar(c, "RECUSADO")
      \/ Encerrar(c, "OCUPADO")
  <2>1. CASE ValidarCriar(c)
    BY <2>1 DEF ValidarCriar
  <2>2. CASE ValidarPublico(c)
    BY <2>2 DEF ValidarPublico
  <2>3. CASE AbrirSerie(c)
    BY <2>3 DEF AbrirSerie
  <2>4. QED
    BY <2>1, <2>2, <2>3
<1>3. QED
  BY <1>1, <1>2, AceitarFicha, EncerrarFicha DEF Respostas

-----------------------------------------------------------------------------
LEMMA AgendasFinitas ==
    ASSUME AgendaTipos, NEW f
    PROVE  IsFiniteSet(Agendas(f))
<1>1. IsFiniteSet(Profissionais \cup {Qualquer})
  BY AgendaAssumption, FS_AddElement
<1>2. Agendas(f) \subseteq Profissionais \cup {Qualquer}
  BY DEF Agendas, Criados, AgendaTipos, TxTipo
<1>3. QED
  BY <1>1, <1>2, FS_Subset

\* The commit of call c adds c to the answered calls of its telephone.
LEMMA GravarCriados ==
    ASSUME AgendaInd, PublicoInd, NEW c \in Chamadas, Gravar(c)
    PROVE  /\ tx[c].passo = "gravar" /\ tx'[c].passo = "fim"
           /\ tx'[c].prof = tx[c].prof /\ tx'[c].nova = tx[c].nova
           /\ \A b \in Chamadas \ {c} : tx'[b] = tx[b] /\ resp'[b] = resp[b]
           /\ resp'[c] = "CRIADO" /\ resp[c] # "CRIADO"
           /\ resp' \in [Chamadas -> Respostas \cup {Nenhum}]
           /\ \A f : (Tipo(c, "PUBLICO") /\ pedido[c].telefone = f) =>
                 Criados(f)' = Criados(f) \cup {c} /\ Agendas(f)' = Agendas(f) \cup {tx[c].prof}
           /\ \A f : ~(Tipo(c, "PUBLICO") /\ pedido[c].telefone = f) =>
                 Criados(f)' = Criados(f) /\ Agendas(f)' = Agendas(f)
<1>1. tx \in [Chamadas -> TxTipo] /\ resp \in [Chamadas -> Respostas \cup {Nenhum}]
  BY DEF AgendaInd, AgendaTipos, PublicoInd, RestoTipos
<1>2. /\ tx[c].passo = "gravar" /\ tx'[c].passo = "fim"
      /\ tx'[c].prof = tx[c].prof /\ tx'[c].nova = tx[c].nova
      /\ \A b \in Chamadas \ {c} : tx'[b] = tx[b] /\ resp'[b] = resp[b]
      /\ resp'[c] = "CRIADO"
      /\ resp' \in [Chamadas -> Respostas \cup {Nenhum}]
      /\ pedido' = pedido
  BY <1>1 DEF Gravar, Em, TxTipo, Respostas
<1>3. resp[c] # "CRIADO"
  BY <1>2 DEF PublicoInd, AbertaInd
<1>4. \A b \in Chamadas : tx'[b].prof = tx[b].prof
  BY <1>2
<1>5. ASSUME NEW f, Tipo(c, "PUBLICO"), pedido[c].telefone = f
      PROVE  Criados(f)' = Criados(f) \cup {c} /\ Agendas(f)' = Agendas(f) \cup {tx[c].prof}
  <2>1. Criados(f)' = Criados(f) \cup {c}
    BY <1>2, <1>5 DEF Criados, Tipo
  <2>2. \A b \in Criados(f) \cup {c} : tx'[b].prof = tx[b].prof
    BY <1>4 DEF Criados
  <2>3. QED
    BY <2>1, <2>2 DEF Agendas
<1>6. ASSUME NEW f, ~(Tipo(c, "PUBLICO") /\ pedido[c].telefone = f)
      PROVE  Criados(f)' = Criados(f) /\ Agendas(f)' = Agendas(f)
  <2>1. Criados(f)' = Criados(f)
    BY <1>2, <1>3, <1>6 DEF Criados, Tipo
  <2>2. \A b \in Criados(f) : tx'[b].prof = tx[b].prof
    BY <1>4 DEF Criados
  <2>3. QED
    BY <2>1, <2>2 DEF Agendas
<1>7. QED
  BY <1>2, <1>3, <1>5, <1>6

\* The client rows: one more, or the one that was found.
LEMMA GravarFichas ==
    ASSUME AgendaInd, PublicoInd, NEW c \in Chamadas, Gravar(c)
    PROVE  /\ fichas' \in [Telefones -> Nat]
           /\ \A f \in Telefones : fichas[f] # 0 => fichas'[f] # 0
           /\ Tipo(c, "PUBLICO") => fichas'[pedido[c].telefone] # 0
           /\ FichaPorAgenda'
<1>1. fichas \in [Telefones -> Nat] /\ FichaInd(c) /\ pedido[c] \in Pedidos
  BY DEF PublicoInd, RestoTipos, AgendaInd, AgendaTipos
<1>2. Tipo(c, "PUBLICO") => pedido[c].telefone \in Telefones
  BY <1>1, AgendaAssumption DEF Tipo
<1>3. ASSUME NEW f \in Telefones
      PROVE  fichas[f] <= Cardinality(Agendas(f)) /\ IsFiniteSet(Agendas(f))
             /\ Cardinality(Agendas(f)) \in Nat /\ fichas[f] \in Nat
  <2>1. IsFiniteSet(Agendas(f))
    BY AgendasFinitas DEF AgendaInd
  <2>2. Cardinality(Agendas(f)) \in Nat
    BY <2>1, FS_CardinalityType
  <2>3. QED
    BY <1>1, <2>1, <2>2 DEF PublicoInd, FichaPorAgenda, Agendas, Criados
<1>4. \A f \in Telefones :
         fichas'[f] = IF tx[c].nova /\ pedido[c].telefone = f THEN fichas[f] + 1 ELSE fichas[f]
  <2>1. CASE tx[c].nova
    <3>1. fichas' = [fichas EXCEPT ![pedido[c].telefone] = fichas[pedido[c].telefone] + 1]
      BY <2>1 DEF Gravar
    <3>2. QED
      BY <1>1, <2>1, <3>1
  <2>2. CASE ~tx[c].nova
    BY <2>2 DEF Gravar
  <2>3. QED
    BY <2>1, <2>2
<1>5. fichas' \in [Telefones -> Nat]
  <2>1. fichas' = [f \in Telefones |-> fichas'[f]]
    BY <1>1 DEF Gravar
  <2>2. \A f \in Telefones : fichas'[f] \in Nat
    BY <1>3, <1>4
  <2>3. QED
    BY <2>1, <2>2
<1>6. \A f \in Telefones : fichas[f] # 0 => fichas'[f] # 0
  BY <1>3, <1>4
<1>7. ASSUME Tipo(c, "PUBLICO")
      PROVE  fichas'[pedido[c].telefone] # 0
  <2>1. tx[c].passo = "gravar"
    BY DEF Gravar, Em
  <2>2. CASE tx[c].nova
    BY <1>2, <1>3, <1>4, <1>7, <2>2
  <2>3. CASE ~tx[c].nova
    BY <1>1, <1>2, <1>4, <1>7, <2>1, <2>3 DEF FichaInd
  <2>4. QED
    BY <2>2, <2>3
<1>8. ASSUME NEW f \in Telefones
      PROVE  fichas'[f] <= Cardinality(Agendas(f)')
  <2>1. CASE Tipo(c, "PUBLICO") /\ pedido[c].telefone = f
    <3>1. Agendas(f)' = Agendas(f) \cup {tx[c].prof}
      BY <2>1, GravarCriados
    <3>2. /\ Cardinality(Agendas(f)') = IF tx[c].prof \in Agendas(f)
                                        THEN Cardinality(Agendas(f))
                                        ELSE Cardinality(Agendas(f)) + 1
      BY <1>3, <3>1, FS_AddElement
    <3>3. CASE tx[c].nova
      <4>1. tx[c].passo = "gravar"
        BY DEF Gravar, Em
      <4>2. tx[c].prof \notin Agendas(f)
        BY <1>1, <2>1, <3>3, <4>1 DEF FichaInd, Agendas
      <4>3. fichas'[f] = fichas[f] + 1
        BY <1>4, <2>1, <3>3
      <4>4. Cardinality(Agendas(f)') = Cardinality(Agendas(f)) + 1
        BY <3>2, <4>2
      <4>5. QED
        BY <1>3, <4>3, <4>4
    <3>4. CASE ~tx[c].nova
      <4>1. fichas'[f] = fichas[f]
        BY <1>4, <3>4
      <4>2. QED
        BY <1>3, <3>2, <4>1
    <3>5. QED
      BY <3>3, <3>4
  <2>2. CASE ~(Tipo(c, "PUBLICO") /\ pedido[c].telefone = f)
    <3>1. Agendas(f)' = Agendas(f)
      BY <2>2, GravarCriados
    <3>2. fichas'[f] = fichas[f]
      BY <1>1, <1>4, <2>2 DEF FichaInd
    <3>3. QED
      BY <1>3, <3>1, <3>2
  <2>3. QED
    BY <2>1, <2>2
<1>9. FichaPorAgenda'
  BY <1>8 DEF FichaPorAgenda, Agendas, Criados
<1>10. QED
  BY <1>5, <1>6, <1>7, <1>9

LEMMA GravarFicha ==
    ASSUME AgendaInd, AgendaInd', PublicoInd, NEW c \in Chamadas, Gravar(c)
    PROVE  PublicoInd'
<1>1. /\ tx[c].passo = "gravar" /\ tx'[c].passo = "fim"
      /\ tx'[c].prof = tx[c].prof /\ tx'[c].nova = tx[c].nova
      /\ \A b \in Chamadas \ {c} : tx'[b] = tx[b] /\ resp'[b] = resp[b]
      /\ resp'[c] = "CRIADO"
      /\ resp' \in [Chamadas -> Respostas \cup {Nenhum}]
      /\ pedido' = pedido /\ contado' = contado
  BY GravarCriados DEF Gravar
<1>2. /\ fichas' \in [Telefones -> Nat]
      /\ \A f \in Telefones : fichas[f] # 0 => fichas'[f] # 0
      /\ Tipo(c, "PUBLICO") => fichas'[pedido[c].telefone] # 0
      /\ FichaPorAgenda'
  BY GravarFichas
<1>3. RestoTipos'
  BY <1>1, <1>2 DEF PublicoInd, RestoTipos
<1>4. ASSUME NEW b \in Chamadas
      PROVE  AbertaInd(b)'
  <2>1. CASE b = c
    BY <1>1, <2>1 DEF AbertaInd
  <2>2. CASE b # c
    <3>1. tx'[b] = tx[b] /\ resp'[b] = resp[b] /\ AbertaInd(b)
      BY <1>1, <2>2 DEF PublicoInd
    <3>2. \A v \in Vagas : v[1] = b => agenda'[v] = agenda[v]
      BY <2>2 DEF Gravar
    <3>3. QED
      BY <3>1, <3>2 DEF AbertaInd
  <2>3. QED
    BY <2>1, <2>2
<1>5. ASSUME NEW b \in Chamadas
      PROVE  FichaInd(b)'
  <2>1. FichaInd(b) /\ FichaInd(c)
    BY DEF PublicoInd
  <2>2. Tipo(b, "PUBLICO")' <=> Tipo(b, "PUBLICO")
    BY <1>1 DEF Tipo
  <2>3. Tipo(b, "PUBLICO") => pedido[b].telefone \in Telefones
    BY AgendaAssumption DEF Tipo, AgendaInd, AgendaTipos
  <2>4. CASE b = c
    BY <1>1, <1>2, <2>1, <2>2, <2>4 DEF FichaInd
  <2>5. CASE b # c
    <3>1. tx'[b] = tx[b] /\ resp'[b] = resp[b]
      BY <1>1, <2>5
    <3>2. /\ tx'[b].passo = "cliente" => Tipo(b, "PUBLICO")
          /\ tx'[b].nova => Tipo(b, "PUBLICO")
          /\ resp'[b] = "CRIADO" /\ Tipo(b, "PUBLICO") => fichas'[pedido[b].telefone] # 0
      BY <1>2, <2>1, <2>3, <3>1 DEF FichaInd
    <3>3. ASSUME tx[b].passo = "gravar", Tipo(b, "PUBLICO"), ~tx[b].nova
          PROVE  fichas'[pedido[b].telefone] # 0
      BY <1>2, <2>1, <2>3, <3>3 DEF FichaInd
    <3>4. ASSUME tx[b].passo = "gravar", Tipo(b, "PUBLICO"), tx[b].nova,
                 NEW a \in Criados(pedido[b].telefone)'
          PROVE  tx'[a].prof # tx[b].prof
      <4>1. CASE a = c
        <5>1. trancada[tx[b].prof] = b /\ trancada[tx[c].prof] = c
          BY <1>1, <3>4 DEF AgendaInd, TravaInd, Trancado
        <5>2. QED
          BY <1>1, <2>5, <4>1, <5>1
      <4>2. CASE a # c
        <5>1. a \in Criados(pedido[b].telefone) /\ a \in Chamadas
          BY <1>1, <3>4, <4>2 DEF Criados, Tipo
        <5>2. tx'[a] = tx[a]
          BY <1>1, <4>2, <5>1
        <5>3. QED
          BY <2>1, <3>4, <5>1, <5>2 DEF FichaInd
      <4>3. QED
        BY <4>1, <4>2
    <3>5. tx'[b].passo = "gravar" /\ Tipo(b, "PUBLICO") =>
             IF tx'[b].nova
             THEN \A a \in Criados(pedido[b].telefone)' : tx'[a].prof # tx'[b].prof
             ELSE fichas'[pedido[b].telefone] # 0
      BY <3>1, <3>3, <3>4
    <3>6. QED
      BY <1>1, <2>2, <3>2, <3>5 DEF FichaInd
  <2>6. QED
    BY <2>4, <2>5
<1>6. QED
  BY <1>2, <1>3, <1>4, <1>5 DEF PublicoInd

-----------------------------------------------------------------------------
\* A status that changes outside Gravar follows TRANSICOES.
LEMMA TransicaoFora ==
    ASSUME AgendaInd,
           \/ \E v \in Vagas : MudarStatus(v)
           \/ \E c \in Chamadas : CancelarSerie(c)
           \/ agenda' = agenda
    PROVE  PorTransicao
<1>1. agenda \in [Vagas -> VagaTipo]
  BY DEF AgendaInd, AgendaTipos
<1>2. CASE agenda' = agenda
  BY <1>2 DEF PorTransicao
<1>3. ASSUME NEW v \in Vagas, MudarStatus(v)
      PROVE  PorTransicao
  <2>1. PICK x \in TRANSICOES[agenda[v].status] : agenda' = [agenda EXCEPT ![v].status = x]
    BY <1>3 DEF MudarStatus
  <2>2. agenda[v] \in VagaTipo
    BY <1>1
  <2>3. agenda'[v].status = x /\ \A w \in Vagas \ {v} : agenda'[w] = agenda[w]
    BY <1>1, <2>1, <2>2 DEF VagaTipo
  <2>4. QED
    BY <2>1, <2>3 DEF PorTransicao
<1>4. ASSUME NEW c \in Chamadas, CancelarSerie(c)
      PROVE  PorTransicao
  <2>1. ASSUME NEW w \in Vagas, agenda'[w].status # agenda[w].status
        PROVE  agenda'[w].status \in TRANSICOES[agenda[w].status]
    <3>1. agenda[w] \in VagaTipo
      BY <1>1
    <3>2. Cancelavel(w) /\ agenda'[w] = [agenda[w] EXCEPT !.status = "CANCELADO"]
      BY <1>4, <2>1 DEF CancelarSerie
    <3>3. agenda'[w].status = "CANCELADO" /\ agenda[w].status \in Ativos
      BY <3>1, <3>2 DEF VagaTipo, Cancelavel, Ativa
    <3>4. QED
      BY <3>3 DEF TRANSICOES, Ativos
  <2>2. QED
    BY <2>1 DEF PorTransicao
<1>5. QED
  BY <1>2, <1>3, <1>4

\* What is not a step of a call.
LEMMA OutrosFicha ==
    ASSUME AgendaInd, AgendaInd', PublicoInd,
           \/ \E v \in Vagas : MudarStatus(v)
           \/ \E c \in Chamadas : CancelarSerie(c)
           \/ \E s \in Servicos : AtualizarServico(s) \/ ContarFuturos(s) \/ DesativarServico(s)
           \/ \E p \in Profissionais : DesativarProfissional(p)
           \/ Passar
           \/ UNCHANGED vars
    PROVE  PublicoInd'
<1>1. /\ UNCHANGED <<pedido, fichas, tx, resp>>
      /\ \/ \E v \in Vagas : MudarStatus(v)
         \/ \E c \in Chamadas : CancelarSerie(c)
         \/ agenda' = agenda
  BY DEF MudarStatus, CancelarSerie, AtualizarServico, ContarFuturos, DesativarServico,
         DesativarProfissional, Passar, vars
<1>2. PorTransicao
  BY <1>1, TransicaoFora
<1>3. \A b \in Chamadas : Intacta(b)
  BY <1>1 DEF Intacta
<1>4. contado' \subseteq Servicos
  BY DEF PublicoInd, RestoTipos, MudarStatus, CancelarSerie, AtualizarServico, ContarFuturos,
         DesativarServico, DesativarProfissional, Passar, vars
<1>5. resp' \in [Chamadas -> Respostas \cup {Nenhum}]
  BY <1>1 DEF PublicoInd, RestoTipos
<1>6. QED
  BY <1>1, <1>2, <1>3, <1>4, <1>5, ForaDaGravacao

-----------------------------------------------------------------------------
LEMMA PublicoInicio ==
    ASSUME Init
    PROVE  PublicoInd
<1>1. RestoTipos
  BY DEF Init, RestoTipos
<1>2. \A c \in Chamadas : AbertaInd(c) /\ FichaInd(c)
  BY AgendaAssumption DEF Init, AbertaInd, FichaInd, Criados, Respostas
<1>3. ASSUME NEW f \in Telefones
      PROVE  fichas[f] <= Cardinality(Agendas(f))
  <2>1. Cardinality(Agendas(f)) \in Nat
    BY AgendaInicio, AgendasFinitas, FS_CardinalityType DEF AgendaInd
  <2>2. fichas[f] = 0
    BY DEF Init
  <2>3. QED
    BY <2>1, <2>2
<1>4. FichaPorAgenda
  BY <1>3 DEF FichaPorAgenda, Agendas, Criados
<1>5. QED
  BY <1>1, <1>2, <1>4 DEF PublicoInd

LEMMA PublicoPasso ==
    ASSUME AgendaInd, AgendaInd', PublicoInd, [Next]_vars
    PROVE  PublicoInd'
<1>1. ASSUME NEW c \in Chamadas, Chamar(c)
      PROVE  PublicoInd'
  <2>1. CASE Abortar(c)
    BY <2>1, EncerrarFicha DEF Abortar, Respostas
  <2>2. QED
    BY <1>1, <2>1, ValidarFicha, TrancarFicha, ValidarSerieFicha, ChecarFicha, AcharFicha,
       GravarFicha DEF Chamar
<1>2. QED
  BY <1>1, OutrosFicha DEF Next

THEOREM PublicoIndutivo == Spec => []PublicoInd
<1>1. Init => PublicoInd
  BY PublicoInicio
<1>2. AgendaInd /\ AgendaInd' /\ PublicoInd /\ [Next]_vars => PublicoInd'
  BY PublicoPasso
<1>3. QED
  BY <1>1, <1>2, AgendaIndutiva, PTL DEF Spec

\* Every variable has its type.
THEOREM AgendaTipada == Spec => []TypeOK
<1>1. AgendaInd /\ PublicoInd => TypeOK
  BY DEF AgendaInd, PublicoInd, AgendaTipos, RestoTipos, VagaTipo, TxTipo, TypeOK
<1>2. QED
  BY <1>1, AgendaIndutiva, PublicoIndutivo, PTL

\* Bookings of one new telephone that go to the same professional create one
\* client between them, for any number of calls, telephones and professionals.
THEOREM UmaFichaPorAgenda == Spec => []FichaPorAgenda
<1>1. PublicoInd => FichaPorAgenda
  BY DEF PublicoInd
<1>2. QED
  BY <1>1, PublicoIndutivo, PTL

-----------------------------------------------------------------------------
(***************************************************************************)
(* agendar and the page agree.  Besides the types, what a call under the   *)
(* lock looks up must still be what it asked for.                          *)
(***************************************************************************)
PedidoInd(c) ==
    /\ tx[c].passo = "validar" => Tipo(c, "SERIE")
    /\ tx[c].passo \notin {"fora", "fim"} /\ pedido[c].prof # Qualquer =>
          tx[c].prof = pedido[c].prof

LEMMA PedidoPasso ==
    ASSUME AgendaInd, [Next]_vars, \A c \in Chamadas : PedidoInd(c)
    PROVE  \A c \in Chamadas : PedidoInd(c)'
<1>1. tx \in [Chamadas -> TxTipo]
  BY DEF AgendaInd, AgendaTipos
<1>2. CASE UNCHANGED <<pedido, tx>>
  BY <1>2 DEF PedidoInd, Tipo
<1>3. CASE \E c \in Chamadas : Chamar(c)
  <2>1. PICK c \in Chamadas : Chamar(c)
    BY <1>3
  <2>2. /\ pedido' = pedido
        /\ \A b \in Chamadas \ {c} : tx'[b] = tx[b]
    BY <1>1, <2>1 DEF Chamar, ValidarCriar, ValidarPublico, AbrirSerie, Trancar, ValidarSerie,
                      Checar, AcharCliente, Gravar, Abortar, Aceitar, Encerrar, SoPasso
  <2>3. PedidoInd(c)'
    <3>1. ASSUME NEW p, NEW d, Aceitar(c, p, d), pedido[c].prof # Qualquer => p = pedido[c].prof
          PROVE  PedidoInd(c)'
      <4>1. tx'[c].passo = "trancar" /\ tx'[c].prof = p /\ pedido' = pedido
        BY <1>1, <3>1 DEF Aceitar, SoPasso, TxTipo
      <4>2. QED
        BY <3>1, <4>1 DEF PedidoInd
    <3>2. ASSUME NEW x, Encerrar(c, x)
          PROVE  PedidoInd(c)'
      BY <1>1, <3>2 DEF Encerrar, PedidoInd, TxTipo
    <3>3. CASE ValidarCriar(c)
      BY <3>1, <3>2, <3>3 DEF ValidarCriar
    <3>4. CASE ValidarPublico(c)
      BY <3>1, <3>2, <3>4 DEF ValidarPublico
    <3>5. CASE AbrirSerie(c)
      BY <3>1, <3>2, <3>5 DEF AbrirSerie
    <3>6. CASE /\ tx[c].passo \notin {"fora", "fim"}
               /\ tx'[c].prof = tx[c].prof
               /\ tx'[c].passo = "validar" => Tipo(c, "SERIE")
      BY <2>2, <3>6 DEF PedidoInd, Tipo
    <3>7. CASE Trancar(c)
      BY <1>1, <3>6, <3>7 DEF Trancar, Em, TxTipo
    <3>8. CASE ValidarSerie(c)
      BY <1>1, <3>2, <3>6, <3>8 DEF ValidarSerie, Em, TxTipo
    <3>9. CASE Checar(c)
      BY <1>1, <3>2, <3>6, <3>9 DEF Checar, Em, TxTipo
    <3>10. CASE AcharCliente(c)
      BY <1>1, <3>6, <3>10 DEF AcharCliente, Em, TxTipo
    <3>11. CASE Gravar(c)
      BY <1>1, <3>6, <3>11 DEF Gravar, Em, TxTipo
    <3>12. CASE Abortar(c)
      BY <3>2, <3>12 DEF Abortar
    <3>13. QED
      BY <2>1, <3>3, <3>4, <3>5, <3>7, <3>8, <3>9, <3>10, <3>11, <3>12 DEF Chamar
  <2>4. QED
    BY <2>2, <2>3 DEF PedidoInd, Tipo
<1>4. QED
  BY <1>2, <1>3 DEF Next, vars, CancelarSerie, MudarStatus, AtualizarServico, ContarFuturos,
                    DesativarServico, DesativarProfissional, Passar

\* What the page lists for call c passes the checks of agendar.
LEMMA ListadoPassa ==
    ASSUME AgendaInd, NEW c \in Chamadas, NEW e \in Expedientes, SemVirada(e),
           pedido[c].inicio \in Instantes(e, c)
    PROVE  LET a == pedido[c].inicio
               b == a + servico[pedido[c].servico].duracao
           IN  /\ servico[pedido[c].servico].ativo
               /\ a >= agora
               /\ NoExpediente(a, b)
               /\ \E q \in equipe : /\ pedido[c].prof # Qualquer => q = pedido[c].prof
                                    /\ ~Ocupado(q, a, b)
<1> DEFINE s == pedido[c].servico
           d == servico[s].duracao
           a == pedido[c].inicio
<1>1. pedido[c] \in Pedidos /\ agora \in Nat
  BY DEF AgendaInd, AgendaTipos
<1>2. s \in Servicos
  BY <1>1, AgendaAssumption
<1>3. d \in Nat \ {0}
  BY <1>2, AgendaAssumption DEF AgendaInd, AgendaTipos
<1>4. servico[s].ativo
  BY DEF Instantes
<1>5. PICK h \in Slots(e, pedido[c].prof, d) : a = e.instante[h]
  BY <1>4 DEF Instantes
<1>6. /\ h \in e.abre..e.fecha
      /\ h + d <= e.fecha
      /\ a > agora
      /\ \E q \in equipe : /\ pedido[c].prof # Qualquer => q = pedido[c].prof
                           /\ ~Ocupado(q, a, a + d)
  BY <1>3, <1>5 DEF Slots
<1>7. /\ e.abre \in Nat /\ e.fecha \in Nat /\ e.abre <= e.fecha
      /\ e.instante \in [e.abre..e.fecha -> Nat]
  BY AgendaAssumption
<1>8. /\ e.abre \in e.abre..e.fecha /\ e.fecha \in e.abre..e.fecha
  BY <1>7
<1>9. /\ e.instante[e.abre] \in Nat
      /\ a = e.instante[e.abre] + (h - e.abre)
      /\ e.instante[e.fecha] = e.instante[e.abre] + (e.fecha - e.abre)
  BY <1>5, <1>6, <1>7, <1>8 DEF SemVirada
<1>10. e.instante[e.abre] <= a /\ a + d <= e.instante[e.fecha] /\ a >= agora
  <2>1. h \in Int /\ h >= e.abre
    BY <1>6, <1>7
  <2>2. \A i, f \in Nat : a = i + (h - e.abre) /\ f = i + (e.fecha - e.abre)
           => i <= a /\ a + d <= f /\ a \in Int
    BY <1>3, <1>6, <1>7, <2>1
  <2>3. e.instante[e.fecha] \in Nat
    BY <1>7, <1>8
  <2>4. e.instante[e.abre] <= a /\ a + d <= e.instante[e.fecha] /\ a \in Int
    BY <1>9, <2>2, <2>3
  <2>5. QED
    BY <1>1, <1>6, <2>4
<1>11. NoExpediente(a, a + d)
  BY <1>10 DEF NoExpediente
<1>12. QED
  BY <1>4, <1>6, <1>10, <1>11

\* agendar does not refuse what the page lists at that moment, for any opening
\* hours, durations, professionals and time zone, on days without a change of
\* clock in opening hours; the exceptions are those of the definition.
THEOREM OfertaValida == Spec => OfertaAceita
<1> DEFINE Listado(c) == \E e \in Expedientes :
                             SemVirada(e) /\ pedido[c].inicio \in Instantes(e, c)
           A == \A c \in Chamadas :
                  (/\ Tipo(c, "PUBLICO")
                   /\ resp[c] = Nenhum
                   /\ resp'[c] \in {"RECUSADO", "OCUPADO"}
                   /\ Listado(c))
                     => /\ Em(c, "checar")
                        /\ \/ pedido[c].prof = Qualquer
                           \/ tx[c].duracao # servico[pedido[c].servico].duracao
           I == \A c \in Chamadas : PedidoInd(c)
<1>1. Init => I
  BY DEF Init, PedidoInd
<1>2. AgendaInd /\ I /\ [Next]_vars => I'
  BY PedidoPasso
<1>3. AgendaInd /\ PublicoInd /\ I /\ [Next]_vars => [A]_vars
  <2>1. SUFFICES ASSUME AgendaInd, PublicoInd, I, Next,
                        NEW c \in Chamadas, Tipo(c, "PUBLICO"), resp[c] = Nenhum,
                        resp'[c] \in {"RECUSADO", "OCUPADO"}, Listado(c)
                 PROVE  /\ Em(c, "checar")
                        /\ \/ pedido[c].prof = Qualquer
                           \/ tx[c].duracao # servico[pedido[c].servico].duracao
    OBVIOUS
  <2>2. resp \in [Chamadas -> Respostas \cup {Nenhum}] /\ pedido[c] \in Pedidos
    BY <2>1 DEF PublicoInd, RestoTipos, AgendaInd, AgendaTipos
  <2>3. resp'[c] # resp[c]
    BY <2>1, AgendaAssumption DEF Respostas
  <2>4. Chamar(c)
    <3>1. ASSUME NEW b \in Chamadas \ {c}, Chamar(b)
          PROVE  resp'[c] = resp[c]
      BY <2>2, <3>1 DEF Chamar, ValidarCriar, ValidarPublico, AbrirSerie, Trancar, ValidarSerie,
                        Checar, AcharCliente, Gravar, Abortar, Aceitar, Encerrar, SoPasso
    <3>2. \E b \in Chamadas : Chamar(b)
      BY <2>1, <2>3 DEF Next, CancelarSerie, MudarStatus, AtualizarServico, ContarFuturos,
                        DesativarServico, DesativarProfissional, Passar
    <3>3. QED
      BY <2>3, <3>1, <3>2
  <2>5. ValidarPublico(c) \/ Checar(c)
    <3>1. ~ValidarCriar(c) /\ ~AbrirSerie(c)
      BY <2>1 DEF ValidarCriar, AbrirSerie, Tipo
    <3>2. ~ValidarSerie(c)
      BY <2>1 DEF ValidarSerie, Em, PedidoInd, Tipo
    <3>3. ~Trancar(c) /\ ~AcharCliente(c)
      BY <2>3 DEF Trancar, AcharCliente, SoPasso
    <3>4. ~Gravar(c) /\ ~Abortar(c)
      BY <2>1, <2>2 DEF Gravar, Abortar, Encerrar
    <3>5. QED
      BY <2>4, <3>1, <3>2, <3>3, <3>4 DEF Chamar
  <2>6. PICK e \in Expedientes : SemVirada(e) /\ pedido[c].inicio \in Instantes(e, c)
    BY <2>1
  <2> DEFINE ini == pedido[c].inicio
             dur == servico[pedido[c].servico].duracao
  <2>7. /\ servico[pedido[c].servico].ativo
        /\ ini >= agora
        /\ NoExpediente(ini, ini + dur)
        /\ \E q \in equipe : /\ pedido[c].prof # Qualquer => q = pedido[c].prof
                             /\ ~Ocupado(q, ini, ini + dur)
    BY <2>1, <2>6, ListadoPassa
  <2>8. ~ValidarPublico(c)
    <3>1. SUFFICES ASSUME ValidarPublico(c) PROVE FALSE
      OBVIOUS
    <3>2. pedido[c].prof # Qualquer => pedido[c].prof \in equipe
      BY <2>7
    <3>4. \/ Aceitar(c, pedido[c].prof, dur)
          \/ \E p \in Profissionais : Aceitar(c, p, dur)
          \/ pedido[c].prof = Qualquer /\ \A q \in equipe : Ocupado(q, ini, ini + dur)
      BY <2>7, <3>1, <3>2 DEF ValidarPublico
    <3>5. ASSUME NEW p PROVE ~Aceitar(c, p, dur)
      BY <2>3 DEF Aceitar, SoPasso
    <3>6. QED
      BY <2>7, <3>4, <3>5
  <2>9. Checar(c)
    BY <2>5, <2>8
  <2>10. ASSUME pedido[c].prof # Qualquer, tx[c].duracao = dur
         PROVE  FALSE
    <3>1. tx[c].prof = pedido[c].prof
      BY <2>1, <2>9, <2>10 DEF Checar, Em, PedidoInd
    <3>2. Conflito(c)
      BY <2>3, <2>9 DEF Checar, SoPasso
    <3>3. /\ ini \in Nat /\ pedido[c].intervalo \in Nat
          /\ pedido[c].quantidade = 1
      BY <2>1, <2>2, AgendaAssumption DEF Tipo
    <3>4. \A i \in Partes(c) : i = 1
      BY <3>3 DEF Partes
    <3>5. Inicio(c, 1) = ini
      BY <3>3 DEF Inicio
    <3>6. Ocupado(pedido[c].prof, ini, ini + dur)
      BY <2>10, <3>1, <3>2, <3>4, <3>5 DEF Conflito
    <3>7. QED
      BY <2>7, <2>10, <3>6
  <2>11. QED
    BY <2>9, <2>10 DEF Checar
<1>4. QED
  BY <1>1, <1>2, <1>3, AgendaIndutiva, PublicoIndutivo, PTL DEF Spec, OfertaAceita

\* What was concluded or cancelled stays so, also when its series is cancelled
\* at the same moment, and only a new appointment starts as AGENDADO.
THEOREM TransicoesSempre == Spec => SoTransicoes
<1> DEFINE A == \A v \in Vagas :
                  agenda'[v].status # agenda[v].status =>
                     \/ agenda'[v].status \in TRANSICOES[agenda[v].status]
                     \/ agenda[v].status = "AUSENTE" /\ agenda'[v].status = "AGENDADO"
<1>1. ASSUME AgendaInd, PublicoInd, NEW c \in Chamadas, Gravar(c)
      PROVE  A
  <2>1. tx[c].passo = "gravar"
    BY <1>1 DEF Gravar, Em
  <2>2. ASSUME NEW v \in Vagas, agenda'[v].status # agenda[v].status
        PROVE  agenda[v].status = "AUSENTE" /\ agenda'[v].status = "AGENDADO"
    <3>1. v[1] = c /\ agenda'[v].status = "AGENDADO"
      BY <1>1, <2>2 DEF Gravar
    <3>2. agenda[v].status = "AUSENTE"
      BY <1>1, <2>1, <3>1 DEF PublicoInd, AbertaInd
    <3>3. QED
      BY <3>1, <3>2
  <2>3. QED
    BY <2>2
<1>2. ASSUME AgendaInd, PublicoInd, NEW c \in Chamadas, Chamar(c), ~Gravar(c)
      PROVE  agenda' = agenda
  BY <1>2 DEF Chamar, ValidarCriar, ValidarPublico, AbrirSerie, Trancar, ValidarSerie, Checar,
              AcharCliente, Abortar, Aceitar, Encerrar, SoPasso
<1>3. PorTransicao => A
  BY DEF PorTransicao
<1>4. AgendaInd /\ PublicoInd /\ [Next]_vars => [A]_vars
  <2>1. SUFFICES ASSUME AgendaInd, PublicoInd, Next
                 PROVE  A
    OBVIOUS
  <2>2. CASE \E c \in Chamadas : Gravar(c)
    BY <1>1, <2>1, <2>2
  <2>3. CASE ~\E c \in Chamadas : Gravar(c)
    <3>1. \/ \E v \in Vagas : MudarStatus(v)
          \/ \E c \in Chamadas : CancelarSerie(c)
          \/ agenda' = agenda
      <4>1. CASE \/ \E s \in Servicos : \/ AtualizarServico(s) \/ ContarFuturos(s)
                                        \/ DesativarServico(s)
                 \/ \E p \in Profissionais : DesativarProfissional(p)
                 \/ Passar
        BY <4>1 DEF AtualizarServico, ContarFuturos, DesativarServico, DesativarProfissional,
                    Passar
      <4>2. CASE \E c \in Chamadas : Chamar(c)
        BY <1>2, <2>1, <2>3, <4>2
      <4>3. QED
        BY <2>1, <4>1, <4>2 DEF Next
    <3>2. PorTransicao
      BY <2>1, <3>1, TransicaoFora
    <3>3. QED
      BY <1>3, <3>2
  <2>4. QED
    BY <2>2, <2>3
<1>5. QED
  BY <1>4, AgendaIndutiva, PublicoIndutivo, PTL DEF Spec, SoTransicoes
=============================================================================
