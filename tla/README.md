# Nexly: a verification development

Nexly is a multi-tenant system for salons and small shops: a NestJS API over
PostgreSQL (Prisma) with Redis beside it, a Next.js front end, and a separate
identity service (NexusAuth). This directory holds TLA+ models of the API's own
core logic, the TLC configurations that check them, and proofs checked by TLAPS.

Paths below are relative to the repository; `api/` stands for `apps/api/src/`.
Definitions keep the Portuguese names of the source where they name the same
thing (`criar`, `estornar`, `saldo`, `venda`, `pendencias`, ...).

## 1. Inventory

Everything shares one PostgreSQL database at READ COMMITTED. Several replicas of
the API may run; nothing but rows, their locks, advisory locks and Redis relates
them. A request is one HTTP call, usually one interactive transaction.

| Component | State | Operations | Meets |
|---|---|---|---|
| Stock and registry (`api/estoque`, `api/produtos`, `api/clientes`, `api/servicos`, `api/gestao/unidade-estoque.ts`) | `produtos.estoque_atual`, `saldos_filiais`, `movimentacoes_estoque`, `ativo` flags | conditional decrement, increment, deactivation | row locks shared with sales and appointments |
| Sales and refunds (`api/vendas`) | `vendas`, `itens_venda` | `criar`, `estornar` | lock of the company's row; stock, coupon, client, account receivable |
| Coupons (`api/cupons`) | `usoAtual`, `usoMaximo`, `ativo`, `validade` | use, return, edit, delete | sales |
| Appointments (`api/agendamentos`) | `agendamentos.status` | `criar`, `atualizarStatus`, recurrence | advisory lock per professional; insumos; client |
| Insumo consumption (`api/estoque/estoque-integracao.service.ts`) | `pendenciasEstoque` | consume, reprocess, cancel | stock, appointment's row lock |
| Public booking (`api/booking`) | creates clients and appointments | slots, booking | advisory lock, agenda |
| Automations and recurrences (`api/operacoes`) | `automacoes.proximaExecucao`, `recorrencias` | run due automations, enqueue messages | queue, agenda |
| Durable queue (`api/jobs`) | `jobs_duraveis` | enqueue, claim, heartbeat, reclaim, conclude, fail, repeat, clean | every sender of messages |
| Sessions and tokens (`api/auth`, `api/usuarios`) | sessions, refresh families, 2FA codes, recovery links | login, rotate, revoke, recover, invite | users' `ativo`, e-mail through the queue |
| Login throttle (`api/auth/login-throttle.service.ts`, `api/redis`) | counters with expiry | count, block, reset | login; Redis or local memory |
| Finance (`api/gestao/financeiro-operacional.service.ts`, `api/financeiro`) | accounts, `valorPago`, payments | pay, reverse, cancel | sales on credit |
| Purchases and transfers (`api/pedidos-compra`, `api/gestao`) | purchase orders, transfers | receive, transfer, import | stock of both units |
| Subscriptions (`api/assinaturas`) | plan, Stripe ids, idempotency key | checkout, webhook, reconcile | Stripe, quota of professionals |
| LGPD and export (`api/lgpd`, `api/export`) | requests of removal, lease in Redis | request, cancel, execute removal; export | subscription, every table |
| Professionals, commission, loyalty | snapshots | quota, closed periods | appointments |
| Dashboards, reports, audit, reviews, suppliers | none or one row | reads, one-row edits | none |
| Request plumbing (`api/common`, `api/database`) | none | guards, interceptors, tenant filter | each request on its own |
| NexusAuth (`services/nexusauth`) | refresh tokens, idempotency keys, circuit breaker | login, refresh, webhooks | API's auth bridge |
| Web, shared packages, scripts, e2e | user interface, tooling | | |

What makes it hard:

* **Concurrency of transactions.** READ COMMITTED lets a transaction read one
  version of a row and write over another. The code answers with three devices,
  and uses them unevenly: the lock of the company's row (sales, refunds), a
  conditional `updateMany` whose `count` is checked (stock, coupon, status), and
  advisory locks (a professional's agenda).
* **Retries.** Sales carry a `chaveOperacao`; a repeated call must recover the
  first one's sale.
* **Partial failure.** A transaction may end between any two statements.
* **Stops and stalls of workers** of the queue, and writes that arrive late.
* **Liveness**: a job must not be left behind.

What makes each component correct, in one line each: stock equals its history
and is never negative; a coupon's use count is the number of sales that stand; a
client's aggregates are those of the sales and visits that stand; a call repeated
is done once and answered with the same sale; the products of an appointment are
consumed once; no two active appointments of a professional overlap; a job has
one owner and ends; a session has one valid token, and none when it is over; the
paid value of an account is the sum of its active payments; stock that arrives or
moves between units is moved once; a company is never charged twice, and an old
webhook changes nothing; a due automation runs once and does run.

`PROJECT.json` lists every component with what is and what is not modelled, and
every hazard with its line and the properties that cover it.

## 2. Modules

| Module | Models | Notes |
|---|---|---|
| `Cadastro` | shared rows, row locks, stock statements, registry screens | no specification of its own |
| `Vendas` | `VendasService.criar`, `.estornar`, `CuponsService` | extends `Cadastro` |
| `Atendimento` | `AgendamentosService.atualizarStatus`, `EstoqueIntegracaoService` | extends `Cadastro` |
| `Loja` | the two side by side, and the properties of both | the specification that is checked |
| `MCVendas`, `MCLoja` | instances for TLC | |
| `LojaProvas` | proofs about types, stock, keys, the log's account, coupons and consumption | |
| `Somas` | lemmas about sums over finite sets | used by the proofs of shop, accounts and supplies |
| `FilaAbstrata` | what the queue promises | abstract specification |
| `Fila` | `JobsService`, with `repetirJob` and the reopening of automations | implements `FilaAbstrata` |
| `MCFila` | instances for TLC | |
| `FilaProvas` | proofs about the queue, the refinement included, and about automations | |
| `Agenda` | creation of appointments by its three ways, series, and what runs beside them | on its own; what conclusion does to stock and client is in `Atendimento` |
| `MCAgenda` | instances for TLC | |
| `AgendaProvas` | proofs about overlap, cancelled series, transitions, offered slots and clients | |
| `Financeiro` | `FinanceiroOperacionalService`, and a sale's account from opening to refund | on its own; the rest of a sale is in `Vendas` |
| `MCFinanceiro` | instance for TLC | |
| `FinanceiroProvas` | proofs about accounts, payments and the cash of a day | |
| `Automacoes` | `salvarAutomacao`, `enfileirarAutomacoes`, `processarAutomacoes` | over `FilaAbstrata`, which `Fila` implements |
| `Suprimentos` | `PedidosCompraService`, `GestaoService.transferir`, `.importar` | on its own; stock of both units |
| `SuprimentosProvas` | proofs about stock, keys and imports | |
| `Sessoes` | `AuthService`, `TokenService`, `RecuperacaoService`, `UsuariosService` | on its own |
| `SessoesProvas` | proofs about sessions, tokens, links, administrators and the second factor | |
| `Assinaturas` | `AssinaturasService`, and the removal of an account (`LgpdService`, `LgpdScheduler`) | against a provider that moves by itself |
| `AssinaturasProvas` | proofs about checkouts, removal, receipts and versions | |
| `MCAutomacoes`, `MCSuprimentos`, `MCSessoes`, `MCAssinaturas` | instances for TLC | |

### Shop (`Cadastro`, `Vendas`, `Atendimento`, `Loja`)

A variable holds the **committed** version of its rows. `trava` maps each row
that somebody may wait for to the transaction that holds its lock. A statement
that writes takes the lock and records in `txv`/`txa` what it wrote; the values
become visible in the commit action, in one step, together with the release of
the locks. Because a locked row cannot change, writing at commit is the same as
writing at the statement.

A conditional `UPDATE` is one action with two outcomes. If its `WHERE` fails on
the committed version it matches nothing, without waiting. If it holds, it waits
for the lock and is evaluated again when the lock is free, as PostgreSQL does.

`Vendas` steps (field `passo` of `txv`), in the order of the code:

| Step | Action | Code |
|---|---|---|
| fora | `ConsultarChave` | look-up of the key before the transaction |
| abrir | `AbrirVenda` / `AbrirEstorno` | lock of the company's row, second look-up / state of the sale |
| validar | `ValidarVenda` | client, coupon, products, balance; `venda.create` with the unique index |
| itens | `SairItem` / `DevolverItem` | one conditional decrement (increment) per product, in id order |
| cupom | `UsarCupom` / `DevolverCupom` | compare-and-set on `usoAtual` / decrement while positive |
| ler | `LerAtividade` | the refund's reads of sales and appointments |
| cliente | `ComprarCliente` / `GravarCliente` | aggregates of the client |
| commit | `ConfirmarVenda` / `ConfirmarEstorno` | everything becomes visible |

`Abortar` ends a running transaction at any step: stop of the process, lost
connection, transaction timeout, or victim of a deadlock (sales lock products and
then the client, appointments the client and then products).

`Atendimento` steps: `LerAgendamento` (before the transaction), `MudarStatus`
(compare-and-set on the status read), `RegistrarVisita`, `ConsumirItem`,
`Bloquear` (the lock that reprocessing and cancelling take), `ConfirmarAtendimento`,
`AbortarA`.

Abstractions, all of data: ids, keys and contents are members of small sets; the
total of a sale is an abstract number per content (prices and discounts are not
computed); `cupom.valido` is `ativo` and not expired together; the products a
service takes are constants; times are the order of creation (`relogio`) and the
appointment's hour (`DataDe`). A call that repeats another is another request with
the same content. The account receivable of a sale is in `Financeiro`. The look-up and
the update of `DesativarProduto` and `DesativarServico` are one step: what they look up
stays so here (the products of a service are constants, and no appointment is booked;
`Agenda`, where appointments are booked, has the two statements).

### Queue (`FilaAbstrata`, `Fila`)

Each replica is a worker, because of the flag `running`. Its steps are the
statements of `processar`: `Iniciar` (reclaim), `Selecionar` (`FOR UPDATE SKIP
LOCKED`: the row is skipped by the others until `Reservar`), `Reservar`,
`Executar` (the handler ends well or not), `Concluir` or `Falhar` (each fenced by
`WHERE id, reserva, status`), `Limpar`. Beside them run `Renovar` (heartbeat),
`Adicionar`, `Repetir`, `ReabrirAutomacao`, and time: `Vencer` (the next attempt
is due), `Envelhecer` (five minutes without a heartbeat). `Interromper` stops a
worker at any step; `ErroAoConcluir` is the update to `CONCLUIDO` that reports an
error, applied or not, which the code then treats as a failed run.

Only the freshness of a reservation's UUID matters, so reservations come from a
finite set and a new one is any that no row and no worker holds. `tentativas` is
compared with the maximum only, so it stops counting there; a job whose workers
always stop is run again without bound in the model as in the code.

`FilaAbstrata` says what is promised: a job is in the hands of at most one
worker, who alone ends it; a job may be taken back from whoever held it. The
refinement mapping is `Estado` (the status column) and `Posse` (a worker holds
its job while its reservation is the one in the row).

### Agenda (`Agenda`)

Appointments come in by three ways, and each is a call that goes through the
steps of its handler:

| Step | Action | Code |
|---|---|---|
| fora | `ValidarCriar` | `agendamentos.service.ts` `criar`: service, hour, professional, before the transaction |
| fora | `ValidarPublico` | `booking.service.ts` `agendar`: opening hours, and the first free professional when none was asked |
| fora | `AbrirSerie` | `operacoes.service.ts` `criarRecorrencia`: only the first date is looked at |
| trancar | `Trancar` | `bloquearAgenda`: advisory lock of the professional |
| validar | `ValidarSerie` | a series validates under the lock, unlike the other two |
| checar | `Checar` | look-up of overlapping active appointments, for every date |
| cliente | `AcharCliente` | find or create the client by telephone (public page) |
| gravar | `Gravar` | the rows become visible, the lock goes |

What the first three read before the lock (duration, `ativo`, opening hours) is
kept in `tx` and used afterwards without being read again, as in the code.
Beside them, without the lock: `MudarStatus` (one step, because its
compare-and-set makes it so; its statements are in `Atendimento`),
`CancelarSerie`, `AtualizarServico`, `ContarFuturos` and `DesativarServico` (the
count and the update of one request), `DesativarProfissional`, and the clock.
Hours of the day and instants are multiples of the public page's thirty minutes. A
day of `Expedientes` gives each hour its instant, so an offset and a change of the
clock are part of the model: `Slots` (`calcularSlots`) compares the end of the
service with closing time in hours of the day and the rest in instants, `agendar`
compares instants only (`NoExpediente`). `Instantes` is what `getDisponibilidade`
answers, and what the page sends back.

### Accounts (`Financeiro`)

| Step | Action | Code |
|---|---|---|
| fora | `Bloquear` | `SELECT ... FOR UPDATE` of the account; a refund locks the company's row |
| ler | `LerBaixar`, `LerEstornarBaixa`, `LerCancelar`, `LerEstornarVenda` | checks, and the new `valorPago` computed in memory |
| conta | `EstornarConta` | the refund's `UPDATE` of the account, which waits for its row |
| escrever | `CriarBaixa`, `EscreverEstorno`, `EstornarBaixas` | the payment's row; its unique key waits for another insertion of it |
| gravar | `Confirmar*` | everything becomes visible, locks go |

A payment is its key; the payment a sale makes of itself (`venda:<id>`) has the
account as its key. `AbrirConta` is `criar`, or a sale that commits. Days stand
for instants because the cash reports (`CaixaDe`) are by day; a payment has the
day of its statement, not of its commit.

### Automations (`Automacoes`)

The minute's timer of each process is `Ler` (the query), then for each occurrence
it read, oldest first, `Adicionar` (`jobs.adicionar`, an upsert by `chave`) and, if
the row it got was `CONCLUIDO`, `Reabrir`. The query brings one page (`Paginas`,
`take: 100`) of the oldest due automations of all companies; equal dates come in any
order. A worker's `Pegar` reserves a job and starts `processarAutomacoes`;
`IniciarTela` starts it from the screen for one company, in the same process (the
flag `running` is `Livre`). Then, for each automation read, oldest first, `Pular`,
`Executar` (compare-and-set on `proximaExecucao` and the task, one transaction) or
`Repetida` (the unique index on the task's occurrence). `Concluir` is the worker's
last update. The queue is taken at its abstraction, so that a job's owner is
`posse`; `Parar`, `Recuperar` and `Repetir` are the abstract queue's.

The module of the company is read just before the transaction and is taken with
it; the worker's read is taken with its reservation. The attempts of a final job
are not read until it is opened again and are forgotten. A worker that lost its
reservation but lives goes on like a run from the screen, which the model has.
`Evento` counts what comes from outside: saving, modules, the screen, repeated jobs
and stops.

### Supplies (`Suprimentos`)

A call on an order is `Obter` (its status is tested), `LerItens` for `receber` (a
second query), and then the conditional update of the order: `Atualizar` and
`Mudar` end there, `receber` goes on with `Reivindicar`, one `EntrarItem` per item
and the commit `Receber`. A transfer or an import is `Pedir`, `Travar` (company's
row), then `ChaveConhecida` or `Conferir...`, and `Transferir` or `Importar`.
`Falhar` ends a call at any step. `manual` is what sales and the stock screen take
meanwhile. A file is the set of the clients its lines identify. The registration
screen of clients takes no lock and may create a client beside an import; it is
left out, and `NinguemDuasVezes` speaks of imports.

### Sessions (`Sessoes`)

A call is one request and goes through its statements (`tx[t].passo`); what it
creates has its name. Rotation is `Decidir` (the session's row locked, the token
read), `Reivindicar`, `Emitir`; a reuse goes to the sweep. Every sweep of sessions
and tokens is two statements, `VarrerSessoes` and `VarrerTokens`, each over the rows
it sees when it starts, and `Gravar` is the commit; between them a login may insert
(`Inserir`), because its foreign key waits only for a `FOR UPDATE` of the user,
which `solicitar` and `redefinir` take; nothing is checked again when it does. `sob`
is history: the password in force when a session was inserted. argon2 takes its time between a read and
the statement that uses it. Codes of the second factor are members of a set, used
once each; the leeway of a rotation ends at any moment (`Tempo`); other deadlines
are a refusal that may come at any time. A login by Google (`google`) is a login of
an account that `Vincular` linked; a link with a second factor consumes a code.
Registration, invitations, the throttle and the lists are left out.

### Subscriptions and removal (`Assinaturas`)

Each operation is a transaction that holds the locks of company and subscription
while it calls the provider, one action per call: `ListarCheckout`,
`ConsultarSessao`, `ExpirarSessao`, `CriarSessao`, `GravarCheckout`;
`ListarReconciliacao`, `GravarReconciliacao`; `ListarEncerramento`,
`ConferirSessao`, `Concluir`. Between any two of them the provider moves: `Pagar`,
`SessaoExpira`, `Mudar`. `CriarSessao` has four outcomes: the session was made or
not, and the answer arrived or not. `Reservar` and `CancelarExclusao` meet on the
row of the request. A webhook is a reconciliation with an event of any change so
far, so notifications may be late, repeated, out of order or lost.

A version stands for all that `reconcile` copies of a subscription. The creation of
the customer is idempotent by the company and left out; so are checks of price and
environment, rate limits, Stripe's retention of keys and `has_more`. `largadas`
is history: the sessions a client can still pay whose link `reconcile` dropped (see
section 6). Dates of removal are abstract: `fim` says that a subscription ends
before it.

## 3. Runs

| Run | Instance | States | Question |
|---|---|---|---|
| `vendas` | 2 calls of `criar`, 2 of `estornar`, 3 possible contents, one unit of stock centrally and at a branch, one coupon with one use | 1,031,912 | Do repeated, racing and refunded sales keep stock, log, coupon, client and answers in agreement? |
| `loja` | one sale, its refund, 2 calls on one appointment, 2 products with one unit each, manual movements | 1,893,517 | Do sales and appointments that share products and client keep the stock and consume once? |
| `crm` | the instance of `loja` | violation | Is `ultimaVisita` never earlier than a concluded appointment? (See section 6.) |
| `fila` | 2 replicas, 2 jobs (one without handler), 3 reservations, 2 attempts, 2 jobs a round | 415,706 | Do stops, stalls and late writes keep one owner per job, and does every pending job end? |
| `agenda` | 2 calls among a counter booking, three of the public page (one for any professional, one on a day whose clock changes) and a series of two dates; 2 professionals, 1 service with durations of 1 or 2 steps, 2 days | 502,842 | Do the three ways into the agenda, status changes and cancelled series keep appointments apart? |
| `agenda_servico` | the same | violation | Has an inactive service no future appointment? (See section 6.) |
| `financeiro` | 3 calls among 10 contents (payments under 2 keys, reversals, cancellations, refunds), a sale on credit, a sale received at the counter, an expense, 2 days | 748,540 | Do racing and repeated operations keep the paid value, the status, the key and the cash of past days right? |
| `assinaturas` | 1 request beside the hourly job, 2 keys, 2 plans, 1 request of removal, 2 versions of a subscription | 366,774 | Is a client never given two ways to pay, an account never removed while charged, and does the row come to agree with the provider? |
| `cobranca` | the same with 3 keys and no removal | violation | Are two subscriptions never ongoing together? (See section 6.) |
| `sessoes` | 3 requests of 16 kinds, 2 administrators (one with a second factor), 2 codes | 390,567 | Do racing logins, rotations, sweeps and links leave one valid token, one link and one administrator? |
| `suprimentos` | 2 calls, 1 order of 2 products, 1 branch, 1 key of transfers, 2 of imports of one client | 706,150 | Do orders, transfers and imports that overlap and fail happen once? |
| `automacoes` | 2 automations of 2 companies, pages of 1, 2 processes (one polls), occurrences at 2 dates, 2 attempts, 2 events from outside | 893,213 | Does every due occurrence move on, and only the marked one create a task? |

Why the bounds are enough. Every shop property is broken, if at all, by two
writers of one row and one step of a third; two sales and two refunds of one
client, one unit and one use make every scarce thing contested. One unit means
that the second taker meets the limit. `Pedidos` holds a sale and a different
sale with the same key (conflict), and one at a branch without a key. Two
products are needed for an appointment that consumes one and misses the other,
and for locks taken in two orders. `MaxManual` (0 or 1) bounds the net of manual
movements, `Limites` the values the coupon screen writes. In the queue, a third
reservation exists so that a stalled worker still holds an old one while the job
is reserved anew and another job runs; two attempts instead of five have a first
and a last one; two jobs a round instead of ten have an end of the round that
leaves a job behind. In the agenda, two calls suffice because overlap is a relation of two
appointments, and a series alone brings two; durations of one and two steps meet
an interval of two exactly at the boundary (`duracao < intervalo`). The first day of
`MCExpedientes` has a last slot that fits and one that does not, with hours one
behind the instants; on the second day an hour does not exist. `Horizonte` bounds the
clock so that each date lies in the future, now and in the past; `MaxQuantidade`
is 2 instead of 24. In the accounts, the sale on credit of value 2 can be paid at
once, in two parts, or refused; the contents hold a key repeated with the same
value, with another value and for another account; three calls are a payment, its
repetition or reversal, and a refund. The second day makes a reversal fall on
another day than its payment.

For subscriptions, the third key of `cobranca` is what an earlier, cancelled
subscription needs; two versions are a state and a newer one; the request is
repeated as often as TLC likes. Three requests on sessions are two that race and a
third that left the token, link or challenge they race on. One client and two
import keys make two files with the same line; two products are an item entered
and an item that fails. `Intervalo` and `MaxHora` 1 give an occurrence that is due,
the next that becomes due, and one that never does. Two automations of two companies
and a `Limite` of one instead of 100 fill the page with one and leave the other out.
In `automacoes` one process polls and serves the queue (`Trabalhadores`) and both
serve the screen: the upsert by key makes two polls no different from one, and the
queue's own races are those of `fila`. `MaxEventos` 2 gives a save, switch, stop, run
or repetition and another that follows or undoes it.

`vendas`, `loja`, `crm`, `agenda`, `agenda_servico`, `financeiro`, `sessoes`,
`assinaturas`, `cobranca` and `automacoes` say `CHECK_DEADLOCK FALSE` because the
instance has a bounded number of calls, keys or events and stops when all have ended
(`automacoes` when nothing is due any more). The others check deadlock.

Properties of the shop: `EstoqueNaoNegativo`,
`Conservacao` (log and balance are explained by manual movements, sales that stand
and consumptions), `CupomContaVendas`, `GastoConfere`, `ConsumoUmaVez`,
`UmaVendaPorChave`, `RepeticaoRecupera` (a call whose key and content were already
sold is never refused), `CrmAcompanhaAtendimento`. Of the queue: `FalhaAvisada`, `SoODonoDecide`, `FinalNaoVolta`, `ImplementaFila`,
`TodoJobTermina`. Of the agenda: `SemSobreposicao`, `SerieCancelada`,
`SoTransicoes`, `OfertaAceita` (what the page lists at a moment `agendar` does not refuse
at that moment, the code's two refusals under the lock excepted),
`FichaPorAgenda` (bookings of one new telephone with one professional create one
client). Of the accounts: `PagoConfere`, `ContaCoerente`, `RepeticaoRecupera`,
`CaixaFechado`. Of subscriptions: `UmaContratacao`, `ContaSemCobranca`,
`ReciboConfere`, `NuncaVolta`, `CanceladaNaoRemove`, `ConcordaNoFim`, `UmaCobranca`.
Of sessions: `UmRamo`, `TokenDeSessaoViva`, `SempreHaAdmin`, `UmLink`, `FatorUmaVez`,
`DesafioSoComFator`, `RedefinirEncerra`. Of supplies: `EstoqueExplicado`,
`ChaveReservada`, `NinguemDuasVezes`. Of automations: `SoOcorrenciaMarcada`,
`RodaOuAvisa`. Each is stated in words above its definition.

Each module also defines its type invariant, `TypeOK`. Those of the shop, the
accounts, the agenda, the automations, the sessions, the supplies and the
subscriptions are proved (section 4). That of the queue is proved except for
`vencidos`, the sequence of jobs a round has yet to run, which TLC checked.

`FichaPorAgenda` says no more than the code gives: two bookings of a new telephone
with different professionals hold different locks and may create two clients.
Likewise `RepeticaoRecupera` of the accounts leaves one error to the unique index:
a key that another account's payment took.

What the code does not give, and the properties therefore do not say:

* A login that verified the password before `redefinir`, `trocarSenha`, `atualizar`
  or a detected reuse swept the sessions may insert its own after the commit. It waits
  for the row that `redefinir` locks and then checks nothing again. `RedefinirEncerra`
  says what is left: no session that was inserted before the reset's commit lives on.
* On a day whose clock changes between opening and closing, the public page compares
  hours of the day and `agendar` instants, so a slot may be listed and refused;
  `OfertaAceita` leaves such days out (`SemVirada`). A call for any professional is
  refused when the one it chose is taken before the lock: it tries no other.
* `UmaContratacao` and `ContaSemCobranca` leave out the sessions of `largadas`.
* `RodaOuAvisa` counts an occurrence whose job failed for good, with its notice, as
  answered. Such an occurrence stays due, and the poll reads the 100 oldest due
  automations of all companies: a hundred of them fill the page, and later automations
  of any company are never enqueued, without a notice. The property leaves that out
  (`Presa`); without the exception TLC finds the behaviour in the same instance.

**Fairness.** `Fila`: `Justica` assumes weak fairness of each worker (a
`setInterval` of ten seconds calls `processar`, and handlers return: they are calls
with time limits), of the hour of the next attempt arriving, and of a reservation
getting old when nobody renews it. No fairness is assumed of failures, of the
heartbeat or of those who enqueue. `TodoJobTermina` has a premise: from some moment
on, no worker stops, no living worker stalls for five minutes, and no update
reports an error. Without it a job whose process stops each time is never counted
as failed, in the code too.

`Automacoes`: weak fairness of the minute's timer (`Pesquisar`), of a run and of a
worker that has a job (`Rodar`, `Concluir`), and of the queue: some job is taken, some
job that nobody holds is taken back. The last two are less than `TodoJobTermina`
gives. `MaxEventos` bounds what comes from outside, stops included, and nothing is
assumed of it.

`Assinaturas`: each transaction ends, by itself or at its time limit (weak fairness
of `Passo \/ Abortar`); the hourly job is enqueued again and again; and strong
fairness of the job's own `Travar`, `ListarReconciliacao` and `GravarReconciliacao`:
PostgreSQL serves the waiters of a lock in order, and the provider does not fail
each and every time the job comes back to it. Nothing is assumed of webhooks, so
`ConcordaNoFim` holds when all are lost.

## 4. Proofs

All theorems hold for every value of the constants that satisfies the named
assumptions (`CadastroAssumption`, `VendasAssumption`, `AtendimentoAssumption`,
`LojaAssumption`, `FilaAssumption`, `AgendaAssumption`, `FinanceiroAssumption`,
`SuprimentosAssumption`, `SessoesAssumption`, `AssinaturasAssumption`,
`AutomacoesAssumption`), which TLC evaluates on every run. They say that the sets are finite where something is counted
or added over them, and that the values standing for "none" are no member.

An invariant worth having is seldom inductive: it holds because of what calls in the
middle of their steps hold locked and remember. Each module of proofs therefore has one
or more invariants named `...Ind`, a conjunction of what holds of the rows, of each
call at each step, and of each two calls; one lemma per action says what the acting
call establishes, and one per group of actions what the others keep.

**Sums** (`Somas`). Stock, totals and cash are sums over sets of rows. What
`SumFunction` computes for an arbitrary function is an induction, and the library's
induction theorems cannot be instantiated here. The lemmas go round them: strict
inclusion is well founded on the subsets of a finite set
(`FS_StrictSubsetOrderingWellFounded`), so the set of subsets for which a claim fails
has a minimal member (`WFMin`). In this way the recursive function behind the sum is shown to exist and to be unique, the
sum to be an integer and to ignore elements that weigh nothing, and `SomaMuda`: changing
one element changes the sum by the difference, which is what every step of the models needs. Cardinalities use `FiniteSetTheorems`.

**Shop** (`LojaProvas`)

* `TiposSempre`, `TiposCompletos`: every row keeps its type; the second adds the
  clients' aggregates and what a refund reads of them (sums and maxima of naturals).
* `EstoqueSempre`: no negative balance. `EstoqueNaoNegativo` is not inductive: a commit
  subtracts what was validated steps before. `EstoqueInd` adds that every item a running transaction has
  passed is covered by the balance of a row it holds the lock of, that a lock has one
  holder, and that nobody writes a row locked by another.
* `ChaveSempre`, `RepeticaoSempre`: no two sales stand for one key, an answer is the
  sale asked for, and a call whose key and content were sold is not refused. `ChaveInd`
  adds that from the second look-up to its commit a sale holds the company's lock and
  no committed sale has its key, which also excludes the unique index.
* `ConservacaoSempre`, `GastoSempre`: log and balance are explained by the rows of the
  business, and `totalGasto` is the sum of the sales that stand. `ContaInd` adds that at its
  commit a transaction has passed exactly the products of its content, so the commit
  moves the log by what the row will weigh; and that what a refund read of the client's
  other sales (`lida`) is still what they add up to when it overwrites the total: the
  company's lock keeps other sales and refunds out from the read to the commit.
* `CupomSempre`: `usoAtual` counts the sales that stand. `CupomInd` adds that the
  coupon of a sale, made or under way, still exists, and that the row of a coupon is held
  only by the refund that returns it, until its commit.
* `ConsumoSempre`: an insumo is consumed once, or a shortage, or cancelled. `AtendInd`
  adds that a call past its compare-and-set holds the appointment's row, that the
  items it goes through are the service's products, or the row's shortages, and that each
  of them is either consumed or missed, all of them by the commit.

**Queue** (`FilaProvas`)

* `FilaImplementa`, `DecideSempre`, `FinalNuncaVolta`, `FalhaSempreAvisada`: the queue
  implements the abstract one; only the owner decides a running job; a job that ended is
  not decided again by a late worker; a failed job ran out of attempts or has no
  handler, and was notified. `FilaInd` adds that a reservation is in at most one row and
  known to at most one worker, that the worker who knows it works on that row, and that
  a selected row is pending and selected once.
* `TarefaMarcada`, `AutomacoesTipos` (of `Automacoes`, whose jobs are the queue's; it is
  taken as an instance, so its assumption is a hypothesis there): a task is created only
  for the occurrence that is waited for, and the next one is later. `AutomacoesInd` adds to
  the types that a run lists only what was due when it read the clock; with the
  arithmetic of `proximaExecucao` (`SeguinteDepois`) the date it writes is a later one,
  however old the list.

**Agenda** (`AgendaProvas`)

* `NuncaSobrepoe`, `CancelaTudo`: no two active appointments of a professional overlap;
  a cancelled series keeps nothing to come. `AgendaInd` adds that a call past
  `bloquearAgenda` holds the lock of the professional it chose, and that from its
  look-up to its commit no appointment in its dates appears: only the holder of the
  lock creates, and status changes never make an appointment active. That a series does
  not overlap itself is `Espacadas`: dates are an interval apart, longer than the duration.
* `TransicoesSempre`: a step moves an appointment only along `TRANSICOES`, or creates it;
  a commit meets rows that do not exist yet.
* `OfertaValida`: `agendar` refuses what the page lists only for the two reasons named
  in `OfertaAceita`. `ListadoPassa` relates the two computations: on a day without a
  change of the clock a listed hour is an instant within opening hours, and the end in
  hours is the end in instants. `PedidoInd` adds that only a series validates under the
  lock and that a call for a given professional locks that one's agenda, so that the
  conflict it finds there is one the page sees too.
* `UmaFichaPorAgenda`: `PublicoInd` adds that a call about to create a client holds an
  agenda in which no earlier call with its telephone booked; the set of professionals
  booked grows with each client, and by cardinality there are no more clients than those.
* `AgendaTipada`: types.

**Accounts** (`FinanceiroProvas`)

* `TiposSempre`, `ContaSempreCoerente`, `RepeticaoSempreRecupera`: `valorPago` is never
  negative; a status says what was paid, and a sale's account is cancelled exactly when
  the sale is refunded; a repeated payment is recovered. `FinInd` adds that a call holds
  its account's row (a refund, the company's, and the account from its `UPDATE` on), that
  what it read of the account still holds until it writes, and that at most one call is
  inserting a key.
* `PagoSempreConfere`: `valorPago` is the sum of the payments not reversed. `PagoInd` adds
  that a reversal under way will write the balance its own payment leaves, that a free key
  holds nothing and that an account not yet open was paid nothing.
* `CaixaSempreFechado`: a step writes payments and reversals of the day of its statement
  only, so the sum of another day does not change.

**Supplies** (`SuprimentosProvas`): `SuprimentosTipos`, `SuprimentosEstoque`,
`SuprimentosChaves`, `SuprimentosClientes`. `SuprimentosInd` adds that whoever looks up a
key or writes it holds the company's row, so the key and the clients it found free still
are; that `receber` enters the items the order keeps, because an order that was sent is
never a draft again; and that an order's row is held by one `receber` at a time.

**Sessions** (`SessoesProvas`)

* `TiposDeSessoes`, `SempreUmRamo`, `TokenSempreDeSessaoViva`, `SempreAdmin`,
  `SempreUmLink`, `DesafioSempreComFator`, `RedefinirSempreEncerra`: a session has one
  valid token, and none when it is over; an active administrator remains; a link is good
  alone and serves once; a challenge needs its factor; under a password that a reset
  set, only sessions inserted after its commit live. `SessoesInd` says, per request and step, what it holds: a rotation its live session,
  and its token from the claim on; a change of an administrator the company, and that
  another administrator exists; a reset the user, a valid link and every session of the
  user; a sweep every valid token of the sessions that it has. Two requests hold no row
  both. A sweep's second statement sees the tokens of the sessions that the first one
  locked, because a rotation issues only under the lock of its session: that is why
  none is left behind. `EncerraInd` carries that over the steps after the commit: the
  request that set the password in force is over (`SenhaInd`), and a session alive after
  a step was alive before it or has just been inserted under the password in force.
* `FatorSempreUmaVez`: a code or a challenge lets in one request. `FatorInd` adds that
  what a request spent is in no account, and that whoever gave it is over, so it is not
  given again; a code that an account has was given to that account alone.

**Subscriptions and removal** (`AssinaturasProvas`): `AssinaturasTipos`,
`ContratacaoSempre`, `RemocaoSempre`, `ReciboSempre`, `VoltaNunca`, `RemocaoPendente`. The
lock keeps the row while a call talks to the provider; what moves is the provider, and it
moves one way: a session that is not open never opens again, a version only grows.
`AssinaturasInd` says what a call has learnt at each step that stays true in spite of it:
a checkout about to create a session, or a removal about to commit, has left nothing that
can be paid except what `reconcile` lost sight of; the version a reconciliation copied is
not older than the row's nor newer than the provider's.

TLC checked `FilaInd`, `EstoqueInd`, `ChaveInd`, `ContaInd`, `CupomInd`, `AtendInd`,
`AgendaInd`, `PublicoInd`, `FinInd`, `PagoInd`, `SuprimentosInd`, `SessoesInd`, `FatorInd`,
`AssinaturasInd` and `AutomacoesInd` on the instances of section 3 before they were proved.

Only model-checked: `TodoJobTermina`, `RodaOuAvisa` and `ConcordaNoFim` (liveness under
fairness is out of the provers' reach), and the type of `vencidos` in the queue (a
`SelectSeq`, whose type is an induction over sequences).

## 5. Not modelled, and why

See the table of components in `PROJECT.json`. In short: screens, reports and
one-row edits relate no two pieces of state; WhatsApp and e-mail are external;
guards and the tenant filter act on one request at a time. The figures of the
financial reports other than cash (revenue, cost, result) are reads and are left
out. Registration and invitations are one transaction each, which the unique e-mail
decides. The login throttle and the lease of the export, counters and a key in
Redis, are not modelled yet. NexusAuth is a complementary service outside the
product's workspaces, reached by an optional bridge (`docs/ARQUITETURA.md:76-82`).

The web application is more than half of the repository's lines and is screens
over the API: its state is that of forms, and what it can break is broken by the
requests it sends, which the models choose freely.

Two hazards were read and are not modelled. `ProdutosService.desativar` looks for
services that use the product and deactivates it in a second statement, and
`associarInsumo` may come in between; the products of a service are constants here.
A job whose process stops at each run is taken back and run again without end
(`jobs.service.ts:97`), which the model of the queue allows and no document
excludes.

## 6. Findings

**A visit can be forgotten.** `estornar` reads the client's concluded appointments before it locks the client's
row and then overwrites `ultimaVisita` without a condition
(`api/vendas/vendas.service.ts:353-378`). An appointment concluded in between
moves `ultimaVisita` forward and the refund puts the older value back, against
`api/clientes/cliente-activity.ts:4`. Run `crm` shows the interleaving.

**A service can be deactivated under a booking.** `desativar` counts future
appointments and then updates (`api/servicos/servicos.service.ts:52-69`), while
`criar` and `agendar` look at `ativo` before their transaction and not again. A
booking that commits between the two statements, or was validated before them,
leaves a future appointment of an inactive service, which line 61 of that file
says cannot be. Run `agenda_servico` shows the interleaving.

**A checkout can be lost sight of.** `reconcile` copies the subscription that counts and clears the link to the
checkout (`api/assinaturas/assinaturas.service.ts:371-373`) also when what it copied
is an older, cancelled subscription and the link is to another checkout that is
still open. The next checkout finds nothing to reuse or expire and opens a second
one; the client can pay both, against lines 145-146 of that file and
`docs/PAGAMENTOS.md:32`, and from then on `reconcile` refuses to choose. In the same
way the account can be removed while such a checkout can be paid. Run `cobranca`
shows the interleaving.

## 7. Plan

Done, in this order because it is where transactions meet most: the shop, the
queue, the agenda, the accounts, automations, supplies, sessions, subscriptions.
The safety properties of all of them are proved. Next:

1. The round of the queue (`vencidos`) in `FilaInd`, so that `Fila`'s `TypeOK` is whole.
2. The login throttle and the export lease; NexusAuth's refresh, idempotency
   interceptor and circuit breaker.
3. `associarInsumo` and the deactivation of products in two statements.
