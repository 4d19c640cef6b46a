# Investment Intelligence Center: TLA+ models, checks and proofs

This directory holds TLA+ models of the Investment Intelligence Center (IIC), the TLC
configurations that check them on small instances, and TLAPS proofs of the safety
properties that matter most. Paths are relative to the repository's root.

IIC is a set of Python services around NATS, Redis, Postgres and several LLM providers.
An orchestrator turns cron fires, bus events and HTTP requests into runs of small DAGs whose
nodes are HTTP calls to agents; the agents call LLMs through a shared client, write to a
data lake, and a notifier tells the owner. Nearly all of it is `asyncio`: code between two
awaits is atomic, and everything may happen at an await, cancellation included. That is the
granularity of every model here: **one action per stretch of code between two awaits that
touch shared state.**

## 1. Inventory

### Orchestrator (`apps/orchestrator`)

| Part | State | Operations | What is hard | What makes it correct |
|---|---|---|---|---|
| circuit breaker, agent client (`plan/breaker.py`, `plan/agent_client.py`) | per target: state, failure count, opening time, probe flag | `call`: admit, short-circuit, probe; success, failure | calls that overlap a change of state, cancellation of a probe by the node's SLA | one probe at a time, quiet while open, an agent that answers again is called again |
| DAG runner and SLA (`execute/runner.py`, `execute/sla.py`) | pending, completed, results of one run | loop head, wave, node end (ok, error, hard timeout), collect, overall deadline | cycles, conditional back edges, joins that can never start, hung nodes | nodes run once, joins wait, a run that returns is complete, every run ends |
| trigger routing and idempotency (`app.py`, `state/idempotency.py`, `triggers/*`) | claim keys in Redis, subscriptions, JetStream consumer | cron fire, event, `POST /run`, claim, run, ack/nak | redelivery, lost acks, a claim that fails halfway, restarts, NATS down at boot | a key runs once; an acknowledged event is covered by a run or by its key |
| Pro slots (`execute/concurrency.py`) | Redis keys `lock:pro_concurrency:1..N` | scan, claim, release, expiry | a body longer than the TTL, a holder that dies | the cap holds while bodies are shorter than the TTL; waits end; slots come back |
| event triage, trading room, DAG catalogue (`plan/event_triage.py`, `plan/trading_room.py`, `plan/auxiliary_dags.py`, `plan/morning_brief.py`) | context of a run | triage, fan-out to agents, board, brief, notification | partial failure of the fan-out, degraded answers used as plans | a decision rests on at least one real plan; a drop is a decision, not an accident |
| advice merger (`merge/*`) | sliding window of appends | validate, limit, append | a slot of the window used up by an invalid advice | at most ten appends a minute |

### Shared packages (`packages`)

| Part | State | Operations | What is hard | What makes it correct |
|---|---|---|---|---|
| llm-client (`router.py`, `cost_meter.py`, `rate_limiter.py`, `fallback.py`, `bootstrap.py`) | budget breaker and spend, a semaphore per caller, a bucket per provider | chat, chat_or_skip, embed, reset | a budget checked before two queues and charged after them, a cancel at any await, a cap that changes | no permit leaks; overspend is bounded by the calls in flight |
| data-lake ledgers (`advice_ledger.py`, and the logs of admin_api and agent_futu) | hash-chained rows in Postgres | append, retry, verify | two appends on one head, rows appended in another order than they are dated | no fork; verification accuses only what is out of order |
| data-bus (`publish`, `subscribe`, `kv`, `request_reply`, `streams`) | JetStream streams and consumers, replies | publish, deliver, ack, nak, call, serve | lost acks, ack_wait shorter than a run, late and lost replies | at-least-once; a success is a call that was handled |
| notifier (`router.py`, `ratelimit.py`, `redelivery.py`, `adapters/*`) | rate windows, redelivery keys in Redis | notify, enqueue, drain | lost answers, a crash between a delivery and its DEL, a key that expires during a pass | a deferred message goes out once an adapter is up; copies have a cause |
| data-lake rest (`quotes.py`, `decision_log.py`, `pit.py`, stores) | memory and Redis caches, Markdown logs | get, fill, append, reflect | stale reads, two writers of one file | bounded staleness, no lost entry |
| featureflags (`core.py`) | a YAML file, a cache per process by its modification time | `flag` | a file replaced or removed between the look for it, the stat and the read, a time that comes twice | an answer is what the file said while it was asked |
| prompts (`registry.py`, `publisher.py`) | sources parsed once per process, published versions in a shared directory | `get`, publish | the look for a version and its write are two steps, in several processes | a version is one text |
| schema | data types and validators | validate | bands that touch, horizons over a year | what is paid for is valid |

### Agents and front ends (`apps`)

| Part | State | Operations | What is hard | What makes it correct |
|---|---|---|---|---|
| agent_intelligence (`intel/*`) | Redis dedupe keys, pgvector index, `lake.events` | crawl, hash gate, semantic gate, translate, store, digest, brief | runs that overlap, a failure between claim and store | a dropped story is covered by a kept one; siblings need a race |
| agent_board (`board/*`) | none between requests; appends to the ledger | debate, risk panel, chair, persist | an append that fails inside a 200 response | every decision asked to be persisted is, or the caller knows |
| agent_quant, agent_fundamental, agent_persona | none between requests | score, write, publish, team plan | wrong or missing LLM answers | a plan is well formed or marked degraded |
| agent_backtest (`backtest/*`) | positions | open, mark to market, exit, attribute | a tick that works on positions it read before awaiting prices | a position opens and closes once |
| agent_futu (`futu/*`) | subscriptions, audit log | subscribe, reconcile, read account, quote writer | persisting after subscribing | OpenD and the stored set agree after a restart |
| agent_market (`crypto.py`, `fx.py`) | none between pulls; rows of `lake.quotes` | pull | rows inserted long after they were fetched | a row is dated by its fetch |
| agent_secretary (`secretary/*`) | chat memory on two stores, preferences | chat, plan, dispatch, slash commands | two chats on one thread | the planner sees the latest turns |
| admin_api | YAML files, sealed secrets, config audit log | edit, rotate, test a connector | a file replaced before its audit row is written | every edit has a row |
| dashboard, infra, deploy, tools | - | - | - | user interface, configuration, scripts |

The parts meet in four ways: HTTP calls of DAG nodes to agents (breaker, runner), messages
on the bus (dispatch), rows and keys in Postgres and Redis that several processes use
(ledgers, slots, dedupe, redelivery), and the shared LLM budget and permits (router).

## 2. Modules

Modules that compose others are marked with an arrow.

| Module | Models | Correspondence |
|---|---|---|
| `CircuitBreaker` | one target of `BreakerRegistry` behind `HttpxAgentClient.call`, tasks that call it, cancellation by `with_sla_timeout` | `Admit*`, `ShortCircuit` are the branches of `call` up to its await; `NormalSucceeds` ... `ProbeFails` the code after it; `Cancelled` is `CancelledError`, which no handler there catches |
| `ProSlots` | `acquire_pro_slot` | one SET NX per step of the scan, `Release` the DEL without an owner check |
| `RequestReply` | one agent behind `HttpxAgentClient` with the flag that moves its calls to NATS (`request_reply.py`) | a call over HTTP, NATS or a local handler; replies that are late, lost or errors; what the breaker is told |
| `DagRunner` | `execute()` on any graph | `LoopHead` is the head of the `while`, `Finish` a node under its SLA, `Collect` the body after `gather` |
| `DagCatalogue` -> `DagRunner` | the DAGs of `morning_brief.py` and `auxiliary_dags.py` | every graph with its wiring; `FinishNode` is a step of the runner together with what the node does to the shared state; `BaseUrls` is the table of `_bootstrap` |
| `TradePlans` | the plans of the three teams, `PlanV1`, `AdviceV1`, the board's projection of a plan on an advice | functions of a team's inputs, prices exact |
| `TradingRoom` -> `TradePlans`, `DagRunner` | one run of the trading-room DAG with the board as a process of its own | each node of `build_dag` is its steps between awaits; `Dag == INSTANCE DagRunner WITH` maps room to runner |
| `TriggerDispatch` | `route()` under cron, HTTP and one NATS subscription | `ClaimAndRun`/`Skip`/`ClaimRaises` are the outcomes of `claim_or_skip`, `RunReturns`/`RunRaises` of the run; `Ack`/`Nak` are those of `data_bus.subscribe`; JetStream and Redis are external |
| `Notifier` | `notify_with_redelivery`, `Router.notify`, `RateLimiter`, `RedisRedeliveryQueue`, `RedeliveryDrainer` | `Try` is `_try_adapter`, the drainer's awaits are `ListPending`, `ReadAttempt`, `WriteAttempt`, `RemoveDelivered` |
| `HashChain` | `append` and `verify_chain` of `lake.advice`, `lake.futu_audit`, `lake.config_audit` | the three ledgers differ in stamp, lock and index, which are conditions on `table` |
| `LedgerCallers` -> `HashChain` | the merger, the admin API's edits and rotations, the Futu client's logged calls | each writer does its own work before and after the append of `HashChain` |
| `LlmRouter` | one `caller_id` of `LlmRouter` with cost meter, bucket and fallback | `Enter` ... `CallPrimary` are the awaits of `chat` in order, `ReleaseAll` its `finally` blocks |
| `LlmBoot` | `bootstrap.py`, the spend store and the telemetry sink over processes and their restarts | a boot builds a router from its key ring, a spend from zero, rows nobody awaits; `ChargeUnmetered` is what a provider charges for an attempt that brought no answer (`FallBack`, `FailLlm`) or for an embed (`EndEmbed`), none of it recorded |
| `IntelPipeline` | the loop of `pipeline.run()` on Redis, pgvector and Postgres, in several runs at once | `Claim`, `Search`, `IndexInsert`, `Store` are its awaits on those stores in order |
| `IntelDesk` | `agent_intelligence` as its callers see it, over boots with different backends | `/run/synthesize`, `/run/pull`, `/health/deep` run one pipeline; `ComposeBrief` serves the digest |
| `MarkCache` | `get_mark` of `data_lake/quotes.py`, its cache in memory, its cache in Redis, the bars | one step per await; a mark is the time of its bar |
| `PersonaDesk` -> `MarkCache`, `TradePlans` | a run of a persona: digest, thesis, mark, bands, `AdviceV1`; a team that reads the same marks | `Bands` is `_bands_from_priors` in exact units |
| `AdviceWriters` -> `PersonaDesk` | the writers of the fundamental and the quant desk | `FundamentalAdvice`, `WithBands` make the prices, `AdviceValid` judges them |
| `QuantBook` | `combine()` and `shape()` of agent_quant | `Combine` takes those with fewer than n ahead of them or behind them in the ranking; `ShapeOne` is one candidate of the loop, the first left by the order of its sort |
| `PaperBook` | opener, mark-to-market ticks, exits, fills | a tick works on the list it took at its start; `CheckExit` is `exits.py`; results are exact in 1/20000 |
| `SecretaryDesk` | `POST /chat` on both memory stores, planner, dispatch | insert, read-back, plan, calls and answer are steps of a chat |
| `LakeQuotes` | the writers of `lake.quotes` and the facade with its live fallback | a row is stamped at its fetch and inserted later |
| `FutuSubscriptions` | `FutuSubscriptionManager` | OpenD is told, memory changed and the put sent in one step, the put applied later |
| `FutuSnapshot` | `GET /portfolio/snapshot` | one call of an endpoint per step while money moves, between accounts that may owe cash or stock |
| `DecisionLog` | `append` and `attach_reflection` of the Markdown log, in two processes | the read and the replacement of the file are two steps |
| `FeatureFlags` | `flag()` with its cache by modification time and the lock of its process | the look for the file, its stat and its read are three steps (`SeeFile`, `StatFile`, `ReadText`), the first without the lock |
| `PromptRegistry` | `get()` and the publisher, in several processes | the look for a version and its write are two steps |
| `MC*` | instances for TLC; `MCGuards`, `MCAlerts` and `MCAgents` put components without common state in one run | `desk` says which component the behaviour is about |
| `*Proofs` | theorems, each module about the components it extends | |

Every module states its faulty variants (`Def_Variant`) beside the definition they vary: each
is a plausible bug (a missing guard, an off-by-one, a missing reset) and the property named
for it must fail when it is put in the definition's place.

Two modules are abstractions that others are shown to implement. `DagRunner` is what the
trading room does, seen as a run of `execute()` on a chain of five nodes (`RefinesDag`), and
what every DAG of the catalogue does (`CatalogueRunsDag`); `HashChain` is what the merger, the
admin API and the Futu client do with a ledger (`CallersImplementChain`). All three are
proved, so what is proved of the two holds of their users: `CatalogueKeepsPromises` and
`LedgersShowDisorder` say it.

## 3. Runs, bounds and what they show

| Run | Bounds | Shows |
|---|---|---|
| `guards` | breaker: 4 tasks, threshold 2, cooldown 2; slots: 3 callers, 2 slots, TTL 2, timeout 1 | one probe at most although late calls re-open a half-open breaker; an agent that answers again is called again unless a probe was cancelled; the cap of the slots holds until a body outlives its key; slots of the dead come back and waits end. Four tasks allow two late failures, a probe and a call short-circuited at the same time |
| `breaker_stuck` | 2 tasks, threshold 1 | *finding*: a cancelled probe leaves the breaker half-open for ever |
| `dag` | the repository's DAGs with one persona; every static graph of 3 nodes (cycles, unknown nodes), every mix of static and conditional edges on 3, every layered graph of 4 | fan-in; how a run ends follows from its graph (completeness, no stall of a well-formed graph, no cycle run to the end); the morning brief has what every analyst reported ok has given; termination. Three nodes hold every cycle with an exit, four the diamond; personas are alike, so one stands for all |
| `dispatch` | 1 event, 2 direct triggers, 2 deliveries, 2 minutes, 1 crash | each key runs once across redelivery, restart and half-applied claims; an acknowledged event is covered; every event settles unless the process booted without NATS. Two minutes give a redelivery another key than the first delivery, two direct triggers a collision |
| `dispatch_dropped` | 2 events, 1 minute | *finding*: two events of one minute share a key and the second is acknowledged unseen |
| `ledgers` | 4 appends (one a rotation) in 2 processes, each of the 3 tables; the merger's limit 2 per window of 1, times 0..2 | forks only by a race in the config log; verification fails exactly when rows are out of order, and then the advice chain takes no row again; config rows tell one line of edits, none missing but for a rotation or a death; OpenD is never asked unlogged. Four appends in two processes fork, are out of order and collide after that |
| `ledger_verify` | the same | *finding*: a ledger written only by `append` can fail `verify_chain` |
| `llm` | 3 chats, 1 embed, budget 1, fallback budget 1, 1 provider slot, caps {1,2} changing once | permits balance, the caller cap holds until it changes, overspend is less than the calls in flight, every call ends. The third chat is the one that waits while one holds and one is let through by the new cap |
| `intel` | 2 runs over any feeds of 3 stories, days 0..2, window 1, key life 2 | a dropped story is covered; similar rows within a window need runs that overlapped. The three stories are a chain of neighbours, the smallest set where similarity is not transitive; on the third day keys have expired and windows have closed |
| `alerts` | room: one event, an inputs set per team that reaches every branch of its plan, panels of 1 to 3 personas, one crash; notifier: 2 messages (one critical), 2 adapters, 1 call per window, 1 trouble | the room and the notifier, without common state, in one run. What the operator is told agrees with the ledger or the difference has a cause; a brief without the degraded flag rests on a whole room; the room implements `execute()`; every run ends. A deferred message is not lost, nobody gets it twice without a fault, and it goes out once an adapter is up. One trouble is a crash, a lost answer or a Redis error, at any await |
| `room_wakes` | the room of `alerts` | *finding*: a high-impact event that overlaps the universe does not wake the room |
| `agents` | one behaviour per desk, see below | fourteen properties, one or two per desk |

The desks of `agents` share no state, so a behaviour is one of a single desk and TLC visits
the sum of their states, not the product.

| Desk | Bounds | Property |
|---|---|---|
| persona (`MarkCache`, `PersonaDesk`) | 2 readers in 2 processes, 2 assets, TTL 2, times 0..3, one digest | `WrongMarkHasCause`; `WritersMeetSchema` for personas: with a thesis of fit length they are refused only for what their file says. Three ticks let a mark expire in one cache and live on in the other |
| writers | prices 0 or 100 with cases on both sides, collapsed and upside down; ATR 0 or 20 | `WritersMeetSchema`: what each desk issues passes `AdviceV1` but for a wordy thesis, what a persona's file says of horizon, confidence and disclaimer, prices inside their own range, and a missing ATR |
| paper | a long and a short position, 2 ticks, prices that take out each side, 2 days | `FillsMatchClosings`: a position is closed once, its fill published once, a stop costs one unit of risk |
| chats | 3 chats on a thread, window 2, both stores, 3 plans | `ContextIsLatest`: the planner sees the latest turns before its question, unless another chat wrote meanwhile or the thread in Postgres has outgrown the window |
| quotes | a snapshot and an FX writer, 2 questions, age 1, a source 1 behind, times 0..3 | `AnswersFollowTime`: answers are young enough and never go back, unless a live answer overtook a row on its way |
| subscriptions | 2 tickers, 2 puts under way, 2 failures, 2 restarts | `SubscriptionsAgree` |
| log | 2 processes, 2 advices, 5 writes, 1 kill | `LostNeedsOverlap`: an entry is lost only when two processes overlap |
| intel | 2 stories, a pull and two syntheses, 2 boots of four environments | `StoriesAreToldOnce`: no story is lost between gate and digest, or digested twice, without a cause |
| quant | 5 tickers with scores -2..2, 2 a side | `BookFollowsRanking`. Fewer than four ranked tickers make the ends overlap |
| flags | 2 threads of a process, 2 edits, 2 times | `FlagFollowsFile`: an answer is what the file said while it was asked, unless it was broken, went away after it was seen, or came with a time already seen. Two threads take the lock in turn, two edits take the file away and bring it back |
| prompts | 2 processes, 2 versions, 2 texts, 1 change | `VersionIsOneText` |
| llm | 2 processes (one strict) with 2 lives each, cap 1, 2 calls at once, 4 calls | `BillIsBounded`: the cap bounds what is recorded of one life of one process, never the month, and neither embeds nor attempts that timed out |
| calls | 3 remote calls, one of them local | `BreakerSeesTheAgent` |
| snapshot | 3 accounts on 2 endpoints, each with money, on margin or short, 2 currencies, 2 moves | `SnapshotTells`: the total is the owner's wealth unless an endpoint was passed over, money crossed endpoints or currencies were mixed; a position is larger than the total only if an account owes cash or stock, or money moved meanwhile |

`MaxTime`, `MaxDay`, `MaxMinute`, `MaxWrites`, `MaxKills`, `MaxEdits`, `MaxChanges`,
`MaxCalls`, `MaxLives`, `MaxBoots`, `MaxMoves`, `MaxSending`, `MaxFailures`, `MaxRestarts`,
`MaxNow`, `MaxTroubles`, `MaxCrashes`, `MaxDeliver` cap what is unbounded in the program; each
is a guard of the action it counts.

Deadlock is checked for `guards` and `breaker_stuck`, where somebody can always move. The other models stop by design: a run of a DAG ends, the events, messages, appends,
calls and feeds of the instance are used up.

### Fairness

Weak fairness only, and only where the program or its environment guarantees progress: the
event loop runs every task that is ready; an awaited agent, LLM or adapter call ends because
its client has a timeout (in `TradingRoom` that is the 60 s of the client, since no node of
the room has an SLA); the clock and the windows of rate limiters pass; JetStream delivers and
times out; the container is restarted by Docker. No fairness makes a provider recover, a
call that never ends end, an operator act, a crash happen or a message be published. The one
assumption on load is in `CircuitBreaker`: the orchestrator goes on calling the agent, as its
cron schedule does. `HashChain`, `IntelPipeline` and the desks have no liveness property and
no fairness.

### Findings

1. `breaker_stuck`: `except Exception` does not see `CancelledError`; a probe cut off by the
   hard SLA keeps the slot, and the target is short-circuited until a restart. `SlotIsOwned`
   proves that this is the only way to get there.
2. `dispatch_dropped`: the key of an event is the minute it is handled in
   (`app.py`, `triggers/nats_events.py:45`), whereas `workflows/34` keys on the event.
3. `ledger_verify`: `append` chains by commit order, `verify_chain` and the next head go by
   `issued_at`. Two rows in the other order make verification report a break and every
   later append of that agent collide.
4. `room_wakes`: `route()` hands the entry of the trading room a trigger and a trace id
   (`app.py:84`), the entry looks for a payload (`app.py:190`), and so the triage sees an
   empty event and drops it, whereas `app.py:183` says the room wakes on high-impact events.

### Other disagreements between code and documents

Met while modelling; no run is spent on them. Several are the causes that a property lists.

*Orchestrator*
* Conditional edges do not count as parents, so a join behind one does not wait for it
  (`runner.py:195` against 67-68). The overall timeout is looked at between waves only.
* A failed call that was admitted earlier re-opens a half-open breaker, and the probe that
  is still running closes it again at once. The `_error` reply that NATS gives for an
  exception of a handler counts as a success; a reply that cannot be serialised gets no
  answer at all.
* `HttpxAgentClient` posts to `{url}/run`, which no agent under `src/apps` serves.
* The boot table of agent URLs (`app.py:291-298`) lacks board, persona and backtest: a room
  that woke would not reach its board, and the evening recap is composed without a number (`BriefShowsRun`).
* A boot without NATS logs "deferred" and never subscribes (`app.py:314`).
* `POST /run/{dag}` answers 404 when the run was skipped as a duplicate (`app.py:220`).
* `trading_room.py:12-13` calls re-runs of an event no-ops; delivered again in a later minute
  it runs again.
* The Pro slot TTL is 300 s and DEL checks no owner; the cap of `workflows/06:307` then does
  not hold. Only tests use it.
* `infra/cron/schedules.yaml`, which `schedules.py` and `Schedules.tsx:45` say overrides the
  cron table, is read by nothing.

*Shared packages*
* `notify_with_redelivery` raises when the enqueue fails (`redelivery.py:226`), which its
  docstring excludes; `update_attempt` brings back a key that expired after its GET;
  `expires_at` is `time.monotonic()` written for another process to read; no app starts the
  drainer. Alerts go to the first adapter that succeeds, while `workflows/20` section 6 names
  two primaries; the endpoint for Alertmanager publishes nothing.
* `SELECT ... FOR UPDATE` is issued by a role whose UPDATE right the migrations revoke.
* The LLM breaker leaves half-open only by `reset()` or a new breach; embeds, timed-out and
  cancelled calls are never charged; a breach of the fallback budget stops the primary too;
  a fallback call keeps the primary's permit and takes none of the fallback's. The spend is
  per process and in memory. With only an Anthropic or a Groq key the fallback is the primary.
* The docstring of `data_lake/quotes.py` speaks of an invalidation over NATS that is not
  there. The lock of the decision log is per process. Nothing calls the guards of `pit.py`.
* `flag()` raises if its file goes between the stat and the read, and answers from its cache,
  however old, if it goes between the look for it and the stat.
* Four personas have horizons of 730 to 1825 days, and `AdviceV1` accepts one year.

*Agents and front ends*
* The runs of a persona count their advice and then fail on `advice.assets`, an attribute
  `AdviceV1` does not have; `_state["digest"]` and `["memory"]` are never bound. A thesis may
  be longer than the 4000 characters of `AdviceV1` and `PlanV1`; nothing clips it.
* The fundamental writer uses (bear, bull) as target band, so a flat advice, or a price
  inside its range, is refused by `AdviceV1` after the model has been paid
  (`writer.py:121`, `advice.py:101`). The regime `unknown` has weights, though a docstring
  says it disables; `combine()` may name one ticker long and short.
* `run_daily_mtm` does not call `tick`; a fill whose `on_close` raises is never published.
* `/run/pull` runs the whole pipeline whatever its `source`, and `/health/deep` too: both
  take stories whose digest nobody gets. `fallback_digest` and `publish_all` have no caller;
  the re-prompt loop of `synth.py` never recomputes the balance; `/run/context` is always
  empty with the Postgres store; a status of ok may hide agent errors. An RSS entry without a
  date gets a new hash at every crawl and comes back once the window has closed; the GDELT
  key is not GKGRECORDID; a run that fails leaves the key of the story in hand for seven
  days, and so drops it.
* Migration 0001 gives `lake.events` the columns `event_ts, title, body, lang, raw, ...` and
  a unique constraint on `(hash, event_ts)` (`0001_init_lake.py:40-55`), while
  `PostgresEventStore.insert` names `ts, title_en, body_en, sentiment, target_assets` and
  `ON CONFLICT (hash)` (`persistence.py:83-92`): on that schema every insert raises. The
  model takes the insert as its contract states it, which is what `InMemoryEventStore` does.
* The Postgres chat memory returns the oldest turns of a thread, not the last; `/quiet 0`
  mutes for ever, `mute_until` holds the time of the command, and nobody reads it, although
  `prefs.py:3-6` says the notifier does. The WeCom
  allow-list is case-sensitive and refuses everybody when empty, while `/chat` lower-cases
  and admits everybody. The planner's docstring promises a fallback plan, the code returns
  none. Shortening the morning brief may cut off its disclaimer.
* `insert_batch` of the quote store reports the ticks it was given; a price that is missing
  is written as 0.0; FX rows are stamped now though the rates are days old.
* `FutuSubscriptionManager` ignores the return code of OpenD, and a repeated add is not
  persisted again. The snapshot sums all currencies as dollars and drops an endpoint that
  fails; on margin the share of the largest position is cut off at a hundred per cent. The
  deployed Futu audit log is the one in memory (`main.py:36`).
* `rotate_secret` passes `after_hash="rotated"`, which `bytes.fromhex` refuses after the
  secret has been rotated; a config file is replaced before its audit row is written;
  `apply_schedules` and `apply_brokers` replace the whole file; the hash that `propose` gave
  is not looked at by apply.

## 4. Proofs

All theorems hold for every value of the constants allowed by the modules' `ASSUME`s (which
TLC evaluates in the runs): finite sets where the code counts (`LlmProcesses`,
`OpenDs`, `Accounts`), positive limits, a symmetric similarity, a `Genesis` that is no writer, no
entry price of the paper book below zero, personas with other names than the
nodes that are not personas, the two thread stores there are, digests whose events are of
known assets, and rules of personas with a band below 400 units and, for a short, a target of
at most 66 per cent (the rule files have 50 at most; further down the bands would turn upside
down). Each is an inductive invariant plus PTL.

Three arguments recur. What a sum over a set of processes, accounts or trades does at a step
follows from a small theory of `FoldSet` (`SumAddsUp`, `SumAtOnePlace`, `SumGrows` and others);
what counting the elements ahead of one says of an order follows from `Ranked`; both, and
reachability in a graph, are inductions over finite sets, made by hand as the smallest
counterexample (`SmallestSubset`, `SmallestOf`), because no installed prover instantiates the
library's induction theorems with an operator. Sequences are avoided where they would be
sorted or filtered: `SortSeq` and `SelectSeq` are opaque to the provers, so `SecretaryDesk`
and `QuantBook` say of a sort which element has how many before it.

| Module | Proved | Inductive invariant |
|---|---|---|
| `GuardsProofs` | breaker: type correctness, `AtMostOneProbe`, `ClosedBelowThreshold`, `QuietWhileOpen`, `ProbeSlotOwned`; slots: type correctness, `SlotsExclusive`, `NeverOverCapacity` | `SlotInv`: a probe or a half-open state implies a taken slot; one probe at most is not inductive without it, since two late failures re-open the breaker while a probe runs. For the slots, `KeysOutliveBodies`: until a body outlives its key, a holder's key has at least the body's remaining time; the cap follows from an injection of holders into slots |
| `DagRunnerProofs` | type correctness, `RunsOnce`, `FanIn`, `EndFollowsGraph`; that the catalogue's DAGs run on the runner (`CatalogueRunsDag`); `BriefShowsRun` | `OnceInv` (pending and completed are disjoint, every ranked node is completed or in the wave), `FanInv` (a ranked node has its static parents completed, in earlier waves). `EndInv`: the followers of a completed node are completed or pending (`Followings`), and every such node is the entry or was put there by a completed node of an earlier wave (`Caused`), from which the reachable set follows by a smallest counterexample either way. `RunningInv` says that a node that runs is pending and has no result; with it `MorningInv` and `RecapInv` tie the shared state to the results: what is stored is of nodes that are ok, and nothing that a brief shows can change after it |
| `TriggerDispatchProofs` | type correctness, `KeyRunsOnce`, `AckedIsCovered` | a key that has had a run is in Redis; only `Crash` and `ClaimRaises` could break it, and both only add keys. `CoverInv`: what is in the inbox has been published, and the key of the callback is of a minute in which its event existed |
| `NotifierProofs` | type correctness, `DeferredNotLost`, `NoNeedlessCopies`, and both as `AtLeastOnce`; `SuccessMeansReceived` | `RoundsTruthful`: a round is successful only through a provider that has the message, so what the drainer removes was received. For copies, `OwnedOnce` (a message is with its sender, in the queue or with the drainer, in one place) and `CopiesPaid` (each copy beyond the first is paid for by a fault of that message, those the drainer is about to cause included) |
| `HashChainProofs` | type correctness, `ForkNeedsRace`, `DisorderShows`; that the callers implement the chain; `TrailTellsEdits`, `AuditTellsCalls` | a row's predecessor exists, a writer nobody has raced still has the head, in the config log every row is stamped after its predecessor. `DisorderInv`: no two rows have one stamp (`StampsApart`), a writer that nobody has raced holds the newest row (`HeadIsFresh`), and the Futu log is in order; in a ledger that verifies, only the head is without a successor, so that a further row collides or keeps the order. For the callers `OneLine` (the texts on the way from the original to what the file holds are each replaced by one edit), `RowsOver` and `CallsLogged` |
| `IntelPipelineProofs` | type correctness, `DropsAreCovered`, `SiblingsNeedRace` | `IndexIsKept` (an entry of the index is of a story that is stored, about to be, or lost with its run) and `KeysAreCovered`. `RaceInv`: a run has met every run in flight with it, a story is taken out of a feed once, and one whose search found nothing is far from every row or met the run of that row |
| `LlmRouterProofs` | `PermitsBalance`, `LimitsHold` | `RouterInv`: which semaphore a chat is on, permits plus holders are the cap of each, all chats are on one semaphore unless the flag changed under them, the peak is at least what is in flight, and the spend and the calls in flight together stay under cap and peak |
| `AgentsProofs`, stores and packages | `BreakerSeesTheAgent`, `FlagFollowsFile`, `VersionIsOneText`, `SubscriptionsAgree`, `LostNeedsOverlap`, `AnswersFollowTime`, `BillIsBounded`, `SnapshotTells` | `ReplyInv` (what is on its way tells what the handler did), `CacheIsCurrent` and `ReadIsWatched` (a cache of the file's time has what the file says; while a read is under way the text it may answer with is among those watched), `PromptInv`, `SubsInv` (each put under way brings the store to what the process has, up to the later ones), `WritesWhatItRead` (what a process is about to write is what it read, with one entry or one reflection more), `SourceIsMonotone` and `AnswersHaveRows` (an answer of the lake is of a row that is there), `BootInv` (what is billed is at most what is unpaid plus the sum of what every life of a process has cost so far; what a life has spent and is asking for stays within the cap and the overlap), `SnapInv` (`ShownInv`: the accounts of the endpoints that were come to and not passed over are shown, each once and as listed; `StillInv`: without a move no account without a debt is shown with more stock than its net value; `MoneyInv`: unless money crossed, what the total would come to is what the owner has) |
| `AgentsProofs`, the trading room | `RefinesDag`, `BriefAgreesWithLedger`, `DegradedIsTold` | `RoomInv`: `RoomShape` and `BoardShape` say what the room and the board have at each of their steps, `BoardIsAsked` that the board works on what the room has sent, `RoomTells` that what is merged, appended and briefed goes back to it. The refinement has a step of the runner, or none, for each step of the room |
| `AgentsProofs`, desks | `WrongMarkHasCause`, `WritersMeetSchema`, `FillsMatchClosings`, `StoriesAreToldOnce`, `ContextIsLatest`, `BookFollowsRanking` | `EntriesCover` and `HeldMarksCover` (up to its age a cached mark knows every bar there was, unless its cause is with it, and so does one on its way to the caches), `BandsFit` (the bands of a persona's rule keep their order on any mark), `ClosersOwnFills` (the one tick that closed a position is the only one that may publish its fill, once in the life of the book), `DeskInv` (a run at work has the keys of what it claimed, a row is of a story somebody claimed, what is in a digest has its key or its row), `ChatInv` (`StampsAreOwn`: stored turns and those about to be have stamps of their own; `QuestionIsStored`), `QuantInv` (`StrongerFirst`: what is left is no stronger than what was decided on; `RoomIsTaken`: what was refused for want of room would find none now) |

`ClosedBelowThreshold`, `QuietWhileOpen`, `ProbeSlotOwned`, `SlotsExclusive`, `RunsOnce`,
`SuccessMeansReceived` and the type invariants are proved and not in a run any more: their
theorems say more than a run.

Only model-checked: the liveness properties (`AgentRecovers`, `SlotsGoRound`, `Terminates`,
`EventsSettle`, `RecoveredAdapterDelivers`, `EveryCallEnds`, `RoomEnds`), since the proof
system handles neither fairness nor ENABLED. Every safety property of a passing run is a
theorem.

## 5. Plan

Done: all components of section 1 that are modelled, their runs, and a theorem for every
safety property of the passing runs. What is left, in order of weight:

1. Abstract specifications of the semaphore that `ProSlots` and the permits of `LlmRouter`
   both are, and of the map with a cache that `MarkCache` and `FeatureFlags` both are.
2. The safety half of the liveness properties: for each, the ranking its argument rests on,
   as an action property (no step but the named ones sends the rank up).
3. `PaperBook` over several positions with the attribution of their results.

## 6. Not modelled, and why

* Floating-point work: indicators, DCF, slippage beyond its size, attribution, walk-forward
  statistics, scores of risk and factors.
* Text: prompts, translation, templates, Markdown, the secretary's wording, geo names.
* Pure I/O: LLM and data adapters, connectors of the admin API, object and vector stores,
  OpenD, fetchers, WeCom cryptography, speech recognition. What they can answer is a choice in
  the models that use them.
* `state/` of the orchestrator (run state, regime cache): plain reads and writes of one key.
* The dashboard, containers, monitoring, migrations and scripts. They are more than half of
  the repository's lines.
* In the modelled parts: logging, metrics, tracing; the contents of advices and events;
  lifetimes of Redis keys longer than a behaviour (24 h of claim keys) unless a property is
  about them; in `IntelPipeline` the in-memory backends of tests, and a feed entry whose
  text changes under one link.
