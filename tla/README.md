# A TLA+ verification project for the CMI trading platform

The repository is an event-driven crypto trading platform: collectors write
market and social data, AI workers and a decision engine turn it into decisions,
a risk engine approves some of them, and a trading engine sends orders to Kraken
Futures under the operator's control, who watches all of it in a terminal. The
services are Python asyncio processes that share Kafka topics, Redis keys and a
Postgres database, and no lock covers more than one of their steps, but for the one
lock of the threshold scan.

The project follows that path from end to end: what the collectors bring in, how
evidence becomes a score and a score a decision, the approval and its order, what is
stored of it, and what the terminal says about it.

## 1. Inventory

| Component (source) | State | Operations | Hard behaviour | What makes it correct |
|---|---|---|---|---|
| Kafka consumer (`libs/.../kafka/consumer.py`) | position in hand, committed offset, running flag | `start`, `run`, `stop` | batches commit after the last message; a handler that raises is skipped; rebalances and crashes inside a batch | nothing is passed over; replay bounded by a batch; progress |
| Kafka producer (`kafka/producer.py`) | none | `publish` | a send that times out may have been stored | order per key |
| Redis cache (`cache/redis.py`) | keys with TTLs | `get_json`, `set_json`, `allow`, `lock` | `allow` is INCR then EXPIRE; `lock` has a TTL the holder may outlive | a window never grants more than its limit; a lock is always free again in the end |
| trading-engine signals (`engine.py`) | `trading:submitted:*`, `trading:pending*`, `trading:position*`, `rl:trading:orders` | `handle`, `_queue_pending`, `_execute` | some ten awaits per signal, each may raise or be the last before a restart | one entry per signal; no report without exits; limits kept |
| trading-engine commands (`control.py`, `runtime.py`) | `trading:runtime`, cached mode | settings, approve, reject, close, adjust, manual | run in a task of their own, between any two awaits of a signal | kill switch bites; settings not lost; every command returns |
| reconciler (`reconcile.py`) | `trading:positions` | `sweep`, `_on_closed` | reads the venue, then the set, then each record | a closed position is noticed; its exposure is given back once |
| account poller, spot client (`account.py`, `kraken_spot.py`), portfolio and risk pages | snapshot on the topic, in Redis, in the database | `poll_once`, `portfolio`, `risk` | two calls that may disagree, publishing outside the try, a page sized by whichever snapshot is there | the page comes back to what the account is worth, and agrees with itself |
| risk-engine (`risk-engine/app/engine.py`, `rules.py`) | `risk:exposure` | `handle` | read-modify-write across two processes | exposure within the portfolio and covering what is held |
| decision-engine (`engine.py`, `scoring.py`, `features_map.py`) | none of its own | on analysis | weights renormalised over the axes present | evidence nudges, never turns a score round |
| threshold scan (`threshold_job.py`, `threshold_scan.py`) | scan lock, reports | `run_once` on a timer and on command | the lock's TTL against a slow scan or a killed one | every row is reported; a proposal keeps its target |
| ai-worker-haiku (`worker.py`, `features.py`, `scorer.py`) | feature hashes, pending windows | `handle`, `flush_settled` | a window is taken out before the hash is read | nothing folded in is forgotten |
| ai-worker-sonnet, AI client (`worker.py`, `journal.py`, `ai/claude.py`) | cool-downs, budget, quota pause | `handle`, `complete` | a pause of hours with a message in hand | each analysis is accounted for; the backlog is passed |
| collector-github | map, snapshots, round-robin cursor | a cycle | a budget over a map that grows; snapshots read again after a restart | every repository is reached; growth is measured, not made |
| collector-defillama | unlock schedules, backlog offset | a poll | "not known" against "nothing is coming" | no safety and no urgency that no document says |
| poll loop, collector-social (`sources/loop.py`, `sources/runtime.py`, `telegram.py`) | cursors, channel list, write-offs, budget | a cycle | cursors committed after the insert; the operator edits meanwhile | a cursor claims what is stored; everything settles |
| sentiment-service, content store (`worker.py`, `sources/repository.py`, `reader.py`) | `scored_at`, hourly and daily sums | score, compact | mark, count and publish commit on their own; compaction beside them | at most once; windows add up |
| collector-kraken, candles | rows by their time | sweep, upsert | the cursor is what another service stored by then | no hole behind the cursor |
| collector-coingecko, token rows | `tokens`, write cache | price, upsert | a cache that notes a write before it is made | the row heals |
| persister and archiver (`api-gateway/app/persister.py`, `archiver.py`) | journal, trade and event rows | one handler per topic | topics are consumed in any relative order, rows are replayed | rows are the fold of the log |
| journal API (`journal_*.py`) | a cached window | summary, calibration | outcomes computed anew at each request | what is settled stays |
| systems panels (`systems_pipeline.py`, `funnel.py`, `read_api.py`) | cache of counts | graph, funnel, drawers | a count per statement, each of which may fail | panels of a moment agree |
| trace and explain (`read_api.py`, `explain.py`) | none | `/trace`, `/explain` | tables read one after another while rows arrive late | one story, and all of it |
| runner, app, health collector (`runner.py`, `app.py`, `health_collector.py`) | failures per task, health rows | tick, `/health`, probe | probed, written and read at different moments | an outage shows |
| websocket-gateway | registry of sockets | broadcast, connect, disconnect | a snapshot of the registry is sent to while sockets come and go | every frame, once, in order |
| control-api (`control-api/app`) | none | HTTP to commands, auth | - | a command per request |
| other collectors, market pages, migrations, frontend | - | - | - | - |

How they interact:

    collectors --content, candles, prices, snapshots--> Postgres <--sentiment-service
        | market, social, fundamentals, developer events
        v
    ai-worker-haiku --analyses--> decision-engine, ai-worker-sonnet
        | decision.events
        v
    risk-engine --risk.approved.events--> trading-engine --REST--> Kraken Futures
        |  risk:exposure (Redis, shared)  |   ^
        +---------------------------------+   +-- control.commands -- control-api
        |                                 | execution.events, account snapshots
        v                                 v
    api-gateway: persister --> Postgres --> read API;   websocket-gateway --> terminal

Every arrow that is a topic is consumed by an `EventConsumer` group. Section 6
lists what each hazard is covered by; `PROJECT.json` has them at their lines.

## 2. Modules

| Module | Models | Proofs in | Runs in |
|---|---|---|---|
| `TradingEngine` | the trading-engine process: signal task, command task, reconciler; its Redis keys; the venue | `TradingEngineProofs`, `TradingDeskProofs` | `MCTradingEngine` |
| `AtLeastOnce` | what a consumer group promises its services (abstract) | | |
| `EventConsumer` | the consume loop of the replicas of one group, and the coordinator | `EventConsumerProofs` | `MCEventConsumer` |
| `RiskExposure` | risk-engine's handler, the reconciler's release, the key they share | `DecideProofs` | `MCRiskExposure`, `MCDecide` ("risk") |
| `GithubActivity` | collector-github | `DecideProofs` | `MCDecide` ("github") |
| `Fundamentals` | unlock schedules from DefiLlama to the term of the score | `DecideProofs` | `MCDecide` ("unlock") |
| `Triage` | ai-worker-haiku's settle window | `DecideProofs` | `MCDecide` ("triage") |
| `SeniorAnalyst` | ai-worker-sonnet and the Claude client | `DecideProofs` | `MCDecide` ("senior") |
| `Scoring` | the two deterministic scorers | `DecideProofs` | `MCDecide` ("score") |
| `ThresholdScan` | the scan of the journal, its lock, its report | `DecideProofs` | `MCDecide` ("scan") |
| `Persister` | api-gateway's rows of trades and decision_journal, from four topics | `PersisterProofs` | `MCRecord` ("ledger") |
| `PollLoop` | the poll loop with the Telegram provider | `SourcesProofs` | `MCRecord` ("poll"), `MCPollLoop` |
| `Sentiment` | scoring of stored items, counts, compaction, windows | `SourcesProofs` | `MCRecord` ("content") |
| `ServiceHealth` | from a failing task to the colour of a stage | | `MCRecord` ("health") |
| `PipelinePanels` | graph, funnel, drawers and panels over the same tables | `TerminalProofs` | `MCRecord` ("panels") |
| `JournalOutcomes` | price paths, simulated outcomes, summary, calibration | `TerminalProofs` | `MCRecord` ("outcomes") |
| `AccountBalance` | from the venue's balance to the portfolio page | | `MCRecord` ("account"), `MCAccountBalance` |
| `Candles` | sweeps, upserts, series | `SourcesProofs` | `MCRecord` ("candles") |
| `TokenRows` | metadata of a coin behind `TokenMetaCache` | `SourcesProofs` | `MCRecord` ("tokens") |
| `DecisionTrace` | /trace and /explain while the persister stores rows | `TerminalProofs` | `MCRecord` ("trace") |
| `Fanout` | websocket-gateway | `TerminalProofs` | `MCRecord` ("stream") |
| `Faults` | the one bound on what goes wrong, extended by most modules above | | |
| `SumTheorems` | nothing: facts about the sums that five modules take | itself | |

**The two sums.** `MCDecide` is the way from evidence to an approved size, `MCRecord`
is what is stored and what is shown of it. The parts share no variable that two of them
write (but the count of faults), so a behaviour of the sum is chosen by its first state: `part`
says which part moves, and the others rest at an initial state. Each part has the
fairness of its own specification, and a liveness property is asked of the behaviours
of its part. The parts are joined in the repository by topics and tables, whose delivery
`EventConsumer` models once for all of them; in the other modules a topic is a
sequence with a position and a committed offset, or, where its order does not matter, a set.

The conventions are the same everywhere: asyncio gives up control only at an await, so
an action is one await with the code up to the next one; an await that raises, a
restart, an expiry and a killed process are actions of their own; history variables
(`overlapped`, `missed`, `gaps`, `casts`, ...) are named in their modules.

### TradingEngine

*Grain.* `task[t].pc` names the await a handler is suspended at. The two consumer
tasks share `load`, `guard`, `expire`, `equity` and `_execute`, as the methods of
the code do (`TaskStep`). `rec` is the reconciler's sweep.

*State and code.* `submitted`, `pendingKey`, `pendingSet`, `posKey`, `posSet`
are the Redis keys of the same names; `runtime` is `trading:runtime`; `rate` and
`rateTtl` are the counter of `Cache.allow` and whether it has an expiry; `appMode`
is `app.state.mode`, which the Kraken client routes by; `sigPos`/`sigCommitted`
and `ctlPos`/`ctlCommitted` are the two consumers; `book` and `held` are the venue.
`entrySends`, `sent`, `freed`, `sentKilled`, `sentWindow` are history.

*Failures.* `Raise` is an await that raises (the consumer logs it and skips the
message); an answer lost after its request took effect is the step followed by
`Raise`. `SweepRaise` is the same for the reconciler. `Crash` is the restart of the
container: tasks lose their locals, the signal consumer resumes at its committed
offset, the command consumer at its own or, when the container is recreated and
with it the group named after `HOSTNAME`, at the end of the log.

*Abstractions.* An event is its `event_id`. Prices and sizes are left out:
`compute_size` is a free verdict (0 or not), the notional cap of a manual order a
field of the command. All positions are long: nothing the properties tell apart
depends on the side. A manual market order is an order that rests and then fills.
`set_fields` is one step because the command task is its only writer. In `dry_run`
an order does not reach the network; the model still lets other tasks run there,
which only adds behaviours. The key `risk:exposure` is in `RiskExposure`; here the
release is counted in `freed`. *Assumption* `SubmittedOutlivesBatch`: a
`trading:submitted` key (24 h) does not expire while its message may still be
redelivered.

### EventConsumer and AtLeastOnce

`EventConsumer` is `run()` on each replica of one group: `Poll`, `Handle` one message
after another, `Commit` after the batch; `Stop`, `Break` (an exception of `getmany` or
`commit`, which nothing catches), `Crash` and `Start`; the coordinator's
`Rebalance`, which may come inside a batch. Batches of several partitions are handled
in any interleaving, a superset of the code's order. `FirstOffset` says whether
the group has committed before. `AtLeastOnce` is the contract the services rely on: a
message is passed over by the committed offset only once it was handed to a handler.
`EventConsumer` implements it through `Contract`, which maps the offsets and forgets
replicas, batches and generations.

### RiskExposure

The two read-modify-writes of `risk:exposure`, one action per await, in
ten-thousandths of the portfolio (both services round to four places). What
trading-engine does with an approval is two actions here, `Execute` and `Refuse`.
`outstanding` is the sum that the exposure ought to be, kept as history;
`overlapped` and `refreed` record the two ways it can be lost.

### From evidence to a score: GithubActivity, Fundamentals, Triage, SeniorAnalyst, Scoring

`GithubActivity` is a cycle of the collector: a coin asked for its repositories, up to
`Budget` repositories fetched from where the cursor stands, a snapshot each, and an
event per coin made of its two last snapshots and the clock of the cycle. The repositories are
listed by symbol and the coins asked for by id, so one that joins the map shifts the list under
the cursor (`collector.py:120-126`). What no `try` guards ends the cycle where it stands and leaves
the cursor alone: the query for the universe (`MapReadFails`) and the save of a snapshot
(`SaveFails`). A reading keeps what the measures tell apart (stars, archived, commits and their
pace, the time of the last push, each of which may be absent); a ratio is the pair of its sums.
The age of the last push is reckoned anew at each publication, without the pushes that are
ahead of the clock. `based` is history: the rows an event was made of.

`Fundamentals` follows one fact through three services: a schedule is read, not listed,
unreadable or cached; the event's fields are absent or present; the merge drops what is
absent; the hash may expire; the reading is "clear", "pending" or left out. Time is in days
and the unlock's date may go by.

`Triage` keeps of a field whether the value stored is its newest, and of a window how long
it has been open and quiet, up to the constants they are compared with. The hash is
read and written in two steps, and the sweeper takes a window out, reads the hash and
publishes in three.

`SeniorAnalyst` handles a log of analyses: cool-down, budget, Claude's answer or a pause
of the client, decision and journal row. `LongPause` says whether a batch may be in hand
for longer than `max_poll_interval_ms`, by its pauses or its answers: the consumer leaves its group
(`LeaveGroup`) and the commit after the batch ends the loop (`CommitRefused`).

`Scoring` is `local_opportunity` and the eight axes of the decision engine over a hash
that grows a field, or has one replaced, with each event. Marks are in thousandths; a sigmoid or a
logarithm is drawn as the straight line between its saturation points, increasing and at
1/2 where the code's is, since the properties are about the order of scores.

### ThresholdScan

Each replica's job: take the lock with its TTL (`Acquire`), scan the window, store the
report, release; any step may raise, and the process may be killed under the lock.
`Release` leaves a lock alone that has expired and was taken by another replica. The
replay is computed in full: counts at or above each score, presence of an axis, the gap of
the regime, the refusals in their order, the proposal and its report of later guards.

### What is stored: Persister, PollLoop, Sentiment, Candles, TokenRows

`Persister`: `trade[a]` is the status of the row of `trades` for approval `a`;
`journal[d]` is the row of `decision_journal` of decision `d`, with its verdict, the
approval it names and the execution kind. An action is a transaction: `_save_trade`,
`_save_rejection` and `_update_trade` run two each, and `stage` says which comes next. `Take`
picks any topic that has a message, since Kafka keeps no order between topics; within a
topic there is one partition, because the events of an approval share the key
`symbol`. Producers publish in any order the code can produce, an execution only after
its approval. `missed` is history: approvals whose last update met no row or raised.

`PollLoop` is one cycle: the operator's switch, a token of the budget (INCR, then EXPIRE), the
list of channels, the client, the walk, the status, the insert, and only then the commit of
the cursors. What raises inside the try gives the cycle up; what raises above it ends
`run()`, and `run_forever()` brings it back. The operator edits the list, toggles the
source and renews a session that died; `gaps` is history, what a read of limited length passed.

`Sentiment`: a row is marked as scored in a transaction, its mentions are counted per
symbol in others, an event is published after each; compaction runs beside it, with the
two statements of its transaction as two steps under READ COMMITTED. `WindowMentions` is
the reader's query over both tables.

`Candles` is the loop over two services: the cursor of a sweep is the newest candle
stored by then, what is asked goes through a topic that lags and is replayed, the upsert
keeps the last value written. Time is counted in candles; of a candle's values the model
keeps whether they are final. *Assumption*: the venue's answer to `since` includes the candle of
that time. No line here asks for it; it is what "the forming candle is rewritten on every
sweep" (`db/models.py:403-405`) comes to, since that candle is the cursor, and `NoHoleBehind`
and its proof rest on it. `TokenRows` is the price consumer's `_save_token`: `seen` is what the
cache noted, `tokenRow` what the table holds, `failedAt` when a write raised.

### What is shown: ServiceHealth, PipelinePanels, JournalOutcomes, AccountBalance, DecisionTrace, Fanout

`ServiceHealth` goes from `run_periodic` over `/health`, the probe and its row to the stage's
colour. `PipelinePanels` counts each stage in a statement of its own while rows
arrive and time passes, shapes the counts, caches them for all terminals, and compares the
graph with the funnel, the drawers and the panels, each from its own query.
`JournalOutcomes` walks a price path for each row and puts the outcomes into groups,
summary and calibration, the latter over a window that may be cached. `AccountBalance` is
the poller, the snapshot's three copies and the page computed from one of them.
`DecisionTrace` runs one request statement by statement while the rows of a pipeline of two
raw events are stored late, out of order or never. `Fanout` is the gateway: a broadcast is a snapshot of
the registry, sends that end in any order or raise, and the pruning of what raised.

## 3. Runs

| Run | Bounds | Shows |
|---|---|---|
| `engine_restart` | 2 signals, 1 crash, every await may raise | `AtMostOneEntry`, `ReportedIsProtected` |
| `engine_guards` | 1 signal, 3 commands (kill on/off, manual), limit 1, 1 crash | `KillSwitchBound`, `RateBound`, `FreedOnce` |
| `engine_desk` | 1 signal live with approval, any 2 of 10 commands | `SettingsFollowLog`, `ModeFresh` |
| `engine_live` | 1 signal live, 2 commands, fairness | `SignalAnswered`, `CommandsHandled`, `FlatIsClosed` |
| `consumer_group` | 2 replicas, 2 partitions, 2 messages each, batches of 2, 1 crash, stop or broken loop and its rebalances, fairness | `ReplayWindow`, `IsAtLeastOnce`, `EveryMessageHandled` |
| `decide` | the seven parts of `MCDecide`, see below | the eleven properties below |
| `record` | the eleven parts of `MCRecord`, see below | the sixteen properties below |

| Part of `decide` | Bounds | Shows |
|---|---|---|
| risk | 3 decisions of sizes 2, 1, 3 against a cap of 3, raises, 1 crash | `ExposureInRange`, `ExposureCovers` |
| github | 3 coins, of which the last asked for is the first listed and shares one of 2 repositories, budget of 1 a cycle, a push ahead of the clock, 2 ticks, 1 fault | `MeasuredNotMade`: publishing again changes nothing but the age of the last push, which goes with the clock. `RoundsReachAll`: a budget of one reaches every repository although the list shifts and a cycle ends early |
| unlock | 3 tokens, horizon of 2 days, one fetch a poll, 2 days pass, 1 fault | `UnlockTermWasRead`: neither safety nor urgency without a document. `RoundsReachAll` |
| triage | 1 replica, 2 fields on 2 topics, quiet 1, open 2, 1 fault | `TakenIsAccountedFor`: an event folded in is analysed or still waits. `WindowCloses`: also of a symbol that is never quiet |
| senior | 3 analyses of 2 symbols, 1 call an hour, 1 usage limit, pauses longer than the poll interval, 1 fault | `TakenIsAccountedFor`: every analysis has a journal row, unless one named fault took it. `BacklogPassed`: the backlog is passed, or the loop ended because its commit came after the group had given it up |
| score | any 3 of 21 fields, each with its readings | `EvidenceNudges` |
| scan | 1 replica, 2 rows of 4 kinds, scores 0..2, 1 tick, 1 fault | `ProposalKeepsTarget`, `EveryRowReported`: also after a kill under the lock |

| Part of `record` | Bounds | Shows |
|---|---|---|
| ledger | 1 decision with its entry, refusal and approval, 2 executions, every transaction may raise, 1 restart | `JournalNamesATrade`, `StatusIsLatest`, `OutcomesAreKept`, `EveryApprovalIsStored` |
| poll | 2 channels with 2 and 1 posts, one off topic, 1 edit, 1 fault | `CursorClaimsStored`, `ContentComesThrough` |
| content | 2 symbols, 2 items, 4 hours, days of 2 hours, 1 fault | `AtMostOnce`, `WindowsExact`, `ContentComesThrough` |
| health | 2 tasks, one critical, with other services of the stage or none, 1 fault | `OutageShows` |
| panels | 10 rows stored, 1 more of 6 kinds, 2 terminals, 1 tick, 1 fault | `PanelsInAgreement` |
| outcomes | 2 prices, 3 plans, 2 rows, 2 ticks, horizons 1 and 2 | `SettledStays` |
| account | equity 0 or 100, 2 trades, 2 ticks, 1 fault | `BalanceShown` |
| candles | 1 pair, pages of 2, 2 candles close, 1 fault | `NoHoleBehind` |
| tokens | 2 metadata, 3 prices, 3 ticks against an interval of 2, 1 fault | `TokenRowHeals` |
| trace | 2 raw events, 5 published, 1 row stored between the statements of a request | `TellsOneStory` |
| stream | 2 sockets, 2 frames, 1 fault | `EveryFrameInOrder` |

*Why the bounds are enough.* A race of the trading engine needs one handler per
task and one sweep: one signal and one or two commands put every pair of handlers
side by side, and a second signal adds the sweep over two positions of one pair.
One crash puts a redelivery at every await. Four opening orders are the least that
can exceed the rate bound of `engine_guards` (limit 1, plus 2), which one signal and
three manual orders provide. Sizes 1, 2, 3 against 3 give decisions that fit alone,
together, and not at all. Two executions of an approval make a last status that
differs from an earlier one; rows of different decisions do not touch each other
(the proofs hold for any number of them). Four hours in days of two are what it takes for
a day to be compacted while one later day is in the retention and one is open. An
interval of two ticks and three prices give a write that fails, one that the cache holds back
and one that heals. Budgets of one make every round longer than its cycle. The trace
needs two raw events for the second to be linked to the first's analysis. Each part
takes one fault, so that it fails or restarts once at any step; where the order of two
failures could matter (`Persister`, `TradingEngine`) raises are not bounded.

*Deadlock.* The engine runs check for deadlock (the reconciler sweeps for ever), and so
does `bad_source_gone`. `consumer_group`, `decide`, `record`, `bad_exposure_lost` and
`bad_poller_ends` do not: there the logs end, time stops at its bound and everything is
handled, which is how these services wait.

*Fairness.* Only that a task which can run does run, unless said otherwise.

* `FairSpec` of the engine is weak fairness of each of the three tasks:
  asyncio resumes every task whose await has completed, and the three loop until the
  service stops. Nothing is assumed of fills, of expiries, of commits or of the
  operator, and these runs have no raises and no crash: a raise really does lose the
  answer to a signal.
* The consumer's adds that a service that stopped is started again (compose
  `restart: unless-stopped`) and that the coordinator ends a rebalance.
* The persister's is that a transaction ends or raises (weak) and that the approvals
  topic is taken from when it has messages time and again (strong: `getmany` returns what each
  partition holds).
* `PollLoop`: the loop runs, a window that has an expiry expires, and a dead
  session is replaced by the operator in the end (strong, since sessions may die
  again). `Sentiment`: the worker and the compaction tick. `ServiceHealth`: a container is
  restarted, the prober loops, tasks tick. `AccountBalance`: the poller, the
  persister, pages and time.
* `GithubActivity`: cycles. `Fundamentals`: polls, and the consumer of its events. `Triage`: each
  replica's consumer and sweeper, and time. `SeniorAnalyst`: the consumer, and a usage
  limit is lifted. `ThresholdScan`: the lock expires, replicas take it when it is
  free, and go on with what they took.

### Runs that end in a violation

Each states what a comment in the source says, and TLC shows how the code breaks it.

| Run | What happens |
|---|---|
| `bad_untracked` | `_execute` adds the event to `trading:positions`, a sweep finds no record yet and removes it, `_execute` writes the record and emits FILLED: a filled position nobody tracks |
| `bad_closed_early` | a limit entry that has not filled is not among the open positions: the next sweep emits CLOSED and frees its exposure |
| `bad_exposure_lost` | risk-engine writes back a value read before the reconciler's release (or the other way): approvals exceed the portfolio |
| `bad_source_gone` | `Cache.allow` counts, its EXPIRE fails, and the counter stays at its limit for good: an enabled source never polls again, though "a dead source must be loud and must come back" |
| `bad_poller_ends` | `publish` or `set_json` raises outside the try of the poller that is "total by construction": nothing starts it again |

## 4. Proofs

Eight modules hold proofs. What they prove holds for every value of the constants that
meets their assumptions: any sets of signals, commands, decisions, replicas, partitions,
channels, symbols, rows or sockets, and any number of messages, faults and restarts (the
bounds of the runs are constants too, and no proof needs them to be small). Every
invariant and every action property that a passing run checks is proved here; what is left to
TLC is liveness.

None of these invariants is inductive as it stands. Each item says what had to be added.

**`TradingEngineProofs`**, the guards of the signal path.
* `TypeCorrect`: `Spec => []TypeOK`. A step that indexes by the handler's event needs it
  to be one. `TypeInv` adds `HandlersHaveEvents`: at which awaits a task has an event, and
  that only a manual order goes without.
* `KillSwitch`: `Spec => []KillSwitchBound`. The invariant counts the opening orders that
  may still come: once the switch is off, `sentKilled` plus the number of tasks past the
  guard with a configuration loaded before is at most one, because the command task, which
  applied the switch, has none in flight.
* `RateLimit`: `Spec => []RateBound`. The orders sent in a window plus the tokens held by
  tasks on their way to an order are bounded by the tokens the counter granted plus those
  carried over from the window before, at most one per task.
* `EntryOnce`: with no approval command possible (`NoApprovals`), `Spec => []AtMostOneEntry`.
  A signal whose entry was sent has its idempotency key, or its message is committed and
  will not be delivered again. Section 5 says what an approval that is repeated does.

**`TradingDeskProofs`**, positions and settings. It extends the module above and splits the
next-state relation in two: the steps a theorem is about, and one lemma for all the others.
* `OnlyProtectedReported`: `Spec => []ReportedIsProtected`. `ReportInv`: a handler has sent
  the orders its place implies (`LegsBy`), and whatever is tracked, recorded or in the
  sweep's hands has all three.
* `FreedAtMostOnce`: `Spec => []FreedOnce`. `FreedInv`: what the sweep still looks at is
  tracked; what is on its way to be tracked was never freed; what is tracked was freed at most
  once per restart, and once more while it is leaving the set. Hypotheses: no await raises
  (`~MayRaise`), since a sweep that raises between the two writes of `_on_closed` frees again
  as a restart does; and `NoApprovals`, since a second approval tracks and frees anew.
* `ModeIsFresh`: where no await raises, `Spec => []ModeFresh`. The cached mode is that of
  `trading:runtime` unless the command task is about to refresh it. A raise at that
  await does leave it stale: the hypothesis is needed, and the run that checks the property
  has the same bound.
* `SettingsAreLast`: where no await raises, `Spec => []SettingsFollowLog`. `Follows(r, n)` says
  that a configuration is what the first n commands leave, by the last command of each
  name; the command in hand is the (n+1)-st while it is still to be applied. A raise at that
  await drops the setting, as the consumer goes on after a handler that raised.

**`DecideProofs`**, from evidence to an approved size. It extends `MCDecide`: an invariant of a part is
preserved by the part's steps and by whatever leaves its variables alone, so each theorem
about a part is one about the sum as well.
* `InRange`: `Spec => []ExposureInRange`. Every value read and not yet written back is within
  the portfolio too, and one about to be written was checked against the cap.
* `Covers`: `Spec => []ExposureCovers`. While no read-modify-write has begun inside the
  other service's, a value that was read is the value of the key.
* `DilutionWasRead`: `UnlockSpec => []UnlockTermWasRead`. The fact is followed through three
  services: what is cached or in a result is what the document said on the day it was read
  (`AsRead`), an event tells of one reading or none (`EventTells`), and what the merge leaves
  in a hash is an unlock of the document or the last reading that found none (`FeaturesTell`).
* `TriageForgetsNone` and `JournalIsComplete`, and of the sum `AllIsAccountedFor`:
  `DecideSpec => []TakenIsAccountedFor`. `OwedIsKept`: of a field that is owed an analysis the
  newest value is in the hash, and its symbol is pending, in a consumer's hands after the
  write, or taken by a sweeper that has not read an older value. `SeniorInv`: every message
  before the one in hand has a row or was dropped, and what is about to be journaled as
  validated is a decision.
* `ThresholdKeepsTarget`: `ScanSpec => []ProposalKeepsTarget`. The rows a report was made of
  are a subset of a journal that only grows, so what was counted stays true of them; lemmas
  on `CountsGe` give that a higher bar or fewer rows never count for more, and that no
  later guard of the replay sees more than it lets through.
* `NothingIsMade`: `GithubSpec => MeasuredNotMade`, an action property. `ActivityInv`: the last
  event of a coin is the aggregate, at a time that has passed, of the rows it was made of, and
  snapshots are readings. Of the same rows two aggregates differ in the age of the last push only
  (`AggregateAges`): a push that was believed still is, so the age is there again and has grown no
  more than the clock has (`LastPushAges`), and a nearer push was ahead of the clock before. The pace
  of a coin is a sum over its repositories: it is positive only if that of one of them is.
* `AxesOnlyNudge`: `ScoreSpec => EvidenceNudges`, an action property. An analysis follows each
  field that is merged, so the verdict it replaces is that of the hash before this field:
  `ScoreInv` keeps, while an analysis is due, that there were marks that give the verdict and
  that differ from those of the hash only on the axis that reads the field. No two axes read the same
  field (`OneAxisReads`) and an axis has one mark or none (`AxisHasOneMark`), so one term is added to
  a weighted mean (`WeightedGains`), which then lies between the mean so far and the mark, before
  and after both are rounded (`MeanBetween`).

**`EventConsumerProofs`**, the consumer group.
* `GroupIsAtLeastOnce`: for a group that has committed (`FirstOffset = 0`), the detailed
  specification implements `AtLeastOnce!Spec` under the mapping of `Contract`: the
  initial states map to initial ones, every action to a step of the contract or a stutter.
  `DeliveryInv`: below a committed offset everything was handed over, and of what an
  owner has read everything was or is in its batch.
* `BatchBoundsReplay`: `Spec => []ReplayWindow`, for any `FirstOffset`. `CommittedAll`: a replica
  about to read has committed what it read before; so the sum over its partitions is at most
  the batch it takes. `HandedOnce`: of a message, the times it was handed over, the replicas
  that hold it and whether its owner is still to read it together are at most the number
  of generations; a rebalance adds one to both sides.

**`PersisterProofs`**, the rows of trades and the journal.
* `TypeCorrect`, and `NamesATrade`: `Spec => []JournalNamesATrade`. `StoredBeforeJournal`: while
  an approval is at its second transaction, its trade is stored.
* `OutcomesStay`: `Spec => OutcomesAreKept`, an action property. `AbsentIsEmpty`: a row not
  inserted yet has no outcome to lose.
* `StatusStaysLatest`: `Spec => []StatusIsLatest`. `ShowsLast`: of the executions handled so
  far, the last one of an approval among *all* that are published gives the status of its
  row, if it was handled. A replay after a restart only repeats earlier ones, which it
  says nothing of, and ends with the last one again. `ShowsNoOther` and `IsThere` are about
  trades without an execution, and about the approvals handled.

**`SourcesProofs`**, content, tokens and candles.
* `CursorIsAClaim`: `PollSpec => []CursorClaimsStored`. `AdvancesRead` and `StageRead`: what
  an advance rests on is stored, dropped, passed by a limited read or in the batch, and from
  the commit on no longer only in the batch.
* `MentionsAtMostOnce`: `SentimentSpec => []AtMostOnce`. `RowsInOrder`: a row is counted after
  it was marked, published after it was counted; `BatchUnmarked`: the rows after the one in
  hand are not marked yet; `MentionDue`: the mention whose event is due was counted once.
* `WindowsAddUp`: `SentimentSpec => []WindowsExact`. `HoursExact` is the property for every
  window that begins at the cutoff of the compaction or later; `DaysAreOld` keeps the daily rows,
  and those a compaction has in hand, before it. That no mention is in both tables
  (`InOneTable`) is an inequality and not an equation, because a mention counted into an old
  hour between the INSERT and the DELETE is lost; `MovesNoMore` is what the DELETE needs, that a
  compaction in progress holds no more than the hours it will delete.
* `RowHeals`: `TokenSpec => []TokenRowHeals`. `OneClaim`: the cache remembers one write;
  `ClaimInHand`: while the row is being written, it is that of the event in hand;
  `ClaimsAnswered`: afterwards it is stored or failed, and younger than the interval by the
  time of the last event.
* `CursorLeavesNoHole`: `CandleSpec => []NoHoleBehind`. The cursor is what another service has
  stored, so the invariant goes round the loop: all that precedes a candle on the topic is
  final there or accounted for (`NoGapBefore`), the same holds before the cursor in hand and in
  the answer (`CursorBacked`), the topic never has an unfinished version after the finished one
  (`FinalIsLast`), and the table holds what was published (`StoredWasPublished`,
  `HandledIsStored`), replays included.

**`TerminalProofs`**, what the operator sees. It extends `MCRecord`.
* `OneStoryIsTold`: `TraceSpec => []TellsOneStory`. `ReadSoFar` says at each statement of a
  request what it has read, and that what was stored when it was asked for and is of the kinds
  read is in it; rows that arrive in between may be in it as well, and change neither the
  kind of the request (`Direct`, `Linked`) nor what was there.
* `SettledForGood`: `OutcomeSpec => SettledStays`, an action property. What a summary says other
  than "horizon" was settled by the first price that touched a level (`SettledAt`), and a
  price to come, or a longer horizon, changes nothing before it. The walk along the path is
  a fold of the model; the proof uses it as the choice of the first touch.
* `FramesInOrder`: `FanSpec => []EveryFrameInOrder`. `BroadcastIsLast`: there is one
  broadcast, of the last frame, to sockets registered before it; `RegistryFollows`: a socket
  that is open is registered, one that is not has got nothing; `FramesMatch`: the property frame
  by frame, which sends disturb one index at a time.
* `PanelsNeverDisagree`: `RecordSpec => []PanelsInAgreement`. Each panel counts the rows of the
  table by a key of its own: by stage, by bucket of the score, by source and class of the
  reason, by status. `IsGrouping` says what such a breakdown is, and `ClassesAddUp` that the
  parts over a set of keys add up to the rows with one of these keys; what is left is, panel by
  panel, that these rows are the ones the graph counts. `PanelInv` adds that a fetch in progress has
  counted the first stages, and that what is cached carries the time its counting began and every
  stage.

**`SumTheorems`**, sums. `SumFunctionOnSet` of the community modules is a fold, of which the provers know
nothing, and the library's induction over finite sets takes a predicate as a parameter, which
they cannot instantiate. `SubsetInduction` is that induction for a *set* of good
subsets, proved by a smallest counterexample over the cardinalities. With it: the fold has a
solution and only one, a sum is that of one element and the rest whichever it is, of two disjoint
parts, of two functions, class by class, and ones add up to the cardinality. `Sentiment`,
`PipelinePanels`, `EventConsumer`, `GithubActivity` and `Scoring` sum with that operator, so these facts are
about the models as they are checked.

*Assumptions.* Each module names what it assumes of its constants, and TLC evaluates it on the
runs. Most only say that a number is one. The others: a topic has finitely many partitions
(`ConsumerAssumption`), a poll finitely many tokens, and the dates of a document are days
(`FundamentalsAssumption`); a coin has finitely many repositories, and their commits are counted
(`GithubAssumption`); a field of the hash is true or false, or a whole number (`ScoringAssumption`); the score of a journal row is at most `Top` (`ScanAssumption`); a raw
event belongs to a stage that reads raw events (`TraceAssumption`); and `PanelAssumption` gives a row
the columns its table has, a rejection being tagged with one of the two engines that publish
it (`db/models.py:83-89`).

*Only model-checked.* Liveness, and nothing else, since fairness and ENABLED are out of the prover's reach:
`SignalAnswered`, `CommandsHandled`, `FlatIsClosed`, `EveryMessageHandled`, `RoundsReachAll`,
`WindowCloses`, `BacklogPassed`, `EveryRowReported`, `EveryApprovalIsStored`, `ContentComesThrough`,
`OutageShows` and `BalanceShown`.

## 5. Other divergences met while modelling

Not runs of their own; each follows from the code by reading, and most can be seen in
the model.

*Trading and risk*

* `ExecutionKind.FAILED` ("error mid-flight") is emitted nowhere: an exit order that
  raises leaves an entry order that is neither tracked nor reported.
* A SET_MODE between the entry of a bracket and its exits sends them to two venues:
  each order asks for the mode anew (`kraken.py:94`).
* A pending opportunity keeps its payload when it is approved or rejected, and
  `trading:submitted` is not looked at: an approval that is repeated, redelivered or
  follows a rejection executes it (again), although handlers "must be idempotent"
  (`kafka/consumer.py`).
* A recreated container has a new command group and starts at the end of the log, so it
  skips the commands published meanwhile, although "each engine replica must apply
  every command" (`main.py`). `trading:runtime` is in Redis and survives, so what was
  applied before stays.
* `close_position` sends a reduce-only order whether or not the entry filled; sent
  first it closes nothing.
* A redelivered decision is evaluated, booked and approved again under a new
  `event_id`; the share of an approval that trading-engine refuses is never given back:
  only `_on_closed` frees.
* `_realized_24h` (`read_api.py`) filters trades by when they were created, not closed.

*Kafka*

* A message whose handler raised is committed with its batch, although the class
  comment says the offset is committed once the handler returns successfully.
* An exception of `getmany` or `commit` ends `run()`, and the process stays up; a Kafka loop
  that ended is no periodic task, so `/health` stays 200.
* A group without a committed offset starts at the end of the log
  (`auto_offset_reset=latest`): what it fetched before its first commit is lost
  by a crash.

*Evidence and scores*

* Two replicas of ai-worker-haiku (`docker-compose.yml:342`) read and write one hash
  without a lock: a field one of them stored may be overwritten with what the other read,
  although `worker.py:44-48` calls the merge monotone. `Triage` runs with one replica.
* Any event prolongs the life of all fields of a hash, old ones included.
* Sonnet's pause at a usage limit, 30 minutes to 6 hours, may outlast `max_poll_interval_ms`:
  `claude.py:153-156` says that "the backlog is consumed on resume" and `config.py:26-28` that the
  AI workers raise the interval. `docker-compose.vps.yml:348` does, to 6 h 10 min, which one pause
  fits in and two in one batch do not; `docker-compose.yml:344-365` does not, and leaves it at
  5 minutes. The commit that follows is refused, `run()` ends and nothing starts it again, the failure
  that `decision-engine/app/main.py:76-90` describes and avoids. `BacklogPassed` is the promise with
  this exception. Retries of such a pause are not budgeted, and an analysis that is redelivered
  after a restart finds its own cool-down and is journaled as skipped.
* A read of the whole market can lift a symbol over the evidence gate (`scoring.py`,
  `_MARKET_DAMPING`); the docstring of `features_map.py` names a method that no longer exists.
* After a gap of the regime the scan suggests a number of days rounded up
  (`threshold_scan.py:534-537`), so the window it suggests still begins before the first row
  that has the regime, "only the period" of which it should cover (547-553).
* collector-github asks the same coin for ever when its lookup fails (`main.py:116-140`
  against the comment there), counts a repository of unknown state as live
  (`aggregate.py:69-73`), goes on publishing the last snapshot of one that is gone, and an
  answer "still computing" (202) hides commits known before.
* In collector-github a save that raises ends the cycle for every coin (`collector.py:149`),
  although a failure for one repository is meant to cost the others nothing (117-119, 219-224): a row that
  can never be saved would hold the cursor, and the round with it, for ever. `RoundsReachAll` holds
  because faults end.

*Content and candles*

* An hour that receives late content after its day was compacted is in both tables again, against the docstring
  of `compact_hourly_to_daily`; a mention added between its INSERT and its DELETE is lost.
* A channel written off stays so in the running process when its write-off expires and
  it is listed again; `set_runtime` is an unlocked read-modify-write, and the seed at boot
  may overwrite the operator's list.
* The sentiment worker marks a row before it counts and publishes it: a failure in
  between loses the mention. A row whose scoring raises is first in the queue for ever.
* `CandleSweeper.run` reports its health outside its try: a database error there ends the
  sweeper, which nothing restarts, and it never reports anything but "healthy". The health
  collector replaces the detail of the row every 15 s.
* The candle stored last is read as closed once its time has passed, with unfinished
  values until the next sweep. A candle whose final upsert raises, that does not
  parse, or beyond the venue's page after a long downtime is not asked for again.

*Records and panels*

* An execution that the persister handles before the approval of its trade updates no
  row and is not repeated: the trade stays at its earlier status, against the
  lifecycle at `db/models.py:243`. The same is true of a verdict that comes before the journal
  entry.
* `_update_trade` writes `fill_price` and `kraken_order_id` from every execution event, so
  a CLOSED event, which has neither, clears what FILLED stored.
* A decision that was approved twice has two trades, and its journal row names the
  one handled last.
* `TokenMetaCache` marks the metadata as written before the write; when that raises,
  the row is not written again for an hour unless it changes (`TokenRowHeals` says it heals then).
* The journal's sample of a horizon counts rows younger than it (`journal_query.py:43-46`
  against its docstring), and its pages use OFFSET over newest-first rows.
* `systems_pipeline.py`: a statement that raises empties the page instead of serving the
  last good counts "flagged stale" (358-361); after a restart of a service its rate is
  shown as 0; an unknown volume of mentions as 0 (6-7); and the triage drawer groups reasons without
  `collapse_reason`, though `funnel.py:117-118` claims one rule.
* `/explain` binds a rejection "by correlation id" (`read_api.py:1052-1063`), but the engine's and
  Sonnet's decisions on one analysis share that id (`decision-engine/app/engine.py:70`): the engine's
  approved decision may be shown with the rejection of Sonnet's. `/trace` picks the newest decision of the id.
* "The analysis that folded this event in" (`_consuming_signal`) may be one whose window had
  closed before the event and that was published after it.
* A periodic tick that hangs is never counted as failed, and the `CircuitBreaker` is wired in nowhere.
* A broadcast awaits all of its sends: a socket that is stuck, and does not raise,
  holds up everyone, though `manager.py` says one slow client does not.

## 6. Hazards and what covers them

`PROJECT.json` lists forty, each with its line. In short:

* interleavings and lost updates: `bad_untracked`, `bad_exposure_lost`, `FreedOnce`, `ExposureCovers`,
  `TakenIsAccountedFor`, `WindowsExact`, `TellsOneStory`, `EveryFrameInOrder`;
* stale state: `KillSwitchBound`, `ModeFresh`, `MeasuredNotMade`, `TokenRowHeals`, `NoHoleBehind`,
  `OutageShows`, `PanelsInAgreement`;
* restarts, redelivery and order: `AtMostOneEntry`, `IsAtLeastOnce`, `ReplayWindow`,
  `OutcomesAreKept`, `StatusIsLatest`, `CursorClaimsStored`, `AtMostOnce`, `EveryRowReported`,
  `SettingsFollowLog`;
* partial failure: `ReportedIsProtected`, `JournalNamesATrade`, `UnlockTermWasRead`,
  `RoundsReachAll` (a save that raises ends the round), `bad_source_gone`, `bad_poller_ends`;
* limits and numbers: `RateBound`, `ExposureInRange`, `EvidenceNudges`, `ProposalKeepsTarget`,
  `RoundsReachAll`;
* progress: `SignalAnswered`, `CommandsHandled`, `FlatIsClosed`, `EveryMessageHandled`,
  `EveryApprovalIsStored`, `WindowCloses`, `BacklogPassed`, `ContentComesThrough`, `BalanceShown`;
* long sequences of calls: `SettledStays`, `bad_closed_early`.

## 7. Not modelled, and the plan

Next, in this order:

1. `RiskRules` and `Sizing`: `rules.evaluate`, `_compute_levels` and `compute_size` as
   operators over fixed-point numbers: levels on the right side of the entry, size
   within its caps, rounding never beyond them. They are free verdicts today.
2. A second replica of trading-engine during a rebalance, in which two handlers may pass the
   idempotency check before either sets the key.
3. The one-row topics of the persister (derivatives, fundamentals, developer events), the
   pages and the attribution of the journal, order-book depth and the pair reference of collector-kraken.

Left out for good: the market pages of the read API (single SELECTs shaped into JSON, which
relate no two of them), the providers of the other collectors (a request and the mapping of
its answer, without state of their own; `PollLoop` and `ServiceHealth` model the loops
that run them), the models that score a text, prompts and parsing of the AI workers,
authentication, migrations, the frontend and its mock API, signing and HTTP of the Kraken
clients, metrics and logging.
