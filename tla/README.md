# Formal models of the quantitative trading system

The repository is a Python system that trades futures on one Binance account
with several strategy processes (BTC/ETH, BTC/ETH aggressive, HRS, new coin,
grid advisory), next to services that collect market data and an AI tuner that
changes configurations. This directory holds TLA+ models of the parts where
several actors share state, TLC runs on small instances, and TLAPS proofs about
the models.

The files:

| file | content |
| --- | --- |
| `SymbolMutex.tla` | abstract specification: one strategy at a time in a symbol, as long as its protection is intact |
| `PositionClaims.tla`, `MCPositionClaims.tla`, `claims_*.cfg` | symbol ownership protocol |
| `EntryRiskReservation.tla`, `MCEntryRisk.tla`, `risk_*.cfg` | account-wide risk policy and durable reservations |
| `OrderFill.tla`, `fill_wait.cfg` | waiting for an entry order, and the verdict on the entry |
| `PositionClose.tla`, `close_position.cfg` | closing a position with reduce-only orders |
| `OrderBook.tla` | abstract specification: what a btc_eth process does to the conditional orders of a symbol |
| `ProtectionOrders.tla`, `protection_*.cfg` | the monitoring cycle of btc_eth and its protective orders |
| `OrphanCleanup.tla`, `orphan_cleanup.cfg` | the tuner's clean-up job beside `OrderBook` |
| `GridReference.tla`, `reference_handoff.cfg` | handing the hourly grid advice to the realtime process |
| `AlertLedger.tla` | abstract specification: what the delivery of alerts promises |
| `GridEngine.tla`, `GridAlerts.tla`, `MCGridAlerts.tla`, `alerts_*.cfg` | the realtime alert engine, its outbox and its pump |
| `*Proofs.tla` | the theorems about the module of the same name |
| `PROJECT.json` | index: runs, mutants, source lines of each definition, findings, hazards, theorems |

Run a model with `tlc -config claims_exclusion.cfg MCPositionClaims.tla` (a
module without an `MC` module is checked directly), the proofs with
`tlapm PositionClaimsProofs.tla`, and so on.

## 1. Inventory

### How the parts interact

```
 strategy process (one asyncio loop each)          PostgreSQL
  signal -> open_new_position ------------------>  position_claims   (lease per symbol)
              |  is_symbol_owned_by_other          trade_records     (authority)
              |  try_claim_symbol                  entry_risk_policy / _reservation
              |  prepare / submit_aggressive_entry strategy allocation
              |  place_order -> wait_order_final_state
              |  release_claim                     Binance account (shared by all)
  main loop -> retire, cleanup, close_remaining ->   orders, positions
                                                     protective orders fill by themselves
 capital allocator, policy activation script ---->  allocation, policy
```

Strategies are separate operating-system processes. They share no memory: they
meet in the database and on the exchange, and interleave at every request. A
deployment can run the old and the new container of one strategy side by side
for a while. Inside a process one asyncio task runs an opening sequence, so it
has one program counter; the detached clean-up of conditional orders and the
heartbeat thread of the grid bot are the exceptions, and both are modelled.

```
 grid bot (hourly)  -- session, reference -->  SQLite  --> realtime alert process
   heartbeat thread -- session row, 1/s ---->            engine -> event, outbox -> pump -> webhook

 btc_eth process    -- condition_orders  -->  PostgreSQL <-- orphan clean-up job (AI tuner)
   clean-up task    -- conditional orders -> Binance    <--
```

### Components

State, operations and what makes each correct. "hard" names the behaviour that
a test seldom reaches.

- **Symbol ownership** (`src/shared/position_ownership.py`, the claim
  transaction in `src/shared/database.py`, `open_new_position` in
  `src/shared/protection_retry.py`, the table in
  `08-position-claims.sql`). State: claim rows with an expiry, open entry
  records, `self.positions` of each strategy. Operations: query of the
  authority and of the claim, atomic claim, second query, release with a
  terminal mark, cleanup of expired rows, adoption at startup. Correct: two
  competing strategies are never in one symbol; nobody is in a symbol unseen;
  an abandoned symbol becomes free again. Hard: three transactions per entry
  with rivals in between, an expiring lease, failed reads and writes that are
  swallowed, crashes.
- **Entry risk policy** (`src/shared/entry_risk_policy.py`, its migration).
  State: policy revisions, reservations, the advisory lock of the account.
  Operations: activate, prepare (reconcile, snapshot, reserve), submit (mark,
  authorise, POST under the lock). Correct: margin and slots are never
  oversubscribed, an intent is posted at most once and under the policy it was
  admitted under, a reservation lives as long as its exposure and no longer.
  Hard: the snapshot is older than the transaction, the exchange moves between
  two reads, the lock belongs to a session that may die.
- **Order wait and entry verdict** (`src/shared/order_fill_waiter.py`,
  `place_and_wait_entry_order`). State: the best fill seen. Operations: poll,
  cancel at the deadline, read again. Correct: the result is what the order
  really executed. Hard: the cancel races a fill; orders are invisible for a
  while; requests fail after a fill was seen.
- **Reduce-only close** (`src/shared/reduce_only_close.py`, callers in `hrs` and
  `new_coin`). State: target, counted quantity, round. Correct: never closes
  more than asked, never reports success for what was not closed, a position
  still open stays managed and protected. Hard: protective orders fill the same
  position meanwhile, results stay unknown, -2022 refusals, two stages.
- **Protective orders** (`protection_retry.py`, `btc_eth/strategy.py`,
  `condition_orders.py`). State: the conditional orders of a symbol, in three
  places: on the exchange, in the slots of the position object, in the rows of
  `condition_orders`. Operations: placing at entry, replenishing in rounds,
  partial take profit, trailing and time stop, the sweep before a close, the
  detached clean-up, the adoption after a restart. Correct: a position counted
  as protected is; no leg is placed twice; no clean-up takes the orders of a
  later position. Hard: nothing keeps the three places in step; a clean-up
  task runs beside a new entry; answers are lost; a restart knows only the rows.
- **Orphan order clean-up** (`ai_tuner/cleanup/orphan_cleanup.py`). State: the
  rows it has listed. Correct: it spares the orders of a position that is held,
  and clears the others. Hard: it is another process, and three requests lie
  between what it read and what it cancels.
- **Exchange client** (`binance_api.py`). State: rate windows, the entry
  records it marks. Operations: place, cancel, query, idempotent write with
  retries. Correct: an accepted write is not repeated under a new identity.
- **Trade records** (`trade_logger.py`). State: `trade_records`. Operations:
  log, mark terminal, write profit back. Correct: a record is open as long as
  its order or position is.
- **Strategies** (`btc_eth`, `btc_eth_aggressive`, `hrs`, `new_coin`, `grid`).
  State: `self.positions`, counters. Operations: entry, monitoring, closing,
  allocation enforcement.
- **Grid reference handoff** (`grid/signal_bot.py`, `grid/heartbeat.py`,
  `grid/realtime/reference_store.py`). State: sessions and references in SQLite,
  the bot's copy of its session. Operations: registering, notifying and marking
  an advice, the heartbeat, giving the handoff up. Correct: the reader takes only
  an advice the users were told of, in the running session, and the newest.
  Hard: three commits and a notification, a thread that writes what it read a
  moment ago, failed writes, restarts.
- **Grid realtime alerts** (`grid/realtime`). State: the state machine of each
  direction, event and outbox rows. Operations: one tick per second, the pump.
  Correct: what must be told is recorded once and delivered, what is no longer
  true is not sent. Hard: two commits and a send, retries against deadlines,
  memory lost in a crash, a new reference in the middle of an episode.
- **Circuit breaker, capital allocation, AI tuner (analysis, deployment,
  rollback), position baselines, trailing stops, k-line services, evidence
  sinks, dashboard and scripts**: each is listed in `PROJECT.json` with its
  status and the reason.

Claims, reservations, the order wait, the reduce-only close and the reference
handoff are modelled completely; protective orders, orphan clean-up and the
realtime alerts in the parts section 2 names; the components they call (database
manager, exchange client, trade records, strategies) as far as these protocols
use them. The others are planned (section 6) or left out (section 7).

## 2. Modules and the code they model

`PROJECT.json` maps every definition to its source lines; this section says how
to read them.

### PositionClaims

One symbol of the account. Lock key, row and records are all selected by
symbol, so symbols do not interact in this protocol. Each strategy has a program
counter `pc[s]`; a step is one transaction or one exchange request:

| code | action |
| --- | --- |
| `is_symbol_owned_by_other`: authority, then claim | `CheckAuthority`, `CheckClaim` |
| `claim_position_atomic` (one transaction) | `ClaimAtomic` |
| second authority query of `try_claim_symbol` | `Recheck` |
| `prepare_aggressive_entry`, `reserve`, last position query | `Prepare`, `Settle`, `Reserve`, `CheckFlat` |
| `_place_entry_order` gives up | `Abandon` |
| `place_order`, then `log_order` | `PlaceOrder`, `LogOrder` |
| `wait_order_final_state` in three outcomes | `SeeFill`, `CancelUnfilled`, `LoseOrder` |
| `release_claim`: terminal mark, then the row | `MarkTerminal`, `ReleaseRow` |
| main loop | `Retire`, `CloseUntracked`, `CleanupExpired` |
| process death and start | `Crash`, `Boot` |
| exchange, time | `Fill`, `ExchangeClose`, `Tick` |

`claims` are the live rows with the ticks left; `Forever` is the `infinity` of a
reserved row. `records` are the open entry records. `Reserving` names the
strategies whose entries go through a reservation (btc_eth_aggressive).
`Competing` is `competing_record_names`; an empty list means "everybody".
`Faults` selects failures: `read` (an ownership query fails and counts as "no
owner"), `claim`, `release`, `log` (statements whose failure is swallowed),
`unknown` (the answer to an order is lost), `crash`.

Abstracted: an entry fills whole or not at all; symbols; the price and size of
an order; the reason `open_failed` stands for `open_exception` and `micro_zeroed`,
which end in the same way. Nothing bounds the time from the claim to the entry
record: a lease may run out while its strategy is still opening.

The code promises exclusion only as long as nothing has taken the protection away
from an entry, and this is where the model draws the line. The history variable
`intact`, read by the properties alone, becomes false at a `Mishap`:

- a strategy without reservation passes `try_claim_symbol` without a row of its
  own, since the row there belongs to one that does not compete with it;
- a strategy is granted beside the open record of another one, because the second
  read failed or because the owner is not on its list;
- the lease of a strategy without reservation ends inside its opening window;
- an order of a strategy without reservation is not logged, has an unknown
  result, or is forgotten in a crash while it or its position stands.

Failing claims, failing releases, the first reads, crashes elsewhere, and whatever
happens to a reserving strategy after its grant are no mishaps: exclusion is
checked and proved through them.

`SymbolMutex` is the abstract specification: a set of holders, acquired only
when empty, left one at a time, until it is broken (`Break`).
`PositionClaims!ImplementsMutex` maps the holders to the engaged strategies, those
with an admission, an order or a position, and the break to the first mishap.

### EntryRiskReservation

The whole account, several symbols, several workers (one strategy process, or
two while a deployment replaces it). A transaction is one step, with two
exceptions where the code talks to the exchange while it holds the advisory
lock: `reconcile` (`Reconcile`, `ReadOrder`, `ReadFlat`, `KeepRow`, `Release`,
`EndReconcile`) and the POST (`Authorize`, `Send`). A reconciliation is one
transaction over all intents not released. In its loop every error is caught and
keeps the intent (`KeepRow`); `Release` notes what the pass sets free in `freed`,
and `EndReconcile` commits all of it. An `EntryDenied` after the loop, a lost
session (`GiveUp`) or a crash rolls all of it back. The snapshot is read in two
further steps without the lock (`ReadHoldings`, `ReadSlots`), then `Reserve`
checks everything again under the lock. `Activate`, `Expire` and `Allocate` are
the environment that changes the rules; `Finish` and `Close` are the exchange;
`Claim` and `Unclaim` stand for all that `PositionClaims` does to the row.
`LoseSession` takes the lock away while the request is on its way.

Abstracted: the sizing of an entry is its `Margin`; equity is constant, so
ratio and cap of a policy are one number; old positions are `Legacy`; entry orders
of others, which end an entry after its reconciliation, are the boolean
`foreign`, switched by `OtherOrder`.

### OrderFill

The exchange's order and the waiting task: `Poll` until final or `Timeout`, then
`Cancel`, then up to `Attempts` reads, then `Decide` in
`place_and_wait_entry_order`. Between any two requests the order may fill in
part, fill, or end. `preserve` is the argument `preserve_confirmed`. Fault
`hidden` makes an order invisible (-2013, answered to a cancel like -2011);
`error` makes a request fail. A poll that does not see the order is a stuttering
step. Quantities are units.

### PositionClose

`close_remaining` with its rounds, refusals, unknown results, micro position and
final verdict, for one close by one of two callers. `caller = "hrs"` calls it
once and passes `_finalize_close_if_filled`; `caller = "new_coin"` runs a limit
and then a market stage and forgets the position afterwards. The exchange fills
close orders (reduce-only: never beyond the position) and protective orders at
any time. `Wait` uses `OrderFill!ResultExact` for a known result and
`WaitUnknown` for the others. Quantities are units, `Step` of which make
the smallest order, so that the flooring and the dust rule (`pos <= Step`) are
real. Faults: `reject`, `unknown`, `error` (a request raises).
btc_eth_aggressive closes an untracked position through the same
function without cancelling protective orders (`CancelConditional = FALSE`).

A success for a target well below the position is not reported by the code,
since the position stays above the step; the model shows the same, and no
property claims otherwise.

### ProtectionOrders and OrderBook

One symbol of one btc_eth process. `orders` is everything the exchange accepted
(an order that left the book keeps its `fate`), each with its row of
`condition_orders`; `objs` are the `PositionState` objects and `cur` the one in
`self.positions`; `held` is the position, in thirds of an entry (TP1, TP2, tail).

| code | action |
| --- | --- |
| `open_new_position` from the fill on | `Enter`, then `Place` per leg |
| `retry_protection_pending`, `replenish_protection_round` | `RetryProtection`, `StartRound`, `Place` |
| `_check_liquidation_warning` | `Liquidation` |
| `_check_partial_take_profit` | `TakeSync`, `TakeTp1`, `TakeTp2`, `TakeNone` |
| `_check_dynamic_trailing`, `_sync_trailing_stop_order`, `_handle_trailing_trigger` | `TrailImproved`, `TrailTriggered`, `TrailNone` |
| `_check_time_stop` | `TimeStop`, `TimeNone` |
| `_close_position` | `CloseSync`, `CloseSweep`, `CloseOrder`, `CloseRejected` |
| `_cleanup_position_orders`, as a task or from the cycle | `CleanUp`, `Clean` |
| `_sync_positions_with_exchange` | `SyncPositions` |
| process end; `_startup_orphan_cleanup`, adoption, `_ensure_position_protection` | `Stop`; `StartupSweep`, `Adopt`, `AdoptNot`, `Ensure` |
| the exchange | `Trigger` |

A step is what runs between two requests; the cycle and the clean-up tasks (one
member of `cleaners` each) share the object and interleave at every request. A
clean-up holds the identifier of one order at a time, read before its cancel;
the next is read after it. Calls of the kinds in `Failing` may fail; `lost` is a
placing whose answer never arrives: the order stands, slot and row do not; `row`
is the swallowed failure of the row's insert after an order that was placed and
has its slot. At a start (`startup`) the question for the position may fail,
which skips the clean-up; any of the cancels may fail, and the updates of the rows
one by one too (`Purge`).

Left out: additions to a position and their rebuild, the extreme-market stop,
closes that keep protection (`ALLOCATION_LIMIT`), legs too small to place, the
entry order's slot, the 48-hour limit of the clean-up, and the claim and
ownership checks, which are `PositionClaims`. `btc_eth_aggressive` has the
same cycle.

`OrderBook` says what other processes may rely on: which orders a btc_eth
process places, takes away and whose rows it closes. A clean-up withdraws only
orders that do not belong to the position now held; a row is closed only when
its order is gone, or at a start that found the symbol flat (`Purge`).
`ProtectionOrders` implements it (`ImplementsBook`), with `up` mapped to "not
starting" and `doubtful` to `Doubtful`.

Two history variables serve the properties alone: `unswept` are the positions one
of whose cancel-all calls failed, `torn` those one of whose closes filled in part.
No action reads them. A held position that is both is *doubtful*, and there
`OrderBook` says what the code does: a close filled in part counts as full, so that
memory holds less than the exchange; when the sweep before the next close fails,
that close empties memory, the detached clean-up starts (`strategy.py:4405`),
and it withdraws orders of a position still held. The book allows that to a
doubtful position and to no other.

### OrphanCleanup

`OrphanCleanupJob.execute` beside `OrderBook`: `ListRows`, `AskPositions` (the
exchange's positions and the strategy's state, and the scenario they give),
`Handle` for each listed order, `Finish`. `CancelOrder` has the second, verifying
cancel: the row is closed only when the exchange no longer knows the order. Its
third outcome is the order gone and the row still OPEN, when the verification or
`mark_order_canceled` fails after a cancel that worked.
`aged` counts the positions whose trades are older than the look-back of 7 days,
`Stale` is a state not updated for 2 hours. `Blind` lets the question for the
positions fail. The branch "strategy without a state row" asks the exchange and
the recent trades as the second scenario does.

### GridReference

The hourly bot, its heartbeat thread and the reader. `sessions` and `refs` are
the SQLite tables, `state` is `self._state`, `beat` what the thread has read and
not yet written, `tx` what the bot has written and not committed. That matters:
`mark_sending` does not commit, so the write lock is held while the users are
notified, heartbeats fail meanwhile, and a later `commit` may make an older
write visible. A numeric advice is `Prepare`, `MarkSending`, `Notify`, then
`MarkSent` or `MarkFailed`; an advice without boundaries is `SignalRisk`,
`ConfirmRisk`. `MarkFails`, `PrepareRefused` and `ConfirmRiskRefused` lead into
`_abort_export`: `SetUncertain`, `Close`, `Forget`. `ReferenceStatus` is the
reader (`current_snapshot`) with `VALID` for `STALE` too. `confirmed` records what
the users were told; the code does not have it.

Time is the boolean `fresh`: `Silence` is the moment at which the session row is
older than `max_silence_seconds`.

### GridEngine, GridAlerts and AlertLedger

`GridEngine` is the state machine of one direction as functions from a runtime
to a runtime and the events it emits: `OnFact` for a trade, `OnSecond` for the
sample of a second, `SwitchReference`. A price is a region (inside, near,
buffer, critical, beyond); the predicates of the profile that hold in a second
are any subset of those the region admits (`Candidates`).

`GridAlerts` runs it: a `Tick` drains the trades and evaluates, `InsertEvent` and
`InsertOutbox` are the two commits of each event, then `StartPump`, `CancelRow` or
`SendRow`, `HandleOutcome`, `EndTick`. The channel answers ok, failed or
unknown, and may have taken the message whatever it answers (`told`). A pump takes
time: it reads the clock once (`StartPump` lists what is due and cancels what is
not), then awaits the channel for each row, up to 5 seconds (`Await`). `late`
are the seconds since; deadlines and ages of the engine go on meanwhile, the
pump's clock does not, so a later row may be sent after its deadline. A `Crash`
loses engine and `_event_refs`, not the tables; `UnknownRow` is the `KeyError` of
`_condition_holds` for a row of an earlier process. `QuietTick` is a second
without news.

`AlertLedger` is the abstract promise: an alert taken on stays owed until the
channel took it; only advice may be given up.

Abstracted: one direction; alert mode only (the shipped default is shadow, in
which nothing is sent); times below a second; the order of rows of one kind; the
growth of the back-off, any wait in 1..`MaxWait`. Not modelled: the research
rows, retention and maintenance, the queue audit, and health reasons of storage,
lag and overflow, which use the same `HealthEvents`.

### Seeded faults

Next to some actions stands a definition commented "Seeded fault". It is no part
of any specification: it is the action with a plausible bug, and `PROJECT.json`
names for each property of each passing run one such variant under which
TLC finds the property violated. They document that the property can fail.

## 3. What the runs check

### Passing runs

| run | instance | shows |
| --- | --- | --- |
| `claims_exclusion` | the 3 strategies with their deployed lists, one reserving, 2 orders, every fault, a crash | `MutualExclusion`, `ExposureVisible`, and that the protocol implements `SymbolMutex`, all until the first mishap; `LeaseHonoured`, whatever happens: an unexpired row leaves only through its own strategy |
| `claims_progress` | 2 strategies, one reserving, failing reads, claims and log entries, unknown results, a crash, fairness | `RowReclaimed`: every unreserved row is released in the end; `ResidueOnlyByCrash`: an open record outlives its entry only if a process died |
| `risk_intents` | 2 workers, 3 intents in 2 symbols, an old position in a third, 2 slots, crashes, lost sessions | `ExposureReserved`, `OneIntentPerSymbol`, `PostedOnce`, `SlotsHold` |
| `risk_lifecycle` | 1 worker, 2 revisions of two modes, an allocation that changes, entry orders of others, crashes, fairness | `CeilingHolds`, `PostedUnderItsPolicy`, and `SettledReleased`: a settled reservation is released in the end, although a pass that fails takes its releases back |
| `fill_wait` | both values of `preserve_confirmed`, hidden orders and errors, fairness | `ResultExact`, `KnownFillsKept`, `EntryMatchesOrder`, `WaitEnds` |
| `close_position` | hrs and new_coin, 5 units, targets 2 and 5, step 2, 2 rounds, every fault, fairness | `NeverOverCloses`: one call takes no more than it was asked; `SuccessReached`, `GuardKeepsPosition`, `CloseEnds` |
| `reference_handoff` | 3 advices, 2 starts, 3 failed writes, fairness | `CountsOnlyConfirmed`: only an advice the users got, in the running session, counts; `NewestCounts`: no older one while a newer is confirmed; `GivenUpStays`: a heartbeat under way does not bring back what was given up; `ConfirmedCounts`: a confirmed advice comes to count |
| `alerts_engine` | 2 references, 2 episodes, 3 busy seconds, sending takes time, no crash | `BoundaryRecorded`: a stop line the engine has seen crossed is in the outbox; `EscalationHeard`: no cooldown swallows an escalation |
| `alerts_delivery` | 1 reference, unknown answers that take time, a crash, expiry, fairness | `AdviceDueAtPump`: an advice goes out only in a pump that began before its deadline; `FactsDelivered`, `RestartsEnd`, and that the outbox implements `AlertLedger` |
| `protection_orders` | 2 positions, 4 orders, 3 events (positions, failed calls and row writes of every kind, restarts) | `FlagHonest`: a position counted as protected is; `OneLiveLeg`: no leg stands twice; `ImplementsBook`: the process keeps to `OrderBook` |
| `orphan_cleanup` | 2 positions with their stops, a failed cancel or verification, fairness | `SparesHeld`, `RowsKept`, `OrphansCleared` |

`alerts_engine` and `protection_orders` check the type invariant of their modules,
which says more than types there (identifiers the engine can make, counters at
their limit). The type invariants of all modules are proved.

### Violation: adoption after an interrupted close

`protection_adopted` checks `AdoptedIsProtected`, the promise of
`_adopt_untracked_exchange_positions`, and TLC finds it violated without any
failing call: a close sweeps the protective orders of the symbol and leaves their
rows open; the process stops; the start takes the rows for the orders and adopts
the position as fully protected. Nothing places an order for it afterwards. The
quotation is in `PROJECT.json`, "findings".

### What the documents promise and the code does not keep

The following are stated as properties in the modules (last section of each) or
follow from a property outside the conditions of its run. They are no runs of
their own; the cfg to take and what to change in it are given. A formula without
`[]` or `~>` is checked as an INVARIANT, any other as a PROPERTY.

| property | promised by | what happens | to reproduce |
| --- | --- | --- | --- |
| `PositionClaims!ExclusiveGrant` | R07-AC1 in `docs/plans/fix-2026-09-29-p0-r01-r08-requirements.md:497`, at most one `blocked=false` | with the deployed lists a row of new_coin, which does not compete, lets btc_eth and btc_eth_aggressive pass together without a row (`position_ownership.py:594`) | `claims_exclusion.cfg`, `Reserving = {}`, `Faults = {}`, and `TTL = 4`, so that the lease does not end first |
| `PositionClaims!ResidueClears` | R07-F7 (`:493`) and AC3 (`:499`), no symbol is blocked for ever | a crash between entry and release leaves an open record that nobody marks (`position_ownership.py:606`) | `claims_progress.cfg`, `Faults = {"crash"}` |
| `PositionClaims!IdleRowReclaimed` | the same | an entry given up between reservation and POST leaves a row that never expires (`entry_risk_policy.py:155`) | `claims_progress.cfg`, `Faults = {}`, `MaxCrashes = 0` |
| `PositionClaims!UnknownKeepsClaim` | R-plan `:174`, an unknown order keeps its claim | an entry with an unknown outcome releases its claim (`protection_retry.py:676`) | `claims_progress.cfg` with `SPECIFICATION Spec`, `Faults = {"unknown"}` |
| `OrderFill!FillsKept` | R06-F4 (`:430`) and `order_fill_waiter.py:101`, no fill is dropped | without `preserve_confirmed` a failed request after a poll forgets the fill it had read (`order_fill_waiter.py:200`) | `fill_wait.cfg`, `Preserve = {FALSE}`, `Faults = {"error"}`, `Size = 3` |
| `PositionClose!FallbackTakesRest` | R03-F4 (`:224`), the market fallback takes the remaining quantity only | new_coin gives its market stage the whole target again, although the limit stage has executed in part (`new_coin/executor.py:3154`) | `close_position.cfg` |
| `PositionClose!RetryPathKept` | R03-F5 (`:225`), a failed close keeps its retry path | new_coin stops managing a position whose close failed (`new_coin/executor.py:2439`) | `close_position.cfg`, `Callers = {"new_coin"}`, `Position = 4`, `Targets = {4}`, `Step = 1`, `Faults = {}` |
| `GridReference!HandoffStands` | `Grid_Trading_V2.5.4.md:195` and AC-02 (`:572`), after an explicit failure the old reference counts again | `mark_failed` frees the number, the next `prepare` meets `UNIQUE(session_id, seq)` and the handoff is off until the bot is restarted (`reference_store.py:256`) | `reference_handoff.cfg` with `SPECIFICATION Spec`, `MaxRefs = 2`, `MaxFaults = 1`, `MaxStarts = 1` |
| `GridAlerts!NoAdviceAfterDeadline` | `delivery.py:8`, an overdue row is only kept on file | the deadline is read once, before the first await; a row behind a slow one is sent after its own (`delivery.py:69`) | `alerts_delivery.cfg` with `SPECIFICATION Spec` |
| `GridAlerts!CriticalAnnounced` | AC-06 (`:576`), a slow approach is reported | the pump cancels the row of a critical fact when the second's sample no longer supports the level (`main.py:341`) | `alerts_engine.cfg` |
| `GridAlerts!RepeatsRecorded` | `state.py:5` and 7.2 (`:352`), a level is repeated at its interval | the repeat has the event id of the first, so the duplicate check drops it (`state.py:360`, `delivery.py:105`) | `alerts_engine.cfg` |
| `OrphanCleanup!SparesHeld` | R08-F1 and F4 in the requirements (`:550`, `:556`), nothing is cancelled unless the symbol is known to be flat | when the positions cannot be read, the orders of a strategy whose state is stale are cancelled all the same (`orphan_cleanup.py:486`) | `orphan_cleanup.cfg`, `Blind = TRUE` |
| `ProtectionOrders!ImplementsBook` | `strategy.py:4405`, the clean-up runs after the first *complete* close | of a doubtful position (section 2) the clean-up withdraws orders although it is held | `protection_orders.cfg`, `MaxEvents = 4`, without `doubtful` in `Withdraw` of `OrderBook` |

Further behaviours of the models that the team should know:

- *What breaks exclusion.* Each mishap of section 2 does: without any one of the
  clauses of `Mishap`, `claims_exclusion.cfg` violates `MutualExclusion`. A failed
  read counts as "no owner", although the docstring says that double opening is
  not let through; an order that was not logged is seen by nobody once its row
  expires; an order of unknown fate loses its row and its record.
- *Own row reused.* `claim_position_atomic` returns the strategy's own unexpired
  row without renewing it. After a crash, or a release that failed, the old row
  may expire in the middle of the new window, however short that is: the
  third mishap of section 2.
- *Row released under an entry.* With no fault at all, the reconciliation inside
  a reserving entry releases the row that has just admitted it; a rival gets to
  the same place, and the reservation decides (`ExclusiveGrant` with
  `Strategy = {btc_eth, aggressive}`, `Faults = {}`, `TTL = 16`).
  `MutualExclusion`, which counts a reserving strategy from its reservation on, holds.
- *Lost session.* When the session that holds the account lock dies during the
  POST, a new revision can be activated first (`risk_lifecycle.cfg` with
  `LostConnection = TRUE` violates `PostedUnderItsPolicy`).
- *Partial targets.* Within one call the rounds together take no more than the
  target (`NeverOverCloses`), with two exceptions that its formula names: after an
  unknown result the next round counts nothing as closed, so what the lost order
  executes comes on top; and a target below one step is treated as a micro
  position, so that the whole position is closed. The two calls of new_coin
  together may take more than was asked (`FallbackTakesRest`). Callers deployed now
  close 100 percent, where reduce-only hides the difference; `close_percent` of
  new_coin is a configuration value.
- *Protection lost by a failed close.* The -2022 handling cancels the protective
  orders of the symbol before it tries again; when the second try is refused too,
  the close fails and the position is left without them (`Reject` twice, then
  `Finalize`), while the alert says they were kept. The same holds in btc_eth for
  every close from software that sells a part or fails: `CloseSweep` takes the
  orders, the slots keep their identifiers, `protection_complete` stays true, and
  only `_handle_trailing_trigger` rebuilds. `FlagHonest` therefore admits `swept`.
- *Rows closed too early.* `_do_startup_orphan_cleanup` marks the rows CANCELED
  even when the cancels failed, although `mark_open_orders_canceled` asks its
  caller not to. A live order then has no row, and no later clean-up finds it
  (`Purge`; `OrderBook` promises nothing about rows at a start).
- *Order without a row.* `record_condition_order` swallows the failure of the
  row's insert. The order keeps its slot, so the process manages it, but a start
  does not find it, and neither does the orphan job.
- *Retries forgotten.* `_sync_positions_with_exchange` removes a flat record with
  cancels still to be retried; a new entry replaces an object whose clean-up is
  under way. `ImplementsBook` shows that neither takes an order of the new position.
- *Placed twice.* After a lost answer the next round places the leg again; one of
  the two orders has neither slot nor row. A trailing stop whose cancel failed is
  replaced all the same. `OneLiveLeg` speaks of recorded orders of the other legs.
- *Not listed means filled.* `_close_position` counts an order that is no longer
  listed as filled. After one that was cancelled the position is thought flat.
- *Notified twice.* A failed write after the notification sends the advice again
  through `NotifyUntracked` (`signal_bot.py:804`), although a comment says
  otherwise; `mark_unknown` is never called, an unknown result counts as FAILED.
- *Lock held while sending.* Between `mark_sending` and `mark_sent` the heartbeat
  cannot write; a slow webhook makes the reader uncertain for a while.
- *Two commits.* A crash between `_insert_event` and `_insert_outbox` loses that
  alert for good. `BoundaryRecorded` excepts the case by `crashes > 0`, and
  `AlertLedger` begins with the outbox row: no property covers it.
- *Trades after the mark* of a second are never fed to the scanner
  (`main.py:246`); the state machine sees their price with the next sample only.

### Bounds and why they are enough

- Strategies: the deployed three with their lists: two that compete, one of them
  reserving, and one that does not. The liveness run uses two, since its
  properties speak of one strategy and its environment.
- Faults of `claims_progress`: all but a failing release. The mark of the records
  is tried once per release; if it fails for good, record and rival stay where
  they are, and neither liveness property can hold.
- `TTL` 1 or 2: the lease may end at any point of the window, and the row can
  survive its entry. The proofs cover all values.
- `MaxOrders` 2: one entry can meet another, or the residue of its own earlier
  one. `MaxCrashes` 1: a crash between any two steps; a second adds only
  repetitions of the same recovery.
- Intents: two in one symbol and one in another, next to an old position in a
  third: the least in which symbol, slot and margin conflicts all occur. Margins
  1, 3, 2 and the old 1 against a ceiling of 4 meet the boundary from
  both sides, and three symbols compete for two slots. Two workers are the
  deployment overlap; they are interchangeable, which `SYMMETRY` uses.
- `risk_lifecycle`: two revisions, so that the policy can be replaced at any
  point between reservation and POST; two intents of one unit each and allocations
  of 1 and 2, so that a change lies on both sides of their sum. Policies do not expire there (`Expiry`): that
  is `risk_intents`, and an expired policy owes nothing to `SettledReleased`.
- `Size` 5, `Attempts` 2: partial fills before, between and after the
  requests; two reads, so that "retry" and "give up" both occur.
- `Position` 5, `Step` 2, two rounds: quantities on, above and below the step,
  dust, a micro position, and a round after each kind of failure.
- `reference_handoff`: three advices are an earlier one, one that fails and one
  after it; two starts, the session before and after a restart; three failed
  writes are one in the send and both of `_abort_export`.
- `alerts_engine`: two references and two episodes, so that one ends and another
  begins under an old and a new reference; three busy seconds are one to arm,
  one to fire and one to change, with quiet seconds between them at any point.
  One trade a second, before the mark, in the same second or after it. The
  channel fails every time, so that rows live as long as they can: the engine
  does not see its answers.
- `alerts_delivery`: a deadline and a back-off of one second, one crash, and two
  busy seconds, so that an event comes again after the restart. The advice is
  that of a critical price (no branch of the profile), the fact the boundary. What
  more crashes and longer deadlines can do is covered by the proofs, which have
  no bound.
- `protection_orders`: two positions, the second opened while a clean-up of the
  first is under way; four orders are a full set of one position and one more.
  `MaxEvents` bounds positions, failures and restarts together: every pair of
  failures around one position, every single one around two. One round of
  replenishing (`MaxRounds`): a leg is placed again, and a failure of that round
  uses them up. The proofs have no bound.
- `orphan_cleanup`: two positions, one before the job's question and one after;
  two orders, a stop of each: the job treats all legs alike. The proofs cover every
  number and every set of legs.
- `MaxLate` 1: one row may be awaited for longer than the deadline of the next.

### Deadlock

`alerts_engine` and `alerts_delivery` check for it. The other models may come to
rest because the system may: no further signal is owed, the one entry or close is
decided, the bot is stopped and no start is left, or every event within a bound
has happened. There the cfg sets `CHECK_DEADLOCK FALSE`, and that the things
that must go on do go on is stated as liveness.

### Fairness

- `PositionClaims`: weak fairness of `Tick` (time passes), of the steps inside a
  sequence (an asyncio task goes on after each request, which has a timeout), and
  of `Retire` (main loop). Strong fairness of `CleanupExpired`: the main loop
  comes round to it again and again however many entries it tries in between. None
  for entries, reconciliations, fills, closes, crashes.
- `EntryRiskReservation`: signals keep arriving while a policy is in force, no
  step of an entry hangs, crashes come to an end, and a read that is tried again
  and again succeeds at some time, as does a pass that would release a given intent
  (strong fairness of `ReadOrder`, `ReadFlat` and `EndReconcile` for each
  intent, since locks, failures and a pass rolled back interrupt them).
  The code tries again at every signal and gives up on nothing for good, but a
  request that fails for ever, or an entry order of others that never goes away,
  keeps every reservation. Nothing is owed by policies, orders or positions:
  `SettledReleased` promises a release only while a policy stays in force and no
  entry order of others rests.
- `OrderFill`: the deadline passes and each later request is answered or
  fails. No poll need ever see the order, and the exchange owes nothing.
- `PositionClose`: the closing task runs on; every wait ends, which
  is `OrderFill!WaitEnds`.
- `OrphanCleanup`: the job runs to its end once started, and the scheduler starts
  it again (`Week`). The exchange, the bot and the failures owe nothing.
- `GridReference`: the coroutine goes on once it has begun to send, the heartbeat
  thread beats, and silence makes the row stale. No start and no advice is owed.
- `GridAlerts`: the loop of the process goes round (`System`), and the channel,
  tried again and again with a fact, takes it at some time (strong fairness of
  `SendRow(e, "ok")` for facts alone; a suggestion may lapse first). Crashes
  stop at their bound.

## 4. What is proved

TLAPS checks the following for every value of the constants that satisfies the
named assumptions of the modules.

| theorem | property | under |
| --- | --- | --- |
| `PositionClaimsProofs!TypeCorrect` | `TypeOK` | every fault |
| `PositionClaimsProofs!LeaseKept` | `LeaseHonoured` | every fault |
| `PositionClaimsProofs!Exclusion` | `MutualExclusion` | every fault, any lease, any lists (until the first mishap, which the property names) |
| `PositionClaimsProofs!Visibility` | `ExposureVisible` | the same |
| `PositionClaimsProofs!Refinement` | `ImplementsMutex` | the same |
| `PositionClaimsProofs!ReservedAlone` | two strategies that enter with reservations never have an order or a position in the symbol together | every fault, any lease, any lists |
| `PositionClaimsProofs!ReservedBlocks` | no rival's claim is granted while a reserving strategy has an order or a position | every fault, any lease, any lists |
| `EntryRiskProofs!TypeCorrect` | `TypeOK` | crashes and lost sessions included |
| `EntryRiskProofs!ExposureCovered` | `ExposureReserved` | the same |
| `EntryRiskProofs!OneIntent` | `OneIntentPerSymbol` | the same |
| `EntryRiskProofs!NoSecondPost` | `PostedOnce` | the same |
| `EntryRiskProofs!SlotsKept` | `SlotsHold` | finitely many symbols, the positions at the start fit |
| `EntryRiskProofs!CeilingKept` | `CeilingHolds` | finitely many symbols |
| `EntryRiskProofs!PolicyWhileLocked` | a request sent while its transaction holds the lock carries the policy in force | crashes and lost sessions included |
| `EntryRiskProofs!PolicyAtPost` | `PostedUnderItsPolicy` | the session lives as long as the request |
| `OrderFillProofs!TypeCorrect` | `TypeOK` | every fault |
| `OrderFillProofs!ResultTrue` | `ResultExact` | every fault |
| `OrderFillProofs!FillsAreKept` | `KnownFillsKept` | every fault |
| `OrderFillProofs!EntryTrue` | `EntryMatchesOrder` | every fault |
| `PositionCloseProofs!TypeCorrect` | `TypeOK` | every fault |
| `PositionCloseProofs!CountTrue` | `CountedIsDone` | every fault |
| `PositionCloseProofs!SuccessTrue` | `SuccessReached` | every fault |
| `PositionCloseProofs!GuardTrue` | `GuardKeepsPosition` | every fault |
| `PositionCloseProofs!NoOverClose` | `NeverOverCloses` | every fault, both callers and every stage (the property itself excepts orders of unknown result that have executed, and targets below a step) |
| `OrphanCleanupProofs!TypeCorrect` | `TypeOK` | whether or not the exchange answers |
| `OrphanCleanupProofs!RowsAreKept` | `RowsKept` | the same |
| `OrphanCleanupProofs!SparedUnlessBlind` | only a pass that acts on a stale state without an answer removes an order of the held position | the same |
| `OrphanCleanupProofs!HeldSpared` | `SparesHeld` | the exchange answers the question (`Blind = FALSE`) |
| `GridAlertsProofs!TypeCorrect` | `TypeOK` | any trades, references, answers and crashes |
| `GridAlertsProofs!BoundaryIsRecorded` | `BoundaryRecorded` | the same |
| `GridAlertsProofs!EscalationIsHeard` | `EscalationHeard` | the same |
| `GridAlertsProofs!DeadlineKept` | `AdviceDueAtPump` | any engine, any crashes, any time per row |
| `GridAlertsProofs!OutboxImplementsLedger` | `ImplementsLedger` | the same |
| `ProtectionOrdersProofs!TypeCorrect` | `TypeOK` | every fault, any restarts |
| `ProtectionOrdersProofs!Protected` | `FlagHonest` | the same |
| `ProtectionOrdersProofs!OneOnBook` | `OneLiveLeg` | the same |
| `ProtectionOrdersProofs!ProtectionImplementsBook` | `ImplementsBook` | the same (the book itself names the doubtful position) |
| `GridReferenceProofs!OnlyConfirmedCounts` | `CountsOnlyConfirmed` | every fault, any restarts |
| `GridReferenceProofs!NewestKept` | `NewestCounts` | the same |
| `GridReferenceProofs!GivenUpKept` | `GivenUpStays` | the same |

`GridReferenceProofs` also proves `TypeOK`.

`Exclusion`, `Visibility` and `Refinement` have no conditions on faults, lists or the
length of the window; what they do not promise is in the history `intact`. It is not
there for convenience: section 3 tells that no clause of it can be dropped.

**The argument for exclusion.** `MutualExclusion` says nothing about rows, so it
is not inductive. The invariant `IInv` has two parts. `KInv` holds whatever
happens: what a reservation guarantees (`RInv`, below), that there is at most
one row (`SingleRow`), and that a reservation lasts as long as its order is waited
for (`WaitReserved`). `Safe` holds until the first mishap and says why a rival
cannot get in: a strategy without reservation has an unexpired row as long as it
is in its window (`WindowHasRow`); a reserving one may lose it there, to its own
reconciliation or to time, and is then not `Sheltered`: `Reserve` will refuse it.
Whoever is sheltered and granted finds nobody else's record (`GrantedAlone`). Past
the window the open record takes over, and all open records have one owner
(`OrdersAwaited`, `PositionsKnown`, `EngagedRecorded`, `SingleAuthority`); so
only one strategy is engaged (`SoleEngagement`). Row and record overlap: the row
goes only after the record has been marked, and the record is marked only when
order and position are gone; when that mark or that release fails, more is left
than needed, which does no harm. The refinement follows: until the first mishap
engagement begins only from `holders = {}`, and one step ends at most one; after
it the abstract mutex is broken.

**The argument for reservations across strategies.** Record and lease can
be missed or lost, which is what the mishaps are. A reservation cannot: it is made
in one transaction with its row, refuses a symbol in which anybody has one
(`SoleReservation`), and ends only when no order and no position is left. So an
order or a position of a reserving strategy always has a sent reservation
(`ExposedReserved`) and the trigger's row (`ReservedRow`); `RInv` is inductive
under every fault, crashes and failed reads included. What it does not give is
exclusion against a rival without reservations that was admitted before the
reservation: that is `Exclusion`.

**The argument for reservations.** An order exists only for an intent marked
`submitting` (`OrdersMarked`); at most one worker carries an intent between the
mark and the POST, and it has not been posted (`SentOnce`); a reconciliation
holds the lock from its listing to its last release, and what it found final
stays final and retained (`ReconcileLocked`). Since a final order cannot fill
again, the symbol seen flat afterwards can only have been emptied, and the
release is safe. The lock is not needed for the first three properties, only the
per-intent states are. The policy of a post does depend on it: with the lock held
nobody activates a revision (`SendLocked`), so a request sent under the lock
carries the policy in force whatever happens to other sessions
(`PolicyWhileLocked`), and every request does if no session dies under one
(`PolicyAtPost`).

**The argument for the slots.** A worker counts positions on a snapshot it took
before its transaction, when more positions may have appeared since.
`SnapshotCovers` says why nothing is missed: each symbol that gained a position
since the snapshot is that of an intent not released, which the transaction
counts from its table. So symbols of the snapshot and symbols of intents together
cover what is held, their number bounds it, and an entry is admitted only
if that number leaves room.

**The argument for the ceiling.** The snapshot has the margin of the positions as
one number, summed before the transaction and without the lock. `HoldingsCover`
says what that number is still worth: it is the sum of what was held at the
snapshot (some `h`), and each symbol holds at most what `h` gives it, or in
addition the fill of one intent not released whose order is final (`Charged`). A
fill keeps this because its order was open, so by `OneIntentPerSymbol` no other
intent had filled there; a release keeps it because the symbol is flat. The
transaction counts the margin of every intent not released, hence of those that
have filled since (`SumCharged`) and of those that still may (`Pending`); the two
are disjoint (`SumUnion`). What may make the check too strict, a fill the snapshot
has already seen and the table still counts, does not make it unsafe. That the
number of symbols is finite is all that is assumed: intents may be infinitely
many, those not released are finitely many because each has a symbol of its own.

**The argument for the wait.** The properties speak of the end of the wait; the
invariant speaks of everything the task holds in between. Both what the polls
have confirmed and what the wait returns is a *view* of the order (`ViewOf`): it
claims no more than the order has filled, and if it names a final status it is
the order as it will stay. `ViewsLast` shows that no step of the exchange and no
cancel, which may come too late, turns a view into something else, because a
final order does not change and an open one only grows. The rest is bookkeeping:
nothing is returned early or by an exception, and `preserve_confirmed` never
returns less than was confirmed.

**The argument for the close.** Each close order has an identity of its own
(`Identities`: stage and round), so what a round counts is counted once, and
what is counted has been executed, an order still waited for on top (`Counted`).
A success is then a fact about executed quantities, which only grow
(`Successes`). `OneCall` bounds the sum of the rounds of one call by its target:
an order is sent for what is left after all earlier orders are final, whole
steps at a time. `before` is what had been executed when the call began, so the
bound holds for either stage of new_coin; their sum has none but twice the target.
A target below one step is rounded up in the code, hence the condition in
`NeverOverCloses`.

**The argument for the orphan job.** The job lists orders first and asks for the
position afterwards. Every order belongs to a position that was opened (`Owned`),
and a new position's orders are newer than the list; so once the exchange has
answered "flat", nothing on the list protects a position any more, and never
will (`Judged`). With the question before the list this would fail. A pass that
gets no answer acts only on a stale state, and that pass is the one exception
(`SparedUnlessBlind`; section 3 has the configuration).

**The argument for the outbox.** `OutboxInv` ties rows to events: a row has a
deadline exactly if its event is a suggestion; the rows the pump holds in its
hands were due when the pump began, that is `late` seconds ago; the row being
marked has been told if the channel said so. It holds for any engine, since nothing is assumed about the events a tick hands
over. Each step then is a step of the ledger (owed, told, given up) or a stutter.

**The argument for the engine of the alerts.** `BoundaryRecorded` and
`EscalationHeard` tie the memory of the engine to the tables, with a queue and two
commits in between. The invariant `AlertsInv` has the tie where it can be kept:
a runtime is *honest* about a set of events (`Honest`) if its boundary flag has
its event in the set, and a level of urgent an urgent event of its reference and
episode; the set is what lies in the table or still in the queue of the tick
(`EngineInv`). Every function of the engine takes a runtime honest about some
events to one that is honest about those and the ones it has just made
(`Follows`), one lemma per function; for the trades of a second it is an
induction over their number (`TradesFollow`). The interval is the delicate
place: it holds back an urgent alert only in an episode whose highest level is
urgent already, and the invariant says of such an episode that it has its event.
The rest is about the two commits: an event of the queue is recorded before it
leaves, and an event without a row is the one in hand, or the process has died.

**The argument for the handoff.** A row becomes SENT only from the advice whose
notification was confirmed, at `MarkSent` or when a later commit makes its
unfinished write visible (`Sending`, for `tx = "sent"`). Rows SENT later have later
numbers (`Ordered`, `Numbered`), because the bot is at the last number of its
session or, with a result not committed, one ahead of it (`Uncommitted`); so the
reader's order by session and number is the order in time. What was confirmed
and never marked came before every row of the running session (`Unsent`), since
after a failed mark the handoff is given up. And once it is given up no
heartbeat is left that could write (`Handoff`): the thread has been joined.

**The argument for the protective orders.** None of the four properties of
`ProtectionOrders` is inductive, and all rest on one invariant, `Inv`
(`ProtectionOrdersProofs`). It says what the process may be in the middle of
(`Phases`, `MainOne`: at most one clean-up belongs to the main process, and only
in "clean"); that a slot names an order of its record's position and leg, or a
stop in a record found at a start (`Slots`), and no order one of a later position
(`Entered`); that a clean-up, detached or not, works on a record that is empty,
and that what it holds, or what any empty record has in its slots, protects
nothing and belongs to no position that stands (`Dead`); how the quantity in
memory relates to the one on the exchange (`Amount`: it is never less unless a
close filled in part); that a flag
that is down has its orders (`Flag`); and that a leg about to be placed, or
missing, has no recorded order on the book (`One`).
`Dead` is what the refinement needs: a clean-up reads an identifier, waits for
the exchange, and the position it may withdraw an order from must not be the one
held by then. The next position has a record of its own, whose orders no earlier
clean-up can name. `Amount` is what `Dead` needs: a record is emptied only when
the position is, except after a partial fill counted as a full one. Then the sweep
before the close has taken the orders, or it failed and the position is
doubtful, the one case in which `Dead` and the book promise nothing. Each step of the process is then
shown to be one action of `OrderBook` or to leave the book alone (`StepIsSeen`).

**Induction.** Two proofs need induction over data: the trades of a second and
the summands of a sum. The induction theorems of the library take an operator as
a parameter and cannot be used; but both statements are about a *set* (the
numbers, or the subsets of a finite set, for which a first-order formula fails),
and `WFMin` gives a nonempty set a minimal member. `NatInductive` and
`LeastSubset` are the two forms; `EmitFacts` is a recursive function for that
reason.

**Only model-checked.** The liveness properties: `RowReclaimed`,
`ResidueOnlyByCrash`, `SettledReleased`, `WaitEnds`, `CloseEnds`,
`ConfirmedCounts`, `FactsDelivered`, `RestartsEnd` and `OrphansCleared`. They
rest on fairness, and so on ENABLED, which the prover does not reason about. Every
invariant, action property and refinement of the passing runs is proved.

## 5. Correspondence worth knowing

- *One step per transaction* is justified by the advisory locks: claims and
  reads of one symbol serialise on the symbol's lock, reservations on the
  account's. A step that the code splits over several statements without
  a lock (`release_claim`) is split in the model.
- *Swallowed failures.* Where the code logs an exception and goes on, the model
  has the disjunct that changes nothing, behind a fault name.
- *Reading and acting apart.* `CheckAuthority` and its successors keep no copy
  of what they read: the decision is the program counter, taken at the read.
- *`Boot`* adopts only a position whose latest open record is its own, or adopts
  nothing, as when protection is incomplete; an unadopted position is what
  `CloseUntracked` may find later.

## 6. Plan

Order: what can lose money or block trading first. Modelled and proved so far:
the symbol claims, the reservations, the order wait, the reduce-only close, the
protective orders of btc_eth, the orphan job, the grid handoff and the grid
alerts. Next:

1. Additions to a position and the rebuild of its orders in `ProtectionOrders`.
2. `EntryRecord`: the entry record with partial fills. `binance_api.py` marks a
   record CANCELED after -2011 without looking at the executed quantity, in
   contrast to its other path; composed with the visibility of `PositionClaims`.
3. `IdempotentWrite`: `_request_write`, its identities and its bounded retries.
4. `CapitalAllocation`: publication of monthly allocations and enforcement of a
   shrinking one, composed with `EntryRiskReservation!Allocate`.
5. `ConfigDeploy`: backup, change, version, restart and rollback with failures.
6. `CircuitBreaker`: cached missing index and cooldowns.
7. A composition `EntryProtocol` of claims and reservations, showing that
   `Claim`/`Unclaim` of `EntryRiskReservation` are what `PositionClaims` does.

Runs stay at instances of two or three actors.

## 7. Not modelled

- Signals, indicators, grading, scoring, sizing and the geometry of entries:
  real-number computation without shared state. This is most of the code of the
  strategies. `resolve_entry_quantity` and its rounding happen before the
  protocols begin.
- The legacy wait path of strategies without `place_and_wait_entry_order`.
- Protective orders of the strategies other than btc_eth, additions to a position
  and the rebuild of its orders, the stop in an extreme market.
- Partial fills while an entry is open in `PositionClaims` (plan 2); the delay
  with which the portfolio endpoint shows a position (the model reads the
  position as it is).
- Grid trading itself: its live path is switched off. Of the alert process the
  research rows, retention, maintenance and the queue audit.
- Capital allocation, circuit breaker, configuration deployment: plan 4 to 6.
- K-line services and collectors, evidence sinks, dashboard, backtests, scripts:
  input/output and presentation; no protocol state.
- LLM prompts, analysis and replay of the AI tuner: computation on data.
