# A formal model of the BTC options desk

The repository is a one-person desk that sells BTC options on Delta Exchange India:
a Fastify server (`src/app/server`) with the trading engine, a web client
(`src/app/web`), a data harvester, research scripts and deployment files. This
directory holds TLA+ models of the parts of the server that decide what is on the
exchange's book, TLC configurations that check them on small instances, and TLAPS
proofs of what matters most in all of them.

Paths below are relative to `src/app/server/src/`.

## 1. The system

| Part | State it keeps | Operations | Modelled by |
|---|---|---|---|
| desk lock, `db/desk-lock.ts` | a PostgreSQL advisory lock on a connection of its own; `held`, `lastOk` | try, look at the holder, end a silent holder, queue, heartbeat, lose | `DeskLock` |
| trade machine, `trading/machine.ts`, `types.ts` | `TradeState`: phase, fills, protection, the close that works | `applyEvent`, one case per event | `TradeMachine` |
| trading engine, `trading/engine.ts` | the trade's record in the journal; in memory deadlines, holds, leftovers, gave-up | `open`, `poll`, `protect`, `closeNow`, `cancelEntry`, `reconcile`, `recover`, sweeps | `TradeEngine` |
| simulated exchange, `trading/exchange/paper.ts` | orders, positions | `placeOrder`, `cancelOrder`, `editOrder`, look-ups, fills, reduce-only trimming | `Venue` |
| live adapter, `trading/exchange/delta.ts`, `delta/signed.ts` | product and rate caches | the same port over HTTP | not modelled; the answers it may give are the faults of `TradeEngine` |
| service, `trading/service.ts` | the loop, the accounts' engines, caches of prices | `step`, `close`, `closeAll`, `cancel`, gates | loop and requests, in `TradeEngine`; `closeAll` and `start`, in `TradingDay` |
| journal, `trading/store.ts` | one row per trade, with its events | `get` (a fresh copy), `save` (the whole row) | `trade`, `rec`, `opening.rec` of `TradeEngine` |
| session loss, `trading/session-loss.ts` | the day's lock and the breach in memory; hits in the database | look, lock, square off, write down, restore | `TradingDay` |
| stop watch, `trading/stop-watch.ts` | the list of stops, what was handed over, the contracts being checked | look at the board once a second, hand over a check | `StopWatch` |
| board, `market/delta.ts`, `delta-socket.ts` | the board in memory; the socket, when it was last heard, its timer and wait; the call in flight | REST poll, readers, socket open, message, close, a snapshot a second that drops a silent socket | `BoardFeed` |
| entry and underlying watch, `trading/entry-watch.ts`, `underlying-watch.ts` | lists of trades | queue a poll or an exit early | free choices of `TradeEngine` |
| schedule, `strategy/schedule.ts` | none | when an entry and an exit are due | `Schedule` |
| strategy runner, clock side, `strategy/runner.ts`, `store.ts` | the days claimed | exits, claim, one order a leg | `TradingDay` |
| strategy runner, signal side | the accounts' lines in memory; claims in the database | put in line, serve, claim, count, place, re-enter | `SignalLanes` |
| gates and order plan, `trading/precheck.ts`, `order-plan.ts`, `margin.ts` | none | arithmetic | a yes or no |
| signals, other market data, domain, reports, ledger, auth, HTTP, notifications, web | – | – | not modelled |

How they interact. The service's loop reads the open trades of the journal each
pass and asks the engine to poll every one of them; people ask through HTTP for a
close, a part close, a cancel or a reconcile; the strategy runner asks for `open` and,
at the exit time, for closes; the session guard asks for the square-off of an account;
the stop watch asks for a check of a trade beside the loop. None of these waits for
another: they share the journal, the account and the process's memory. Inside the
engine `withTrade` queues the jobs of one trade, so two of them never interleave,
with one exception: `open` does not take the queue. Every job reads the exchange
between its writes, and every call to the exchange may be refused, may go
unanswered after it took effect, or may come back with a list that misses an order.
Only the database survives a restart: the journal, the days and signals claimed, the
hits of the loss guard. Every write request to Delta
first asks whether this process holds the desk lock (`delta/signed.ts:161`).

What is hard: `await` points with the venue filling in between; answers that are
lost; a process that dies between sending an order and writing it down; one of two
exit orders failing; two processes at once during a hand-over. `PROJECT.json` lists
each such place with its line under `hazards`.

What makes each part correct:

- desk lock: never two desks trading; a run whose term is over never resumes; a live
  holder is not deposed; a dead one is.
- engine, bookkeeping: a fill is booked once and never lost; the record comes to
  hold what the account holds.
- engine, exits: one stop and one target at most; a held position is covered or an
  alarm is raised; a close goes out alone, ends, or the desk says that it gave up.
- engine, endings: `flat` and `aborted` trades hold nothing and leave no order.
- engine, entries: the size is sold once, and an entry with a time limit ends.
- trades on one contract: nobody takes off another's exits, or writes off what only
  one bad read misses, or takes another's gap for its own.
- a stop the desk judges: it acts if the offer stays; a close on the count is of an
  unbroken stop; two who look at once close once.
- a strategy's day: each leg sold once, no entry over yesterday's position but one whose
  close has just failed, a late exit still taken, whatever is edited or restarted.
- a stopped account: nothing passes its gates that day; what the square-off was to close
  and did not is named.
- signals: each sold once, the caps held, the longest timeframe first, and one
  account's slow exchange no other's.
- the board: no longer gap than the poll's when the socket is not heard, a lost socket
  remade, a settled contract gone.

## 2. Modules

| Module | What it is |
|---|---|
| `DeskLock` | the lock protocol of any number of processes, PostgreSQL, the network, and a clock |
| `DeskSeat` | the abstract specification of it: one seat, and terms that never resume |
| `DeskTerms` | `DeskLock` with a memory of who could write; `TermsInTurn` is `DeskSeat` under the mapping `desk <- Writer` |
| `TradeMachine` | the trade's record, one operator per event of `applyEvent`, `absorb`, `missingProtection` |
| `Venue` | the exchange: an operator per call, returning the state or the set of states after it |
| `TradeEngine` | the engine of one trade: EXTENDS `Venue`, which EXTENDS `TradeMachine` |
| `SharedContract` | several trades on one contract: `reconcile`, `protect`, `clearProtection` against each other |
| `StopWatch` | the watch on the board and the loop, both judging the same stops |
| `BoardFeed` | the board in memory under its two feeds |
| `Schedule` | `schedule.ts`: pure operators on moments |
| `TradingDay` | EXTENDS `Schedule`: the clock's strategy, `open`'s gates, the session guard, the square-off, restart |
| `SignalLanes` | the signal side of the runner: lines, turns, claims, caps, re-entries |
| `DeskLockProofs`, `TradeEngineProofs`, `SharedContractProofs`, `StopWatchProofs`, `BoardFeedProofs`, `TradingDayProofs`, `SignalLanesProofs` | the theorems |
| `Folding` | a lemma, `FoldTogether`, on what two folds over one finite set come to, step by step: taken by the proofs with their own operators for its constants |
| `MCDeskLock`, `MCTradeEngine`, `MCSharedContract`, `MCStopWatch`, `MCBoardFeed`, `MCTradingDay`, `MCSignalLanes` | what the runs name: values the `.cfg` cannot write |

A definition marked `Mutant` is a wrong version of the one after it, kept to show
that the properties notice: see section 6.

### DeskLock

`pc[p]` says where process `p` is in `takeDeskLock`; each statement of it is an
action (`TryLock`, `LookAtHolder`, `Terminate`, `Grant`, `ResetTimeout`,
`QueueTimeout`, `TakeHeld`). The heartbeat is three steps: sent, answered by the
server, read. They are apart because the code sets `lastOk` to the time it *reads*
the answer. `idle` is the server's own measure of the holder's silence
(`now() - state_change`), `age` the process's measure since `lastOk`. A process
outside `Steady` may stop anywhere: that it takes no step is a freeze, `CutOff` and
`Heal` are the network, `Exit` is a kill. The server ends sessions by FIN,
keepalive or `pg_terminate_backend`.

One unit of time is five seconds, which makes the code's constants 1 (heartbeat),
3 (fresh), 6 (stale) and 5 (keepalive, 10 s + 3 × 5 s). Ages stop counting at the first
value that no test can tell from larger ones, so time is finite without cutting any
behaviour.

`DeskSeat` has three steps: a run that never had the seat sits down; the one who has it
stands aside (its heartbeat is late, or it is gone); the last one sits down again, if
nobody has sat there since. `DeskTerms` maps the seat to `Writer`, the process for which
`deskLockOk()` is true, and its two history variables to the abstract ones.

### TradeEngine

One trade, sold to open, on one contract. The running job is a sequence `todo` of
stages; a stage is one exchange call (or one commit after which a crash makes a
difference) with the code up to the next. `Go` passes over the stages whose first
test in the code fails. `rec` is the record variable the job carries through the
function; `trade` is the row. `open` has its own copy, `opening.rec`, because the
code has. `mem` is what a restart forgets.

| Code | Actions |
|---|---|
| `open` | `OpenStart`, `OpenRefused`, `OpenPlace`, `OpenSubmitted`, `OpenAbsorb` |
| `pollInner` | `Poll`, then `LookEntry`, `LookLeg`, `CancelOverdue`, `EntryGone`, and by need the stages below |
| `marketFallback` | `PlaceFallback`, `FallbackSent` |
| `protect` | `ReadBook`, `SettleLeg` (target, then stop), `RecordProtection` |
| `clearProtection` | `ClearProtection` |
| `cancelSiblings` | `CancelSiblings` |
| `closeNowInner` | `Sync`, `Believe`, `CancelSiblings`, `SubmitClose`, `SendClose` |
| `followUpClose` | `FollowUp`, `FollowUpWaits` |
| `stopIfReached`, `underlyingExit` | `JudgeExits` |
| `reconcileInner` | `LookAgain`, `Recover`, `Sync`, `Believe`, `NeverLanded` |
| `cancelEntryInner` | `AskCancel`, `EntryGone` |
| `sweepLeftovers`, `sweepOrphans` | `SweepLeftovers`, `SweepOrphans` |
| `recover` after a restart | `Restart`, into the stages of `reconcile` |

Faults. Each costs one of `MaxFaults`, and a run names the kinds it allows in
`FaultKinds`. Of what goes wrong on the way through one leg of `protect` each kind costs one:

| Kind | What goes wrong |
|---|---|
| `read` | a read fails or is not answered in time |
| `nowhere` | a look-up by id says there is no such order, and there is |
| `list` | the list of open orders misses one |
| `reject` | the venue refuses an order |
| `empty` | a market order is accepted, then rejected by an empty book |
| `timeout` | no answer, whether or not the order landed |
| `cancel` | a cancel is refused or lost |
| `edit` | an edit is refused, for now (`VenueRestricted`: the order is kept, `trading/engine.ts:1947-1961`) or otherwise, or not answered and perhaps taken: then the order is cancelled, read back and replaced (`:1962-1990`), and each of these may fail too |
| `drop` | the venue takes a stop or target off by itself |
| `hand` | a contract is bought back in the exchange's own app |
| `crash` | the process restarts |

Without any fault the venue may still fill any order, in pieces, between any two steps,
trim reduce-only orders, and fill a market order in part.

Abstracted away, on purpose:

- prices. Whether an order is marketable, whether a stop is reached and whether the
  perp has passed a level are free choices; so is the stop's confirmation time.
- the poll's three look-ups run in parallel in the code; here one after the other,
  with the venue in between. The order in which they are used is the code's.
- inside `cancelSiblings` the look-up, cancel and reading back of both legs are one
  step, with every combination of answers in which at most one goes wrong.
- the price chase, adds, anchored exits, time steps, target churn and hold, contract
  restrictions, and the minute a target may be found nowhere.
- other trades on the same contract (they are `SharedContract`'s), and trades that buy
  to open.

### SharedContract

The trades of one contract; each sells its `Lots`, and has one exit where `TradeEngine` has
two, which fills in parts, so that a trade is its fills, a position and what rests of its
exit. `Absorbed` is what the order history says of a trade (`recoverFills`), `LookedUp`
what the orders on the record do: an exit that was replaced half-filled is no longer on
it, and `missed` counts what it had bought. A job is one
of a trade's queue and stops at each call to the exchange or the journal: `Reconcile`,
`ReadNet`, `CompareShare`, `Judge`, `LookAgain` are `reconcileInner` and `syncPosition`,
`ProtectReads` and `ProtectSettles` are `protect`, `ClearReads` and `ClearCancels` are
`clearProtection`. `start` is the restart's pass over the open trades: while it lasts
nothing else runs, and the exchange goes on filling. A bad read answers without the
contract.

### StopWatch

Trades of one contract; the offer moves freely, and the board in memory is whatever the
socket left or too old. `Tick` is the watch's second; `Check` is one trade of
`checkStops` in its queue; `PassReads`, `PassNotes`, `Poll`, `PassEnds` are the loop's
pass. `Judge` is `stopIfReached`: `since` is `stopSince`, counted in looks, and whether
the mark agrees (which closes at once) is a free choice. `unbroken` counts the same
seconds from what each look saw and is never read by the model of the code; the
property `UnbrokenLooks` compares the two.

### BoardFeed

Every age is in seconds and stops counting where nothing compares it any more, so time
has no horizon. `Second` is a second together with `snapshot()`, the handler of the
interval that ends it: the silence check, the prune, the batch. A second does not pass
while a timer is due or an answer overdue. `link` is the `socket` field: "none" is
`null`, "asked" and "open" are before and after `onopen`, and "hung" a connection whose
opening is never answered. `heard` and `asked` are the ages of `lastMessageAt` and
`openedAt`; as in the code, `heard` outlives the connection. `Fetch` is the shared call of
`fetchTickersFresh`, asked for by `Poll` or `Read` (`liveTickers`); its list is from when
it was sent or when it was answered, and an answer is the board and the socket's map.
Messages are under no obligation to come. `dark` and `quiet` are histories of the
properties: seconds off the socket with no call failed, and without a message.

### Schedule, TradingDay

A day has `Day` moments. A trade is a leg of a day. `PassBegins` … `Send` are one pass
of the runner over one daily strategy, stopped at every await; the strategy is read
when the pass begins and may be edited while it goes on. `Look` … `WriteHit` are the
guard's tick and `closeAll`, which run beside it. `open` is two steps after its record
is saved, the gates and the order, because the lock may fall in between. An entry may
fill in part, and its rest works on until the loop ends it (`EntryEnds`) or for good.
A close that fails (`FailedClose`) throws before its order is out, or returns with the position
on: `closeNowInner` catches every refused order (`trading/engine.ts:2798-2820`), and one that is
not answered, or fills in part, leaves the trade `exit_pending` ("closing"), which the
loop follows up. `considerExit` does not look at what came back; a throw ends it, and so does
the read of the open trades it begins with; the entry is considered in each case. The
square-off's list may fail too, which names `*` (all of `Trade` here) with nothing
closed. After `Crash`
the process is `"starting"` until `Restore`: the runner does not wait for it.
The history in it: `job.missed` (exits due that this pass did not make), `square.loose` (what the
square-off asked no close for) and `guard.blind`.

### SignalLanes

A turn is a signal (or its zone fill) or an exit that may be followed by a re-entry;
it is on its way in (`arriving`), then waits in the line of each account with a strategy
that takes it, then is worked through claim by claim, each claim split at the awaits of
`takeSignal` (`Claim`, `Count`, `Place`). A key says what a claim is for: the strategy,
the signal and, for a re-entry, the path of exits that led to it. Hours, prices, strikes
and gates are a free choice to skip or to refuse; trades from the ticket count for the
caps and are not held to them. With live orders off the runner places nothing and counts
"would sells" instead: that case is left out.

## 3. Runs

Deadlock is not checked in any run: a finished trade, and a lock whose processes have
all died, really stop.

| Run | Instance | Checks | States |
|---|---|---|---|
| `desk_lock` | 3 processes, one steady, answers read within 1 unit | `OneDesk`, `TermsInTurn`, `HolderNotDeposed`, `DeskComesBack` | 650,000 |
| `trade_faults` | 2 contracts, filled in pieces, 1 fault of 11 kinds | `TypeOK`, `OneOfEach`, `BookedIsReal`, `NeverForgets` | 730,000 |
| `trade_close` | 2 contracts, 1 fault of 5 kinds, closes and part closes, fallback, perp levels | `SentAlone`, `CloseRestsAlone`, `DoneIsDone`, `SoldOnce` | 0.4 M |
| `trade_live` | 1 contract, 2 faults of 4 kinds | `NeverQuietlyNaked`, `CatchesUp`, `EntryGivesUp` | 24,000 |
| `trade_live_lost` | 1 contract, 1 fault of 8 kinds, crash and lost answers among them | `NeverQuietlyNaked`, `ExitsComeOff`, `CloseFinishes`, `DoneIsDone` | 20,000 |
| `signal_lanes` | 2 signals, 3 strategies, 2 accounts, 3 turns, 1 crash, failed read or switch | `TypeOK`, `CapsHeld`, `NeverMultiply`, `SoldOnce`, `LongestFirst`, `OwnLine` | 980,000 |
| `shared_contract` | 2 trades, of 3 contracts and of 1; 2 bad or failed reads or hand purchases, 1 crash | `TypeOK`, `WrittenOffFlat`, `SiblingsLeftAlone`, `StartKeepsShares` | 2.0 M |
| `trading_day` | 2 days of 3 moments, overnight, 3 upsets (an edit, a crash, a failed call) | `StopLeavesNothing`, `StopHolds`, `SentOnce`, `NewDayAfterOld`, `LateNotNever` | 1.9 M |
| `stop_watch` | 2 trades, offers 0–2, 1 trouble | `ClosedOnce`, `UnbrokenLooks`, `StopActs` | 920,000 |
| `board_feed` | 2 contracts, one settles; times 3 (stale), 2 (poll), 3 (reader), 4 (prune), wait up to 4, calls up to 3, 2 faults | `NoLongGap`, `DelistedGoes`, `SocketComesBack` | 1.1 M |
| `trade_cancel`, `stopped_day` | as small as shows it | one property each | violated |

The type invariants of `DeskLock`, `TradingDay` and `BoardFeed` are proved for every
instance (section 7) and not checked again on one.

### Bounds

- `Requested` is 1 or 2 contracts. Two are enough for every comparison the code makes
  of sizes: part of the entry filled, part of the position closed, an exit for more
  than is held. One is used where liveness is checked.
- `MaxMarks` bounds how often protection is written in the journal (its count numbers
  the orders); `protect` runs while there is room for what may follow it. `MaxExits`
  bounds the closes sent; the code's own `MAX_CLOSE_TRIES` is 2 here, so that the
  giving up is reached.
- `MaxFaults` is 1 or 2 (0 in `trade_cancel`). The hazards of this code are one failure at a bad
  moment; what follows a second one in the same leg of `protect`, such as an edit refused and then the
  cancel or the new order too, is in the proof of `OneOfEachRests`, which bounds no number of them;
  which single faults each property survives is in section 5.
- `Overlap = FALSE` in the passing runs: no other job of the trade runs before `open`
  has returned. The code does not guarantee it; section 4 shows what happens.
- `SharedContract`: a trade of three contracts, so that its exit fills, is replaced and
  fills again with something left, beside one of one contract, whose position is what an
  exit too large can reach. The constraint `FewFaults` stops behind the second record
  written over (the properties speak of none written before) and takes two of the hand
  purchase and the reads gone wrong. Two bad reads are what it takes to write a trade off.
- `StopWatch`: two trades of one contract, one with a backstop and one without, so a
  check of both, either and none, with the levels under, at and past a stop. `Confirm`
  is 1: one look longer than at once. One `MaxTrouble` for a refused close, a quote that
  is not answered and a restart.
- `BoardFeed`: the times keep the order that matters in the code (poll below silence,
  silence below prune, an opening below silence) and a REST call may outlast the poll's
  interval, as five tries of 30 s may, so that turns of the poll meet a call in flight.
  Two faults make the wait double and reach its cap. `Contract` without `Mortal` is not
  empty: Delta always lists something.
- `TradingDay`: three moments a day, an entry in the last of one day whose exit is the
  second of the next, so that the second day's entry meets the first day's position past
  its exit; the edits go to midnight and back. `MaxUpsets` is one bound for all that upsets the day, and
  3 of them in any mixture: a close that fails at the exit, another at the square-off and a
  crash between; a list that fails on a day whose hit is not written, and a crash; an edit back and
  forth with a failed read. One leg is enough for what a pass does with two: a failed
  close beside one that is made needs two positions, and yesterday's and today's are two. A moment does not pass while a pass of the runner is under way (`Advance`), as a
  pass takes seconds and a moment stands for hours; the square-off has no such limit.
- `SignalLanes`: three turns are an entry's exit, its re-entry's exit and a signal
  beside them, or three signals at once; two accounts, one that may never answer.
  Caps are just above what one exit opens, so that each of the three caps is met.

### Fairness

`DeskLock`: the clock goes on; a steady process and the server's answers to it do;
the server's grant is strongly fair, as PostgreSQL's lock queue is in order. Nothing is
asked of the other processes. `TradeEngine`: a running job goes on and `open` returns
(every call to the exchange has a time limit), time passes, and the loop comes round:
`step` (`trading/service.ts:621-662`) polls every open trade and sweeps each pass, and
each gets its turn in the trade's queue, hence strong fairness of `Poll`,
`SweepLeftovers` and `SweepOrphans`. `FollowUp` is strongly fair against
`FollowUpWaits`: a close is not read as "still working" for ever. The market and the
people are under no obligation at all.

`SignalLanes`: the database answers, so a turn joins its lines; an account's calls are
answered only for the accounts in `Answering`. `OwnLine` is about those, and holds
whatever the others do. `TradingDay`: only the runner is fair (an interval that is never
cleared, calls that end): `LateNotNever` needs neither the loop nor the guard.
`StopWatch`: the watch's interval, the loop's, the calls of both, and that a board that
differs from the market is refreshed or becomes old. `BoardFeed`: seconds pass, timers run,
REST calls are answered, and an opening that is not hung is; no message need ever come.

## 4. Where the code and its own comments disagree

Two are runs that TLC finds violated, and entries of `findings` with the line quoted.

1. `trade_cancel`: an entry that filled since the last poll is cancelled. It is neither
   open nor partial, so its fill is not absorbed, and the trade becomes `aborted`
   ("never held a position") while the account is short.
2. `stopped_day`: "a day already stopped stays stopped across a restart". The guard
   reads its hit back after `recover()`, and the runner and the screen wait for neither.

Ten more are shown by properties of the modules under constants that no run of
`PROJECT.json` has. Those of `TradeEngine` take the constants of `MCTradeCancel.cfg` with these
instead, `SoldOnce` those of `MCTradeClose.cfg`, `GapIsItsOwn` and `NeverOverbought` those of `MCSharedContract.cfg`, `SilenceIsCovered` the code's own
times:

| Property violated | Constants | What happens |
|---|---|---|
| `SquaredOff` | `Requested = 2`, `PartialEntry = TRUE`, `Asked = {"close"}` | "pull every working order" (`trading/service.ts:753`) leaves the rest of a part-filled entry on the book after the trade is flat |
| `ReadFirst` | `Asked = {"close"}`, `FaultKinds = {"timeout"}`, `MaxFaults = 1` | after a lost answer to a close, `protect` puts a stop beside it before the close is read (`trading/engine.ts:2799-2802`) |
| `NothingAtRisk` | `Asked = {}`, `FaultKinds = {"timeout", "read"}`, `MaxFaults = 2` | a look-up that fails counts as "it never landed" (`trading/engine.ts:3077`, `:3098`) |
| `NeverForgets` | `Asked = {}`, `Overlap = TRUE` | `open` is outside the queue that "serialises everything that touches one trade" (`:858`) and overwrites a fill that a poll booked |
| `SoldOnce` | `PartialEntry = TRUE` or `MarketEntry = TRUE`, `Asked = {}`, `FaultKinds = {}`, `MaxFaults = 0` | "wait this long for the offer to be taken, then cross and pay the spread" (`trading/engine.ts:45-46`): an entry is taken in part, its target buys that part back, and the poll that reads both finds the rest's time up. `position === 0` (`:1622`) also holds of a trade that has been in and out, and `marketFallback` (`:1694`) sells the plan's whole size, not what is left |
| `SentAlone` | `Requested = 3`, `PartialEntry = TRUE`, `Signal = TRUE`, `Asked = {"close", "part"}`, `FaultKinds = {}`, `MaxFaults = 0` | "the other exit goes, as the poll takes it off after any exit's fill" (`:2029-2030`): `protect` places a new target (`:2017`), then finds the recorded stop filled and returns with what it learned (`:2056`), and the new target is on no record. The close takes off the orders the record names (`:2765`) and is sent with that target resting |
| `DoneIsDone` | `WantsStop = FALSE`, `WantsTarget = FALSE`, `Timeout = TRUE`, `Fallback = TRUE`, `FaultKinds = {}`, `MaxFaults = 0` | the cancelled entry makes the phase `aborted` (`trading/machine.ts:202`), the market order of the fallback fills (`trading/engine.ts:1683-1713`), and a fill does not leave `aborted`; with neither a stop nor a target wanted `protect` only clears (`:1766-1782`) and sets no phase, so the trade reads as one that never held a position while it is short |
| `GapIsItsOwn` | `Buttons = {}`, `MaxCrash = 1`, every other bound 0 | "a gap is only this trade's to write down when it cannot be anyone else's" (`trading/engine.ts:3169`): `syncPosition` works the share out once (`:3174`), before it reads the fills. An exit that fills before the position is read and again after it leaves a number that is neither, and the record, which the fills explain, is written over with it |
| `NeverOverbought` | `Buttons = {}`, every other bound 0 | an exit is "sized from what we actually hold" (`trading/engine.ts:1735-1736`): `protect` sizes it from the record, before it reads the book. An exit found half-filled there cannot be edited, so it is cancelled and one for the size booked before is placed (`:1934`, `:1983`); a sibling's position lets it buy more than its trade holds |
| `SilenceIsCovered` | `Contract` of one, `Mortal = {}`, `Stale = 20`, `PollEvery = 8`, `Ttl = 15`, `Prune = 900`, `BackoffMax = 30`, `Reply = 1`, `Handshake = 1`, `MaxFaults = 0`, `MaxQuiet = 60` | with no message for 20 s "the REST poll takes over until it is back" (`market/delta-socket.ts:31-32`): `onopen` counts as a message (`:247`), so a socket that opens and stays silent is fresh again for 20 s after every reopening, and the poll, with a second or two in between, mostly stands down; a reader of the board has it fetched after 15 s, the stop watch reads it without fetching |

One that needs no model: `trading/engine.ts:2532` says the offer must hold "for fifteen
seconds running"; `STOP_CONFIRM_MS` is 3 000 (`:627`).

## 5. What the runs show, and what they need

- `OneDesk` needs the assumption `SafeTiming`: an answer is read soon after it was
  written (`Fresh + ReplyDelay` at most `Stale`, and under `Keep`), and a holder found silent does not
  wake up between that look and the end of its session. The second is a real gap of
  the code (`db/desk-lock.ts:101-103`: the silence is not checked again); with
  `ThawInTakeover = TRUE` two desks can trade for a moment.
- `BookedIsReal`, `OneOfEach` and `NeverForgets` survive every single fault. The first and
  the last are proved for any number of them, `OneOfEach` for any number of every kind but one: a
  list of open orders that misses an exit, and then another fault, can put a second beside it. An
  edit refused, or taken and not answered, is among the rest: the order it was about is
  cancelled and read back before another is placed.
- `DoneIsDone` survives a missed listing, a refusal, a lost edit, a dropped exit and a
  contract bought by hand. It does not survive a failed read, a refused cancel, or an
  order rejected by an empty book (a rejected exit is absorbed as `entry_rejected`,
  `engine.ts:1255`), nor a cut of a part-filled entry (section 4), so those are left
  out of its runs; `trade_live_lost` keeps it under lost answers, hand closes and a crash.
- `SentAlone` and `CloseRestsAlone` do not survive failed reads, refused cancels, lost
  answers and crashes: an exit that could not be confirmed off does not stop a close. Nor
  does `SentAlone` survive a part-filled entry of three contracts (section 4), or a missed
  listing followed by a dropped exit.
- `SoldOnce` does not survive a refused cancel followed by the market fallback
  (`engine.ts:1616`), a failed read after the cancel (`:1618`, taken for nothing filled),
  or an entry taken in part (section 4). Where none of these happens it is proved, under
  the rest of the faults (section 7).
- `EntryGivesUp` does not survive a crash: the time limit is in memory only
  (`engine.ts:834`).
- `NeverQuietlyNaked`, `ExitsComeOff` and `CloseFinishes` hold with lost answers and a
  crash.
- `TermsInTurn` needs what `OneDesk` needs.
- `WrittenOffFlat` and `StartKeepsShares` are weaker than the comments they come from.
  `WrittenOffFlat` takes one bad read for a trade whose entry filled after the position was
  read, two for any other. `StartKeepsShares` takes any number the trade's fills came to
  since the job began. Both leave out anything behind a record already written over,
  contracts bought by hand, and trades that bought more than they sold (`NeverOverbought`);
  `GapIsItsOwn` (section 4) is what remains between them and the comment.
  `SiblingsLeftAlone` has no such condition.
- `StopHolds` speaks of a process that has read its hit back; finding 2 is the rest. It
  is about gates, not orders: an entry past its gates when the lock falls still goes
  out.
- `StopLeavesNothing` holds a finished square-off to naming what is left at the exchange of what it
  was to close: a close refused, lost or filled in part, and everything when the open trades could not be
  listed. It does not say that nothing is left. Three things are left unnamed, for no
  close was asked for them: an entry on its way past the gates when the trades were
  listed, or listed flat on the record and filled since (it is held then, with its exits, and not
  closed); the rest of an entry filled in part, which works on behind the close (`trading/service.ts:771`
  pulls only what is flat on the record; `SquaredOff` in section 4); and a trade over on the record that
  the exchange still has something of (`trade_cancel`). Nor is a locked account squared off again
  (`trading/session-loss.ts:209`), whatever failed.
- `NewDayAfterOld` leaves out a position whose exit failed in the very pass that sends the entry:
  refused, lost or filled in part without a word to `considerExit`, thrown at, behind one thrown
  at, or not read at all (`strategy/runner.ts:301-307`). The entry is considered all the same
  (`:235-236`), so then two days' positions are on at once. What it does promise is that no
  other order goes out over such a position: no claim of an older pass, no edit, no restart. That a
  failed exit is tried again in the next passes is `LateNotNever`.
- `StopActs` holds with the watch standing down: the loop alone judges, and a board too
  old makes it ask Delta.
- `NoLongGap` counts from the last failed call and the last time the socket was fresh;
  `SilenceIsCovered` (section 4) is what it leaves out. Its bound is the poll's interval and two calls: a
  turn may find a call in flight whose list is as old as the call.
- `CapsHeld` is about the strategies' trades. An account's cap of 0 is no cap, as in the code
  (`strategy/runner.ts:764`, `:778`). A trade from the ticket between the count
  and the order takes the account past its cap; the code does not say otherwise.
- `LongestFirst` is about a line that begins a turn; a turn under way is not overtaken.

## 6. Mutants

Every property of a passing run has a mutant in `PROJECT.json`: a definition of the
model, mapped to the code, and a wrong form of it that the property rejects – a fill
booked at every reading, a close that takes only the target off, an entry not read
back after its cancel, a leg that stays on the record when it is gone, and so on.

## 7. Proofs

Checked by TLAPS, for every value of the constants that meets the named assumptions
(`ProcAssumption`, `TimeAssumption`, `PlanAssumption`, `EngineAssumption`, `LaneAssumption`, `DayAssumption`,
`ScheduleAssumption`, `WatchAssumption`, `ContractAssumption`, `FeedAssumption`,
`NoneAssumption`), hence for any number of processes, trades, strategies, accounts, days,
contracts, faults and restarts:

| Theorem | Statement |
|---|---|
| `DeskLockProofs!DeskLockTypeCorrect` | `Spec => []TypeOK` |
| `DeskLockProofs!LockInvariant`, `OneDeskTrades` | `SafeTiming` gives `Spec => []LockInv`, `Spec => []OneDesk` |
| `DeskLockProofs!LockIsOneSeat` | `SafeTiming` gives `TermSpec => TermsInTurn`: the lock implements `DeskSeat` |
| `DeskLockProofs!SteadyHolderStays` | `BeatsInTime` gives `Spec => HolderNotDeposed` |
| `TradeEngineProofs!NoFillBookedTwice` | `Spec => []BookedIsReal` |
| `TradeEngineProofs!NoFillForgotten` | `~Overlap` gives `Spec => NeverForgets` |
| `TradeEngineProofs!SoldOnlyOnce` | `OneSale` gives `Spec => []SoldOnce` |
| `TradeEngineProofs!OneOfEachRests` | `"list" \notin FaultKinds` gives `Spec => []OneOfEach` |
| `TradeEngineProofs!EngineTypeCorrect` | `MaxExits <= MaxMarks` gives `Spec => []TypeOK` |
| `SharedContractProofs!RecordsWellFormed`, `NotWrittenOffByOneRead`, `StartWritesOwnFills`, `ExitsOfSiblingsStay` | `Spec => []TypeOK`, `Spec => WrittenOffFlat`, `Spec => StartKeepsShares`, `Spec => SiblingsLeftAlone` |
| `StopWatchProofs!NeverClosedTwice`, `CountedLooksUnbroken` | `Spec => []ClosedOnce`, `Spec => UnbrokenLooks` |
| `BoardFeedProofs!FeedTypeOK`, `SettledLeave`, `PollFillsTheGap` | `Spec => []TypeOK`, `Spec => DelistedGoes`, `Spec => []NoLongGap` |
| `TradingDayProofs!DayIsWellFormed`, `SoldOncePerDay`, `NothingPassesAfterStop` | `Spec => []TypeOK`, `Spec => SentOnce`, `Spec => StopHolds` |
| `TradingDayProofs!ExitsBeforeEntries`, `SquareOffNamesTheRest` | `Spec => NewDayAfterOld`, `Spec => []StopLeavesNothing` |
| `TradingDayProofs!FirstExitAfterOpening` | `ExitMomentFor` is the first exit time after a position opened, for any length of day |
| `SignalLanesProofs!LanesWellFormed`, `CapsAreHeld`, `TradesNeverMultiply` | `Spec => []TypeOK`, `Spec => []CapsHeld`, `Spec => []NeverMultiply` |
| `SignalLanesProofs!NeverSoldTwice`, `LongestComesFirst` | `Spec => SoldOnce`, `Spec => LongestFirst` |

What is assumed beside the types of the constants, and why the code justifies it.
`SafeTiming` and its exception are in section 5. `BeatsInTime` says that a heartbeat is
due while the last answer still counts and that its answer is read before the holder looks
silent: the code has 5 s, 15 s and 30 s (`db/desk-lock.ts:30-34`), and an answer later
than 25 s is what a `Steady` process by definition does not have. `~Overlap` is section
4's exception. `OneSale` asks of a plan that has both
a time limit and the market fallback that its entry is not filled in part and that its
cancel and the reading after it do not fail. Each part is needed: without it TLC finds
`SoldOnce` violated (`MCTradeClose.cfg` with `Asked = {}` and, in turn, `PartialEntry`,
`MarketEntry`, `FaultKinds = {"cancel"}`, `{"read"}`). Of a plan without the two together it asks
nothing: such a plan has one entry order, through every fault and restart. `"list" \notin
FaultKinds` is `OneOfEach`'s exception in section 5: of the eleven kinds of fault it leaves one out, and
bounds none of the others. `MaxExits <= MaxMarks` relates two bounds of the model, neither of which
the code has: the journal has room for the protection event that each exit may bring. Every
instance has it. `PlanAssumption`
and the others give sets, naturals and functions their types. `NoneAssumption` says that
"no batch" and "no list" are not a batch or a list.

The arguments.

- Desk lock. `OneDesk` is not inductive: it says nothing of the server. `LockInv` adds
  what is needed. `SessionInv`: the owner has a live session, and a process that believes
  it has the lock has it while its session lives. `FreshInv`: a process still fresh owns
  the lock, and its session has been silent, or cut, for no longer than its age plus
  `ReplyDelay`. `AnswerInv`: the same of an answer still on the wire. `VictimInv`: a
  session about to be ended is still silent or is gone. So when `Terminate` or the
  keepalive ends the owner's session, silence is over `Stale` (or the cut at least
  `Keep`), and `SafeTiming` makes the owner's age over `Fresh`: it no longer passes its own
  check before another process can.
- Refinement. On top of `LockInv`, `TermInv` ties the history to the protocol: whoever
  has had the desk is past the taking (held, lost or dead), and the owner that holds is
  the last one. A step that makes a process the writer is then either its first term, and
  nobody else writes, or it is the last writer that reads a heartbeat; every other step
  maps to a stutter or to the holder standing aside.
- Steady holder. `SteadyInv`: the silence of a `Steady` owner's session is bounded by its
  age, a heartbeat's length at most, and `ReplyDelay`, or by the age of the answer on its
  way. Both are under `Stale`, so nobody picks it as a victim.
- Trade engine, fills. `BooksInv`: each of the three copies of the record (the row, the
  job's `rec`, the opening's) books only what the exchange holds for it. The exchange's
  fills only grow, so every call keeps it, and a job that goes on with a copy read before
  an await is still backed. What `recoverFills` adds up over the orders found is two folds
  over one set, compared by `FoldTogether`. `NoFillForgotten` needs one job at a time
  (`OneRecord`: what a job has in hand is the row, or the row and what the job itself
  learned), which is what `~Overlap` says.
- Trade engine, one sale. That the two entries together sell at most the plan's size is about
  the venue; that the second is sent only over a first that sold nothing is about what a
  job knew when it sent it, several reads and saves earlier. `Inv` joins the two. `SaleInv`:
  the market entry is known to the venue only once the entry is `WrittenOff` (over, with nothing sold),
  and a job at `fallback` still stands over such an entry. `UnsoldInv`: while
  neither entry has sold anything the venue holds nothing and every copy of the record
  is `Blank`, so a position of 0 after the entry's cancel means that nothing was sold, and no exit
  can turn a position over. `JobInv`: the stages of a job come in the code's order
  (`Follows`), so that a job in hand can be cut anywhere and what is known of its next stage
  follows. `CopiesFine`: no copy takes an entry for an exit. Of `Sales` the step that matters
  is `EntryGone`, where `FoundIsHeld` turns a fill found late into a position.
- Trade engine, one of each. That one stop rests is about what the list of open orders had when
  `protect()` read it, a leg and several awaits earlier. `OneInv` keeps what is known
  between the steps. `CopiesProper`: every copy of the record names in each place an order of that
  kind, and its sizes are its fills, summed. `JobProper`: the stages of a job come in the code's order,
  and what the code has checked before a stage is still so when the job gets to it (there is a
  position behind `protect`, a close behind `send`). `BookRead`: what rests of a leg not yet
  settled was read. `Right` says of a leg of `protect()` that it touches only orders of its
  own kind and leaves one of them resting at most: the one moved, the one kept, or one placed after the
  others were found gone, which is why a missed listing is left out. After an edit that was refused, or
  not answered and perhaps taken, `Replacing` starts from either book, and `DespiteRight` says that what
  failed before does not change what a leg leaves. Each step of a job is shown to
  `Act`: to go on, or begin, with a proper record and a read that fits the venue, or stop.
- Trade engine, types. That a size stays within twice the plan follows from no single step: a
  stop resized after a fill may fill too, and a restart adds up whatever it finds. `Accounts` is
  the venue's book: each entry is for the plan's size and fills no more, the position is never turned
  over, and what was bought in all is what was sold and is not held, or less. `Proper` carries that to
  the record: what is booked is at most what was filled (`BooksInv`), and sums compare
  as their terms do. `Spare` is the room for the protection events still to come.
- Signal lanes, orders. `ClaimInv`: what is open or has closed was claimed. `WorkAt`: between
  its claim and its order a line's key is claimed and not sold, so no other line can place
  it. `RoomAt`: what a line has counted can since only have shrunk, for the strategies'
  trades of an account are placed by its own line alone. `CapsAt` follows.
- Signal lanes, turns. `WorkInv`: every turn still to come is about a signal or a closed
  trade and has its own place in the line, and what is left of it are keys of its own
  item. That the recursive `Work` yields only such keys is shown by its least
  counterexample. Places being different, the longest of the line is one turn
  (`OneWins`), which is `LongestFirst`.
- Signal lanes, families. `FamilyInv`: a key names the exits it came from, and each of
  those trades is gone, with one key for each place. So a re-entry that is open has no
  ancestor and no descendant that is, and the open trades of a signal map one to one into its
  entries (`FamilyIsSmall`): `NeverMultiply`.
- Trading day. `OnceInv`: a record is of a claimed day, and what a pass has still to sell
  is of a claimed day and not on record, so `Opens` always finds "none". For the stop,
  `LockInv` keeps the guard's lock at the day of any square-off or hit that was read.
  `DueInv`: an exit that is due is one the pass has still to get to, or one it `missed`, which the
  pass carries through the claim and the gates to its last order; a position opened during the
  pass is not due at once, by `FirstExitAfterOpening`, and one whose close is lost keeps its time.
  `BookInv`: what is on the book or sold is on record, and not what the pass has on hand.
  `LeftInv`: from the listing on, what rests or is sold is loose, named, or
  still to close; a close that leaves the position on names it, and behind the lock no pass
  gets an order on its way that was not at the listing.
- Stop watch. `CloseInv`: a trade is being closed only while it holds, and one that
  holds has had no close taken. `CountInv`: the engine's count is never ahead of what the
  looks have seen, through every `Tick`, look, close and restart.
- Board. `SettledBefore`: what is held of a settled contract, and a list on its way that
  names it, are at most a call older than the settlement. `DirtyIsNew`: a batch is handed
  on only with something just heard, so what is handed on is never empty and never
  the old board again. `SecondKeeps` is the step in which both meet the prune. For the
  gap, `TurnAnswered` and `CallOverBoard` hold the age of the board against the poll's
  clock and the call on its way: a turn of the poll in the dark has a call under way, and
  one that went out well into the dark found the board of the turn before it.
- Shared contract. `BooksInv` and `CleanInv`: a record never books more than the exchange
  filled, and until reconcile has written one over, each is what its own fills come to. `FlatInv`: a job that
  goes by a read that says flat doubts it and looks again, or is right, unless a read missed
  the contract or the fills had stopped explaining the position. `StartInv`: while
  recover() runs there is one job, so what it has read of the siblings is still true when
  it writes. The sums over siblings are folds (`FoldTogether`). For the exits, what is left
  over for one trade never belongs to an open sibling (`LeftoversSpareSiblings`), so an
  open trade's exit leaves by its own job, a fill, or the exchange.

What stays with TLC, and why.

- All liveness (`DeskComesBack`, `OwnLine`, `LateNotNever`, `StopActs`, `SocketComesBack`,
  `CatchesUp` and the rest of section 3) and ENABLED: the prover has no rules for them that
  reach TLC's fairness conditions.
- Of `TradeEngine`, `SentAlone`, `CloseRestsAlone` and `DoneIsDone`. They hold only without the
  faults section 5 names, or for one fault at a time, so an invariant of each would
  follow every continuation of every job around the faults that remain.
- Induction over data: the library's induction theorems cannot be used here.
  `FoldTogether` and the least counterexamples above take their place where a recursive
  function or a fold had to be reasoned about; what such a function computes is
  otherwise left to TLC. No module has a RECURSIVE operator.

## 8. Not modelled

- Of the modelled parts: adds and anchored exits of a trade, the price chase, time steps,
  target churn and hold, bought (long) trades, the mode switch, the entry and underlying
  watches as modules of their own (they only make a poll come earlier), paper
  would-sells, exit steps, and two daily strategies at once (they share no state but the
  caps, which the clock's side does not read).
- `TradeEngine` as a refinement of a smaller lifecycle: `DoneIsDone`, `BookedIsReal` and
  `NeverForgets` state directly what such a specification would, and hold only without
  the faults section 5 names, so the implementation would be of a specification with the
  same exceptions.
- Gates, margins, money, indicators, probabilities, strike selection, backtests and
  reports. They are pure functions over reals, covered by the repository's unit tests, and
  outside what TLC can enumerate. They, the HTTP routes and the web client are most of
  the repository's lines, which is why the models cover a small share of them.
- Of market data: spot, candles, the chain and the flow read-outs, each a cache of one
  answer; `stop()` of the socket, which only the end of the process calls. The quotes on
  the board are not in `BoardFeed`, only their age.
- Authentication, settings, notifications, logs, the documentation generator, the
  harvester and the research scripts: no trade depends on their state.
