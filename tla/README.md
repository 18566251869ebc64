# Verification of SolTrade

TLA+ models of SolTrade (`src/`), a Solana trading bot: a deterministic per-bar
trading engine, a polling loop that drives it against a wallet or simulated
books, a ledger in SQLite, and a pipeline that promotes strategies from
backtest to paper to live. The models follow the Python source; TLC checks
them on small instances; TLAPS proves the properties of the backtest, the polled books,
the live loop, the swap, the RPC budget, the strategy specs, the candle store, the
sentiment recorder, the held-out period and the pipeline for every value of their
constants.
`PROJECT.json` maps every definition to the lines it models.

## The system

One process runs the bot: a daemon thread (`trading.start_trading`) repeats a
*cycle* (`perform_analysis`), the main thread shows a dashboard. Command-line
processes (`cli.py`) run beside it and share its two stores: `data/research.db`
and `config.json`. Nothing else coordinates them.

| Component | Source | State | Operations | What makes it correct |
|---|---|---|---|---|
| Engine | `engine.py` | per symbol: position, one queued action, newest bar; the book's cash | `on_open`, `on_low`, `on_close`, open/close/reduce | no look-ahead, stops honoured, accounts that add up |
| Backtest | `backtest.py` | a fresh book over stored bars | `simulate` | the engine's properties over whole histories |
| Live loop | `trading.py` | balance cache, last prices, the loaded book | cycle, dust sweep, `run_symbol`, `LiveExecutor` | tokens bought stay known and protected; a signal acts once |
| Simulated books | `trading.py`, `promotion.py` | book in memory, positions row, cash in the meta row | `_run_paper_books`, `record_paper_cycle`, dry run | polling gives the backtest's trades |
| Ledger | `ledger.py` | positions, books, fills, trades, settings | load/save of state and meta, appends | what is stored explains what is held |
| Governor | `promotion.py` | drawdown peak, `paused` | `check_kill_switch`, `resume`, demotions | flat and paused after a drawdown |
| Pipeline | `promotion.py`, `cli.py` | candidates, transitions | record, promote, approve, demote, reopen, govern, advance | legal transitions, evidence before real money, limits, config in step |
| Swap | `transactions.py`, `jupiter.py` | the wallet on chain | order, execute, retries, reconciliation | one swap per request, reported iff it landed |
| Config | `config.py` | config in memory, `config.json` | hot reload, token change guard | no held token is dropped |
| Candles | `history.py`, `data_source.py` | candle store | two-range update, paging, `window` | no bar missing inside the series |
| RPC budget | `rpc.py` | token bucket, daily counter | reserve, check, record | the rate kept, overspending bounded, swaps exempt |
| Specs, indicators | `spec.py`, `indicators.py` | none (a compiled strategy) | resolve, compile, run | exact warm-ups, refusal of what cannot run |
| Evaluation | `evaluation.py` | the stored held-out result | split, backtest, held-out check | no bar selected on decides |
| Sentiment recorder | `sentiment.py` | items, fetches, coverage, rate limit | record, import, coverage, features | a covered window is a complete one |
| Costs, fear and greed, layers, dashboard, logs | the remaining modules | samples, files | pure functions, fetches, display | numeric |

Hard behaviours, and where they are (the full list is under `hazards` in
`PROJECT.json`): the loop polls a market that runs on, so bars arrive late, in
groups, or while still forming; state is saved only after the engine acted, so
a crash or an exception falls between an effect and its record; balance reads
and swaps fail and their failures are cached; the pause is read once per cycle;
bot and CLI rewrite shared rows and files without locks, each from what it read
minutes before; exchanges, feeds and RPC nodes answer late, partly or not at
all, and what was missed must not pass for what was not there.

## Modules

`Engine` has no variables: it defines what each engine step does to one
symbol's book. `Backtest` and `RunSymbol` are machines over it; `RunSymbol`
implements `Backtest`. `LiveLoop` is the live cycle with prices abstracted
away; `Swap` is what one of its swaps consists of. `Pipeline` is the promotion
pipeline with `config.json` and the parts of the live cycle that touch either;
it implements `Lifecycle`, and both extend `Diagram`, the states of a
candidate. What decisions are fed with is in five small machines: `Rules`,
`Candles`, `Recorder`, `RpcBudget` and `Holdout`, which `Inputs` puts side by
side. The modules ending in `Proofs` hold the theorems; the `MC` modules give TLC
its constants.

### Engine (`engine.py`, `costs.py`, `promotion.book_equity`)

`OnOpen`, `OnLow` and `OnClose` are `Book.on_open`, `on_low`, `on_close` with
everything they call: the queued action leaves the queue before it is tried;
an entry is sized by `SizeOrder` (trade size, cash less the fee, free capital)
and dropped below `_MIN_ORDER`; a signal exit the gate sizes below one becomes
`ReducePosition`; a stop fills at `StopFill` (the lower of level and open) and
clears the queue; a close first ratchets the trailing stop, then queues one
action. Floats are fixed-point naturals that round down, a level of 0 is
`None` (the code treats a falsy level the same way), and a cost is an in-swap
share plus a network fee. `Book.weight_cap` and slippage in a simulated price
(the executor has none) are left out.

### Backtest (`backtest.simulate`)

`market` is the history, chosen in `Init`, with the strategy's entry and exit
flags as part of a bar: the models say nothing about how a strategy reads
prices. `OpenBar`, `LowOfBar`, `CloseBar` and `Finish` are the loop body's
three calls and the forced close; the range starts at any bar, as walk-forward
windows do. `TypeOK` and the seven properties are described at their
definitions.

### RunSymbol (`trading.run_symbol`, `_run_paper_books`, `ledger`)

The exchange (`LowFalls`, `BarCloses`, external) runs while the bot polls.
`Poll` is `history.window` and the head of `run_symbol`: it loads the stored
book, sees closed bars up to any point at most three periods old and not older
than the store, perhaps with the forming bar, and starts at the first bar past
`last_bar_ts` (the newest one on first sight). `ReplayOpen/Low/Close` and
`FormingOpen/Low` are the engine calls, one step each; `SaveState` is the
`finally`, `SaveCash` the later save of the cash. `Abort` is an exception in
an engine call (after which a paper book's cash is not saved, `Paper`);
`Crash` the death of the process. `bar` and `stage` are history variables for
the refinement: they change nothing else.

### LiveLoop (`trading.perform_analysis`, `promotion.check_kill_switch`)

`pc` walks one cycle: `StartCycle` (dust write-off, load, read of the pause),
`Skip` or `Analyse` for each token, the engine calls of `run_symbol`, `Save`,
then `Govern`, `Flatten` for each position, `Pause`, `SaveAll` and
`ValueBook`. `Sell` is `LiveExecutor.sell` with the balance cache in front of
it: a cached or failed zero balance sends no order, any order sent drops the
cached balance, and only a filled one clears the position. `Crash` includes
`stop_trading` giving up on the thread. Data is abstracted to what the control
asks: a bar is what the strategies say of it (`chart`), a stop is reached or
not (`fallen`, `hit`), a drawdown is at its limit or not, an entry is one lot.
A replayed bar's low may have reached the stop or not, and the order of tokens
in a cycle is any. An order moves its lot and reports it, or does neither; what
else `Swap` finds is such an order with a `Drift` before or after it: a lot that
came or went and no fill tells of (`astray`), because a swap that moved the
wallet was taken for failed or raised afterwards, or one that did not was
taken for filled. `FlattenFails` is an error between two sales of the kill switch,
which ends the flattening before the pause is set.

### Swap (`transactions.perform_swap`)

One request is up to three attempts. `Begin` samples the balance; `CreateOrder`
makes an order (both slippage settings, one step) or fails; `execute_order` is
one step with its outcomes: refused before the post (`ExecuteRefused`), landed
with its answer or without (`ExecuteLands`), posted with the answer lost
(`ExecuteLost`) or not Success (`ExecuteFails`); `Reconcile` is the exception
handler with `_swap_consumed`; `Return` the tail, where looking up the output
token can raise. External and assumed: a posted order lands at any later
moment (`LandsLate`) or never, a Success answer means it landed, and the node
shows the wallet's balance or an older one until `NodeCatchesUp`. `doubt`
is a history variable: which of these misled the program so far. All requests
send the same amount of one token, and no other transfer moves it: the 90 %
threshold is then one unit. The fill's amount is left out (when a swap is
recognised by its balance, `execute_result` may still be an earlier attempt's).

### Pipeline and Lifecycle (`promotion.py`, `config.py`, `cli.py`, `trading._enforce_token_change_guard`)

Command lines (`Cli`) and the bot run operations on candidates, `op` holding
what each has read so far. A command (`RecordBacktest`, `ToPaper`, `ToLive`,
`Approve`, `Reopen`, `Demote`) reads its candidate and passes or fails its
checks in one step; `Judge` and `Rejudge` are the held-out checks, minutes
later; `Edit` reads `config.json`, `Replace` puts the changed copy in place,
`Move` is `_transition`, which writes the row without looking again. The bot's
cycle is `Reload` (with the guard that rejects a set without a held token),
`TradeCycle` (any trades of traded symbols), `Survey` and `DemoteFlat`,
`DemoteLater`, `Healthy` for each managed candidate (`govern`), `StoreBook`,
`ListPaper` and `Advance` for each paper candidate. What `DemoteFlat` sells
leaves the bot's book at once (`sold`) and the stored one (`held`), which
commands look at, only with `StoreBook`: a bot that dies in between comes back with
the position it sold. `HandEdit` is the human's editor;
`CliDies` and `BotDies` kill a process between any two steps. Measured
evidence (costs, paper days, coverage, replay, strategy health, verdicts) may
come out either way.

`Lifecycle` is the promise: each operation in one step, a candidate walks the
diagram of `promotion.py`'s docstring, its symbol enters `config.json` when it
goes live and leaves it flat, nothing held leaves. Nothing in the code locks
the stores, so the promise cannot hold unconditionally: the history variable
`disturbed` collects the symbols on which a process wrote something based on
what was no longer so, died past `config.json`, a human touched a held or
managed symbol, the bot bought one while it was on its way out, or died with a sale
not stored. `Pipeline`
implements `Lifecycle` for all others, under the mapping `Settled`: a
candidate whose operation has replaced `config.json` counts as moved.
`LiveWasEarned` and `PaperLimit` need no such condition. `LiveLimit` counts the
undisturbed symbols; another history variable, `crowded`, collects those whose slot
was checked while another promotion to live was under way, and only they can be
live beyond the slots.

### Rules (`spec.py`, `indicators.py`)

`Visit`, `Descend`, `Resolve`, `FailOperand` and `Settle` are the compiler's
depth-first resolution, with its stack as `visiting`; `Judge` is the check of
the lookback; `Start` takes a window and `Evaluate` runs the next indicator over
it. A series is abstracted to the rows at which it is a number, which is what
warm-ups are about: `Rolling`, `Smoothed` and `SmoothedChange` are the kernels. A
window comes with holes (`Windows`): bars without a range, over which `stoch` is
0/0, posts not covered, bars without a mention, days without an index; a hole
passes through the indicators that read it. `AcceptsExactly` compares the
compiler's verdict, which counts bars, with `Ideal`, which fills rows without
counting, and says that a rule that runs meets a missing value only behind such a hole
(`Complete`). Two
deliberate mistakes (`NeedsAsLevel`, `RuleNeedOfOneBar`) serve the mutants, as
other definitions described as "and one that" or "a check left out" do.

### Candles (`history.py`, `data_source.py`)

The bot's window and a backfill extend one series at once: `Begin` reads the
store's ends and plans up to two ranges (`Ranges`), `FetchRange` pages one of
them (`Fetch`, with the binary search `FirstWithData` for the first page that has
data) and stores it, `FetchFails` is an error or a death, `Serve` is the frame
returned, from the store alone after an error. `jumped` is a history variable:
what an update passed over because it wrote beyond the stored series. The
search takes emptiness to be monotone; `OneLongGap` says of which exchanges that is
near enough true, and the two properties are about those.

### Recorder (`sentiment.py`)

`Record` is one request for the feed at the cursor with its outcomes (no
answer, limited, unparsable, a page with or without a gap), `Import` an
archive, `Restart` a new process, which loses the rate limit state. `coverage`
and `Covered` merge the live span with the imported ones; `Mentions` is what a
strategy reads. `Vouched` are the seconds for which the recorder can answer;
`CoveredIsCounted` says that what a covered window lacks was posted in no other than
a second that only the recorder covers and does not answer for: see "Differences" below.

### RpcBudget (`rpc.py`)

`Ask` is the budget check, `Reserve` the bucket, `Send` the end of the wait
and the count, `Answer` the end or a 429 with its backoff, after which
`Reserve` follows without a second check. Time is in the unit in which one CU
comes back. A usage file that cannot be read shows nothing to a check, or to the
update that counts a call, and one that cannot be written keeps what it had; the
history variable `unseen` is the most that a check of the day was not shown.

### Holdout (`evaluation.py`, `promotion._to_paper`)

`Backtest` judges the bars before the held-out ones and records the verdict,
`Promote` judges the held-out period from its pinned start, `PromoteCut` is a
process that dies between result and rejection; `NewBar` and `Backfill` let
the store grow at both ends between them. What the simulation closes at each
bar is the market.

## Runs

| Run | Question | Bounds |
|---|---|---|
| `backtest` | do the accounts, stops, ratchet and fill times hold over every history? | 4 bars of 18 (6 shapes, 3 signals) |
| `run_symbol` | does a polled book trade as the backtest does, and catch up? | 3 bars of 6, 1 failed poll |
| `run_symbol_gate` | does the governor measure what a gated book is worth? (no) | 3 bars, factors 0, 50, 100 |
| `live` | are lots, queue, entries and pause right whatever fails? | 1 token, 3 bars, 1 crash, 1 outage |
| `live_fair` | is a stop carried out in the end? | 1 token, 2 bars, 2 outages |
| `live_paused` | does the kill switch pause all entries? (no) | 2 tokens, 1 bar |
| `live_kill` | does it flatten every position? (no) | 1 token, 1 bar, 1 outage |
| `live_crash` | does a restart keep the positions? (no) | 2 tokens, 1 bar, 1 crash |
| `swap` | is a request paid once and reported rightly? | 2 requests, 3 attempts, 4 units |
| `swap_double` | can a retry never trade twice? (no) | 1 request, 3 attempts, 4 units |
| `pipeline` | does the unlocked pipeline keep the lifecycle, evidence and limits? | 3 candidates of 2 tokens, 2 command lines, 1 paper place, 1 slot, 2 events |
| `inputs` | are rates, warm-ups, candles, mentions and held-out periods right? | see below |

Why the bounds are enough. Four bars hold a complete trade with one bar to
arm the trailing stop and one to pull back to it, or an exit followed by a new
entry; the shapes include a low that touches the stop exactly, a gap far below
it, a bar that arms the trailing stop and one that closes at the target, and
the capital is such that cash, free capital and `_MIN_ORDER` bind in turn. In
`RunSymbol` three bars allow an entry, its fill in a forming bar seen twice,
and a stop in a bar that was missed; one failure is enough because a poll
starts from the stored book. In `LiveLoop` three bars allow an entry replayed
after a crash and a second one; tokens meet only in the kill switch, so the
properties about one token are checked with one and the run about two with
two. `MaxOutages` counts the reads, analyses and flattenings that meet an error
and the lots that drift; a swap may fail at any time without being counted. In `Swap` two requests are what it
takes for a late order of one to look like the other's, and the wallet can run
out before all six orders have landed. In `Pipeline` two candidates of one
symbol and one of another, one place in paper and one slot make every pair of
operations compete, from three databases (one live and held, a paper book past its
limit with one candidate still to be approved, one with an inconclusive candidate); `MaxEvents` counts commands, edits
by hand and deaths, so two commands race each other and the bot's own
operations, or one of them meets an edit or a death. With three events (9.9
million states) the same holds.

`inputs` runs the five machines one at a time: `focus` says which, the
variables of the others rest. `Rules`: every chain of two indicators over every
function with periods up to 3, and every graph of three averages, with
references to themselves, to each other and to nothing, at a lookback of 6, over a
window without a hole and one with a hole of every kind.
`Candles`: 10 periods, pages of 2, a window of 3 and a backfill of 7, an
exchange with all bars, a late listing, an outage longer than a page, a late listing
with a short outage, and two gaps with bars between them that a search leaves out (the
condition of both properties); an empty store and one ending in a bar written
unfinished. `Recorder`: two
feeds with one item a page, 4 seconds, one restart, two archives. `RpcBudget`:
two callers (interchangeable: `SYMMETRY`), two attempts, a bucket of 2, 3 units of
time, 2 days. `Holdout`:
all markets of 6 bars with 4 outcomes, 2 of them held out.

Deadlock is checked except in `backtest`, whose behaviour ends with `Finish`,
in `Swap`'s runs, which end after the last request, and in `inputs`, whose
clocks and specs come to an end.

**Fairness.** `RunSymbol!FairSpec`: the clock closes bars; a poll that started
runs to its end (`InPoll`, the thread is never blocked for ever: the calls have
timeouts); again and again the exchange is up to date when polled (strong
fairness of `Poll(closed, FALSE)`, an exchange that lags for ever is an outage
without end). `LiveLoop!FairSpec`: the loop goes on (an exception ends only its
cycle, `start_trading._run`), a cached balance expires
(`rpc.balance_refresh_seconds`), a token's window comes up to date with its
forming bar again and again, and a sale that can be sent again and again
fills in the end. `StopSells` excuses a token whose lots left the wallet by `Drift`:
there is nothing to sell. Nothing makes a human run `resume`, and nothing bounds how
long an outage lasts, only how many there are.

## What is proved

`BacktestProofs` proves the type invariant, five safety invariants and both
action properties of `Backtest` (`theorems` in `PROJECT.json`) for histories
of any length, any bars, and any settings within the assumptions:

- `RiskAssumption`: stop percentages below 100 (`spec.py` refuses others);
- `SizingAssumption`: natural amounts, a positive minimal order and size unit,
  a cost share of at most the notional;
- `HistoryAssumption`: bars with positive prices and low <= open, close <= high
  (`history._validate` counts the others as errors);
- `NoneAssumption`: the constant for "none" is no position, action or number.

The inductive invariant `IInv` is the conjunction of the six invariants and
two more that none of them states: `QueueFresh`, a queued action was asked for
by the bar just closed (without it an old action could fill later, and
look-ahead could not be excluded), and `BarStarted`, after the first step there
is a bar in hand, so what is stamped with it is in the history. `CashExplained`
needs `PendingFitsPosition` only through types; `StopHonoured` at a bar's
`low` stage follows from `StopHit` being tested in the step that leads there;
`NeverOverspent` needs `EntryNotionalBounds`, that an entry and its fee fit
the cash, and `ProceedsType`, which also covers a sale worth less than its fee.
Each action has a lemma (`OpenBarInv`, `LowOfBarInv`, `CloseBarInv`,
`FinishInv`); `OnOpenResult` and `EngineProofs` say what the operators return.
`EngineProofs` also says, for books that any poll may have left behind and any size
factor, what each call does to position, queue and accounts (`Opens`, `Lowers`,
`Closes`), and that only a factor between 0 and 100 can leave the accounts unsettled.

`RunSymbolProofs` proves, for any history, settings, polls, lags, outages and
crashes (`PollAssumption`, and the engine's and history's as above):

- `PolledTyped`: a replay always has a closed bar to work on and a running low
  lies above its bar's (`Types`).
- `StoredBookIsExplained`, for a gate that answers 0 or 100 %: until a poll dies
  the stored row is the book in memory (`Saved`), and the book in memory accounts
  for all of the capital (`Accounted`). A gate that halves an exit breaks it, as
  `run_symbol_gate` shows: a reduction books no trade.
- `PollingIsABacktest`, without a gate (a backtest has none): until a poll dies,
  `RunSymbol` implements `Backtest`. `InStep` says where the backtest stands at
  each step of a poll: at the bar being replayed, or at rest between bars
  (`AtRest`), or already inside the forming one, opened, with nothing left to fill
  (`Opened`), so seeing that bar's open again, forming or closed, does nothing. The
  `...Matches` lemmas map each step to one of `Backtest` or a stutter; a running
  low that stops the position does what the finished bar's low does, since a stop
  fills at its level or the open, and neither depends on how low the bar went
  (`FormingLowMatches`).

`LiveLoopProofs` proves the types, the four safety invariants and the action
property of `LiveLoop` for any tokens, bars, signals, errors and crashes
(`BoundsAssumption`; `NoneAssumption`, "none" is no action and no bar). The heart
of `IInv` is how far the book in memory may be from the stored one (`Synced`): not
at all between two tokens, only in the token under analysis, and in any from the
flattening to `SaveAll`. On it rest

- `TokensAreKept`: a failed analysis or `Skip` drops nothing, since what memory
  loses is still stored; an order clears a position only when it filled; what
  drifts is in `astray`, whatever the book makes of it;
- `QueueFits`, through crashes, in both places (`AllAsked`: what is queued was
  asked for by a processed bar);
- `SignalsBuyOnce`: a bar that bought is a processed one and what is queued is of
  another (`SpentSignals`), and a replay starts past the processed ones (`AtNew`);
- `SwitchHolds`: after the switch a token's entry was bought or is still queued,
  not both (`LastEntry`), and no analysis runs between the switch and the next
  reading of the pause (`SeenInTime`); a flattening that fails sets no switch;
- `ReplaysDoNotEnter`: what is queued in a replay is the newest bar's or was there
  before (`NewestOnly`).

`SwapProofs` proves the type invariant and the three safety invariants of
`Swap` for any number of requests, attempts and units (`SwapAssumption`: at
least one attempt, and "none" is no number and no report). Its `IInv` adds four
parts: `Ahead`, nothing has happened to later attempts and requests;
`BeforeUnmoved`, while nothing of the request has landed the balance sampled
first is still the wallet's; `ReportBacked`, what is about to be reported moved
the wallet; and `Certain`, which carries the argument: without doubts, once an
order landed it is that of the attempt in hand, the attempt is about to be
reconciled or reported, and the wallet has exactly one unit less than the
sample, so `_swap_consumed` must see it and no further attempt is made.
`LandingAdds` and `OtherFateKeeps` say what a step does to the landed orders;
`GiveUpInv` and `InsideInv` are the two ways a step can end.

`RpcBudgetProofs` proves the types and `Paced` of `RpcBudget` for any number of
callers, costs and capacity (naturals; `CapacityAssumption`, `CostsAssumption`,
`WaitsAssumption`, `BudgetAssumption`). The strengthening is `AllAhead`: what was
reserved after a queued call, and what the bucket still holds, came back since
that call was due, and the bucket is in debt until then; `ReserveKeeps` shows
that a new reservation keeps it, the other steps leave it alone.
`OverrunIsBounded` bounds the day's overspending, for finitely many callers
(`CallersAssumption`; the bot has a handful of threads). `Pending` holds one
element for every CU that the calls under way may still add to the counter;
`Committed` says that the optional spending and the size of `Pending` together
stay within the bound. A call joins only if the budget allowed its first attempt
(`PendingFits`: everything pending is at most every caller's every attempt), an
attempt moves its cost from one to the other, and at midnight, when the count
starts again, what is still pending fits the bound by itself. A check sees no more
than what was counted less `unseen`, so the bound is passed by that much at most.

`PipelineProofs` proves that the promise is worth something (`PromiseIsSound`): a
behaviour of `Lifecycle` keeps `config.json` in step with what is live or held,
and one managed candidate to a symbol, argued symbol by symbol (`PromiseKeeps`).
It proves all seven properties of the `pipeline` run for any number of candidates, symbols and command lines, any
limits and any start (`CandidateAssumption`, `PipelineAssumption`; and
`StartAssumption`, what earlier runs leave: managed candidates have their
evidence and are in the file, one to a symbol, within the live slots, and paper is no
fuller than racing commands can make it).

- Types: what each operation makes of `op` is one lemma per operation
  (`EditSets`, `ReplaceSets`, ...), used by everything that follows.
- `RealMoneyIsEarned`: the evidence itself only grows (`EvidenceGrows`), so it
  is enough that whoever is in paper or managed has it (`Rows`), whoever is on
  the bot's list had it (`Listed`), and whoever an operation is taking there
  has it or is about to be judged (`Headed`). `Earned` is their conjunction.
- `PaperStaysBounded`: the candidates in paper together with the command lines
  that have passed the count. Only a command line that was counted as outside
  can join, and only while there is room, so the total stays below the limit
  plus their number (`PaperBound`). The bot never moves a candidate to paper.
- `LiveStaysBounded`: a symbol is counted from the check of its slot on (`Live`:
  managed, or being taken live), so a check that no other overlaps sees them all;
  of the checks that overlap each process has one (`SlotBound`). A step takes a slot
  (`SlotTaken`) or takes none (`SlotsKept`).
- `PipelineRefinesLifecycle`: the invariant `IInv` says that operations have
  the shape their commands gave them (`Shape`), that one past `config.json` is
  alone with its candidate, which is as it was read (`OneFinish`), that
  undisturbed symbols keep the lifecycle's own invariant under the mapping
  (`Calm`), and where the held symbols are: not on the way out
  (`FlatLeaving`), in the set the cycle trades (`CycleHeld`), in the bot's
  memory (`NoOrphan`). Then every step is, on every symbol left undisturbed,
  one of the promised ones (`StepPromise`): `Replace` is going live or leaving
  (`ReplacePromise`), `Move` is a walk or nothing (`MovePromise`), the bot's
  trades, the commands, the human and the deaths have a lemma each.
  `MappedInit` and `MappedNext` are the two halves of the refinement;
  `HeldStaysTraded` follows from `IInv`, and `ConfigStaysInStep` from the
  refinement and `PromiseIsSound`.

`InputsProofs` proves the types of the machines in `Inputs` and the properties of
four of them, each while it runs (`FocusedInv`):

- `OutputsAreWhereCounted` and `SpecsAreJudged`, for any specs, periods and references
  between indicators, cyclic or to nothing included (`Rules.Settings`: names are
  distinct and no column's, functions are known, periods positive, and a rule reads
  something) and any windows. On data without a hole every kernel fills exactly the
  rows from some bar on (`FilledFrom`), so a need is exact when each kernel adds what it
  is counted to add; with holes it fills no others (`FilledInside`), and a hole shows
  where it is (`HolesShow`). `Ideal`, which counts no bars, comes to the same rows after
  as many rounds as there are names (`IdealFills`). `RulesInv` follows
  the compiler: each name on its stack leads to those above it (`StackFits`, with
  `ReachIn` for the chains of references), so meeting one again is a cycle of the
  spec, and every error is one the spec has (`ErrorsFit`, `FailureIsOfTheSpec`); a
  name leaves the stack after all it reads (`OrderFits`), so a spec that is ordered
  whole has no cycle (`OrderedIsAcyclic`), and evaluation finds its operands filled
  (`Evaluated`).
- `StoreHasNoHoles` and `ServedWindowsAreTrue`, for any page size, windows, histories,
  stores, and any order of the two processes' steps, failures and deaths (`Settings`:
  something is asked for, a page has a bar, a store starts without holes). A search
  on an exchange with one long gap finds the first page with data
  (`FirstWithDataFacts`: emptiness turns once over the bars searched, `TurnExists`, and
  every step halves around the turn, `FindsSolves`), so a download brings back every
  closed bar of its range (`FetchWhole`). Recursive functions are characterised by
  their equation: a function that solves it is exhibited, and a least counterexample
  rules out another. `CandlesInv` then says what each process still has to fetch
  (`Operation`, `RangeOK`): its last range ends at its clock and starts at or before
  its window or inside the store, so a write meets the stored series, or passes over
  bars that are older than every window by then (`JumpsOld`). Unfinished bars
  are among the newest (`PartialsNew`) and in the range under way (`PartialsAhead`).
- `CoveredWindowsAreCounted`, for any feeds, postings, page sizes, imports, failures
  and restarts: what a covered window's count lacks was posted while only the
  recorder covered it, and in a second it does not answer for. Nothing else is
  excused. Merged ranges contain no second that is in none of them
  (`MergedInside`), so a covered second is the live span's or an import's; an
  imported second is stored whole (`RowsStored`), and one the recorder answers for
  is too (`VouchedStored`): the answer after it had no gap, so it reaches back to
  what was known (`KnownFrom`, `AnswerVouches`).
- `SelectionNeverDecides` and `PeriodStaysPinned`, for any markets, lookback and
  lengths. A backtest needs bars to run over, so its held-out period began a full
  length before the newest bar (`BacktestEarly`); bars are only added at the new
  end, so whatever a first attempt pins lies after all of them (`SelectedEarly`).
  Later attempts keep the pinned start even when a backfill moves the split
  (`AttemptPins`).
- `InputsTyped`, the types of all five. For the candle store they say that only
  closed bars which the exchange has are stored (`CandlesTyped`, `FetchCloses`), which
  needs that a search and a download end on any exchange, whatever its gaps
  (`SearchExists`, `DownloadExists`: what solves the equation up to a bar is extended
  by one, and a least counterexample leaves no bar out). For the held-out period they
  say that the ranges stay in order (`PeriodInside`).

**Model-checked only.** Every invariant of a passing run is a theorem.
`CatchesUp` and `StopSells` are liveness, which the prover does
not do (nor ENABLED); they stay with TLC.

## Findings

Each violation run states what the documentation says and shows a behaviour of
the code that differs:

- `GovernorSeesEquity`: a partial exit books no trade, so the capital the kill
  switch measures misses its profit or loss;
- `KillSwitchPausesEntries`: an entry queued before the trip is still bought
  (`PauseHolds` bounds it: one per token);
- `KillSwitchFlattens`: a sale that fails during the flattening is not tried
  again (`StopSells` shows that stops go on working while paused);
- `RestartKeepsPositions`: a swap is not recorded before the token's analysis
  ends, so dying in between loses the position;
- `NeverDoubleTrades`: only an exception is reconciled with the balance, and
  only if the balance was read at first; any other failed answer is retried
  blindly (`NoDoubleSwap` says when a double trade can happen at all).

`StoredBookExplained` is claimed up to the first poll that dies, since after it
the stored position and cash may belong to different moments; likewise
`NoTokenForgotten`, `OneEntryPerSignal` and `PauseHolds` up to the first crash.

## Differences without a run

Met while modelling, and reflected in how the properties are worded:

- An outage longer than the window leaves a hole between the stored bars and
  the new ones, and neither an update nor a backfill looks at it again, though
  `history.py:311-312` says a backfill "also fetches any older history missing
  from the window" (`HolesAreJumps` is stated up to `jumped`).
- "Emptiness is monotone in ``since``" (`history.py:249`) is not so on an exchange
  with a page without bars inside its history. One such gap does no harm, as proved.
  With two of them, or one after a late listing, a search can leave out the
  bars between them, and the store keeps the hole (`history.py:207-213`); hence
  `OneLongGap` in `HolesAreJumps` and `ServedIsTrue`.
- Live sentiment counts as covered from the first answer on, as documented, but
  also through gaps, failures and downtime, so "not recorded" can still read as
  "no mentions" (`sentiment.py:17-20` and `538` say it never does), and an import
  can hide a gap from the check for it; hence `Vouched` in `CoveredIsCounted`, which
  says in what seconds that happens, and that imports and merged ranges are not to
  blame. A feed that answers 403 is asked again and again, and the feeds after it are
  not read (`sentiment.py:406`).
- `!=` and `not` are true of a missing value (`spec.py:502`, `spec.py:529`),
  where `README.md:408` says "A comparison with a missing value is false": `AcceptsExactly` shows
  that no warm-up lets a rule meet one, and that it does only where the data behind
  it have a hole (posts not covered or without a mention, a day without an index, a
  flat range under `stoch`).
- A backtest repeated after an inconclusive held-out attempt runs over
  held-out bars, and so does one after `gates.holdout_days` was changed;
  `HeldOutUnseen` is about the last backtest before the first attempt.
- A process that dies between a failed held-out result and the rejection
  leaves a candidate that is judged again on the grown period
  (`promotion.py:339`); `PinHolds` says at least its start stays.
- A usage file that cannot be read or written turns the daily RPC budget off for as
  long (`rpc.py:125`, `147`): `OverrunBounded` adds what the file failed to show
  (`unseen`). A restart refills the bucket; the locks are one process's.
- A bot that dies between the sale of a demotion and the end of the cycle restarts
  with a stored position of a symbol that `config.json` no longer has, and the tokens
  gone (`trading.py:547-549` after `promotion.py:705`); `NoOrphan` counts that symbol as
  disturbed.

## Not modelled

The values of indicators, evaluation statistics, metrics and cost measurement
are floating-point functions without state; the models take their results as
inputs, and whether they are there (`Rules`). A `roc` or `zscore` that divides by
zero, and a spec with several sentiment windows, are left out. Fear and greed, whale
tracking and market regime are fetches and scores that reach the engine as a size
factor, a signal, or (the index) a missing value. The dashboard,
logs, heartbeat, argument parsing, credentials and the validation of settings
do not feed back into trading. The drawdown peak, which `resume` resets while
the bot rewrites it (`promotion.py:211`), is a number that the models abstract
to a drawdown at its limit or not. Quantities of a sale (`trading.py:198`) are
whole lots.

## Plan

What the models leave for later, in order of what can go wrong:

1. `resume` against `check_kill_switch`, with a peak that has a value.
2. Quantities in `LiveLoop`: a fill smaller than its order, and a balance below the
   tracked size (`trading.py:198`).
