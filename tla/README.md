# A TLA+ model of fc27trader

fc27trader watches the Ultimate Team transfer market through public feeds and
metered providers, ranks opportunities, asks a person to verify prices, and keeps
the ledger of that person's trades. The modules here model its core: the ledger,
the API requests that write it, the life of candidates and verification requests,
the collection of a feed, the allocation of attention and metered requests, the
reference prices everything is judged by, and around that core the identity of cards,
the archive of EA's news, the records kept of a provider, the strategy library, shadow
trades, provider qualification and public posts. TLC checks the modules on small
instances; TLAPS proves the main properties for every value of the constants.

## 1. The system

One PostgreSQL database is shared by a FastAPI server (one thread and one session
per request) and Celery workers (one process per task, started by Celery beat).
Every session is opened with SQLAlchemy's `autoflush=False, expire_on_commit=False`
at PostgreSQL's default READ COMMITTED (`db/session.py`). No query takes
`FOR UPDATE`. Three facts follow, and most of what is hard here comes from them:

* a row that was read keeps, in the session, the values it had when it was read;
* an UPDATE writes the new absolute value of every column that differs from what
  was read, and leaves the other columns to whoever wrote them;
* two sessions that both miss a row both insert it, and a unique key lets one win.

Tasks are acknowledged late and delivered again when a worker is lost
(`scheduler/celery_app.py`), so every task may run twice or overlap itself.

| component | state it keeps | operations | interacts with |
|---|---|---|---|
| portfolio ledger (`services/portfolio.py`) | account, positions, transactions | set balance, desired price, purchase, sale | consumes execution observations |
| portfolio API (`api/routers/portfolio.py`) | none | one endpoint per ledger operation | one transaction per request |
| discovery (`services/discovery.py`) | candidates, verification requests | supersede the active, insert the ranked | reads the observable market; every 120 s |
| manual verification (`api/routers/verification.py`) | requests, responses, execution observations | answer with prices or a screenshot | judges the candidate, feeds the ledger's evidence |
| FUTZIP collection (`services/futzip_ingestion.py`, `scheduler/tasks.py`) | feed state, events, raw responses, runs | conditional poll, failure note | provider over HTTP; every 300 s |
| attention (`scheduler/attention_targets.py`) | collection targets, allocations | reallocate | reads shown candidates and open positions; every 120 s |
| request selection (`services/parse_futbin_targets.py`, `provider_targets.py`, `provider_budget.py`) | budget counters | choose cards for metered requests | reads targets, candidates, positions |
| reference prices (`services/parse_futbin_ingestion.py`, `provider_ingestion.py`, `market_universe.py`) | reference observations | classify and store a price, join the latest | feeds discovery |
| provider health and budget (`services/provider_health.py`, `provider_budget.py`) | counters and status per provider, requests used | record success, failure, usage | written by every collecting task inside its batch |
| card identity (`services/card_identity.py`, `ingestion/normalizer.py`, `db/repositories.py`) | cards, ids of each source | resolve a listing, refresh the card, map its ids | every collection of cards |
| raw store (`ingestion/raw_store.py`, `db/repositories.py`) | files and `raw_ingests` rows | put, record | every collecting task; EA's news most of all |
| EA news (`collectors/ea_official.py`, `scheduler/tasks.py`) | raw rows and content events | poll the index, archive new articles | raw store |
| point-in-time reads (`features/point_in_time.py`, `consensus.py`) | none | what was known at a cutoff | reference observations |
| strategy research (`services/strategy_research.py`, `strategy_backtesting.py`) | strategy library, evidence, runs, snapshots | seed from files, backtest | closed shadow trades |
| shadow trading (`shadow/`) | orders, fills and trades (written by a caller outside the sources) | simulate a purchase, an acquisition, a sale | feeds the backtests |
| validation (`validation/`) | qualification reports | evaluate, rank, pair | manual benchmarks |
| public posting (`social/`) | predictions, posts, persona, events | draft, publish | X |
| community, features and models, imports, pages, migrations | their own tables | batch, one-shot or read-only | read the above |

What makes each correct:

* **ledger** - positions and account agree with the transactions, rounding never
  accumulates, evidence is never made fresher or richer than it was;
* **API** - requests that overlap leave a balance that some of them would leave one after
  the other, no request blocks for ever, and one request at a time behaves as the sequential ledger;
* **discovery and verification** - only the last ranking is shown, a verdict is what
  its evidence supports, a resolved request stays resolved;
* **collection** - a provider that will answer "not modified" has nothing left that
  is not stored, a loss is reported as one, every execution is recorded;
* **attention, selection** - the targets are those of the last allocation, and scarce
  requests go to what is held, then to the hottest;
* **reference prices** - a wild quote moves nothing, a quote is disbelieved for a reason
  that is on record, every reader means the same row, and what was known at a cutoff
  stays what it was;
* **health, budget** - overlaps lose counts and invent none, HEALTHY means that
  something was answered, and every batch ends;
* **card identity** - providers that say as much agree on cards, and versions that
  differ are not merged;
* **EA news, raw store** - a stored row has its complete file, and a successful poll has
  left nothing of its index out;
* **strategies** - a measured class is that of the latest sample, evidence counts once;
* **shadow trading** - no fill is better than the market it was taken from, or before it;
* **validation** - the pair chosen is the best that is independent;
* **posting** - nothing is on X that the tables do not know, but for what was lost.

Every hazard is listed with its line and the properties that cover it in
`PROJECT.json` ("hazards").

## 2. Modules

| module | models | built on |
|---|---|---|
| `PortfolioLedger` | the ledger, one atomic action per API request | - |
| `PortfolioConcurrent` | the same requests as interleaved database steps | EXTENDS `PortfolioLedger`, refines it |
| `CandidateLifecycle` | discovery cycles against verification answers | - |
| `FeedCollection` | polls of one FUTZIP feed against the provider | - |
| `Attention` | reallocations of collection targets, and the two request selections | - |
| `ReferencePrices` | judging and storing quotes of a card, and the readers of the rows | - |
| `PointInTime` | the promise of point-in-time reads, as an abstract specification | - |
| `CardIdentity` | overlapping collections that find, create and refresh cards | - |
| `NewsArchive` | polls of EA's news: one transaction beside files it does not guard | - |
| `Publishing` | publications on X: a post before its rows | - |
| `StrategyRegistry` | seed runs against backtests on the strategy library | - |
| `ProviderRecords` | the two Parse.bot tasks on the provider's health and budget rows | - |
| `ShadowTrading` | the simulated life of a shadow trade | - |
| `ProviderQualification` | reports, ranking and the choice of a pair | - |
| `PortfolioLedgerProofs`, `PortfolioConcurrentProofs`, `CandidateLifecycleProofs`, `FeedCollectionProofs`, `AttentionProofs`, `ReferencePricesProofs` | the theorems of the module each is named for | EXTENDS that module and TLAPS |
| `BoundaryProofs` | the theorems of `CardIdentity`, `NewsArchive`, `Publishing` | EXTENDS the three and TLAPS |
| `OperationsProofs` | the theorems of `StrategyRegistry`, `ProviderRecords`, `ShadowTrading`, `ProviderQualification` | EXTENDS the four and TLAPS |
| `MC...` | small instances for TLC | EXTENDS the module named |
| `MCBoundary` | `CardIdentity`, `NewsArchive`, `Publishing` in one instance | EXTENDS the three |
| `MCOperations` | `StrategyRegistry`, `ProviderRecords`, `ShadowTrading`, `ProviderQualification` in one instance | EXTENDS the four |

`ReferencePrices` implements `PointInTime` (`Reads == INSTANCE PointInTime WITH ...`), and
`PortfolioConcurrent` implements `PortfolioLedger`.

The modules joined in `MCBoundary` and `MCOperations` share no row, no file and no lock,
so an interleaving of two of them shows nothing that each does not show alone. Their
instance is therefore a choice: the variable `concern` names the one that moves, and the
others stay in their initial state.

A definition whose comment calls it a "faulty variant" is not part of a specification: it
is a plausible bug of the definition that follows it, kept to show that the properties
notice it.

### PortfolioLedger

`account`, `position`, `evidence` are the rows of `trading_accounts`,
`portfolio_positions` and `execution_observations`. `portfolio_transactions` is kept
as column sums, over everything (`book`) and per card (`trades`), because that is all
the properties ask of it. Each action is a whole endpoint: `RecordPurchase` contains
the balance check, the position, the account, the transaction row and the derived
order book of `_consume_observed_listings_after_purchase`. `Tax` and `RoundHalfEven`
are the code's integer arithmetic; coins are small enough that Python's floating
point agrees with them. `occurred_at` may be backdated through the API
(`Backdated`); the pages never send it, so the runs leave it off, and the theorems
hold for both, but for `BoughtOutCorrect`, which is about trades recorded as they happen:
a purchase dated before the check that it consumes leaves no mark on the page.

`PositionsFollowTrades`, `CashIdentity` and `BasisDriftBounded` relate rows that
different lines update. That realized profit is exactly the coins gained, which the
README of the program promises, does **not** hold: see section 6.

### PortfolioConcurrent

A request is a work record that goes through `ReadAccount`, `InsertAccount`,
`ReadPosition`, `InsertPosition`, `ReadEvidence`, `WriteRow` and `Commit`. `lock`
holds rows from the statement that writes them to the commit. `Merge` is the
column-wise UPDATE. `NextRow` is the order of SQLAlchemy's flush, which writes
positions before the account: this order is what keeps requests from waiting for each
other, and `EveryRequestCompletes` fails when a sale takes the other one.
`LostNotInvented` uses the history `serial`, the balances that some of the committed
requests would have left one after the other. What a request that was
written over did to the balance is lost as a whole, credit or debit: the coins of a lost
purchase are still there. `ImplementsLedger` is `Spec` of
`PortfolioLedger`: with one thread every step is a ledger action or a stutter.

### CandidateLifecycle

A candidate is named by its cycle and the market entry it comes from, and its request
with it. `StartCycle` is the SELECT of the active candidates, `CommitCycle` everything
up to the commit, `AbandonCycle` an exception or a lost worker. An answer is
`ReadRequest` (409 unless pending), `ReadCandidate`, `CommitAnswer`. Scoring is any set
of entries with any `Opinion`. The history `excused` names the candidates a later cycle
could not have superseded, `contested` the requests that had two answers in flight.

### FeedCollection

Item k is the k-th ever published and a version, which the ETag names, is the number
of items published by then. `Answer` is what the provider sees, `Receive` the time
stamp, `Ingest` the look-ups, `Commit` the unique keys and the transaction, `Reject`
the rollback with the failure noted in a session of its own, `Die` a lost worker. Two
polls may overlap, and may fail or die any number of times. An item always has a date;
its card, prices and quality are left out, as are the health counters.

### Attention

`target` is `collection_targets`, one row or none per card; `shown` and `held` are what
discovery and trading leave (`Discover`, `Trade`: the environment, modelled in detail by
`CandidateLifecycle` and the ledger). A reallocation is its three queries
(`ReadCandidates`, `ReadPositions`, `ReadTargets`) and `CommitReallocation`, whose
`Flushed` writes only the columns that differ from what was read. A card with two
candidates is decided twice and the query has no order, so `ScoresOf` is a set;
without a row yet the two inserts meet the unique key (`Clash`). Scores are in
hundredths. The interval of a target follows from its tier and is left out, as are
`attention_allocations` and `next_due_at`, which nothing reads. The history `decided`
is the last committed decision and `raced` the rows that changed under it: what overlapping
reallocations leave of those is the subject of `TargetsCatchUp`, not of `TargetsAreDecided`.
`ParseWeight` and `FutdbWeight` are the two selections of metered requests; the order
of the weights is what they decide, so properties compare weights.

### ReferencePrices

One card, since cards do not interact. A collection is `Fetch` (the response arrives
and is stamped), `Judge` (compare with the last valid row of source and platform, stamp
`inserted`, flush) and `Commit`. The stamps of real time have microseconds, so each gets
a value of `clock` of its own. A Parse.bot response has a PC and a PlayStation quote,
each of which may be missing; FUT-DB's has one and is not judged. The history `raced`
names the series of which two retrievals overlapped. The readers are operators:
`Inputs` (discovery), `LatestReference` (the pages), `KnownAt` and `ConsensusOf`
(features; the age limit that the consensus applies afterwards is left out). `Reads` maps
the rows to `PointInTime`: a question is a segment and a cutoff, its answer `KnownAt`,
and it is settled when no retrieval under way holds a row stamped by then (`Pending`).
Left out: two appearances of a card in one catalogue run, and the uncertainty and
confidence that go with a quality.

### CardIdentity

A version is named by what it really is; a provider says its `Face` (name and rating)
and perhaps its `Side` (league, club, nation). `Official` providers add EA's resource id
and futbin's id, `ByFutbinId` ones use futbin's ids, `Terse` ones say no side (the Parse
listings of the repository's tests), `Stub` ones are never matched. `Resolve` is the
look-up, `Store` what `upsert_external_card` or the stub inserts and updates, `SkipItem`
the savepoint of the Parse pages. A transaction sees its own writes before the committed
rows (`SeenCards`, `SeenMaps`); rows and keys written by another are waited for, which is
a disabled `Store`, and `FailIngest` is every way such a wait, a key or a worker ends a
collection. A FUTZIP item has a name and a rating: the stub of one that lacks them, which
a later item completes (`futzip_ingestion.py:44-48`), is not modelled. Positions and rarities are left out because the match ignores them.

### NewsArchive

`LookForFile`, `OpenFile` and `CloseFile` are `FileRawStore.put`; a file is `whole` or
`part`, and `broken` remembers whose writing was broken off. `Record` is
`record_raw_ingest` with the event of an article, `NextArticle` the look-up by URL,
`Succeed` and `BreakOff` the two ends. An article's URL may lead to another one's
(`UrlOf`), and some cannot be stored (`Unstorable`). The content of an article does not
change; the index does, with what it lists.

### Publishing

`CheckDraft`, `Send`, `StoreRows`, `ListPost`, `CommitPost` are the parts of
`publish_prediction` between which a process may be lost (`AbandonPost`) or another one
may publish. The commit belongs to the caller, which is not in the sources. The histories
`forgotten`, `contested` and `jostled` say which posts were lost or overlapped.

### StrategyRegistry

A writer is a seed run or a backtest, each one long transaction. `SeedRead`, `SeedLock`
and `SeedFlushed` are the loop over the file with its flushes (`autoflush` is off, so a
changed row is written by the next explicit flush), `SeedEvidence` selects all rows again,
locked as they are by then, and looks for entries not stored yet, `SeedCommit` the classification. `TestSkip`, `TestMeasure` and `TestLock`
are one strategy of a backtest. `Flushes` is SQLAlchemy's order (updates by key, then the
insert) and `Visit` the order by slug. `Written` is the column-wise UPDATE, again. A
sample is its number, wins and profit; the other metrics decide nothing. `raced` names
the strategies whose last writer had read an older row. With a seed run this can only be
`LastOfFile`: the session forgets rows that nothing names, so the second SELECT reads all
others anew under their locks, but the loop's variable still names the last. Left out: aliases and the
structural assessments of cycles, which the same run adds.

### ProviderRecords

A batch is one execution of `collect_parse_futbin_catalogue` or `_hot`. `Look` puts a row
into the session, `Change` alters it in memory, and `Count`, `Blame` and `Praise` flush
it, from where the row is locked (`owner`) until `Committed`. `HotFailed` has the three
ways a request fails, of which an answer that cannot be ingested still counts as
attempted. `CatalogueFailed` rolls back and records the failure in a session of its own.
`recorded` is the history of increments that were committed, `crossed` says that a batch
wrote a row that had changed since it read it.

### ShadowTrading

The two ways to buy and the sale are one action each, enabled when they fill; when they
do not they change nothing. Probabilities are percentages. `PutUp`, `GiveUp` and the
clock belong to the caller, which lists no card before it has it. `decision` and `offer`
are the order and the listing that the simulations are given, kept until the trade is
closed, so that both fills can be compared with them. `PaidFor` and `Ceiling` are the
slippage on EA's price grid.

### ProviderQualification

Reports are made in any order from any quotes; ranking and pair are operators on them.
Errors and ages are integers, percentiles are kept in twentieths and medians doubled, so
that the interpolation of `percentile` is exact. Terms, markets and provenance of a
provider are constants or chosen once. Failure reasons and the roles that a profile
merely declares are left out. Every priced quote has a latency and a positive benchmark
price: the figures that are missing otherwise (`evaluate.py:142`) are not modelled.

## 3. Runs

| run | instance | shows |
|---|---|---|
| `ledger` | one card, prices 20 and 21, up to 2 copies, 5 requests | the ledger's invariants and action properties |
| `concurrent` | 2 threads, one card, 5 requests | races lose whole movements of the balance, only races harm, all requests end |
| `concurrent_serial` | 1 thread, up to 2 copies | implements `PortfolioLedger` |
| `candidates` | 2 workers, 2 answering threads, 2 cycles, one entry, prices on and above the limit | verdicts, resolution, survivors |
| `feed` | 2 pollers, window 2, 3 items of which the 2nd does not parse, 2 seconds | ETag and gap status |
| `feed_quiet` | 2 pollers, window 1, 2 items of which the 1st does not parse | everything shown gets stored |
| `attention` | 2 workers, a card ranked twice and one ranked once, scores 0.40 and 8.00 with and without gains, prices 100 h and 900 h old, 2 changes | targets are what was decided and catch up; watched cards first |
| `references` | 2 workers, one judging and one trusting provider, prices 5, 60, 700, 3 retrievals, 6 instants | levels, doubts and readers; implements `PointInTime` |
| `references_foreign` | the same | a PlayStation price is ranked for PC (violation) |
| `boundary` | cards: 2 collectors, 4 providers, 3 versions of a player of which 2 share a side, 4 cards, 3 collections; news: 2 polls, 3 articles of which one leads to another and one cannot be stored, 2 hours; posts: 2 posters, 3 predictions, 4 posts, 2 remembered | agreement on cards, whole files, complete indexes, accounted posts, remembered posts |
| `cards_merged` | 1 collector, the same players | two versions on one card (violation) |
| `operations` | strategies: 2 seed runs, 2 backtests, 2 strategies whose primary keys are in the file's opposite order, 3 transactions; records: one catalogue and one hot batch of up to 3 requests; shadow: 3 instants, prices around four boundaries of the grid; qualification: 3 providers, 2 cards | classes, evidence, deadlocks, counters, fills, pairs; every batch ends |

Why these bounds are enough to be interesting. 20 and 21 average to a tie (20.5), so
rounding acts in both directions; one copy pays 1 coin of tax and two pay 2; books of
0, 1 and 2 listings are bought out, shortened or missed; five requests fit a balance, a
check, two purchases and a sale, and a position that is closed and opened again. Two
threads are enough for every pair of reads and writes, and the locks are per row, so a
cycle of waiting needs only two. Two cycles and two answers give each of the four
overlaps. A window smaller than what is published lets an item be missed; two seconds
separate what is older than a success from what is not. The scores lie below and above
the range of priorities, so the clamp matters; two changes let a card leave and come
back between two overlapping reallocations. 5, 60 and 700 are pairwise within ten,
within a hundred and beyond it, and three retrievals let a doubted quote be repeated,
which a comparison with the last row of any quality would then believe; six instants
let every retrieval be stamped twice. Two collectors on three pages give each order of a
terse, an official and an ordinary provider with and without an overlap; two hours let a
body be archived twice; four posts outnumber what the persona remembers. Samples of 0,
20 and 50 trades are in three classes, and of four entries of the file three speak for a
strategy and one against it. 1000, 10000, 50000 and 100000 are where the tick changes,
and one tick below them a price passes the boundary by slippage. Ages of 290 and 301
seconds lie on both sides of the limit; an unstamped quote leads to the propagation
delays. Every run
stops at a bound (`MaxRequests`, `MaxCycles`, `MaxItems`, `MaxTime`, `MaxChanges`, `MaxPolls`,
`MaxRuns`, `MaxCards`, `MaxHour`, `MaxPosts`, `MaxWork`, `MaxTick`), which is why deadlock is not
checked: a model without requests left really has no step. That no request is stuck
while it is served is `EveryRequestCompletes`.

## 4. Fairness

* `CSpec`: strong fairness of each thread's step. The server schedules its threads
  and PostgreSQL queues the waiters of a row and wakes them in turn, so a wait that is
  possible again and again to end does end. Nothing makes new requests arrive.
* `FeedCollection!Spec`: weak fairness of each poller's own step. Celery beat starts a
  poll every 300 s and the HTTP client has a timeout, so a poll does not hang.
  Failures and losses are not fair, and `CaughtUp` is claimed only of behaviours
  in which they stop.
* `Attention!FairSpec`: weak fairness of each worker's step. Celery beat starts a
  reallocation every 120 s and nothing in one waits for ever. Lost workers (`Abandon`)
  are possible and never required; `TargetsCatchUp` is claimed unless they go on for
  ever, or a card without a target stays ranked twice, which fails every reallocation.

* `ProviderRecords!RecordsFairness`: weak fairness of a batch's own steps (requests have
  a timeout), and of the end of a batch that is in a deadlock or inserts a key that
  exists by now (`Lost`): PostgreSQL detects both and fails one of the two. Lost workers
  and failing requests are possible and never required. `BatchesEnd` needs no more,
  since a wait for a row ends with the batch that holds it.

The other modules have safety properties only, and no fairness.

## 5. Proofs

All theorems hold for any sets of cards, prices, quantities and balances, any number
of threads, workers, batches and pollers, and any bound, under the assumptions the
modules state of their constants. The assumptions are of three kinds: sets that the
program takes from finite tables are finite; names that must not be confused are not
(`RowAssumption`: no card is called "account"; the writers of `StrategyRegistry` are
neither "nobody" nor "undone"); and facts of the code that the modules abstract (in
`Attention`, a score lies between 0 and the sum of the weights' magnitudes, since every
input is cut to -1..1 and nothing below 0.35 is shown; in `CardIdentity`, a provider that
says EA's id also says the side). Every invariant and every safety property of a step
that the passing runs check is proved.

### The ledger

`PortfolioLedgerProofs`: `TypeCorrect`, `PositionsCorrect`, `CashCorrect`,
`BasisDriftCorrect`, `DerivedBooksCorrect`, `BoughtOutCorrect`. The rounding lemma says
that the rounded quotient times the divisor is within half the divisor of the dividend;
with it the basis of a purchase stays within half a coin per copy, and a sale resets it
to exactly average times quantity. `PositionsFollowTrades` is inductive with the type
invariant, and so is `CashIdentity`. For the derived books the witness is carried along:
the check a row claims stays at its index, because rows are only appended.
`BoughtOutListingLeavesMark` is about the latest row, and the row a purchase appends is
the latest only if no other is observed later; `RowsPast` says so (no row is observed
after the clock).

### Overlapping requests

`PortfolioConcurrentProofs` proves five results for any number of threads.

* `ConcurrentTypeCorrect`, `LostNotInventedCorrect` and `NoRaceNoLossCorrect` come from one
  invariant, `CInv`: a request has passed the guards of its step, the balance it read is
  one that some of the committed requests leave when run one after the other, and so
  is the balance it is about to write; while nothing was written over, it is the
  balance of all of them. The middle part is what makes it inductive, because a commit
  turns what is about to be written into what is stored.
* `SerialServerIsLedger`: with one thread, `CSpec` implements the ledger's `Spec`. What the
  only request has read is what is stored (`FreshInv`), so its last write is the atomic
  action of `PortfolioLedger` and all its other steps stutter.
* `NoDeadlockCorrect`: some request in flight is never blocked. `LockInv` says who may hold
  which row: positions before the account, except that a request which inserted the
  account holds it first, and then there is no position yet that others could hold. The result
  covers cycles of any length, which two threads do not have.

### Candidates and verification

`CandidateLifecycleProofs`: `TypeCorrect`, `ResolvedCorrect`, `SurvivorsCorrect`,
`VerdictCorrect`. `NoOtherSurvivors` alone is not inductive. `CycleInv` adds that running
cycles have numbers of their own under which no request exists yet, that only existing
requests are answered, and that a request's candidate exists. `UnreadExcused` adds that
whatever is shown and not in a running cycle's SELECT is already excused. For the
verdicts, an answer to an uncontested request is alone on it: the request is pending, and
the candidate was read unjudged (`Alone`). Hence the column-wise UPDATE of its commit
either writes the whole verdict or meets a candidate that a cycle has superseded, which
the property allows; a cycle never judges (`VerdictInv`).

### Collection

`FeedCollectionProofs`: `TypeCorrect`, `EtagCorrect`, `NoSilentGapCorrect`. `EtagNeverAhead`
needs `HeldComplete` (what a poll holds, with what is stored, is all its version shows;
true because items are never deleted) and `UnmodifiedKnown` (a 304 answers the ETag the
poll read, so the commit writes no ETag at all). `NoSilentGap` is harder, because the
columns of the feed state may come from different polls: both the version and the time of
the last success must be good on their own, in the row and in whatever a poll has read,
and what a response does not show although it is not younger than its stamp is excused.
A response that reaches back to the last success then leaves nothing between.

`AttentionProofs`: `TypeCorrect`, `DecidedCorrect`, `WatchedCorrect`. The type of a merged
row needs `RowsStay`: a row that a reallocation read is still there when it commits, so an
UPDATE meets a row and never fills part of one. A row that did not change since the
query becomes exactly the row decided on. `WatchedFirst` is the arithmetic of the two
weights: a held card has a million, and what the others can add is bounded because
priorities are at most 1000 and scores at most 11.65; in FUT-DB's weight the staleness and
the rank of the others stay below what watching adds.

`ReferencePricesProofs`: `TypeCorrect`, `DoubtCorrect`, `ReadsCorrect`, `ReadersCorrect`,
`LevelCorrect`. Rows judged but not committed need an anchor too, among the committed rows
(`PendingFounded`), and for the anchor to be the older one no row may be stamped after the
clock (`StampedByNow`). Anchors stay because rows are only added. `ReadsCorrect` is the
refinement of `PointInTime`: a settled question stays settled (`SettledStays`: rows are
stamped with the clock, and a settled cutoff is not after it), and a commit adds rows only
to open ones (`CommitLearns`). `CalmInv` is about series without an overlap: their rows
have the same order by `observed` and by `inserted` (`InOrder`), what a retrieval holds is
later than what is stored (`Later`), and it was judged by the level that still stands when
it commits (`NearLevel`). From the first two follows `ReadersAgree`, from the last
`LevelMovesByDegrees`.

### What meets the outside

`BoundaryProofs` has three parts.

* News: `ArchiveTypeCorrect`, `ArchivedCorrect`, `CoverageCorrect`. For the files,
  `PartExplained` (a file that is short is broken or being written) and `FilesStand` (who
  goes on to make a row has a file). For the coverage, `RowsAnnounced` (a row came with
  its event, in the same transaction, at a URL that answers for itself) and `SeenHandled`
  (what a poll has put behind it has an event or is at hand).
* Posts: `PublishingTypeCorrect`, `AccountedCorrect`, `RemembersCorrect`. `ContestedMarked`: a
  publication of a prediction that is published already has met the one that published
  it. For the persona, a post that met no other is older than every one under way and
  newer than all told before it (`PlainInOrder`, from `JostledMarked`), so one more
  committed post is one more after it; hence the invariant counts: a post with n later
  ones stands within n places of the end of the list (`ListedNow`), and within n + 1 of the
  end of any list computed but not committed (`ListedNext`). Lists that overwrite one
  another only make that distance smaller.
* Cards: `OneCardCorrect`. The property is about committed rows, but a collection decides by
  what it sees, which includes its own writes. `IdentityInv` therefore ties the two
  together: rows written over keep their look, no row has two writers, and where a
  collection found no card, it sees none that looks like the listing, unless
  someone overlapped on the name. With these, a commit adds no second card to a look.

### Jobs and scripts

`OperationsProofs` has four parts.

* Strategies: `RegistryTypeCorrect`, `EvidenceOnceCorrect`, `LikesNeverDeadlockCorrect`,
  `StatusFollowsCorrect`, all from `RegistryInv`. It says which rows each transaction has
  read and holds at its place in the order it follows (`SeedOK`, `TestOK`), that what a seed
  run is to add is not stored yet (`SeedCounts`), what a backtest remembers of the rows it
  read, and which runs are its own (`SampleInv`). Two transactions that follow one order
  never wait for each other: each waits only for rows after those it holds. A seed run
  leaves the order in one case, when another committed the row it is about to insert
  (`Outrun`); the proof attempt found this, and the property names it.
* Records: `RecordsTypeCorrect`, `CountersCorrect`, `HealthyCorrect`. A column in memory is at
  most what was recorded and what the batch adds, and exactly what is committed and what
  it adds while nobody else wrote the row (`Sound`); so a commit never invents, and keeps
  the committed columns equal to the record until batches cross (`Balanced`). `Staged` says
  what a batch has looked at by each of its stages.
* Shadow trades: `ShadowTypeCorrect`, `ShadowConservativeCorrect`. `ShadowInv` says that a
  purchase answers its order (`FairlyBought`: later, within the limit, no more than wanted)
  and precedes its listing, and that the sale is below what it saw; the rest are facts
  about the price grid (the tick of a price divides what it is rounded to, slippage goes
  up when buying and down when selling) and the tax, for every price.
* Qualification: `QualificationTypeCorrect`, `BestPairCorrect`. The order of the ranking is
  strict and total, so every qualified provider has one place in it; the two loops then
  return the first primary that has an independent partner, and its first one.

### What is only model-checked

* The liveness properties `EveryRequestCompletes`, `CaughtUp`, `TargetsCatchUp` and
  `BatchesEnd`: the prover has no rules for fairness, which needs ENABLED.
  `NoDeadlockCorrect` is the safety part of the first.
* `VersionsKeptApart` and `OnlyPCRanked`, which the program violates (section 6).

## 6. Where the program and its documents differ

* `cards_merged`: "Only accept one exact match; ambiguity creates a separate card rather
  than silently merging different versions" (`services/card_identity.py:38`). The match
  knows name, rating, league, club and nation; two versions that share them and differ
  in rarity or position become one card. What does hold is `OneCardPerLook`.
* `references_foreign`: the "PC candidate input set" (`services/market_universe.py:12`)
  joins the latest PC time without asking for the platform again, and a Parse.bot
  response stores PC and PlayStation prices with one time: the card is ranked twice,
  once at the PlayStation price. It is also how a card comes to be ranked twice for
  `Attention`.

Met while modelling, without a run of their own:

* Overlapping requests write absolute balances, so that coins and recorded flows part.
  Within one transaction at a time they cannot (`CashCorrect`).
* Discovery supersedes candidates and leaves their requests pending; answering one shows
  the candidate again (`excused` in `CandidateLifecycle`).
* "holdings > hot targets > active candidates" (`services/parse_futbin_targets.py:10`):
  the weight adds the priority number, which is low for hot targets, so background
  targets come before critical ones. Holdings do come first (`WatchedFirst`), and
  FUT-DB's selection reads the number the right way round.
* "exact ... realized Transfer Profit accounting" (`README.md:16`): the average price is
  a whole coin, so buying at 20 and 21 and selling both leaves one coin that realized
  profit does not show. `BasisDriftCorrect` bounds the error.
* "every collector execution writes a `collector_runs` row" (`docs/OPERATIONS.md:25`): a
  failed poll rolls its row back (`Reject` leaves `runs` alone).
* "only observations actually inserted/retrieved by cutoff may participate"
  (`features/point_in_time.py:12`): `inserted_at` is stamped before the commit, so the
  answer for a cutoff in between can still grow. `ReadsSettle` says when it no longer can.
* "Qualitative reseeding never overwrites a measured strategy status"
  (`services/strategy_research.py:44`): it does so to the strategy the file ends with
  (`LastOfFile`), when it read that row before the backtest committed and locked it after;
  such a strategy is in `raced`. The others are read again once they are locked.
* A seed run and a backtest visit the strategies in different orders and may wait for
  each other; PostgreSQL then fails one of them. So may two seed runs, when one is about to
  insert a strategy that the other committed after the look (`Outrun`): SQLAlchemy flushes
  updates by primary key before the insert, so rows locked out of the file's order are
  held while it waits. `LikesNeverDeadlock` excludes the rest.
* Of two publications that overlap, each prediction may be posted twice and the persona
  may forget one; a post whose commit is lost is posted again.
* An article that cannot be stored fails every poll until EA takes it off the index, and
  a file whose writing was broken off is taken for complete within that hour.
* A provider may be eligible as a hot reference by propagation and still be ranked by the
  few stamps it has (`Freshness`).
* A probability of 0 fills when the draw is exactly 0, and an expected quantity of 0
  fills one card (`AcquisitionFill`).
* `config/polling.yaml` says targets come from positions too; a position without a
  candidate gets none.

## 7. Plan

Done: the modules above, in the order of what a mistake costs (coins, then what the user
is told to buy, then the data and the effort spent on it, then what is measured and
published). What could follow:

1. `Attention` composed with `CandidateLifecycle`, so that the shown candidates are those
   cycles and answers really leave.
2. Community ingestion with its missing duplicate check and the shrunken reputation score;
   the market impact recorded after a publication.
3. Pure operators over bounded inputs: information value, confidence thresholds,
   chronological splits.
4. Proofs of the safety parts of the liveness properties, as `NoDeadlockCorrect` is of
   `EveryRequestCompletes`: that a batch under way can move or is in one of the two waits
   that PostgreSQL ends; that a reallocation which began after the last change decides
   what the tables say.

Not modelled, and why:

* scoring, confidence, reliability, features and prediction models: floating-point
  arithmetic over data frames and tables, with no state of their own; where a decision
  rests on them it is a choice among all outcomes (`Opinion`, `Samples`, `Chance`);
* `scheduler/market_targets.py`, `upsert_provider_budget` and `can_spend_request`: nothing
  in the sources calls them but tests and scripts;
* market segments and account access: rows of a fixed list that never change;
* imports and audits: one-shot batches over stored rows, by one operator;
* the pages, the migrations, and the text formats of the providers.
