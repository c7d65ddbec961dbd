# SocialPredict: a verification project

TLA+ models of a prediction market, its backend (`src/backend`, Go) and its web
frontend (`src/frontend`, React), model-checked with TLC and, where it matters
most, proved with TLAPS. Backend paths below are relative to
`src/backend/internal`, frontend paths to `src/frontend/src`.

## 1. The system

Users bet credits on the YES or NO side of binary markets, sell shares back,
and are paid when a moderator resolves the market. Markets may be the answers of
a group, which is resolved as a whole. Nothing about a market is stored but its
row and its bet rows: prices, positions, valuations and what may be sold are
recomputed from the bet rows at every request. Each HTTP request is a goroutine;
the only synchronisation between requests is Postgres (READ COMMITTED, row locks
taken with `SELECT ... FOR UPDATE`).

### Backend

| Component | State | Operations | Hard behaviour | What makes it correct |
|---|---|---|---|---|
| Placing (`domain/bets/bet_place.go`, `repository/bets/place_transaction.go`) | bet rows, user balance | `Place`: gate, read user, fee, debit, insert | gate before the transaction; two requests of one user | balance = initial + rows; debt limit; one participation fee |
| Selling (`domain/bets/bet_sell.go`, `repository/bets/sell_transaction.go`) | bet rows, user balance | `Sell`: gate, two position loads, quote, credit, insert; `QuoteSell` reads | bets commit between the loads; overlapping sales | a share is sold once; pays at most the position |
| Market mathematics (`domain/math`) | none: a function of the rows | WPAM price, DBPM payouts, netting, valuation, lot replay | sales are shares, buys are credits, in one column | pool handed out exactly; price in [0, 1]; payouts funded |
| Users (`domain/users`, `repository/users`) | balance, profile, moderator status | `ApplyTransaction`, profile updates, governance | read-modify-write without a lock outside betting | no lost update; audit for each change |
| Market lifecycle (`domain/markets/lifecycle.go`, `market_creation.go`, `market_approval.go`) | lifecycle, resolved flag | create, approve, reject | costs and refunds in separate statements | a proposal is paid for and refunded once |
| Resolution (`domain/markets/market_resolution.go`, `service_policies.go`) | resolved flag, balances | resolve, refund, pay winners, work profit | two resolvers; failure between resolve and payment | every winner is paid once |
| Groups, answer additions (`domain/markets/market_group_*.go`) | group, members, additions | create, approve, resolve, add an answer | one transaction over many rows, against members resolved alone | a group is resolved whole, an addition is decided and charged once |
| Stewardship (`domain/markets/market_stewardship.go`) | steward, audit | reassign | unconditional update of what was read | audits form a chain; a resolved market keeps its steward |
| Moderator governance (`domain/users/moderator_governance.go`) | role, status, audits | promote, suspend, unsuspend | the audit follows the change | every change is audited |
| Read models (`app/readmodelinvalidation`, `repository/readmodels`, snapshots) | snapshots with a stale mark | refresh, mark stale | a refresh that overtakes a mark | a stale snapshot never looks fresh |
| Analytics, discovery, auth, configuration, handlers, security, migrations, deployment | - | - | - | not modelled, see section 7 |

Handlers call one service method per request. Placing and selling read markets
and mathematics and write users and bets in one transaction, and so do group
resolutions and approved answers. Resolving one market, creating, rejecting and
governing run statement by statement, outside any transaction. After a trade the
handler marks read models stale, best effort.

### Frontend

A page is a handful of React components, each with its own state, its effects,
its timers and the requests it has under way; they share the server and little
else. What is hard is always the same: answers arrive in any order, most are not
cancelled when what they were asked for changes, timers outlive what set them,
and a press may come again before the first was answered.

| Component | Modules | What makes it correct |
|---|---|---|
| Trade panel and older trade modal (`components/testmarketdetails`, `components/layouts/trade`) | `BuyForm`, `SellForm`, `PositionPanel`, `TradeModal` | sent once, as quoted, about the answer that is picked |
| Market page, charts, activity, share card (`hooks/useMarketDetails.jsx`, `components/testmarketdetails`, `components/tabs`, `components/modals/share`) | `MarketPage`, `PriceChart`, `ActivityFeed`, `ShareCard` | shows the market of the route and what was true of it |
| Resolving; older market and group pages (`components/modals/resolution`, `components/marketDetails`) | `ResolvePage`, `GroupPage`, `ActivityFeed` | resolved as picked, once |
| Session, bar, search (`helpers`, `components/navbar`, `api/httpClient.js`) | `Session`, `NavBar`, `SearchBox` | a login is kept until it ends; results are of the text |
| Lists and cards of markets, bookmarks (`pages/markets`, `pages/newmarkets`, `components/tables`, `hooks`) | `MarketBrowse`, `CardGrid`, `MarketCards`, `Watchlist` | every market has a card; rows are of the view; nothing is undone |
| Proposing (`pages/create`, `pages/testadmincreate`) | `ProposalForm` | a proposal is paid for once per press |
| Moderation and review pages (`components/layouts/admin`, `pages/testadminmarketsreview`) | `GovernanceForms`, `ReviewQueue`, `Stewardship`, `TagDesk`, `ReviewDesk` | decided once; lists are current; others' settings stay |
| Editors of the site's content (`pages/admin`) | `DiscoveryEditor`, `CmsForm` | saved where it belongs, over nothing unseen |

`PROJECT.json` lists the hazards with the line where each bites and the
properties that catch it going wrong.

## 2. Modules

| Module | Models | State |
|---|---|---|
| `SaleMath` | integer arithmetic of a sale (`bet_sell.go`) | none |
| `PositionMath` | rows -> probabilities -> payouts -> positions -> valuations -> unlocked lots (`domain/math`) | none |
| `MarketHistory` | one market, one request at a time: what a long legal history does to the numbers | `rows`, `cash` |
| `BettingRules` | cost, debt check, rows and quotes; the market mathematics is a parameter (`Held`, `Sellable`) | none |
| `Betting` | placing and selling as concurrent transactions | 5 table variables, 2 lock tables, 5 per worker |
| `Ledger` | abstract specification: each bet and each sale in one step | `account`, `rows`, `lifecycle` |
| `Resolution` | resolving a market, resolving a group, approving an answer, each as the statements it is | the rows, their locks, the requests |
| `Accounts` | creation, approval, rejection and the role of a moderator in one user row | `user`, `market`, `audit`, the requests |
| `StewardChange` | the steward of a market against resolutions and suspensions | `market`, `active`, `trail`, the requests |
| `ReadModels` | display snapshots, their marks and their refreshes | `bets`, `snapshot`, the requests |
| `Service` | composes the four modules above: one of them runs, the variables of the others stay None | those of the four, `service` |
| the 25 modules of the table above | one component of the frontend each | one record per component, one for what the server holds |
| `Forms` | composes the 12 modules of what is bought, resolved and administered: one of them runs, in variables that the others would use | `form`, `ui`, `second`, `third` |
| `Site` | composes the 13 modules of what visitors see and send in the same way; the market page has variables of its own, for its temporal property reads them in every behaviour | `form`, `page`, `options`, `ui`, `second`, `third`, `fourth` |
| `ArithmeticProofs`, `BettingProofs`, `HistoryProofs`, `ServiceProofs`, `FormsProofs`, `SiteProofs` | theorems, section 5 | - |
| `MCBetting`, `MCService` | instances for TLC; `MarketHistory`, `MarketBrowse`, `Forms` and `Site` need no module of their own, their configurations give every constant its value | - |

`MCBetting` composes `Betting` with `PositionMath`: the sales it prices are
those of the real mathematics. `Betting` keeps the mathematics abstract so that
its theorems hold for any. `MCService` gives the constants of `Service` values
and nothing else, so what the run checks is what `ServiceProofs` is about; in the same
way `Forms.cfg` goes with `FormsProofs` and `Site.cfg` with `SiteProofs`. `MarketBrowse`
is part of `Site` and has a run by itself as well: beside twelve other components TLC
can give it no searches and one status only.
`ActivityFeed` holds the lists of the market page and those of the older page of a
group, of which one is looked at; `CardGrid` the cards, their filters and their rows.

### Betting against the code

A worker is the goroutine of one request; a step is one statement of its
transaction. `balance`, `bets`, `lifecycle` and `expired` are what is committed.
`userLock` and `marketLock` are the rows held by `FOR UPDATE`. `loaded` and
`draft` are the transaction's uncommitted writes, published by `Commit`; `seen`
is how much of the table each position load of a sale saw (the table is
append-only, so what a statement reads is a prefix).

- `PlaceGate` is `marketGate.Open` at `bet_place.go:21`, before the transaction
  and without a lock. `PlaceLockUser`, `PlaceHasBet`, `PlaceDebit`,
  `PlaceCommit` are the statements inside it.
- `SellGate` is the same gate on the transaction's market reader: it locks the
  market row, and it maps the row without the lifecycle column
  (`sellMarketModelToDomain`), so it refuses only resolved and expired markets.
  `SellLoadPosition` and `SellLoadSellable` each load the rows again.
- `Rollback` may happen at any statement: an error, a lost client, a crash. A
  restart needs no action of its own, the database is all that survives.
- `ApproveMarket`, `RejectMarket`, `ResolveMarket` are the UPDATE statements of
  `repository/markets/repository.go` with their WHERE clauses: resolution has
  none on the lifecycle.
- The inserts take no lock that matters. The foreign keys declared on
  `models.Bet` reference in the other direction (gorm reads them as has-one), so
  an insert does not wait for a market row that a sale holds.

`amount`, `user`, `market`, `outcome` and `placed_at` of a row are columns; `fee`
and `delta` record what the transaction charged, for the properties. Requests
have passed the validators: a known outcome and a positive amount.

### PositionMath against the code

One operator per stage, in the code's order, with its special cases: the single
credit allocator, absolute normalisation factors, surplus taken from the newest
and shortfall given to the oldest rows, negative sides cut to zero, valuations
rounded half away from zero and corrected round robin. Fractions are exact where
the code uses float64; the two agree except where a float error straddles a
half, and the counterexamples below were repeated in float64 arithmetic.
`Priced` stops a history before the WPAM denominator reaches zero, where the code
divides by zero and converts the result to an integer. `Table` is the identity: it
makes TLC compute a function once instead of at every use. TLC's integers have 32
bits, which bounds the histories it can evaluate; the proofs have no such bound.

### Resolution against the code

A worker is a request. A market resolved alone is `AloneBegin` (read and validate),
`AloneUpdate` (the unconditional UPDATE), then `AloneRead` and `AloneWrite` for each
payment in turn: `updateUserBalance` reads without a lock and writes what it computed. A
group is `GroupBegin` (the group and its members read and validated), `GroupRead`,
`GroupUpdate`, `GroupPay` for each member, `GroupMark` (the conditional UPDATE of the
group), the work profit, and `GroupCommit`: one transaction, whose writes are published
at the commit and which holds every row it wrote or read `FOR UPDATE` (`lock`).
`AddBegin` to `AddCommit` is the approval of an answer in the same kind of transaction.
`Fail` may strike at every statement. Two transactions that wait for each other's rows
are ended by it as Postgres ends one of them; that is why the model needs no order of
locks. What a result pays is the constant `Payments`, since `MarketHistory` is about the
amounts; a payment may be negative, as the refund of a sale row is. The model takes
them, and the work profit, with the UPDATE and for the request's own result, where the
code reads the result and the bets again after it (`service_policies.go:126`, `308`,
`market_resolution.go:58`): if two overlapping requests resolve differently, the amounts
of the first may be those of the second. No property is about the amounts. `settled`,
`before`, `decided`, `ledger` and `raced` are history.

`Accounts`, `StewardChange` and `ReadModels` are written alike: one action per
statement, `Fail` between any two, history variables that remember who
overlapped whom.

### The frontend modules against the code

The state of a component is one record: its React state, the timers that are set, the
requests under way with what they captured when they were sent. An event handler, the
firing of a timer, or the arrival of an answer is one action, including the effects
React runs because of it: effects that depend on a changed value run in the same step,
as they do before the next event. Requests answer in any order, with success or failure;
a request whose effect was cleaned up with a `cancelled` flag is dropped. A request
fails because the server refused it or because its answer was lost after the server had
done what it asked; where a page cannot tell the two apart, the model has both. The
server is a variable where what it holds matters (shares, versions, tags, steward), and
answers anything its API allows elsewhere. Texts are model values or words; drawing,
wording and styling are left out.

## 3. Runs

| Run | Shows | Bounds |
|---|---|---|
| `betting_safe` | `TypeOK`, `BalancesMatchRows`, `DebtFloor`, `OneParticipationFee`, `RowsOnlyInPublishedMarkets`, `SalesAreSerial`, `NoSaleAfterResolution`, refinement `LedgerSpec` | 2 users, 2 markets, 2 workers, 4 stamps |
| `betting_liveness` | `EveryRequestIsAnswered` | 1 market, 3 stamps, stand-in mathematics |
| `betting_closed` | violation of `NoBetOnceClosed` | 2 stamps |
| `history_sound` | `TypeOK`, `ValuationsFillThePool`, `SalesSellUnlockedLots`, `SoundWhileOnlyBuys`, `SalePaysAtMostThePosition` | 2 traders, buys of 1, 2 or 5 credits, sales for 1, 3 or 20, 4 rows |
| `history_price`, `history_funding` | violations of `PriceIsNormalized` and `ResolutionIsFunded`, section 4 | 2 traders, 4 rows, fewer amounts |
| `history_relock` | violation of `BuyNeverRelocks`, section 4 | 2 traders, buys of 1, sales for 1, 4 rows |
| `history_pool` | violation of `ValuesMatchTheVolume`, section 4 | 2 traders, buys of 3, sales for 20, 6 rows |
| `service` | `TwiceOnlyByOverlap`, `BalanceExplained`, `GroupIsWhole`, `ProposalPaidOnce`, `AuditsAreTrue`, `BehindOnlyIfExcused`, the types | 2 requests on 2 answers and a third that is proposed, 2 users, 1 trade; 2 requests on 2 proposals; 3 requests on a steward; 3 on 2 snapshots |
| `site` | `PageShowsTheMarket`, `LoadSettles`, `AnswersFit`, `CardsAreComplete`, `ChartsAreTrue`, `SentOnce`, `LoginIsKept`, `NothingIsUndone`, the types | `Site.cfg`: 13 components, one at a time; 2 answers, markets, tabs, users and texts, 3 probabilities, 2 requests; lists of markets with one status and no search |
| `browse` | `ListsFitTheView` | `MarketBrowse` by itself: a topic and the page of all markets, 2 statuses, 1 text, 2 pages of rows, 1 move, 2 searches |
| `forms` | `OrderedOnce`, `SoldOnce`, `PanelFits`, `ResolvedAsPicked`, `TwiceOnlyAfterMixing`, `QueuesAreCurrent`, `SavedWhereItBelongs`, `ChangesAreKept`, the types | `Forms.cfg`: 12 components, one at a time; 2 answers, rows, views, stewards and tags, 3 requests, 4 decisions, 2 loads of shares that start at 1 (`StartHeld`) |

Components that share nothing but the server are put into one run, in which the
initial state picks the one that runs: the components do not interleave with each
other, there is nothing to interleave on, and the variables of the others stay
None. Each module states its properties; the composing module joins those that
answer one question.

Why the bounds of betting suffice. Every race of `Betting` is between two requests, so two
workers reach it; four stamps let two bets and two sales, or a retry after a
rollback, follow each other (`MaxStamps` bounds the placed_at values handed out,
and a request begins only if one is left for it). `MaxDebt` is 4 with an initial
balance of 1, so the limit is reached after two or three bets; the fee is 1, the
dust cap 1 as configured. In a history, a sale first has something to sell after
two rows, and each of the effects of section 4 needs at most four; amounts 1, 2
and 5 give the single-credit case, ties and uneven rounding, and a request of 20
exceeds every position. Four rows is also what `MaxRows` bounds, and a history
that reaches it ends: `CHECK_DEADLOCK FALSE` in those runs. The symmetry of
workers and of traders is sound, no property and no tie-break names them.

The liveness run replaces the mathematics by one share per credit, because TLC
evaluates ENABLED of every statement in every state; the stand-in both grants
and refuses sales, which is all that progress depends on.

Fairness. A goroutine that can run its next statement does so eventually: weak
fairness of the statements that never wait. Postgres queues the waiters of a row
lock, so a statement that waits for a row gets it if it is released again and
again: strong fairness of `PlaceLockUser`, `SellGate` and `SellCredit`. Nothing
is assumed of clients, moderators or failures. Requests cannot deadlock because
a placement locks only the user row and a sale the market row, then the user row.

### What the properties with a gap in their name say

The code does leave windows open. A property such as `TwiceOnlyByOverlap` states
the one way in which the bad thing happens, and the run excludes every other. In
short:

- `service`. A market is resolved and paid twice only by two requests under way
  together of which one resolves it alone. A balance differs from what was traded,
  paid and charged only if a request that does not lock the row wrote it over a
  newer one. A resolved group leaves open only an answer that was approved while
  it was being resolved. A proposed answer is decided and charged once. A proposal
  exists only if it was paid for, and is never both approved and refunded; the
  debt limit gives way only to overlapping charges and trades. The role differs
  from its last audit only after overlapping saves or an audit that failed. Audits
  of stewards fail to link up, a resolved market gets another steward, a suspended
  moderator becomes one, or the profit goes to a former one, only if the requests
  overlapped. A snapshot that counts as fresh is behind only if its mark is due,
  was lost, or was overtaken by a refresh that had read the rows before.
- `site` and `browse`. The market page shows the market of the route and keeps a
  loaded group and the option the user chose. Lists, results and the credit are the
  ones asked for last, but for the late answers each module names. Rows of a list are
  of the tag, status and text in view, without a hole, unless that changed while a
  further page was loading: on the page of all markets the tag is that of the layout
  loaded last, so the rows of the topic left stay until the new layout answers, and are
  loaded again when it changes the tag. The chart and the shared picture tell of a
  moment what was true of it; labels of the price chart overlap only at its edges, those
  of the shared picture do not. Proposals, amendments and resolutions are sent twice
  only after a second press or a retry of what failed in part; a market is resolved
  twice only if it was confirmed again while the first confirmation was at the server, a
  group once. The policy shown for answers is the saved one, unless a save failed after
  a load had moved its toggle, or was done and its answer lost. The storage follows the
  logins, and links that are offered open their pages, but for the pages of their own
  (profile and portfolio) that administrators are offered and sent away from. A bookmark
  undoes no other tab's, a list of cards never goes back.
- `forms`. Two orders overlap only after one was clicked on the success of another
  (for 2.8 seconds the button shows the success and nothing disables it), two
  sales only from two openings of the modal; a sale is what was quoted. The older modal
  shows PURCHASED only after an order, or after a click when the login had ended, which
  sends nothing. What the
  panel shows is of another answer only after an answer to an earlier load, or one
  that failed. The steward resolves what was picked, an option alone only before
  the group was shown. A row is decided twice only after decisions of two rows,
  a decision and the reload of an earlier one, or a decision and a save of tags, which
  frees the same busy row, overlapped. A row at rest shows the tags of its market, but for
  a lost answer, two saves of it at once, and a load that a save overtook. A save
  overwrites another's only through the two gaps of the versions: 0
  after a failed load, and 1, which the defaults share with the first row that is saved.

### Bounds of these runs

Races are between two requests, or a request and what came after it; the bounds of the
instances (`MaxRequests`, `MaxLoads`, `MaxMounts`, `MaxOpens`, `MaxVersion` and the
like) leave room for two that overlap and one more. Three workers compete in
`StewardChange` and `ReadModels` because a lost chain or mark takes a third. Two
answers, rows, topics, tabs or accounts are what it takes to confuse them; a third
market card, share label and answer are there where grouping and pushing apart need one.
`MaxTrades` and `Swings` are one trade that lands between a read and a write. Every
action and disjunct of the composed modules fires. Runs stop when a bound is reached, so
they say `CHECK_DEADLOCK FALSE`; the one run that assumes progress states its fairness.

Fairness of `LoadSettles`. A request ends, with an answer, a refusal or an error
(weak fairness of `FetchEnds`), and a timer that is set fires (`RetryFires`):
the browser sees to both. Nothing is assumed of the user, who may navigate away
for ever, which the property excepts.

Every property has a mutant of a mapped definition that TLC finds (a missing
lock, a second lock taken in the opposite order, a lost remainder, a dropped
seed, guard, cancellation or reload; `PROJECT.json`).

## 4. What the code does otherwise than its documents say

Each is a run with `expect: violation` and the shortest history TLC finds.

1. `betting_closed`: a bet commits after its market closed, because the gate is
   read before the transaction. If the market was resolved in between, the bet is
   charged and never paid.
2. `history_price`: alice 1 NO, bob 1 YES, alice sells 2 NO: probability 1.5. A
   sale row is counted in shares where a buy is counted in credits.
3. `history_funding`: alice 1 YES, bob 5 YES, alice 2 NO, alice sells 1 YES for
   2 credits: 6 credits are left, the volume that a resolution pays is 7.
4. `history_relock`: alice 1 NO, alice 1 YES, bob 1 NO, then alice 1 NO: before it she
   could sell one NO share, after it nothing.
5. `history_pool`: alice 3 NO, bob 3 YES, alice 3 NO, bob sells 3 YES, bob 3 YES,
   alice sells 8 NO: the price is 7/4, the only open position is worth less than
   nothing, and as nobody has a positive value nobody is adjusted to the volume.
   `ValuationsFillThePool` says what does hold, and is proved.

As long as nobody sells, the price stays a probability, no open position is worth
less than nothing, and what the positions are worth adds up to no more than the
credits in the market: `SoundWhileOnlyBuys`, proved for histories of any length.

What does not hold even then is that a *resolved* market leaves nobody with a
negative value. The correction of the rounding takes surplus credits back round
robin, from the smallest winner too. A history that shows it has 17 buys of
YES, which is beyond TLC's 32-bit fractions and was computed in exact fractions and
in float64 instead (user:amount): 0:7, 0:1, 0:4, 0:10, 0:13, 0:8, 0:1, 0:1, 0:4,
15:2, 0:23, 0:8, 0:6, 1:1, 1:1, 9:2, 1:1. The volume is 93; resolved YES, the two
winners with a value are worth 94 and -1. The resolution pays positive values only
(`domain/markets/service_policies.go:327`): 94 credits out of 93. The property
therefore speaks of what all positions are worth, the negative ones included, and
of single positions in the open market only.

## 5. Proofs

`BettingProofs` proves, for every set of users, markets, workers and requests,
every configuration and every market mathematics:

- `TypeCorrect`, `NobodyBelowTheDebtFloor`, `SalesDoNotOverlap`,
  `RowsNeedPublication`, `NoSaleIntoResolvedMarket`, and
- `BettingImplementsLedger`: under the mapping account = balance, rows = bets,
  lifecycle = lifecycle, every commit is a `Ledger` step, every other step a
  decision about a market or a stutter.

`ArithmeticProofs` proves the bounds of the sale arithmetic those need: a quote is
within the position, proceeds are between zero and the sale value, and the
inventory check after the quote refuses nothing that the quote accepts.

Assumptions: requests are well-formed, fees, debt limit and bounds are natural
numbers, initial balances respect the limit (`RulesAssumption`,
`BalanceAssumption`); a market without rows gives nobody shares
(`HeldAssumption`); `NoWorker` is no worker (`WorkersAssumption`). That positions
are integers is not assumed but a guard of `SellQuote` (`PositionsAreInts`): the
fields are int64 whatever the mathematics computes.

The inductive invariant `IInv`, and why each part is in it:

- `TypeOK`, `RequestsKnown`: the shape of what the other parts talk about.
- `LocksHeld`: a transaction past its locking statement holds the row. Nothing
  else keeps other workers away from what it has read.
- `PlacementsCurrent`: what a placement has read of its user (balance,
  participation) is still so at its commit, hence its row, its debit and the debt
  check are those of that moment. Gives `DebtFloor` and the `Ledger` guard of a buy.
- `SalesCurrent`: the rows a sale has seen are a prefix of the table with every
  sale of the market in it, and its draft is the quote of those rows. Gives
  `SalesAreSerial` and the `Ledger` guard of a sale.
- `StampsUnique`: a stamp in a draft is not in the table: the row is fresh.
- `GatesPassed`: a placement past its gate is in a published or resolved market, a
  sale past its gate in one that is not resolved.
- `RowsOnlyInPublishedMarkets`, `DebtFloor`: the properties themselves. The first
  closes a circle: the sell gate does not check the lifecycle, but a sale of shares
  needs a position, a position needs a row, and the row needed a published market.

The refinement witness at a sale's commit is j = `seen.position`,
k = `seen.sellable`. The `Ledger` sale states what the code promises and no more:
bets of others may have been recorded since the loads, sales may not.

`BettingProofs` further proves, with the sums of `ArithmeticProofs`:

- `NoTransactionIsLost`: the balance is the initial one plus the deltas of the
  user's committed rows. `PlacementsCurrent` and the row lock make every commit
  add to the balance what its row says; what was missing was that the sum over a
  set, one row larger, is larger by that row.
- `FeeChargedOnce`: one row with a fee per user and market. Its invariant,
  `SellersTakePart`, says that a sale that got past its quote is of a user with a row
  in the market, for a user whose first row were a sale would later be charged
  no fee. Two hypotheses: there is a fee to charge (`InitialBetFee # 0`), and only
  traders hold shares (`OnlyTradersHold`, what `CalculateMarketPositionForUser`
  guarantees; `MCBetting` evaluates it for the real mathematics on sample rows).

`ArithmeticProofs` replaces induction over data, which the library states with an
operator parameter, by descent: a set of naturals that is not empty has a least
element, so a claim that fails has a smallest counterexample, and the step refutes
it. `SumOneMore` (the library's fold over a set) and the prefix sums of
`HistoryProofs` are obtained in this way.

`HistoryProofs` proves the five properties of `history_sound` for every number of
traders, every amount, seed, dust cap and length of the history, from
`HistoryAssumption` and `SubsidizationAssumption` (the amounts and the seed are positive):

- `HistoryTypeCorrect`: every stage of the mathematics returns integers, whatever
  rows it is given, so quotes and rows are integers. The recursive functions of the
  model (stakes, adjusted payouts, the lot replay) are first shown to exist.
- `SoldWhatOthersUnlocked`: every unlocked lot of the replay stands for a purchase of
  its user that somebody else's purchase followed; a sale needs a lot.
- `SalesPayWhatPositionsAreWorth`: the quote's value is at most the sellable value,
  which is a share of the position's; the rest is `ArithmeticProofs`.
- `ValuationsAddUp`: the ranks of the holders are a count, each of them taken once;
  the whole rounds of the correction and its remainder, one credit for each of the
  first ranks, come to the difference between the rounded values and the pool.
- `BuysAloneAreSound`: before the first sale cash is the volume (`CashIsVolume`); with
  stakes that are not negative the price stays strictly between 0 and 1 and so every
  open value is at least 0; the pools are at most the volume, hence the cash.

`ServiceProofs` proves of `Resolution`, for every set of users, answers and requests and
whatever results pay, from `ConstantsOK` (the constants have their sorts, None is
none of them; the run evaluates it):

- `TypeCorrect`. `TypeOK` is inductive by itself because it says that a row is
  locked only by a transaction that is open, and what of a plan is still to do.
- `TwiceOnlyByOverlapAlways`, by `Settling`: who ended before a request began has
  not resolved what that request read as open; a group's resolver holds the
  group's row from the mark to the commit, so of two groups one is refused.
- `BalanceAlwaysExplained`, by `Funded`: a transaction that has read a balance
  holds its row, and the balance is still the one it read.
- `GroupAlwaysWhole`, by `Deciding` (an approval about to commit holds the pending
  row, so nobody else decides it) and `Whole` (a resolver of the group that has
  committed planned every answer there was when it began; one that is missing was
  added by a request it overlapped).

It also proves the other safety properties of the service run for every set of users,
requests, markets and snapshots, from `ServiceAssumption` (the four modules'
constants have their sorts; the run evaluates it). The invariant of each module:

- `Accounts`: `Creating` (who creates a proposal is the only one to know it, and
  inserts it after the charge) and `Existing` (what exists was paid for); `Refunding`
  and `Refunds` (a rejection leaves the state it needs for ever, so one request
  refunds a proposal, once); `Afford` (a creation that has passed the debt check still
  passes it, unless charges or trades came between); `RoleKept` (of saves that do
  not overlap, the one under way is alone in writing the role, and what it
  audits is what it wrote).
- `StewardChange`: `EndedBefore` and `Acted` (who counts as ended has ended, who is
  named in the trail has begun), `ReadIsRecent` (the trail ends at the steward; one
  that has changed since a request read it was changed by a request that had
  not ended then) and `FoundActive` (who was found active is so, unless suspended
  while the request is under way).
- `ReadModels`: its type invariant and `BehindOnlyIfExcused` are inductive together.
- `Resolution`: `ServiceRunsResolution` shows that the service's resolutions are
  behaviours of `Resolution`; `ResolutionsInService` carries its theorems over.

`FormsProofs` proves all nine properties of the run `forms`, for any number of
answers, rows, stewards, tags, amounts, loads, requests and versions, from
`FormsAssumption` (each module's `ConstantsOK`: the sets a form starts from are not
empty, None is none of their elements, bounds are naturals). Each module names its
inductive invariant and what is in it besides the properties:

- `BuyForm`: a form that submits awaits an order or has thrown (`SubmittingAwaits`),
  an order that nobody hurried keeps the button disabled (`OneOrderUnhurried`), and
  the timer, or the last projection under way, is for what the form holds
  (`AwaitedIsCurrent`).
- `SellForm`: a load under way that nobody has overtaken is of the picked answer
  (`LoadsAreOfTheAnswer`). `PositionPanel`: so is the fetch that still counts, and
  there is none without a login (`LiveIsOfTheAnswer`).
- `TradeModal`: what may still animate was ordered, or clicked when the login had ended
  (`ArmedOnlyAfterOrder`), and the
  sale of the panel on screen keeps its button busy (`SellingWhileSold`).
- `ResolvePage`: what a poll is about to show is true of the server (`PollIsTrue`), a
  modal that preselects an option knows of a result (`PreselectsKnown`), and a request
  the open server can still take was picked (`UntouchedWasPicked`).
- `GovernanceForms`, `CmsForm`: above version 1 equal versions mean equal contents
  (`VersionsTell`), which is why the check of the version protects others' changes.
- `ReviewQueue`: a decision that was never mixed is the only work, no save of tags beside
  it, and its row is busy (`UnmixedIsBusy`). `Stewardship`, `TagDesk`, `ReviewDesk`: a row
  nobody raced has at most one request, whose answer is what the server holds, and so is
  the list at rest (`OneEach`, `DoneIsTrue`, `LoadIsTrue`, `ListIsTrue`, `TagsAreTrue`,
  `LoadsAreTrue`, `RowsAreTrue`). In `TagDesk` what a load has read is moreover still so
  of the rows it missed nothing of (`ReadsAreTrue`), and a row that lost an answer is
  named (`stale`) until one arrives that shows it.
- `DiscoveryEditor`: a slot that was not mixed up holds the page of its topic, and a
  save under way goes to the page it was typed for (`SlotsHoldTheirPages`,
  `SavesGoHome`).

`FormsSteps` says that a step of the whole is a step of the one form that runs;
`FormsInv` is the invariant of that form. Two of the properties had been true of the
run's bounds only, and the attempt to prove them showed it: with a fifth order, orders
of the buy form overlap although the one before was not on screen as a success when
they were clicked, because an earlier overlap is still unanswered (`hurried` remembers
it); and a decision that overlaps nothing but the reload of an earlier one is mixed up
too (`mixed`). Both now say what the code does for every bound.

`SiteProofs` proves the safety properties of the runs `site` and `browse`, all but the
labels of the shared picture in `ChartsAreTrue`, for any number of answers, markets,
tabs, pages, rows, texts, tags, users, logins and requests, from `SiteAssumption` (each
module's `ConstantsOK`). The invariant of the market page holds always, those of the
others while they run (`SiteInv`). Besides types and properties they say:

- `MarketPage`: the place preselected last is that of the market in the list on screen
  (`PlaceIsKnown`), so a poll preselects anew only when that place has changed.
- `ActivityFeed`: what is under way without being overtaken is for the market, page and
  trigger on screen (`LoadIsCurrent`); rows are of a page there is.
- `GroupPage`: until a submission fails, one is under way and records each answer once
  (`AmendedOnceSoFar`); what was loaded last is what is saved, and a toggle that shows
  another policy is put right by the next load (`LoadRepairs`); a resolution is
  accepted as often as the server marks it (`MarksAreCounted`), a group once, and unless
  confirmations overlapped one at most is at the server, of a market it found open
  (`OneResolutionOfGroup`).
- `Watchlist`, `SearchBox`, `NavBar`: the copy of a tab that missed nothing is what the
  browser keeps; what is searched for is the text in the box (`AskedIsTyped`); one fetch
  of the credit is under way at most, for the user and of what the last trade left
  (`FetchIsCurrent`).
- `MarketBrowse`: the table has asked for its next page and nothing else
  (`NextPageAsked`), one request ends its waiting (`OneRequestCounts`), and the bar has one search
  under way, of the question in it or of one that will be asked again (`QuestionAsked`);
  a table out of view is empty (`HiddenIsEmpty`), and layout and pins are of the page in
  view or asked for (`PanelAsked`).
- `MarketCards`: every market listed is on the one card of its group or on one of its own
  (`MarketsAreOnCards`); the order of a sequence does not matter to that, only what
  is in it. `PriceChart`: what is in force at a moment is the latest change before it,
  whatever is hovered or dragged; labels that were pushed apart overlap only where they
  were pushed against an edge (`LabelsOverlapOnlyAtEdges`). `ShareCard`: the line starts
  with what was known when the hour began.
- `CardGrid`: of overlapping fetches none is older than what is shown (`OneFetch`), the
  text written last is in the address, and a list is loading exactly while a timer will
  end that (`TimersRun`).
- `ProposalForm`: before a second press there is one proposal, under way or answered
  (`OneProposal`). `Session`: a login has a token of its own, so nothing that another
  login left behind counts for it (`TokensAreOwn`), and that a password must be changed
  is known until the page is loaded anew (`MustIsKnown`).

Again properties had been true of the bounds only. Labels of two answers overlap at the
top edge as well as at the bottom, with a probability of 1 beside a likely one, which the
run reaches since it has three probabilities. And with a third request, a toggle of
`GroupPage` can show a policy that is not saved, at rest: a load under way moves the
toggle while its save is under way, the save is refused, and the page puts the toggle
back to where it was before the press (`GroupedMarketDetailsLayout.jsx:1052`).
`PolicyShownIsSaved` excepts it by name (`astray`), as it does a save that was done and
whose answer was lost (`lost`), and holds for every bound. The answers of a proposal are a
set with the number of the fields it came from, where they had been a sequence: which
fields are sent, and that they differ, is what the property is about.

Model-checked only. `EveryRequestIsAnswered` and `LoadSettles`: liveness, which the prover
does not do. `CardLabelsApart` in `ChartsAreTrue`: the labels of the shared picture are
pushed apart in passes over a sorted sequence, and what a recursive definition computes
for every input is beyond the prover. What fractions the stages of `PositionMath` compute,
beyond the bounds and sums above, is compared with the code by reading, and the
counterexamples by recomputation in float64.

## 6. What could follow

Group proposals (creation, approval and rejection of a whole group, its steward) beside
`Resolution`; `OnlyTradersHold` proved of `PositionMath` rather than evaluated; dust
accounting compared with the cash of `MarketHistory`.

## 7. Not modelled

Backend: analytics, discovery, search, tags and description amendments (queries
and single-row edits without effect on money or lifecycle); dust accounting
(displayed, decides nothing); authentication and configuration (stateless per
request); handlers, server, request limits (decode, call one method, encode);
migrations, seeds and command line tools (run alone, before requests); group
proposals and the stewards of groups. `QuoteSell` is a preview that changes
nothing. SQLite, which the unit tests use without row locks, is not a deployment.

Frontend: profiles, portfolios and statistics (loaded once and shown); the
administration of users (a searched list like the stewardship queue); static
pages, the style guide, pictures and wording (no state). Of the modelled pages,
drawing, wording and layout are left out, and so is the order of the cards.

Deployment, load and integration tests, and the documents, which section 4
compares the code with.

A remark without a run: the comment of `GetMarketSummaryReadModel`
(`domain/markets/market_accounting_snapshot_refresh.go:38`) says that a stale
snapshot is returned rather than refreshed; line 64 refreshes it, and
`ReadModels` follows the code.
