# Verification of hyperliquid-cpp-api

TLA+ models of the concurrent core of the Hyperliquid connector under `src/`:
the self-healing WebSocket session and the stream manager that owns it, the
nonce source of signed actions, the execution gateway (order bookkeeping,
instrument tables, prices and sizes) and the paged history downloads. TLC
checks them on small instances, TLAPS proves the theorems listed below for every
value of the constants. File names below are relative to `src/src/` unless they
start with `src/`.

Run a model with `tlc -workers 2 -config <run>.cfg <module>`, a proof with
`tlapm <module>.tla`. `PROJECT.json` lists runs, theorems, the lines each
definition stands for, the hazards of the code and the findings.

## 1. Inventory

| Component | State | Operations | Hard behaviour |
|---|---|---|---|
| `WebSocketSession` (hyperliquid_ws_session.cpp) | stream and generation, topic lists, outbound queue and write flag, two timers, back-off delay, `connected`, `reconnectScheduled`, `userClosed` | subscribe, unsubscribe, close from any thread; connect chain, read, write, ping and reconnect handlers on one strand | stale completions, two errors of one connection, a timer that fires while it is cancelled, failures between any two steps, close during connect, silent peers |
| `WSStreamManager` (hyperliquid_ws_stream_manager.cpp) | session pointer, io thread, callbacks | ensureSession, subscribe*, onMessage, destructor | lazy creation raced by unsynchronised readers, shutdown while callbacks run |
| `ExchangeClient` (hyperliquid_exchange_client.cpp) | `lastNonce` | nextNonce, postAction, placeLimit, cancelByCloid, parseStatuses, floatToWire | compare-and-swap between threads, the clock, lost answers |
| `HyperliquidExecutionGateway` (hyperliquid_execution_gateway.cpp) | `byCloid`, `clientToCloid`, instrument tables, quote cache | start, submitPostOnlyLimit, submitReduceOnlyMarket, cancel; order updates, fills, reconciliation | HTTP answers against feed events, fills around a terminal update, lost connections, failed REST calls |
| `RESTClient` (hyperliquid_rest_client.cpp) | none between calls | getHistoricalPrices, getFundingRates, single queries | window seams, open candles, skipping of empty time, inclusive ends |
| `HTTPSession` | none | one blocking request | may fail before or after the venue acted |
| `L1Signer`, models, enums, tables, `tls_verify.h` | none | pure functions, parsing, configuration | - |

Interactions. The core (another repository) calls the gateway from its threads.
The gateway calls `ExchangeClient` and `RESTClient`, both blocking on
`HTTPSession`, and gets order updates and fills as callbacks from
`WSStreamManager`'s io thread, which runs the strand of one `WebSocketSession`.
The gateway and the io thread share the order maps under `orderM`, one lock per
look-up; callers and the strand of a session share the topic lists under
`locker`, one lock per operation. `lastNonce` is atomic.

What makes each component correct: the session never stops reconnecting before
`close()`, never runs two attempts or two writes at a time, sends each wanted
topic once on each connection and drops what is unsubscribed; nonces are
distinct and recent; an order that can still be filled is always recognised and
no fill is lost without a trace; an order trades its own coin at a price of the
venue's grid, and the core learns what became of it; the manager creates one
session and one io thread and can be destroyed at any time; downloads are
ascending, complete and finite.

## 2. Modules

| Module | Models |
|---|---|
| `WsSession` | the session, Asio, the network and the venue's side of one connection at a time |
| `MCWsSession` | its instance for TLC: symmetry of threads and topics |
| `WsSessionProofs` | theorems about the reconnect loop of `WsSession` |
| `WsLinkProofs` | theorems about its connections: queue, heartbeat, writes, close, backlog |
| `SubscriptionFeed` | what a session promises about topics, without connections; `WsSession` implements it |
| `FeedProofs` | theorems about its topics, and that it implements `SubscriptionFeed` |
| `StreamManager` | `WSStreamManager`: lazy creation, io thread, delivery, destruction |
| `StreamManagerProofs` | theorems about `StreamManager` |
| `NonceSource` | `nextNonce` and `postAction`, one action per atomic access |
| `NonceTicket` | what `nextNonce` promises: an atomic ticket counter |
| `MCNonceSource` | the instance of `NonceSource` for TLC: symmetry of the threads |
| `NonceProofs` | theorems about `NonceSource`, the refinement among them |
| `OrderGateway` | order bookkeeping of the gateway, with the core and the venue around it |
| `OrderGatewayProofs` | theorems about `OrderGateway` |
| `PriceGrid` | price and size normalisation, tick size, wire format, the venue's grid |
| `OrderEntry` | instrument tables, quote cache, both submits up to what the core is told |
| `MCOrderEntry` | the instance of `OrderEntry` for TLC: coins and books around a power of ten |
| `OrderEntryProofs` | theorems about `OrderEntry`, on lemmas about `PriceGrid` |
| `HistoryPager` | both download loops |
| `HistoryPagerProofs` | theorems about `HistoryPager` |

The modules are joined where the code is: `WsSession` implements
`SubscriptionFeed`, `NonceSource` implements `NonceTicket`, `OrderEntry` extends
`PriceGrid`. `StreamManager` takes from `WsSession` only that its loop lasts until
`close()` (`OnlyCloseStopsTheLoop`) and then runs dry (`CloseDrains`), which runs of
`WsSession` check. `OrderEntry` ends where `OrderGateway` begins: at the request.

### WsSession

Variables carry the names of the fields. `connected` stands for `connected` and
`connectedFlag`, which are always assigned together. A topic is a JSON
subscription; the two topic lists are sets (`addTopic` keeps them free of
duplicates) and a flush sends the pending topics in any order.

*Steps.* All handlers run on one strand, so a handler is one action. A public
call is two: the edit of the topic lists under the lock, and the `post`
(`Subscribe`, `Unsubscribe`, `Close`, then `Post`); other threads and handlers
run between the two. A handler that takes the lock twice (`flushTopics`, and
`handleError` between clearing `connected` and moving the topics) is one action
as well: another thread could come in only at the lock, where it edits the lists,
which is the same as editing them just before or after. `strand` is the FIFO of
posted handlers and of completions whose operation has ended.

*Operations.* `ops[g][k]` is the state of operation `k` of generation `g`.
`startConnect` appends a generation. A completion of an older generation is
queued and runs like any other, and `DropStale` is the test `gen != generation`
at its head. `Cancel` is `cancel()`: a wait in flight will end with an error, but
a handler already queued keeps its outcome, which is what makes the timers hard.

*Environment.* Stages succeed or fail, a read ends with a message that parses or
one that does not, a connection breaks, falls silent (no error, nothing more
arrives) or closes. `wire` and `serverTopics` are what is under way to the venue
and what it feeds; they die with the connection. `stream` holds what `is_open()`
and the outcome of operations depend on.

*Time* is abstracted to the ping rounds: the n-th round without a word from the
peer comes (n-1)*30 to n*30 seconds after the last one, so the watchdog (75 s)
may strike at the third round and must at the fourth (`MayBeSilent`,
`MustBeSilent`). `quietPings` counts the rounds in which the peer is silent
(`stream` is no longer "open"); a healthy peer is heard before each round.

*Abstraction.* `SubscriptionFeed` has the topics wanted, those fed and those whose
unsubscribing is on its way. The mapping (`Feeding`) takes the two lists for what
is wanted, `serverTopics` for what is fed, and for `dropping` the topics with an
unsubscribe handler posted or about to be posted, or an unsubscribe message queued
or under way. A forgotten unsubscribe, or a topic fed twice, is no step of it.

### StreamManager

Each caller goes through `ensureSession` statement by statement, so that two
first calls meet everywhere. The write of the session pointer is two steps
(`assigning`): a reader in between is a data race. The io thread's loop is test,
restart, run; a handler that throws leaves `run()` and may have lost the
session's last operation, which the model leaves open. `posted` is Asio's queue.
The destructor comes when no call is under way, as C++ requires of its caller.
`EarlyReaders` allows `isConnected()` and `unsubscribeBbo()`, which read the
pointer without the lock, before the session exists. `streams` sets it to FALSE;
with TRUE, `NoSessionPointerRace` is violated, as the hazard at
hyperliquid_ws_stream_manager.cpp:195 says.

### NonceSource and NonceTicket

One action for each access to shared state: reading the clock, loading
`lastNonce`, the compare-and-swap, which may fail spuriously, and the arrival or
loss of the request. `compare_exchange_weak` reloads `prev` on failure but `now`
is read once. The venue remembers the nonces it saw. The clock jumps to any value
at any time. `NonceTicket` is the abstract specification: one step takes a number
above all the earlier ones.

### OrderGateway

An order stands for its clientOrderId and its cloid, which `makeCloid` pairs;
the core is assumed not to use a clientOrderId twice. `mapped` is the domain of
`byCloid`. Each action is one stretch of a call between two accesses to shared
state: the map update before the POST, the answer or the exception, the second
look-up of `reconcileMissedFills`, the REST fetch. On the WebSocket thread an
order update is reported first and its mapping pruned in a second step, because
the callback and `pruneCloid` do not share a lock. The venue rests, fills,
cancels and rejects; a fill and the order update it causes are published in
either order; requests arrive in any order, late or never. A lost connection
loses what it carried, and what was executed while no fills feed was active is
kept in `missed`: the venue repeats it only in the snapshot, which the code
skips.

### PriceGrid and OrderEntry

A number is an integer that stands for x / 10^`Scale`, because TLC has no doubles:
the code's error is far below the eighth decimal at which `floatToWire` rounds.
`Scale` is 8 in the code, two decimals more than a price may have
(`GridAssumption`), which is what lets the rounding to 6 decimals be exact.
`FloatToWire` is the shortest decimal (digits and number of decimals) and
`WireValue` what the venue reads; `OnGrid` is the venue's rule and independent of
`NormalizePrice`.

`OrderEntry` follows one order while coins are listed and delisted, the market
moves, quotes arrive and other threads reload the tables. `loadUniverse` is two
actions, the request and the update of all tables, with anything in between;
`table` bundles the maps it writes under one lock. A submit
is the look-ups (`SubmitPostOnlyLimit`, `SubmitReduceOnlyMarket`), the quote, the
last mid, the pricing with the request (`PlaceLimit`) and the answer, each of which
may see other tables or quotes than the one before. The venue accepts or refuses
by its own book at that moment; a refusal is of the whole action ("err") or of the
one order in an answer that is otherwise ok. Reasons are the phrases that
`classifyReject` looks for; their order in the text does not matter because the
venue gives one. The core works with the tick it was last told.

### HistoryPager

A record is its time, a page the set of its times, and one turn of a loop one
action. The venue answers a request with its records of the closed interval, at
most `PageLimit` of them for funding rates, and does not change while a download
runs. The constants 5000, 30 days, 5 years and 500 are parameters.

## 3. Runs

| Run | Instance | Shows |
|---|---|---|
| `ws_safety` | 2 threads, 2 topics, 2 calls, 1 failure, 1 untaken message before a ping | the safety of the session, and that it implements `SubscriptionFeed` |
| `ws_liveness` | 1 thread, 1 topic, 2 calls, 1 failure | wanted topics get fed, silent peers are replaced, a closed session runs dry |
| `ws_resubscribe` | 1 thread, 2 topics, 4 calls, no failure | finding 1: re-subscribing can leave a topic dead |
| `ws_isconnected` | 1 call | finding 2: `isConnected()` after `close()` |
| `ws_close` | 1 call, fair | finding 3: `close()` during the connect chain |
| `streams` | 2 threads, 3 calls, 1 throwing handler | one session, no pointer race, posted work gets run, the destructor returns |
| `nonce` | 3 threads, clock in {0, 2, 3}, 2 nonces before the last action starts | distinct and recent nonces, refinement of `NonceTicket` |
| `gateway` | a resting and an IOC order of 2 units, 1 lost connection | order and fill bookkeeping |
| `gateway_startup` | the same | finding 4: orders before the fills feed |
| `entry` | 2 coins, 3 books around ten, 2 sizes, 1 move of the market, 1 load | the right coin, prices on the grid, market closes that still cross, rejects told as what they are |
| `pager` | times 0..10, candles of 2, windows of 1 candle, jumps of 4, search of 9, pages of 2 | both downloads, for every set of records and every range |
| `pager_funding` | as `pager` | finding 5: `endTime` is not inclusive |

The properties are stated and explained in the modules. The findings:

1. *Re-subscribing* (`ws_resubscribe`). Lists are edited when a call is made, and
   messages are sent when its handler runs. `subscribe(u)`, `unsubscribe(t)`,
   `subscribe(t)` in quick succession: the flush of the first call already
   sends `subscribe(t)`, the unsubscribe handler follows, and t is recorded but
   not fed. `ws_safety` and `ws_liveness` exclude this one sequence
   (`RacingResubscribe = FALSE`: a topic is not subscribed while the unsubscribe
   handler of an earlier call is under way), so that what holds otherwise
   can be seen.
2. *isConnected* (`ws_isconnected`). `closeByUser` leaves the flag set, and the
   errors that follow return before they clear it.
3. *close during connect* (`ws_close`). If the resolver has answered and
   `onResolve` is still queued when `closeByUser` runs, the chain goes on,
   reopens the socket and ends in `onHandshake`, which returns and leaves an
   open stream behind that nothing closes.
4. *Startup* (`gateway_startup`). `start()` returns after the handshake, before
   the subscribe messages are answered or even written; an order placed at once
   can be executed before the fills feed is active, and then its fill is only in
   the snapshot.
5. *Funding end* (`pager_funding`). The loop condition is strict, the
   documentation says inclusive.

Observations that are not findings, because nothing in the repository promises
otherwise:
- A range with more than five years of empty time before its last records ends
  the search (hyperliquid_rest_client.cpp:116) before it comes near them;
  `RecentCandlesReturned` therefore speaks of ranges not longer than the search.
- An IOC order that finds no one to trade with is told as
  `BenignPostOnlyCross`: the venue's phrase for it contains "immediately match",
  which `classifyReject` looks for first.
- Outside mainnet, `isMainnet` reaches the signer and not the hosts.

### Bounds, and why they are enough

`MaxCalls` and `MaxFailures` bound what has no other limit: calls and failures
without a cause. One failure yields several reports (the read and the write of
one connection, the cancelled ping wait, the stale completions of the old
generation) and a complete reconnect with its replay, in every order; two
calls by two threads on two topics give every order of two list edits, two posts
and two handlers, and a close against each of them. The back-off delay and the
generation have no effect on what the session does, so more failures repeat
the same states with other numbers; the proofs cover all of them. `MaxQueue`
is not a bound of the code but of the environment: a healthy peer has taken
its earlier messages by the time the next ping is due, 30 s later.

For the nonces, two are taken before any further action starts, and three
threads then still race for theirs. The
clock values leave a gap and a neighbouring pair, so that `prev + 1` lies below,
on and above a reading. In the gateway, two units separate a partial from a full
fill; orders do not influence each other except through the feed's order.

Two threads are all that can meet in `ensureSession`, since a third finds what the
second does, and the three calls allow another one after them; one exception is
enough for every place in the io thread's loop.
In `entry` the grid has 2 significant figures and 2 decimals instead of 5 and 6:
what matters is that the books lie on both sides of a power of ten, that slippage
takes a price across it, that one coin has size decimals and that one book has an
empty side. Two coins, of which either may be listed late or delisted, with
one load that may lag the listing, give every shift of the numbering; the theorem
covers the rest. In the
pager the window, the jump and the search limit keep the order they have in the
code (window < jump < search) for short intervals, and the range is long
enough for a coarse jump, fine windows and the cutoff.

Deadlock is not checked: a closed session, a finished download, a spent bound
are legitimate ends. That the system does not stop too early is what
`OnlyCloseStopsTheLoop` and the liveness properties say.

### Fairness

`FairSpec` of `WsSession`: the io_context runs queued handlers; a thread that
has begun a call gets to its post; every stage of the connect chain ends
(`expires_after(30)` on the TCP and TLS stages, Beast's suggested handshake
timeout, the resolver's own); timers expire, and the wait of a cancelled one ends
(`WaitAborted`); operations on a dead socket end;
a live connection carries what is written. Nothing forces a message to arrive,
a failure to happen or a call to be made. In `StreamManager` threads that have begun
a call or the destructor run on, and so does the io thread. `RunHandler`,
`SessionDrains` and `RunReturns` are strongly fair: messages that keep arriving
take the io thread into a callback and back, which disables them again and again,
and Asio's queue is first in, first out, so that a posted handler gets its turn.
`HistoryPager`'s fairness is that the calling thread runs on.

## 4. Proofs

*The reconnect loop* (`WsSessionProofs`), for any set of threads, any finite set
of topics and any bounds; of `SessionAssumption` the proofs use the types of the
constants. `TypeCorrect` comes first. `OnlyCloseStopsTheLoop` alone is not
inductive: that a stage which fails leads to a reconnect wait needs that no
earlier wait is still pending, because `handleError` ignores errors while
`reconnectScheduled` is set. The strengthening `LoopInv` adds
- `OneAttemptAtATime`: an outstanding stage excludes every other operation of
  its generation, a live connection and a reconnect wait;
- `StartFirst`: the handler that `run()` posts comes before everything, while
  there is no generation yet;
- `NothingYet`: with no generation there is nothing to report;
- `WaitPending`: a set `reconnectScheduled` has a reconnect wait of this very
  generation that will still be handled, and it is not cancelled before `close()`.

The step proof has one lemma per group of actions and goes through what
`HandleError`, `Pump`, `FlushTopics` and `Cancel` do to `ops` (the lemmas
`...Effect`). `OnlyCloseStops` and `OneAttempt` are corollaries.

*Nonces* (`NonceProofs`), for any threads, any set of clock readings.
`NeverReplayed` rests on the invariant `Fresh`: the nonces that are taken and
not yet posted are distinct from each other and from what the venue has seen,
and none is above `lastNonce`. `NoncesAreRecent` rests on `Recent`, which adds
that no thread has read a time ahead of the latest the clock has shown. `ImplementsTickets` maps `last`
to `lastNonce` and `ticket` to `nonce`: a successful swap is `Take`, everything
else stutters.

*A connection* (`WsLinkProofs`), for any threads, topics, failures and backlog.
`SessionInv` adds to `TypeOK` and `LoopInv` what relates the flags to the
operations: `connected` excludes `reconnectScheduled`, a reconnect wait that was
not handled keeps that flag set, and a live connection whose `writeInFlight` is
clear has no write outstanding (`FreeMeansIdle`). `QueueDies` and `Heartbeat` are
parts of it, since neither is inductive without the other three.
`TopicsSurvive`, `CloseFinal` and `WriteIsAlone` follow from it action by action.
`PingsBounded` needs more: a ping handler that is queued is the only one and its
wait has ended (`PostInv`), and the pings of a silent connection are bounded by
the rounds that passed since (`BacklogInv`), which in turn rests on the order of
the strand: a message that is still queued runs before the next round.

*Topics* (`FeedProofs`), for any threads, topics and failures, under
`~RacingResubscribe`: finding 1 shows that with the race the invariant is false.
`TopicInv` takes the messages under way and those in the queue as one list
(`Mail`) and says what the venue will feed once it has taken all of them
(`EndsFed`): exactly the topics recorded as sent, apart from those with an
unsubscribe handler under way (`RecordedIsFed`, `FedIsRecorded`), and each is asked
for once (`AskedOnceEach`). The lemmas say what appending to the list, taking its
head and losing it do to `EndsFed`. `SubscriptionsReach` and `NoDuplicate` follow.

*The abstract feed* (`FeedProofs`). `SessionFollowsFeed` is the step simulation:
`FeedInit` follows from `Init`, and `TopicStep` shows, with one lemma per group of
actions, that a step of the session is a step of `SubscriptionFeed` or leaves its
variables unchanged. In `SubscriptionFeed` what is fed is wanted or being dropped
(`NeverFedUnwanted`), and so in the session (`NeverFedForGood`).

*The manager* (`StreamManagerProofs`), for any callers and bounds. That the session
is created once needs who holds the lock: `IInv` says that a thread inside
`ensureSession` is the holder of `clientLocker`, what each of its places knows of
the session and the io thread, and that a thread which uses the pointer has seen
it set. `LazilyCreatedOnce` and `PointerIsNotRaced` (the latter under
`~EarlyReaders`) follow.

*Orders* (`OrderGatewayProofs`), for any orders, sizes and number of lost
connections. `LiveOrdersMapped` alone is not inductive: a submit that is refused
and a terminal update both unmap the order. The invariant adds that a refusing
verdict on its way means a rejected order (`RefusedMeansRejected`), that a terminal
update on its way, or being handled, is about an order that is over (`Settled`,
`OverWhenPruned`), and that a submission under way is mapped and not yet on the
book (`PlacingMapped`). `NoFillSlipsThrough` needs on top that an order with fills
is mapped or was reported (`FillsFollowed`), and goes through what publishing and
taking a message does to the fills on their way (`FillsInCarried`, `FillsInTail`).
`GoneOrdersAccounted` is an action property: it needs that what a cancel remembers
as executed has been executed (`DueExecuted`), that an order without a mapping was
reported or has no fills (`FillsFollowed` again), and where a call can turn
"gone" at all (`BecomesGone`).

*Asset ids* (`OrderEntryProofs`), for any universe, sizes, books, loaders and
bounds: each row of the tables, and each listing a thread has fetched, numbers a
coin by its place in the universe, so that a stale row is as good as a new one.

*Prices* (`OrderEntryProofs`), for any scale up to 8, any number of figures and
decimals, and any books whose prices are on the grid. First the powers of ten:
that `Pow10` is what its recursion says, and the sums and bounds that follow, by
induction as "there is no least counterexample" (`LeastNat`, from the
well-foundedness of finite subsets, because an induction theorem with an
operator as parameter cannot be used). Then rounding: it moves a price by at most
half a step (`Rounding`) and never across a multiple of a coarser step, so that
a price stays on its side of every price of the grid, also when it changes its
magnitude (`GridSide`, `GridKept`, `NormalizedOnGrid`), and the wire carries it
exactly (`WireExact`). `PriceInv` says that each number a thread holds between two
look-ups comes from the grid, and ties what was sent to what was asked for
(`SentAsPriced`). `PricesAlwaysOnGrid` and `MarketOrdersCross` follow: 5 % of
slippage is crossed by the venue's price, and `GridSide` keeps it crossed.
`BeliefIsVenue` has an invariant of its own (`VerdictInv`), which relates the
answer under way to what the venue did.

*Downloads* (`HistoryPagerProofs`), for any sizes of range, interval, window,
jump and page, from the assumption that they are positive. While a download goes
on, what was returned is before the cursor (`Passed`) and the funding rates before
the cursor were returned (`FundingSoFar`). That dropping the last candle is enough
rests on `CandlesApart`, that a short page is the last one on `FirstOfPrefix`; the
latest and earliest element of a set come from the well-foundedness of finite
subsets. `CandleInv` is the same for candles: those before the cursor were returned
if they are recent or follow one that was without a gap, and the empty time
searched so far is part of the way from the start to the cursor; a jump is
short enough near the end, and jumps only from an empty window, so that no gapless
run of candles crosses it (`RecentAreReturned`, `NoHoles`).

*Only model-checked*: liveness (`WantedTopicsGetFed`, `SilentPeerIsReplaced`,
`CloseDrains`, `PostedWorkGetsRun`, `DestructorReturns`, `Terminates`), which is out
of the reach of the proof system, as ENABLED is. Every invariant and every action
property of the passing runs is a theorem. What they assume beyond the types of
the constants is `~RacingResubscribe` for the topics and `~EarlyReaders` for the
session pointer; findings and hazards show what happens otherwise.

## 5. Not modelled

- *Reuse of a clientOrderId* after an unanswered submit: `OrderGateway` identifies an
  order with its clientOrderId and cloid.
- *Destruction of the gateway*: `stream` is declared before the maps and
  mutexes its callbacks use, so they are destroyed while the io thread may still run
  (a hazard in `PROJECT.json`); lifetimes of C++ members are not states of a model.
- *A second `start()`*, and the setters of manager and session, which store their
  arguments before the first call.
- *Signing, JSON models, tables, TLS configuration, the stateless REST queries and
  the HTTP transport* are pure functions or stateless input and output; their
  effect on the callers (an answer, an exception, an answer lost after the venue
  acted) is in `NonceSource`, `OrderGateway` and `OrderEntry`.
- *Floating point*: `PriceGrid` computes exactly.
- Data races on memory that the strand or a lock rules out are not looked for
  again.

## 6. Plan

1. `OrderGateway` with clientOrderIds and cloids apart, so that one can be used
   again after an unanswered submit.
2. `FillLedger`, an abstract specification of the fills the gateway reports, refined
   by `OrderGateway`.
3. Proofs: with items 1 and 2, the refinement of `FillLedger`, and
   `LiveOrdersMapped` for clientOrderIds that are used again; the steps that liveness
   rests on, as far as they are safety: a wait that ends leaves its handler queued,
   each turn of the pager moves the cursor.
