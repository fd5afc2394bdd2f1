------------------------------ MODULE OrderEntry ------------------------------
(***************************************************************************)
(* How an order of the gateway gets its asset, price and size, and what    *)
(* the core is told of the venue's answer (src/src/                        *)
(* hyperliquid_execution_gateway.cpp, with getAssetContexts and            *)
(* parseStatuses).  Coins are listed and delisted, the market moves and    *)
(* threads reload the instrument tables while the core prepares an order   *)
(* from what the tables and the quote cache said at some moment.           *)
(* What becomes of an order afterwards is in OrderGateway.                 *)
(***************************************************************************)
EXTENDS PriceGrid, Sequences, FiniteSets

CONSTANTS
  Universe,     \* the venue's coins, in the order of their listing
  NoCoin,
  SzDecimals,   \* size decimals of each coin
  Books,        \* best bid and ask, 0 for an empty side
  Qtys,         \* quantities the core asks for
  Loaders,      \* threads in loadUniverse()
  MaxMoves,     \* bound: moves of the market
  MaxLoads      \* bound: loads

Coins == {Universe[i] : i \in DOMAIN Universe}

ASSUME EntryAssumption ==
  /\ Universe \in Seq(Coins) /\ NoCoin \notin Coins
  /\ Cardinality(Coins) = Len(Universe)
  /\ SzDecimals \in [Coins -> 0..MaxDecimals]
  /\ Qtys \subseteq Nat /\ Qtys # {}
  /\ MaxMoves \in Nat /\ MaxLoads \in Nat
  /\ Books \subseteq [bid : Nat, ask : Nat]
  /\ \A b \in Books, c \in Coins : \A px \in {b.bid, b.ask} : px = 0 \/ OnGrid(px, SzDecimals[c])

VARIABLES
  listed,       \* how many coins of Universe are listed
  delisted,     \* those that are delisted, which keep their place
  book,         \* the market in each coin
  moves, loads,
  table,        \* assetIndex, szDecimals, lastMid and specCache
  quoteCache,
  loading,      \* the contexts a thread has fetched and not yet applied
  tick,         \* the tickSize of each coin the core was last told
  at,           \* where the core's submit is
  order,        \* what it was asked
  ref, seen,    \* its reference price, and the quote it comes from
  wire,         \* the request
  venue,        \* what the venue made of it
  answer,       \* the answer on its way back
  told          \* what the core was told

marketVars == <<listed, delisted, book, moves>>
tableVars == <<table, quoteCache, loading, loads, tick>>
orderVars == <<order, ref, seen, wire>>
vars == <<marketVars, tableVars, at, orderVars, venue, answer, told>>

Unknown == [index |-> -1, lastMid |-> 0, tickSize |-> 0]
NoBook == [bid |-> 0, ask |-> 0]
NotLoading == [contexts |-> <<>>, for |-> NoCoin]
Orders == [coin : Coins, market : BOOLEAN, buy : BOOLEAN, qty : Qtys, price : Nat]
RejectKinds == {"BenignPostOnlyCross", "MinNotional", "Throttled", "PositionClosed", "Permanent", "Hard"}
Accepted == {"resting", "filled"}
\* The venue turns down the whole action, or the one order in it.
Refused ==
  ({"err"} \X {"rate limit", "other"})
    \cup ({"error"} \X {"immediately match", "minimum value", "reduce only", "delisted", "other"})

TypeOK ==
  /\ listed \in 0..Len(Universe)
  /\ delisted \subseteq {Universe[i] : i \in 1..listed}
  /\ book \in [Coins -> Books]
  /\ moves \in 0..MaxMoves /\ loads \in 0..MaxLoads
  /\ table \in [Coins -> [index : -1 .. Len(Universe) - 1, lastMid : Nat, tickSize : Nat]]
  /\ quoteCache \in [Coins -> Books \cup {NoBook}]
  /\ DOMAIN loading = Loaders
  /\ tick \in [Coins -> Nat]
  /\ at \in {"idle", "quote", "mid", "size", "sent", "done"}
  /\ order \in Orders /\ ref \in Nat
  /\ venue \in {"none", "accepted", "refused"}
  /\ answer \in {<<>>} \cup ({"ok"} \X Accepted) \cup Refused
  /\ told \in {"nothing", "accepted", "unknown"} \cup RejectKinds

Init ==
  /\ listed \in 1..Len(Universe)
  /\ delisted \in SUBSET {Universe[i] : i \in 1..listed}
  /\ book \in {[c \in Coins |-> b] : b \in Books}
  /\ moves = 0 /\ loads = 0
  /\ table = [c \in Coins |-> Unknown]
  /\ quoteCache = [c \in Coins |-> NoBook]
  /\ loading = [l \in Loaders |-> NotLoading]
  /\ tick = [c \in Coins |-> 0]
  /\ at = "idle"
  /\ order = CHOOSE o \in [coin : Coins, market : {FALSE}, buy : {TRUE}, qty : Qtys, price : {0}] : TRUE
  /\ ref = 0 /\ seen = NoBook
  /\ wire = <<>>
  /\ venue = "none"
  /\ answer = <<>>
  /\ told = "nothing"

-----------------------------------------------------------------------------
(* The venue's listings and its market, up to its decision on the order.   *)

Undecided == venue = "none" /\ at # "done"

Listing ==
  /\ Undecided
  /\ listed < Len(Universe)
  /\ listed' = listed + 1
  /\ UNCHANGED <<delisted, book, moves, tableVars, at, orderVars, venue, answer, told>>

Delisting(c) ==
  /\ Undecided
  /\ c \in {Universe[i] : i \in 1..listed} \ delisted
  /\ delisted' = delisted \cup {c}
  /\ UNCHANGED <<listed, book, moves, tableVars, at, orderVars, venue, answer, told>>

MarketMoves(c) ==
  /\ Undecided
  /\ moves < MaxMoves
  /\ moves' = moves + 1
  /\ \E b \in Books : book' = [book EXCEPT ![c] = b]
  /\ UNCHANGED <<listed, delisted, tableVars, at, orderVars, venue, answer, told>>

-----------------------------------------------------------------------------
(* Tables and quotes.                                                      *)

\* midPx, or markPx where there is no mid.
RefPx(b) == IF b.bid > 0 /\ b.ask > 0 THEN (b.bid + b.ask) \div 2 ELSE b.bid + b.ask

\* getAssetContexts(): the prices of the last coins may be missing.
GetAssetContexts(l, c) ==
  /\ Undecided
  /\ loading[l] = NotLoading
  /\ loads < MaxLoads
  /\ loads' = loads + 1
  /\ \E priced \in {listed - 1, listed} :
       LET contexts == [i \in 1..listed |->
             [coin |-> Universe[i], isDelisted |-> Universe[i] \in delisted,
              refPx |-> IF i <= priced THEN RefPx(book[Universe[i]]) ELSE 0]]
       IN loading' = [loading EXCEPT ![l] = [contexts |-> contexts, for |-> c]]
  /\ UNCHANGED <<marketVars, table, quoteCache, tick, at, orderVars, venue, answer, told>>

\* start() and refreshInstruments()
Refresh(l) == GetAssetContexts(l, NoCoin)

\* instrumentSpec() of a coin that is not in the tables.
SpecMissing(l, c) == table[c] = Unknown /\ GetAssetContexts(l, c)

\* An index that counts only the coins that are still listed.
AssetIndexOfListed(contexts, i) == Cardinality({j \in 1..(i - 1) : ~contexts[j].isDelisted})

\* An index that starts at one.
AssetIndexFromOne(contexts, i) == i

AssetIndexOf(contexts, i) == i - 1

Entry(contexts, i) ==
  LET c == contexts[i].coin
  IN [index |-> AssetIndexOf(contexts, i), lastMid |-> contexts[i].refPx,
      tickSize |-> TickSize(contexts[i].refPx, SzDecimals[c])]

Loaded(contexts, c) == {i \in DOMAIN contexts : contexts[i].coin = c /\ ~contexts[i].isDelisted}

\* The rest of loadUniverse(), and of the instrumentSpec() that called it.
LoadUniverse(l) ==
  LET contexts == loading[l].contexts
      c == loading[l].for
  IN /\ Undecided
     /\ contexts # <<>>
     /\ table' = [x \in Coins |->
                    IF Loaded(contexts, x) = {} THEN table[x]
                    ELSE Entry(contexts, CHOOSE i \in Loaded(contexts, x) : TRUE)]
     /\ loading' = [loading EXCEPT ![l] = NotLoading]
     /\ tick' = IF c = NoCoin THEN tick ELSE [tick EXCEPT ![c] = table'[c].tickSize]
  /\ UNCHANGED <<marketVars, quoteCache, loads, at, orderVars, venue, answer, told>>

\* The bbo callback.
OnBbo(c) ==
  /\ Undecided
  /\ quoteCache[c] # book[c]
  /\ quoteCache' = [quoteCache EXCEPT ![c] = book[c]]
  /\ UNCHANGED <<marketVars, table, loading, loads, tick, at, orderVars, venue, answer, told>>

\* instrumentSpec(): the tick at the price of the last quote.
GetInstrumentSpec(c) ==
  /\ Undecided
  /\ table[c] # Unknown
  /\ tick' = [tick EXCEPT ![c] =
       IF quoteCache[c].bid > 0 THEN TickSize(quoteCache[c].bid, SzDecimals[c])
       ELSE table[c].tickSize]
  /\ UNCHANGED <<marketVars, table, quoteCache, loading, loads, at, orderVars, venue, answer, told>>

-----------------------------------------------------------------------------
(* Submitting.                                                             *)

Ends(outcome) == at' = "done" /\ told' = outcome

\* submitPostOnlyLimit() up to its look-ups: a price in the core's ticks.
SubmitPostOnlyLimit(c) ==
  /\ at = "idle"
  /\ tick[c] > 0
  /\ \E b \in Books, buy \in BOOLEAN, qty \in Qtys :
       /\ order' = [coin |-> c, market |-> FALSE, buy |-> buy, qty |-> qty,
                    price |-> RoundTo(IF buy THEN b.bid ELSE b.ask, tick[c])]
       /\ order'.price > 0
  /\ IF table[c] = Unknown
     THEN Ends("Permanent")
     ELSE at' = "size" /\ UNCHANGED told
  /\ ref' = order'.price
  /\ UNCHANGED <<marketVars, tableVars, seen, wire, venue, answer>>

SubmitReduceOnlyMarket(c) ==
  /\ at = "idle"
  /\ \E buy \in BOOLEAN, qty \in Qtys :
       order' = [coin |-> c, market |-> TRUE, buy |-> buy, qty |-> qty, price |-> 0]
  /\ IF table[c] = Unknown
     THEN Ends("Permanent")
     ELSE at' = "quote" /\ UNCHANGED told
  /\ UNCHANGED <<marketVars, tableVars, ref, seen, wire, venue, answer>>

\* A market order priced from the wrong side of the quote.
NearSide(quote) == IF order.buy THEN quote.bid ELSE quote.ask

FarSide(quote) == IF order.buy THEN quote.ask ELSE quote.bid

ReadQuote ==
  /\ at = "quote"
  /\ ref' = FarSide(quoteCache[order.coin])
  /\ seen' = quoteCache[order.coin]
  /\ at' = IF ref' > 0 THEN "size" ELSE "mid"
  /\ UNCHANGED <<marketVars, tableVars, order, wire, venue, answer, told>>

ReadLastMid ==
  /\ at = "mid"
  /\ LET mid == table[order.coin].lastMid
     IN /\ ref' = mid
        /\ seen' = [bid |-> mid, ask |-> mid]
        /\ IF mid = 0 THEN Ends("Hard") ELSE at' = "size" /\ UNCHANGED told
  /\ UNCHANGED <<marketVars, tableVars, order, wire, venue, answer>>

\* MARKET_SLIPPAGE
Aggressive(px) == (px * (IF order.buy THEN 105 ELSE 95)) \div 100

\* A price snapped to the tick of the tables.
PriceInTicks(px) == RoundTo(px, table[order.coin].tickSize)

OrderPrice(px) == NormalizePrice(px, SzDecimals[order.coin])

\* ExchangeClient::placeLimit()
Request(px, sz) ==
  [asset |-> table[order.coin].index, px |-> FloatToWire(px), sz |-> FloatToWire(sz),
   tif |-> IF order.market THEN "Ioc" ELSE "Alo"]

\* The order is priced, sized and sent.
PlaceLimit ==
  /\ at = "size"
  /\ LET px == OrderPrice(IF order.market THEN Aggressive(ref) ELSE ref)
         sz == NormalizeSize(order.qty, SzDecimals[order.coin])
     IN IF sz = 0
        THEN Ends("MinNotional") /\ UNCHANGED wire
        ELSE wire' = <<Request(px, sz)>> /\ at' = "sent" /\ UNCHANGED told
  /\ UNCHANGED <<marketVars, tableVars, order, ref, seen, venue, answer>>

Sent == wire[1]

Crosses(px, b) == IF order.buy THEN b.ask > 0 /\ px >= b.ask ELSE px <= b.bid

\* An IOC order needs someone to trade with, a post-only order must not meet
\* anyone.
MatchRule == (Sent.tif = "Ioc") = Crosses(WireValue(Sent.px), book[order.coin])

\* The venue decides and answers.  An answer that is ok can carry an error.
VenueAnswers ==
  /\ at = "sent" /\ venue = "none"
  /\ \/ /\ MatchRule
        /\ order.coin \notin delisted
        /\ venue' = "accepted"
        /\ answer' = <<"ok", IF Sent.tif = "Ioc" THEN "filled" ELSE "resting">>
     \/ /\ venue' = "refused"
        /\ answer' \in Refused
        /\ answer'[2] = "immediately match" => ~MatchRule
        /\ answer'[2] = "delisted" => order.coin \in delisted
  /\ UNCHANGED <<marketVars, tableVars, at, orderVars, told>>

\* classifyReject(): the first of the phrases it looks for.
ClassifyReject(reason) ==
  CASE reason = "immediately match" -> "BenignPostOnlyCross"
    [] reason = "minimum value" -> "MinNotional"
    [] reason = "rate limit" -> "Throttled"
    [] reason = "reduce only" -> "PositionClosed"
    [] reason = "delisted" -> "Permanent"
    [] reason = "other" -> "Hard"

\* Only the answer's own status is looked at.
ParseTopStatus(a) == IF a[1] = "err" THEN ClassifyReject(a[2]) ELSE "accepted"

ParseStatuses(a) == IF a \in Refused THEN ClassifyReject(a[2]) ELSE "accepted"

SubmitReturns ==
  /\ at = "sent" /\ answer # <<>>
  /\ Ends(ParseStatuses(answer))
  /\ UNCHANGED <<marketVars, tableVars, orderVars, venue, answer>>

\* A transport error, before or after the venue has decided.
SubmitThrows ==
  /\ at = "sent"
  /\ Ends("unknown")
  /\ UNCHANGED <<marketVars, tableVars, orderVars, venue, answer>>

-----------------------------------------------------------------------------

Next ==
  \/ Listing
  \/ \E c \in Coins :
       Delisting(c) \/ MarketMoves(c) \/ OnBbo(c) \/ GetInstrumentSpec(c)
         \/ SubmitPostOnlyLimit(c) \/ SubmitReduceOnlyMarket(c)
  \/ \E l \in Loaders :
       Refresh(l) \/ LoadUniverse(l) \/ \E c \in Coins : SpecMissing(l, c)
  \/ ReadQuote \/ ReadLastMid \/ PlaceLimit \/ VenueAnswers \/ SubmitReturns \/ SubmitThrows

Spec == Init /\ [][Next]_vars

-----------------------------------------------------------------------------

\* "universe[i] pairs with assetCtxs[i] and i IS the asset id used by trading
\* actions" (hyperliquid_rest_client.cpp:173): however coins are listed,
\* delisted and reloaded, an order trades the coin it was asked for.
OrdersTradeTheirCoin == wire # <<>> => Universe[Sent.asset + 1] = order.coin

\* "submit re-normalises the actual order price, so a mid-leg magnitude
\* crossing cannot produce an off-grid price" (hyperliquid_execution_gateway.
\* cpp:212): what is sent is on the venue's grid at its own magnitude, whatever
\* tick the core worked with, and a price that was on it is sent as it is.
PricesOnGrid ==
  wire # <<>> =>
    LET px == WireValue(Sent.px)
        sd == SzDecimals[order.coin]
    IN /\ OnGrid(px, sd)
       /\ WireValue(Sent.sz) > 0 /\ WireValue(Sent.sz) % StepOf(sd) = 0
       /\ ~order.market /\ OnGrid(order.price, sd) => px = order.price

\* A market close executes although the market moved since the quote it was
\* priced from, as long as it moved by no more than the slippage: rounding to
\* the grid, also across a magnitude, never takes the price inside the book.
MarketOrderStillCrosses ==
  wire # <<>> /\ order.market =>
    LET now == book[order.coin]
        px == WireValue(Sent.px)
    IN IF order.buy
       THEN now.ask > 0 /\ 100 * now.ask <= 105 * seen.ask => Crosses(px, now)
       ELSE now.bid > 0 /\ 100 * now.bid >= 95 * seen.bid => Crosses(px, now)

\* What the core is told is what the venue did: an exception with a kind means
\* that there is no order, a return that there is one.
BeliefMatchesVenue ==
  /\ told = "accepted" => venue = "accepted"
  /\ told \in RejectKinds => venue # "accepted"

=============================================================================
