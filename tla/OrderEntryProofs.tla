--------------------------- MODULE OrderEntryProofs ---------------------------
(***************************************************************************)
(* An order trades the coin it was asked for, at a price of the venue's    *)
(* grid that still crosses, and the core learns what became of it: for any *)
(* universe of coins, any market and any number of loads of the tables.    *)
(* The number a coin gets in a load is its place in the venue's list, and  *)
(* that place is the same in every load, so that tables which are stale or *)
(* were loaded by another thread in the meantime do no harm.  A price is   *)
(* on the grid because rounding keeps it on the side of every price that   *)
(* has fewer digits, the power of ten above it among them.                 *)
(***************************************************************************)
EXTENDS OrderEntry, FiniteSetTheorems, WellFoundedInduction, TLAPS

\* An asset id is the place of its coin.
PlacedAt(index, c) == index + 1 \in DOMAIN Universe /\ Universe[index + 1] = c

TableNumbered == \A c \in Coins : table[c] = Unknown \/ PlacedAt(table[c].index, c)

ListingNumbered(contexts) ==
  \A i \in DOMAIN contexts : i \in DOMAIN Universe /\ contexts[i].coin = Universe[i]

LoadsNumbered ==
  /\ DOMAIN loading = Loaders
  /\ \A l \in Loaders : ListingNumbered(loading[l].contexts)

Preparing == at \in {"quote", "mid", "size"}

\* What is being prepared is for a coin of the tables.
PreparingKnown ==
  Preparing => order.coin \in Coins /\ PlacedAt(table[order.coin].index, order.coin)

SentNumbered ==
  /\ at = "idle" \/ Preparing => wire = <<>>
  /\ wire # <<>> => PlacedAt(Sent.asset, order.coin)

IInv ==
  /\ listed \in 0..Len(Universe)
  /\ TableNumbered
  /\ LoadsNumbered
  /\ PreparingKnown
  /\ SentNumbered

UniverseTyped == Universe \in Seq(Coins) /\ DOMAIN Universe = 1..Len(Universe)

-----------------------------------------------------------------------------

LEMMA UniverseIsList == UniverseTyped
BY EntryAssumption DEF UniverseTyped

LEMMA InitHolds == Init => IInv
<1> SUFFICES ASSUME Init PROVE IInv
  OBVIOUS
<1>1. listed \in 0..Len(Universe)
  BY UniverseIsList DEF Init, UniverseTyped
<1>2. TableNumbered
  BY DEF Init, TableNumbered
<1>3. LoadsNumbered
  BY DEF Init, LoadsNumbered, ListingNumbered, NotLoading
<1>4. PreparingKnown /\ SentNumbered
  BY DEF Init, PreparingKnown, SentNumbered, Preparing
<1>5. QED
  BY <1>1, <1>2, <1>3, <1>4 DEF IInv

\* A listing in the order of the universe is numbered, whoever fetches it.
LEMMA FetchKeeps ==
  ASSUME IInv, NEW l \in Loaders, NEW c, GetAssetContexts(l, c)
  PROVE  LoadsNumbered'
<1> DEFINE Listed(priced) ==
      [i \in 1..listed |->
         [coin |-> Universe[i], isDelisted |-> Universe[i] \in delisted,
          refPx |-> IF i <= priced THEN RefPx(book[Universe[i]]) ELSE 0]]
<1>1. PICK priced \in {listed - 1, listed} :
        loading' = [loading EXCEPT ![l] = [contexts |-> Listed(priced), for |-> c]]
  BY DEF GetAssetContexts
<1>2. ListingNumbered(Listed(priced))
  BY UniverseIsList DEF UniverseTyped, ListingNumbered, IInv
<1> HIDE DEF Listed
<1>3. /\ DOMAIN loading' = Loaders
      /\ loading'[l].contexts = Listed(priced)
      /\ \A k \in Loaders : k # l => loading'[k] = loading[k]
  BY <1>1 DEF IInv, LoadsNumbered
<1>4. QED
  BY <1>2, <1>3 DEF IInv, LoadsNumbered

\* The tables get the place of each coin that was listed, and keep the others.
LEMMA LoadKeeps ==
  ASSUME IInv, NEW l \in Loaders, LoadUniverse(l)
  PROVE  /\ TableNumbered' /\ LoadsNumbered'
         /\ \A x \in Coins : PlacedAt(table[x].index, x) => PlacedAt(table'[x].index, x)
<1> DEFINE contexts == loading[l].contexts
<1>1. ListingNumbered(contexts)
  BY DEF IInv, LoadsNumbered
<1>2. /\ table' = [x \in Coins |->
                     IF Loaded(contexts, x) = {} THEN table[x]
                     ELSE Entry(contexts, CHOOSE i \in Loaded(contexts, x) : TRUE)]
      /\ loading' = [loading EXCEPT ![l] = NotLoading]
  BY DEF LoadUniverse
<1> HIDE DEF contexts
<1>3. ASSUME NEW x \in Coins
      PROVE table'[x] = table[x] \/ PlacedAt(table'[x].index, x)
  <2>1. CASE Loaded(contexts, x) = {}
    BY <1>2, <2>1
  <2>2. CASE Loaded(contexts, x) # {}
    <3>1. PICK i : i \in Loaded(contexts, x) /\ table'[x] = Entry(contexts, i)
      BY <1>2, <2>2
    <3>2. i \in DOMAIN Universe /\ Universe[i] = x
      BY <1>1, <3>1 DEF Loaded, ListingNumbered
    <3>3. i \in Nat /\ table'[x].index = i - 1
      BY <3>1, <3>2, UniverseIsList DEF UniverseTyped, Entry, AssetIndexOf
    <3>4. QED
      BY <3>2, <3>3 DEF PlacedAt
  <2>3. QED
    BY <2>1, <2>2
<1>4. LoadsNumbered'
  <2>1. ListingNumbered(NotLoading.contexts)
    BY DEF NotLoading, ListingNumbered
  <2>2. DOMAIN loading' = Loaders /\ loading'[l] = NotLoading
        /\ \A k \in Loaders : k # l => loading'[k] = loading[k]
    BY <1>2 DEF IInv, LoadsNumbered
  <2>3. QED
    BY <2>1, <2>2 DEF IInv, LoadsNumbered
<1>5. QED
  BY <1>3, <1>4 DEF IInv, TableNumbered

\* The steps of the submit itself.
SubmitStep ==
  \/ \E c \in Coins : SubmitPostOnlyLimit(c) \/ SubmitReduceOnlyMarket(c)
  \/ ReadQuote \/ ReadLastMid \/ PlaceLimit \/ SubmitReturns \/ SubmitThrows

LEMMA SubmitKeeps ==
  ASSUME IInv, SubmitStep
  PROVE  PreparingKnown' /\ SentNumbered' /\ UNCHANGED <<marketVars, tableVars>>
<1> USE DEF IInv, PreparingKnown, SentNumbered, Preparing, tableVars, Ends
<1>1. ASSUME NEW c \in Coins, SubmitPostOnlyLimit(c) \/ SubmitReduceOnlyMarket(c)
      PROVE PreparingKnown' /\ SentNumbered' /\ UNCHANGED <<marketVars, tableVars>>
  <2>1. /\ at = "idle" /\ wire = <<>> /\ wire' = wire
        /\ order'.coin = c
        /\ at' \in {"done", "size", "quote"}
        /\ at' # "done" => table[c] # Unknown
        /\ UNCHANGED <<marketVars, tableVars>>
    BY <1>1 DEF SubmitPostOnlyLimit, SubmitReduceOnlyMarket
  <2>2. at' # "done" => PlacedAt(table[c].index, c)
    BY <2>1 DEF TableNumbered
  <2>3. QED
    BY <2>1, <2>2
<1>2. CASE ReadQuote \/ ReadLastMid
  <2>1. /\ Preparing /\ at' \in {"mid", "size", "done"}
        /\ UNCHANGED <<marketVars, tableVars, order, wire>>
    BY <1>2 DEF ReadQuote, ReadLastMid
  <2>2. QED
    BY <2>1
<1>3. CASE PlaceLimit
  <2>1. /\ at = "size" /\ at' \in {"sent", "done"}
        /\ UNCHANGED <<marketVars, tableVars, order>>
    BY <1>3 DEF PlaceLimit
  <2>2. wire' = wire \/ \E px, sz : wire' = <<Request(px, sz)>>
    BY <1>3 DEF PlaceLimit
  <2>3. wire' # <<>> => wire'[1].asset = table[order.coin].index
    BY <2>1, <2>2 DEF Request
  <2>4. QED
    BY <2>1, <2>3 DEF Sent
<1>4. CASE SubmitReturns \/ SubmitThrows
  <2>1. at' = "done" /\ UNCHANGED <<marketVars, tableVars, order, wire>>
    BY <1>4 DEF SubmitReturns, SubmitThrows, orderVars
  <2>2. QED
    BY <2>1 DEF Sent
<1>5. QED
  BY <1>1, <1>2, <1>3, <1>4 DEF SubmitStep

-----------------------------------------------------------------------------

LEMMA StepKeeps == IInv /\ [Next]_vars => IInv'
<1> SUFFICES ASSUME IInv, [Next]_vars PROVE IInv'
  OBVIOUS
<1>1. CASE SubmitStep
  <2>1. PreparingKnown' /\ SentNumbered' /\ UNCHANGED <<marketVars, tableVars>>
    BY <1>1, SubmitKeeps
  <2>2. QED
    BY <2>1 DEF IInv, TableNumbered, LoadsNumbered, marketVars, tableVars
<1>2. ASSUME NEW l \in Loaders, NEW c, GetAssetContexts(l, c) PROVE IInv'
  <2>1. UNCHANGED <<marketVars, table, at, orderVars>>
    BY <1>2 DEF GetAssetContexts
  <2>2. QED
    BY <1>2, <2>1, FetchKeeps DEF IInv, TableNumbered, PreparingKnown, SentNumbered, Preparing,
         Sent, marketVars, orderVars
<1>3. ASSUME NEW l \in Loaders, LoadUniverse(l) PROVE IInv'
  <2>1. UNCHANGED <<marketVars, at, orderVars>>
    BY <1>3 DEF LoadUniverse
  <2>2. /\ TableNumbered' /\ LoadsNumbered'
        /\ \A x \in Coins : PlacedAt(table[x].index, x) => PlacedAt(table'[x].index, x)
    BY <1>3, LoadKeeps
  <2>3. QED
    BY <2>1, <2>2 DEF IInv, PreparingKnown, SentNumbered, Preparing, Sent, marketVars, orderVars
<1>4. CASE \/ Listing \/ VenueAnswers \/ UNCHANGED vars
           \/ \E c \in Coins : Delisting(c) \/ MarketMoves(c) \/ OnBbo(c) \/ GetInstrumentSpec(c)
  <2>1. /\ UNCHANGED <<table, loading, at, orderVars>>
        /\ listed' = listed \/ (listed < Len(Universe) /\ listed' = listed + 1)
    BY <1>4 DEF Listing, VenueAnswers, vars, Delisting, MarketMoves, OnBbo, GetInstrumentSpec,
         marketVars, tableVars
  <2>2. listed' \in 0..Len(Universe)
    BY <2>1, UniverseIsList DEF UniverseTyped, IInv
  <2>3. QED
    BY <2>1, <2>2 DEF IInv, TableNumbered, LoadsNumbered, PreparingKnown, SentNumbered,
         Preparing, Sent, orderVars
<1>5. QED
  BY <1>1, <1>2, <1>3, <1>4 DEF Next, SubmitStep, Refresh, SpecMissing

\* "universe[i] pairs with assetCtxs[i] and i IS the asset id used by trading
\* actions" (hyperliquid_rest_client.cpp:173): an order is sent with the id of
\* its own coin, whatever was listed, delisted and loaded before and meanwhile.
THEOREM OrdersNeverTradeAnotherCoin == Spec => []OrdersTradeTheirCoin
<1>1. IInv => OrdersTradeTheirCoin
  BY DEF IInv, SentNumbered, PlacedAt, OrdersTradeTheirCoin
<1>2. QED
  BY InitHolds, StepKeeps, <1>1, PTL DEF Spec

-----------------------------------------------------------------------------
(* Induction.  The provers cannot instantiate the library's induction      *)
(* theorems, but they can use that a set of numbers has a least element:   *)
(* what fails for some number fails for a least one, and holds below it.   *)

\* A set of natural numbers has a least element.
LEMMA LeastNat ==
  ASSUME NEW T \in SUBSET Nat, T # {}
  PROVE  \E n \in T : \A m \in T : n <= m
<1>1. PICK k \in T : TRUE
  OBVIOUS
<1> DEFINE Below == {0..i : i \in T \cap 0..k}
<1>2. Below \subseteq FiniteSubsetsOf(0..k) /\ Below # {}
  <2>1. IsFiniteSet(0..k)
    BY <1>1, FS_Interval
  <2>2. ASSUME NEW i \in T \cap 0..k PROVE 0..i \in SUBSET (0..k) /\ IsFiniteSet(0..i)
    <3>1. 0..i \in SUBSET (0..k)
      BY <1>1
    <3> QED BY <2>1, <3>1, FS_Subset
  <2>3. k \in T \cap 0..k
    BY <1>1
  <2> QED BY <2>2, <2>3 DEF FiniteSubsetsOf
<1>3. PICK u \in Below : \A v \in Below : <<v, u>> \notin StrictSubsetOrdering(0..k)
  <2>1. IsWellFoundedOn(StrictSubsetOrdering(0..k), FiniteSubsetsOf(0..k))
    BY <1>1, FS_Interval, FS_StrictSubsetOrderingWellFounded
  <2> HIDE DEF Below
  <2> QED BY <1>2, <2>1, WFMin
<1>4. PICK n \in T \cap 0..k : u = 0..n
  OBVIOUS
<1>5. ASSUME NEW m \in T, m < n PROVE FALSE
  <2>1. m \in T \cap 0..k /\ 0..m \in SUBSET (0..k) /\ 0..n \in SUBSET (0..k)
    BY <1>1, <1>4, <1>5
  <2>2. 0..m \subseteq 0..n /\ 0..m # 0..n
    <3>1. n \in 0..n /\ n \notin 0..m
      BY <1>4, <1>5
    <3> QED BY <1>4, <1>5, <3>1
  <2>3. <<0..m, 0..n>> \in StrictSubsetOrdering(0..k)
    BY <2>1, <2>2 DEF StrictSubsetOrdering
  <2> QED BY <1>3, <1>4, <2>1, <2>3
<1> QED
  BY <1>4, <1>5

\* The first powers of ten, as a function.
Powers(g, n) == g[0] = 1 /\ \A i \in 1..n : g[i] = 10 * g[i - 1]

LEMMA PowersExist == \A n \in Nat : \E g : Powers(g, n)
<1> DEFINE T == {n \in Nat : ~ \E g : Powers(g, n)}
<1> SUFFICES ASSUME T # {} PROVE FALSE
  OBVIOUS
<1>1. PICK n \in T : \A m \in T : n <= m
  BY LeastNat
<1>2. n # 0
  <2>1. Powers([i \in Nat |-> 1], 0)
    BY DEF Powers
  <2> QED BY <2>1
<1>3. PICK g : Powers(g, n - 1)
  <2>1. n - 1 \in Nat /\ n - 1 \notin T
    BY <1>1, <1>2
  <2> QED BY <2>1
<1> DEFINE h == [i \in Nat |-> IF i = n THEN 10 * g[n - 1] ELSE g[i]]
<1>4. Powers(h, n)
  BY <1>1, <1>2, <1>3 DEF Powers
<1> QED
  BY <1>1, <1>4

LEMMA PowersUnique ==
  ASSUME NEW n \in Nat, NEW g, NEW h, Powers(g, n), Powers(h, n)
  PROVE  \A i \in 0..n : g[i] = h[i]
<1> DEFINE T == {i \in 0..n : g[i] # h[i]}
<1> SUFFICES ASSUME T # {} PROVE FALSE
  OBVIOUS
<1>1. PICK i \in T : \A j \in T : i <= j
  <2>1. T \in SUBSET Nat
    OBVIOUS
  <2> HIDE DEF T
  <2> QED BY <2>1, LeastNat
<1>2. i \in 1..n /\ i - 1 \in 0..n /\ i - 1 \notin T
  BY <1>1 DEF Powers
<1> QED
  BY <1>1, <1>2 DEF Powers

LEMMA Pow10Steps == Pow10[0] = 1 /\ \A n \in Nat \ {0} : Pow10[n] = 10 * Pow10[n - 1]
<1> DEFINE G(n) == CHOOSE g : Powers(g, n)
           F == [n \in Nat |-> G(n)[n]]
<1>1. \A n \in Nat : Powers(G(n), n)
  BY PowersExist
<1> HIDE DEF G
<1>2. F[0] = 1
  BY <1>1 DEF Powers
<1>3. ASSUME NEW n \in Nat \ {0} PROVE F[n] = 10 * F[n - 1]
  <2>1. n - 1 \in Nat /\ n \in 1..n /\ n - 1 \in 0..(n - 1)
    BY <1>3
  <2>2. Powers(G(n), n) /\ Powers(G(n), n - 1) /\ Powers(G(n - 1), n - 1)
    <3>1. Powers(G(n), n) /\ Powers(G(n - 1), n - 1)
      BY <1>1, <2>1
    <3> QED BY <2>1, <3>1 DEF Powers
  <2>3. G(n)[n] = 10 * G(n)[n - 1]
    BY <2>1, <2>2 DEF Powers
  <2>4. G(n)[n - 1] = G(n - 1)[n - 1]
    BY <2>1, <2>2, PowersUnique
  <2> QED BY <2>1, <2>3, <2>4
<1>4. F = [n \in Nat |-> IF n = 0 THEN 1 ELSE 10 * F[n - 1]]
  BY <1>2, <1>3
<1> HIDE DEF F
<1>5. Pow10 = [n \in Nat |-> IF n = 0 THEN 1 ELSE 10 * Pow10[n - 1]]
  <2>1. \E f : f = [n \in Nat |-> IF n = 0 THEN 1 ELSE 10 * f[n - 1]]
    BY <1>4
  <2> QED BY <2>1 DEF Pow10
<1> QED
  BY <1>5

LEMMA Pow10Type == \A n \in Nat : Pow10[n] \in Nat \ {0}
<1> DEFINE T == {n \in Nat : Pow10[n] \notin Nat \ {0}}
<1> SUFFICES ASSUME T # {} PROVE FALSE
  OBVIOUS
<1>1. PICK n \in T : \A m \in T : n <= m
  <2>1. T \in SUBSET Nat
    OBVIOUS
  <2> HIDE DEF T
  <2> QED BY <2>1, LeastNat
<1>2. n # 0 /\ n \in Nat
  BY <1>1, Pow10Steps
<1>3. n - 1 \in Nat /\ Pow10[n - 1] \in Nat \ {0}
  BY <1>1, <1>2
<1> QED
  BY <1>1, <1>2, <1>3, Pow10Steps

LEMMA Pow10Sum == \A a, b \in Nat : Pow10[a + b] = Pow10[a] * Pow10[b]
<1> SUFFICES ASSUME NEW a \in Nat PROVE \A b \in Nat : Pow10[a + b] = Pow10[a] * Pow10[b]
  OBVIOUS
<1> DEFINE T == {b \in Nat : Pow10[a + b] # Pow10[a] * Pow10[b]}
<1> SUFFICES ASSUME T # {} PROVE FALSE
  OBVIOUS
<1>1. PICK b \in T : \A m \in T : b <= m
  <2>1. T \in SUBSET Nat
    OBVIOUS
  <2> HIDE DEF T
  <2> QED BY <2>1, LeastNat
<1>2. b # 0 /\ b \in Nat
  BY <1>1, Pow10Steps, Pow10Type
<1>3. b - 1 \in Nat /\ Pow10[a + (b - 1)] = Pow10[a] * Pow10[b - 1]
  BY <1>1, <1>2
<1>4. Pow10[a + b] = 10 * Pow10[a + (b - 1)] /\ Pow10[b] = 10 * Pow10[b - 1]
  <2>1. a + b \in Nat \ {0} /\ (a + b) - 1 = a + (b - 1)
    BY <1>2
  <2>2. Pow10[a + b] = 10 * Pow10[(a + b) - 1]
    BY <2>1, Pow10Steps
  <2> QED BY <1>2, <2>1, <2>2, Pow10Steps
<1>5. Pow10[a + b] = Pow10[a] * Pow10[b]
  <2>1. Pow10[a] \in Nat /\ Pow10[b - 1] \in Nat
    BY <1>3, Pow10Type
  <2>2. \A x, y \in Nat : 10 * (x * y) = x * (10 * y)
    OBVIOUS
  <2> QED BY <1>3, <1>4, <2>1, <2>2
<1> QED
  BY <1>1, <1>5

LEMMA Pow10Grows == \A n \in Nat : n < Pow10[n]
<1> DEFINE T == {n \in Nat : ~(n < Pow10[n])}
<1> SUFFICES ASSUME T # {} PROVE FALSE
  OBVIOUS
<1>1. PICK n \in T : \A m \in T : n <= m
  <2>1. T \in SUBSET Nat
    OBVIOUS
  <2> HIDE DEF T
  <2> QED BY <2>1, LeastNat
<1>2. n # 0 /\ n \in Nat
  BY <1>1, Pow10Steps
<1>3. n - 1 \in Nat /\ n - 1 < Pow10[n - 1]
  BY <1>1, <1>2
<1>4. Pow10[n] = 10 * Pow10[n - 1] /\ Pow10[n - 1] \in Nat
  BY <1>2, <1>3, Pow10Steps, Pow10Type
<1> QED
  BY <1>1, <1>2, <1>3, <1>4

LEMMA DivMod ==
  ASSUME NEW x \in Int, NEW s \in Nat \ {0}
  PROVE  /\ x \div s \in Int /\ x % s \in 0..(s - 1) /\ x = s * (x \div s) + (x % s)
OBVIOUS

LEMMA Multiple ==
  ASSUME NEW x \in Nat, NEW s \in Nat \ {0}
  PROVE  /\ x % s = 0 => x \div s \in Nat /\ x = (x \div s) * s
         /\ \A k \in Nat : x = k * s => x % s = 0 /\ x \div s = k
<1>1. x \div s \in Int /\ x % s \in 0..(s - 1) /\ x = s * (x \div s) + (x % s)
  BY DivMod
<1> QED
  BY <1>1

-----------------------------------------------------------------------------
(* Rounding.                                                               *)

\* Rounding gives a multiple of the step, and takes no number across one.
LEMMA Rounding ==
  ASSUME NEW x \in Nat, NEW s \in Nat \ {0}
  PROVE  \E q \in Nat :
           /\ RoundTo(x, s) = q * s
           /\ s <= 2 * x => q > 0
           /\ \A k \in Nat : (k * s <= x => k <= q) /\ (x <= k * s => q <= k)
<1> DEFINE n == 2 * x + s
           w == 2 * s
           q == n \div w
<1>1. n \in Nat /\ w \in Nat \ {0}
  OBVIOUS
<1>2. q \in Int /\ n % w \in 0..(w - 1) /\ n = w * q + (n % w)
  <2> HIDE DEF n, w
  <2> QED BY <1>1, DivMod
<1>3. PICK r \in 0..(w - 1) : n = w * q + r
  BY <1>2
<1>4. RoundTo(x, s) = q * s
  BY DEF RoundTo
<1> HIDE DEF q
<1>5. 2 * x + s = 2 * (s * q) + r /\ r >= 0 /\ r < 2 * s /\ s * q \in Int
  <2>1. \A a, b \in Int : (2 * a) * b = 2 * (a * b)
    OBVIOUS
  <2>2. w * q = 2 * (s * q)
    BY <1>2, <2>1
  <2> QED BY <1>2, <1>3, <2>2
<1>6. q \in Nat
  <2>1. q < 0 => s * q <= -s
    BY <1>2
  <2> QED BY <1>2, <1>5, <2>1
<1>7. s <= 2 * x => q > 0
  <2>1. q = 0 => s * q = 0
    BY <1>2
  <2> QED BY <1>5, <1>6, <2>1
<1>8. ASSUME NEW k \in Nat, k * s <= x PROVE k <= q
  <2>1. q + 1 <= k => s * q + s <= k * s
    <3>1. \A a, b, c \in Nat : a + 1 <= b => c * a + c <= b * c
      OBVIOUS
    <3> QED BY <1>6, <3>1
  <2>2. k * s \in Nat
    OBVIOUS
  <2> QED BY <1>5, <1>6, <1>8, <2>1, <2>2
<1>9. ASSUME NEW k \in Nat, x <= k * s PROVE q <= k
  <2>1. k + 1 <= q => k * s + s <= s * q
    <3>1. \A a, b, c \in Nat : a + 1 <= b => a * c + c <= c * b
      OBVIOUS
    <3> QED BY <1>6, <3>1
  <2>2. k * s \in Nat
    OBVIOUS
  <2> QED BY <1>5, <1>6, <1>9, <2>1, <2>2
<1> QED
  BY <1>4, <1>6, <1>7, <1>8, <1>9

\* Steps: powers of ten, each a multiple of the finer ones.
LEMMA Steps ==
  /\ StepOf(Scale) = 1
  /\ \A d \in 0..Scale : StepOf(d) \in Nat \ {0}
  /\ \A d, e \in 0..Scale : d <= e => StepOf(d) = Pow10[e - d] * StepOf(e)
<1>1. Scale \in Nat
  BY GridAssumption
<1>2. StepOf(Scale) = 1
  BY <1>1, Pow10Steps DEF StepOf
<1>3. \A d \in 0..Scale : StepOf(d) \in Nat \ {0}
  BY <1>1, Pow10Type DEF StepOf
<1>4. ASSUME NEW d \in 0..Scale, NEW e \in 0..Scale, d <= e
      PROVE  StepOf(d) = Pow10[e - d] * StepOf(e)
  <2>1. e - d \in Nat /\ Scale - e \in Nat /\ (e - d) + (Scale - e) = Scale - d
    BY <1>1, <1>4
  <2> QED BY <2>1, Pow10Sum DEF StepOf
<1> QED
  BY <1>2, <1>3, <1>4

\* std::floor(std::log10(px)) of a price.
LEMMA MagnitudeOf ==
  ASSUME NEW px \in Nat \ {0}
  PROVE  /\ Magnitude(px) \in Int /\ Magnitude(px) + Scale \in Nat
         /\ Pow10[Magnitude(px) + Scale] <= px /\ px < Pow10[Magnitude(px) + Scale + 1]
<1>1. Scale \in Nat
  BY GridAssumption
<1> DEFINE T == {n \in Nat : px < 10 * Pow10[n]}
<1>2. px \in T
  <2>1. px < Pow10[px] /\ Pow10[px] \in Nat
    BY Pow10Grows, Pow10Type
  <2> QED BY <2>1
<1>3. PICK n \in T : \A k \in T : n <= k
  <2>1. T \in SUBSET Nat /\ T # {}
    BY <1>2
  <2> HIDE DEF T
  <2> QED BY <2>1, LeastNat
<1>4. Pow10[n] <= px
  <2>1. CASE n = 0
    BY <2>1, Pow10Steps
  <2>2. CASE n # 0
    <3>1. n - 1 \in Nat /\ n - 1 \notin T
      BY <1>3, <2>2
    <3>2. ~(px < 10 * Pow10[n - 1]) /\ Pow10[n] = 10 * Pow10[n - 1]
      BY <1>3, <2>2, <3>1, Pow10Steps
    <3>3. Pow10[n] \in Nat
      BY <1>3, Pow10Type
    <3> QED BY <3>2, <3>3
  <2> QED BY <2>1, <2>2
<1>5. n <= px
  BY <1>2, <1>3
<1> DEFINE m == n - Scale
<1>6. m \in -Scale .. px /\ m + Scale = n
  BY <1>1, <1>3, <1>5
<1>7. \E e \in -Scale .. px : Pow10[e + Scale] <= px /\ px < 10 * Pow10[e + Scale]
  BY <1>3, <1>4, <1>6
<1>8. /\ Magnitude(px) \in -Scale .. px
      /\ Pow10[Magnitude(px) + Scale] <= px /\ px < 10 * Pow10[Magnitude(px) + Scale]
  BY <1>7 DEF Magnitude
<1>9. Magnitude(px) \in Int /\ Magnitude(px) + Scale \in Nat
  BY <1>1, <1>8
<1> DEFINE a == Magnitude(px) + Scale
<1>10. Pow10[a + 1] = 10 * Pow10[a]
  <2>1. a + 1 \in Nat \ {0} /\ (a + 1) - 1 = a
    BY <1>9
  <2>2. Pow10[a + 1] = 10 * Pow10[(a + 1) - 1]
    BY <2>1, Pow10Steps
  <2> QED BY <2>1, <2>2
<1> QED
  BY <1>8, <1>9, <1>10

\* The decimals of a price: as many as its magnitude and the coin allow.
LEMMA Decimals ==
  ASSUME NEW px \in Nat, NEW sd \in 0..MaxDecimals
  PROVE  /\ AllowedDecimals(px, sd) \in 0..(MaxDecimals - sd)
         /\ AllowedDecimals(px, sd) \in 0..Scale
         /\ px > 0 =>
              /\ AllowedDecimals(px, sd) > 0 => AllowedDecimals(px, sd) <= SigFigs - 1 - Magnitude(px)
              /\ AllowedDecimals(px, sd) < MaxDecimals - sd =>
                   SigFigs - 1 - Magnitude(px) <= AllowedDecimals(px, sd)
<1>1. /\ Scale \in Nat /\ SigFigs \in Nat /\ MaxDecimals \in Nat
      /\ MaxDecimals <= Scale /\ Scale <= 8
  BY GridAssumption
<1>2. px > 0 => Magnitude(px) \in Int
  BY MagnitudeOf
<1> QED
  BY <1>1, <1>2 DEF AllowedDecimals, Clamp, SmallerOf

\* The power of ten at a price's magnitude, when its step is not the finest.
LEMMA PowerBelow ==
  ASSUME NEW px \in Nat \ {0}, NEW sd \in 0..MaxDecimals,
         AllowedDecimals(px, sd) < MaxDecimals - sd
  PROVE  \E k \in Nat \ {0} :
           /\ Pow10[Magnitude(px) + Scale] = k * StepOf(AllowedDecimals(px, sd))
           /\ k * StepOf(AllowedDecimals(px, sd)) <= px
<1> DEFINE d == AllowedDecimals(px, sd)
           m == Magnitude(px)
<1>1. /\ d \in 0..Scale /\ (d > 0 => d <= SigFigs - 1 - m) /\ SigFigs - 1 - m <= d
      /\ SigFigs \in Nat \ {0} /\ Scale \in Nat
  BY Decimals, GridAssumption
<1>2. m \in Int /\ Pow10[m + Scale] <= px /\ m + Scale \in Nat
  BY MagnitudeOf
<1> HIDE DEF d, m
<1>3. m + d \in Nat /\ Scale - d \in Nat /\ (m + d) + (Scale - d) = m + Scale
  BY <1>1, <1>2
<1>4. Pow10[m + Scale] = Pow10[m + d] * StepOf(d) /\ Pow10[m + d] \in Nat \ {0}
  BY <1>3, Pow10Sum, Pow10Type DEF StepOf
<1> QED
  BY <1>2, <1>4 DEF d, m

\* A price of the grid is a multiple of the step at any price, or has more
\* decimals than are allowed there and is below that price's magnitude.
LEMMA GridPrice ==
  ASSUME NEW x \in Nat \ {0}, NEW y \in Nat, NEW sd \in 0..MaxDecimals, OnGrid(y, sd)
  PROVE  \/ \E k \in Nat : y = k * StepOf(AllowedDecimals(x, sd))
         \/ AllowedDecimals(x, sd) < MaxDecimals - sd /\ y < Pow10[Magnitude(x) + Scale]
<1> DEFINE d == AllowedDecimals(x, sd)
           m == Magnitude(x)
<1>1. /\ d \in 0..(MaxDecimals - sd) /\ d \in 0..Scale
      /\ d < MaxDecimals - sd => SigFigs - 1 - m <= d
      /\ SigFigs \in Nat \ {0} /\ Scale \in Nat /\ MaxDecimals \in Nat /\ MaxDecimals <= Scale
  <2>1. SigFigs \in Nat \ {0} /\ Scale \in Nat /\ MaxDecimals \in Nat /\ MaxDecimals <= Scale
    BY GridAssumption
  <2>2. x \in Nat /\ x > 0
    OBVIOUS
  <2> QED BY <2>1, <2>2, Decimals
<1>2. m \in Int /\ m + Scale \in Nat
  BY MagnitudeOf
<1> HIDE DEF d, m
<1>3. ASSUME NEW e \in 0..Scale, e <= d, y % StepOf(e) = 0 PROVE \E k \in Nat : y = k * StepOf(d)
  <2>1. StepOf(e) = Pow10[d - e] * StepOf(d) /\ StepOf(e) \in Nat \ {0} /\ StepOf(d) \in Nat
    BY <1>1, <1>3, Steps
  <2>2. y \div StepOf(e) \in Nat /\ y = (y \div StepOf(e)) * StepOf(e)
    BY <1>3, <2>1, Multiple
  <2>3. d - e \in Nat /\ Pow10[d - e] \in Nat
    BY <1>1, <1>3, Pow10Type
  <2>4. \A a, b, c \in Nat : a * (b * c) = (a * b) * c /\ a * b \in Nat
    OBVIOUS
  <2> DEFINE a == y \div StepOf(e)
             b == Pow10[d - e]
             c == StepOf(d)
  <2>5. a \in Nat /\ b \in Nat /\ c \in Nat /\ y = a * (b * c)
    BY <2>1, <2>2, <2>3
  <2> HIDE DEF a, b, c
  <2>6. y = (a * b) * c /\ a * b \in Nat
    BY <2>4, <2>5
  <2> QED BY <2>6 DEF c
<1>4. CASE y % StepOf(0) = 0
  BY <1>1, <1>3, <1>4 DEF d
<1>5. ASSUME NEW e \in 1..(MaxDecimals - sd), y % StepOf(e) = 0, y \div StepOf(e) < Pow10[SigFigs]
      PROVE  \/ \E k \in Nat : y = k * StepOf(d)
             \/ d < MaxDecimals - sd /\ y < Pow10[m + Scale]
  <2>1. CASE e <= d
    BY <1>1, <1>3, <1>5, <2>1
  <2>2. CASE d < e
    <3>1. e \in 0..Scale /\ StepOf(e) \in Nat \ {0}
      BY <1>1, <1>5, Steps
    <3>2. y \div StepOf(e) \in Nat /\ y = (y \div StepOf(e)) * StepOf(e)
      BY <1>5, <3>1, Multiple
    <3>3. y < Pow10[SigFigs] * StepOf(e)
      <4>1. Pow10[SigFigs] \in Nat
        BY <1>1, Pow10Type
      <4>2. \A a, b, s \in Nat : a < b /\ s # 0 => a * s < b * s
        OBVIOUS
      <4> QED BY <1>5, <3>1, <3>2, <4>1, <4>2
    <3>4. Pow10[SigFigs] * StepOf(e) = Pow10[SigFigs + (Scale - e)]
      BY <1>1, <3>1, Pow10Sum DEF StepOf
    <3> DEFINE low == SigFigs + (Scale - e)
               high == m + Scale
    <3>5. low \in Nat /\ high - low \in Nat /\ high = low + (high - low)
      BY <1>1, <1>2, <2>2, <3>1
    <3>6. Pow10[low] <= Pow10[high]
      <4> HIDE DEF low, high
      <4>1. Pow10[high] = Pow10[low] * Pow10[high - low]
        BY <3>5, Pow10Sum
      <4>2. Pow10[low] \in Nat /\ Pow10[high - low] \in Nat \ {0}
        BY <3>5, Pow10Type
      <4>3. \A a \in Nat, b \in Nat \ {0} : a <= a * b
        OBVIOUS
      <4> QED BY <4>1, <4>2, <4>3
    <3>7. Pow10[low] \in Nat /\ Pow10[high] \in Nat
      BY <1>2, <3>5, Pow10Type
    <3>8. y < Pow10[low]
      BY <3>3, <3>4
    <3>9. y < Pow10[high]
      <4> HIDE DEF low, high
      <4> QED BY <3>6, <3>7, <3>8
    <3> QED BY <1>1, <1>5, <2>2, <3>9
  <2> QED BY <1>1, <1>5, <2>1, <2>2
<1> QED
  BY <1>4, <1>5 DEF OnGrid, d, m

\* The normalisation takes no price across one of the grid.
LEMMA GridSide ==
  ASSUME NEW x \in Nat \ {0}, NEW y \in Nat, NEW sd \in 0..MaxDecimals, OnGrid(y, sd)
  PROVE  /\ y <= x => y <= NormalizePrice(x, sd)
         /\ x <= y => NormalizePrice(x, sd) <= y
<1> DEFINE d == AllowedDecimals(x, sd)
           s == StepOf(d)
<1>1. s \in Nat \ {0}
  BY Decimals, Steps
<1>2. PICK q \in Nat :
        /\ NormalizePrice(x, sd) = q * s
        /\ \A k \in Nat : (k * s <= x => k <= q) /\ (x <= k * s => q <= k)
  <2> HIDE DEF s
  <2>1. NormalizePrice(x, sd) = RoundTo(x, s)
    BY DEF NormalizePrice, s, d
  <2> QED BY <1>1, <2>1, Rounding
<1>3. \A j, k \in Nat : j <= k => j * s <= k * s
  <2> HIDE DEF s
  <2>1. \A j, k, t \in Nat : j <= k => j * t <= k * t
    OBVIOUS
  <2> QED BY <1>1, <2>1
<1>4. CASE \E k \in Nat : y = k * s
  BY <1>2, <1>3, <1>4
<1>5. CASE d < MaxDecimals - sd /\ y < Pow10[Magnitude(x) + Scale]
  <2>1. PICK k \in Nat \ {0} : Pow10[Magnitude(x) + Scale] = k * s /\ k * s <= x
    BY <1>5, PowerBelow
  <2>2. k <= q /\ k * s <= q * s /\ k * s \in Nat /\ q * s \in Nat
    <3> HIDE DEF s
    <3> QED BY <1>1, <1>2, <1>3, <2>1
  <2>3. y < k * s
    BY <1>5, <2>1
  <2> HIDE DEF s
  <2> QED BY <1>2, <2>1, <2>2, <2>3
<1> QED
  BY <1>4, <1>5, GridPrice

\* A price of the grid stays as it is.
LEMMA GridKept ==
  ASSUME NEW y \in Nat, NEW sd \in 0..MaxDecimals, OnGrid(y, sd)
  PROVE  NormalizePrice(y, sd) = y
<1>1. y \in Nat \ {0}
  BY DEF OnGrid
<1>2. y <= NormalizePrice(y, sd) /\ NormalizePrice(y, sd) <= y
  BY <1>1, GridSide
<1>3. NormalizePrice(y, sd) \in Nat
  <2>1. StepOf(AllowedDecimals(y, sd)) \in Nat \ {0}
    BY Decimals, Steps
  <2> DEFINE s == StepOf(AllowedDecimals(y, sd))
  <2> HIDE DEF s
  <2>2. PICK q \in Nat : RoundTo(y, s) = q * s
    BY <2>1, Rounding DEF s
  <2>3. q * s \in Nat
    BY <2>1 DEF s
  <2> QED BY <2>2, <2>3 DEF NormalizePrice, s
<1> QED
  BY <1>2, <1>3

\* A normalised price is a multiple of its step; it is positive unless it was
\* below half the finest step.
LEMMA Normalized ==
  ASSUME NEW x \in Nat, NEW sd \in 0..MaxDecimals
  PROVE  \E q \in Nat :
           /\ NormalizePrice(x, sd) = q * StepOf(AllowedDecimals(x, sd))
           /\ \A k \in Nat :
                /\ k * StepOf(AllowedDecimals(x, sd)) <= x => k <= q
                /\ x <= k * StepOf(AllowedDecimals(x, sd)) => q <= k
           /\ x > 0 /\ StepOf(MaxDecimals - sd) <= 2 * x => q > 0
<1> DEFINE d == AllowedDecimals(x, sd)
           s == StepOf(d)
<1>1. s \in Nat \ {0}
  BY Decimals, Steps
<1> HIDE DEF s
<1>2. PICK q \in Nat :
        /\ RoundTo(x, s) = q * s
        /\ s <= 2 * x => q > 0
        /\ \A k \in Nat : (k * s <= x => k <= q) /\ (x <= k * s => q <= k)
  BY <1>1, Rounding
<1>3. ASSUME x > 0, StepOf(MaxDecimals - sd) <= 2 * x PROVE q > 0
  <2>1. CASE d = MaxDecimals - sd
    BY <1>2, <1>3, <2>1 DEF s
  <2>2. CASE d # MaxDecimals - sd
    <3>1. d < MaxDecimals - sd
      <4>1. d \in 0..(MaxDecimals - sd) /\ MaxDecimals \in Nat
        BY Decimals, GridAssumption
      <4> HIDE DEF d
      <4> QED BY <2>2, <4>1
    <3>2. PICK k \in Nat \ {0} : k * s <= x
      BY <1>3, <3>1, PowerBelow DEF s
    <3>3. k <= q
      BY <1>2, <3>2
    <3> QED BY <3>2, <3>3
  <2> QED BY <2>1, <2>2
<1> QED
  BY <1>2, <1>3 DEF NormalizePrice, s

\* A normalised price is on the grid.
LEMMA NormalizedOnGrid ==
  ASSUME NEW x \in Nat, NEW sd \in 0..MaxDecimals, x > 0, StepOf(MaxDecimals - sd) <= 2 * x
  PROVE  NormalizePrice(x, sd) \in Nat /\ OnGrid(NormalizePrice(x, sd), sd)
<1> DEFINE d == AllowedDecimals(x, sd)
           m == Magnitude(x)
           s == StepOf(d)
           r == NormalizePrice(x, sd)
<1>1. /\ SigFigs \in Nat \ {0} /\ Scale \in Nat /\ MaxDecimals \in Nat /\ MaxDecimals <= Scale
  BY GridAssumption
<1>2. /\ d \in 0..(MaxDecimals - sd) /\ d \in 0..Scale
      /\ d > 0 => d <= SigFigs - 1 - m
      /\ m \in Int /\ m + Scale \in Nat /\ x < Pow10[m + Scale + 1]
  BY Decimals, MagnitudeOf
<1>3. s \in Nat \ {0}
  BY <1>2, Steps
<1>4. PICK q \in Nat :
        /\ r = q * s /\ q > 0
        /\ \A k \in Nat : x <= k * s => q <= k
  <2> HIDE DEF s, r, d
  <2>1. PICK q \in Nat :
           /\ NormalizePrice(x, sd) = q * StepOf(AllowedDecimals(x, sd))
           /\ \A k \in Nat :
                /\ k * StepOf(AllowedDecimals(x, sd)) <= x => k <= q
                /\ x <= k * StepOf(AllowedDecimals(x, sd)) => q <= k
           /\ x > 0 /\ StepOf(MaxDecimals - sd) <= 2 * x => q > 0
    BY Normalized
  <2> QED BY <2>1 DEF s, r, d
<1> HIDE DEF d, m, s, r
<1>5. r \in Nat /\ r > 0 /\ r % s = 0 /\ r \div s = q
  <2>1. r \in Nat /\ r > 0
    BY <1>3, <1>4
  <2> QED BY <1>3, <1>4, <2>1, Multiple
<1>6. CASE d = 0
  BY <1>5, <1>6 DEF OnGrid, s, r
<1>7. CASE d > 0 /\ q < Pow10[SigFigs]
  <2>1. d \in 1..(MaxDecimals - sd)
    BY <1>2, <1>7
  <2> QED BY <1>5, <1>7, <2>1 DEF OnGrid, s, r
<1>8. CASE d > 0 /\ ~(q < Pow10[SigFigs])
  <2>1. q = Pow10[SigFigs]
    <3> DEFINE low == m + Scale + 1
               high == SigFigs + (Scale - d)
    <3>1. low \in Nat /\ high - low \in Nat /\ high = low + (high - low) /\ Scale - d \in Nat
      BY <1>1, <1>2, <1>8
    <3>2. Pow10[high] = Pow10[SigFigs] * s
      BY <1>1, <3>1, Pow10Sum DEF StepOf, s
    <3>3. x < Pow10[low]
      BY <1>2
    <3> HIDE DEF low, high
    <3>4. Pow10[low] \in Nat /\ Pow10[high - low] \in Nat \ {0} /\ Pow10[high] = Pow10[low] * Pow10[high - low]
      BY <3>1, Pow10Type, Pow10Sum
    <3>5. Pow10[low] <= Pow10[high]
      <4>1. \A a \in Nat, b \in Nat \ {0} : a <= a * b
        OBVIOUS
      <4> QED BY <3>4, <4>1
    <3>6. Pow10[high] \in Nat /\ Pow10[SigFigs] \in Nat
      BY <1>1, <3>1, Pow10Type
    <3>7. x <= Pow10[high]
      BY <3>3, <3>4, <3>5, <3>6
    <3>8. q <= Pow10[SigFigs]
      BY <1>4, <3>2, <3>6, <3>7
    <3> QED BY <1>8, <3>6, <3>8
  <2> DEFINE t == StepOf(d - 1)
  <2>2. d - 1 \in 0..Scale /\ t = Pow10[1] * s /\ t \in Nat \ {0}
    <3>1. d - 1 \in 0..Scale /\ d - 1 <= d /\ d - (d - 1) = 1
      BY <1>1, <1>2, <1>8
    <3> QED BY <1>2, <3>1, Steps DEF s
  <2>3. Pow10[1] = 10 /\ Pow10[SigFigs] = 10 * Pow10[SigFigs - 1] /\ Pow10[SigFigs - 1] \in Nat \ {0}
    BY <1>1, Pow10Steps, Pow10Type
  <2>4. r = Pow10[SigFigs - 1] * t
    <3> HIDE DEF t
    <3>1. \A a, b \in Nat : (10 * a) * b = a * (10 * b)
      OBVIOUS
    <3> QED BY <1>3, <1>4, <2>1, <2>2, <2>3, <3>1
  <2>5. r % t = 0 /\ r \div t = Pow10[SigFigs - 1]
    <3> HIDE DEF t
    <3> QED BY <1>5, <2>2, <2>3, <2>4, Multiple
  <2>6. Pow10[SigFigs - 1] < Pow10[SigFigs]
    BY <2>3
  <2>7. CASE d = 1
    <3>1. d - 1 = 0
      BY <2>7
    <3> QED BY <1>5, <2>5, <3>1 DEF OnGrid, r
  <2>8. CASE d # 1
    <3>1. d - 1 \in 1..(MaxDecimals - sd)
      BY <1>1, <1>2, <1>8, <2>8
    <3> QED BY <1>5, <2>5, <2>6, <3>1 DEF OnGrid, r
  <2> QED BY <2>7, <2>8
<1>9. d = 0 \/ d > 0
  BY <1>2
<1> QED
  BY <1>5, <1>6, <1>7, <1>8, <1>9 DEF r

\* The wire format stands for the number it was made from.
LEMMA WireExact ==
  ASSUME NEW x \in Nat
  PROVE  WireValue(FloatToWire(x)) = x
<1> DEFINE T == {d \in 0..Scale : x % StepOf(d) = 0}
<1>1. Scale \in Nat
  BY GridAssumption
<1>2. Scale \in T
  <2>1. x % 1 = 0
    OBVIOUS
  <2> QED BY <1>1, <2>1, Steps
<1>3. PICK d \in T : \A e \in T : d <= e
  <2>1. T \in SUBSET Nat /\ T # {}
    BY <1>1, <1>2
  <2> HIDE DEF T
  <2> QED BY <2>1, LeastNat
<1>4. \E e \in 0..Scale : x % StepOf(e) = 0 /\ \A k \in 0..Scale : x % StepOf(k) = 0 => e <= k
  BY <1>3
<1> DEFINE c == CHOOSE e \in 0..Scale : x % StepOf(e) = 0 /\ \A k \in 0..Scale : x % StepOf(k) = 0 => e <= k
<1>5. c \in 0..Scale /\ x % StepOf(c) = 0
  BY <1>4
<1>6. FloatToWire(x) = [digits |-> x \div StepOf(c), decimals |-> c]
  BY DEF FloatToWire
<1> HIDE DEF c
<1>7. StepOf(c) \in Nat \ {0}
  BY <1>5, Steps
<1>8. (x \div StepOf(c)) * StepOf(c) = x
  BY <1>5, <1>7, Multiple
<1> QED
  BY <1>6, <1>8 DEF WireValue

-----------------------------------------------------------------------------
(* The types, and where the prices of an order come from: every price that *)
(* is kept anywhere is zero or large enough to be rounded to the grid, and *)
(* what is sent is rounded from the order's reference price.               *)

\* The finest step of a coin's prices: no smaller price is on its grid.
Finest(c) == StepOf(MaxDecimals - SzDecimals[c])

\* A price, or zero for none.
Priced(px, c) == px \in Nat /\ (px = 0 \/ Finest(c) <= px)

LoadsPriced ==
  \A l \in Loaders : \A i \in DOMAIN loading[l].contexts :
    Priced(loading[l].contexts[i].refPx, loading[l].contexts[i].coin)

TablesPriced ==
  \A c \in Coins :
    Priced(table[c].lastMid, c) /\ Priced(table[c].tickSize, c) /\ Priced(tick[c], c)

\* The reference price of an order from the moment it is sized; only market
\* orders look for one.
Referenced ==
  /\ at \in {"quote", "mid"} => order.market
  /\ at = "size" \/ wire # <<>> =>
       /\ ref # 0 /\ Priced(ref, order.coin)
       /\ ref = IF order.market THEN FarSide(seen) ELSE order.price

SentAsPriced ==
  wire # <<>> =>
    /\ WireValue(Sent.px) = OrderPrice(IF order.market THEN Aggressive(ref) ELSE ref)
    /\ WireValue(Sent.sz) = NormalizeSize(order.qty, SzDecimals[order.coin])
    /\ WireValue(Sent.sz) # 0

PriceInv == TypeOK /\ LoadsPriced /\ TablesPriced /\ Referenced /\ SentAsPriced

\* The venue's decision and its answer agree, and the core is told nothing
\* before the submit ends.
VerdictInv ==
  /\ at \notin {"sent", "done"} => venue = "none"
  /\ at # "done" => told = "nothing"
  /\ \/ answer = <<>> /\ venue = "none"
     \/ answer \in Refused /\ venue = "refused"
     \/ answer \in {"ok"} \X Accepted /\ venue = "accepted"
  /\ BeliefMatchesVenue

\* The finest step divides every price of the grid.
LEMMA FinestStep ==
  ASSUME NEW c \in Coins
  PROVE  /\ SzDecimals[c] \in 0..MaxDecimals /\ MaxDecimals - SzDecimals[c] \in 0..Scale
         /\ Finest(c) \in Nat /\ Finest(c) >= 100
         /\ \A d \in 0..(MaxDecimals - SzDecimals[c]) :
              d \in 0..Scale /\ Finest(c) <= StepOf(d) /\ StepOf(d) \in Nat \ {0}
<1> DEFINE cap == MaxDecimals - SzDecimals[c]
<1>1. Scale \in Nat /\ MaxDecimals \in Nat /\ MaxDecimals + 2 <= Scale
  BY GridAssumption
<1>2. SzDecimals[c] \in 0..MaxDecimals
  BY EntryAssumption
<1>3. cap \in Nat /\ cap + 2 <= Scale
  BY <1>1, <1>2
<1> HIDE DEF cap
<1>4. cap \in 0..Scale /\ cap + 2 \in 0..Scale /\ cap <= cap + 2 /\ (cap + 2) - cap = 2
  BY <1>1, <1>3
<1>5. StepOf(cap) >= 100 /\ StepOf(cap) \in Nat \ {0}
  <2>1. StepOf(cap) = Pow10[2] * StepOf(cap + 2)
    BY <1>4, Steps
  <2>2. StepOf(cap) \in Nat \ {0} /\ StepOf(cap + 2) \in Nat \ {0}
    BY <1>4, Steps
  <2>3. Pow10[2] = 100
    <3>1. Pow10[1] = 10 * Pow10[0] /\ Pow10[2] = 10 * Pow10[1] /\ Pow10[0] = 1
      BY Pow10Steps
    <3> QED BY <3>1
  <2> QED BY <2>1, <2>2, <2>3
<1>6. ASSUME NEW d \in 0..cap
      PROVE  d \in 0..Scale /\ StepOf(cap) <= StepOf(d) /\ StepOf(d) \in Nat \ {0}
  <2>1. d \in 0..Scale /\ d <= cap /\ cap - d \in Nat
    BY <1>1, <1>3, <1>4
  <2>2. StepOf(d) = Pow10[cap - d] * StepOf(cap) /\ StepOf(d) \in Nat \ {0}
    BY <1>4, <2>1, Steps
  <2>3. Pow10[cap - d] \in Nat \ {0}
    BY <2>1, Pow10Type
  <2>4. \A a, b \in Nat \ {0} : b <= a * b
    OBVIOUS
  <2> QED BY <1>5, <2>1, <2>2, <2>3, <2>4
<1> QED
  BY <1>2, <1>4, <1>5, <1>6 DEF cap, Finest

\* The market's prices, when there are any, are no smaller than that step.
LEMMA BooksPriced ==
  ASSUME NEW b \in Books \cup {NoBook}, NEW c \in Coins
  PROVE  /\ Priced(b.bid, c) /\ Priced(b.ask, c) /\ Priced(RefPx(b), c)
         /\ b \in Books => \A px \in {b.bid, b.ask} : px = 0 \/ OnGrid(px, SzDecimals[c])
<1>1. b.bid \in Nat /\ b.ask \in Nat
  BY EntryAssumption DEF NoBook
<1>2. b \in Books => \A px \in {b.bid, b.ask} : px = 0 \/ OnGrid(px, SzDecimals[c])
  BY EntryAssumption
<1>3. ASSUME NEW px \in Nat, OnGrid(px, SzDecimals[c]) PROVE Finest(c) <= px
  <2>1. /\ MaxDecimals - SzDecimals[c] \in Nat /\ Finest(c) \in Nat
        /\ \A d \in 0..(MaxDecimals - SzDecimals[c]) :
             d \in 0..Scale /\ Finest(c) <= StepOf(d) /\ StepOf(d) \in Nat \ {0}
    BY FinestStep
  <2>2. PICK d \in 0..(MaxDecimals - SzDecimals[c]) : px % StepOf(d) = 0 /\ px > 0
    <3> DEFINE cap == MaxDecimals - SzDecimals[c]
    <3>1. 0 \in 0..cap /\ 1..cap \subseteq 0..cap
      BY <2>1
    <3> QED BY <1>3, <3>1 DEF OnGrid
  <2>3. px \div StepOf(d) \in Nat /\ px = (px \div StepOf(d)) * StepOf(d)
    BY <2>1, <2>2, Multiple
  <2>4. \A k \in Nat, t \in Nat : k * t > 0 => t <= k * t
    OBVIOUS
  <2> QED BY <2>1, <2>2, <2>3, <2>4
<1>4. Priced(b.bid, c) /\ Priced(b.ask, c)
  <2>1. b = NoBook => b.bid = 0 /\ b.ask = 0
    BY DEF NoBook
  <2> QED BY <1>1, <1>2, <1>3, <2>1 DEF Priced
<1>5. Priced(RefPx(b), c)
  <2>1. Finest(c) \in Nat
    BY FinestStep
  <2>2. \A x, y, f \in Nat : f <= x /\ f <= y => (x + y) \div 2 \in Nat /\ f <= (x + y) \div 2
    OBVIOUS
  <2> QED BY <1>1, <1>4, <2>1, <2>2 DEF Priced, RefPx
<1> QED
  BY <1>2, <1>4, <1>5

\* So is a tick, whatever the price it is asked for.
LEMMA TicksPriced ==
  ASSUME NEW c \in Coins, NEW px \in Nat
  PROVE  TickSize(px, SzDecimals[c]) \in Nat \ {0} /\ Priced(TickSize(px, SzDecimals[c]), c)
<1>1. AllowedDecimals(px, SzDecimals[c]) \in 0..(MaxDecimals - SzDecimals[c])
  BY FinestStep, Decimals
<1> QED
  BY <1>1, FinestStep DEF TickSize, Priced

\* And a price in the core's ticks.
LEMMA RoundedPriced ==
  ASSUME NEW c \in Coins, NEW px \in Nat, NEW t \in Nat \ {0}, Priced(t, c)
  PROVE  RoundTo(px, t) \in Nat /\ Priced(RoundTo(px, t), c)
<1>1. PICK q \in Nat : RoundTo(px, t) = q * t
  BY Rounding
<1>2. Finest(c) \in Nat /\ Finest(c) <= t
  BY FinestStep DEF Priced
<1>3. \A k, n \in Nat : k * n \in Nat /\ (k * n = 0 \/ n <= k * n)
  OBVIOUS
<1>4. q * t \in Nat /\ (q * t = 0 \/ t <= q * t)
  BY <1>3
<1> DEFINE r == q * t
<1>5. r \in Nat /\ (r = 0 \/ t <= r) /\ RoundTo(px, t) = r
  BY <1>1, <1>4
<1> HIDE DEF r
<1> QED
  BY <1>2, <1>5 DEF Priced

-----------------------------------------------------------------------------

LEMMA InitPriced == Init => PriceInv /\ VerdictInv
<1> SUFFICES ASSUME Init PROVE PriceInv /\ VerdictInv
  OBVIOUS
<1>1. listed \in 1..Len(Universe) /\ Len(Universe) \in Nat /\ Universe[listed] \in Coins
  BY UniverseIsList DEF Init, UniverseTyped, Coins
<1>2. order \in Orders
  <2> DEFINE Firsts == [coin : Coins, market : {FALSE}, buy : {TRUE}, qty : Qtys, price : {0}]
  <2>1. PICK q : q \in Qtys
    BY EntryAssumption
  <2>2. [coin |-> Universe[listed], market |-> FALSE, buy |-> TRUE, qty |-> q, price |-> 0] \in Firsts
    BY <1>1, <2>1
  <2>3. order = CHOOSE o \in Firsts : TRUE
    BY DEF Init
  <2>4. order \in Firsts
    <3> HIDE DEF Firsts
    <3> QED BY <2>2, <2>3
  <2>5. /\ order = [coin |-> order.coin, market |-> FALSE, buy |-> TRUE,
                    qty |-> order.qty, price |-> 0]
        /\ order.coin \in Coins /\ order.qty \in Qtys
    BY <2>4
  <2>6. \A c \in Coins, n \in Qtys :
          [coin |-> c, market |-> FALSE, buy |-> TRUE, qty |-> n, price |-> 0] \in Orders
    BY DEF Orders
  <2> QED BY <2>5, <2>6
<1>3. PICK b \in Books : book = [c \in Coins |-> b]
  BY DEF Init
<1>4. TypeOK
  <2>1. MaxMoves \in Nat /\ MaxLoads \in Nat
    BY EntryAssumption
  <2>2. table \in [Coins -> [index : -1 .. Len(Universe) - 1, lastMid : Nat, tickSize : Nat]]
    BY <1>1 DEF Init, Unknown
  <2>3. quoteCache \in [Coins -> Books \cup {NoBook}] /\ tick \in [Coins -> Nat]
        /\ book \in [Coins -> Books] /\ DOMAIN loading = Loaders
    BY <1>3 DEF Init
  <2>4. /\ listed \in 0..Len(Universe) /\ delisted \subseteq {Universe[i] : i \in 1..listed}
        /\ moves = 0 /\ loads = 0 /\ at = "idle" /\ ref = 0
        /\ venue = "none" /\ answer = <<>> /\ told = "nothing"
    BY <1>1 DEF Init
  <2> QED BY <1>2, <2>1, <2>2, <2>3, <2>4 DEF TypeOK
<1>5. LoadsPriced
  BY DEF Init, LoadsPriced, NotLoading
<1>6. TablesPriced /\ Referenced /\ SentAsPriced
  BY DEF Init, TablesPriced, Referenced, SentAsPriced, Priced, Unknown
<1>7. VerdictInv
  BY DEF Init, VerdictInv, BeliefMatchesVenue, RejectKinds
<1> QED
  BY <1>4, <1>5, <1>6, <1>7 DEF PriceInv

\* A thread fetches what the market says, or nothing.
LEMMA FetchPriced ==
  ASSUME IInv, PriceInv, NEW l \in Loaders, NEW c, GetAssetContexts(l, c)
  PROVE  LoadsPriced' /\ DOMAIN loading' = Loaders /\ loads' \in 0..MaxLoads
<1> DEFINE Listed(priced) ==
      [i \in 1..listed |->
         [coin |-> Universe[i], isDelisted |-> Universe[i] \in delisted,
          refPx |-> IF i <= priced THEN RefPx(book[Universe[i]]) ELSE 0]]
<1>1. PICK priced \in {listed - 1, listed} :
        loading' = [loading EXCEPT ![l] = [contexts |-> Listed(priced), for |-> c]]
  BY DEF GetAssetContexts
<1>2. ASSUME NEW i \in 1..listed
      PROVE  Priced(Listed(priced)[i].refPx, Listed(priced)[i].coin)
  <2>1. i \in DOMAIN Universe /\ Universe[i] \in Coins
    BY UniverseIsList DEF UniverseTyped, Coins, PriceInv, TypeOK
  <2>2. book[Universe[i]] \in Books
    BY <2>1 DEF PriceInv, TypeOK
  <2>3. Priced(RefPx(book[Universe[i]]), Universe[i]) /\ Priced(0, Universe[i])
    BY <2>1, <2>2, BooksPriced DEF Priced
  <2> QED BY <2>3
<1>3. DOMAIN Listed(priced) = 1..listed
  OBVIOUS
<1> HIDE DEF Listed
<1>4. /\ DOMAIN loading' = Loaders
      /\ loading'[l].contexts = Listed(priced)
      /\ \A k \in Loaders : k # l => loading'[k] = loading[k]
  BY <1>1 DEF PriceInv, TypeOK
<1>5. LoadsPriced'
  BY <1>2, <1>3, <1>4 DEF PriceInv, LoadsPriced
<1>6. loads' \in 0..MaxLoads
  BY EntryAssumption DEF GetAssetContexts, PriceInv, TypeOK
<1> QED
  BY <1>4, <1>5, <1>6

\* The tables get those prices, and the ticks that go with them.
LEMMA LoadPriced ==
  ASSUME IInv, PriceInv, NEW l \in Loaders, LoadUniverse(l)
  PROVE  /\ LoadsPriced' /\ TablesPriced' /\ DOMAIN loading' = Loaders /\ tick' \in [Coins -> Nat]
         /\ table' \in [Coins -> [index : -1 .. Len(Universe) - 1, lastMid : Nat, tickSize : Nat]]
<1> DEFINE contexts == loading[l].contexts
           c == loading[l].for
           Rows == [index : -1 .. Len(Universe) - 1, lastMid : Nat, tickSize : Nat]
<1>1. /\ ListingNumbered(contexts)
      /\ \A i \in DOMAIN contexts : Priced(contexts[i].refPx, contexts[i].coin)
  BY DEF IInv, LoadsNumbered, PriceInv, LoadsPriced
<1>2. /\ table' = [x \in Coins |->
                     IF Loaded(contexts, x) = {} THEN table[x]
                     ELSE Entry(contexts, CHOOSE i \in Loaded(contexts, x) : TRUE)]
      /\ loading' = [loading EXCEPT ![l] = NotLoading]
      /\ tick' = IF c = NoCoin THEN tick ELSE [tick EXCEPT ![c] = table'[c].tickSize]
  BY DEF LoadUniverse
<1>3. LoadsPriced' /\ DOMAIN loading' = Loaders
  <2>1. DOMAIN loading' = Loaders /\ loading'[l].contexts = <<>>
        /\ \A k \in Loaders : k # l => loading'[k] = loading[k]
    BY <1>2 DEF PriceInv, TypeOK, NotLoading
  <2> QED BY <2>1 DEF PriceInv, LoadsPriced
<1> HIDE DEF contexts, c
<1>4. ASSUME NEW x \in Coins
      PROVE  /\ table'[x] \in Rows
             /\ Priced(table'[x].lastMid, x) /\ Priced(table'[x].tickSize, x)
  <2>1. CASE Loaded(contexts, x) = {}
    <3>1. table'[x] = table[x]
      BY <1>2, <2>1
    <3> QED BY <3>1 DEF PriceInv, TypeOK, TablesPriced
  <2>2. CASE Loaded(contexts, x) # {}
    <3>1. PICK i : i \in Loaded(contexts, x) /\ table'[x] = Entry(contexts, i)
      BY <1>2, <2>2
    <3>2. i \in 1..Len(Universe) /\ contexts[i].coin = x /\ Priced(contexts[i].refPx, x)
      BY <1>1, <3>1, UniverseIsList DEF Loaded, ListingNumbered, UniverseTyped
    <3>3. Len(Universe) \in Nat
      BY UniverseIsList DEF UniverseTyped
    <3>4. /\ contexts[i].refPx \in Nat
          /\ TickSize(contexts[i].refPx, SzDecimals[x]) \in Nat
          /\ Priced(TickSize(contexts[i].refPx, SzDecimals[x]), x)
      BY <3>2, TicksPriced DEF Priced
    <3>5. table'[x] = [index |-> i - 1, lastMid |-> contexts[i].refPx,
                       tickSize |-> TickSize(contexts[i].refPx, SzDecimals[x])]
      BY <3>1, <3>2 DEF Entry, AssetIndexOf
    <3>6. i - 1 \in -1 .. Len(Universe) - 1
      BY <3>2, <3>3
    <3> QED BY <3>2, <3>4, <3>5, <3>6
  <2> QED BY <2>1, <2>2
<1>5. table' \in [Coins -> Rows]
  <2>1. table' = [x \in Coins |-> table'[x]]
    BY <1>2
  <2> QED BY <1>4, <2>1
<1>6. ASSUME NEW x \in Coins PROVE Priced(tick'[x], x)
  <2>1. tick \in [Coins -> Nat] /\ Priced(tick[x], x)
    BY DEF PriceInv, TypeOK, TablesPriced
  <2>2. tick'[x] = tick[x] \/ tick'[x] = table'[x].tickSize
    BY <1>2, <2>1
  <2> QED BY <1>4, <2>1, <2>2
<1>7. tick' \in [Coins -> Nat]
  <2>1. tick \in [Coins -> Nat]
    BY DEF PriceInv, TypeOK
  <2>2. tick' = [x \in Coins |-> tick'[x]]
    BY <1>2, <2>1
  <2> QED BY <1>6, <2>2 DEF Priced
<1> QED
  BY <1>3, <1>4, <1>5, <1>6, <1>7 DEF TablesPriced

\* The core's tick of a coin, at its last quote.
LEMMA TickPriced ==
  ASSUME PriceInv, NEW c \in Coins, GetInstrumentSpec(c)
  PROVE  tick' \in [Coins -> Nat] /\ TablesPriced'
<1>1. /\ tick \in [Coins -> Nat] /\ table[c].tickSize \in Nat
      /\ quoteCache[c] \in Books \cup {NoBook}
  BY DEF PriceInv, TypeOK
<1> DEFINE t == IF quoteCache[c].bid > 0 THEN TickSize(quoteCache[c].bid, SzDecimals[c])
                ELSE table[c].tickSize
<1>2. t \in Nat /\ Priced(t, c)
  <2>1. quoteCache[c].bid \in Nat
    BY <1>1, EntryAssumption DEF NoBook
  <2> QED BY <1>1, <2>1, TicksPriced DEF PriceInv, TablesPriced
<1>3. table' = table /\ tick' = [tick EXCEPT ![c] = t]
  BY DEF GetInstrumentSpec
<1> HIDE DEF t
<1> QED
  BY <1>1, <1>2, <1>3 DEF PriceInv, TablesPriced

\* Normalised prices and sizes are numbers of steps.
LEMMA NormalizedTyped ==
  ASSUME NEW c \in Coins, NEW x \in Nat
  PROVE  /\ NormalizePrice(x, SzDecimals[c]) \in Nat
         /\ NormalizeSize(x, SzDecimals[c]) \in Nat
         /\ NormalizeSize(x, SzDecimals[c]) % StepOf(SzDecimals[c]) = 0
<1> DEFINE sd == SzDecimals[c]
<1>1. sd \in 0..MaxDecimals /\ sd \in 0..Scale
  BY FinestStep, GridAssumption
<1>2. /\ StepOf(sd) \in Nat \ {0}
      /\ StepOf(AllowedDecimals(x, sd)) \in Nat \ {0}
  BY <1>1, Steps, Decimals
<1> HIDE DEF sd
<1>3. ASSUME NEW t \in Nat \ {0} PROVE RoundTo(x, t) \in Nat /\ RoundTo(x, t) % t = 0
  <2>1. PICK q \in Nat : RoundTo(x, t) = q * t
    BY Rounding
  <2>2. \A k, n \in Nat : k * n \in Nat
    OBVIOUS
  <2>3. q * t \in Nat
    BY <2>2
  <2> DEFINE r == q * t
  <2>4. r \in Nat /\ RoundTo(x, t) = r
    BY <2>1, <2>3
  <2> HIDE DEF r
  <2>5. r % t = 0
    BY <2>4, Multiple DEF r
  <2> QED BY <2>4, <2>5
<1> QED
  BY <1>2, <1>3 DEF NormalizePrice, NormalizeSize, sd

\* The price of an order before it is normalised.
LEMMA AggressivePriced ==
  ASSUME NEW c \in Coins, ref \in Nat \ {0}, Priced(ref, c)
  PROVE  LET x == IF order.market THEN Aggressive(ref) ELSE ref
         IN /\ x \in Nat \ {0} /\ Finest(c) <= 2 * x
            /\ order.market /\ order.buy => \A y \in Nat : 100 * y <= 105 * ref => y <= x
            /\ order.market /\ ~order.buy => \A y \in Nat : 95 * ref <= 100 * y => x <= y
<1>1. Finest(c) \in Nat /\ Finest(c) >= 100 /\ Finest(c) <= ref
  BY FinestStep DEF Priced
<1>2. ASSUME order.market, order.buy
      PROVE  /\ Aggressive(ref) \in Nat /\ Finest(c) <= Aggressive(ref)
             /\ \A y \in Nat : 100 * y <= 105 * ref => y <= Aggressive(ref)
  <2>1. Aggressive(ref) = (ref * 105) \div 100
    BY <1>2 DEF Aggressive
  <2> QED BY <1>1, <2>1
<1>3. ASSUME order.market, ~order.buy
      PROVE  /\ Aggressive(ref) \in Nat /\ Finest(c) <= 2 * Aggressive(ref)
             /\ \A y \in Nat : 95 * ref <= 100 * y => Aggressive(ref) <= y
  <2>1. Aggressive(ref) = (ref * 95) \div 100
    BY <1>3 DEF Aggressive
  <2> QED BY <1>1, <2>1
<1> QED
  BY <1>1, <1>2, <1>3

\* Every answer that refuses has a kind.
LEMMA RefusalHasKind == \A a \in Refused : ClassifyReject(a[2]) \in RejectKinds
BY DEF Refused, ClassifyReject, RejectKinds

\* What the steps of the submit set.
SubmitTyped ==
  /\ order \in Orders /\ ref \in Nat
  /\ at \in {"idle", "quote", "mid", "size", "sent", "done"}
  /\ told \in {"nothing", "accepted", "unknown"} \cup RejectKinds
  /\ Referenced /\ SentAsPriced

LEMMA LimitPriced ==
  ASSUME IInv, PriceInv, VerdictInv, NEW c \in Coins, SubmitPostOnlyLimit(c)
  PROVE  SubmitTyped' /\ UNCHANGED <<marketVars, tableVars, venue, answer>>
<1>1. PICK b \in Books, buy \in BOOLEAN, qty \in Qtys :
        /\ order' = [coin |-> c, market |-> FALSE, buy |-> buy, qty |-> qty,
                     price |-> RoundTo(IF buy THEN b.bid ELSE b.ask, tick[c])]
        /\ order'.price > 0
  BY DEF SubmitPostOnlyLimit
<1>2. /\ at = "idle" /\ tick[c] > 0 /\ wire = <<>>
      /\ ref' = order'.price /\ wire' = wire
      /\ \/ at' = "done" /\ told' = "Permanent"
         \/ at' = "size" /\ told' = told
      /\ UNCHANGED <<marketVars, tableVars, venue, answer>>
  BY DEF SubmitPostOnlyLimit, IInv, SentNumbered, Ends
<1>3. tick[c] \in Nat \ {0} /\ Priced(tick[c], c)
  BY <1>2 DEF PriceInv, TypeOK, TablesPriced
<1> DEFINE px == IF buy THEN b.bid ELSE b.ask
<1>4. px \in Nat
  BY EntryAssumption
<1> HIDE DEF px
<1>5. RoundTo(px, tick[c]) \in Nat /\ Priced(RoundTo(px, tick[c]), c)
  BY <1>3, <1>4, RoundedPriced
<1>6. /\ order' = [coin |-> c, market |-> FALSE, buy |-> buy, qty |-> qty, price |-> RoundTo(px, tick[c])]
      /\ order'.price = RoundTo(px, tick[c]) /\ order'.coin = c /\ order'.market = FALSE
  BY <1>1 DEF px
<1>7. order' \in Orders /\ ref' \in Nat
  BY <1>2, <1>5, <1>6 DEF Orders
<1>8. Referenced'
  BY <1>1, <1>2, <1>5, <1>6 DEF Referenced, Priced
<1>9. SentAsPriced'
  BY <1>2 DEF SentAsPriced
<1>10. told' \in {"nothing", "accepted", "unknown"} \cup RejectKinds
  BY <1>2 DEF RejectKinds, PriceInv, TypeOK
<1> QED
  BY <1>2, <1>7, <1>8, <1>9, <1>10 DEF SubmitTyped

LEMMA MarketPriced ==
  ASSUME IInv, PriceInv, VerdictInv, NEW c \in Coins, SubmitReduceOnlyMarket(c)
  PROVE  SubmitTyped' /\ UNCHANGED <<marketVars, tableVars, venue, answer>>
<1>1. PICK buy \in BOOLEAN, qty \in Qtys :
        order' = [coin |-> c, market |-> TRUE, buy |-> buy, qty |-> qty, price |-> 0]
  BY DEF SubmitReduceOnlyMarket
<1>2. /\ at = "idle" /\ wire = <<>>
      /\ ref' = ref /\ wire' = wire
      /\ \/ at' = "done" /\ told' = "Permanent"
         \/ at' = "quote" /\ told' = told
      /\ UNCHANGED <<marketVars, tableVars, venue, answer>>
  BY DEF SubmitReduceOnlyMarket, IInv, SentNumbered, Ends
<1>3. order' \in Orders
  BY <1>1 DEF Orders
<1>4. Referenced' /\ SentAsPriced'
  BY <1>1, <1>2 DEF Referenced, SentAsPriced
<1>5. ref' \in Nat /\ told' \in {"nothing", "accepted", "unknown"} \cup RejectKinds
  BY <1>2 DEF RejectKinds, PriceInv, TypeOK
<1> QED
  BY <1>2, <1>3, <1>4, <1>5 DEF SubmitTyped

LEMMA ReferencePriced ==
  ASSUME IInv, PriceInv, VerdictInv, ReadQuote \/ ReadLastMid
  PROVE  SubmitTyped' /\ UNCHANGED <<marketVars, tableVars, venue, answer>>
<1>1. /\ order \in Orders /\ order.coin \in Coins /\ order.market /\ order' = order
      /\ wire = <<>> /\ wire' = wire
      /\ UNCHANGED <<marketVars, tableVars, venue, answer>>
  BY DEF ReadQuote, ReadLastMid, IInv, SentNumbered, Preparing, PriceInv, TypeOK, Orders, Referenced
<1>2. /\ ref' \in Nat /\ Priced(ref', order.coin) /\ ref' = FarSide(seen')
      /\ \/ at' \in {"size", "mid"} /\ told' = told /\ (at' = "size" => ref' > 0)
         \/ at' = "done" /\ told' = "Hard"
  <2>1. CASE ReadQuote
    <3>1. quoteCache[order.coin] \in Books \cup {NoBook}
      BY <1>1 DEF PriceInv, TypeOK
    <3>2. ref' = FarSide(seen') /\ seen' = quoteCache[order.coin] /\ told' = told
          /\ at' = IF ref' > 0 THEN "size" ELSE "mid"
      BY <2>1 DEF ReadQuote
    <3>3. Priced(ref', order.coin)
      BY <1>1, <3>1, <3>2, BooksPriced DEF FarSide
    <3> QED BY <3>2, <3>3 DEF Priced
  <2>2. CASE ReadLastMid
    <3>1. ref' = table[order.coin].lastMid /\ seen' = [bid |-> ref', ask |-> ref']
          /\ (IF ref' = 0 THEN at' = "done" /\ told' = "Hard" ELSE at' = "size" /\ told' = told)
      BY <2>2 DEF ReadLastMid, Ends
    <3>2. Priced(ref', order.coin) /\ ref' = FarSide(seen')
      BY <1>1, <3>1 DEF PriceInv, TablesPriced, FarSide
    <3> QED BY <3>1, <3>2 DEF Priced
  <2> QED BY <2>1, <2>2
<1>3. Referenced'
  <2>1. FarSide(seen)' = FarSide(seen')
    BY <1>1 DEF FarSide
  <2> QED BY <1>1, <1>2, <2>1 DEF Referenced
<1>4. SentAsPriced'
  BY <1>1 DEF SentAsPriced
<1>5. told' \in {"nothing", "accepted", "unknown"} \cup RejectKinds
  BY <1>2 DEF RejectKinds, PriceInv, TypeOK
<1> QED
  BY <1>1, <1>2, <1>3, <1>4, <1>5 DEF SubmitTyped

LEMMA PlacePriced ==
  ASSUME IInv, PriceInv, VerdictInv, PlaceLimit
  PROVE  SubmitTyped' /\ UNCHANGED <<marketVars, tableVars, venue, answer>>
<1> DEFINE sd == SzDecimals[order.coin]
           px == OrderPrice(IF order.market THEN Aggressive(ref) ELSE ref)
           sz == NormalizeSize(order.qty, sd)
<1>1. /\ order \in Orders /\ order.coin \in Coins /\ order.qty \in Nat /\ at = "size"
      /\ UNCHANGED <<order, ref, seen, marketVars, tableVars, venue, answer>>
  BY EntryAssumption DEF PlaceLimit, PriceInv, TypeOK, Orders
<1>2. /\ ref \in Nat \ {0} /\ Priced(ref, order.coin)
      /\ ref = IF order.market THEN FarSide(seen) ELSE order.price
  BY <1>1 DEF PriceInv, Referenced, Priced
<1>3. px \in Nat /\ sz \in Nat
  <2>1. (IF order.market THEN Aggressive(ref) ELSE ref) \in Nat
    BY <1>1, <1>2, AggressivePriced
  <2> QED BY <1>1, <2>1, NormalizedTyped DEF OrderPrice
<1>4. \/ sz = 0 /\ at' = "done" /\ told' = "MinNotional" /\ wire' = wire
      \/ sz # 0 /\ wire' = <<Request(px, sz)>> /\ at' = "sent" /\ told' = told
  BY DEF PlaceLimit, Ends
<1> HIDE DEF px, sz
<1>5. wire = <<>>
  BY <1>1 DEF IInv, SentNumbered, Preparing
<1>6. Referenced'
  <2>1. FarSide(seen)' = FarSide(seen)
    BY <1>1 DEF FarSide
  <2> QED BY <1>1, <1>2, <1>4, <2>1 DEF Referenced
<1>7. SentAsPriced'
  <2>1. CASE wire' = wire
    BY <1>5, <2>1 DEF SentAsPriced
  <2>2. CASE sz # 0 /\ wire' = <<Request(px, sz)>>
    <3>1. Sent'.px = FloatToWire(px) /\ Sent'.sz = FloatToWire(sz)
      BY <2>2 DEF Sent, Request
    <3>2. WireValue(Sent'.px) = px /\ WireValue(Sent'.sz) = sz
      BY <1>3, <3>1, WireExact
    <3>3. OrderPrice(IF order.market THEN Aggressive(ref) ELSE ref)' = px
          /\ NormalizeSize(order.qty, SzDecimals[order.coin])' = sz
      BY <1>1 DEF px, sz, OrderPrice, Aggressive
    <3>4. WireValue(Sent.px)' = WireValue(Sent'.px) /\ WireValue(Sent.sz)' = WireValue(Sent'.sz)
      BY DEF WireValue
    <3> QED BY <2>2, <3>2, <3>3, <3>4 DEF SentAsPriced
  <2> QED BY <1>4, <2>1, <2>2
<1>8. told' \in {"nothing", "accepted", "unknown"} \cup RejectKinds
  BY <1>4 DEF RejectKinds, PriceInv, TypeOK
<1> QED
  BY <1>1, <1>2, <1>4, <1>6, <1>7, <1>8 DEF SubmitTyped

LEMMA EndPriced ==
  ASSUME IInv, PriceInv, VerdictInv, SubmitReturns \/ SubmitThrows
  PROVE  SubmitTyped' /\ UNCHANGED <<marketVars, tableVars, venue, answer>>
<1>1. at' = "done" /\ UNCHANGED <<marketVars, tableVars, orderVars, venue, answer>>
  BY DEF SubmitReturns, SubmitThrows, Ends
<1>2. told' \in {"nothing", "accepted", "unknown"} \cup RejectKinds
  BY RefusalHasKind DEF SubmitReturns, SubmitThrows, Ends, ParseStatuses
<1>3. Referenced'
  <2>1. FarSide(seen)' = FarSide(seen)
    BY <1>1 DEF FarSide, orderVars
  <2> QED BY <1>1, <2>1 DEF Referenced, PriceInv, orderVars
<1>4. SentAsPriced'
  <2>1. wire' = wire /\ order' = order /\ ref' = ref
    BY <1>1 DEF orderVars
  <2> QED BY <2>1 DEF SentAsPriced, PriceInv, Sent, OrderPrice, Aggressive, WireValue
<1>5. order' \in Orders /\ ref' \in Nat
  BY <1>1 DEF orderVars, PriceInv, TypeOK
<1> QED
  BY <1>1, <1>2, <1>3, <1>4, <1>5 DEF SubmitTyped

LEMMA SubmitPriced ==
  ASSUME IInv, PriceInv, VerdictInv, SubmitStep
  PROVE  PriceInv'
<1>1. SubmitTyped' /\ UNCHANGED <<marketVars, tableVars, venue, answer>>
  BY LimitPriced, MarketPriced, ReferencePriced, PlacePriced, EndPriced DEF SubmitStep
<1>2. TypeOK'
  BY <1>1 DEF SubmitTyped, PriceInv, TypeOK, marketVars, tableVars
<1>3. LoadsPriced' /\ TablesPriced'
  BY <1>1 DEF PriceInv, LoadsPriced, TablesPriced, tableVars
<1> QED
  BY <1>1, <1>2, <1>3 DEF SubmitTyped, PriceInv

\* What is neither the market's nor the tables' stays as it was.
OrderSame == UNCHANGED <<at, orderVars, venue, answer, told>>

LEMMA OrderSameKeeps ==
  ASSUME OrderSame
  PROVE  /\ Referenced => Referenced'
         /\ SentAsPriced => SentAsPriced'
         /\ VerdictInv => VerdictInv'
<1> USE DEF OrderSame, orderVars
<1>1. FarSide(seen)' = FarSide(seen)
  BY DEF FarSide
<1>2. Referenced => Referenced'
  BY <1>1 DEF Referenced
<1>3. SentAsPriced => SentAsPriced'
  BY DEF SentAsPriced, Sent, OrderPrice, Aggressive, WireValue
<1>4. VerdictInv => VerdictInv'
  BY DEF VerdictInv, BeliefMatchesVenue
<1> QED
  BY <1>2, <1>3, <1>4

LEMMA ListingsTyped ==
  ASSUME PriceInv, NEW c \in Coins, Listing \/ Delisting(c) \/ MarketMoves(c)
  PROVE  /\ listed' \in 0..Len(Universe)
         /\ delisted' \subseteq {Universe[i] : i \in 1..listed'}
         /\ book' \in [Coins -> Books] /\ moves' \in 0..MaxMoves
<1>1. /\ Len(Universe) \in Nat /\ MaxMoves \in Nat
      /\ listed \in 0..Len(Universe) /\ delisted \subseteq {Universe[i] : i \in 1..listed}
      /\ book \in [Coins -> Books] /\ moves \in 0..MaxMoves
  <2>1. Len(Universe) \in Nat
    BY UniverseIsList DEF UniverseTyped
  <2>2. MaxMoves \in Nat
    BY EntryAssumption
  <2> QED BY <2>1, <2>2 DEF PriceInv, TypeOK
<1>2. CASE Listing
  <2>1. listed' = listed + 1 /\ listed < Len(Universe) /\ UNCHANGED <<delisted, book, moves>>
    BY <1>2 DEF Listing
  <2>2. 1..listed \subseteq 1..listed' /\ listed' \in 0..Len(Universe)
    BY <1>1, <2>1
  <2> QED BY <1>1, <2>1, <2>2
<1>3. CASE Delisting(c)
  <2>1. /\ c \in {Universe[i] : i \in 1..listed} /\ delisted' = delisted \cup {c}
        /\ UNCHANGED <<listed, book, moves>>
    BY <1>3 DEF Delisting
  <2> QED BY <1>1, <2>1
<1>4. CASE MarketMoves(c)
  <2>1. /\ moves' = moves + 1 /\ moves < MaxMoves /\ UNCHANGED <<listed, delisted>>
        /\ \E b \in Books : book' = [book EXCEPT ![c] = b]
    BY <1>4 DEF MarketMoves
  <2> QED BY <1>1, <2>1
<1> QED
  BY <1>2, <1>3, <1>4

LEMMA MarketKeeps ==
  ASSUME PriceInv, NEW c \in Coins, Listing \/ Delisting(c) \/ MarketMoves(c)
  PROVE  PriceInv' /\ OrderSame
<1>1. OrderSame /\ UNCHANGED tableVars
  BY DEF Listing, Delisting, MarketMoves, OrderSame
<1>2. TypeOK'
  BY <1>1, ListingsTyped DEF PriceInv, TypeOK, OrderSame, orderVars, tableVars
<1>3. LoadsPriced' /\ TablesPriced'
  BY <1>1 DEF PriceInv, LoadsPriced, TablesPriced, tableVars
<1> QED
  BY <1>1, <1>2, <1>3, OrderSameKeeps DEF PriceInv

LEMMA TablesKeep ==
  ASSUME IInv, PriceInv,
         \/ \E l \in Loaders : \E c : GetAssetContexts(l, c)
         \/ \E l \in Loaders : LoadUniverse(l)
         \/ \E c \in Coins : OnBbo(c) \/ GetInstrumentSpec(c)
  PROVE  PriceInv' /\ OrderSame
<1>1. OrderSame /\ UNCHANGED marketVars
  BY DEF GetAssetContexts, LoadUniverse, OnBbo, GetInstrumentSpec, OrderSame
<1>2. Referenced' /\ SentAsPriced'
  BY <1>1, OrderSameKeeps DEF PriceInv
<1> DEFINE Rows == [index : -1 .. Len(Universe) - 1, lastMid : Nat, tickSize : Nat]
<1>3. SUFFICES /\ LoadsPriced' /\ TablesPriced'
               /\ table' \in [Coins -> Rows] /\ quoteCache' \in [Coins -> Books \cup {NoBook}]
               /\ DOMAIN loading' = Loaders /\ tick' \in [Coins -> Nat] /\ loads' \in 0..MaxLoads
  BY <1>1, <1>2 DEF PriceInv, TypeOK, OrderSame, orderVars, marketVars
<1>4. /\ LoadsPriced /\ TablesPriced
      /\ table \in [Coins -> Rows] /\ quoteCache \in [Coins -> Books \cup {NoBook}]
      /\ DOMAIN loading = Loaders /\ tick \in [Coins -> Nat] /\ loads \in 0..MaxLoads
  BY DEF PriceInv, TypeOK
<1> HIDE DEF Rows
<1>5. ASSUME NEW l \in Loaders, NEW c, GetAssetContexts(l, c)
      PROVE  /\ LoadsPriced' /\ DOMAIN loading' = Loaders /\ loads' \in 0..MaxLoads
             /\ UNCHANGED <<table, quoteCache, tick>>
  BY <1>5, FetchPriced DEF GetAssetContexts
<1>6. ASSUME NEW l \in Loaders, LoadUniverse(l)
      PROVE  /\ LoadsPriced' /\ TablesPriced' /\ DOMAIN loading' = Loaders
             /\ tick' \in [Coins -> Nat] /\ table' \in [Coins -> Rows]
             /\ UNCHANGED <<quoteCache, loads>>
  BY <1>6, LoadPriced DEF LoadUniverse, Rows
<1>7. ASSUME NEW c \in Coins, OnBbo(c)
      PROVE  /\ quoteCache' \in [Coins -> Books \cup {NoBook}]
             /\ UNCHANGED <<table, loading, tick, loads>>
  <2>1. book[c] \in Books
    BY DEF PriceInv, TypeOK
  <2> QED BY <1>4, <1>7, <2>1 DEF OnBbo
<1>8. ASSUME NEW c \in Coins, GetInstrumentSpec(c)
      PROVE  /\ tick' \in [Coins -> Nat] /\ TablesPriced'
             /\ UNCHANGED <<table, quoteCache, loading, loads>>
  BY <1>8, TickPriced DEF GetInstrumentSpec
<1> QED
  BY <1>4, <1>5, <1>6, <1>7, <1>8 DEF LoadsPriced, TablesPriced

LEMMA VenueKeeps ==
  ASSUME PriceInv, VerdictInv, VenueAnswers
  PROVE  PriceInv' /\ VerdictInv'
<1>1. /\ at = "sent" /\ UNCHANGED <<marketVars, tableVars, at, orderVars, told>>
      /\ \/ answer' \in Refused /\ venue' = "refused"
         \/ answer' \in {"ok"} \X Accepted /\ venue' = "accepted"
  <2>1. (IF Sent.tif = "Ioc" THEN "filled" ELSE "resting") \in Accepted
    BY DEF Accepted
  <2>2. \A s \in Accepted : <<"ok", s>> \in {"ok"} \X Accepted
    OBVIOUS
  <2>3. <<"ok", IF Sent.tif = "Ioc" THEN "filled" ELSE "resting">> \in {"ok"} \X Accepted
    BY <2>1, <2>2
  <2>4. /\ at = "sent" /\ UNCHANGED <<marketVars, tableVars, at, orderVars, told>>
        /\ \/ answer' \in Refused /\ venue' = "refused"
           \/ /\ answer' = <<"ok", IF Sent.tif = "Ioc" THEN "filled" ELSE "resting">>
              /\ venue' = "accepted"
    BY DEF VenueAnswers
  <2> QED BY <2>3, <2>4
<1>2. TypeOK'
  BY <1>1 DEF PriceInv, TypeOK, marketVars, tableVars, orderVars
<1>3. LoadsPriced' /\ TablesPriced' /\ Referenced' /\ SentAsPriced'
  <2>1. FarSide(seen)' = FarSide(seen)
    BY <1>1 DEF FarSide, orderVars
  <2>2. Referenced'
    BY <1>1, <2>1 DEF PriceInv, Referenced, orderVars
  <2> QED BY <1>1, <2>2 DEF PriceInv, LoadsPriced, TablesPriced, SentAsPriced, Sent, OrderPrice,
            Aggressive, WireValue, tableVars, orderVars
<1>4. VerdictInv'
  BY <1>1 DEF VerdictInv, BeliefMatchesVenue, RejectKinds
<1> QED
  BY <1>2, <1>3, <1>4 DEF PriceInv

LEMMA SubmitVerdict ==
  ASSUME IInv, PriceInv, VerdictInv, SubmitStep
  PROVE  VerdictInv'
<1>1. CASE \/ \E c \in Coins : SubmitPostOnlyLimit(c) \/ SubmitReduceOnlyMarket(c)
           \/ ReadQuote \/ ReadLastMid \/ PlaceLimit
  <2>1. /\ at \notin {"sent", "done"} /\ UNCHANGED <<venue, answer>>
        /\ \/ at' # "done" /\ told' = told
           \/ at' = "done" /\ told' \in RejectKinds
    BY <1>1 DEF SubmitPostOnlyLimit, SubmitReduceOnlyMarket, ReadQuote, ReadLastMid, PlaceLimit,
         Ends, RejectKinds
  <2> QED BY <2>1 DEF VerdictInv, BeliefMatchesVenue, RejectKinds
<1>2. CASE SubmitReturns
  <2>1. /\ at = "sent" /\ at' = "done" /\ answer # <<>> /\ UNCHANGED <<venue, answer>>
        /\ told' = ParseStatuses(answer)
    BY <1>2 DEF SubmitReturns, Ends
  <2>2. CASE answer \in Refused /\ venue = "refused"
    <3>1. told' \in RejectKinds
      BY <2>1, <2>2, RefusalHasKind DEF ParseStatuses
    <3> QED BY <2>1, <2>2, <3>1 DEF VerdictInv, BeliefMatchesVenue, RejectKinds
  <2>3. CASE answer \in {"ok"} \X Accepted /\ venue = "accepted"
    <3>1. answer \notin Refused
      BY <2>3 DEF Refused
    <3> QED BY <2>1, <2>3, <3>1 DEF VerdictInv, BeliefMatchesVenue, RejectKinds, ParseStatuses
  <2> QED BY <2>1, <2>2, <2>3 DEF VerdictInv
<1>3. CASE SubmitThrows
  <2>1. at = "sent" /\ at' = "done" /\ told' = "unknown" /\ UNCHANGED <<venue, answer>>
    BY <1>3 DEF SubmitThrows, Ends
  <2> QED BY <2>1 DEF VerdictInv, BeliefMatchesVenue, RejectKinds
<1> QED
  BY <1>1, <1>2, <1>3 DEF SubmitStep

LEMMA StepPriced == IInv /\ PriceInv /\ VerdictInv /\ [Next]_vars => PriceInv' /\ VerdictInv'
<1> SUFFICES ASSUME IInv, PriceInv, VerdictInv, [Next]_vars PROVE PriceInv' /\ VerdictInv'
  OBVIOUS
<1>1. CASE SubmitStep
  BY <1>1, SubmitPriced, SubmitVerdict
<1>2. CASE Listing
  <2>1. Universe[Len(Universe)] \in Coins
    BY <1>2, UniverseIsList DEF Listing, UniverseTyped, Coins, PriceInv, TypeOK
  <2> QED BY <1>2, <2>1, MarketKeeps, OrderSameKeeps
<1>3. CASE \E c \in Coins : Delisting(c) \/ MarketMoves(c)
  BY <1>3, MarketKeeps, OrderSameKeeps
<1>4. CASE \/ \E l \in Loaders : \E c : GetAssetContexts(l, c)
           \/ \E l \in Loaders : LoadUniverse(l)
           \/ \E c \in Coins : OnBbo(c) \/ GetInstrumentSpec(c)
  BY <1>4, TablesKeep, OrderSameKeeps
<1>5. CASE VenueAnswers
  BY <1>5, VenueKeeps
<1>6. CASE UNCHANGED vars
  <2>1. OrderSame /\ UNCHANGED <<marketVars, tableVars>>
    BY <1>6 DEF vars, OrderSame
  <2>2. TypeOK' /\ LoadsPriced' /\ TablesPriced'
    BY <2>1 DEF PriceInv, TypeOK, LoadsPriced, TablesPriced, OrderSame, orderVars, marketVars, tableVars
  <2> QED BY <2>1, <2>2, OrderSameKeeps DEF PriceInv
<1> QED
  BY <1>1, <1>2, <1>3, <1>4, <1>5, <1>6 DEF Next, SubmitStep, Refresh, SpecMissing

\* Types, and where the prices come from.
LEMMA EntryInvariant == Spec => [](IInv /\ PriceInv /\ VerdictInv)
<1>1. Init => IInv /\ PriceInv /\ VerdictInv
  BY InitHolds, InitPriced
<1>2. (IInv /\ PriceInv /\ VerdictInv) /\ [Next]_vars => (IInv /\ PriceInv /\ VerdictInv)'
  BY StepKeeps, StepPriced
<1> QED
  BY <1>1, <1>2, PTL DEF Spec

\* The tables, the quotes, the order under way and the venue's answer keep their
\* types: every number of a table is one the venue can have answered.
THEOREM TypeCorrect == Spec => []TypeOK
<1>1. PriceInv => TypeOK
  BY DEF PriceInv
<1> QED
  BY <1>1, EntryInvariant, PTL

\* What the core is told is what the venue did, whatever the answer says and
\* wherever its error is.
THEOREM BeliefIsVenue == Spec => []BeliefMatchesVenue
<1>1. VerdictInv => BeliefMatchesVenue
  BY DEF VerdictInv
<1> QED
  BY <1>1, EntryInvariant, PTL

\* "submit re-normalises the actual order price, so a mid-leg magnitude
\* crossing cannot produce an off-grid price" (hyperliquid_execution_gateway.
\* cpp:212), for every price, tick, scale and number of figures.
THEOREM PricesAlwaysOnGrid == Spec => []PricesOnGrid
<1>1. PriceInv => PricesOnGrid
  <2> SUFFICES ASSUME PriceInv, wire # <<>>
               PROVE  LET px == WireValue(Sent.px)
                          sd == SzDecimals[order.coin]
                      IN /\ OnGrid(px, sd)
                         /\ WireValue(Sent.sz) > 0 /\ WireValue(Sent.sz) % StepOf(sd) = 0
                         /\ ~order.market /\ OnGrid(order.price, sd) => px = order.price
    BY DEF PricesOnGrid
  <2> DEFINE c == order.coin
             sd == SzDecimals[c]
             x == IF order.market THEN Aggressive(ref) ELSE ref
  <2>1. /\ c \in Coins /\ sd \in 0..MaxDecimals /\ order.qty \in Nat /\ order.price \in Nat
        /\ ref \in Nat \ {0} /\ Priced(ref, c) /\ (~order.market => ref = order.price)
        /\ WireValue(Sent.px) = NormalizePrice(x, sd)
        /\ WireValue(Sent.sz) = NormalizeSize(order.qty, sd) /\ WireValue(Sent.sz) # 0
    <3>1. c \in Coins /\ order.qty \in Nat /\ order.price \in Nat
      BY EntryAssumption DEF PriceInv, TypeOK, Orders
    <3>2. sd \in 0..MaxDecimals
      BY <3>1, FinestStep
    <3>3. ref \in Nat \ {0} /\ Priced(ref, c) /\ (~order.market => ref = order.price)
      BY DEF PriceInv, Referenced, Priced
    <3>4. /\ WireValue(Sent.px) = NormalizePrice(x, sd)
          /\ WireValue(Sent.sz) = NormalizeSize(order.qty, sd) /\ WireValue(Sent.sz) # 0
      BY DEF PriceInv, SentAsPriced, OrderPrice
    <3> QED BY <3>1, <3>2, <3>3, <3>4
  <2>2. x \in Nat \ {0} /\ Finest(c) <= 2 * x
    BY <2>1, AggressivePriced
  <2> HIDE DEF x
  <2>3. OnGrid(NormalizePrice(x, sd), sd)
    BY <2>1, <2>2, NormalizedOnGrid DEF Finest
  <2>4. WireValue(Sent.sz) > 0 /\ WireValue(Sent.sz) % StepOf(sd) = 0
    <3>1. /\ NormalizeSize(order.qty, sd) \in Nat
          /\ NormalizeSize(order.qty, sd) % StepOf(sd) = 0
      BY <2>1, NormalizedTyped
    <3> QED BY <2>1, <3>1
  <2>5. ASSUME ~order.market, OnGrid(order.price, sd) PROVE WireValue(Sent.px) = order.price
    BY <2>1, <2>5, GridKept DEF x
  <2> QED BY <2>1, <2>3, <2>4, <2>5
<1> QED
  BY <1>1, EntryInvariant, PTL

\* A market close still executes when the market has moved since the quote it
\* was priced from by no more than the slippage: normalising the price never
\* takes it across a price at which the venue can have its best bid or ask.
THEOREM MarketOrdersCross == Spec => []MarketOrderStillCrosses
<1>1. PriceInv => MarketOrderStillCrosses
  <2> SUFFICES ASSUME PriceInv, wire # <<>>, order.market
               PROVE  LET now == book[order.coin]
                          px == WireValue(Sent.px)
                      IN IF order.buy
                         THEN now.ask > 0 /\ 100 * now.ask <= 105 * seen.ask => Crosses(px, now)
                         ELSE now.bid > 0 /\ 100 * now.bid >= 95 * seen.bid => Crosses(px, now)
    BY DEF MarketOrderStillCrosses
  <2> DEFINE c == order.coin
             sd == SzDecimals[c]
             x == Aggressive(ref)
             now == book[c]
  <2>1. /\ c \in Coins /\ sd \in 0..MaxDecimals /\ now \in Books
        /\ now.bid \in Nat /\ now.ask \in Nat
        /\ ref \in Nat \ {0} /\ Priced(ref, c) /\ ref = FarSide(seen)
        /\ WireValue(Sent.px) = NormalizePrice(x, sd)
    <3>1. c \in Coins
      BY DEF PriceInv, TypeOK, Orders
    <3>2. sd \in 0..MaxDecimals
      BY <3>1, FinestStep
    <3>3. now \in Books
      BY <3>1 DEF PriceInv, TypeOK
    <3>4. now.bid \in Nat /\ now.ask \in Nat
      BY <3>3, EntryAssumption
    <3>5. ref \in Nat \ {0} /\ Priced(ref, c) /\ ref = FarSide(seen)
      BY DEF PriceInv, Referenced, Priced
    <3>6. WireValue(Sent.px) = NormalizePrice(x, sd)
      BY DEF PriceInv, SentAsPriced, OrderPrice
    <3> QED BY <3>1, <3>2, <3>3, <3>4, <3>5, <3>6
  <2>2. /\ x \in Nat \ {0}
        /\ order.buy => \A y \in Nat : 100 * y <= 105 * ref => y <= x
        /\ ~order.buy => \A y \in Nat : 95 * ref <= 100 * y => x <= y
    BY <2>1, AggressivePriced
  <2>3. \A px \in {now.bid, now.ask} : px = 0 \/ OnGrid(px, sd)
    BY <2>1, BooksPriced
  <2> HIDE DEF x, now
  <2>4. ASSUME order.buy, now.ask > 0, 100 * now.ask <= 105 * seen.ask
        PROVE  Crosses(WireValue(Sent.px), now)
    <3>1. now.ask <= x
      BY <2>1, <2>2, <2>4 DEF FarSide
    <3>2. OnGrid(now.ask, sd)
      BY <2>3, <2>4
    <3>3. now.ask <= NormalizePrice(x, sd)
      BY <2>1, <2>2, <3>1, <3>2, GridSide
    <3> QED BY <2>1, <2>2, <2>4, <3>3, NormalizedTyped DEF Crosses
  <2>5. ASSUME ~order.buy, now.bid > 0, 100 * now.bid >= 95 * seen.bid
        PROVE  Crosses(WireValue(Sent.px), now)
    <3>1. 95 * ref <= 100 * now.bid
      BY <2>1, <2>5 DEF FarSide
    <3>2. OnGrid(now.bid, sd)
      BY <2>3, <2>5
    <3>3. NormalizePrice(x, sd) <= now.bid
      BY <2>1, <2>2, <2>5, <3>1, <3>2, GridSide
    <3> QED BY <2>1, <2>5, <3>3 DEF Crosses
  <2> QED BY <2>4, <2>5 DEF now
<1> QED
  BY <1>1, EntryInvariant, PTL

=============================================================================
