-------------------------- MODULE HistoryPagerProofs --------------------------
(***************************************************************************)
(* The downloads, for any range, interval, window and page size: pages     *)
(* ascend, no open candle is returned, no funding rate before the end is   *)
(* left out, nor any candle where the jumps over empty time could lose it. *)
(* The invariants relate what was returned to the cursor: what was         *)
(* returned lies before it, and the funding rates before it, and the       *)
(* candles that follow one, were returned.                                 *)
(***************************************************************************)
EXTENDS HistoryPager, FiniteSetTheorems, TLAPS

InRange ==
  /\ query = "candles" => records \subseteq CandleTimes
  /\ records \subseteq Times
  /\ from \in Times /\ to \in from..MaxTime

\* While the download goes on, the cursor is past everything returned.
Passed == ~done => \A i \in DOMAIN retVal : \A t \in retVal[i] : t < cursor

\* Every funding rate before the cursor was returned.
FundingSoFar ==
  query = "funding" /\ ~done =>
    \A t \in records : from <= t /\ t < cursor => t \in Downloaded

Closedness == query = "candles" => \A i \in DOMAIN retVal : \A t \in retVal[i] : t + Interval <= to

IInv ==
  /\ TypeOK /\ InRange /\ Passed /\ FundingSoFar
  /\ Ascending /\ Closedness /\ FundingComplete

-----------------------------------------------------------------------------
(* Sets of times.                                                          *)

LEMMA LatestExists ==
  ASSUME NEW n \in Nat, NEW T \in SUBSET (0..n), T # {}
  PROVE  \E x \in T : \A y \in T : y <= x
<1> DEFINE Above == {t..n : t \in T}
<1>1. Above \subseteq FiniteSubsetsOf(0..n) /\ Above # {}
  <2>1. IsFiniteSet(0..n)
    BY FS_Interval
  <2>2. ASSUME NEW t \in T PROVE t..n \in SUBSET (0..n) /\ IsFiniteSet(t..n)
    <3>1. t..n \in SUBSET (0..n)
      OBVIOUS
    <3>2. QED
      BY <2>1, <3>1, FS_Subset
  <2>3. QED
    BY <2>2 DEF FiniteSubsetsOf
<1>2. PICK u \in Above : \A v \in Above : <<v, u>> \notin StrictSubsetOrdering(0..n)
  <2>1. IsWellFoundedOn(StrictSubsetOrdering(0..n), FiniteSubsetsOf(0..n))
    BY FS_StrictSubsetOrderingWellFounded
  <2> HIDE DEF Above
  <2>2. QED
    BY <1>1, <2>1, WFMin
<1>3. PICK x \in T : u = x..n
  OBVIOUS
<1>4. ASSUME NEW y \in T, x < y PROVE FALSE
  <2>1. y..n \in SUBSET (x..n) /\ y..n # x..n /\ x..n \in SUBSET (0..n)
    <3>1. x \in x..n /\ x \notin y..n
      BY <1>4
    <3>2. QED
      BY <1>4, <3>1
  <2>2. <<y..n, x..n>> \in StrictSubsetOrdering(0..n)
    BY <2>1 DEF StrictSubsetOrdering
  <2>3. QED
    BY <1>2, <1>3, <2>2
<1>5. QED
  BY <1>4

LEMMA EarliestExists ==
  ASSUME NEW n \in Nat, NEW T \in SUBSET (0..n), T # {}
  PROVE  \E x \in T : \A y \in T : x <= y
<1> DEFINE Mirrored == {n - t : t \in T}
<1>1. Mirrored \in SUBSET (0..n) /\ Mirrored # {}
  <2>1. \A t \in T : n - t \in 0..n
    OBVIOUS
  <2>2. PICK t \in T : TRUE
    OBVIOUS
  <2>3. n - t \in Mirrored
    OBVIOUS
  <2>4. QED
    BY <2>1, <2>3
<1>2. PICK x \in Mirrored : \A y \in Mirrored : y <= x
  <2> HIDE DEF Mirrored
  <2>1. QED
    BY <1>1, LatestExists
<1>3. PICK t \in T : x = n - t
  OBVIOUS
<1>4. \A y \in T : t <= y
  BY <1>2, <1>3
<1>5. QED
  BY <1>4

LEMMA LatestIsLatest ==
  ASSUME NEW S \in SUBSET Times, S # {}
  PROVE  Latest(S) \in S /\ \A u \in S : u <= Latest(S)
<1>1. \E t \in S : \A u \in S : u <= t
  BY LatestExists, PagerAssumption DEF Times
<1>2. QED
  BY <1>1 DEF Latest

\* Candle times are an interval apart.
LEMMA CandlesApart ==
  ASSUME NEW t \in CandleTimes, NEW u \in CandleTimes, t < u
  PROVE  t + Interval <= u
<1> DEFINE a == t \div Interval
           b == u \div Interval
<1>1. Interval \in Nat \ {0} /\ t \in Nat /\ u \in Nat /\ t % Interval = 0 /\ u % Interval = 0
  BY PagerAssumption DEF CandleTimes, Times
<1>2. t = Interval * a /\ u = Interval * b /\ a \in Nat /\ b \in Nat
  BY <1>1
<1> HIDE DEF a, b
<1>3. \A x, y \in Nat : x >= y => Interval * x >= Interval * y
  BY <1>1
<1>4. a < b
  BY <1>1, <1>2, <1>3
<1>5. Interval * b >= Interval * (a + 1)
  BY <1>2, <1>3, <1>4
<1>6. Interval * (a + 1) = Interval * a + Interval
  BY <1>1, <1>2
<1>7. QED
  BY <1>1, <1>2, <1>5, <1>6

\* The first n of a set have all its elements up to their last one, and are the
\* whole set if they are fewer than n.
LEMMA FirstOfPrefix ==
  ASSUME NEW S \in SUBSET Times, NEW n \in Nat \ {0}
  PROVE  /\ FirstOf(S, n) \subseteq S
         /\ \A t \in FirstOf(S, n), u \in S : u <= t => u \in FirstOf(S, n)
         /\ Cardinality(FirstOf(S, n)) < n => FirstOf(S, n) = S
         /\ FirstOf(S, n) = {} => S = {}
<1> DEFINE UpTo(t) == {u \in S : u <= t}
           First == FirstOf(S, n)
<1>1. IsFiniteSet(Times)
  BY FS_Interval, PagerAssumption DEF Times
<1>2. \A T \in SUBSET Times : IsFiniteSet(T) /\ Cardinality(T) \in Nat
  BY <1>1, FS_Subset, FS_CardinalityType
<1>3. \A T \in SUBSET Times, U \in SUBSET Times :
        T \subseteq U => Cardinality(T) <= Cardinality(U)
  BY <1>2, FS_Subset
<1>4. First = {t \in S : Cardinality(UpTo(t)) <= n}
  BY DEF FirstOf
<1>5. ASSUME NEW t \in First, NEW u \in S, u <= t PROVE u \in First
  <2>1. UpTo(u) \subseteq UpTo(t) /\ UpTo(u) \in SUBSET Times /\ UpTo(t) \in SUBSET Times
    <3>1. t \in S /\ S \subseteq Int
      BY <1>4, PagerAssumption DEF Times
    <3>2. \A v \in S : v <= u => v <= t
      BY <1>5, <3>1
    <3>3. QED
      BY <3>2
  <2>2. Cardinality(UpTo(u)) <= Cardinality(UpTo(t)) /\ Cardinality(UpTo(t)) <= n
        /\ Cardinality(UpTo(u)) \in Nat /\ Cardinality(UpTo(t)) \in Nat
    BY <1>2, <1>3, <1>4, <2>1
  <2>3. QED
    BY <1>4, <2>2
<1>6. ASSUME Cardinality(First) < n, First # S PROVE FALSE
  <2>1. S \ First \in SUBSET (0..MaxTime) /\ S \ First # {}
    BY <1>4, <1>6 DEF Times
  <2>2. PICK m \in S \ First : \A t \in S \ First : m <= t
    BY <2>1, EarliestExists, PagerAssumption
  <2>3. UpTo(m) \subseteq First \cup {m}
    <3>1. S \subseteq Int
      BY PagerAssumption DEF Times
    <3>2. ASSUME NEW u \in S, u <= m, u \notin First PROVE u = m
      <4>1. m <= u /\ m \in Int /\ u \in Int
        BY <2>2, <3>1, <3>2
      <4>2. QED
        BY <3>2, <4>1
    <3>3. QED
      BY <3>2
  <2>4. /\ First \in SUBSET Times /\ First \cup {m} \in SUBSET Times
        /\ UpTo(m) \in SUBSET Times
    BY <1>4
  <2>5. Cardinality(First \cup {m}) <= Cardinality(First) + 1
    BY <1>2, <2>4, FS_AddElement
  <2>6. Cardinality(UpTo(m)) <= Cardinality(First \cup {m})
    BY <1>3, <2>3, <2>4
  <2>7. Cardinality(UpTo(m)) <= n
    BY <1>2, <1>6, <2>4, <2>5, <2>6
  <2>8. QED
    BY <1>4, <2>2, <2>7
<1>7. First = {} => S = {}
  BY <1>6, FS_EmptySet
<1>8. QED
  BY <1>4, <1>5, <1>6, <1>7

-----------------------------------------------------------------------------
(* What a page adds.                                                       *)

\* The types an append needs.
LEMMA AppendPage ==
  ASSUME IInv, NEW page \in SUBSET records, page # {}, retVal' = Append(retVal, page)
  PROVE  /\ \A i \in DOMAIN retVal' :
              \/ i \in DOMAIN retVal /\ retVal'[i] = retVal[i]
              \/ i = Len(retVal) + 1 /\ retVal'[i] = page
         /\ \A i \in DOMAIN retVal : i \in 1..Len(retVal)
         /\ retVal' \in Seq((SUBSET records) \ {{}})
         /\ Downloaded' = Downloaded \cup page
<1>1. retVal \in Seq((SUBSET records) \ {{}}) /\ page \in (SUBSET records) \ {{}}
  BY DEF IInv, TypeOK
<1>2. DOMAIN retVal = 1..Len(retVal) /\ Len(retVal) \in Nat
  BY <1>1
<1>3. /\ DOMAIN retVal' = 1..(Len(retVal) + 1)
      /\ retVal'[Len(retVal) + 1] = page
      /\ \A i \in 1..Len(retVal) : retVal'[i] = retVal[i]
      /\ retVal' \in Seq((SUBSET records) \ {{}})
  BY <1>1
<1>4. Downloaded' = Downloaded \cup page
  <2>1. \A t : t \in Downloaded' <=> \E i \in DOMAIN retVal' : t \in retVal'[i]
    BY DEF Downloaded
  <2>2. \A t : t \in Downloaded <=> \E i \in DOMAIN retVal : t \in retVal[i]
    BY DEF Downloaded
  <2>3. QED
    BY <1>2, <1>3, <2>1, <2>2
<1>5. \A i \in 1..(Len(retVal) + 1) : i \in 1..Len(retVal) \/ i = Len(retVal) + 1
  BY <1>2
<1>6. \A i \in DOMAIN retVal' :
        \/ i \in DOMAIN retVal /\ retVal'[i] = retVal[i]
        \/ i = Len(retVal) + 1 /\ retVal'[i] = page
  BY <1>2, <1>3, <1>5
<1>7. \A i \in DOMAIN retVal : i \in 1..Len(retVal)
  BY <1>2
<1>8. QED
  BY <1>3, <1>4, <1>6, <1>7

\* A page from the cursor on keeps the result ascending.
LEMMA AppendAscends ==
  ASSUME IInv, ~done, NEW page \in SUBSET records, page # {}, retVal' = Append(retVal, page),
         \A t \in page : cursor <= t
  PROVE  Ascending'
<1>1. ASSUME NEW i \in DOMAIN retVal', NEW j \in DOMAIN retVal', i < j,
             NEW s \in retVal'[i], NEW t \in retVal'[j]
      PROVE s < t
  <2>1. /\ i \in DOMAIN retVal /\ retVal'[i] = retVal[i] /\ i \in Nat /\ Len(retVal) \in Nat
        /\ \/ j \in DOMAIN retVal /\ retVal'[j] = retVal[j]
           \/ j = Len(retVal) + 1 /\ retVal'[j] = page
    <3>1. retVal \in Seq((SUBSET records) \ {{}})
      BY DEF IInv, TypeOK
    <3>2. DOMAIN retVal = 1..Len(retVal) /\ Len(retVal) \in Nat
      BY <3>1
    <3>3. QED
      BY <1>1, <3>2, AppendPage
  <2>2. CASE j \in DOMAIN retVal /\ retVal'[j] = retVal[j]
    BY <1>1, <2>1, <2>2 DEF IInv, Ascending
  <2>3. CASE j = Len(retVal) + 1 /\ retVal'[j] = page
    <3>1. s < cursor
      BY <1>1, <2>1 DEF IInv, Passed
    <3>2. cursor <= t
      BY <1>1, <2>3
    <3>3. s \in Int /\ t \in Int /\ cursor \in Int
      <4>1. s \in records /\ t \in records
        BY <1>1, <2>1, <2>3 DEF IInv, TypeOK
      <4>2. QED
        BY <4>1, PagerAssumption DEF IInv, TypeOK, InRange, Times
    <3>4. QED
      BY <3>1, <3>2, <3>3
  <2>4. QED
    BY <2>1, <2>2, <2>3
<1>2. QED
  BY <1>1 DEF Ascending

LEMMA Numbers ==
  ASSUME IInv
  PROVE  /\ from \in Int /\ to \in Int /\ cursor \in Int /\ from <= cursor /\ cursor <= to + 1
         /\ from <= to /\ 0 <= from
         /\ records \subseteq Int
         /\ Interval \in Nat \ {0} /\ CoarseSkip \in Nat \ {0} /\ PageLimit \in Nat \ {0}
BY PagerAssumption DEF IInv, TypeOK, InRange, Times, MaxOf

-----------------------------------------------------------------------------

LEMMA InitHolds == Init => IInv
<1> SUFFICES ASSUME Init PROVE IInv
  OBVIOUS
<1> USE PagerAssumption
<1>1. TypeOK /\ InRange
  <2>1. /\ from \in Times /\ to \in from..MaxTime /\ records \subseteq Times
        /\ query = "candles" => records \subseteq CandleTimes
        /\ query \in {"candles", "funding"}
        /\ cursor = from /\ emptySearchedMs = 0 /\ retVal = <<>> /\ done = FALSE
    BY DEF Init, CandleTimes
  <2>2. from \in Nat /\ to \in Nat /\ to \in Times /\ from <= to
    BY <2>1 DEF Times
  <2>3. cursor \in from..MaxOf(from, to + 1)
    BY <2>1, <2>2 DEF MaxOf
  <2>4. retVal \in Seq((SUBSET records) \ {{}})
    BY <2>1
  <2>5. QED
    BY <2>1, <2>2, <2>3, <2>4 DEF TypeOK, InRange
<1>2. Passed /\ Ascending /\ Closedness
  BY DEF Init, Passed, Ascending, Closedness
<1>3. FundingSoFar /\ FundingComplete
  BY <1>1 DEF Init, FundingSoFar, FundingComplete, InRange, Times
<1>4. QED
  BY <1>1, <1>2, <1>3 DEF IInv

LEMMA RangeDoneKeeps == IInv /\ RangeDone => IInv'
<1> SUFFICES ASSUME IInv, RangeDone PROVE IInv'
  OBVIOUS
<1>1. /\ ~done /\ cursor >= to /\ done' = TRUE
      /\ UNCHANGED <<query, records, from, to, cursor, emptySearchedMs, retVal>>
  BY DEF RangeDone, request
<1>2. FundingComplete'
  BY <1>1, Numbers DEF IInv, FundingSoFar, FundingComplete, Wanted, Downloaded, Times
<1>3. QED
  BY <1>1, <1>2 DEF IInv, TypeOK, InRange, Passed, FundingSoFar, Ascending, Closedness, Times,
       CandleTimes

LEMMA EmptyBatchKeeps == IInv /\ EmptyBatch => IInv'
<1> SUFFICES ASSUME IInv, EmptyBatch PROVE IInv'
  OBVIOUS
<1>1. /\ query = "candles" /\ ~done /\ cursor < to
      /\ emptySearchedMs' = emptySearchedMs + Skip
      /\ \/ done' = TRUE /\ cursor' = cursor
         \/ done' = FALSE /\ cursor' = MinOf(cursor + Skip, to)
      /\ UNCHANGED <<query, records, from, to, retVal>>
  BY DEF EmptyBatch, request, IInv, TypeOK
<1>2. Skip \in Nat
  <2>1. BatchTo \in Int /\ cursor <= BatchTo
    <3>1. Interval * BatchCandles \in Nat
      BY PagerAssumption
    <3>2. QED
      BY <1>1, <3>1, Numbers DEF BatchTo, MinOf
  <2>2. QED
    BY <2>1, Numbers DEF Skip, MaxOf
<1>3. cursor' \in from..MaxOf(from, to + 1) /\ cursor <= cursor' /\ emptySearchedMs' \in Nat
  BY <1>1, <1>2, Numbers DEF MinOf, MaxOf, IInv, TypeOK
<1>4. TypeOK' /\ InRange'
  BY <1>1, <1>3 DEF IInv, TypeOK, InRange, Times, CandleTimes, MaxOf
<1>5. Passed'
  <2>1. ASSUME NEW i \in DOMAIN retVal, NEW t \in retVal[i] PROVE t < cursor'
    <3>1. t \in records
      BY <2>1 DEF IInv, TypeOK
    <3>2. t < cursor /\ t \in Int
      BY <1>1, <2>1, <3>1, Numbers DEF IInv, Passed
    <3>3. QED
      BY <1>3, <3>2, Numbers
  <2>2. QED
    BY <1>1, <2>1 DEF Passed
<1>6. QED
  BY <1>1, <1>4, <1>5 DEF IInv, FundingSoFar, Ascending, Closedness, FundingComplete

LEMMA CandleBatchKeeps == IInv /\ CandleBatch => IInv'
<1> SUFFICES ASSUME IInv, CandleBatch PROVE IInv'
  OBVIOUS
<1>1. /\ query = "candles" /\ ~done /\ cursor < to /\ Batch # {}
      /\ emptySearchedMs' = 0
      /\ UNCHANGED <<query, records, from, to>>
      /\ \/ done' = TRUE /\ UNCHANGED <<retVal, cursor>>
         \/ /\ Closed # {} /\ done' = FALSE
            /\ retVal' = Append(retVal, Closed) /\ cursor' = AfterBatch
  BY DEF CandleBatch, request, IInv, TypeOK
<1>2. /\ Batch \in SUBSET records /\ records \subseteq CandleTimes /\ CandleTimes \subseteq Times
      /\ \A t \in Batch : cursor <= t /\ t <= to
  <2>1. BatchTo \in Int /\ BatchTo <= to
    <3>1. Interval * BatchCandles \in Nat
      BY PagerAssumption
    <3>2. QED
      BY <3>1, Numbers DEF BatchTo, MinOf
  <2>2. QED
    BY <1>1, <2>1, Numbers DEF Batch, Between, IInv, InRange, CandleTimes
<1>3. Latest(Batch) \in Batch /\ \A u \in Batch : u <= Latest(Batch)
  BY <1>1, <1>2, LatestIsLatest
<1>4. Closed \subseteq Batch /\ \A t \in Closed : t + Interval <= to
  <2>1. CASE Latest(Batch) + Interval > to
    <3>1. ASSUME NEW t \in Closed PROVE t + Interval <= to
      <4>1. t \in Batch /\ t # Latest(Batch)
        BY <2>1 DEF Closed
      <4>2. t < Latest(Batch)
        BY <1>2, <1>3, <4>1, Numbers
      <4>3. t + Interval <= Latest(Batch)
        BY <1>2, <1>3, <4>1, <4>2, CandlesApart
      <4>4. QED
        BY <1>2, <1>3, <4>1, <4>3, Numbers
    <3>2. QED
      BY <2>1, <3>1 DEF Closed
  <2>2. CASE ~(Latest(Batch) + Interval > to)
    BY <1>2, <1>3, <2>2, Numbers DEF Closed
  <2>3. QED
    BY <2>1, <2>2
<1>5. CASE done' = TRUE /\ UNCHANGED <<retVal, cursor>>
  BY <1>1, <1>5 DEF IInv, TypeOK, InRange, Passed, FundingSoFar, Ascending, Closedness,
     FundingComplete, Times, CandleTimes, MaxOf
<1>6. CASE Closed # {} /\ done' = FALSE /\ retVal' = Append(retVal, Closed) /\ cursor' = AfterBatch
  <2>1. Latest(Closed) \in Closed /\ \A u \in Closed : u <= Latest(Closed)
    BY <1>2, <1>4, <1>6, LatestIsLatest
  <2>2. cursor' = Latest(Closed) + Interval /\ cursor' <= to /\ cursor < cursor' /\ cursor' \in Int
    BY <1>2, <1>4, <1>6, <2>1, Numbers DEF AfterBatch
  <2>3. /\ Closed \in SUBSET records
        /\ \A t \in Closed : cursor <= t /\ t < cursor' /\ t \in Int
    BY <1>2, <1>4, <2>1, <2>2, Numbers
  <2>4. /\ \A i \in DOMAIN retVal' :
             \/ i \in DOMAIN retVal /\ retVal'[i] = retVal[i]
             \/ i = Len(retVal) + 1 /\ retVal'[i] = Closed
        /\ retVal' \in Seq((SUBSET records) \ {{}})
    BY <1>6, <2>3, AppendPage
  <2>5. Ascending'
    BY <1>1, <1>6, <2>3, AppendAscends
  <2>6. Passed'
    <3>1. ASSUME NEW i \in DOMAIN retVal, NEW t \in retVal[i] PROVE t < cursor'
      <4>1. t \in records
        BY <3>1 DEF IInv, TypeOK
      <4>2. t < cursor
        BY <1>1, <3>1 DEF IInv, Passed
      <4>3. QED
        BY <2>2, <4>1, <4>2, Numbers
    <3>2. QED
      BY <2>3, <2>4, <3>1 DEF Passed
  <2>7. Closedness'
    BY <1>1, <1>4, <2>4 DEF IInv, Closedness
  <2>8. TypeOK' /\ InRange'
    <3>1. cursor' \in from..MaxOf(from, to + 1)
      BY <2>2, Numbers DEF MaxOf
    <3>2. QED
      BY <1>1, <1>6, <2>4, <3>1 DEF IInv, TypeOK, InRange, Times, CandleTimes, MaxOf
  <2>9. QED
    BY <1>1, <2>5, <2>6, <2>7, <2>8 DEF IInv, FundingSoFar, FundingComplete
<1>7. QED
  BY <1>1, <1>5, <1>6

LEMMA FundingPageKeeps == IInv /\ FundingPage => IInv'
<1> SUFFICES ASSUME IInv, FundingPage PROVE IInv'
  OBVIOUS
<1> DEFINE Rest == Between(cursor, to)
<1>1. /\ query = "funding" /\ ~done /\ cursor < to
      /\ UNCHANGED <<query, records, from, to, emptySearchedMs>>
      /\ \/ Page = {} /\ done' = TRUE /\ UNCHANGED <<retVal, cursor>>
         \/ /\ Page # {} /\ retVal' = Append(retVal, Page)
            /\ \/ Cardinality(Page) < PageLimit /\ done' = TRUE /\ cursor' = cursor
               \/ done' = FALSE /\ cursor' = AfterPage
  BY DEF FundingPage, request, IInv, TypeOK
<1>2. /\ Rest \in SUBSET Times /\ Rest \subseteq records
      /\ \A t \in Rest : cursor <= t /\ t <= to
      /\ \A t \in records : cursor <= t /\ t <= to => t \in Rest
  BY DEF Between, IInv, InRange
<1>3. /\ Page \subseteq Rest
      /\ \A t \in Page, u \in Rest : u <= t => u \in Page
      /\ Cardinality(Page) < PageLimit => Page = Rest
      /\ Page = {} => Rest = {}
  BY <1>2, FirstOfPrefix, Numbers DEF Page
<1> HIDE DEF Rest
<1>4. \A t \in records : from <= t /\ t < cursor => t \in Downloaded
  BY <1>1 DEF IInv, FundingSoFar
<1>5. CASE Page = {} /\ done' = TRUE /\ UNCHANGED <<retVal, cursor>>
  <2>1. \A t \in records : from <= t /\ t < to => t \in Downloaded
    BY <1>2, <1>3, <1>4, <1>5, Numbers
  <2>2. FundingComplete'
    BY <1>1, <1>5, <2>1 DEF FundingComplete, Wanted, Downloaded
  <2>3. QED
    BY <1>1, <1>5, <2>2 DEF IInv, TypeOK, InRange, Passed, FundingSoFar, Ascending, Closedness,
       Times, CandleTimes, MaxOf
<1>6. CASE Page # {} /\ retVal' = Append(retVal, Page)
  <2>1. Page \in SUBSET records /\ \A t \in Page : cursor <= t /\ t <= to /\ t \in Int
    BY <1>2, <1>3, Numbers
  <2>2. /\ \A i \in DOMAIN retVal' :
             \/ i \in DOMAIN retVal /\ retVal'[i] = retVal[i]
             \/ i = Len(retVal) + 1 /\ retVal'[i] = Page
        /\ retVal' \in Seq((SUBSET records) \ {{}})
        /\ Downloaded' = Downloaded \cup Page
    BY <1>6, <2>1, AppendPage
  <2>3. Ascending'
    BY <1>1, <1>6, <2>1, AppendAscends
  <2>4. Closedness'
    BY <1>1 DEF Closedness
  <2>5. CASE Cardinality(Page) < PageLimit /\ done' = TRUE /\ cursor' = cursor
    <3>1. \A t \in records : from <= t /\ t < to => t \in Downloaded'
      BY <1>2, <1>3, <1>4, <2>2, <2>5, Numbers
    <3>2. FundingComplete'
      BY <1>1, <3>1 DEF FundingComplete, Wanted
    <3>3. TypeOK' /\ InRange'
      BY <1>1, <2>2, <2>5 DEF IInv, TypeOK, InRange, Times, CandleTimes, MaxOf
    <3>4. QED
      BY <2>3, <2>4, <2>5, <3>2, <3>3 DEF IInv, Passed, FundingSoFar
  <2>6. CASE done' = FALSE /\ cursor' = AfterPage
    <3>1. Latest(Page) \in Page /\ \A u \in Page : u <= Latest(Page)
      BY <1>2, <1>3, <1>6, LatestIsLatest
    <3>2. cursor' = Latest(Page) + 1 /\ cursor < cursor' /\ cursor' <= to + 1 /\ cursor' \in Int
      BY <2>1, <2>6, <3>1, Numbers DEF AfterPage
    <3>3. FundingSoFar'
      <4>1. ASSUME NEW t \in records, from <= t, t < cursor', ~(t < cursor) PROVE t \in Page
        <5>1. t \in Int /\ cursor <= t /\ t <= Latest(Page) /\ t <= to
          BY <2>1, <3>1, <3>2, <4>1, Numbers
        <5>2. QED
          BY <1>2, <1>3, <3>1, <5>1
      <4>2. QED
        BY <1>1, <1>4, <2>2, <4>1 DEF FundingSoFar
    <3>4. Passed'
      <4>1. ASSUME NEW i \in DOMAIN retVal, NEW t \in retVal[i] PROVE t < cursor'
        <5>1. t \in records
          BY <4>1 DEF IInv, TypeOK
        <5>2. t < cursor
          BY <1>1, <4>1 DEF IInv, Passed
        <5>3. QED
          BY <3>2, <5>1, <5>2, Numbers
      <4>2. \A t \in Page : t < cursor'
        BY <2>1, <3>1, <3>2
      <4>3. QED
        BY <2>2, <4>1, <4>2 DEF Passed
    <3>5. TypeOK' /\ InRange'
      <4>1. cursor' \in from..MaxOf(from, to + 1)
        BY <3>2, Numbers DEF MaxOf
      <4>2. QED
        BY <1>1, <2>2, <2>6, <4>1 DEF IInv, TypeOK, InRange, Times, CandleTimes, MaxOf
    <3>6. QED
      BY <2>3, <2>4, <2>6, <3>3, <3>4, <3>5 DEF IInv, FundingComplete
  <2>7. QED
    BY <1>1, <1>6, <2>5, <2>6
<1>7. QED
  BY <1>1, <1>5, <1>6

LEMMA StutterKeeps == IInv /\ UNCHANGED vars => IInv'
BY DEF IInv, TypeOK, InRange, Passed, FundingSoFar, Ascending, Closedness, FundingComplete, Wanted,
     Downloaded, Times, CandleTimes, MaxOf, vars, request

-----------------------------------------------------------------------------

\* The invariant that ties the result to the cursor holds throughout.
THEOREM PagerInvariant == Spec => []IInv
<1>1. IInv /\ [Next]_vars => IInv'
  BY RangeDoneKeeps, EmptyBatchKeeps, CandleBatchKeeps, FundingPageKeeps, StutterKeeps DEF Next
<1>2. QED
  BY InitHolds, <1>1, PTL DEF Spec

\* The cursor stays in the range, at most one past its end.
THEOREM PagerTypes == Spec => []TypeOK
<1>1. IInv => TypeOK
  BY DEF IInv
<1>2. QED
  BY PagerInvariant, <1>1, PTL

\* "chronologically ascending" (hyperliquid_rest_client.h:37), without repeats
\* at the seams: for every interval, window, page size and set of records.
THEOREM PagesAscend == Spec => []Ascending
<1>1. IInv => Ascending
  BY DEF IInv
<1>2. QED
  BY PagerInvariant, <1>1, PTL

\* Dropping the last candle of a batch is enough to return closed ones only.
THEOREM CandlesAreClosed == Spec => []OnlyClosedCandles
<1>1. IInv => OnlyClosedCandles
  BY DEF IInv, Closedness, OnlyClosedCandles, Downloaded
<1>2. QED
  BY PagerInvariant, <1>1, PTL

\* A finished funding download has every rate of the range but its end's,
\* however full the pages were.
THEOREM FundingIsComplete == Spec => []FundingComplete
<1>1. IInv => FundingComplete
  BY DEF IInv
<1>2. QED
  BY PagerInvariant, <1>1, PTL

-----------------------------------------------------------------------------
(* Which candles are returned.  Everything that a batch or a jump passes   *)
(* is accounted for as it is passed: a jump in the last part of the range  *)
(* covers no more than the empty batch, and a jump anywhere starts at an   *)
(* empty batch, which an unbroken series of candles cannot have.           *)

\* No candle is missing between two times.
Unbroken(s, t) == \A u \in CandleTimes : s <= u /\ u <= t => u \in records

Recent(t) == t >= to - CoarseSkip
Follows(t) == \E s \in Downloaded : s < t /\ Unbroken(s, t)

\* Up to the cursor, the recent candles and those that follow others were
\* returned; and no more time was searched in vain than lies behind the cursor.
CandlesSoFar ==
  query = "candles" /\ ~done =>
    /\ \A t \in records : ClosedCandle(t) /\ t < cursor /\ (Recent(t) \/ Follows(t)) => t \in Downloaded
    /\ emptySearchedMs <= cursor - from

CandlesInTheEnd ==
  query = "candles" /\ done =>
    \A t \in records :
      ClosedCandle(t) /\ ((Recent(t) /\ to - from < MaxEmptySearch) \/ Follows(t)) => t \in Downloaded

CandleInv == CandlesSoFar /\ CandlesInTheEnd

\* The batch before the cursor plus an interval, or the end of the range.
LEMMA BatchSpan ==
  ASSUME IInv, cursor < to
  PROVE  /\ BatchTo \in Int /\ cursor <= BatchTo /\ BatchTo <= to
         /\ BatchTo >= cursor + Interval \/ BatchTo = to
         /\ \A t \in records : cursor <= t /\ t <= BatchTo => t \in Batch
<1>1. Interval * BatchCandles \in Nat /\ Interval * BatchCandles >= Interval
  <2>1. \A m, n \in Nat \ {0} : m * n \in Nat /\ m * n >= m
    OBVIOUS
  <2> QED BY <2>1, PagerAssumption
<1> QED
  BY <1>1, Numbers DEF BatchTo, MinOf, Batch, Between

LEMMA Division ==
  ASSUME NEW x \in Int, NEW n \in Nat \ {0}
  PROVE  x \div n \in Int /\ x % n \in 0..(n - 1) /\ x = n * (x \div n) + (x % n)
OBVIOUS

\* The last multiple of a number below another.
LEMMA LastMultiple ==
  ASSUME NEW x \in Nat, NEW n \in Nat \ {0}
  PROVE  \E u \in Nat : u % n = 0 /\ u <= x /\ x < u + n
<1> DEFINE q == x \div n
           r == x % n
<1>1. q \in Int /\ r \in 0..(n - 1) /\ x = n * q + r
  BY Division
<1> HIDE DEF q, r
<1>2. n * q \in Nat /\ n * q <= x /\ x < n * q + n
  <2>1. n * q \in Int
    BY <1>1
  <2>2. q < 0 => n * q <= -n
    BY <1>1
  <2>3. q >= 0 => n * q >= 0
    BY <1>1
  <2> QED BY <1>1, <2>1, <2>2, <2>3
<1>3. (n * q) % n = 0
  <2> DEFINE u == n * q
             d == u \div n
             m == u % n
  <2>0. u \in Int
    BY <1>2
  <2>1. d \in Int /\ m \in 0..(n - 1) /\ u = n * d + m
    <3> HIDE DEF u
    <3> QED BY <2>0, Division
  <2> HIDE DEF d, m
  <2>2. m = n * (q - d)
    BY <1>1, <2>1
  <2>3. q - d > 0 => n * (q - d) >= n
    BY <1>1, <2>1
  <2>4. q - d < 0 => n * (q - d) < 0
    BY <1>1, <2>1
  <2>5. q - d = 0 => n * (q - d) = 0
    BY <1>1, <2>1
  <2> QED BY <1>1, <2>1, <2>2, <2>3, <2>4, <2>5 DEF m
<1> QED
  BY <1>2, <1>3

\* There is a time for a candle in every interval.
LEMMA CandleTimeFrom ==
  ASSUME NEW x \in Nat, NEW y \in Times, x <= y, y \in CandleTimes
  PROVE  \E u \in CandleTimes : x <= u /\ u <= y /\ u < x + Interval
<1>1. Interval \in Nat \ {0} /\ MaxTime \in Nat /\ y \in Nat /\ y <= MaxTime
  BY PagerAssumption DEF Times
<1>2. x + Interval - 1 \in Nat
  BY <1>1
<1>3. PICK u \in Nat : u % Interval = 0 /\ u <= x + Interval - 1 /\ x + Interval - 1 < u + Interval
  BY <1>1, <1>2, LastMultiple
<1>4. CASE u <= y
  <2>1. u \in CandleTimes
    BY <1>1, <1>3, <1>4 DEF CandleTimes, Times
  <2> QED BY <1>1, <1>3, <1>4, <2>1
<1>5. CASE y < u
  BY <1>1, <1>3, <1>5
<1> QED
  BY <1>1, <1>3, <1>4, <1>5

\* An unbroken series that reaches the cursor leaves no batch empty.
LEMMA NoGapNoEmptyBatch ==
  ASSUME IInv, query = "candles", cursor < to,
         NEW s, s \in Int, s <= cursor, NEW t \in records, cursor <= t, t <= to, Unbroken(s, t)
  PROVE  Batch # {}
<1>1. cursor \in Nat /\ t \in CandleTimes /\ t \in Times /\ t \in Int
  BY Numbers DEF IInv, InRange, CandleTimes
<1>2. PICK u \in CandleTimes : cursor <= u /\ u <= t /\ u < cursor + Interval
  BY <1>1, CandleTimeFrom
<1>3. u \in Int
  BY <1>2, PagerAssumption DEF CandleTimes, Times
<1>4. u \in records
  BY <1>2, <1>3, Numbers DEF Unbroken
<1>5. u <= BatchTo
  BY <1>1, <1>2, <1>3, BatchSpan, Numbers
<1> QED
  BY <1>2, <1>4, <1>5, BatchSpan

LEMMA InitCandles == Init => CandleInv
<1> SUFFICES ASSUME Init PROVE CandleInv
  OBVIOUS
<1>1. IInv /\ cursor = from /\ emptySearchedMs = 0 /\ done = FALSE
  BY InitHolds DEF Init
<1>2. \A t \in records : ClosedCandle(t) => ~(t < cursor)
  BY <1>1, Numbers DEF ClosedCandle, Wanted
<1> QED
  BY <1>1, <1>2, Numbers DEF CandleInv, CandlesSoFar, CandlesInTheEnd

LEMMA RangeDoneCandles ==
  ASSUME IInv, CandleInv, RangeDone
  PROVE  CandleInv'
<1>1. /\ ~done /\ cursor >= to /\ done' = TRUE
      /\ UNCHANGED <<query, records, from, to, cursor, emptySearchedMs, retVal>>
  BY DEF RangeDone, request
<1>2. \A t \in records : ClosedCandle(t) => t < cursor
  BY <1>1, Numbers DEF ClosedCandle
<1>3. CandlesInTheEnd'
  BY <1>1, <1>2 DEF CandleInv, CandlesSoFar, CandlesInTheEnd, Recent, Follows, Unbroken, ClosedCandle,
     Wanted, Downloaded, CandleTimes, Times
<1> QED
  BY <1>1, <1>3 DEF CandleInv, CandlesSoFar

LEMMA EmptyBatchCandles ==
  ASSUME IInv, CandleInv, EmptyBatch
  PROVE  CandleInv'
<1>1. /\ query = "candles" /\ ~done /\ cursor < to /\ Batch = {}
      /\ emptySearchedMs' = emptySearchedMs + Skip
      /\ \/ emptySearchedMs' >= MaxEmptySearch /\ done' = TRUE
         \/ done' = FALSE /\ cursor' = MinOf(cursor + Skip, to)
      /\ UNCHANGED <<query, records, from, to, retVal>>
  BY DEF EmptyBatch, request, IInv, TypeOK
<1>2. /\ Skip \in Nat /\ cursor + Skip <= to
      /\ \A t \in Int : t < cursor + Skip => t < BatchTo \/ ~Recent(t)
  BY <1>1, BatchSpan, Numbers DEF Skip, MaxOf, Recent
<1>3. emptySearchedMs <= cursor - from /\ emptySearchedMs \in Nat /\ MaxEmptySearch \in Nat
  BY <1>1, PagerAssumption DEF CandleInv, CandlesSoFar, IInv, TypeOK
<1>4. ASSUME NEW t \in records, ClosedCandle(t), Follows(t) PROVE t \in Downloaded
  <2>1. PICK s \in Downloaded : s < t /\ Unbroken(s, t)
    BY <1>4 DEF Follows
  <2>2. s \in records /\ s < cursor
    BY <1>1, <2>1 DEF Downloaded, IInv, TypeOK, Passed
  <2>3. t < cursor
    BY <1>1, <1>4, <2>1, <2>2, NoGapNoEmptyBatch, Numbers DEF ClosedCandle
  <2> QED BY <1>1, <1>4, <2>3 DEF CandleInv, CandlesSoFar
<1>5. ASSUME NEW t \in records, ClosedCandle(t), Recent(t), t < cursor + Skip PROVE t \in Downloaded
  <2>1. t \in Int /\ t < BatchTo
    BY <1>2, <1>5, Numbers
  <2>2. t < cursor
    BY <1>1, <2>1, BatchSpan, Numbers
  <2> QED BY <1>1, <1>5, <2>2 DEF CandleInv, CandlesSoFar
<1>6. UNCHANGED Downloaded
  BY <1>1 DEF Downloaded
<1>7. \A t : /\ ClosedCandle(t)' <=> ClosedCandle(t)
             /\ Recent(t)' <=> Recent(t)
             /\ Follows(t)' <=> Follows(t)
  BY <1>1, <1>6 DEF ClosedCandle, Wanted, Recent, Follows, Unbroken
<1>8. CASE emptySearchedMs' >= MaxEmptySearch /\ done' = TRUE
  <2>1. ~(to - from < MaxEmptySearch)
    BY <1>1, <1>2, <1>3, <1>8, Numbers
  <2> QED BY <1>1, <1>4, <1>6, <1>7, <1>8, <2>1 DEF CandleInv, CandlesSoFar, CandlesInTheEnd
<1>9. CASE done' = FALSE /\ cursor' = MinOf(cursor + Skip, to)
  <2>1. cursor' = cursor + Skip
    BY <1>2, <1>9, Numbers DEF MinOf
  <2>2. emptySearchedMs' <= cursor' - from
    BY <1>1, <1>2, <1>3, <2>1, Numbers
  <2> QED BY <1>1, <1>4, <1>5, <1>6, <1>7, <1>9, <2>1, <2>2 DEF CandleInv, CandlesSoFar, CandlesInTheEnd
<1> QED
  BY <1>1, <1>8, <1>9

LEMMA CandleBatchCandles ==
  ASSUME IInv, CandleInv, CandleBatch
  PROVE  CandleInv'
<1>1. /\ query = "candles" /\ ~done /\ cursor < to /\ Batch # {}
      /\ emptySearchedMs' = 0
      /\ UNCHANGED <<query, records, from, to>>
      /\ \/ Closed = {} /\ done' = TRUE /\ UNCHANGED <<retVal, cursor>>
         \/ /\ Closed # {} /\ done' = FALSE
            /\ retVal' = Append(retVal, Closed) /\ cursor' = AfterBatch
  BY DEF CandleBatch, request, IInv, TypeOK
<1>2. /\ Batch \in SUBSET records /\ records \subseteq CandleTimes /\ CandleTimes \subseteq Times
      /\ \A t \in Batch : cursor <= t /\ t <= BatchTo
  BY <1>1 DEF Batch, Between, IInv, InRange, CandleTimes
<1>3. Latest(Batch) \in Batch /\ \A u \in Batch : u <= Latest(Batch)
  BY <1>1, <1>2, LatestIsLatest
<1>4. \A t \in Batch : t + Interval <= to => t \in Closed
  BY <1>2, <1>3, Numbers DEF Closed
<1>5. Closed \subseteq Batch
  BY DEF Closed
<1>6. CASE Closed = {} /\ done' = TRUE /\ UNCHANGED <<retVal, cursor>>
  <2>1. ASSUME NEW t \in records, ClosedCandle(t) PROVE t < cursor
    <3>1. t \in Int /\ t + Interval <= to /\ ~(Latest(Batch) + Interval <= to)
          /\ Latest(Batch) \in Int /\ Latest(Batch) <= BatchTo
      BY <1>2, <1>3, <1>4, <1>6, <2>1, Numbers DEF ClosedCandle
    <3>2. t <= BatchTo
      BY <1>1, <3>1, BatchSpan, Numbers
    <3>3. t \notin Batch
      BY <1>4, <1>6, <3>1
    <3> QED BY <1>1, <3>1, <3>2, <3>3, BatchSpan, Numbers
  <2>2. UNCHANGED Downloaded
    BY <1>6 DEF Downloaded
  <2>3. \A t : /\ ClosedCandle(t)' <=> ClosedCandle(t)
               /\ Recent(t)' <=> Recent(t)
               /\ Follows(t)' <=> Follows(t)
    BY <1>1, <2>2 DEF ClosedCandle, Wanted, Recent, Follows, Unbroken
  <2> QED BY <1>1, <1>6, <2>1, <2>2, <2>3 DEF CandleInv, CandlesSoFar, CandlesInTheEnd
<1>7. CASE Closed # {} /\ done' = FALSE /\ retVal' = Append(retVal, Closed) /\ cursor' = AfterBatch
  <2>1. Latest(Closed) \in Closed /\ \A u \in Closed : u <= Latest(Closed)
    BY <1>2, <1>5, <1>7, LatestIsLatest
  <2>2. /\ cursor' = Latest(Closed) + Interval /\ Latest(Closed) \in records /\ Latest(Closed) \in Int
        /\ cursor <= Latest(Closed) /\ Latest(Closed) <= BatchTo /\ cursor' \in Int
    BY <1>2, <1>5, <1>7, <2>1, Numbers DEF AfterBatch
  <2>3. Downloaded' = Downloaded \cup Closed
    BY <1>2, <1>5, <1>7, AppendPage
  <2>4. ASSUME NEW t \in records, ClosedCandle(t), cursor <= t, t < cursor' PROVE t \in Downloaded'
    <3>1. t \in Int /\ t \in CandleTimes /\ Latest(Closed) \in CandleTimes
      BY <1>2, <2>2, Numbers
    <3>2. t <= Latest(Closed)
      BY <2>2, <2>4, <3>1, CandlesApart, Numbers
    <3>3. t <= BatchTo
      BY <1>1, <2>2, <3>1, <3>2, BatchSpan
    <3>4. t \in Batch
      BY <1>1, <2>4, <3>3, BatchSpan
    <3> QED BY <1>4, <2>3, <2>4, <3>4 DEF ClosedCandle
  <2>5. ASSUME NEW t \in records, ClosedCandle(t), t < cursor, Recent(t)' \/ Follows(t)'
        PROVE  t \in Downloaded'
    <3>1. Recent(t)' <=> Recent(t)
      BY <1>1 DEF Recent
    <3>2. Follows(t)' => Follows(t)
      <4>1. ASSUME NEW s \in Downloaded', s < t, Unbroken(s, t)' PROVE Follows(t)
        <5>1. s \in Downloaded
          BY <1>2, <1>5, <2>3, <2>5, <4>1, Numbers
        <5> QED BY <1>1, <4>1, <5>1 DEF Follows, Unbroken
      <4> QED BY <4>1 DEF Follows
    <3>3. t \in Downloaded
      BY <1>1, <2>5, <3>1, <3>2 DEF CandleInv, CandlesSoFar
    <3> QED BY <2>3, <3>3
  <2>6. \A t : ClosedCandle(t)' <=> ClosedCandle(t)
    BY <1>1 DEF ClosedCandle, Wanted
  <2>7. emptySearchedMs' <= cursor' - from
    BY <1>1, <2>2, Numbers
  <2>8. \A t \in records : t \in Int /\ (t < cursor \/ cursor <= t)
    BY Numbers
  <2> QED BY <1>1, <1>7, <2>4, <2>5, <2>6, <2>7, <2>8 DEF CandleInv, CandlesSoFar, CandlesInTheEnd
<1> QED
  BY <1>1, <1>6, <1>7

\* The candles of every reachable state.
LEMMA CandlesInvariant == Spec => []CandleInv
<1>1. ASSUME IInv, CandleInv, [Next]_vars PROVE CandleInv'
  <2>1. CASE FundingPage \/ UNCHANGED vars
    <3>1. query' = query /\ (query = "candles" =>
             UNCHANGED <<records, from, to, cursor, emptySearchedMs, retVal, done>>)
      BY <2>1 DEF FundingPage, vars, request
    <3> QED BY <1>1, <3>1 DEF CandleInv, CandlesSoFar, CandlesInTheEnd, Recent, Follows, Unbroken,
            ClosedCandle, Wanted, Downloaded, CandleTimes, Times
  <2> QED BY <1>1, <2>1, RangeDoneCandles, EmptyBatchCandles, CandleBatchCandles DEF Next
<1> QED
  BY <1>1, InitCandles, PagerInvariant, PTL DEF Spec

\* "so that recent data isn't missed regardless of interval"
\* (hyperliquid_rest_client.cpp:98): the coarse jumps never pass a candle of
\* the last CoarseSkip before the end, and a range that is shorter than
\* MaxEmptySearch is searched to its end.
THEOREM RecentAreReturned == Spec => []RecentCandlesReturned
<1>1. CandleInv => RecentCandlesReturned
  BY DEF CandleInv, CandlesInTheEnd, RecentCandlesReturned, ClosedCandle, Wanted, Recent
<1> QED
  BY <1>1, CandlesInvariant, PTL

\* A jump leaves no hole in the result: behind a candle that was returned,
\* candles are returned for as long as they come without a gap.
THEOREM NoHoles == Spec => []NoHoleBetweenCandles
<1>1. CandleInv => NoHoleBetweenCandles
  BY DEF CandleInv, CandlesInTheEnd, NoHoleBetweenCandles, ClosedCandle, Wanted, Follows, Unbroken
<1> QED
  BY <1>1, CandlesInvariant, PTL

=============================================================================
