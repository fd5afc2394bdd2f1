---------------------------- MODULE HistoryPager ----------------------------
(***************************************************************************)
(* Downloads of history by RESTClient (src/src/hyperliquid_rest_client.cpp)*)
(* page by page: candles (getHistoricalPrices) and funding rates           *)
(* (getFundingRates).  Records are their times; the page that one request  *)
(* returns, in ascending order, is the set of its times, and retVal lists  *)
(* the pages.  One step is one turn of the loop.  The venue's records do   *)
(* not change during a download.                                           *)
(***************************************************************************)
EXTENDS Integers, Sequences, FiniteSets

CONSTANTS
  MaxTime,         \* bound: times are 0 .. MaxTime
  Interval,        \* length of a candle
  BatchCandles,    \* candles in a request window (5000 in the code)
  CoarseSkip,      \* jump over empty time (30 days in the code)
  MaxEmptySearch,  \* empty time after which the search ends (5 years)
  PageLimit        \* funding rates in a full page (500)

ASSUME PagerAssumption ==
  /\ {MaxTime, MaxEmptySearch} \subseteq Nat
  /\ {Interval, BatchCandles, CoarseSkip, PageLimit} \subseteq Nat \ {0}

VARIABLES
  query,           \* what is downloaded
  records,         \* the venue's records of it
  from, to,        \* the caller's time range (startTime, endTime)
  cursor,          \* batchFrom, pageStart
  emptySearchedMs,
  retVal,
  done

request == <<query, records, from, to>>
vars == <<request, cursor, emptySearchedMs, retVal, done>>

Times == 0..MaxTime
CandleTimes == {t \in Times : t % Interval = 0}

MinOf(a, b) == IF a < b THEN a ELSE b
MaxOf(a, b) == IF a > b THEN a ELSE b
Latest(S) == CHOOSE t \in S : \A u \in S : u <= t
Downloaded == UNION {retVal[i] : i \in DOMAIN retVal}

TypeOK ==
  /\ query \in {"candles", "funding"}
  /\ records \subseteq Times
  /\ from \in Times /\ to \in Times
  /\ cursor \in from..MaxOf(from, to + 1)
  /\ emptySearchedMs \in Nat
  /\ retVal \in Seq((SUBSET records) \ {{}})
  /\ done \in BOOLEAN

Init ==
  /\ \/ query = "candles" /\ records \in SUBSET CandleTimes
     \/ query = "funding" /\ records \in SUBSET Times
  /\ from \in Times
  /\ to \in from..MaxTime
  /\ cursor = from
  /\ emptySearchedMs = 0
  /\ retVal = <<>>
  /\ done = FALSE

-----------------------------------------------------------------------------

\* The venue's answers: the records of a range, both ends included.
Between(start, end) == {t \in records : start <= t /\ t <= end}
FirstOf(S, n) == {t \in S : Cardinality({u \in S : u <= t}) <= n}

RangeDone ==
  /\ ~done
  /\ cursor >= to
  /\ done' = TRUE
  /\ UNCHANGED <<request, cursor, emptySearchedMs, retVal>>

-----------------------------------------------------------------------------
(* Candles.                                                                *)

BatchTo == MinOf(cursor + Interval * BatchCandles, to)
Batch == Between(cursor, BatchTo)

\* A skip that never falls back to the batch size.
SkipAlwaysCoarse == MaxOf(BatchTo - cursor, CoarseSkip)

\* A skip that near the end measures from the wrong side of the window.
SkipFromBatchTo ==
  IF to - cursor > 2 * CoarseSkip THEN MaxOf(BatchTo - cursor, CoarseSkip)
  ELSE to - BatchTo

\* Far from the end of the range empty time is skipped in coarse jumps.
Skip ==
  IF to - cursor > 2 * CoarseSkip THEN MaxOf(BatchTo - cursor, CoarseSkip)
  ELSE BatchTo - cursor

EmptyBatch ==
  /\ query = "candles" /\ ~done
  /\ cursor < to
  /\ Batch = {}
  /\ emptySearchedMs' = emptySearchedMs + Skip
  /\ IF emptySearchedMs' >= MaxEmptySearch
     THEN done' = TRUE /\ UNCHANGED cursor
     ELSE cursor' = MinOf(cursor + Skip, to) /\ UNCHANGED done
  /\ UNCHANGED <<request, retVal>>

\* Every candle of the batch, the open one as well.
ClosedAndOpen == Batch

\* The last candle is dropped if it is still open at the end of the range.
Closed == IF Latest(Batch) + Interval > to THEN Batch \ {Latest(Batch)} ELSE Batch

\* A cursor that stays on the last candle.
AfterBatchOnLast == Latest(Closed)

\* A cursor that leaves a candle out.
AfterBatchTooFar == Latest(Closed) + 2 * Interval

AfterBatch == Latest(Closed) + Interval

CandleBatch ==
  /\ query = "candles" /\ ~done
  /\ cursor < to
  /\ Batch # {}
  /\ emptySearchedMs' = 0
  /\ IF Closed = {}
     THEN done' = TRUE /\ UNCHANGED <<retVal, cursor>>
     ELSE /\ retVal' = Append(retVal, Closed)
          /\ cursor' = AfterBatch
          /\ UNCHANGED done
  /\ UNCHANGED request

-----------------------------------------------------------------------------
(* Funding rates.                                                          *)

Page == FirstOf(Between(cursor, to), PageLimit)

\* A cursor too far past the last record.
AfterPageTooFar == Latest(Page) + 2

AfterPage == Latest(Page) + 1

FundingPage ==
  /\ query = "funding" /\ ~done
  /\ cursor < to
  /\ IF Page = {}
     THEN done' = TRUE /\ UNCHANGED <<retVal, cursor>>
     ELSE /\ retVal' = Append(retVal, Page)
          /\ IF Cardinality(Page) < PageLimit
             THEN done' = TRUE /\ UNCHANGED cursor
             ELSE cursor' = AfterPage /\ UNCHANGED done
  /\ UNCHANGED <<request, emptySearchedMs>>

Next == RangeDone \/ EmptyBatch \/ CandleBatch \/ FundingPage

Spec == Init /\ [][Next]_vars

\* The calling thread runs its loop.
FairSpec == Spec /\ WF_vars(Next)

-----------------------------------------------------------------------------

\* "chronologically ascending" (hyperliquid_rest_client.h:37): across pages
\* too, and no record is returned twice at the seam of two windows.
Ascending ==
  \A i, j \in DOMAIN retVal : i < j => \A s \in retVal[i], t \in retVal[j] : s < t

\* Only candles that are closed at the end of the range are returned: dropping
\* the last candle of a batch is enough.
OnlyClosedCandles == query = "candles" => \A t \in Downloaded : t + Interval <= to

\* A record a finished download should have returned.
Wanted(t) == from <= t /\ t \in records
ClosedCandle(t) == Wanted(t) /\ t + Interval <= to

\* Every closed candle of the last CoarseSkip is returned, whatever is missing
\* before it ("so that recent data isn't missed regardless of interval",
\* hyperliquid_rest_client.cpp:98), if the range is not longer than the search.
RecentCandlesReturned ==
  query = "candles" /\ done /\ to - from < MaxEmptySearch =>
    \A t \in Times : ClosedCandle(t) /\ t >= to - CoarseSkip => t \in Downloaded

\* Once candles come without a gap, all the later ones are returned: a coarse
\* jump never leaves a hole behind the first candle of the result.
NoHoleBetweenCandles ==
  query = "candles" /\ done =>
    \A s \in Downloaded, t \in Times :
      t > s /\ ClosedCandle(t) /\ (\A u \in CandleTimes : s <= u /\ u <= t => u \in records)
        => t \in Downloaded

\* Every funding rate of the range but its end is returned, full pages or not.
FundingComplete ==
  query = "funding" /\ done => \A t \in Times : Wanted(t) /\ t < to => t \in Downloaded

\* "endTime timestamp in ms (inclusive)" (hyperliquid_rest_client.h:49).
FundingEndInclusive ==
  query = "funding" /\ done => \A t \in Times : Wanted(t) /\ t <= to => t \in Downloaded

\* Every download ends.
Terminates == <>done

=============================================================================
