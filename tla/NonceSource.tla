----------------------------- MODULE NonceSource -----------------------------
(***************************************************************************)
(* The nonces of ExchangeClient (src/src/hyperliquid_exchange_client.cpp): *)
(* threads placing and cancelling orders concurrently each take a nonce    *)
(* with a compare-and-swap loop over lastNonce, sign the action with it    *)
(* and POST it.  The system clock may be set back; requests overtake each  *)
(* other on their way to the venue or are lost, and are never retried.     *)
(***************************************************************************)
EXTENDS Naturals

CONSTANTS
  Threads,   \* threads that post actions
  Times,     \* readings of the system clock, in milliseconds
  MaxTaken   \* bound: no action starts once so many nonces are taken

ASSUME NonceAssumption == Times \subseteq Nat /\ MaxTaken \in Nat

VARIABLES
  clock,      \* the system clock
  latest,     \* the latest time it has shown
  lastNonce,
  phase,      \* where in postAction() each thread is
  now,        \* now, prev, nonce: its local variables
  prev,
  nonce,
  taken,      \* nonces taken so far
  seen,       \* nonces of the actions that reached the venue
  replays     \* actions the venue turned down for a nonce it had seen

locals == <<now, prev, nonce>>
venue == <<seen, replays>>
vars == <<clock, latest, lastNonce, phase, locals, taken, venue>>

Phases == {"idle", "load", "swap", "post"}

MaxOf(a, b) == IF a > b THEN a ELSE b

TypeOK ==
  /\ clock \in Nat /\ latest \in Nat /\ lastNonce \in Nat /\ taken \in Nat
  /\ phase \in [Threads -> Phases]
  /\ now \in [Threads -> Nat]
  /\ prev \in [Threads -> Nat]
  /\ nonce \in [Threads -> Nat]
  /\ \A t \in Threads : phase[t] = "post" => nonce[t] # 0
  /\ seen \subseteq Nat \ {0}
  /\ replays \in Nat

Init ==
  /\ clock \in Times
  /\ latest = clock
  /\ lastNonce = 0
  /\ phase = [t \in Threads |-> "idle"]
  /\ now = [t \in Threads |-> 0]
  /\ prev = [t \in Threads |-> 0]
  /\ nonce = [t \in Threads |-> 0]
  /\ taken = 0
  /\ seen = {}
  /\ replays = 0

-----------------------------------------------------------------------------

Goto(t, p) == phase' = [phase EXCEPT ![t] = p]

\* The clock runs, stands still between two readings, or is set back.
ClockChanges ==
  /\ clock' \in Times \ {clock}
  /\ latest' = MaxOf(latest, clock')
  /\ UNCHANGED <<lastNonce, phase, locals, taken, venue>>

ReadClock(t) ==
  /\ phase[t] = "idle"
  /\ taken < MaxTaken
  /\ now' = [now EXCEPT ![t] = clock]
  /\ Goto(t, "load")
  /\ UNCHANGED <<clock, latest, lastNonce, prev, nonce, taken, venue>>

LoadLast(t) ==
  /\ phase[t] = "load"
  /\ prev' = [prev EXCEPT ![t] = lastNonce]
  /\ Goto(t, "swap")
  /\ UNCHANGED <<clock, latest, lastNonce, now, nonce, taken, venue>>

\* A next nonce that is not above the previous one.
NextNonceNotAbove(t) == MaxOf(now[t], prev[t])

\* A next nonce that leaves a gap.
NextNonceWithGap(t) == MaxOf(now[t], prev[t] + 2)

NextNonce(t) == MaxOf(now[t], prev[t] + 1)

\* A compare-and-swap that does not compare.
MaySwapAlways(t) == phase[t] = "swap"

MaySwap(t) == phase[t] = "swap" /\ lastNonce = prev[t]

SwapSucceeds(t) ==
  /\ MaySwap(t)
  /\ lastNonce' = NextNonce(t)
  /\ nonce' = [nonce EXCEPT ![t] = lastNonce']
  /\ taken' = taken + 1
  /\ Goto(t, "post")
  /\ UNCHANGED <<clock, latest, now, prev, venue>>

\* compare_exchange_weak may fail even if nothing has changed; it loads the
\* current value into prev.
SwapFails(t) ==
  /\ phase[t] = "swap"
  /\ prev' = [prev EXCEPT ![t] = lastNonce]
  /\ UNCHANGED <<clock, latest, lastNonce, phase, now, nonce, taken, venue>>

\* The signed action reaches the venue, which turns down a nonce it has seen.
PostArrives(t) ==
  /\ phase[t] = "post"
  /\ IF nonce[t] \in seen
     THEN replays' = replays + 1 /\ UNCHANGED seen
     ELSE seen' = seen \cup {nonce[t]} /\ UNCHANGED replays
  /\ Goto(t, "idle")
  /\ UNCHANGED <<clock, latest, lastNonce, locals, taken>>

\* The request is lost: postAction() throws and its nonce is spent.
PostFails(t) ==
  /\ phase[t] = "post"
  /\ Goto(t, "idle")
  /\ UNCHANGED <<clock, latest, lastNonce, locals, taken, venue>>

Step(t) ==
  \/ ReadClock(t) \/ LoadLast(t) \/ SwapSucceeds(t) \/ SwapFails(t)
  \/ PostArrives(t) \/ PostFails(t)

Next == ClockChanges \/ \E t \in Threads : Step(t)

Spec == Init /\ [][Next]_vars

-----------------------------------------------------------------------------

\* The nonces of all concurrent actions are distinct, whatever the clock does:
\* the venue never turns one down as a replay ("the venue requires per-address
\* uniqueness", hyperliquid_exchange_client.cpp:117).
NoReplay == replays = 0

\* "... and rough recency; concurrent legs bump it atomically" (118): a nonce
\* is not older than its call and is ahead of the clock by the nonces taken at most.
RoughRecency ==
  /\ lastNonce <= latest + taken
  /\ \A t \in Threads : phase[t] = "post" => now[t] <= nonce[t]

\* nextNonce() is as good as an atomic ticket counter.
Ticket == INSTANCE NonceTicket WITH last <- lastNonce, ticket <- nonce
TakesTickets == Ticket!TicketSpec

=============================================================================
