----------------------------- MODULE NonceProofs -----------------------------
(***************************************************************************)
(* What holds of NonceSource for any number of threads and any clock.      *)
(***************************************************************************)
EXTENDS NonceSource, TLAPS

\* Types are kept.
LEMMA NonceTypes == TypeOK /\ [Next]_vars => TypeOK'
<1> SUFFICES ASSUME TypeOK, [Next]_vars PROVE TypeOK'
  OBVIOUS
<1> USE NonceAssumption DEF TypeOK, venue, locals
<1>1. CASE ClockChanges
  BY <1>1 DEF ClockChanges, MaxOf
<1>2. ASSUME NEW t \in Threads, ReadClock(t) PROVE TypeOK'
  BY <1>2 DEF ReadClock, Goto, Phases
<1>3. ASSUME NEW t \in Threads, LoadLast(t) \/ SwapFails(t) PROVE TypeOK'
  BY <1>3 DEF LoadLast, SwapFails, Goto, Phases
<1>4. ASSUME NEW t \in Threads, SwapSucceeds(t) PROVE TypeOK'
  <2>1. lastNonce' \in Nat /\ lastNonce' # 0
    BY <1>4 DEF SwapSucceeds, NextNonce, MaxOf
  <2> QED BY <1>4, <2>1 DEF SwapSucceeds, Goto, Phases
<1>5. ASSUME NEW t \in Threads, PostArrives(t) \/ PostFails(t) PROVE TypeOK'
  <2>1. phase' = [phase EXCEPT ![t] = "idle"] /\ UNCHANGED <<clock, latest, lastNonce, locals, taken>>
    BY <1>5 DEF PostArrives, PostFails, Goto
  <2>2. seen' \subseteq Nat \ {0} /\ replays' \in Nat
    <3>1. nonce[t] \in Nat /\ nonce[t] # 0
      BY <1>5 DEF PostArrives, PostFails
    <3>2. \/ UNCHANGED seen /\ replays' \in {replays, replays + 1}
          \/ seen' = seen \cup {nonce[t]} /\ UNCHANGED replays
      BY <1>5 DEF PostArrives, PostFails
    <3>3. seen \subseteq Nat \ {0} /\ replays \in Nat
      OBVIOUS
    <3>4. replays' \in Nat
      BY <3>2, <3>3
    <3>5. seen' \subseteq Nat \ {0}
      BY <3>1, <3>2, <3>3
    <3> QED BY <3>4, <3>5
  <2> QED BY <2>1, <2>2 DEF Phases
<1>6. CASE UNCHANGED vars
  BY <1>6 DEF vars
<1> QED
  BY <1>1, <1>2, <1>3, <1>4, <1>5, <1>6 DEF Next, Step

\* The local and shared state keep their types, and a nonce in use is positive.
THEOREM NonceTypeCorrect == Spec => []TypeOK
<1>1. Init => TypeOK
  BY NonceAssumption DEF Init, TypeOK, Phases
<1> QED
  BY <1>1, NonceTypes, PTL DEF Spec

-----------------------------------------------------------------------------
(* No replay.  That the venue has never turned an action down follows from *)
(* what is still to come: the nonces being posted are pairwise distinct    *)
(* and new to the venue, and all of them are at or below lastNonce, so the *)
(* next one is new as well.                                                *)

Fresh ==
  /\ replays = 0
  /\ \A n \in seen : n <= lastNonce
  /\ \A t \in Threads : phase[t] = "post" => nonce[t] <= lastNonce /\ nonce[t] \notin seen
  /\ \A t, u \in Threads :
       t # u /\ phase[t] = "post" /\ phase[u] = "post" => nonce[t] # nonce[u]

\* A thread that swaps raises lastNonce.
LEMMA SwapRaises ==
  ASSUME TypeOK, NEW t \in Threads, SwapSucceeds(t)
  PROVE  lastNonce' \in Nat /\ lastNonce' > lastNonce
BY DEF TypeOK, SwapSucceeds, MaySwap, NextNonce, MaxOf

LEMMA FreshStep == TypeOK /\ Fresh /\ [Next]_vars => Fresh'
<1> SUFFICES ASSUME TypeOK, Fresh, [Next]_vars PROVE Fresh'
  OBVIOUS
<1> USE DEF Fresh, TypeOK, venue, locals
<1>1. CASE ClockChanges
  BY <1>1 DEF ClockChanges
<1>2. ASSUME NEW t \in Threads, ReadClock(t) \/ LoadLast(t) \/ SwapFails(t) PROVE Fresh'
  BY <1>2 DEF ReadClock, LoadLast, SwapFails, Goto
<1>3. ASSUME NEW t \in Threads, SwapSucceeds(t) PROVE Fresh'
  <2>1. lastNonce' \in Nat /\ lastNonce' > lastNonce
    BY <1>3, SwapRaises
  <2>2. /\ nonce' = [nonce EXCEPT ![t] = lastNonce'] /\ UNCHANGED <<seen, replays>>
        /\ phase' = [phase EXCEPT ![t] = "post"]
    BY <1>3 DEF SwapSucceeds, Goto
  <2>3. \A n \in seen : n <= lastNonce' /\ n # lastNonce'
    BY <2>1
  <2>4. \A u \in Threads : u # t /\ phase[u] = "post" => nonce[u] <= lastNonce' /\ nonce[u] # lastNonce'
    BY <2>1
  <2> QED BY <2>1, <2>2, <2>3, <2>4
<1>4. ASSUME NEW t \in Threads, PostArrives(t) PROVE Fresh'
  <2>1. /\ nonce[t] \notin seen /\ nonce[t] <= lastNonce
        /\ seen' = seen \cup {nonce[t]} /\ phase' = [phase EXCEPT ![t] = "idle"]
        /\ UNCHANGED <<lastNonce, nonce, replays>>
    BY <1>4 DEF PostArrives, Goto
  <2> QED BY <1>4, <2>1 DEF PostArrives
<1>5. ASSUME NEW t \in Threads, PostFails(t) PROVE Fresh'
  BY <1>5 DEF PostFails, Goto
<1>6. CASE UNCHANGED vars
  BY <1>6 DEF vars
<1> QED
  BY <1>1, <1>2, <1>3, <1>4, <1>5, <1>6 DEF Next, Step

\* No two actions ever carry the same nonce to the venue, however many threads
\* race through the compare-and-swap loop and whatever the clock does.
THEOREM NeverReplayed == Spec => []NoReplay
<1>1. Init => TypeOK /\ Fresh
  BY NonceAssumption DEF Init, TypeOK, Fresh, Phases
<1>2. (TypeOK /\ Fresh) /\ [Next]_vars => (TypeOK /\ Fresh)'
  BY NonceTypes, FreshStep
<1>3. Fresh => NoReplay
  BY DEF Fresh, NoReplay
<1> QED
  BY <1>1, <1>2, <1>3, PTL DEF Spec

-----------------------------------------------------------------------------
(* Recency.  A reading of the clock a thread still holds is no later than  *)
(* the latest time shown.                                                  *)

Recent ==
  /\ RoughRecency
  /\ \A t \in Threads : now[t] <= latest

LEMMA RecentStep == TypeOK /\ Recent /\ clock <= latest /\ [Next]_vars => Recent' /\ (clock <= latest)'
<1> SUFFICES ASSUME TypeOK, Recent, clock <= latest, [Next]_vars
             PROVE  Recent' /\ (clock <= latest)'
  OBVIOUS
<1> USE DEF Recent, RoughRecency, TypeOK, venue, locals
<1>1. CASE ClockChanges
  <2>1. clock' \in Nat /\ latest' \in Nat /\ latest <= latest' /\ clock' <= latest'
    BY <1>1, NonceAssumption DEF ClockChanges, MaxOf
  <2>2. UNCHANGED <<lastNonce, phase, now, nonce, taken>>
    BY <1>1 DEF ClockChanges
  <2>3. lastNonce' <= latest' + taken'
    <3>1. lastNonce <= latest' + taken
      <4>1. lastNonce \in Nat /\ latest \in Nat /\ taken \in Nat /\ lastNonce <= latest + taken
        OBVIOUS
      <4>2. \A a, b, c, d \in Nat : a <= b + d /\ b <= c => a <= c + d
        OBVIOUS
      <4> QED BY <2>1, <4>1, <4>2
    <3> QED BY <2>2, <3>1
  <2>4. \A t \in Threads : now'[t] <= latest'
    BY <2>1, <2>2
  <2> QED BY <2>1, <2>2, <2>3, <2>4
<1>2. ASSUME NEW t \in Threads, ReadClock(t) PROVE Recent' /\ (clock <= latest)'
  BY <1>2 DEF ReadClock, Goto
<1>3. ASSUME NEW t \in Threads, LoadLast(t) \/ SwapFails(t) PROVE Recent' /\ (clock <= latest)'
  BY <1>3 DEF LoadLast, SwapFails, Goto
<1>4. ASSUME NEW t \in Threads, SwapSucceeds(t) PROVE Recent' /\ (clock <= latest)'
  <2>1. /\ nonce' = [nonce EXCEPT ![t] = lastNonce'] /\ phase' = [phase EXCEPT ![t] = "post"]
        /\ taken' = taken + 1 /\ UNCHANGED <<clock, latest, now>>
    BY <1>4 DEF SwapSucceeds, Goto
  <2>2. lastNonce' \in Nat /\ now[t] <= lastNonce' /\ lastNonce' <= latest + taken + 1
    BY <1>4 DEF SwapSucceeds, MaySwap, NextNonce, MaxOf
  <2> QED BY <2>1, <2>2
<1>5. ASSUME NEW t \in Threads, PostArrives(t) \/ PostFails(t) PROVE Recent' /\ (clock <= latest)'
  BY <1>5 DEF PostArrives, PostFails, Goto
<1>6. CASE UNCHANGED vars
  BY <1>6 DEF vars
<1> QED
  BY <1>1, <1>2, <1>3, <1>4, <1>5, <1>6 DEF Next, Step

\* A nonce is never older than its call, nor further ahead of the clock than
\* the number of nonces taken.
THEOREM NoncesAreRecent == Spec => []RoughRecency
<1>1. Init => TypeOK /\ Recent /\ clock <= latest
  BY NonceAssumption DEF Init, TypeOK, Recent, RoughRecency, Phases
<1>2. (TypeOK /\ Recent /\ clock <= latest) /\ [Next]_vars => (TypeOK /\ Recent /\ clock <= latest)'
  BY NonceTypes, RecentStep
<1>3. Recent => RoughRecency
  BY DEF Recent
<1> QED
  BY <1>1, <1>2, <1>3, PTL DEF Spec

-----------------------------------------------------------------------------
(* Refinement: a successful swap takes a ticket, every other step stutters.*)

LEMMA SwapTakes == TypeOK /\ [Next]_vars => [Ticket!TicketNext]_<<lastNonce, nonce>>
<1> SUFFICES ASSUME TypeOK, [Next]_vars PROVE [Ticket!TicketNext]_<<lastNonce, nonce>>
  OBVIOUS
<1>1. ASSUME NEW t \in Threads, SwapSucceeds(t) PROVE Ticket!TicketNext
  <2>1. nonce' = [nonce EXCEPT ![t] = lastNonce']
    BY <1>1 DEF SwapSucceeds
  <2> QED BY <1>1, <2>1, SwapRaises DEF Ticket!TicketNext, Ticket!Take
<1>2. ASSUME NEW t \in Threads, ReadClock(t) \/ LoadLast(t) \/ SwapFails(t) \/ PostArrives(t) \/ PostFails(t)
      PROVE  UNCHANGED <<lastNonce, nonce>>
  BY <1>2 DEF ReadClock, LoadLast, SwapFails, PostArrives, PostFails, locals
<1>3. ClockChanges \/ UNCHANGED vars => UNCHANGED <<lastNonce, nonce>>
  BY DEF ClockChanges, vars, locals
<1> QED
  BY <1>1, <1>2, <1>3 DEF Next, Step

\* nextNonce() implements an atomic counter: each call takes, in one step, a
\* nonce above all the earlier ones.
THEOREM ImplementsTickets == Spec => TakesTickets
<1>1. Init => Ticket!TicketInit
  BY DEF Init, Ticket!TicketInit
<1>2. TypeOK /\ [Next]_vars => [Ticket!TicketNext]_<<lastNonce, nonce>>
  BY SwapTakes
<1> QED
  BY <1>1, <1>2, NonceTypeCorrect, PTL DEF Spec, TakesTickets, Ticket!TicketSpec

=============================================================================
