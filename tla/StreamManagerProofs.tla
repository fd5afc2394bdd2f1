------------------------- MODULE StreamManagerProofs -------------------------
(***************************************************************************)
(* The lazy creation of StreamManager, for any threads and any number of   *)
(* calls and exceptions.  clientLocker makes the stretch from its test to  *)
(* its end the work of one thread; what the session pointer is follows     *)
(* from where that thread is.                                              *)
(***************************************************************************)
EXTENDS StreamManager, TLAPS

Locked == {"check", "tls", "assign", "run", "spawn", "unlock"}

\* Only the holder of clientLocker is in ensureSession.
LockHeld == \A u \in Users : at[u] \in Locked => locker = u

\* What a thread knows of the session where it is.
KnowsSession ==
  \A u \in Users :
    /\ at[u] = "tls" => session = "null"
    /\ at[u] = "assign" => session = "assigning"
    /\ at[u] \in {"run", "spawn", "unlock", "use"} => session = "set"
    /\ at[u] = "peek" /\ ~EarlyReaders => session = "set"

\* The counters follow the flags, and nothing runs before there is a session.
Counted ==
  /\ sessions = (IF session = "null" THEN 0 ELSE 1)
  /\ threads = (IF running THEN 1 ELSE 0)
  /\ session = "null" => ~running
  /\ ~running => io = "none"

\* The pointer is half written only while some thread writes it.
WriterExists == session = "assigning" => \E u \in Users : at[u] = "assign"

IInv == TypeOK /\ LockHeld /\ KnowsSession /\ Counted /\ WriterExists

-----------------------------------------------------------------------------

LEMMA InitHolds == Init => IInv
<1> SUFFICES ASSUME Init PROVE IInv
  OBVIOUS
<1>1. \A u \in Users : at[u] = "idle"
  BY DEF Init
<1>2. TypeOK
  <2>1. at \in [Users -> Locations] /\ subscribing \in [Users -> BOOLEAN]
    BY DEF Init, Locations
  <2>2. posted \in Seq(Handlers)
    BY DEF Init
  <2>3. calls \in 0..MaxCalls /\ throws \in 0..MaxThrows
    BY ManagerAssumption DEF Init
  <2>4. QED
    <3>1. sessions \in 0..1 /\ threads \in 0..1 /\ locker \in Users \cup {Nobody}
      BY DEF Init
    <3>2. session \in {"null", "assigning", "set"} /\ loop \in {"none", "alive", "closing", "over"}
      BY DEF Init
    <3>3. /\ io \in {"none", "test", "restart", "run", "callback", "ended"}
          /\ destructor \in {"no", "stop", "join", "done"}
      BY DEF Init
    <3>4. running \in BOOLEAN /\ stopped \in BOOLEAN
      BY DEF Init
    <3>5. QED
      BY <2>1, <2>2, <2>3, <3>1, <3>2, <3>3, <3>4 DEF TypeOK
<1>3. LockHeld /\ KnowsSession /\ Counted /\ WriterExists
  BY <1>1 DEF Init, LockHeld, Locked, KnowsSession, Counted, WriterExists
<1>4. QED
  BY <1>2, <1>3 DEF IInv

\* Types are kept by every step.
LEMMA TypesKept == IInv /\ [Next]_vars => TypeOK'
<1> SUFFICES ASSUME IInv, [Next]_vars PROVE TypeOK'
  OBVIOUS
<1> USE ManagerAssumption DEF IInv, TypeOK, Go, Locations, Handlers, Counted
<1>1. ASSUME NEW u \in Users, Ensure(u) PROVE TypeOK'
  BY <1>1 DEF Ensure, Call, ownVars, ioVars
<1>2. ASSUME NEW u \in Users, Peek(u) PROVE TypeOK'
  BY <1>2 DEF Peek, Call, ownVars, ioVars
<1>3. ASSUME NEW u \in Users, Peeked(u) PROVE TypeOK'
  BY <1>3 DEF Peeked, ownVars, ioVars
<1>4. ASSUME NEW u \in Users, Lock(u) PROVE TypeOK'
  BY <1>4 DEF Lock, LockTaken, ownVars, ioVars
<1>5. ASSUME NEW u \in Users, Check(u) PROVE TypeOK'
  BY <1>5 DEF Check, ownVars, ioVars
<1>6. ASSUME NEW u \in Users, ConfigureTls(u) PROVE TypeOK'
  BY <1>6 DEF ConfigureTls, ioVars, KnowsSession
<1>7. ASSUME NEW u \in Users, Assign(u) PROVE TypeOK'
  BY <1>7 DEF Assign, AfterStep, ioVars
<1>8. ASSUME NEW u \in Users, RunSession(u) PROVE TypeOK'
  BY <1>8 DEF RunSession, AfterStep, ownVars, ioVars
<1>9. ASSUME NEW u \in Users, Spawn(u) PROVE TypeOK'
  BY <1>9 DEF Spawn, AfterStep
<1>10. ASSUME NEW u \in Users, Unlock(u) PROVE TypeOK'
  BY <1>10 DEF Unlock, ownVars, ioVars
<1>11. ASSUME NEW u \in Users, Use(u) PROVE TypeOK'
  BY <1>11 DEF Use, ownVars, ioVars
<1>12. CASE TestStopped \/ Restart \/ Deliver \/ CallbackReturns \/ SessionDrains
  BY <1>12 DEF TestStopped, Restart, Deliver, CallbackReturns, SessionDrains, userVars, ownVars
<1>13. CASE RunHandler
  <2>1. posted' \in Seq(Handlers)
    BY <1>13 DEF RunHandler
  <2>2. QED
    BY <1>13, <2>1 DEF RunHandler, userVars, ownVars
<1>14. CASE HandlerThrows \/ RunReturns
  <2>1. throws' \in 0..MaxThrows
    BY <1>14 DEF HandlerThrows, RunReturns
  <2>2. loop' \in {"none", "alive", "closing", "over"}
    BY <1>14 DEF HandlerThrows, RunReturns
  <2>3. QED
    BY <1>14, <2>1, <2>2 DEF HandlerThrows, RunReturns, userVars, ownVars
<1>15. CASE Destroy \/ Stop \/ Join
  <2>1. posted' \in Seq(Handlers)
    <3>1. Append(posted, "close") \in Seq(Handlers)
      OBVIOUS
    <3>2. posted' = posted \/ posted' = Append(posted, "close")
      BY <1>15 DEF Destroy, ClosePosted, Stop, Join
    <3>3. QED
      BY <3>1, <3>2
  <2>2. QED
    BY <1>15, <2>1 DEF Destroy, Stop, Join, userVars, ownVars, ioVars
<1>16. CASE UNCHANGED vars
  BY <1>16 DEF vars, userVars, ownVars, ioVars
<1>17. QED
  BY <1>1, <1>2, <1>3, <1>4, <1>5, <1>6, <1>7, <1>8, <1>9, <1>10, <1>11, <1>12,
     <1>13, <1>14, <1>15, <1>16 DEF Next, Step

\* So are the lock and what it protects.
LEMMA LockKept == IInv /\ [Next]_vars => (LockHeld /\ KnowsSession /\ Counted)'
<1> SUFFICES ASSUME IInv, [Next]_vars PROVE (LockHeld /\ KnowsSession /\ Counted)'
  OBVIOUS
<1> DEFINE Goal == (LockHeld /\ KnowsSession /\ Counted)'
<1> USE ManagerAssumption DEF IInv, TypeOK, Go, LockHeld, Locked, KnowsSession, Counted
<1>1. ASSUME NEW u \in Users, Ensure(u) PROVE Goal
  BY <1>1 DEF Ensure, Call, ownVars, ioVars
<1>2. ASSUME NEW u \in Users, Peek(u) PROVE Goal
  BY <1>2 DEF Peek, Call, ownVars, ioVars
<1>3. ASSUME NEW u \in Users, Peeked(u) PROVE Goal
  BY <1>3 DEF Peeked, ownVars, ioVars
<1>4. ASSUME NEW u \in Users, Lock(u) PROVE Goal
  BY <1>4 DEF Lock, LockTaken, ownVars, ioVars
<1>5. ASSUME NEW u \in Users, Check(u) PROVE Goal
  <2>1. locker = u /\ UNCHANGED <<locker, ownVars, ioVars>>
    BY <1>5 DEF Check
  <2>2. session \in {"null", "set"}
    <3>1. \A v \in Users : at[v] # "assign"
      BY <1>5, <2>1 DEF Check
    <3>2. QED
      BY <3>1 DEF WriterExists
  <2>3. QED
    BY <1>5, <2>1, <2>2 DEF Check, ownVars, ioVars
<1>6. ASSUME NEW u \in Users, ConfigureTls(u) PROVE Goal
  BY <1>6 DEF ConfigureTls, ioVars
<1>7. ASSUME NEW u \in Users, Assign(u) PROVE Goal
  BY <1>7 DEF Assign, AfterStep, ioVars
<1>8. ASSUME NEW u \in Users, RunSession(u) PROVE Goal
  BY <1>8 DEF RunSession, AfterStep, ownVars, ioVars
<1>9. ASSUME NEW u \in Users, Spawn(u) PROVE Goal
  BY <1>9 DEF Spawn, AfterStep
<1>10. ASSUME NEW u \in Users, Unlock(u) PROVE Goal
  BY <1>10 DEF Unlock, ownVars, ioVars
<1>11. ASSUME NEW u \in Users, Use(u) PROVE Goal
  BY <1>11 DEF Use, ownVars, ioVars
<1>12. CASE \/ TestStopped \/ Restart \/ Deliver \/ CallbackReturns \/ SessionDrains
            \/ RunHandler \/ HandlerThrows \/ RunReturns
  BY <1>12 DEF TestStopped, Restart, Deliver, CallbackReturns, SessionDrains, RunHandler,
               HandlerThrows, RunReturns, userVars, ownVars
<1>13. CASE Destroy \/ Stop \/ Join
  BY <1>13 DEF Destroy, Stop, Join, userVars, ownVars, ioVars
<1>14. CASE UNCHANGED vars
  BY <1>14 DEF vars, userVars, ownVars, ioVars
<1>15. QED
  BY <1>1, <1>2, <1>3, <1>4, <1>5, <1>6, <1>7, <1>8, <1>9, <1>10, <1>11, <1>12,
     <1>13, <1>14 DEF Next, Step

\* A thread that writes the pointer finishes before the pointer is used.
LEMMA WriterKept == IInv /\ [Next]_vars => WriterExists'
<1> SUFFICES ASSUME IInv, [Next]_vars, session' = "assigning"
             PROVE \E u \in Users : at'[u] = "assign"
  BY DEF WriterExists
<1>1. ASSUME NEW u \in Users, ConfigureTls(u) PROVE at'[u] = "assign"
  BY <1>1 DEF ConfigureTls, Go, IInv, TypeOK
<1>2. CASE \A u \in Users : ~ConfigureTls(u)
  <2>1. session = "assigning"
    BY <1>2 DEF Next, Step, Ensure, Peek, Call, Peeked, Lock, Check, Assign, RunSession, Spawn,
         Unlock, Use, TestStopped, Restart, RunHandler, HandlerThrows, Deliver, CallbackReturns,
         SessionDrains, RunReturns, Destroy, Stop, Join, vars, userVars, ownVars
  <2>2. PICK u \in Users : at[u] = "assign"
    BY <2>1 DEF IInv, WriterExists
  <2>3. at'[u] = "assign"
    <3>1. ~Assign(u)
      BY <2>1 DEF Assign
    <3>2. at' = at \/ \E v \in Users, from \in Locations \ {"assign"}, to \in Locations : Go(v, from, to)
      BY <1>2, <3>1, <2>1 DEF Next, Step, Ensure, Peek, Call, Peeked, Lock, Check, Assign,
           RunSession, Spawn, Unlock, Use, AfterStep, TestStopped, Restart, RunHandler,
           HandlerThrows, Deliver, CallbackReturns, SessionDrains, RunReturns, Destroy, Stop,
           Join, vars, userVars, Locations
    <3>3. QED
      BY <2>2, <3>2 DEF Go, IInv, TypeOK
  <2>4. QED
    BY <2>3
<1>3. QED
  BY <1>1, <1>2

-----------------------------------------------------------------------------

\* The inductive invariant holds in every reachable state.
THEOREM ManagerInvariant == Spec => []IInv
<1>1. IInv /\ [Next]_vars => IInv'
  BY TypesKept, LockKept, WriterKept DEF IInv
<1>2. QED
  BY InitHolds, <1>1, PTL DEF Spec

\* The variables of the manager keep their types, with at most one session and
\* one io thread (hyperliquid_ws_stream_manager.cpp:111).
THEOREM ManagerTypes == Spec => []TypeOK
<1>1. IInv => TypeOK
  BY DEF IInv
<1>2. QED
  BY ManagerInvariant, <1>1, PTL

\* Calls by any number of threads create one session, and the TLS context is
\* configured before session or io thread exist (line 118).
THEOREM LazilyCreatedOnce == Spec => []CreatedOnce
<1>1. IInv => CreatedOnce
  BY DEF IInv, KnowsSession, Counted, CreatedOnce
<1>2. QED
  BY ManagerInvariant, <1>1, PTL

\* As long as isConnected() and unsubscribeBbo() wait for the session to exist,
\* no thread reads the pointer while another one writes it.
THEOREM PointerIsNotRaced == ASSUME ~EarlyReaders PROVE Spec => []NoSessionPointerRace
<1>1. IInv => NoSessionPointerRace
  BY DEF IInv, KnowsSession, NoSessionPointerRace
<1>2. QED
  BY ManagerInvariant, <1>1, PTL

=============================================================================
