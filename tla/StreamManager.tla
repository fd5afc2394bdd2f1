---------------------------- MODULE StreamManager ----------------------------
(***************************************************************************)
(* WSStreamManager (src/src/hyperliquid_ws_stream_manager.cpp): the lazy   *)
(* creation of the session and of the io thread, the io thread's loop, and *)
(* the destructor.  Any thread may make a call; the first one to need the  *)
(* session creates it under clientLocker.  The session itself is seen from *)
(* outside: the handlers posted for it and whether its loop still has an   *)
(* operation outstanding (WsSession: only close() ends that, and then      *)
(* everything outstanding ends).                                           *)
(***************************************************************************)
EXTENDS Integers, Sequences

CONSTANTS
  Users,         \* threads that call the manager
  Nobody,        \* the holder of a free lock
  MaxCalls,      \* bound: calls the threads make
  MaxThrows,     \* bound: handlers that throw out of ioc.run()
  EarlyReaders   \* may isConnected() or unsubscribeBbo() be called while the
                 \* session is being created?

ASSUME ManagerAssumption ==
  /\ Nobody \notin Users
  /\ MaxCalls \in Nat /\ MaxThrows \in Nat
  /\ EarlyReaders \in BOOLEAN

Locations == {"idle", "lock", "check", "tls", "assign", "run", "spawn", "unlock", "use", "peek"}
Handlers == {"connect", "flush", "close"}

VARIABLES
  at,          \* where each thread is
  subscribing, \* its call is a subscribe*, not start()
  calls,       \* calls made so far
  locker,      \* holder of clientLocker
  session,     \* the pointer: "null", "assigning", "set"
  sessions,    \* sessions created
  running,
  threads,     \* io threads started
  posted,      \* handlers posted for the session and not yet run
  loop,        \* the session: "none", "alive", "closing", "over"
  io,          \* the io thread: "none", "test", "restart", "run", "callback", "ended"
  stopped,     \* ioc.stopped()
  throws,
  destructor   \* "no", "stop", "join", "done"

userVars == <<at, subscribing, calls, locker>>
ownVars == <<session, sessions, running, threads>>
ioVars == <<loop, io, stopped, throws>>
vars == <<userVars, ownVars, posted, ioVars, destructor>>

TypeOK ==
  /\ at \in [Users -> Locations]
  /\ subscribing \in [Users -> BOOLEAN]
  /\ calls \in 0..MaxCalls
  /\ locker \in Users \cup {Nobody}
  /\ session \in {"null", "assigning", "set"}
  /\ sessions \in 0..1 /\ threads \in 0..1
  /\ running \in BOOLEAN
  /\ posted \in Seq(Handlers)
  /\ loop \in {"none", "alive", "closing", "over"}
  /\ io \in {"none", "test", "restart", "run", "callback", "ended"}
  /\ stopped \in BOOLEAN
  /\ throws \in 0..MaxThrows
  /\ destructor \in {"no", "stop", "join", "done"}

Init ==
  /\ at = [u \in Users |-> "idle"]
  /\ subscribing = [u \in Users |-> FALSE]
  /\ calls = 0
  /\ locker = Nobody
  /\ session = "null"
  /\ sessions = 0 /\ threads = 0
  /\ running = FALSE
  /\ posted = <<>>
  /\ loop = "none"
  /\ io = "none"
  /\ stopped = FALSE
  /\ throws = 0
  /\ destructor = "no"

-----------------------------------------------------------------------------
(* Callers.                                                                *)

Go(u, from, to) == at[u] = from /\ at' = [at EXCEPT ![u] = to]

Call(u, to, withTopic) ==
  /\ destructor = "no"
  /\ calls < MaxCalls
  /\ Go(u, "idle", to)
  /\ subscribing' = [subscribing EXCEPT ![u] = withTopic]
  /\ calls' = calls + 1
  /\ UNCHANGED <<locker, ownVars, posted, ioVars, destructor>>

\* subscribeBbo(), subscribeOrderUpdates(), subscribeUserFills() and start().
Ensure(u) == \E withTopic \in BOOLEAN : Call(u, "lock", withTopic)

\* isConnected() and unsubscribeBbo(): they read the pointer without the lock.
Peek(u) == (EarlyReaders \/ session = "set") /\ Call(u, "peek", FALSE)

Peeked(u) ==
  /\ Go(u, "peek", "idle")
  /\ UNCHANGED <<subscribing, calls, locker, ownVars, posted, ioVars, destructor>>

\* An ensureSession without the lock.
LockIgnored(u) == UNCHANGED locker

LockTaken(u) == locker = Nobody /\ locker' = u

Lock(u) ==
  /\ Go(u, "lock", "check")
  /\ LockTaken(u)
  /\ UNCHANGED <<subscribing, calls, ownVars, posted, ioVars, destructor>>

Check(u) ==
  /\ Go(u, "check", IF session = "null" THEN "tls" ELSE "unlock")
  /\ UNCHANGED <<subscribing, calls, locker, ownVars, posted, ioVars, destructor>>

\* enableTlsPeerVerification(ctx), then the new session, whose pointer is
\* written in the next step.
ConfigureTls(u) ==
  /\ Go(u, "tls", "assign")
  /\ session' = "assigning"
  /\ sessions' = sessions + 1
  /\ UNCHANGED <<subscribing, calls, locker, running, threads, posted, ioVars, destructor>>

\* An ensureSession that starts the io thread before it runs the session.
SpawnFirst == [assign |-> "spawn", spawn |-> "run", run |-> "unlock"]

AfterStep == [assign |-> "run", run |-> "spawn", spawn |-> "unlock"]

Assign(u) ==
  /\ Go(u, "assign", AfterStep.assign)
  /\ session' = "set"
  /\ UNCHANGED <<subscribing, calls, locker, sessions, running, threads, posted, ioVars, destructor>>

\* session->run() posts startConnect.
RunSession(u) ==
  /\ Go(u, "run", AfterStep.run)
  /\ posted' = Append(posted, "connect")
  /\ UNCHANGED <<subscribing, calls, locker, ownVars, ioVars, destructor>>

\* if (!running.exchange(true)) the io thread is started.
Spawn(u) ==
  /\ Go(u, "spawn", AfterStep.spawn)
  /\ running' = TRUE
  /\ threads' = IF running THEN threads ELSE threads + 1
  /\ io' = IF running THEN io ELSE "test"
  /\ UNCHANGED <<subscribing, calls, locker, session, sessions, posted, loop, stopped, throws, destructor>>

Unlock(u) ==
  /\ Go(u, "unlock", IF subscribing[u] THEN "use" ELSE "idle")
  /\ locker' = Nobody
  /\ UNCHANGED <<subscribing, calls, ownVars, posted, ioVars, destructor>>

\* session->subscribe() posts its flush.
Use(u) ==
  /\ Go(u, "use", "idle")
  /\ posted' = Append(posted, "flush")
  /\ UNCHANGED <<subscribing, calls, locker, ownVars, ioVars, destructor>>

-----------------------------------------------------------------------------
(* The io thread: for (;;) { if stopped, restart; run; leave unless it threw }. *)

TestStopped ==
  /\ io = "test"
  /\ io' = IF stopped THEN "restart" ELSE "run"
  /\ UNCHANGED <<userVars, ownVars, posted, loop, stopped, throws, destructor>>

Restart ==
  /\ io = "restart"
  /\ io' = "run"
  /\ stopped' = FALSE
  /\ UNCHANGED <<userVars, ownVars, posted, loop, throws, destructor>>

HasWork == posted # <<>> \/ loop \in {"alive", "closing"}

RunHandler ==
  /\ io = "run" /\ ~stopped
  /\ posted # <<>>
  /\ posted' = Tail(posted)
  /\ loop' = CASE Head(posted) = "connect" -> "alive"
               [] Head(posted) = "close" /\ loop = "alive" -> "closing"
               [] OTHER -> loop
  /\ UNCHANGED <<userVars, ownVars, io, stopped, throws, destructor>>

\* A handler that throws leaves run(); what it had still to arm is lost, and
\* that may be the last operation of the session.
HandlerThrows ==
  /\ io = "run" /\ ~stopped
  /\ loop \in {"alive", "closing"}
  /\ throws < MaxThrows
  /\ throws' = throws + 1
  /\ io' = "test"
  /\ loop' \in {loop, "over"}
  /\ UNCHANGED <<userVars, ownVars, posted, stopped, destructor>>

\* onMessage(): a message of one of the three channels runs its callback.
Deliver ==
  /\ io = "run" /\ ~stopped
  /\ loop \in {"alive", "closing"}
  /\ io' = "callback"
  /\ UNCHANGED <<userVars, ownVars, posted, loop, stopped, throws, destructor>>

CallbackReturns ==
  /\ io = "callback"
  /\ io' = "run"
  /\ UNCHANGED <<userVars, ownVars, posted, loop, stopped, throws, destructor>>

\* The last completion after close() has run.
SessionDrains ==
  /\ io = "run" /\ ~stopped
  /\ loop = "closing"
  /\ loop' = "over"
  /\ UNCHANGED <<userVars, ownVars, posted, io, stopped, throws, destructor>>

RunReturns ==
  /\ io = "run"
  /\ stopped \/ ~HasWork
  /\ stopped' = TRUE
  /\ io' = "ended"
  /\ UNCHANGED <<userVars, ownVars, posted, loop, throws, destructor>>

-----------------------------------------------------------------------------
(* The destructor: no call is under way any more.                          *)

\* A destructor that only stops the io context.
NothingPosted == UNCHANGED posted

ClosePosted == posted' = IF session = "set" THEN Append(posted, "close") ELSE posted

Destroy ==
  /\ destructor = "no"
  /\ \A u \in Users : at[u] = "idle"
  /\ destructor' = "stop"
  /\ ClosePosted
  /\ UNCHANGED <<userVars, ownVars, ioVars>>

Stop ==
  /\ destructor = "stop"
  /\ destructor' = "join"
  /\ stopped' = TRUE
  /\ UNCHANGED <<userVars, ownVars, posted, loop, io, throws>>

Join ==
  /\ destructor = "join"
  /\ io \in {"none", "ended"}
  /\ destructor' = "done"
  /\ UNCHANGED <<userVars, ownVars, posted, ioVars>>

-----------------------------------------------------------------------------

Step(u) ==
  Peeked(u) \/ Lock(u) \/ Check(u) \/ ConfigureTls(u) \/ Assign(u) \/ RunSession(u)
    \/ Spawn(u) \/ Unlock(u) \/ Use(u)

Next ==
  \/ \E u \in Users : Ensure(u) \/ Peek(u) \/ Step(u)
  \/ TestStopped \/ Restart \/ RunHandler \/ HandlerThrows \/ Deliver \/ CallbackReturns
  \/ SessionDrains \/ RunReturns
  \/ Destroy \/ Stop \/ Join

Spec == Init /\ [][Next]_vars

(* Fairness: threads that have begun a call or the destructor run on, and so
   does the io thread; Asio's queue is first in first out, so that messages
   that keep arriving do not keep a posted handler from its turn (strong).  *)
Fairness ==
  /\ \A u \in Users : WF_vars(Step(u))
  /\ WF_vars(TestStopped) /\ WF_vars(Restart) /\ WF_vars(CallbackReturns)
  /\ SF_vars(RunHandler) /\ SF_vars(SessionDrains) /\ SF_vars(RunReturns)
  /\ WF_vars(Stop) /\ WF_vars(Join)

FairSpec == Spec /\ Fairness

-----------------------------------------------------------------------------
(* Correctness.                                                            *)

\* "Guards the lazy session/io-thread creation (subscribe* can be called from
\* multiple threads before start())" (hyperliquid_ws_stream_manager.cpp:62):
\* however the calls interleave there is one session and one io thread, and
\* "Configure the SSL context BEFORE the session/io thread exists" (line 118).
CreatedOnce ==
  /\ sessions = (IF session = "null" THEN 0 ELSE 1)
  /\ \A u \in Users : at[u] = "tls" => session = "null" /\ io = "none"

\* No thread reads the session pointer while another assigns it.
NoSessionPointerRace ==
  session = "assigning" => \A u \in Users : at[u] \notin {"peek", "use"}

\* What is posted for the session gets run: a thread is there to run it, and it
\* does not leave ioc.run() before the session is closed or an exception has
\* taken its last operation.
PostedWorkGetsRun == posted # <<>> ~> (posted = <<>> \/ destructor # "no" \/ loop = "over")

\* The destructor returns, also when its stop() comes before the io thread's
\* first look at the io context, which restarts it.
DestructorReturns == destructor = "stop" ~> destructor = "done"

=============================================================================
