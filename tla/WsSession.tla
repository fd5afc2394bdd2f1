------------------------------ MODULE WsSession ------------------------------
(***************************************************************************)
(* WebSocketSession (src/src/hyperliquid_ws_session.cpp): one self-healing *)
(* WebSocket connection to the venue.  Callers on any thread subscribe,    *)
(* unsubscribe and close; everything else runs on one strand, one handler  *)
(* at a time, so a handler is one action.  A call is two steps: it edits   *)
(* the topic lists under the lock, then posts its handler; other calls and *)
(* handlers run in between.                                                *)
(*                                                                         *)
(* Each startConnect opens a new generation.  The asynchronous operations  *)
(* of a generation (the connect chain, the read, the write, the waits on   *)
(* the two timers) are kept in ops[generation]: "inflight" (or "cancelled" *)
(* by a cancel()) until the environment completes one and queues its       *)
(* handler, then "ok", "bad" (a message that does not parse) or "failed"   *)
(* until the strand runs that handler.  Operations of an older generation  *)
(* complete as well, at any later time.                                    *)
(***************************************************************************)
EXTENDS Integers, Sequences, FiniteSets

CONSTANTS
  Callers,           \* threads that use the session
  Topics,            \* subscription objects (equal iff their JSON is equal)
  NoTopic,           \* the topic of a ping and of a handler without one
  MaxCalls,          \* bound: calls the threads make
  MaxFailures,       \* bound: failures of the network or of the peer
  MaxQueue,          \* bound: a healthy peer has left fewer messages than
                     \* this untaken when the next ping is due
  RacingResubscribe  \* may subscribe(t) be called before the handler that
                     \* unsubscribe(t) posted has run?

ASSUME SessionAssumption ==
  /\ IsFiniteSet(Topics)
  /\ NoTopic \notin Topics
  /\ MaxCalls \in Nat /\ MaxFailures \in Nat /\ MaxQueue \in Nat
  /\ RacingResubscribe \in BOOLEAN

PingInterval == 30
ActivityTimeout == 75
ReconnectDelayMax == 30

Stages == {"resolve", "connect", "tls", "handshake"}
Kinds == Stages \cup {"read", "write", "ping", "reconnect"}
OpStatus == {"idle", "inflight", "cancelled", "ok", "bad", "failed"}
StreamStates ==
  {"idle", "connecting", "open", "stalled", "broken", "closing", "closed"}

Messages == [method : {"subscribe", "unsubscribe"}, topic : Topics]
              \cup [method : {"ping"}, topic : {NoTopic}]
Ping == [method |-> "ping", topic |-> NoTopic]

\* A handler is one a caller posts, the one run() posts, or the completion of
\* an operation of generation arg.
Posts == [run : {"unsubscribe"}, arg : Topics]
            \cup [run : {"flushTopics", "closeByUser"}, arg : {NoTopic}]
Handlers == Posts \cup [run : {"startConnect"}, arg : {NoTopic}]
                  \cup [run : Kinds, arg : Nat \ {0}]
Handler(name, arg) == [run |-> name, arg |-> arg]
NoHandler == Handler("none", NoTopic)

OpsTable == Seq([Kinds -> OpStatus])

VARIABLES
  caller,              \* what each thread has still to post (NoHandler: none)
  calls,               \* calls made so far
  strand,              \* handlers waiting on the strand, oldest first
  subscriptions,       \* topics sent on this connection
  pendingTopics,       \* topics waiting for a connection or a flush
  outboundQueue,       \* messages waiting for the write pump
  writeInFlight,
  connected,           \* connected and connectedFlag, always set together
  reconnectScheduled,
  reconnectDelayS,
  userClosed,
  ops,                 \* ops[g][k]: operation k of generation g
  stream,              \* the WebSocket of the current generation
  quietPings,          \* ping timer rounds since a peer now silent was heard
  wire,                \* messages written and not yet taken by the venue
  serverTopics,        \* topics the venue feeds on this connection
  failures             \* failures so far

topicVars == <<subscriptions, pendingTopics>>
clientVars == <<caller, calls>>
wireVars == <<wire, serverTopics>>
linkVars == <<connected, reconnectScheduled, reconnectDelayS, userClosed>>
connVars == <<topicVars, outboundQueue, writeInFlight, linkVars, stream, wireVars>>
strandVars == <<outboundQueue, writeInFlight, linkVars, ops, stream, quietPings, wireVars>>
sessionVars == <<clientVars, topicVars, outboundQueue, writeInFlight, linkVars, quietPings>>
vars == <<sessionVars, strand, ops, stream, wireVars, failures>>

generation == Len(ops)
Wanted == subscriptions \cup pendingTopics

Op(k) == ops[generation][k]
IsOpen == stream \in {"open", "stalled", "broken", "closed"}

TypeOK ==
  /\ caller \in [Callers -> Posts \cup {NoHandler}]
  /\ calls \in Nat
  /\ strand \in Seq(Handlers)
  /\ subscriptions \subseteq Topics
  /\ pendingTopics \subseteq Topics
  /\ outboundQueue \in Seq(Messages)
  /\ writeInFlight \in BOOLEAN
  /\ connected \in BOOLEAN
  /\ reconnectScheduled \in BOOLEAN
  /\ reconnectDelayS \in 1..ReconnectDelayMax
  /\ userClosed \in BOOLEAN
  /\ ops \in OpsTable
  /\ stream \in StreamStates
  /\ quietPings \in Nat
  /\ wire \in Seq(Messages)
  /\ serverTopics \subseteq Topics
  /\ failures \in Nat

\* The session just after run() has posted its handler.
Init ==
  /\ caller = [c \in Callers |-> NoHandler]
  /\ calls = 0
  /\ strand = <<Handler("startConnect", NoTopic)>>
  /\ subscriptions = {}
  /\ pendingTopics = {}
  /\ outboundQueue = <<>>
  /\ writeInFlight = FALSE
  /\ connected = FALSE
  /\ reconnectScheduled = FALSE
  /\ reconnectDelayS = 1
  /\ userClosed = FALSE
  /\ ops = <<>>
  /\ stream = "idle"
  /\ quietPings = 0
  /\ wire = <<>>
  /\ serverTopics = {}
  /\ failures = 0

-----------------------------------------------------------------------------
(* Helpers.  The parameter o is ops with the handler's own operation idle. *)

Mark(o, g, k, status) == [o EXCEPT ![g][k] = status]
Finished(k, g) == Mark(ops, g, k, "idle")
Start(o, k) == Mark(o, Len(o), k, "inflight")

\* cancel() on a timer or on the resolver: a wait still in flight will end
\* with operation_aborted; one whose handler is queued keeps its outcome.
Cancel(o, kinds) ==
  [g \in DOMAIN o |-> [k \in Kinds |->
     IF k \in kinds /\ o[g][k] = "inflight" THEN "cancelled" ELSE o[g][k]]]

\* close() on the socket: beast's is_open() stays true until an operation
\* fails; a socket still connecting has nothing to report.
SocketClosed ==
  IF stream \in {"open", "stalled", "broken"} THEN "closed"
  ELSE IF stream = "connecting" THEN "idle" ELSE stream

\* pump(): start the next async_write unless one is in flight.
Pump(o, queue, busy, up) ==
  IF up /\ ~busy /\ IsOpen /\ queue # <<>>
  THEN /\ outboundQueue' = Tail(queue)
       /\ writeInFlight' = TRUE
       /\ ops' = Start(o, "write")
       /\ wire' = IF stream \in {"open", "stalled"} THEN Append(wire, Head(queue)) ELSE wire
  ELSE /\ outboundQueue' = queue
       /\ writeInFlight' = busy
       /\ ops' = o
       /\ UNCHANGED wire

\* The sequences that list each element of S once (the order of the topic
\* lists is not kept).
Orderings(S) ==
  {s \in [1..Cardinality(S) -> S] : \A t \in S : \E i \in DOMAIN s : s[i] = t}

Subscribes(topicSeq) ==
  [i \in DOMAIN topicSeq |-> [method |-> "subscribe", topic |-> topicSeq[i]]]

FlushNow(o) ==
  /\ subscriptions' = Wanted
  /\ pendingTopics' = {}
  /\ \E s \in Orderings(pendingTopics) :
       Pump(o, outboundQueue \o Subscribes(s), writeInFlight, TRUE)

FlushSkipped(o) ==
  /\ ops' = o
  /\ UNCHANGED <<topicVars, outboundQueue, writeInFlight, wire>>

\* An onHandshake that flushes before it sets connected.
FlushTopicsTooEarly(o, up) == IF connected THEN FlushNow(o) ELSE FlushSkipped(o)

\* flushTopics(): everything pending is recorded as sent, queued and pumped.
FlushTopics(o, up) == IF up THEN FlushNow(o) ELSE FlushSkipped(o)

\* A handleError that forgets the confirmed subscriptions.
TopicsForgotten ==
  /\ subscriptions' = {}
  /\ UNCHANGED pendingTopics

\* A handleError that leaves them recorded as sent.
TopicsLeftConfirmed == UNCHANGED topicVars

TopicsBackToPending ==
  /\ pendingTopics' = Wanted
  /\ subscriptions' = {}

\* handleError() of the current generation: close the socket, put the
\* topics back in front of the pending ones and wait to reconnect.
HandleError(o, busy) ==
  IF reconnectScheduled \/ userClosed
  THEN /\ ops' = o
       /\ writeInFlight' = busy
       /\ UNCHANGED <<topicVars, outboundQueue, linkVars, stream, wireVars>>
  ELSE /\ reconnectScheduled' = TRUE
       /\ connected' = FALSE
       /\ writeInFlight' = FALSE
       /\ outboundQueue' = <<>>
       /\ TopicsBackToPending
       /\ stream' = SocketClosed
       /\ wire' = <<>>
       /\ serverTopics' = {}
       /\ ops' = Start(Cancel(o, {"ping"}), "reconnect")
       /\ reconnectDelayS' = IF 2 * reconnectDelayS > ReconnectDelayMax
                             THEN ReconnectDelayMax ELSE 2 * reconnectDelayS
       /\ UNCHANGED userClosed

NewGeneration == [k \in Kinds |-> IF k = "resolve" THEN "inflight" ELSE "idle"]

\* startConnect(): a fresh stream; everything of the old one is stale.
StartConnect(o) ==
  IF userClosed
  THEN /\ ops' = o
       /\ UNCHANGED <<connected, writeInFlight, stream, wireVars>>
  ELSE /\ ops' = Append(o, NewGeneration)
       /\ connected' = FALSE
       /\ writeInFlight' = FALSE
       /\ stream' = "idle"
       /\ wire' = <<>>
       /\ serverTopics' = {}

-----------------------------------------------------------------------------
(* Callers: each call edits the lists under the lock, then posts.          *)

MayCall(c) == caller[c] = NoHandler /\ calls < MaxCalls

UnsubscribeUnderWay(t) ==
  \/ \E c \in Callers : caller[c] = Handler("unsubscribe", t)
  \/ \E i \in DOMAIN strand : strand[i] = Handler("unsubscribe", t)

\* An addTopic that looks for the topic among the pending ones only.
AddTopicOnlyPending(t) ==
  /\ pendingTopics' = pendingTopics \cup {t}
  /\ UNCHANGED subscriptions

AddTopic(t) ==
  /\ pendingTopics' = IF t \in Wanted THEN pendingTopics ELSE pendingTopics \cup {t}
  /\ UNCHANGED subscriptions

RemoveTopic(t) ==
  /\ pendingTopics' = pendingTopics \ {t}
  /\ subscriptions' = subscriptions \ {t}

Subscribe(c, t) ==
  /\ MayCall(c)
  /\ RacingResubscribe \/ ~UnsubscribeUnderWay(t)
  /\ AddTopic(t)
  /\ caller' = [caller EXCEPT ![c] = Handler("flushTopics", NoTopic)]
  /\ calls' = calls + 1
  /\ UNCHANGED <<strand, strandVars, failures>>

Unsubscribe(c, t) ==
  /\ MayCall(c)
  /\ RemoveTopic(t)
  /\ caller' = IF t \in subscriptions
               THEN [caller EXCEPT ![c] = Handler("unsubscribe", t)]
               ELSE caller
  /\ calls' = calls + 1
  /\ UNCHANGED <<strand, strandVars, failures>>

Close(c) ==
  /\ MayCall(c)
  /\ caller' = [caller EXCEPT ![c] = Handler("closeByUser", NoTopic)]
  /\ calls' = calls + 1
  /\ UNCHANGED <<strand, topicVars, strandVars, failures>>

Post(c) ==
  /\ caller[c] # NoHandler
  /\ strand' = Append(strand, caller[c])
  /\ caller' = [caller EXCEPT ![c] = NoHandler]
  /\ UNCHANGED <<calls, topicVars, strandVars, failures>>

-----------------------------------------------------------------------------
(* Posted handlers, run in the order they were posted.                     *)

Run(name) ==
  /\ strand # <<>>
  /\ Head(strand).run = name
  /\ strand' = Tail(strand)

RunStartConnect ==
  /\ Run("startConnect")
  /\ StartConnect(ops)
  /\ UNCHANGED <<clientVars, topicVars, outboundQueue, reconnectScheduled,
                 reconnectDelayS, userClosed, quietPings, failures>>

RunFlushTopics ==
  /\ Run("flushTopics")
  /\ FlushTopics(ops, connected)
  /\ UNCHANGED <<clientVars, linkVars, stream, quietPings, serverTopics, failures>>

UnsubscribeMsg == [method |-> "unsubscribe", topic |-> Head(strand).arg]

\* An unsubscribe handler that queues its message on a dead connection too.
SendUnsubscribeUnchecked ==
  Pump(ops, Append(outboundQueue, UnsubscribeMsg), writeInFlight, connected)

\* An unsubscribe handler that forgets its message.
SendUnsubscribeNever == UNCHANGED <<ops, outboundQueue, writeInFlight, wire>>

SendUnsubscribe ==
  IF connected
  THEN Pump(ops, Append(outboundQueue, UnsubscribeMsg), writeInFlight, connected)
  ELSE UNCHANGED <<ops, outboundQueue, writeInFlight, wire>>

RunUnsubscribe ==
  /\ Run("unsubscribe")
  /\ SendUnsubscribe
  /\ UNCHANGED <<clientVars, topicVars, linkVars, stream, quietPings, serverTopics, failures>>

\* closeByUser(): a clean close when nothing is being written, else the
\* socket is closed under the stream.  connected keeps its value.
RunCloseByUser ==
  /\ Run("closeByUser")
  /\ userClosed' = TRUE
  /\ IF userClosed
     THEN UNCHANGED <<ops, stream, wireVars>>
     ELSE /\ ops' = Cancel(ops, {"ping", "reconnect", "resolve"})
          /\ IF IsOpen /\ ~writeInFlight
             THEN stream' = "closing" /\ UNCHANGED wireVars
             ELSE stream' = SocketClosed /\ wire' = <<>> /\ serverTopics' = {}
  /\ UNCHANGED <<clientVars, topicVars, outboundQueue, writeInFlight, connected,
                 reconnectScheduled, reconnectDelayS, quietPings, failures>>

-----------------------------------------------------------------------------
(* Completion handlers.                                                    *)

Ended == {"ok", "bad", "failed"}

Completed(k) ==
  /\ Run(k)
  /\ Head(strand).arg = generation
  /\ Op(k) \in Ended

\* A write handler that clears the flag and pumps whatever its generation.
DropStaleButPump(k, g) ==
  /\ Run(k)
  /\ Head(strand).arg = g /\ g < generation
  /\ IF k = "write"
     THEN Pump(Finished(k, g), outboundQueue, FALSE, connected)
     ELSE ops' = Finished(k, g) /\ UNCHANGED <<outboundQueue, writeInFlight, wire>>
  /\ UNCHANGED <<clientVars, topicVars, linkVars, stream, quietPings,
                 serverTopics, failures>>

\* Every completion handler first compares its generation with the current.
DropStale(k, g) ==
  /\ Run(k)
  /\ Head(strand).arg = g /\ g < generation
  /\ ops' = Finished(k, g)
  /\ UNCHANGED <<clientVars, connVars, quietPings, failures>>

Unheard == UNCHANGED <<clientVars, quietPings, failures>>

\* One stage of the connect chain ended: start the next one or give up.
\* A stage does not look at userClosed; async_connect opens a socket again
\* that close() has closed.
NextStage(k, next) ==
  /\ ops' = Start(Finished(k, generation), next)
  /\ stream' = IF next = "connect" THEN "connecting" ELSE stream
  /\ UNCHANGED <<topicVars, outboundQueue, writeInFlight, linkVars, wireVars>>

\* A stage that reports its failure and goes on to the next one.
StageFallsThrough(k, next) == HandleError(Start(Finished(k, generation), next), writeInFlight)

StageGivesUp(k, next) == HandleError(Finished(k, generation), writeInFlight)

AfterStage(k, next) ==
  /\ Completed(k)
  /\ IF Op(k) = "failed"
     THEN StageGivesUp(k, next) ELSE NextStage(k, next)
  /\ Unheard

OnResolve == AfterStage("resolve", "connect")
OnConnect == AfterStage("connect", "tls")
OnSSLHandshake == AfterStage("tls", "handshake")

\* A successful connection that sets the delay to nothing.
DelayResetToZero == reconnectDelayS' = 0

DelayReset == reconnectDelayS' = 1

Connected(o) ==
  /\ connected' = TRUE
  /\ DelayReset
  /\ quietPings' = 0
  /\ FlushTopics(Start(Start(Cancel(o, {"ping"}), "ping"), "read"), TRUE)
  /\ UNCHANGED <<reconnectScheduled, userClosed, stream, serverTopics>>

\* An onHandshake that does not ask whether close() was called.
AcceptAlways(o) == Connected(o)

Accept(o) ==
  IF userClosed THEN ops' = o /\ UNCHANGED <<connVars, quietPings>> ELSE Connected(o)

OnHandshake ==
  /\ Completed("handshake")
  /\ LET o == Finished("handshake", generation) IN
       IF Op("handshake") = "failed"
       THEN HandleError(o, writeInFlight) /\ UNCHANGED quietPings
       ELSE Accept(o)
  /\ UNCHANGED <<clientVars, failures>>

\* onRead(): an error or a message that does not parse ends the connection,
\* anything else is activity and the next read is armed.
OnRead ==
  /\ Completed("read")
  /\ quietPings' = IF Op("read") = "failed" THEN quietPings ELSE 0
  /\ LET o == Finished("read", generation) IN
       IF Op("read") = "ok"
       THEN /\ ops' = IF reconnectScheduled \/ ~connected THEN o ELSE Start(o, "read")
            /\ UNCHANGED connVars
       ELSE HandleError(o, writeInFlight)
  /\ UNCHANGED <<clientVars, failures>>

OnWrite ==
  /\ Completed("write")
  /\ LET o == Finished("write", generation) IN
       IF Op("write") = "failed"
       THEN HandleError(o, FALSE)
       ELSE /\ Pump(o, outboundQueue, FALSE, connected)
            /\ UNCHANGED <<topicVars, linkVars, stream, serverTopics>>
  /\ Unheard

\* The n-th ping round without a word from the peer comes between
\* (n - 1) * PingInterval and n * PingInterval seconds after the last one.
MayBeSilent(n) == n * PingInterval > ActivityTimeout

\* A watchdog that is never sure.
NeverSilent(n) == FALSE

MustBeSilent(n) == (n - 1) * PingInterval > ActivityTimeout

\* A ping timer that is not armed again.
PingRoundUnarmed(o, n) ==
  /\ quietPings' = n
  /\ Pump(o, Append(outboundQueue, Ping), writeInFlight, connected)
  /\ UNCHANGED <<topicVars, linkVars, stream, serverTopics>>

PingRound(o, n) ==
  /\ quietPings' = n
  /\ Pump(Start(o, "ping"), Append(outboundQueue, Ping), writeInFlight, connected)
  /\ UNCHANGED <<topicVars, linkVars, stream, serverTopics>>

PeerSilent(o, n) ==
  /\ quietPings' = n
  /\ HandleError(o, writeInFlight)

\* A ping timer that goes on after close().
PingOverOnError == Op("ping") = "failed"

PingOver == Op("ping") = "failed" \/ userClosed

\* onPingTimer(): a cancelled wait and a closed session end the rounds; a
\* wait that fires while reconnecting is armed again and goes stale later.
OnPingTimer ==
  /\ Completed("ping")
  /\ LET o == Finished("ping", generation)
         n == IF stream = "open" THEN 0 ELSE quietPings + 1 IN
       IF PingOver \/ ~connected
       THEN /\ ops' = IF PingOver THEN o ELSE Start(o, "ping")
            /\ UNCHANGED <<connVars, quietPings>>
       ELSE \/ MayBeSilent(n) /\ PeerSilent(o, n)
            \/ ~MustBeSilent(n) /\ PingRound(o, n)
  /\ UNCHANGED <<clientVars, failures>>

\* A reconnect timer that leaves reconnectScheduled set.
ReconnectFlagKept == UNCHANGED reconnectScheduled

ReconnectFlagCleared == reconnectScheduled' = FALSE

OnReconnectTimer ==
  /\ Completed("reconnect")
  /\ ReconnectFlagCleared
  /\ LET o == Finished("reconnect", generation) IN
       IF Op("reconnect") = "failed"
       THEN ops' = o /\ UNCHANGED <<connected, writeInFlight, stream, wireVars>>
       ELSE StartConnect(o)
  /\ UNCHANGED <<topicVars, outboundQueue, reconnectDelayS, userClosed>>
  /\ Unheard

-----------------------------------------------------------------------------
(* The environment: Asio completes operations, the network and the venue   *)
(* deliver, fail or fall silent.  MaxFailures bounds the failures that have *)
(* no other cause.                                                         *)

Complete(k, g, status) ==
  /\ ops[g][k] = "inflight" \/ (ops[g][k] = "cancelled" /\ status = "failed")
  /\ ops' = Mark(ops, g, k, status)
  /\ strand' = Append(strand, Handler(k, g))
  /\ UNCHANGED <<sessionVars, wireVars>>

MayFail == failures < MaxFailures /\ failures' = failures + 1

StageSucceeds(k) ==
  /\ generation > 0
  /\ k = "resolve" \/ stream = "connecting"
  /\ Complete(k, generation, "ok")
  /\ stream' = IF k = "handshake" THEN "open" ELSE stream
  /\ UNCHANGED failures

\* A stage fails of itself, or because close() closed the socket under it.
StageFails(k) ==
  /\ generation > 0
  /\ IF (k # "resolve" /\ stream # "connecting") \/ Op(k) = "cancelled"
     THEN UNCHANGED failures ELSE MayFail
  /\ Complete(k, generation, "failed")
  /\ UNCHANGED stream

\* A read ends with a message: one that parses or one that does not.
MessageArrives(status) ==
  /\ generation > 0
  /\ stream \in {"open", "closing"}
  /\ IF status = "bad" THEN MayFail ELSE UNCHANGED failures
  /\ Complete("read", generation, status)
  /\ UNCHANGED stream

WriteSucceeds ==
  /\ generation > 0
  /\ stream \in {"open", "stalled"}
  /\ Complete("write", generation, "ok")
  /\ UNCHANGED <<stream, failures>>

\* A read or a write on a dead stream fails (is_open() is false from then),
\* and so does what an older generation, its socket closed, had in flight.
TransferFails(k, g) ==
  /\ g < generation \/ stream \in {"broken", "closed", "closing", "idle"}
  /\ Complete(k, g, "failed")
  /\ stream' = IF g = generation /\ stream # "closing" THEN "idle" ELSE stream
  /\ UNCHANGED failures

\* A ping is due only once a healthy peer has taken the earlier messages.
PingTimerExpires(g) ==
  /\ stream = "open" => Len(outboundQueue) + Len(wire) < MaxQueue
  /\ Complete("ping", g, "ok")
  /\ UNCHANGED <<stream, failures>>

ReconnectTimerExpires ==
  /\ generation > 0
  /\ Complete("reconnect", generation, "ok")
  /\ UNCHANGED <<stream, failures>>

WaitAborted(k, g) ==
  /\ ops[g][k] = "cancelled"
  /\ Complete(k, g, "failed")
  /\ UNCHANGED <<stream, failures>>

ConnectionBreaks ==
  /\ stream \in {"open", "stalled"}
  /\ MayFail
  /\ stream' = "broken"
  /\ wire' = <<>>
  /\ serverTopics' = {}
  /\ UNCHANGED <<sessionVars, strand, ops>>

\* A half-open connection: nothing arrives any more, and no error either.
PeerFallsSilent ==
  /\ stream = "open"
  /\ MayFail
  /\ stream' = "stalled"
  /\ UNCHANGED <<sessionVars, strand, ops, wireVars>>

CloseHandshakeEnds ==
  /\ stream = "closing"
  /\ stream' = "idle"
  /\ wire' = <<>>
  /\ serverTopics' = {}
  /\ UNCHANGED <<sessionVars, strand, ops, failures>>

ServerReceives ==
  /\ stream = "open"
  /\ wire # <<>>
  /\ wire' = Tail(wire)
  /\ serverTopics' = IF Head(wire).method = "subscribe"
                     THEN serverTopics \cup {Head(wire).topic}
                     ELSE serverTopics \ {Head(wire).topic}
  /\ UNCHANGED <<sessionVars, strand, ops, stream, failures>>

-----------------------------------------------------------------------------

Call(c) == Close(c) \/ \E t \in Topics : Subscribe(c, t) \/ Unsubscribe(c, t)

RunPosted == RunStartConnect \/ RunFlushTopics \/ RunUnsubscribe \/ RunCloseByUser

RunCompletion ==
  \/ OnResolve \/ OnConnect \/ OnSSLHandshake \/ OnHandshake
  \/ OnRead \/ OnWrite \/ OnPingTimer \/ OnReconnectTimer
  \/ \E g \in 1..generation, k \in Kinds : DropStale(k, g)

StageEnds == \E k \in Stages : StageSucceeds(k) \/ StageFails(k)

TransferEnds ==
  \/ WriteSucceeds
  \/ \E g \in 1..generation, k \in {"read", "write"} : TransferFails(k, g)

TimerExpires ==
  \/ ReconnectTimerExpires
  \/ \E g \in 1..generation :
       PingTimerExpires(g) \/ WaitAborted("ping", g) \/ WaitAborted("reconnect", g)

Environment ==
  \/ StageEnds \/ TransferEnds \/ TimerExpires
  \/ \E status \in {"ok", "bad"} : MessageArrives(status)
  \/ ConnectionBreaks \/ PeerFallsSilent \/ CloseHandshakeEnds \/ ServerReceives

Next ==
  \/ \E c \in Callers : Call(c) \/ Post(c)
  \/ RunPosted
  \/ RunCompletion
  \/ Environment

Spec == Init /\ [][Next]_vars

(* Fairness: the io_context runs what is posted or completed, Asio ends every
   stage, timer wait and operation on a dead socket, a calling thread gets to
   its post, and a live connection carries what is written.  No message has to
   arrive, no failure has to happen and nobody has to call.                  *)
Fairness ==
  /\ \A c \in Callers : WF_vars(Post(c))
  /\ WF_vars(RunPosted \/ RunCompletion)
  /\ WF_vars(StageEnds) /\ WF_vars(ReconnectTimerExpires)
  /\ WF_vars(\E g \in 1..generation : PingTimerExpires(g))
  /\ WF_vars(\E g \in 1..generation, k \in {"ping", "reconnect"} : WaitAborted(k, g))
  /\ WF_vars(stream = "open" /\ WriteSucceeds)
  /\ \A k \in {"read", "write"} : WF_vars(\E g \in 1..generation : TransferFails(k, g))
  /\ WF_vars(CloseHandshakeEnds) /\ WF_vars(ServerReceives)

FairSpec == Spec /\ Fairness

-----------------------------------------------------------------------------
(* Correctness.                                                            *)

\* Once everything on its way has arrived, the venue feeds topic t.
Effective(t) ==
  LET all == wire \o outboundQueue
      About(i) == all[i].topic = t
  IN \/ \E i \in DOMAIN all :
          /\ About(i) /\ all[i].method = "subscribe"
          /\ \A j \in DOMAIN all : About(j) => j <= i
     \/ t \in serverTopics /\ \A i \in DOMAIN all : ~About(i)

\* "Only close() stops the loop" (hyperliquid_ws_session.h:33): until close()
\* there is always a first connect posted, a stage of the connect chain, a
\* read on the live connection or a reconnect wait that will go on.
OnlyCloseStopsTheLoop ==
  \/ userClosed
  \/ \E i \in DOMAIN strand : strand[i].run = "startConnect"
  \/ /\ generation > 0
     /\ \/ \E k \in Stages : Op(k) # "idle"
        \/ connected /\ Op("read") # "idle"
        \/ reconnectScheduled /\ Op("reconnect") \in {"inflight", "ok"}

\* While the session is up and not closed its heartbeat keeps running: a
\* wait on the ping timer is outstanding for this very connection, so that
\* a silent peer cannot go unnoticed (onPingTimer re-arms on every path).
HeartbeatArmed ==
  connected /\ ~userClosed => generation > 0 /\ Op("ping") \in {"inflight", "ok"}

\* One connection attempt at a time: while a stage of the connect chain is
\* outstanding nothing else of this generation is, there is no live
\* connection and no reconnect wait that would start a second attempt.
OneAttemptAtATime ==
  generation > 0 =>
    \A k \in Stages : Op(k) # "idle" =>
      ~connected /\ ~reconnectScheduled /\ \A other \in Kinds \ {k} : Op(other) = "idle"

\* Messages queued for one connection never reach the next one: without a
\* connection the queue is empty (handleError clears it, nobody refills it).
QueueDiesWithConnection == ~connected => outboundQueue = <<>>

\* What is recorded as sent really gets to the venue on this connection,
\* across flushes, unsubscribes and reconnects ("queued until the connection
\* is up", hyperliquid_ws_session.h:55).
SubscriptionsReachVenue ==
  connected /\ stream = "open" => \A t \in subscriptions : Effective(t)

\* A write that hangs on a half-open connection does not let pings pile up: the
\* watchdog (hyperliquid_ws_session.cpp:393) drops the connection at the fourth
\* silent round at the latest, so that only three pings can join what was queued
\* when the peer fell silent.
PingBacklogBounded ==
  Cardinality({i \in DOMAIN outboundQueue : outboundQueue[i] = Ping}) <= MaxQueue + 3

\* isConnected(): "True while the transport is up (post-handshake)"
\* (hyperliquid_ws_session.h:63).
ConnectedMeansTransportUp == connected => stream \notin {"idle", "connecting", "closing", "closed"}

\* "one async_write in flight" (hyperliquid_ws_session.cpp:65): no message is
\* handed to the stream while a write of this connection is outstanding.
OneWriteInFlight == [][Len(wire') > Len(wire) => Op("write") # "inflight"]_vars

\* Whatever fails, only a call changes the set of topics the session holds.
TopicsSurviveFailures == [][calls' = calls => Wanted' = Wanted]_vars

\* The venue is never asked twice for a topic it feeds already (addTopic
\* deduplicates against both lists, and a replay goes to a new connection).
NoDuplicateSubscribe ==
  [][wire # <<>> /\ wire' = Tail(wire) /\ Head(wire).method = "subscribe" /\ stream = "open"
       => Head(wire).topic \notin serverTopics]_vars

\* close() is final: no later event starts a connection or reports one.
CloseIsFinal == [][userClosed => generation' = generation /\ (connected' => connected)]_vars

\* The session implements SubscriptionFeed: every step edits what is wanted,
\* feeds or stops one topic, loses a connection, or is invisible.  So the venue
\* feeds a topic only while it is wanted or its unsubscribing is on its way, and
\* is not asked twice for a topic on one connection.
OnItsWay(t) ==
  \/ UnsubscribeUnderWay(t)
  \/ \E q \in {outboundQueue, wire} : \E i \in DOMAIN q :
       q[i] = [method |-> "unsubscribe", topic |-> t]
Feeding == INSTANCE SubscriptionFeed WITH
  wanted <- Wanted, fed <- serverTopics, dropping <- {t \in Topics : OnItsWay(t)}
FollowsFeed == Feeding!FeedSpec

\* A topic a caller wants is fed in the end, unless the caller drops it or
\* closes the session.
WantedTopicsGetFed ==
  \A t \in Topics : t \in Wanted ~> (t \in serverTopics \/ t \notin Wanted \/ userClosed)

\* A peer that fell silent does not stay the peer (ping, 75 s watchdog).
SilentPeerIsReplaced == stream = "stalled" ~> (stream # "stalled" \/ userClosed)

\* After close() the session comes to rest: no operation outstanding and nothing
\* left to run.  The destructor of WSStreamManager waits for this, because the
\* restart of the io context can undo its stop().
CloseDrains ==
  userClosed ~> strand = <<>> /\ \A g \in 1..generation, k \in Kinds : ops[g][k] = "idle"

\* close(): "Close asynchronously and disable automatic reconnect"
\* (hyperliquid_ws_session.h:51): no connection is left open.
CloseEndsTheConnection == userClosed ~> stream \notin {"open", "stalled"}

=============================================================================
