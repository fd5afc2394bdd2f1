---------------------------- MODULE WsLinkProofs ----------------------------
(***************************************************************************)
(* What the connection of WsSession keeps to, for any threads, topics and  *)
(* bounds: the outbound queue dies with it, its heartbeat is armed, one    *)
(* write is in flight, close() is final and no failure loses a topic.      *)
(***************************************************************************)
EXTENDS WsSessionProofs

\* A live connection is not being reconnected, and while a reconnect wait of
\* this generation has not been handled there is none.
NotBoth == connected => ~reconnectScheduled
WaitHolds == generation > 0 /\ Op("reconnect") # "idle" => reconnectScheduled

\* writeInFlight is true of every write of a live connection.
FreeMeansIdle == connected /\ ~writeInFlight => Op("write") = "idle"

LinkInv ==
  /\ NotBoth /\ WaitHolds /\ FreeMeansIdle
  /\ QueueDiesWithConnection
  /\ HeartbeatArmed

SessionInv == TypeOK /\ LoopInv /\ LinkInv

-----------------------------------------------------------------------------
(* What suffices for LinkInv after a step.                                 *)

\* The connection is down and its queue empty.
LEMMA LinkDown ==
  ASSUME ~connected', outboundQueue' = <<>>,
         generation' > 0 /\ Op("reconnect")' # "idle" => reconnectScheduled'
  PROVE  LinkInv'
BY DEF LinkInv, NotBoth, WaitHolds, FreeMeansIdle, QueueDiesWithConnection, HeartbeatArmed

\* The flags stay, except that the session may be closed; no reconnect wait
\* begins, and a live connection keeps its heartbeat and its write flag.
LEMMA LinkKept ==
  ASSUME SessionInv, generation' = generation,
         UNCHANGED <<connected, reconnectScheduled>>, userClosed => userClosed',
         ~connected => outboundQueue' = outboundQueue,
         generation > 0 /\ Op("reconnect")' # "idle" => Op("reconnect") # "idle",
         connected /\ ~userClosed' => Op("ping")' \in {"inflight", "ok"},
         connected /\ ~writeInFlight' => Op("write")' = "idle"
  PROVE  LinkInv'
<1>1. connected => generation > 0
  BY LenProperties DEF SessionInv, TypeOK, OpsTable, LoopInv, NothingYet, generation
<1> QED
  BY <1>1
     DEF SessionInv, LinkInv, NotBoth, WaitHolds, FreeMeansIdle, QueueDiesWithConnection, HeartbeatArmed

\* pump() starts a write and sets the flag, or leaves all as it is.
LEMMA PumpLink ==
  ASSUME NEW o, NEW queue, NEW busy, NEW up, Pump(o, queue, busy, up)
  PROVE  \/ up /\ ~busy /\ writeInFlight' = TRUE
         \/ /\ ops' = o /\ outboundQueue' = queue /\ writeInFlight' = busy
            /\ wire' = wire
BY DEF Pump

\* handleError() takes the connection down, unless it ignores the error.
LEMMA HandleErrorLink ==
  ASSUME NEW o, NEW busy, HandleError(o, busy)
  PROVE  \/ /\ reconnectScheduled \/ userClosed
            /\ ops' = o /\ writeInFlight' = busy
            /\ UNCHANGED <<connected, reconnectScheduled, userClosed, outboundQueue, wire>>
         \/ /\ ~connected' /\ reconnectScheduled' /\ outboundQueue' = <<>>
            /\ wire' = <<>> /\ userClosed' = userClosed
BY DEF HandleError, linkVars, wireVars

\* What is started in a generation is in flight, and the rest of it stays.
LEMMA StartedNow ==
  ASSUME NEW o \in OpsTable, Len(o) = generation, generation > 0, NEW k \in Kinds
  PROVE  /\ Start(o, k) \in OpsTable /\ Len(Start(o, k)) = generation
         /\ Start(o, k)[generation][k] = "inflight"
         /\ \A j \in Kinds : j # k => Start(o, k)[generation][j] = o[generation][j]
         /\ \A h \in 1..generation, j \in Kinds : h # generation => Start(o, k)[h][j] = o[h][j]
<1>1. generation \in 1..Len(o)
  BY LenProperties DEF OpsTable
<1>2. /\ Start(o, k) \in OpsTable /\ Len(Start(o, k)) = Len(o)
      /\ \A h \in 1..Len(o), j \in Kinds :
           Start(o, k)[h][j] = IF h = Len(o) /\ j = k THEN "inflight" ELSE o[h][j]
  BY StartOps
<1> QED
  BY <1>1, <1>2

-----------------------------------------------------------------------------
(* The steps.                                                              *)

\* An error that ends operation k.
LEMMA LinkHandleError ==
  ASSUME SessionInv, NEW k \in Kinds \ {"reconnect"}, Completed(k), NEW busy \in BOOLEAN,
         busy = writeInFlight \/ k = "write",
         HandleError(Finished(k, generation), busy)
  PROVE  LinkInv'
<1> DEFINE o == Finished(k, generation)
<1>1. /\ generation \in Nat \ {0} /\ Len(o) = generation
      /\ \A j \in Kinds : o[generation][j] = IF j = k THEN "idle" ELSE Op(j)
  BY CompletedEffect DEF SessionInv, Op
<1>2. HandleError(o, busy) /\ {"ping", "write", "reconnect"} \subseteq Kinds
  BY DEF Kinds
<1> HIDE DEF o
<1>3. CASE /\ reconnectScheduled \/ userClosed
           /\ ops' = o /\ writeInFlight' = busy
           /\ UNCHANGED <<connected, reconnectScheduled, userClosed, outboundQueue>>
  <2>1. generation' = generation /\ \A j \in Kinds : Op(j)' = IF j = k THEN "idle" ELSE Op(j)
    BY <1>1, <1>3 DEF generation, Op
  <2>2. connected /\ ~writeInFlight' => Op("write")' = "idle"
    BY <1>2, <1>3, <2>1 DEF SessionInv, LinkInv, FreeMeansIdle
  <2>3. ~(connected /\ ~userClosed')
    BY <1>3 DEF SessionInv, LinkInv, NotBoth
  <2> QED BY <1>2, <1>3, <2>1, <2>2, <2>3, LinkKept
<1>4. CASE ~connected' /\ reconnectScheduled' /\ outboundQueue' = <<>>
  BY <1>4, LinkDown
<1> QED
  BY <1>2, <1>3, <1>4, HandleErrorLink

\* A handler that starts at most a write, with a message in the queue.
LEMMA LinkPump ==
  ASSUME SessionInv, NEW o \in OpsTable, NEW queue \in Seq(Messages), NEW busy \in BOOLEAN,
         Pump(o, queue, busy, connected), Len(o) = generation, generation > 0,
         UNCHANGED <<connected, reconnectScheduled, userClosed>>,
         ~connected => queue = outboundQueue,
         o[generation]["reconnect"] = Op("reconnect"),
         connected /\ ~userClosed => o[generation]["ping"] \in {"inflight", "ok"},
         connected /\ ~busy => o[generation]["write"] = "idle"
  PROVE  LinkInv'
<1>1. /\ Len(ops') = generation
      /\ \A j \in Kinds : j # "write" => ops'[generation][j] = o[generation][j]
  <2>1. OnlyWriteStarted(o) /\ generation \in 1..Len(o)
    BY PumpEffect, LenProperties DEF SessionInv, OpsTable
  <2> QED BY <2>1 DEF OnlyWriteStarted
<1>2. {"ping", "write", "reconnect"} \subseteq Kinds /\ generation' = generation
  BY <1>1 DEF Kinds, generation
<1>3. \/ connected /\ writeInFlight' = TRUE
      \/ ops' = o /\ outboundQueue' = queue /\ writeInFlight' = busy
  BY PumpLink
<1>4. ~connected => outboundQueue' = outboundQueue
  BY <1>3
<1>5. connected /\ ~writeInFlight' => Op("write")' = "idle"
  BY <1>2, <1>3 DEF Op
<1> QED
  BY <1>1, <1>2, <1>4, <1>5, LinkKept DEF Op

\* Calls and their posts.
LEMMA LinkCallers ==
  ASSUME SessionInv, NEW c \in Callers, Call(c) \/ Post(c)
  PROVE  LinkInv'
<1>1. UNCHANGED strandVars
  BY DEF Call, Close, Subscribe, Unsubscribe, Post
<1>2. UNCHANGED <<ops, connected, reconnectScheduled, userClosed, outboundQueue, writeInFlight>>
  BY <1>1 DEF strandVars, linkVars
<1> QED
  BY <1>2 DEF SessionInv, LinkInv, NotBoth, WaitHolds, FreeMeansIdle, QueueDiesWithConnection,
              HeartbeatArmed, generation, Op

\* startConnect(): there is no connection before it, and none after it.
LEMMA LinkStartConnect ==
  ASSUME SessionInv, NEW o \in OpsTable, StartConnect(o), ~connected,
         outboundQueue' = outboundQueue,
         Len(o) > 0 => o[Len(o)]["reconnect"] = "idle"
  PROVE  LinkInv'
<1>1. \/ ops' = o /\ connected' = connected
      \/ connected' = FALSE /\ ops'[Len(ops')] = NewGeneration
  BY StartConnectEffect DEF SessionInv
<1>2. NewGeneration["reconnect"] = "idle"
  BY DEF NewGeneration, Kinds
<1>3. ~connected' /\ outboundQueue' = <<>>
  BY <1>1 DEF SessionInv, LinkInv, QueueDiesWithConnection
<1>4. generation' > 0 => Op("reconnect")' = "idle"
  BY <1>1, <1>2 DEF generation, Op
<1> QED
  BY <1>3, <1>4, LinkDown

\* The handlers that callers and run() post.
LEMMA LinkPosted ==
  ASSUME SessionInv, RunPosted
  PROVE  LinkInv'
<1>0. /\ ops \in OpsTable /\ generation \in Nat /\ (generation > 0 => generation \in 1..Len(ops))
      /\ outboundQueue \in Seq(Messages) /\ writeInFlight \in BOOLEAN
      /\ {"ping", "write", "reconnect"} \subseteq Kinds
      /\ (connected => generation > 0)
  BY LenProperties DEF SessionInv, TypeOK, OpsTable, generation, Kinds, LoopInv, NothingYet
<1>1. CASE RunStartConnect
  <2>1. /\ Len(strand) > 0 /\ Len(strand) \in Nat /\ strand[1].run = "startConnect"
    BY <1>1, RunEffect DEF RunStartConnect, SessionInv
  <2>2. generation = 0 /\ ~connected
    BY <2>1 DEF SessionInv, LoopInv, StartFirst, NothingYet
  <2> QED BY <1>0, <1>1, <2>2, LinkStartConnect DEF RunStartConnect, generation
<1>p. ASSUME NEW queue \in Seq(Messages), Pump(ops, queue, writeInFlight, connected), connected,
             UNCHANGED <<connected, reconnectScheduled, userClosed>>
      PROVE  LinkInv'
  <2>1. /\ ops[generation]["reconnect"] = Op("reconnect")
        /\ connected /\ ~userClosed => ops[generation]["ping"] \in {"inflight", "ok"}
        /\ connected /\ ~writeInFlight => ops[generation]["write"] = "idle"
    BY DEF SessionInv, LinkInv, HeartbeatArmed, FreeMeansIdle, Op
  <2> QED BY <1>0, <1>p, <2>1, LinkPump DEF generation
<1>u. ASSUME UNCHANGED <<ops, connected, reconnectScheduled, userClosed, outboundQueue, writeInFlight>>
      PROVE  LinkInv'
  BY <1>u DEF SessionInv, LinkInv, NotBoth, WaitHolds, FreeMeansIdle, QueueDiesWithConnection,
              HeartbeatArmed, generation, Op
<1>2. CASE RunFlushTopics
  <2>1. FlushTopics(ops, connected) /\ UNCHANGED <<connected, reconnectScheduled, userClosed>>
    BY <1>2 DEF RunFlushTopics, linkVars
  <2>2. CASE connected
    <3>1. PICK s \in Orderings(pendingTopics) :
            Pump(ops, outboundQueue \o Subscribes(s), writeInFlight, TRUE)
      BY <2>1, <2>2 DEF FlushTopics, FlushNow
    <3>2. outboundQueue \o Subscribes(s) \in Seq(Messages)
      BY <1>0, SubscribesTyped, ConcatProperties DEF SessionInv
    <3>3. connected = TRUE
      BY <2>2 DEF SessionInv, TypeOK
    <3> DEFINE queue == outboundQueue \o Subscribes(s)
    <3>4. queue \in Seq(Messages) /\ Pump(ops, queue, writeInFlight, connected)
      BY <3>1, <3>2, <3>3
    <3> HIDE DEF queue
    <3> QED BY <1>p, <2>1, <2>2, <3>4
  <2>3. CASE ~connected
    BY <1>u, <2>1, <2>3 DEF FlushTopics, FlushSkipped
  <2> QED BY <2>2, <2>3
<1>3. CASE RunUnsubscribe
  <2>1. UNCHANGED <<connected, reconnectScheduled, userClosed>>
    BY <1>3 DEF RunUnsubscribe, linkVars
  <2>2. CASE connected
    <3>1. Head(strand) \in Handlers /\ Head(strand).run = "unsubscribe"
      BY <1>3, RunEffect DEF RunUnsubscribe, SessionInv
    <3>2. UnsubscribeMsg \in Messages
      BY <3>1 DEF UnsubscribeMsg, Messages, Handlers, Posts, Kinds, Stages
    <3>3. Append(outboundQueue, UnsubscribeMsg) \in Seq(Messages)
      BY <1>0, <3>2, AppendProperties
    <3>4. Pump(ops, Append(outboundQueue, UnsubscribeMsg), writeInFlight, connected)
      BY <1>3, <2>2 DEF RunUnsubscribe, SendUnsubscribe
    <3> QED BY <1>p, <2>1, <2>2, <3>3, <3>4
  <2>3. CASE ~connected
    BY <1>3, <1>u, <2>1, <2>3 DEF RunUnsubscribe, SendUnsubscribe
  <2> QED BY <2>2, <2>3
<1>4. CASE RunCloseByUser
  <2>1. /\ userClosed' = TRUE
        /\ UNCHANGED <<connected, reconnectScheduled, outboundQueue, writeInFlight>>
        /\ ops' = ops \/ ops' = Cancel(ops, {"ping", "reconnect", "resolve"})
    BY <1>4 DEF RunCloseByUser
  <2>2. /\ Len(ops') = Len(ops)
        /\ \A h \in 1..Len(ops) :
             /\ ops'[h]["write"] = ops[h]["write"]
             /\ ops'[h]["reconnect"] = "idle" <=> ops[h]["reconnect"] = "idle"
    BY <1>0, <2>1, CancelOps
  <2>3. generation' = generation
    BY <2>2 DEF generation
  <2>4. generation > 0 =>
          Op("write")' = Op("write") /\ (Op("reconnect")' # "idle" => Op("reconnect") # "idle")
    BY <1>0, <2>2, <2>3 DEF Op
  <2>5. connected /\ ~writeInFlight' => Op("write")' = "idle"
    BY <1>0, <2>1, <2>4 DEF SessionInv, LinkInv, FreeMeansIdle
  <2> QED BY <2>1, <2>3, <2>4, <2>5, LinkKept
<1> QED
  BY <1>1, <1>2, <1>3, <1>4 DEF RunPosted

\* A stage of the connect chain ended: there is no connection yet.
LEMMA LinkStage ==
  ASSUME SessionInv, NEW k \in Stages, NEW next \in Stages, AfterStage(k, next)
  PROVE  LinkInv'
<1> DEFINE o == Finished(k, generation)
<1>1. /\ k \in Kinds \ {"reconnect"} /\ next \in Kinds /\ next # "reconnect"
      /\ "reconnect" \in Kinds /\ writeInFlight \in BOOLEAN
  BY DEF Kinds, Stages, SessionInv, TypeOK
<1>2. /\ generation \in Nat \ {0} /\ o \in OpsTable /\ Len(o) = generation /\ Op(k) # "idle"
      /\ \A j \in Kinds : o[generation][j] = IF j = k THEN "idle" ELSE Op(j)
  BY <1>1, CompletedEffect DEF AfterStage, Ended, Op, SessionInv
<1>3. CASE HandleError(o, writeInFlight)
  BY <1>1, <1>3, LinkHandleError DEF AfterStage
<1>4. CASE NextStage(k, next)
  <2>1. ~connected /\ Op("reconnect") = "idle"
    BY <1>1, <1>2 DEF SessionInv, LoopInv, OneAttemptAtATime, Stages
  <2>2. ~connected' /\ outboundQueue' = <<>>
    BY <1>4, <2>1 DEF NextStage, linkVars, SessionInv, LinkInv, QueueDiesWithConnection
  <2>3. ops' = Start(o, next)
    BY <1>4 DEF NextStage
  <2> HIDE DEF o
  <2>4. /\ Len(Start(o, next)) = Len(o)
        /\ \A h \in 1..Len(o), j \in Kinds :
             Start(o, next)[h][j] = IF h = Len(o) /\ j = next THEN "inflight" ELSE o[h][j]
    BY <1>1, <1>2, StartOps
  <2>5. generation \in 1..Len(o) /\ generation' = generation
    BY <1>2, <2>3, <2>4 DEF generation
  <2>6. Op("reconnect")' = "idle"
    BY <1>1, <1>2, <2>1, <2>3, <2>4, <2>5 DEF Op
  <2> QED BY <2>2, <2>6, LinkDown
<1> QED
  BY <1>3, <1>4 DEF AfterStage, StageGivesUp

\* The handshake ended: the heartbeat and the read are armed, and the flush
\* starts a write at most.
LEMMA LinkHandshake ==
  ASSUME SessionInv, OnHandshake
  PROVE  LinkInv'
<1> DEFINE o == Finished("handshake", generation)
<1>1. /\ "handshake" \in Stages /\ "handshake" \in Kinds \ {"reconnect"}
      /\ {"ping", "read", "write", "reconnect"} \subseteq Kinds \ {"handshake"}
      /\ writeInFlight \in BOOLEAN /\ Completed("handshake")
  BY DEF Kinds, Stages, SessionInv, TypeOK, OnHandshake
<1>2. /\ generation \in Nat \ {0} /\ o \in OpsTable /\ Len(o) = generation /\ Op("handshake") # "idle"
      /\ \A j \in Kinds : o[generation][j] = IF j = "handshake" THEN "idle" ELSE Op(j)
  BY <1>1, CompletedEffect DEF Ended, Op, SessionInv
<1>3. ~connected /\ ~reconnectScheduled /\ \A j \in Kinds \ {"handshake"} : Op(j) = "idle"
  BY <1>1, <1>2 DEF SessionInv, LoopInv, OneAttemptAtATime
<1>4. CASE HandleError(o, writeInFlight)
  BY <1>1, <1>4, LinkHandleError
<1>5. CASE ops' = o /\ UNCHANGED connVars
  <2> HIDE DEF o
  <2>1. ~connected' /\ outboundQueue' = <<>>
    BY <1>3, <1>5 DEF connVars, linkVars, SessionInv, LinkInv, QueueDiesWithConnection
  <2>2. Op("reconnect")' = "idle"
    BY <1>1, <1>2, <1>3, <1>5 DEF generation, Op
  <2> QED BY <2>1, <2>2, LinkDown
<1>6. CASE Connected(o)
  <2> DEFINE quiet == Cancel(o, {"ping"})
             timed == Start(quiet, "ping")
             armed == Start(timed, "read")
  <2>0. FlushTopics(armed, TRUE) /\ connected' = TRUE /\ UNCHANGED <<reconnectScheduled, userClosed>>
    BY <1>6 DEF Connected
  <2> HIDE DEF o
  <2>1. /\ quiet \in OpsTable /\ Len(quiet) = generation
        /\ \A j \in Kinds : j # "ping" => quiet[generation][j] = o[generation][j]
    <3>1. generation \in 1..Len(o)
      BY <1>2
    <3> QED BY <1>2, <3>1, CancelOps
  <2> HIDE DEF quiet
  <2>2. /\ timed \in OpsTable /\ Len(timed) = generation
        /\ timed[generation]["ping"] = "inflight"
        /\ \A j \in Kinds : j # "ping" => timed[generation][j] = o[generation][j]
    <3>1. /\ Start(quiet, "ping") \in OpsTable /\ Len(Start(quiet, "ping")) = generation
          /\ Start(quiet, "ping")[generation]["ping"] = "inflight"
          /\ \A j \in Kinds : j # "ping" => Start(quiet, "ping")[generation][j] = quiet[generation][j]
      BY <1>1, <1>2, <2>1, StartedNow
    <3> QED BY <2>1, <3>1
  <2> HIDE DEF timed
  <2>3. /\ armed \in OpsTable /\ Len(armed) = generation
        /\ armed[generation]["ping"] = "inflight"
        /\ \A j \in Kinds : j \notin {"ping", "read"} => armed[generation][j] = o[generation][j]
    <3>1. /\ Start(timed, "read") \in OpsTable /\ Len(Start(timed, "read")) = generation
          /\ \A j \in Kinds : j # "read" => Start(timed, "read")[generation][j] = timed[generation][j]
      BY <1>1, <1>2, <2>2, StartedNow
    <3> QED BY <1>1, <2>2, <3>1
  <2> HIDE DEF armed
  <2>4. armed[generation]["write"] = "idle" /\ armed[generation]["reconnect"] = "idle"
    BY <1>1, <1>2, <1>3, <2>3
  <2>5. PICK s \in Orderings(pendingTopics) :
          Pump(armed, outboundQueue \o Subscribes(s), writeInFlight, TRUE)
    BY <2>0 DEF FlushTopics, FlushNow
  <2>6. writeInFlight' = TRUE \/ ops' = armed
    BY <2>5, PumpLink
  <2>7. OnlyWriteStarted(armed) /\ generation \in 1..Len(armed)
    <3>1. TypeOK /\ armed \in OpsTable /\ FlushTopics(armed, TRUE)
      BY <2>0, <2>3 DEF SessionInv
    <3>2. OnlyWriteStarted(armed)
      BY <3>1, FlushEffect
    <3> QED BY <1>2, <2>3, <3>2
  <2>8. generation' = generation /\ \A j \in Kinds : j # "write" => Op(j)' = armed[generation][j]
    BY <2>3, <2>7 DEF OnlyWriteStarted, generation, Op
  <2>9. NotBoth' /\ WaitHolds' /\ QueueDiesWithConnection'
    BY <1>1, <1>3, <2>0, <2>4, <2>8 DEF NotBoth, WaitHolds, QueueDiesWithConnection
  <2>10. HeartbeatArmed' /\ FreeMeansIdle'
    BY <1>1, <1>2, <2>3, <2>4, <2>6, <2>8 DEF HeartbeatArmed, FreeMeansIdle, Op
  <2> QED BY <2>9, <2>10 DEF LinkInv
<1> QED
  BY <1>4, <1>5, <1>6 DEF OnHandshake, Accept

\* The reconnect wait ended.
LEMMA LinkReconnectTimer ==
  ASSUME SessionInv, OnReconnectTimer
  PROVE  LinkInv'
<1> DEFINE o == Finished("reconnect", generation)
<1>1. "reconnect" \in Kinds /\ Completed("reconnect")
  BY DEF Kinds, OnReconnectTimer
<1>2. /\ generation \in Nat \ {0} /\ o \in OpsTable /\ Len(o) = generation /\ Op("reconnect") # "idle"
      /\ o[generation]["reconnect"] = "idle"
  BY <1>1, CompletedEffect DEF Ended, Op, SessionInv
<1>3. ~connected
  BY <1>2 DEF SessionInv, LinkInv, NotBoth, WaitHolds
<1>4. outboundQueue' = outboundQueue
  BY DEF OnReconnectTimer
<1>5. CASE ops' = o /\ connected' = connected
  <2> HIDE DEF o
  <2>1. ~connected' /\ outboundQueue' = <<>> /\ Op("reconnect")' = "idle"
    BY <1>2, <1>3, <1>4, <1>5 DEF SessionInv, LinkInv, QueueDiesWithConnection, generation, Op
  <2> QED BY <2>1, LinkDown
<1>6. CASE StartConnect(o)
  <2> HIDE DEF o
  <2> QED BY <1>2, <1>3, <1>4, <1>6, LinkStartConnect
<1> QED
  BY <1>5, <1>6 DEF OnReconnectTimer

\* A message arrived, a message was written, a ping round is due.
LEMMA LinkTransfer ==
  ASSUME SessionInv, OnRead \/ OnWrite \/ OnPingTimer
  PROVE  LinkInv'
<1>0. /\ {"read", "write", "ping"} \subseteq Kinds \ {"reconnect"} /\ "reconnect" \in Kinds
      /\ writeInFlight \in BOOLEAN /\ outboundQueue \in Seq(Messages)
  BY DEF Kinds, Stages, SessionInv, TypeOK
<1>1. ASSUME NEW k \in {"read", "write", "ping"}, Completed(k)
      PROVE  /\ generation \in Nat \ {0} /\ Finished(k, generation) \in OpsTable
             /\ Len(Finished(k, generation)) = generation
             /\ \A j \in Kinds : Finished(k, generation)[generation][j] = IF j = k THEN "idle" ELSE Op(j)
             /\ Op(k) \in Ended
  BY <1>0, <1>1, CompletedEffect DEF Op, SessionInv
<1>2. ASSUME connected, ~userClosed PROVE Op("ping") \in {"inflight", "ok"}
  BY <1>2 DEF SessionInv, LinkInv, HeartbeatArmed
<1>3. ASSUME connected, ~writeInFlight PROVE Op("write") = "idle"
  BY <1>3 DEF SessionInv, LinkInv, FreeMeansIdle
<1>4. CASE OnRead
  <2> DEFINE o == Finished("read", generation)
  <2>1. Completed("read")
    BY <1>4 DEF OnRead
  <2>2. /\ o \in OpsTable /\ Len(o) = generation /\ generation \in Nat \ {0}
        /\ \A j \in Kinds : o[generation][j] = IF j = "read" THEN "idle" ELSE Op(j)
    BY <1>1, <2>1
  <2>3. CASE HandleError(o, writeInFlight)
    BY <1>0, <2>1, <2>3, LinkHandleError
  <2>4. CASE UNCHANGED connVars /\ (ops' = o \/ ops' = Start(o, "read"))
    <3> HIDE DEF o
    <3>1. /\ Len(Start(o, "read")) = generation
          /\ \A j \in Kinds : j # "read" => Start(o, "read")[generation][j] = o[generation][j]
      <4>1. generation \in 1..Len(o)
        BY <2>2
      <4> QED BY <1>0, <2>2, <4>1, StartOps
    <3>2. generation' = generation /\ \A j \in Kinds : j # "read" => Op(j)' = Op(j)
      BY <2>2, <2>4, <3>1 DEF generation, Op
    <3>3. UNCHANGED <<connected, reconnectScheduled, userClosed, outboundQueue, writeInFlight>>
      BY <2>4 DEF connVars, linkVars
    <3> QED BY <1>0, <1>2, <1>3, <3>2, <3>3, LinkKept
  <2> QED BY <1>4, <2>3, <2>4 DEF OnRead
<1>5. CASE OnWrite
  <2> DEFINE o == Finished("write", generation)
  <2>1. Completed("write")
    BY <1>5 DEF OnWrite
  <2>2. /\ o \in OpsTable /\ Len(o) = generation /\ generation \in Nat \ {0}
        /\ \A j \in Kinds : o[generation][j] = IF j = "write" THEN "idle" ELSE Op(j)
    BY <1>1, <2>1
  <2>3. CASE HandleError(o, FALSE)
    BY <1>0, <2>1, <2>3, LinkHandleError
  <2>4. CASE /\ Pump(o, outboundQueue, FALSE, connected)
             /\ UNCHANGED <<connected, reconnectScheduled, userClosed>>
    <3> HIDE DEF o
    <3>1. /\ o[generation]["reconnect"] = Op("reconnect")
          /\ connected /\ ~userClosed => o[generation]["ping"] \in {"inflight", "ok"}
          /\ o[generation]["write"] = "idle"
      BY <1>0, <1>2, <2>2
    <3>2. PICK busy \in BOOLEAN : ~busy /\ Pump(o, outboundQueue, busy, connected)
      BY <2>4
    <3> QED BY <1>0, <2>2, <2>4, <3>1, <3>2, LinkPump
  <2> QED BY <1>5, <2>3, <2>4 DEF OnWrite, linkVars
<1>6. CASE OnPingTimer
  <2> DEFINE o == Finished("ping", generation)
             n == IF stream = "open" THEN 0 ELSE quietPings + 1
  <2>1. Completed("ping")
    BY <1>6 DEF OnPingTimer
  <2>2. /\ o \in OpsTable /\ Len(o) = generation /\ generation \in Nat \ {0}
        /\ \A j \in Kinds : o[generation][j] = IF j = "ping" THEN "idle" ELSE Op(j)
        /\ Op("ping") \in Ended
    BY <1>1, <2>1
  <2>3. CASE HandleError(o, writeInFlight)
    BY <1>0, <2>1, <2>3, LinkHandleError
  <2>s. /\ Start(o, "ping") \in OpsTable /\ Len(Start(o, "ping")) = generation
        /\ Start(o, "ping")[generation]["ping"] = "inflight"
        /\ \A j \in Kinds : j # "ping" => Start(o, "ping")[generation][j] = Op(j)
    <3> HIDE DEF o
    <3>1. generation \in 1..Len(o)
      BY <2>2
    <3> QED BY <1>0, <2>2, <3>1, StartOps
  <2>4. CASE /\ PingOver \/ ~connected
             /\ ops' = o \/ ops' = Start(o, "ping")
             /\ UNCHANGED <<connected, reconnectScheduled, userClosed, outboundQueue, writeInFlight>>
    <3> HIDE DEF o
    <3>1. generation' = generation /\ \A j \in Kinds : j # "ping" => Op(j)' = Op(j)
      BY <2>2, <2>4, <2>s DEF generation, Op
    <3>2. ~(connected /\ ~userClosed)
      BY <1>2, <2>4 DEF PingOver
    <3> QED BY <1>0, <1>3, <2>4, <3>1, <3>2, LinkKept
  <2>5. CASE connected /\ PingRound(o, n)
    <3> DEFINE started == Start(o, "ping")
               queue == Append(outboundQueue, Ping)
    <3>1. queue \in Seq(Messages)
      BY <1>0, AppendProperties DEF Ping, Messages
    <3>2. Pump(started, queue, writeInFlight, connected) /\ UNCHANGED <<connected, reconnectScheduled, userClosed>>
      BY <2>5 DEF PingRound, linkVars
    <3>3. /\ started[generation]["reconnect"] = Op("reconnect")
          /\ started[generation]["ping"] = "inflight"
          /\ started[generation]["write"] = Op("write")
          /\ started \in OpsTable /\ Len(started) = generation
      BY <1>0, <2>s
    <3> HIDE DEF o, n, started, queue
    <3>4. /\ ~connected => queue = outboundQueue
          /\ connected /\ ~userClosed => started[generation]["ping"] \in {"inflight", "ok"}
          /\ connected /\ ~writeInFlight => started[generation]["write"] = "idle"
      BY <1>3, <2>5, <3>3
    <3>5. generation > 0
      BY <2>2
    <3> QED BY <1>0, <3>1, <3>2, <3>3, <3>4, <3>5, LinkPump
  <2> QED BY <1>6, <2>3, <2>4, <2>5 DEF OnPingTimer, PeerSilent, connVars, linkVars
<1> QED
  BY <1>4, <1>5, <1>6

\* A completion of an older generation touches nothing of this one.
LEMMA LinkStale ==
  ASSUME SessionInv, NEW g \in 1..generation, NEW k \in Kinds, DropStale(k, g)
  PROVE  LinkInv'
<1>1. g < generation /\ ops' = Finished(k, g) /\ UNCHANGED connVars
  BY DEF DropStale
<1>2. /\ generation \in Nat /\ Len(ops') = generation
      /\ \A h \in 1..generation, j \in Kinds : h # g => ops'[h][j] = ops[h][j]
  <2>1. ops \in OpsTable /\ generation \in Nat
    BY LenProperties DEF SessionInv, TypeOK, OpsTable, generation
  <2> QED BY <1>1, <2>1, FinishedOps
<1>3. generation' = generation /\ \A j \in Kinds : Op(j)' = Op(j)
  <2>1. generation' = generation /\ generation \in 1..generation /\ generation # g
    BY <1>1, <1>2 DEF generation
  <2> QED BY <1>2, <2>1 DEF Op
<1>4. UNCHANGED <<connected, reconnectScheduled, userClosed, outboundQueue, writeInFlight>>
  BY <1>1 DEF connVars, linkVars
<1> QED
  BY <1>3, <1>4
     DEF SessionInv, LinkInv, NotBoth, WaitHolds, FreeMeansIdle, QueueDiesWithConnection,
         HeartbeatArmed, Kinds

\* Asio ends an operation; only a cancelled ping wait fails.
LEMMA LinkComplete ==
  ASSUME SessionInv, NEW k \in Kinds, NEW g \in 1..generation, NEW status \in Ended,
         Complete(k, g, status),
         k = "ping" => status = "ok" \/ ops[g][k] = "cancelled"
  PROVE  LinkInv'
<1>1. /\ Len(ops') = generation
      /\ ops[g][k] = "inflight" \/ (ops[g][k] = "cancelled" /\ status = "failed")
      /\ \A h \in 1..generation, j \in Kinds :
           ops'[h][j] = IF h = g /\ j = k THEN status ELSE ops[h][j]
  BY CompleteEffect DEF SessionInv
<1>2. /\ generation' = generation /\ generation \in Nat
      /\ {"ping", "write", "reconnect"} \subseteq Kinds
      /\ (connected => generation > 0)
  BY <1>1, LenProperties
     DEF generation, SessionInv, TypeOK, OpsTable, Kinds, LoopInv, NothingYet
<1>3. UNCHANGED <<connected, reconnectScheduled, userClosed, outboundQueue, writeInFlight>>
  BY DEF Complete, sessionVars, linkVars
<1>4. ASSUME generation > 0
      PROVE  /\ \A j \in Kinds : Op(j)' = "idle" <=> Op(j) = "idle"
             /\ Op("ping") \in {"inflight", "ok"} => Op("ping")' \in {"inflight", "ok"}
  <2>1. \A j \in Kinds : Op(j)' = IF generation = g /\ j = k THEN status ELSE Op(j)
    BY <1>1, <1>2, <1>4 DEF Op
  <2>2. generation = g =>
          Op(k) \in {"inflight", "cancelled"} /\ (k = "ping" => status = "ok" \/ Op(k) = "cancelled")
    BY <1>1 DEF Op
  <2>3. status # "idle"
    BY DEF Ended
  <2> QED BY <1>2, <2>1, <2>2, <2>3
<1>5. connected /\ ~userClosed' => Op("ping")' \in {"inflight", "ok"}
  BY <1>2, <1>3, <1>4 DEF SessionInv, LinkInv, HeartbeatArmed
<1>6. connected /\ ~writeInFlight' => Op("write")' = "idle"
  BY <1>2, <1>3, <1>4 DEF SessionInv, LinkInv, FreeMeansIdle
<1> QED
  BY <1>2, <1>3, <1>4, <1>5, <1>6, LinkKept

\* A step of the environment.
LEMMA LinkEnvironment ==
  ASSUME SessionInv, Environment
  PROVE  LinkInv'
<1>k. /\ Stages \subseteq Kinds \ {"ping"} /\ {"read", "write", "reconnect"} \subseteq Kinds \ {"ping"}
      /\ "ping" \in Kinds /\ {"ok", "bad", "failed"} \subseteq Ended
  BY DEF Kinds, Stages, Ended
<1>g. generation \in Nat /\ (generation > 0 => generation \in 1..generation)
  BY LenProperties DEF SessionInv, TypeOK, OpsTable, generation
<1>1. ASSUME NEW k \in Stages, StageSucceeds(k) \/ StageFails(k) PROVE LinkInv'
  BY <1>1, <1>g, <1>k, LinkComplete DEF StageSucceeds, StageFails
<1>2. CASE WriteSucceeds \/ ReconnectTimerExpires
  BY <1>2, <1>g, <1>k, LinkComplete DEF WriteSucceeds, ReconnectTimerExpires
<1>3. ASSUME NEW g \in 1..generation, NEW k \in {"read", "write"}, TransferFails(k, g) PROVE LinkInv'
  BY <1>3, <1>k, LinkComplete DEF TransferFails
<1>4. ASSUME NEW g \in 1..generation,
             PingTimerExpires(g) \/ WaitAborted("ping", g) \/ WaitAborted("reconnect", g)
      PROVE  LinkInv'
  BY <1>4, <1>k, LinkComplete DEF PingTimerExpires, WaitAborted
<1>5. ASSUME NEW status \in {"ok", "bad"}, MessageArrives(status) PROVE LinkInv'
  BY <1>5, <1>g, <1>k, LinkComplete DEF MessageArrives
<1>6. CASE ConnectionBreaks \/ PeerFallsSilent \/ CloseHandshakeEnds \/ ServerReceives
  <2>1. UNCHANGED <<ops, connected, reconnectScheduled, userClosed, outboundQueue, writeInFlight>>
    BY <1>6
       DEF ConnectionBreaks, PeerFallsSilent, CloseHandshakeEnds, ServerReceives, sessionVars, linkVars
  <2> QED
    BY <2>1 DEF SessionInv, LinkInv, NotBoth, WaitHolds, FreeMeansIdle, QueueDiesWithConnection,
                HeartbeatArmed, generation, Op
<1> QED
  BY <1>1, <1>2, <1>3, <1>4, <1>5, <1>6 DEF Environment, StageEnds, TransferEnds, TimerExpires

LEMMA LinkInit == Init => LinkInv
<1> SUFFICES ASSUME Init PROVE LinkInv
  OBVIOUS
<1>1. ~connected /\ outboundQueue = <<>> /\ generation = 0
  BY EmptySeq DEF Init, generation
<1> QED
  BY <1>1 DEF LinkInv, NotBoth, WaitHolds, FreeMeansIdle, QueueDiesWithConnection, HeartbeatArmed

\* Every step keeps it.
LEMMA LinkStep == SessionInv /\ [Next]_vars => LinkInv'
<1> SUFFICES ASSUME SessionInv, [Next]_vars PROVE LinkInv'
  OBVIOUS
<1>1. CASE \E c \in Callers : Call(c) \/ Post(c)
  BY <1>1, LinkCallers
<1>2. CASE RunPosted
  BY <1>2, LinkPosted
<1>3. CASE RunCompletion
  <2>1. CASE OnResolve \/ OnConnect \/ OnSSLHandshake
    <3>1. {"resolve", "connect", "tls", "handshake"} \subseteq Stages
      BY DEF Stages
    <3> QED BY <2>1, <3>1, LinkStage DEF OnResolve, OnConnect, OnSSLHandshake
  <2>2. CASE OnHandshake \/ OnReconnectTimer \/ OnRead \/ OnWrite \/ OnPingTimer
    BY <2>2, LinkHandshake, LinkReconnectTimer, LinkTransfer
  <2>3. CASE \E g \in 1..generation, k \in Kinds : DropStale(k, g)
    BY <2>3, LinkStale
  <2> QED BY <1>3, <2>1, <2>2, <2>3 DEF RunCompletion
<1>4. CASE Environment
  BY <1>4, LinkEnvironment
<1>5. CASE UNCHANGED vars
  BY <1>5 DEF vars, sessionVars, linkVars, SessionInv, LinkInv, NotBoth, WaitHolds, FreeMeansIdle,
              QueueDiesWithConnection, HeartbeatArmed, generation, Op
<1> QED
  BY <1>1, <1>2, <1>3, <1>4, <1>5 DEF Next

LEMMA SessionInit == Init => SessionInv
BY TypeInit, LoopInit, LinkInit DEF SessionInv

LEMMA SessionStep == SessionInv /\ [Next]_vars => SessionInv'
<1> SUFFICES ASSUME SessionInv, [Next]_vars PROVE SessionInv'
  OBVIOUS
<1>1. TypeOK' /\ LoopInv'
  BY TypeStep, LoopStep DEF SessionInv
<1>2. LinkInv'
  BY LinkStep
<1> QED
  BY <1>1, <1>2 DEF SessionInv

\* The strengthened invariant of the connection.
THEOREM SessionInvariant == Spec => []SessionInv
BY SessionInit, SessionStep, PTL DEF Spec

\* A message queued for one connection is never sent on another.
THEOREM QueueDies == Spec => []QueueDiesWithConnection
<1>1. SessionInv => QueueDiesWithConnection
  BY DEF SessionInv, LinkInv
<1> QED
  BY <1>1, SessionInvariant, PTL

\* A live connection always has a ping wait that will end in a ping round.
THEOREM Heartbeat == Spec => []HeartbeatArmed
<1>1. SessionInv => HeartbeatArmed
  BY DEF SessionInv, LinkInv
<1> QED
  BY <1>1, SessionInvariant, PTL

-----------------------------------------------------------------------------
(* What no step does.                                                      *)

\* The environment ends an operation and may change the stream; the wire is
\* kept, lost, or the venue takes its head.
LEMMA EnvironmentEffect ==
  ASSUME SessionInv, Environment
  PROVE  /\ UNCHANGED sessionVars
         /\ generation' = generation
         /\ wire' \in {wire, <<>>} \/ (wire # <<>> /\ wire' = Tail(wire))
<1>k. /\ Stages \cup {"read", "write", "ping", "reconnect"} \subseteq Kinds
      /\ {"ok", "bad", "failed"} \subseteq Ended
  BY DEF Kinds, Stages, Ended
<1>g. generation \in Nat /\ (generation > 0 => generation \in 1..generation)
  BY LenProperties DEF SessionInv, TypeOK, OpsTable, generation
<1>c. ASSUME NEW k \in Kinds, NEW g \in 1..generation, NEW status \in Ended, Complete(k, g, status)
      PROVE  UNCHANGED sessionVars /\ generation' = generation /\ wire' = wire
  <2>1. Len(ops') = generation
    BY <1>c, CompleteEffect DEF SessionInv
  <2> QED BY <1>c, <2>1 DEF Complete, wireVars, generation
<1>1. ASSUME NEW k \in Stages, StageSucceeds(k) \/ StageFails(k)
      PROVE  UNCHANGED sessionVars /\ generation' = generation /\ wire' = wire
  BY <1>1, <1>g, <1>k, <1>c DEF StageSucceeds, StageFails
<1>2. CASE WriteSucceeds \/ ReconnectTimerExpires
  BY <1>2, <1>g, <1>k, <1>c DEF WriteSucceeds, ReconnectTimerExpires
<1>3. ASSUME NEW g \in 1..generation, NEW k \in {"read", "write"}, TransferFails(k, g)
      PROVE  UNCHANGED sessionVars /\ generation' = generation /\ wire' = wire
  BY <1>3, <1>k, <1>c DEF TransferFails
<1>4. ASSUME NEW g \in 1..generation,
             PingTimerExpires(g) \/ WaitAborted("ping", g) \/ WaitAborted("reconnect", g)
      PROVE  UNCHANGED sessionVars /\ generation' = generation /\ wire' = wire
  BY <1>4, <1>k, <1>c DEF PingTimerExpires, WaitAborted
<1>5. ASSUME NEW status \in {"ok", "bad"}, MessageArrives(status)
      PROVE  UNCHANGED sessionVars /\ generation' = generation /\ wire' = wire
  BY <1>5, <1>g, <1>k, <1>c DEF MessageArrives
<1>6. CASE ConnectionBreaks \/ PeerFallsSilent \/ CloseHandshakeEnds \/ ServerReceives
  BY <1>6
     DEF ConnectionBreaks, PeerFallsSilent, CloseHandshakeEnds, ServerReceives, wireVars, generation
<1> QED
  BY <1>1, <1>2, <1>3, <1>4, <1>5, <1>6 DEF Environment, StageEnds, TransferEnds, TimerExpires

\* Without a call a step moves topics between the two lists at most.
LEMMA WantedKept ==
  ASSUME SessionInv, Next, calls' = calls
  PROVE  Wanted' = Wanted
<1>u. UNCHANGED topicVars => Wanted' = Wanted
  BY DEF topicVars, Wanted
<1>f. ASSUME NEW o, NEW up, FlushTopics(o, up) PROVE Wanted' = Wanted
  BY <1>f, <1>u DEF FlushTopics, FlushNow, FlushSkipped, Wanted
<1>h. ASSUME NEW o, NEW busy, HandleError(o, busy) PROVE Wanted' = Wanted
  BY <1>h, <1>u DEF HandleError, TopicsBackToPending, Wanted
<1>1. CASE \E c \in Callers : Call(c) \/ Post(c)
  <2>1. calls \in Nat
    BY DEF SessionInv, TypeOK
  <2> QED BY <1>1, <1>u, <2>1 DEF Call, Close, Subscribe, Unsubscribe, Post
<1>2. CASE RunPosted
  BY <1>2, <1>u, <1>f
     DEF RunPosted, RunStartConnect, RunFlushTopics, RunUnsubscribe, RunCloseByUser
<1>3. CASE RunCompletion
  <2>1. ASSUME NEW k, NEW next, AfterStage(k, next) PROVE Wanted' = Wanted
    BY <1>u, <1>h, <2>1 DEF AfterStage, StageGivesUp, NextStage
  <2>2. CASE OnResolve \/ OnConnect \/ OnSSLHandshake
    BY <2>1, <2>2 DEF OnResolve, OnConnect, OnSSLHandshake
  <2>3. CASE OnHandshake
    BY <1>u, <1>f, <1>h, <2>3 DEF OnHandshake, Accept, Connected, connVars
  <2>4. CASE OnRead \/ OnWrite
    BY <1>u, <1>h, <2>4 DEF OnRead, OnWrite, connVars
  <2>5. CASE OnPingTimer
    BY <1>u, <1>h, <2>5 DEF OnPingTimer, PeerSilent, PingRound, connVars
  <2>6. CASE OnReconnectTimer \/ \E g \in 1..generation, k \in Kinds : DropStale(k, g)
    BY <1>u, <2>6 DEF OnReconnectTimer, DropStale, connVars
  <2> QED BY <1>3, <2>2, <2>3, <2>4, <2>5, <2>6 DEF RunCompletion
<1>4. CASE Environment
  BY <1>4, <1>u, EnvironmentEffect DEF sessionVars
<1> QED
  BY <1>1, <1>2, <1>3, <1>4 DEF Next

\* Whatever fails, the session goes on holding the topics its callers want.
THEOREM TopicsSurvive == Spec => TopicsSurviveFailures
<1>1. SessionInv /\ [Next]_vars => [calls' = calls => Wanted' = Wanted]_vars
  BY WantedKept
<1> QED
  BY <1>1, SessionInvariant, PTL DEF Spec, TopicsSurviveFailures

\* A closed session opens no generation and reports no connection.
LEMMA ClosedStays ==
  ASSUME SessionInv, Next, userClosed
  PROVE  generation' = generation /\ (connected' => connected)
<1>o. /\ ops \in OpsTable /\ writeInFlight \in BOOLEAN
      /\ outboundQueue \in Seq(Messages)
      /\ {"read", "write", "ping", "reconnect", "handshake"} \subseteq Kinds /\ Stages \subseteq Kinds
  BY DEF SessionInv, TypeOK, Kinds, Stages
<1>c. ASSUME NEW k \in Kinds, Completed(k)
      PROVE  Finished(k, generation) \in OpsTable /\ Len(Finished(k, generation)) = generation
  BY <1>c, CompletedEffect DEF SessionInv
<1>s. ASSUME NEW o \in OpsTable, NEW k \in Kinds, Len(o) = generation, ops' = Start(o, k)
      PROVE  generation' = generation
  BY <1>s, StartOps DEF generation
<1>p. ASSUME NEW o \in OpsTable, NEW queue, NEW busy, NEW up, Len(o) = generation,
             Pump(o, queue, busy, up)
      PROVE  generation' = generation
  BY <1>o, <1>p, <1>s DEF Pump, generation
<1>h. ASSUME NEW o, NEW busy, HandleError(o, busy), Len(o) = generation
      PROVE  generation' = generation /\ connected' = connected
  BY <1>h DEF HandleError, linkVars, generation
<1>f. ASSUME NEW o \in OpsTable, NEW up, FlushTopics(o, up), Len(o) = generation
      PROVE  generation' = generation
  BY <1>p, <1>f DEF FlushTopics, FlushNow, FlushSkipped, generation
<1>1. CASE \E c \in Callers : Call(c) \/ Post(c)
  <2>1. UNCHANGED strandVars
    BY <1>1 DEF Call, Close, Subscribe, Unsubscribe, Post
  <2> QED BY <2>1 DEF strandVars, linkVars, generation
<1>2. CASE RunPosted
  <2>1. CASE RunStartConnect
    BY <2>1 DEF RunStartConnect, StartConnect, generation
  <2>2. CASE RunFlushTopics
    BY <1>o, <1>f, <2>2 DEF RunFlushTopics, linkVars, generation
  <2>3. CASE RunUnsubscribe
    BY <1>o, <1>p, <2>3 DEF RunUnsubscribe, SendUnsubscribe, linkVars, generation
  <2>4. CASE RunCloseByUser
    BY <2>4 DEF RunCloseByUser, generation
  <2> QED BY <1>2, <2>1, <2>2, <2>3, <2>4 DEF RunPosted
<1>3. CASE RunCompletion
  <2>1. ASSUME NEW k \in Stages, NEW next \in Stages, AfterStage(k, next)
        PROVE  generation' = generation /\ (connected' => connected)
    <3>1. Finished(k, generation) \in OpsTable /\ Len(Finished(k, generation)) = generation
      BY <1>o, <1>c, <2>1 DEF AfterStage
    <3> QED BY <1>o, <1>h, <1>s, <2>1, <3>1 DEF AfterStage, StageGivesUp, NextStage, linkVars
  <2>2. CASE OnResolve \/ OnConnect \/ OnSSLHandshake
    BY <2>1, <2>2 DEF OnResolve, OnConnect, OnSSLHandshake, Stages
  <2>3. CASE OnHandshake
    <3>1. Len(Finished("handshake", generation)) = generation
      BY <1>o, <1>c, <2>3 DEF OnHandshake
    <3> QED BY <1>h, <2>3, <3>1 DEF OnHandshake, Accept, connVars, linkVars, generation
  <2>4. CASE OnRead
    <3>1. Finished("read", generation) \in OpsTable /\ Len(Finished("read", generation)) = generation
      BY <1>o, <1>c, <2>4 DEF OnRead
    <3> DEFINE o == Finished("read", generation)
    <3>2. HandleError(o, writeInFlight) \/ (UNCHANGED connected /\ (ops' = o \/ ops' = Start(o, "read")))
      BY <2>4 DEF OnRead, connVars, linkVars
    <3> HIDE DEF o
    <3> QED BY <1>o, <1>h, <1>s, <3>1, <3>2 DEF o, generation
  <2>5. CASE OnWrite
    <3>1. Finished("write", generation) \in OpsTable /\ Len(Finished("write", generation)) = generation
      BY <1>o, <1>c, <2>5 DEF OnWrite
    <3> QED BY <1>h, <1>p, <2>5, <3>1 DEF OnWrite, linkVars
  <2>6. CASE OnPingTimer
    <3>1. Finished("ping", generation) \in OpsTable /\ Len(Finished("ping", generation)) = generation
      BY <1>o, <1>c, <2>6 DEF OnPingTimer
    <3>2. ops' = Finished("ping", generation) /\ UNCHANGED connVars
      BY <2>6 DEF OnPingTimer, PingOver
    <3> QED BY <3>1, <3>2 DEF generation, connVars, linkVars
  <2>7. CASE OnReconnectTimer
    <3>1. Len(Finished("reconnect", generation)) = generation
      BY <1>o, <1>c, <2>7 DEF OnReconnectTimer
    <3> QED BY <2>7, <3>1 DEF OnReconnectTimer, StartConnect, generation
  <2>8. ASSUME NEW g \in 1..generation, NEW k \in Kinds, DropStale(k, g)
        PROVE  generation' = generation /\ (connected' => connected)
    BY <1>o, <2>8, FinishedOps DEF DropStale, connVars, linkVars, generation
  <2> QED BY <1>3, <2>2, <2>3, <2>4, <2>5, <2>6, <2>7, <2>8 DEF RunCompletion
<1>4. CASE Environment
  BY <1>4, EnvironmentEffect DEF sessionVars, linkVars
<1> QED
  BY <1>1, <1>2, <1>3, <1>4 DEF Next

\* close() is final: a completion that runs after it connects nothing.
THEOREM CloseFinal == Spec => CloseIsFinal
<1>1. SessionInv /\ [Next]_vars
        => [userClosed => generation' = generation /\ (connected' => connected)]_vars
  BY ClosedStays
<1> QED
  BY <1>1, SessionInvariant, PTL DEF Spec, CloseIsFinal

\* A message is written only when no write is in flight: the flag is set by
\* every pump, and a completion that clears it is that write's own.
LEMMA WriteAlone ==
  ASSUME SessionInv, Next, Len(wire') > Len(wire)
  PROVE  Op("write") # "inflight"
<1>o. /\ {"read", "write", "ping", "reconnect", "handshake"} \subseteq Kinds /\ Stages \subseteq Kinds
      /\ wire \in Seq(Messages) /\ Len(wire) \in Nat
      /\ "handshake" \in Stages
  BY LenProperties DEF SessionInv, TypeOK, Kinds, Stages
<1>g. wire' \notin {wire, <<>>} /\ ~(wire # <<>> /\ wire' = Tail(wire))
  <2>1. Len(<<>>) = 0 /\ (wire # <<>> => Len(Tail(wire)) = Len(wire) - 1)
    BY <1>o, HeadTailProperties, EmptySeq
  <2> QED BY <1>o, <2>1
<1>p. ASSUME NEW o, NEW queue, Pump(o, queue, writeInFlight, connected) PROVE Op("write") # "inflight"
  BY <1>g, <1>p DEF Pump, SessionInv, LinkInv, FreeMeansIdle
<1>h. ASSUME NEW o, NEW busy, HandleError(o, busy) PROVE FALSE
  BY <1>g, <1>h, HandleErrorLink
<1>u. wire' # wire
  BY <1>g
<1>1. CASE \E c \in Callers : Call(c) \/ Post(c)
  <2>1. UNCHANGED strandVars
    BY <1>1 DEF Call, Close, Subscribe, Unsubscribe, Post
  <2> QED BY <1>u, <2>1 DEF strandVars, wireVars
<1>2. CASE RunPosted
  <2>1. CASE RunStartConnect
    BY <1>g, <2>1 DEF RunStartConnect, StartConnect, wireVars
  <2>2. CASE RunFlushTopics
    <3>1. connected /\ connected = TRUE
      BY <1>u, <2>2 DEF RunFlushTopics, FlushTopics, FlushSkipped, SessionInv, TypeOK
    <3>2. PICK s \in Orderings(pendingTopics) :
            Pump(ops, outboundQueue \o Subscribes(s), writeInFlight, TRUE)
      BY <2>2, <3>1 DEF RunFlushTopics, FlushTopics, FlushNow
    <3> QED BY <1>p, <3>1, <3>2
  <2>3. CASE RunUnsubscribe
    BY <1>u, <1>p, <2>3 DEF RunUnsubscribe, SendUnsubscribe
  <2>4. CASE RunCloseByUser
    BY <1>g, <2>4 DEF RunCloseByUser, wireVars
  <2> QED BY <1>2, <2>1, <2>2, <2>3, <2>4 DEF RunPosted
<1>3. CASE RunCompletion
  <2>1. CASE OnResolve \/ OnConnect \/ OnSSLHandshake
    BY <1>u, <1>h, <2>1
       DEF OnResolve, OnConnect, OnSSLHandshake, AfterStage, StageGivesUp, NextStage, wireVars
  <2>2. CASE OnHandshake
    <3>1. Op("handshake") \in Ended /\ generation > 0
      BY <1>o, <2>2, CompletedEffect DEF OnHandshake, SessionInv
    <3>2. Op("handshake") # "idle" /\ "write" \in Kinds \ {"handshake"}
      BY <1>o, <3>1 DEF Ended
    <3>3. Op("write") = "idle"
      BY <1>o, <3>1, <3>2 DEF SessionInv, LoopInv, OneAttemptAtATime
    <3> QED BY <3>3
  <2>3. CASE OnRead
    BY <1>u, <1>h, <2>3 DEF OnRead, connVars, wireVars
  <2>4. CASE OnWrite
    BY <2>4 DEF OnWrite, Completed, Ended
  <2>5. CASE OnPingTimer
    BY <1>u, <1>h, <1>p, <2>5 DEF OnPingTimer, PeerSilent, PingRound, connVars, wireVars
  <2>6. CASE OnReconnectTimer \/ \E g \in 1..generation, k \in Kinds : DropStale(k, g)
    BY <1>g, <2>6 DEF OnReconnectTimer, StartConnect, DropStale, connVars, wireVars
  <2> QED BY <1>3, <2>1, <2>2, <2>3, <2>4, <2>5, <2>6 DEF RunCompletion
<1>4. CASE Environment
  BY <1>4, <1>g, EnvironmentEffect
<1> QED
  BY <1>1, <1>2, <1>3, <1>4 DEF Next

\* "one async_write in flight" (hyperliquid_ws_session.cpp:65), on whatever path
\* the pump is reached.
THEOREM WriteIsAlone == Spec => OneWriteInFlight
<1>1. SessionInv /\ [Next]_vars => [Len(wire') > Len(wire) => Op("write") # "inflight"]_vars
  BY WriteAlone
<1> QED
  BY <1>1, SessionInvariant, PTL DEF Spec, OneWriteInFlight

-----------------------------------------------------------------------------
(* The pings of a silent peer.  PingBacklogBounded is not inductive: a ping *)
(* round that was due before the peer fell silent, and a message that came  *)
(* before, are handled after it.                                            *)

PingsOf(q) == {i \in DOMAIN q : q[i] = Ping}
NumPings(q) == Cardinality(PingsOf(q))

LEMMA PingsType ==
  ASSUME NEW q \in Seq(Messages)
  PROVE  /\ IsFiniteSet(PingsOf(q)) /\ NumPings(q) \in Nat /\ NumPings(q) <= Len(q)
         /\ PingsOf(q) \subseteq 1..Len(q) /\ Len(q) \in Nat
<1>1. Len(q) \in Nat /\ DOMAIN q = 1..Len(q) /\ PingsOf(q) \subseteq 1..Len(q)
  BY LenProperties DEF PingsOf
<1>2. IsFiniteSet(1..Len(q)) /\ Cardinality(1..Len(q)) = Len(q)
  <2>1. PICK n \in Nat : n = Len(q)
    BY <1>1
  <2>2. IsFiniteSet(1..n) /\ Cardinality(1..n) = n
    BY FS_Interval
  <2> QED BY <2>1, <2>2
<1>3. /\ IsFiniteSet(PingsOf(q)) /\ Cardinality(PingsOf(q)) <= Len(q)
  BY <1>1, <1>2, FS_Subset
<1> QED
  BY <1>1, <1>3, FS_CardinalityType DEF NumPings

LEMMA PingsNone == NumPings(<<>>) = 0
<1>1. PingsOf(<<>>) = {}
  BY DEF PingsOf
<1> QED
  BY <1>1, FS_EmptySet DEF NumPings

\* Taking the head takes a ping at most.
LEMMA PingsTail ==
  ASSUME NEW q \in Seq(Messages), q # <<>>
  PROVE  NumPings(Tail(q)) <= NumPings(q)
<1> DEFINE f == [i \in PingsOf(Tail(q)) |-> i + 1]
<1>1. /\ Tail(q) \in Seq(Messages) /\ Len(q) \in Nat /\ Len(Tail(q)) = Len(q) - 1
      /\ \A i \in 1..Len(Tail(q)) : Tail(q)[i] = q[i + 1]
      /\ DOMAIN q = 1..Len(q) /\ DOMAIN Tail(q) = 1..Len(Tail(q))
  BY HeadTailProperties, LenProperties
<1>2. \A i \in PingsOf(Tail(q)) : i \in Nat /\ i + 1 \in PingsOf(q)
  BY <1>1 DEF PingsOf
<1>3. f \in Injection(PingsOf(Tail(q)), PingsOf(q))
  BY <1>2 DEF Injection, IsInjective
<1>4. IsFiniteSet(PingsOf(q))
  BY PingsType
<1> HIDE DEF f
<1> QED
  BY <1>3, <1>4, FS_Injection DEF NumPings

\* Appending a message adds a ping if it is one.
LEMMA PingsAppend ==
  ASSUME NEW q \in Seq(Messages), NEW m \in Messages
  PROVE  /\ NumPings(Append(q, m)) <= NumPings(q) + 1
         /\ m # Ping => NumPings(Append(q, m)) = NumPings(q)
<1>1. /\ Len(q) \in Nat /\ DOMAIN q = 1..Len(q) /\ DOMAIN Append(q, m) = 1..(Len(q) + 1)
      /\ Append(q, m)[Len(q) + 1] = m /\ \A i \in 1..Len(q) : Append(q, m)[i] = q[i]
  BY LenProperties
<1>2. m # Ping => PingsOf(Append(q, m)) = PingsOf(q)
  BY <1>1 DEF PingsOf
<1>3. m = Ping => PingsOf(Append(q, m)) = PingsOf(q) \cup {Len(q) + 1}
  BY <1>1 DEF PingsOf
<1>4. Len(q) + 1 \notin PingsOf(q) /\ IsFiniteSet(PingsOf(q)) /\ NumPings(q) \in Nat
  <2>1. PingsOf(q) \subseteq 1..Len(q) /\ ~(Len(q) + 1 \in 1..Len(q))
    BY <1>1, PingsType
  <2> QED BY <2>1, PingsType
<1>5. m = Ping => NumPings(Append(q, m)) = NumPings(q) + 1
  BY <1>3, <1>4, FS_AddElement DEF NumPings
<1> QED
  BY <1>2, <1>4, <1>5 DEF NumPings

\* A flush adds none.
LEMMA PingsFlush ==
  ASSUME TypeOK, NEW s \in Orderings(pendingTopics)
  PROVE  NumPings(outboundQueue \o Subscribes(s)) = NumPings(outboundQueue)
<1> DEFINE q == outboundQueue
           tail == Subscribes(s)
           both == q \o tail
<1>1. q \in Seq(Messages) /\ tail \in Seq(Messages) /\ \A i \in 1..Len(tail) : tail[i] # Ping
  <2>1. /\ q \in Seq(Messages) /\ tail \in Seq(Messages) /\ s \in Seq(Topics)
    BY SubscribesTyped DEF TypeOK
  <2>2. DOMAIN tail = DOMAIN s /\ \A i \in DOMAIN s : tail[i] = [method |-> "subscribe", topic |-> s[i]]
    BY DEF Subscribes
  <2>3. \A i \in DOMAIN s : tail[i] # Ping
    BY <2>2 DEF Ping
  <2> HIDE DEF tail
  <2> QED BY <2>1, <2>2, <2>3, LenProperties
<1> HIDE DEF q, tail
<1>2. /\ Len(q) \in Nat /\ Len(tail) \in Nat /\ DOMAIN q = 1..Len(q)
      /\ both \in Seq(Messages) /\ Len(both) = Len(q) + Len(tail)
      /\ \A i \in 1..(Len(q) + Len(tail)) : both[i] = IF i <= Len(q) THEN q[i] ELSE tail[i - Len(q)]
  BY <1>1, ConcatProperties, LenProperties
<1> HIDE DEF both
<1>3. DOMAIN both = 1..Len(both)
  BY <1>2, LenProperties
<1>4. ASSUME NEW i \in 1..Len(both) PROVE both[i] = Ping <=> i \in 1..Len(q) /\ q[i] = Ping
  <2>1. CASE i <= Len(q)
    BY <1>2, <1>4, <2>1
  <2>2. CASE ~(i <= Len(q))
    <3>1. i - Len(q) \in 1..Len(tail)
      BY <1>2, <1>4, <2>2
    <3> QED BY <1>1, <1>2, <1>4, <2>2, <3>1
  <2> QED BY <2>1, <2>2
<1>5. \A i \in 1..Len(q) : i \in 1..Len(both)
  BY <1>2
<1>6. PingsOf(both) = PingsOf(q)
  BY <1>2, <1>3, <1>4, <1>5 DEF PingsOf
<1> QED
  BY <1>6 DEF NumPings, both, q, tail

\* pump() adds none.
LEMMA PingsPump ==
  ASSUME NEW queue \in Seq(Messages), NEW o, NEW busy, NEW up, Pump(o, queue, busy, up)
  PROVE  NumPings(outboundQueue') <= NumPings(queue)
<1>1. outboundQueue' = queue \/ (queue # <<>> /\ outboundQueue' = Tail(queue))
  BY DEF Pump
<1>2. NumPings(queue) <= NumPings(queue)
  <2>1. NumPings(queue) \in Nat
    BY PingsType
  <2> QED BY <2>1
<1>3. queue # <<>> => NumPings(Tail(queue)) <= NumPings(queue)
  BY PingsTail
<1>4. outboundQueue' = queue => NumPings(outboundQueue') = NumPings(queue)
  BY DEF NumPings, PingsOf
<1>5. outboundQueue' = Tail(queue) => NumPings(outboundQueue') = NumPings(Tail(queue))
  BY DEF NumPings, PingsOf
<1> QED
  BY <1>1, <1>2, <1>3, <1>4, <1>5

\* A completion of the ping wait that waits on the strand belongs to a wait
\* that has ended, and is the only one of its generation.
PingsPosted ==
  /\ \A i \in 1..Len(strand) : strand[i].run = "ping" =>
       strand[i].arg \in 1..generation /\ ops[strand[i].arg]["ping"] \in Ended
  /\ \A i, j \in 1..Len(strand) : strand[i].run = "ping" /\ strand[j] = strand[i] => i = j

ClosingIsClosed == stream = "closing" => userClosed

PostInv == PingsPosted /\ ClosingIsClosed

\* The ping waits that have ended stay ended, but for that of generation g.
EndedKept(g) ==
  \A h \in 1..generation :
    h \in 1..generation' /\ (h # g /\ ops[h]["ping"] \in Ended => ops'[h]["ping"] \in Ended)

LEMMA PostedRun ==
  ASSUME TypeOK, PingsPosted, NEW name, Run(name), NEW g,
         name = "ping" => g = Head(strand).arg, EndedKept(g), name # "ping" => EndedKept(0)
  PROVE  PingsPosted'
<1>1. /\ Head(strand).run = name /\ Head(strand) = strand[1]
      /\ Len(strand) \in Nat /\ Len(strand) > 0 /\ Len(strand') = Len(strand) - 1
      /\ \A i \in 1..Len(strand') : strand'[i] = strand[i + 1] /\ i + 1 \in 1..Len(strand)
      /\ 1 \in 1..Len(strand)
  BY RunEffect
<1>2. \A i \in 1..Len(strand) : strand[i] \in Handlers
  BY ElementOfSeq DEF TypeOK
<1>3. ASSUME NEW i \in 1..Len(strand'), strand'[i].run = "ping"
      PROVE  strand'[i].arg \in 1..generation' /\ ops'[strand'[i].arg]["ping"] \in Ended
  <2>1. i + 1 \in 1..Len(strand) /\ strand'[i] = strand[i + 1] /\ i + 1 # 1
    BY <1>1
  <2>2. strand[i + 1].arg \in 1..generation /\ ops[strand[i + 1].arg]["ping"] \in Ended
    BY <1>3, <2>1 DEF PingsPosted
  <2>3. generation \in Nat
    BY LenProperties DEF generation, TypeOK, OpsTable
  <2>4. CASE name # "ping"
    BY <2>1, <2>2, <2>3, <2>4 DEF EndedKept
  <2>5. CASE name = "ping"
    <3>1. strand[i + 1] # strand[1]
      BY <1>1, <1>3, <2>1 DEF PingsPosted
    <3>2. strand[1] \in Handlers /\ strand[i + 1] \in Handlers
      BY <1>1, <1>2, <2>1
    <3>3. strand[i + 1].arg # g
      BY <1>1, <1>3, <2>1, <2>5, <3>1, <3>2 DEF Handlers, Posts, Kinds, Stages
    <3> QED BY <2>1, <2>2, <3>3 DEF EndedKept
  <2> QED BY <2>4, <2>5
<1>4. ASSUME NEW i \in 1..Len(strand'), NEW j \in 1..Len(strand'),
             strand'[i].run = "ping", strand'[j] = strand'[i]
      PROVE  i = j
  <2>1. i + 1 = j + 1
    BY <1>1, <1>4 DEF PingsPosted
  <2> QED BY <2>1
<1> QED
  BY <1>3, <1>4 DEF PingsPosted

LEMMA PostedAppend ==
  ASSUME TypeOK, PingsPosted, NEW h \in Handlers, strand' = Append(strand, h), EndedKept(0),
         h.run = "ping" =>
           /\ h.arg \in 1..generation
           /\ ops[h.arg]["ping"] \notin Ended /\ ops'[h.arg]["ping"] \in Ended
  PROVE  PingsPosted'
<1>1. /\ Len(strand) \in Nat /\ Len(strand') = Len(strand) + 1 /\ strand'[Len(strand) + 1] = h
      /\ \A i \in 1..Len(strand) : strand'[i] = strand[i]
      /\ generation \in Nat
  BY LenProperties DEF TypeOK, generation, OpsTable
<1>2. ASSUME NEW i \in 1..Len(strand), strand[i].run = "ping"
      PROVE  strand[i].arg \in 1..generation' /\ ops'[strand[i].arg]["ping"] \in Ended /\ strand[i] # h
  BY <1>1, <1>2 DEF PingsPosted, EndedKept
<1>3. h.run = "ping" => h.arg \in 1..generation'
  BY DEF EndedKept
<1>4. ASSUME NEW i \in 1..Len(strand'), strand'[i].run = "ping"
      PROVE  strand'[i].arg \in 1..generation' /\ ops'[strand'[i].arg]["ping"] \in Ended
  <2>1. i \in 1..Len(strand) \/ i = Len(strand) + 1
    BY <1>1
  <2> QED BY <1>1, <1>2, <1>3, <1>4, <2>1
<1>5. ASSUME NEW i \in 1..Len(strand'), NEW j \in 1..Len(strand'),
             strand'[i].run = "ping", strand'[j] = strand'[i]
      PROVE  i = j
  <2>1. (i \in 1..Len(strand) \/ i = Len(strand) + 1) /\ (j \in 1..Len(strand) \/ j = Len(strand) + 1)
    BY <1>1
  <2>2. CASE i \in 1..Len(strand) /\ j \in 1..Len(strand)
    BY <1>1, <1>5, <2>2 DEF PingsPosted
  <2> QED BY <1>1, <1>2, <1>5, <2>1, <2>2
<1> QED
  BY <1>4, <1>5 DEF PingsPosted

\* A step that leaves the strand.
LEMMA PostedSame ==
  ASSUME TypeOK, PingsPosted, strand' = strand, EndedKept(0)
  PROVE  PingsPosted'
<1>1. generation \in Nat
  BY LenProperties DEF TypeOK, generation, OpsTable
<1>2. ASSUME NEW i \in 1..Len(strand), strand[i].run = "ping"
      PROVE  strand[i].arg \in 1..generation' /\ ops'[strand[i].arg]["ping"] \in Ended
  BY <1>1, <1>2 DEF PingsPosted, EndedKept
<1> QED
  BY <1>2 DEF PingsPosted

\* EndedKept of what the handlers do to the table.
LEMMA KeptPump ==
  ASSUME TypeOK, NEW o \in OpsTable, Len(o) = generation, NEW g,
         \A h \in 1..generation : h # g /\ ops[h]["ping"] \in Ended => o[h]["ping"] \in Ended,
         OnlyWriteStarted(o)
  PROVE  EndedKept(g)
BY DEF EndedKept, OnlyWriteStarted, Kinds, generation

LEMMA KeptError ==
  ASSUME TypeOK, NEW o \in OpsTable, Len(o) = generation, NEW g,
         \A h \in 1..generation : h # g /\ ops[h]["ping"] \in Ended => o[h]["ping"] \in Ended,
         NEW busy, HandleError(o, busy)
  PROVE  EndedKept(g)
<1>0. {"ping", "reconnect"} \subseteq Kinds
  BY DEF Kinds
<1>1. CASE reconnectScheduled \/ userClosed
  BY <1>1 DEF HandleError, EndedKept, generation
<1>2. CASE ~(reconnectScheduled \/ userClosed)
  <2> DEFINE quiet == Cancel(o, {"ping"})
  <2>1. ops' = Start(quiet, "reconnect")
    BY <1>2 DEF HandleError
  <2>2. /\ quiet \in OpsTable /\ Len(quiet) = Len(o)
        /\ \A h \in 1..Len(o) : o[h]["ping"] \in Ended => quiet[h]["ping"] \in Ended
    <3>1. /\ quiet \in OpsTable /\ Len(quiet) = Len(o)
          /\ \A h \in 1..Len(o), j \in Kinds :
               quiet[h][j] = IF j \in {"ping"} /\ o[h][j] = "inflight" THEN "cancelled" ELSE o[h][j]
      BY CancelOps
    <3> HIDE DEF quiet
    <3> QED BY <1>0, <3>1 DEF Ended
  <2> HIDE DEF quiet
  <2>3. /\ Len(ops') = Len(quiet)
        /\ \A h \in 1..Len(quiet) : ops'[h]["ping"] = quiet[h]["ping"]
    BY <1>0, <2>1, <2>2, StartOps
  <2> QED BY <2>2, <2>3 DEF EndedKept, generation
<1> QED
  BY <1>1, <1>2

LEMMA PostCallers ==
  ASSUME SessionInv, PostInv, NEW c \in Callers, Call(c) \/ Post(c)
  PROVE  PostInv'
<1>0. TypeOK /\ PingsPosted /\ {"ping"} \subseteq Kinds
  BY DEF SessionInv, PostInv, Kinds
<1>1. UNCHANGED <<ops, stream, userClosed>>
  <2>1. UNCHANGED strandVars
    BY DEF Call, Close, Subscribe, Unsubscribe, Post
  <2> QED BY <2>1 DEF strandVars, linkVars
<1>2. EndedKept(0) /\ ClosingIsClosed'
  BY <1>1 DEF EndedKept, generation, PostInv, ClosingIsClosed
<1>3. CASE Call(c)
  <2>1. strand' = strand
    BY <1>3 DEF Call, Close, Subscribe, Unsubscribe
  <2> QED BY <1>0, <1>2, <2>1, PostedSame DEF PostInv
<1>4. CASE Post(c)
  <2>1. caller[c] \in Handlers /\ caller[c].run # "ping" /\ strand' = Append(strand, caller[c])
    <3>1. caller[c] \in Posts
      BY <1>0, <1>4 DEF Post, TypeOK
    <3> QED BY <1>4, <3>1 DEF Post, Handlers, Posts
  <2> QED BY <1>0, <1>2, <2>1, PostedAppend DEF PostInv
<1> QED
  BY <1>3, <1>4

LEMMA PostPosted ==
  ASSUME SessionInv, PostInv, RunPosted
  PROVE  PostInv'
<1>0. /\ TypeOK /\ PingsPosted /\ "ping" \in Kinds /\ ops \in OpsTable /\ generation \in Nat
      /\ writeInFlight \in BOOLEAN /\ outboundQueue \in Seq(Messages) /\ Len(ops) = generation
  BY LenProperties DEF SessionInv, PostInv, Kinds, TypeOK, OpsTable, generation
<1>s. ASSUME ops' = ops \/ OnlyWriteStarted(ops)
      PROVE  EndedKept(0)
  BY <1>0, <1>s, KeptPump DEF EndedKept, generation
<1>r. ASSUME NEW name, name # "ping", Run(name), EndedKept(0) PROVE PingsPosted'
  BY <1>0, <1>r, PostedRun
<1>1. CASE RunStartConnect
  <2>1. Run("startConnect") /\ StartConnect(ops) /\ userClosed' = userClosed
    BY <1>1 DEF RunStartConnect
  <2>2. EndedKept(0) /\ ClosingIsClosed'
    <3>1. CASE userClosed
      BY <1>s, <2>1, <3>1 DEF StartConnect, ClosingIsClosed
    <3>2. CASE ~userClosed
      <4>1. ops' = Append(ops, NewGeneration) /\ stream' = "idle"
        BY <2>1, <3>2 DEF StartConnect
      <4>2. Len(ops') = Len(ops) + 1 /\ \A h \in 1..Len(ops) : ops'[h] = ops[h]
        BY <1>0, <4>1 DEF OpsTable
      <4>3. EndedKept(0)
        BY <1>0, <4>2 DEF EndedKept, generation
      <4> QED BY <4>1, <4>3 DEF ClosingIsClosed
    <3> QED BY <3>1, <3>2
  <2> QED BY <1>r, <2>1, <2>2 DEF PostInv
<1>2. CASE RunFlushTopics
  <2>1. Run("flushTopics") /\ FlushTopics(ops, connected) /\ UNCHANGED <<userClosed, stream>>
    BY <1>2 DEF RunFlushTopics, linkVars
  <2>2. EndedKept(0) /\ ClosingIsClosed'
    BY <1>0, <1>s, <2>1, FlushEffect DEF PostInv, ClosingIsClosed
  <2> QED BY <1>r, <2>1, <2>2 DEF PostInv
<1>3. CASE RunUnsubscribe
  <2>1. Run("unsubscribe") /\ SendUnsubscribe /\ UNCHANGED <<userClosed, stream>>
    BY <1>3 DEF RunUnsubscribe, linkVars
  <2>2. ops' = ops \/ OnlyWriteStarted(ops)
    <3>1. CASE connected
      <4>1. Head(strand) \in Handlers /\ Head(strand).run = "unsubscribe"
        BY <1>0, <2>1, RunEffect
      <4>2. UnsubscribeMsg \in Messages
        BY <4>1 DEF UnsubscribeMsg, Messages, Handlers, Posts, Kinds, Stages
      <4>3. Append(outboundQueue, UnsubscribeMsg) \in Seq(Messages)
        BY <1>0, <4>2, AppendProperties
      <4> QED BY <1>0, <2>1, <3>1, <4>3, PumpEffect DEF SendUnsubscribe
    <3> QED BY <2>1, <3>1 DEF SendUnsubscribe
  <2>3. ClosingIsClosed'
    BY <2>1 DEF PostInv, ClosingIsClosed
  <2> QED BY <1>r, <1>s, <2>1, <2>2, <2>3 DEF PostInv
<1>4. CASE RunCloseByUser
  <2>1. /\ Run("closeByUser") /\ userClosed'
        /\ ops' = ops \/ ops' = Cancel(ops, {"ping", "reconnect", "resolve"})
    BY <1>4 DEF RunCloseByUser
  <2>2. /\ Len(Cancel(ops, {"ping", "reconnect", "resolve"})) = Len(ops)
        /\ \A h \in 1..Len(ops) :
             ops[h]["ping"] \in Ended =>
               Cancel(ops, {"ping", "reconnect", "resolve"})[h]["ping"] \in Ended
    BY <1>0, CancelOps DEF Ended
  <2>3. EndedKept(0)
    BY <2>1, <2>2 DEF EndedKept, generation
  <2> QED BY <1>r, <2>1, <2>3 DEF PostInv, ClosingIsClosed
<1> QED
  BY <1>1, <1>2, <1>3, <1>4 DEF RunPosted

LEMMA StartOther ==
  ASSUME NEW o \in OpsTable, NEW k \in Kinds \ {"ping"}
  PROVE  /\ Start(o, k) \in OpsTable /\ Len(Start(o, k)) = Len(o)
         /\ \A h \in 1..Len(o) : Start(o, k)[h]["ping"] = o[h]["ping"]
<1>1. "ping" \in Kinds /\ k # "ping"
  BY DEF Kinds
<1> QED
  BY <1>1, StartOps

LEMMA PostCompletion ==
  ASSUME SessionInv, PostInv, RunCompletion
  PROVE  PostInv'
<1>0. /\ TypeOK /\ PingsPosted /\ ops \in OpsTable /\ generation \in Nat
      /\ writeInFlight \in BOOLEAN /\ outboundQueue \in Seq(Messages) /\ Len(ops) = generation
      /\ Stages \cup {"read", "write", "reconnect"} \subseteq Kinds \ {"ping"} /\ "ping" \in Kinds
      /\ "handshake" \in Stages
  BY LenProperties DEF SessionInv, PostInv, Kinds, Stages, TypeOK, OpsTable, generation
<1>c. ASSUME NEW k \in Kinds \ {"ping"}, Completed(k)
      PROVE  /\ Finished(k, generation) \in OpsTable /\ Len(Finished(k, generation)) = generation
             /\ \A h \in 1..generation :
                  ops[h]["ping"] \in Ended => Finished(k, generation)[h]["ping"] \in Ended
  BY <1>0, <1>c, CompletedEffect
<1>r. ASSUME NEW k \in Kinds \ {"ping"}, Completed(k), EndedKept(0) PROVE PingsPosted'
  BY <1>0, <1>r, PostedRun DEF Completed
<1>s. ASSUME UNCHANGED <<userClosed, stream>> \/ stream' \in {"idle", "connecting"}
      PROVE  ClosingIsClosed'
  BY <1>s DEF PostInv, ClosingIsClosed
<1>e. ASSUME NEW o, NEW busy, HandleError(o, busy) PROVE ClosingIsClosed'
  <2>1. userClosed' = userClosed /\ stream' \in {stream, SocketClosed}
    BY <1>e DEF HandleError, linkVars
  <2> QED BY <2>1 DEF PostInv, ClosingIsClosed, SocketClosed
<1>f. ASSUME NEW k \in Kinds \ {"ping"}, Completed(k), NEW busy, HandleError(Finished(k, generation), busy)
      PROVE  PostInv'
  <2> DEFINE o == Finished(k, generation)
  <2>1. /\ o \in OpsTable /\ Len(o) = generation
        /\ \A h \in 1..generation : ops[h]["ping"] \in Ended => o[h]["ping"] \in Ended
    BY <1>c, <1>f
  <2>2. HandleError(o, busy)
    BY <1>f
  <2> HIDE DEF o
  <2>3. EndedKept(0)
    BY <1>0, <2>1, <2>2, KeptError
  <2> QED BY <1>r, <1>e, <1>f, <2>3 DEF PostInv
<1>1. ASSUME NEW k \in Stages, NEW next \in Stages, AfterStage(k, next) PROVE PostInv'
  <2> DEFINE o == Finished(k, generation)
  <2>1. Completed(k) /\ k \in Kinds \ {"ping"}
    BY <1>0, <1>1 DEF AfterStage
  <2>2. CASE HandleError(o, writeInFlight)
    BY <1>f, <2>1, <2>2
  <2>3. CASE NextStage(k, next)
    <3>1. ops' = Start(o, next) /\ ClosingIsClosed'
      BY <1>s, <2>3 DEF NextStage, linkVars
    <3>2. /\ o \in OpsTable /\ Len(o) = generation /\ next \in Kinds \ {"ping"}
          /\ \A h \in 1..generation : ops[h]["ping"] \in Ended => o[h]["ping"] \in Ended
      BY <1>0, <1>c, <2>1
    <3> HIDE DEF o
    <3>3. Len(ops') = Len(o) /\ \A h \in 1..Len(o) : ops'[h]["ping"] = o[h]["ping"]
      BY <3>1, <3>2, StartOther
    <3>4. EndedKept(0)
      BY <3>2, <3>3 DEF EndedKept, generation
    <3> QED BY <1>r, <2>1, <3>1, <3>4 DEF PostInv
  <2> QED BY <1>1, <2>2, <2>3 DEF AfterStage, StageGivesUp
<1>2. CASE OnResolve \/ OnConnect \/ OnSSLHandshake
  BY <1>1, <1>2 DEF OnResolve, OnConnect, OnSSLHandshake, Stages
<1>3. CASE OnHandshake
  <2> DEFINE o == Finished("handshake", generation)
  <2>1. Completed("handshake") /\ "handshake" \in Kinds \ {"ping"}
    BY <1>0, <1>3 DEF OnHandshake
  <2>2. /\ o \in OpsTable /\ Len(o) = generation
        /\ \A h \in 1..generation : ops[h]["ping"] \in Ended => o[h]["ping"] \in Ended
    BY <1>c, <2>1
  <2>3. CASE HandleError(o, writeInFlight)
    BY <1>f, <2>1, <2>3
  <2>4. CASE ops' = o /\ UNCHANGED connVars
    <3> HIDE DEF o
    <3>1. EndedKept(0) /\ ClosingIsClosed'
      BY <1>s, <2>2, <2>4 DEF EndedKept, generation, connVars, linkVars
    <3> QED BY <1>r, <2>1, <3>1 DEF PostInv
  <2>5. CASE Connected(o)
    <3> DEFINE quiet == Cancel(o, {"ping"})
               timed == Start(quiet, "ping")
               armed == Start(timed, "read")
    <3>1. FlushTopics(armed, TRUE) /\ ClosingIsClosed'
      BY <1>s, <2>5 DEF Connected
    <3>2. generation \in Nat \ {0} /\ Op("ping") = "idle"
      <4>1. generation \in Nat \ {0} /\ Op("handshake") \in Ended
        BY <1>0, <2>1, CompletedEffect
      <4>2. Op("handshake") # "idle" /\ "ping" \in Kinds \ {"handshake"}
        BY <1>0, <4>1 DEF Ended
      <4> QED BY <1>0, <4>1, <4>2 DEF SessionInv, LoopInv, OneAttemptAtATime
    <3>n. ops[generation]["ping"] \notin Ended
      BY <3>2 DEF Op, Ended
    <3> HIDE DEF o
    <3>3. /\ quiet \in OpsTable /\ Len(quiet) = generation
          /\ \A h \in 1..generation : o[h]["ping"] \in Ended => quiet[h]["ping"] \in Ended
      <4>1. /\ quiet \in OpsTable /\ Len(quiet) = Len(o)
            /\ \A h \in 1..Len(o), j \in Kinds :
                 quiet[h][j] = IF j \in {"ping"} /\ o[h][j] = "inflight" THEN "cancelled" ELSE o[h][j]
        BY <2>2, CancelOps
      <4> HIDE DEF quiet
      <4> QED BY <1>0, <2>2, <4>1 DEF Ended
    <3> HIDE DEF quiet
    <3>4. /\ timed \in OpsTable /\ Len(timed) = generation
          /\ \A h \in 1..generation : h # generation => timed[h]["ping"] = quiet[h]["ping"]
      BY <1>0, <3>2, <3>3, StartedNow
    <3> HIDE DEF timed
    <3>5. /\ armed \in OpsTable /\ Len(armed) = generation
          /\ \A h \in 1..generation : armed[h]["ping"] = timed[h]["ping"]
      BY <1>0, <3>4, StartOther
    <3> HIDE DEF armed
    <3>6. \A h \in 1..generation : ops[h]["ping"] \in Ended => armed[h]["ping"] \in Ended
      BY <2>2, <3>n, <3>3, <3>4, <3>5
    <3>7. EndedKept(0)
      BY <1>0, <3>1, <3>5, <3>6, FlushEffect, KeptPump
    <3> QED BY <1>r, <2>1, <3>1, <3>7 DEF PostInv
  <2> QED BY <1>3, <2>3, <2>4, <2>5 DEF OnHandshake, Accept
<1>4. CASE OnRead
  <2> DEFINE o == Finished("read", generation)
  <2>1. Completed("read") /\ "read" \in Kinds \ {"ping"}
    BY <1>0, <1>4 DEF OnRead
  <2>2. CASE HandleError(o, writeInFlight)
    BY <1>f, <2>1, <2>2
  <2>3. CASE (ops' = o \/ ops' = Start(o, "read")) /\ UNCHANGED connVars
    <3>1. /\ o \in OpsTable /\ Len(o) = generation
          /\ \A h \in 1..generation : ops[h]["ping"] \in Ended => o[h]["ping"] \in Ended
      BY <1>c, <2>1
    <3> HIDE DEF o
    <3>2. Len(ops') = Len(o) /\ \A h \in 1..Len(o) : ops'[h]["ping"] = o[h]["ping"]
      BY <1>0, <2>3, <3>1, StartOther
    <3>3. EndedKept(0) /\ ClosingIsClosed'
      BY <1>s, <2>3, <3>1, <3>2 DEF EndedKept, generation, connVars, linkVars
    <3> QED BY <1>r, <2>1, <3>3 DEF PostInv
  <2> QED BY <1>4, <2>2, <2>3 DEF OnRead
<1>5. CASE OnWrite
  <2> DEFINE o == Finished("write", generation)
  <2>1. Completed("write") /\ "write" \in Kinds \ {"ping"}
    BY <1>0, <1>5 DEF OnWrite
  <2>2. CASE HandleError(o, FALSE)
    BY <1>f, <2>1, <2>2
  <2>3. CASE Pump(o, outboundQueue, FALSE, connected) /\ UNCHANGED <<userClosed, stream>>
    <3>1. /\ o \in OpsTable /\ Len(o) = generation
          /\ \A h \in 1..generation : ops[h]["ping"] \in Ended => o[h]["ping"] \in Ended
      BY <1>c, <2>1
    <3> HIDE DEF o
    <3>2. OnlyWriteStarted(o)
      <4>1. PICK busy \in BOOLEAN : Pump(o, outboundQueue, busy, connected)
        BY <2>3
      <4> QED BY <1>0, <3>1, <4>1, PumpEffect
    <3>3. EndedKept(0) /\ ClosingIsClosed'
      BY <1>0, <1>s, <2>3, <3>1, <3>2, KeptPump
    <3> QED BY <1>r, <2>1, <3>3 DEF PostInv
  <2> QED BY <1>5, <2>2, <2>3 DEF OnWrite, linkVars
<1>6. CASE OnPingTimer
  <2> DEFINE o == Finished("ping", generation)
             n == IF stream = "open" THEN 0 ELSE quietPings + 1
  <2>1. Completed("ping") /\ Run("ping") /\ Head(strand).arg = generation
    BY <1>6 DEF OnPingTimer, Completed
  <2>2. /\ o \in OpsTable /\ Len(o) = generation
        /\ \A h \in 1..generation : h # generation /\ ops[h]["ping"] \in Ended => o[h]["ping"] \in Ended
    BY <1>0, <2>1, CompletedEffect
  <2>3. /\ Start(o, "ping") \in OpsTable /\ Len(Start(o, "ping")) = generation
        /\ \A h \in 1..generation : h # generation /\ ops[h]["ping"] \in Ended =>
             Start(o, "ping")[h]["ping"] \in Ended
    <3>1. generation > 0
      BY <1>0, <2>1, CompletedEffect
    <3> HIDE DEF o
    <3>2. /\ Start(o, "ping") \in OpsTable /\ Len(Start(o, "ping")) = generation
          /\ \A h \in 1..generation, j \in Kinds : h # generation => Start(o, "ping")[h][j] = o[h][j]
      BY <1>0, <2>2, <3>1, StartedNow
    <3> QED BY <1>0, <2>2, <3>2
  <2>4. ASSUME EndedKept(generation) PROVE PingsPosted'
    BY <1>0, <2>1, <2>4, PostedRun
  <2>5. CASE HandleError(o, writeInFlight)
    <3>1. EndedKept(generation)
      <4> HIDE DEF o
      <4> QED BY <1>0, <2>2, <2>5, KeptError
    <3> QED BY <1>e, <2>4, <2>5, <3>1 DEF PostInv
  <2>6. CASE (ops' = o \/ ops' = Start(o, "ping")) /\ UNCHANGED <<userClosed, stream>>
    <3> HIDE DEF o
    <3>1. EndedKept(generation) /\ ClosingIsClosed'
      BY <1>s, <2>2, <2>3, <2>6 DEF EndedKept, generation
    <3> QED BY <2>4, <3>1 DEF PostInv
  <2>7. CASE PingRound(o, n)
    <3> DEFINE started == Start(o, "ping")
               queue == Append(outboundQueue, Ping)
    <3>1. Pump(started, queue, writeInFlight, connected) /\ UNCHANGED <<userClosed, stream>>
      BY <2>7 DEF PingRound, linkVars
    <3>2. queue \in Seq(Messages)
      BY <1>0, AppendProperties DEF Ping, Messages
    <3>3. /\ started \in OpsTable /\ Len(started) = generation
          /\ \A h \in 1..generation : h # generation /\ ops[h]["ping"] \in Ended =>
               started[h]["ping"] \in Ended
      BY <2>3
    <3> HIDE DEF o, n, started, queue
    <3>4. OnlyWriteStarted(started)
      BY <1>0, <3>1, <3>2, <3>3, PumpEffect
    <3>5. EndedKept(generation)
      BY <1>0, <3>3, <3>4, KeptPump
    <3> QED BY <1>s, <2>4, <3>1, <3>5 DEF PostInv
  <2> QED BY <1>6, <2>5, <2>6, <2>7 DEF OnPingTimer, PeerSilent, connVars, linkVars
<1>7. CASE OnReconnectTimer
  <2> DEFINE o == Finished("reconnect", generation)
  <2>1. Completed("reconnect") /\ "reconnect" \in Kinds \ {"ping"} /\ userClosed' = userClosed
    BY <1>0, <1>7 DEF OnReconnectTimer
  <2>2. /\ o \in OpsTable /\ Len(o) = generation
        /\ \A h \in 1..generation : ops[h]["ping"] \in Ended => o[h]["ping"] \in Ended
    BY <1>c, <2>1
  <2>3. \/ ops' = o /\ stream' = stream
        \/ ops' = Append(o, NewGeneration) /\ stream' = "idle"
    BY <1>7 DEF OnReconnectTimer, StartConnect
  <2> HIDE DEF o
  <2>4. generation' >= generation /\ generation' \in Nat /\ \A h \in 1..generation : ops'[h] = o[h]
    <3>1. CASE ops' = Append(o, NewGeneration)
      BY <1>0, <2>2, <3>1 DEF OpsTable, generation
    <3>2. CASE ops' = o
      BY <1>0, <2>2, <3>2 DEF generation
    <3> QED BY <2>3, <3>1, <3>2
  <2>5. EndedKept(0)
    BY <1>0, <2>2, <2>4 DEF EndedKept
  <2>6. ClosingIsClosed'
    BY <1>s, <2>1, <2>3
  <2> QED BY <1>r, <2>1, <2>5, <2>6 DEF PostInv
<1>8. ASSUME NEW g \in 1..generation, NEW k \in Kinds, DropStale(k, g) PROVE PostInv'
  <2>1. /\ Run(k) /\ Head(strand).arg = g /\ ops' = Finished(k, g) /\ UNCHANGED <<userClosed, stream>>
    BY <1>8 DEF DropStale, connVars, linkVars
  <2>2. /\ generation' = generation
        /\ \A h \in 1..generation, j \in Kinds : ops'[h][j] = IF h = g /\ j = k THEN "idle" ELSE ops[h][j]
    BY <1>0, <2>1, FinishedOps DEF generation
  <2>3. EndedKept(g) /\ (k # "ping" => EndedKept(0))
    BY <1>0, <2>2 DEF EndedKept
  <2> QED BY <1>0, <1>s, <2>1, <2>3, PostedRun DEF PostInv
<1> QED
  BY <1>2, <1>3, <1>4, <1>5, <1>6, <1>7, <1>8 DEF RunCompletion

LEMMA PostEnvironment ==
  ASSUME SessionInv, PostInv, Environment
  PROVE  PostInv'
<1>0. /\ TypeOK /\ PingsPosted /\ generation \in Nat
      /\ Stages \cup {"read", "write", "ping", "reconnect"} \subseteq Kinds
      /\ {"ok", "bad", "failed"} \subseteq Ended
      /\ (generation > 0 => generation \in 1..generation)
  BY LenProperties DEF SessionInv, PostInv, Kinds, Stages, Ended, TypeOK, OpsTable, generation
<1>c. ASSUME NEW k \in Kinds, NEW g \in 1..generation, NEW status \in Ended, Complete(k, g, status)
      PROVE  PingsPosted'
  <2>1. /\ strand' = Append(strand, Handler(k, g)) /\ Len(ops') = generation
        /\ ops[g][k] = "inflight" \/ (ops[g][k] = "cancelled" /\ status = "failed")
        /\ \A h \in 1..generation, j \in Kinds :
             ops'[h][j] = IF h = g /\ j = k THEN status ELSE ops[h][j]
    BY <1>0, <1>c, CompleteEffect
  <2>2. /\ Handler(k, g) \in Handlers
        /\ Handler(k, g).run = "ping" => k = "ping" /\ Handler(k, g).arg = g
    BY <1>0, <1>c DEF Handler, Handlers
  <2>3. EndedKept(0)
    BY <1>0, <2>1 DEF EndedKept, generation
  <2>4. k = "ping" => ops[g]["ping"] \notin Ended /\ ops'[g]["ping"] \in Ended
    BY <1>0, <1>c, <2>1 DEF Ended
  <2> QED BY <1>0, <2>1, <2>2, <2>3, <2>4, PostedAppend
<1>s. ASSUME UNCHANGED userClosed, stream' = "closing" => stream = "closing"
      PROVE  ClosingIsClosed'
  BY <1>s DEF PostInv, ClosingIsClosed
<1>u. ASSUME NEW k, NEW g, NEW status, Complete(k, g, status) PROVE UNCHANGED userClosed
  BY <1>u DEF Complete, sessionVars, linkVars
<1>1. ASSUME NEW k \in Stages, StageSucceeds(k) \/ StageFails(k) PROVE PostInv'
  BY <1>0, <1>1, <1>c, <1>s, <1>u DEF StageSucceeds, StageFails, PostInv
<1>2. CASE WriteSucceeds \/ ReconnectTimerExpires
  BY <1>0, <1>2, <1>c, <1>s, <1>u DEF WriteSucceeds, ReconnectTimerExpires, PostInv
<1>3. ASSUME NEW g \in 1..generation, NEW k \in {"read", "write"}, TransferFails(k, g) PROVE PostInv'
  BY <1>0, <1>3, <1>c, <1>s, <1>u DEF TransferFails, PostInv
<1>4. ASSUME NEW g \in 1..generation,
             PingTimerExpires(g) \/ WaitAborted("ping", g) \/ WaitAborted("reconnect", g)
      PROVE  PostInv'
  BY <1>0, <1>4, <1>c, <1>s, <1>u DEF PingTimerExpires, WaitAborted, PostInv
<1>5. ASSUME NEW status \in {"ok", "bad"}, MessageArrives(status) PROVE PostInv'
  BY <1>0, <1>5, <1>c, <1>s, <1>u DEF MessageArrives, PostInv
<1>6. CASE ConnectionBreaks \/ PeerFallsSilent \/ CloseHandshakeEnds \/ ServerReceives
  <2>1. UNCHANGED <<strand, ops, userClosed>> /\ (stream' = "closing" => stream = "closing")
    BY <1>6
       DEF ConnectionBreaks, PeerFallsSilent, CloseHandshakeEnds, ServerReceives, sessionVars, linkVars
  <2>2. EndedKept(0)
    BY <2>1 DEF EndedKept, generation
  <2> QED BY <1>0, <1>s, <2>1, <2>2, PostedSame DEF PostInv
<1> QED
  BY <1>1, <1>2, <1>3, <1>4, <1>5, <1>6 DEF Environment, StageEnds, TransferEnds, TimerExpires

LEMMA PostInit == Init => PostInv
<1> SUFFICES ASSUME Init PROVE PostInv
  OBVIOUS
<1>1. Len(strand) = 1 /\ strand[1].run = "startConnect" /\ stream = "idle"
  BY DEF Init, Handler
<1>2. \A i \in 1..Len(strand) : strand[i].run # "ping"
  BY <1>1
<1> QED
  BY <1>1, <1>2 DEF PostInv, PingsPosted, ClosingIsClosed

LEMMA PostStep == SessionInv /\ PostInv /\ [Next]_vars => PostInv'
<1> SUFFICES ASSUME SessionInv, PostInv, [Next]_vars PROVE PostInv'
  OBVIOUS
<1>1. CASE UNCHANGED vars
  <2>1. UNCHANGED <<strand, ops, userClosed, stream>>
    BY <1>1 DEF vars, sessionVars, linkVars
  <2>2. EndedKept(0) /\ ClosingIsClosed'
    BY <2>1 DEF EndedKept, generation, PostInv, ClosingIsClosed
  <2> QED BY <2>1, <2>2, PostedSame DEF SessionInv, PostInv
<1> QED
  BY <1>1, PostCallers, PostPosted, PostCompletion, PostEnvironment DEF Next

-----------------------------------------------------------------------------
(* The backlog.                                                            *)

Backlog == NumPings(outboundQueue)
Live == connected /\ ~userClosed

\* A peer that is heard leaves room for the round that is due.
HealthyBacklog ==
  Live /\ stream = "open" =>
    Backlog <= MaxQueue /\ (Op("ping") = "ok" => Backlog < MaxQueue)

\* The read completion at place j of the strand came before the peer fell silent,
\* and so did the ping round due before it.
HeardBefore(j) ==
  strand[j] = Handler("read", generation) =>
    /\ Backlog <= MaxQueue
    /\ \A i \in 1..(j - 1) : strand[i] = Handler("ping", generation) => Backlog < MaxQueue

SilentBacklog ==
  Live /\ stream # "open" =>
    /\ Backlog <= MaxQueue + quietPings
    /\ Op("read") = "ok" => \A j \in 1..Len(strand) : HeardBefore(j)

QuietBound == connected => quietPings <= 3

BacklogInv == HealthyBacklog /\ SilentBacklog /\ QuietBound /\ PingBacklogBounded

\* The handlers of the strand that matter here keep their order.
ReadsKept ==
  \A j \in 1..Len(strand') : strand'[j] = Handler("read", generation) =>
    \E m \in 1..Len(strand) :
      /\ strand[m] = Handler("read", generation)
      /\ \A i \in 1..(j - 1) : strand'[i] = Handler("ping", generation) =>
           \E n \in 1..(m - 1) : strand[n] = Handler("ping", generation)

LEMMA ReadsRun ==
  ASSUME TypeOK, NEW name, Run(name)
  PROVE  ReadsKept
<1>1. /\ Len(strand) \in Nat /\ Len(strand) > 0 /\ Len(strand') = Len(strand) - 1
      /\ \A i \in 1..Len(strand') : strand'[i] = strand[i + 1] /\ i + 1 \in 1..Len(strand)
  BY RunEffect
<1> SUFFICES ASSUME NEW j \in 1..Len(strand'), strand'[j] = Handler("read", generation)
             PROVE  \E m \in 1..Len(strand) :
                      /\ strand[m] = Handler("read", generation)
                      /\ \A i \in 1..(j - 1) : strand'[i] = Handler("ping", generation) =>
                           \E n \in 1..(m - 1) : strand[n] = Handler("ping", generation)
  BY DEF ReadsKept
<1>2. j + 1 \in 1..Len(strand) /\ strand[j + 1] = Handler("read", generation)
  BY <1>1
<1>3. ASSUME NEW i \in 1..(j - 1), strand'[i] = Handler("ping", generation)
      PROVE  i + 1 \in 1..((j + 1) - 1) /\ strand[i + 1] = Handler("ping", generation)
  BY <1>1, <1>3
<1> QED
  BY <1>2, <1>3

LEMMA ReadsAppend ==
  ASSUME TypeOK, NEW h, strand' = Append(strand, h), h # Handler("read", generation)
  PROVE  ReadsKept
<1>1. /\ Len(strand) \in Nat /\ Len(strand') = Len(strand) + 1 /\ strand'[Len(strand) + 1] = h
      /\ \A i \in 1..Len(strand) : strand'[i] = strand[i]
  BY LenProperties DEF TypeOK
<1> SUFFICES ASSUME NEW j \in 1..Len(strand'), strand'[j] = Handler("read", generation)
             PROVE  \E m \in 1..Len(strand) :
                      /\ strand[m] = Handler("read", generation)
                      /\ \A i \in 1..(j - 1) : strand'[i] = Handler("ping", generation) =>
                           \E n \in 1..(m - 1) : strand[n] = Handler("ping", generation)
  BY DEF ReadsKept
<1>2. j \in 1..Len(strand) /\ strand[j] = Handler("read", generation)
  BY <1>1
<1>3. \A i \in 1..(j - 1) : strand'[i] = strand[i]
  BY <1>1, <1>2
<1> QED
  BY <1>2, <1>3

LEMMA ReadsSame ==
  ASSUME strand' = strand
  PROVE  ReadsKept
BY DEF ReadsKept

\* The numbers a step compares.
LEMMA BacklogNumbers ==
  ASSUME SessionInv
  PROVE  Backlog \in Nat /\ quietPings \in Nat /\ MaxQueue \in Nat
<1>1. outboundQueue \in Seq(Messages) /\ quietPings \in Nat
  BY DEF SessionInv, TypeOK
<1> QED
  BY <1>1, PingsType, SessionAssumption DEF Backlog

LEMMA BacklogNumbersNext ==
  ASSUME SessionInv'
  PROVE  Backlog' \in Nat /\ quietPings' \in Nat
<1>1. outboundQueue' \in Seq(Messages) /\ quietPings' \in Nat
  BY DEF SessionInv, TypeOK
<1>2. Backlog' = NumPings(outboundQueue')
  BY DEF Backlog, NumPings, PingsOf
<1> QED
  BY <1>1, <1>2, PingsType

\* PingBacklogBounded says of the queue what Backlog counts.
LEMMA BoundOfBacklog ==
  /\ PingBacklogBounded <=> Backlog <= MaxQueue + 3
  /\ PingBacklogBounded' <=> Backlog' <= MaxQueue + 3
BY DEF PingBacklogBounded, Backlog, NumPings, PingsOf

\* What suffices when a session is closed or down after the step.
LEMMA BacklogIdle ==
  ASSUME SessionInv, SessionInv', BacklogInv, ~Live', Backlog' <= Backlog,
         connected' => quietPings' <= 3
  PROVE  BacklogInv'
<1>1. Backlog \in Nat /\ MaxQueue \in Nat /\ Backlog' \in Nat
  BY BacklogNumbers, BacklogNumbersNext
<1>2. Backlog' <= MaxQueue + 3
  BY <1>1, BoundOfBacklog DEF BacklogInv
<1>3. HealthyBacklog' /\ SilentBacklog' /\ QuietBound'
  BY DEF HealthyBacklog, SilentBacklog, QuietBound
<1> QED
  BY <1>2, <1>3, BoundOfBacklog DEF BacklogInv

\* When the peer has just been heard.
LEMMA BacklogReset ==
  ASSUME SessionInv', Backlog' <= MaxQueue, quietPings' = 0,
         stream' = "open" /\ Op("ping")' = "ok" => Backlog' < MaxQueue,
         Op("read")' # "ok"
  PROVE  BacklogInv'
<1>1. MaxQueue \in Nat /\ Backlog' \in Nat
  BY BacklogNumbersNext, SessionAssumption
<1>2. HealthyBacklog'
  BY DEF HealthyBacklog
<1>3. SilentBacklog'
  BY <1>1 DEF SilentBacklog
<1>4. QuietBound' /\ Backlog' <= MaxQueue + 3
  BY <1>1 DEF QuietBound
<1> QED
  BY <1>2, <1>3, <1>4, BoundOfBacklog DEF BacklogInv

\* When no ping joins the queue and the peer stays heard or silent.
LEMMA BacklogKept ==
  ASSUME SessionInv, SessionInv', BacklogInv, generation' = generation,
         connected' => connected, userClosed => userClosed', quietPings' = quietPings,
         Backlog' <= Backlog,
         Live' => (stream' = "open" <=> stream = "open"),
         Live' /\ stream' = "open" /\ Op("ping")' = "ok" => Op("ping") = "ok" \/ Backlog < MaxQueue,
         Live' /\ stream' # "open" /\ Op("read")' = "ok" => Op("read") = "ok" /\ ReadsKept
  PROVE  BacklogInv'
<1>1. Backlog \in Nat /\ MaxQueue \in Nat /\ Backlog' \in Nat /\ quietPings \in Nat
  BY BacklogNumbers, BacklogNumbersNext
<1>2. Live' => Live
  BY DEF Live
<1>3. Backlog' <= MaxQueue + 3
  BY <1>1, BoundOfBacklog DEF BacklogInv
<1>4. HealthyBacklog'
  <2> SUFFICES ASSUME Live', stream' = "open"
               PROVE  Backlog' <= MaxQueue /\ (Op("ping")' = "ok" => Backlog' < MaxQueue)
    BY DEF HealthyBacklog
  <2>1. Backlog <= MaxQueue /\ (Op("ping") = "ok" => Backlog < MaxQueue)
    BY <1>2 DEF BacklogInv, HealthyBacklog
  <2> QED BY <1>1, <2>1
<1>5. SilentBacklog'
  <2> SUFFICES ASSUME Live', stream' # "open"
               PROVE  /\ Backlog' <= MaxQueue + quietPings'
                      /\ Op("read")' = "ok" => \A j \in 1..Len(strand') : HeardBefore(j)'
    BY DEF SilentBacklog
  <2>1. /\ Backlog <= MaxQueue + quietPings
        /\ Op("read") = "ok" => \A j \in 1..Len(strand) : HeardBefore(j)
    BY <1>2 DEF BacklogInv, SilentBacklog
  <2>2. ASSUME Op("read")' = "ok", NEW j \in 1..Len(strand'), strand'[j] = Handler("read", generation)
        PROVE  /\ Backlog' <= MaxQueue
               /\ \A i \in 1..(j - 1) : strand'[i] = Handler("ping", generation) => Backlog' < MaxQueue
    <3>1. PICK m \in 1..Len(strand) :
            /\ strand[m] = Handler("read", generation)
            /\ \A i \in 1..(j - 1) : strand'[i] = Handler("ping", generation) =>
                 \E n \in 1..(m - 1) : strand[n] = Handler("ping", generation)
      BY <2>2 DEF ReadsKept
    <3>2. /\ Backlog <= MaxQueue
          /\ \A n \in 1..(m - 1) : strand[n] = Handler("ping", generation) => Backlog < MaxQueue
      BY <2>1, <2>2, <3>1 DEF HeardBefore
    <3> QED BY <1>1, <3>1, <3>2
  <2>3. ASSUME Op("read")' = "ok", NEW j \in 1..Len(strand') PROVE HeardBefore(j)'
    BY <2>2, <2>3 DEF HeardBefore, Handler
  <2> QED BY <1>1, <2>1, <2>3
<1>6. QuietBound'
  BY DEF BacklogInv, QuietBound
<1> QED
  BY <1>3, <1>4, <1>5, <1>6, BoundOfBacklog DEF BacklogInv

\* The queue stays or is dropped.
LEMMA BacklogSame ==
  ASSUME SessionInv, outboundQueue' = outboundQueue \/ outboundQueue' = <<>>
  PROVE  Backlog' <= Backlog
<1>1. Backlog \in Nat
  BY BacklogNumbers
<1>2. outboundQueue' = outboundQueue => Backlog' = Backlog
  BY DEF Backlog, NumPings, PingsOf
<1>3. outboundQueue' = <<>> => Backlog' = 0
  <2>1. outboundQueue' = <<>> => Backlog' = NumPings(<<>>)
    BY DEF Backlog, NumPings, PingsOf
  <2> QED BY <2>1, PingsNone
<1> QED
  BY <1>1, <1>2, <1>3

\* The queue is pumped.
LEMMA BacklogPump ==
  ASSUME NEW queue \in Seq(Messages), NEW o, NEW busy, NEW up, Pump(o, queue, busy, up)
  PROVE  Backlog' <= NumPings(queue)
<1>1. NumPings(outboundQueue') <= NumPings(queue)
  BY PingsPump
<1>2. Backlog' = NumPings(outboundQueue')
  BY DEF Backlog, NumPings, PingsOf
<1> QED
  BY <1>1, <1>2

\* A flush adds no ping.
LEMMA BacklogFlush ==
  ASSUME SessionInv, NEW o, NEW up, FlushTopics(o, up)
  PROVE  Backlog' <= Backlog
<1>1. CASE up
  <2>1. PICK s \in Orderings(pendingTopics) :
          Pump(o, outboundQueue \o Subscribes(s), writeInFlight, TRUE)
    BY <1>1 DEF FlushTopics, FlushNow
  <2> DEFINE queue == outboundQueue \o Subscribes(s)
  <2>2. Subscribes(s) \in Seq(Messages) /\ outboundQueue \in Seq(Messages)
    BY SubscribesTyped DEF SessionInv, TypeOK
  <2>3. queue \in Seq(Messages) /\ NumPings(queue) = Backlog
    BY <2>2, ConcatProperties, PingsFlush DEF SessionInv, Backlog
  <2>4. Pump(o, queue, writeInFlight, TRUE)
    BY <2>1
  <2> HIDE DEF queue
  <2> QED BY <2>3, <2>4, BacklogPump
<1>2. CASE ~up
  <2>1. outboundQueue' = outboundQueue
    BY <1>2 DEF FlushTopics, FlushSkipped
  <2> QED BY <2>1, BacklogSame
<1> QED
  BY <1>1, <1>2

\* handleError() drops the queue, or the session is closed or down already.
LEMMA BacklogError ==
  ASSUME SessionInv, SessionInv', BacklogInv, NEW o, NEW busy, HandleError(o, busy),
         connected' => quietPings' <= 3
  PROVE  BacklogInv'
<1>1. outboundQueue' = outboundQueue \/ outboundQueue' = <<>>
  BY HandleErrorLink
<1>2. ~Live'
  BY HandleErrorLink DEF Live, SessionInv, LinkInv, NotBoth
<1> QED
  BY <1>1, <1>2, BacklogSame, BacklogIdle

-----------------------------------------------------------------------------
(* The steps.                                                              *)

LEMMA BacklogCallers ==
  ASSUME SessionInv, SessionInv', BacklogInv, NEW c \in Callers, Call(c) \/ Post(c)
  PROVE  BacklogInv'
<1>1. UNCHANGED <<ops, connected, userClosed, outboundQueue, quietPings, stream>>
  <2>1. UNCHANGED strandVars
    BY DEF Call, Close, Subscribe, Unsubscribe, Post
  <2> QED BY <2>1 DEF strandVars, linkVars
<1>2. ReadsKept
  <2>1. CASE Call(c)
    BY <2>1, ReadsSame DEF Call, Close, Subscribe, Unsubscribe
  <2>2. CASE Post(c)
    <3>1. caller[c] \in Posts /\ strand' = Append(strand, caller[c])
      BY <2>2 DEF SessionInv, TypeOK, Post
    <3>2. caller[c].run # "read" /\ Handler("read", generation).run = "read"
      BY <3>1 DEF Posts, Handler
    <3> QED BY <3>1, <3>2, ReadsAppend DEF SessionInv
  <2> QED BY <2>1, <2>2
<1>3. generation' = generation /\ Op("ping")' = Op("ping") /\ Op("read")' = Op("read")
  BY <1>1 DEF generation, Op
<1> QED
  BY <1>1, <1>2, <1>3, BacklogSame, BacklogKept

\* A handler that runs on the present operations.
LEMMA BacklogRun ==
  ASSUME SessionInv, SessionInv', BacklogInv, NEW name, Run(name),
         UNCHANGED <<connected, userClosed, quietPings, stream>>,
         generation' = generation, generation > 0 => Op("ping")' = Op("ping") /\ Op("read")' = Op("read"),
         Backlog' <= Backlog
  PROVE  BacklogInv'
<1>1. ReadsKept
  BY ReadsRun DEF SessionInv
<1>2. CASE Live
  <2>1. generation > 0
    BY <1>2 DEF Live, SessionInv, LinkInv, HeartbeatArmed
  <2> QED BY <1>1, <2>1, BacklogKept
<1>3. CASE ~Live
  <2>1. ~Live' /\ (connected' => quietPings' <= 3)
    BY <1>3 DEF Live, BacklogInv, QuietBound
  <2> QED BY <2>1, BacklogIdle
<1> QED
  BY <1>2, <1>3

LEMMA BacklogPosted ==
  ASSUME SessionInv, SessionInv', BacklogInv, RunPosted
  PROVE  BacklogInv'
<1>0. /\ ops \in OpsTable /\ generation \in Nat /\ Len(ops) = generation /\ outboundQueue \in Seq(Messages)
      /\ writeInFlight \in BOOLEAN /\ "ping" \in Kinds \ {"write"} /\ "read" \in Kinds \ {"write"}
      /\ TypeOK
  BY LenProperties DEF SessionInv, TypeOK, OpsTable, generation, Kinds
<1>o. ASSUME OnlyWriteStarted(ops) \/ ops' = ops
      PROVE  /\ generation' = generation
             /\ generation > 0 => Op("ping")' = Op("ping") /\ Op("read")' = Op("read")
  <2>1. CASE ops' = ops
    BY <2>1 DEF generation, Op
  <2>2. CASE OnlyWriteStarted(ops)
    BY <1>0, <2>2 DEF OnlyWriteStarted, generation, Op
  <2> QED BY <1>o, <2>1, <2>2
<1>1. CASE RunStartConnect
  <2>1. ~connected
    <3>1. 1 \in 1..Len(strand) /\ strand[1].run = "startConnect"
      BY <1>0, <1>1, RunEffect DEF RunStartConnect
    <3>2. generation = 0
      BY <1>0, <3>1 DEF SessionInv, LoopInv, StartFirst
    <3> QED BY <3>2 DEF SessionInv, LoopInv, NothingYet
  <2>2. ~connected' /\ outboundQueue' = outboundQueue
    BY <1>1, <2>1 DEF RunStartConnect, StartConnect
  <2> QED BY <2>2, BacklogSame, BacklogIdle DEF Live
<1>2. CASE RunFlushTopics
  <2>1. /\ Run("flushTopics") /\ FlushTopics(ops, connected)
        /\ UNCHANGED <<connected, userClosed, quietPings, stream>>
    BY <1>2 DEF RunFlushTopics, linkVars
  <2>2. OnlyWriteStarted(ops) \/ ops' = ops
    BY <1>0, <2>1, FlushEffect
  <2> QED BY <1>o, <2>1, <2>2, BacklogFlush, BacklogRun
<1>3. CASE RunUnsubscribe
  <2>1. /\ Run("unsubscribe") /\ SendUnsubscribe
        /\ UNCHANGED <<connected, userClosed, quietPings, stream>>
    BY <1>3 DEF RunUnsubscribe, linkVars
  <2>2. CASE connected
    <3> DEFINE queue == Append(outboundQueue, UnsubscribeMsg)
    <3>1. UnsubscribeMsg \in Messages /\ UnsubscribeMsg # Ping
      <4>1. Head(strand) \in Handlers /\ Head(strand).run = "unsubscribe"
        BY <1>0, <2>1, RunEffect
      <4>2. Head(strand).arg \in Topics
        BY <4>1 DEF Handlers, Posts, Kinds, Stages
      <4>3. UnsubscribeMsg.method = "unsubscribe" /\ Ping.method = "ping"
        BY DEF UnsubscribeMsg, Ping
      <4> QED BY <4>2, <4>3 DEF UnsubscribeMsg, Messages
    <3>2. queue \in Seq(Messages) /\ NumPings(queue) = Backlog
      BY <1>0, <3>1, AppendProperties, PingsAppend DEF Backlog
    <3>3. Pump(ops, queue, writeInFlight, connected)
      BY <2>1, <2>2 DEF SendUnsubscribe
    <3> HIDE DEF queue
    <3>4. OnlyWriteStarted(ops) /\ Backlog' <= Backlog
      BY <1>0, <3>2, <3>3, PumpEffect, BacklogPump
    <3> QED BY <1>o, <2>1, <3>4, BacklogRun
  <2>3. CASE ~connected
    <3>1. ops' = ops /\ outboundQueue' = outboundQueue
      BY <2>1, <2>3 DEF SendUnsubscribe
    <3> QED BY <1>o, <2>1, <3>1, BacklogSame, BacklogRun
  <2> QED BY <2>2, <2>3
<1>4. CASE RunCloseByUser
  <2>1. userClosed' /\ UNCHANGED <<outboundQueue, connected, quietPings>>
    BY <1>4 DEF RunCloseByUser
  <2>2. ~Live' /\ (connected' => quietPings' <= 3)
    BY <2>1 DEF Live, BacklogInv, QuietBound
  <2> QED BY <2>1, <2>2, BacklogSame, BacklogIdle
<1> QED
  BY <1>1, <1>2, <1>3, <1>4 DEF RunPosted

\* While a stage of the connect chain has ended, there is no connection.
LEMMA StageDown ==
  ASSUME SessionInv, generation > 0, NEW k \in Stages, Op(k) # "idle"
  PROVE  ~connected
BY DEF SessionInv, LoopInv, OneAttemptAtATime

LEMMA BacklogStage ==
  ASSUME SessionInv, SessionInv', BacklogInv, NEW k \in Stages, NEW next, AfterStage(k, next)
  PROVE  BacklogInv'
<1>1. ~connected
  <2>1. Completed(k) /\ k \in Kinds
    BY DEF AfterStage, Kinds
  <2>2. generation > 0 /\ Op(k) # "idle"
    BY <2>1, CompletedEffect DEF SessionInv, Ended
  <2> QED BY <2>2, StageDown
<1>2. ~connected' /\ (outboundQueue' = outboundQueue \/ outboundQueue' = <<>>)
  BY <1>1 DEF AfterStage, StageGivesUp, NextStage, HandleError, linkVars
<1> QED
  BY <1>2, BacklogSame, BacklogIdle DEF Live

\* A new connection starts with an empty queue.
LEMMA BacklogHandshake ==
  ASSUME SessionInv, SessionInv', BacklogInv, OnHandshake
  PROVE  BacklogInv'
<1> DEFINE o == Finished("handshake", generation)
<1>1. /\ "handshake" \in Stages /\ "handshake" \in Kinds /\ {"ping", "read"} \subseteq Kinds \ {"write"}
      /\ Completed("handshake") /\ TypeOK
  BY DEF Kinds, Stages, OnHandshake, SessionInv
<1>2. generation \in Nat \ {0} /\ Op("handshake") # "idle" /\ o \in OpsTable /\ Len(o) = generation
  BY <1>1, CompletedEffect DEF Ended
<1>3. ~connected /\ Backlog = 0 /\ MaxQueue \in Nat
  <2>1. ~connected
    BY <1>1, <1>2, StageDown
  <2>2. outboundQueue = <<>>
    BY <2>1 DEF SessionInv, LinkInv, QueueDiesWithConnection
  <2> QED BY <2>1, <2>2, PingsNone, SessionAssumption DEF Backlog
<1>4. CASE HandleError(o, writeInFlight) /\ UNCHANGED quietPings
  <2>1. ~connected' /\ (outboundQueue' = outboundQueue \/ outboundQueue' = <<>>)
    BY <1>3, <1>4, HandleErrorLink
  <2> QED BY <2>1, BacklogSame, BacklogIdle DEF Live
<1>5. CASE UNCHANGED connVars
  <2>1. ~connected' /\ outboundQueue' = outboundQueue
    BY <1>3, <1>5 DEF connVars, linkVars
  <2> QED BY <2>1, BacklogSame, BacklogIdle DEF Live
<1>6. CASE Connected(o)
  <2> DEFINE quiet == Cancel(o, {"ping"})
             timed == Start(quiet, "ping")
             armed == Start(timed, "read")
  <2>1. FlushTopics(armed, TRUE) /\ quietPings' = 0
    BY <1>6 DEF Connected
  <2> HIDE DEF o
  <2>2. quiet \in OpsTable /\ Len(quiet) = generation
    BY <1>2, CancelOps
  <2> HIDE DEF quiet
  <2>3. timed \in OpsTable /\ Len(timed) = generation /\ timed[generation]["ping"] = "inflight"
    <3>1. generation > 0 /\ "ping" \in Kinds
      BY <1>1, <1>2
    <3> QED BY <2>2, <3>1, StartedNow
  <2> HIDE DEF timed
  <2>4. /\ armed \in OpsTable /\ Len(armed) = generation
        /\ armed[generation]["ping"] = "inflight" /\ armed[generation]["read"] = "inflight"
    <3>1. generation > 0 /\ "read" # "ping" /\ {"ping", "read"} \subseteq Kinds
      BY <1>1, <1>2
    <3>2. /\ Start(timed, "read") \in OpsTable /\ Len(Start(timed, "read")) = generation
          /\ Start(timed, "read")[generation]["read"] = "inflight"
          /\ Start(timed, "read")[generation]["ping"] = timed[generation]["ping"]
      BY <2>3, <3>1, StartedNow
    <3> QED BY <2>3, <3>2
  <2> HIDE DEF armed
  <2>5. OnlyWriteStarted(armed) /\ generation \in 1..Len(armed)
    <3>1. armed \in OpsTable /\ FlushTopics(armed, TRUE)
      BY <2>1, <2>4
    <3>2. OnlyWriteStarted(armed)
      BY <1>1, <3>1, FlushEffect
    <3> QED BY <1>2, <2>4, <3>2
  <2>6. Op("ping")' = "inflight" /\ Op("read")' = "inflight"
    BY <1>1, <2>4, <2>5 DEF OnlyWriteStarted, generation, Op
  <2>7. Backlog' <= 0
    BY <1>3, <2>1, BacklogFlush
  <2>8. Backlog' <= MaxQueue
    BY <1>3, <2>7, BacklogNumbersNext
  <2> QED BY <2>1, <2>6, <2>8, BacklogReset
<1> QED
  BY <1>4, <1>5, <1>6 DEF OnHandshake, Accept

\* A message from the peer: a read that came before it fell silent finds at most
\* what the queue held then.
LEMMA BacklogRead ==
  ASSUME SessionInv, SessionInv', BacklogInv, OnRead
  PROVE  BacklogInv'
<1> DEFINE o == Finished("read", generation)
<1>1. Completed("read") /\ {"ping", "read"} \subseteq Kinds /\ TypeOK
  BY DEF Kinds, OnRead, SessionInv
<1>2. /\ generation \in Nat \ {0} /\ o \in OpsTable /\ Len(o) = generation
      /\ \A j \in Kinds : o[generation][j] = IF j = "read" THEN "idle" ELSE Op(j)
  BY <1>1, CompletedEffect DEF Op
<1>3. connected' => connected /\ quietPings' <= 3
  <2>1. connected' => connected
    BY DEF OnRead, HandleError, connVars, linkVars
  <2> QED BY <2>1 DEF OnRead, BacklogInv, QuietBound
<1>4. CASE HandleError(o, writeInFlight)
  BY <1>3, <1>4, BacklogError
<1>5. CASE /\ Op("read") = "ok" /\ UNCHANGED connVars
           /\ ops' = IF reconnectScheduled \/ ~connected THEN o ELSE Start(o, "read")
  <2>1. /\ UNCHANGED <<connected, userClosed, outboundQueue, stream>>
        /\ Backlog' <= Backlog
    BY <1>5, BacklogSame DEF connVars, linkVars
  <2>2. CASE ~Live
    <3>1. ~Live'
      BY <2>1, <2>2 DEF Live
    <3> QED BY <1>3, <2>1, <3>1, BacklogIdle
  <2>3. CASE Live
    <3>1. ops' = Start(o, "read")
      BY <1>5, <2>3 DEF Live, SessionInv, LinkInv, NotBoth
    <3>2. generation \in 1..Len(o)
      BY <1>2
    <3> HIDE DEF o
    <3>3. generation' = generation /\ Op("read")' = "inflight" /\ Op("ping")' = Op("ping")
      BY <1>1, <1>2, <3>1, <3>2, StartOps DEF generation, Op
    <3>4. Backlog <= MaxQueue /\ (stream = "open" /\ Op("ping") = "ok" => Backlog < MaxQueue)
      <4>1. CASE stream = "open"
        BY <2>3, <4>1 DEF BacklogInv, HealthyBacklog
      <4>2. CASE stream # "open"
        <5>1. 1 \in 1..Len(strand) /\ strand[1] = Handler("read", generation)
          <6>1. /\ Head(strand) \in Handlers /\ Head(strand).run = "read" /\ Head(strand) = strand[1]
                /\ Len(strand) \in Nat /\ Len(strand) > 0
            BY <1>1, RunEffect DEF Completed
          <6>2. strand[1].arg = generation
            BY <1>1, <6>1 DEF Completed
          <6>3. strand[1] = Handler("read", generation)
            BY <6>1, <6>2 DEF Handlers, Posts, Handler
          <6> QED BY <6>1, <6>3
        <5>2. HeardBefore(1)
          BY <1>5, <2>3, <4>2, <5>1 DEF BacklogInv, SilentBacklog
        <5> QED BY <4>2, <5>1, <5>2 DEF HeardBefore
      <4> QED BY <4>1, <4>2
    <3>5. quietPings' = 0
      BY <1>5 DEF OnRead
    <3>6. Backlog' <= MaxQueue /\ (stream' = "open" /\ Op("ping")' = "ok" => Backlog' < MaxQueue)
      <4>1. Backlog \in Nat /\ Backlog' \in Nat /\ MaxQueue \in Nat
        BY BacklogNumbers, BacklogNumbersNext
      <4> QED BY <2>1, <3>3, <3>4, <4>1
    <3> QED BY <3>3, <3>5, <3>6, BacklogReset
  <2> QED BY <2>2, <2>3
<1> QED
  BY <1>4, <1>5 DEF OnRead

LEMMA BacklogWrite ==
  ASSUME SessionInv, SessionInv', BacklogInv, OnWrite
  PROVE  BacklogInv'
<1> DEFINE o == Finished("write", generation)
<1>1. /\ Completed("write") /\ {"ping", "read"} \subseteq Kinds \ {"write"} /\ "write" \in Kinds
      /\ TypeOK /\ outboundQueue \in Seq(Messages) /\ quietPings' = quietPings
  BY DEF Kinds, OnWrite, SessionInv, TypeOK, Unheard
<1>2. /\ generation \in Nat \ {0} /\ o \in OpsTable /\ Len(o) = generation
      /\ \A j \in Kinds : o[generation][j] = IF j = "write" THEN "idle" ELSE Op(j)
  BY <1>1, CompletedEffect DEF Op
<1>3. CASE HandleError(o, FALSE)
  <2>1. connected' => quietPings' <= 3
    BY <1>1, <1>3, HandleErrorLink DEF BacklogInv, QuietBound
  <2> QED BY <1>3, <2>1, BacklogError
<1>4. CASE Pump(o, outboundQueue, FALSE, connected) /\ UNCHANGED <<linkVars, stream>>
  <2> HIDE DEF o
  <2>1. OnlyWriteStarted(o) /\ Backlog' <= NumPings(outboundQueue)
    <3>1. PICK busy \in BOOLEAN : Pump(o, outboundQueue, busy, connected)
      BY <1>4
    <3> QED BY <1>1, <1>2, <3>1, PumpEffect, BacklogPump
  <2>2. generation' = generation /\ Op("ping")' = Op("ping") /\ Op("read")' = Op("read")
    <3>1. generation \in 1..Len(o)
      BY <1>2
    <3> QED BY <1>1, <1>2, <2>1, <3>1 DEF OnlyWriteStarted, generation, Op
  <2>3. Run("write") /\ UNCHANGED <<connected, userClosed, quietPings, stream>> /\ Backlog' <= Backlog
    BY <1>1, <1>4, <2>1 DEF Completed, linkVars, Backlog
  <2> QED BY <2>2, <2>3, BacklogRun
<1> QED
  BY <1>3, <1>4 DEF OnWrite

\* A ping round: the peer is heard and the round was due with room in the queue,
\* or it is silent and this is the third round at the latest.
LEMMA BacklogPingRound ==
  ASSUME SessionInv, SessionInv', PostInv', BacklogInv, Completed("ping"), Live, NEW n \in 0..3,
         n = IF stream = "open" THEN 0 ELSE quietPings + 1,
         PingRound(Finished("ping", generation), n)
  PROVE  BacklogInv'
<1> DEFINE o == Finished("ping", generation)
           started == Start(o, "ping")
           queue == Append(outboundQueue, Ping)
<1>1. {"ping", "read"} \subseteq Kinds \ {"write"} /\ TypeOK /\ "read" # "ping"
  BY DEF Kinds, SessionInv
<1>2. /\ generation \in Nat \ {0} /\ o \in OpsTable /\ Len(o) = generation
      /\ \A j \in Kinds : o[generation][j] = IF j = "ping" THEN "idle" ELSE Op(j)
      /\ Op("ping") \in Ended
  BY <1>1, CompletedEffect DEF Op
<1>3. /\ Pump(started, queue, writeInFlight, connected) /\ quietPings' = n
      /\ UNCHANGED <<connected, userClosed, stream>>
  BY DEF PingRound, linkVars
<1>4. queue \in Seq(Messages) /\ NumPings(queue) <= Backlog + 1 /\ writeInFlight \in BOOLEAN
  <2>1. outboundQueue \in Seq(Messages) /\ Ping \in Messages /\ writeInFlight \in BOOLEAN
    BY <1>1 DEF TypeOK, Ping, Messages
  <2> QED BY <2>1, AppendProperties, PingsAppend DEF Backlog
<1> HIDE DEF o
<1>5. /\ started \in OpsTable /\ Len(started) = generation
      /\ started[generation]["ping"] = "inflight" /\ started[generation]["read"] = Op("read")
  <2>1. generation \in 1..Len(o)
    BY <1>2
  <2> QED BY <1>1, <1>2, <2>1, StartOps
<1> HIDE DEF started, queue
<1>6. Op("ping")' = "inflight" /\ Op("read")' = Op("read") /\ generation' = generation
  <2>1. OnlyWriteStarted(started) /\ generation \in 1..Len(started)
    <3>1. OnlyWriteStarted(started)
      BY <1>1, <1>3, <1>4, <1>5, PumpEffect
    <3> QED BY <1>2, <1>5, <3>1
  <2> QED BY <1>1, <1>5, <2>1 DEF OnlyWriteStarted, generation, Op
<1>7. Op("ping") = "ok"
  BY <1>2 DEF Live, SessionInv, LinkInv, HeartbeatArmed, Ended
<1>8. /\ Backlog \in Nat /\ quietPings \in Nat /\ MaxQueue \in Nat
      /\ Backlog' \in Nat /\ NumPings(queue) \in Nat
  BY <1>4, BacklogNumbers, BacklogNumbersNext, PingsType
<1>9. Backlog' <= Backlog + 1
  <2>1. Backlog' <= NumPings(queue)
    BY <1>3, <1>4, BacklogPump
  <2> QED BY <1>4, <1>8, <2>1
<1>10. HealthyBacklog' /\ QuietBound'
  <2>1. stream = "open" => Backlog < MaxQueue
    BY <1>7 DEF BacklogInv, HealthyBacklog
  <2>2. stream = "open" => Backlog' <= MaxQueue
    BY <1>8, <1>9, <2>1
  <2> QED BY <1>3, <1>6, <2>2 DEF HealthyBacklog, QuietBound
<1>11. ASSUME stream # "open"
       PROVE  /\ Backlog' <= MaxQueue + quietPings'
              /\ Op("read")' = "ok" => \A j \in 1..Len(strand') : HeardBefore(j)'
  <2>1. /\ Backlog <= MaxQueue + quietPings
        /\ Op("read") = "ok" => \A j \in 1..Len(strand) : HeardBefore(j)
    BY <1>11 DEF BacklogInv, SilentBacklog
  <2>2. quietPings' = quietPings + 1
    BY <1>3, <1>11
  <2>3. ASSUME Op("read")' = "ok", NEW j \in 1..Len(strand'), strand'[j] = Handler("read", generation)
        PROVE  /\ Backlog' <= MaxQueue
               /\ \A i \in 1..(j - 1) : strand'[i] # Handler("ping", generation)
    <3>1. /\ Head(strand).run = "ping" /\ Head(strand).arg = generation /\ Head(strand) \in Handlers
          /\ Len(strand) \in Nat /\ Len(strand') = Len(strand) - 1 /\ Head(strand) = strand[1]
          /\ \A i \in 1..Len(strand') : strand'[i] = strand[i + 1]
      BY <1>1, RunEffect DEF Completed
    <3>2. strand[1] = Handler("ping", generation)
      BY <3>1 DEF Handlers, Posts, Handler
    <3>3. j + 1 \in 1..Len(strand) /\ strand[j + 1] = Handler("read", generation) /\ 1 \in 1..((j + 1) - 1)
      BY <2>3, <3>1
    <3>4. Backlog < MaxQueue
      <4>1. HeardBefore(j + 1)
        BY <1>6, <2>1, <2>3, <3>3
      <4> QED BY <3>2, <3>3, <4>1 DEF HeardBefore
    <3>5. ASSUME NEW i \in 1..(j - 1), strand'[i] = Handler("ping", generation) PROVE FALSE
      <4>1. i \in 1..Len(strand') /\ strand'[i].run = "ping" /\ strand'[i].arg = generation
        BY <3>1, <3>5 DEF Handler
      <4>2. ops'[generation]["ping"] \in Ended
        BY <4>1 DEF PostInv, PingsPosted
      <4>3. ops'[generation]["ping"] = "inflight"
        BY <1>6 DEF Op
      <4> QED BY <4>2, <4>3 DEF Ended
    <3> QED BY <1>8, <1>9, <3>4, <3>5
  <2>4. ASSUME Op("read")' = "ok", NEW j \in 1..Len(strand') PROVE HeardBefore(j)'
    BY <1>6, <2>3, <2>4 DEF HeardBefore, Handler
  <2> QED BY <1>8, <1>9, <2>1, <2>2, <2>4
<1>12. SilentBacklog'
  BY <1>3, <1>11 DEF SilentBacklog
<1>13. Backlog' <= MaxQueue + 3
  <2>1. CASE stream = "open"
    BY <1>7, <1>8, <1>9, <2>1 DEF BacklogInv, HealthyBacklog
  <2>2. CASE stream # "open"
    BY <1>3, <1>8, <1>11, <2>2
  <2> QED BY <2>1, <2>2
<1> QED
  BY <1>10, <1>12, <1>13, BoundOfBacklog DEF BacklogInv

LEMMA BacklogPing ==
  ASSUME SessionInv, SessionInv', PostInv', BacklogInv, OnPingTimer
  PROVE  BacklogInv'
<1> DEFINE o == Finished("ping", generation)
           n == IF stream = "open" THEN 0 ELSE quietPings + 1
<1>1. Completed("ping") /\ "ping" \in Kinds /\ quietPings \in Nat
  BY DEF Kinds, OnPingTimer, SessionInv, TypeOK
<1>2. Op("ping") \in Ended
  BY <1>1, CompletedEffect DEF SessionInv
<1>3. CASE (PingOver \/ ~connected) /\ UNCHANGED <<connVars, quietPings>>
  <2>1. ~Live
    BY <1>3 DEF PingOver, Live, SessionInv, LinkInv, HeartbeatArmed
  <2>2. outboundQueue' = outboundQueue /\ ~Live' /\ (connected' => quietPings' <= 3)
    BY <1>3, <2>1 DEF Live, connVars, linkVars, BacklogInv, QuietBound
  <2> QED BY <2>2, BacklogSame, BacklogIdle
<1>4. CASE ~(PingOver \/ ~connected) /\ PeerSilent(o, n)
  <2>1. ~connected'
    BY <1>4, HandleErrorLink DEF PeerSilent, PingOver, SessionInv, LinkInv, NotBoth
  <2> QED BY <1>4, <2>1, BacklogError DEF PeerSilent
<1>5. CASE ~(PingOver \/ ~connected) /\ ~MustBeSilent(n) /\ PingRound(o, n)
  <2>1. Live
    BY <1>5 DEF PingOver, Live
  <2>2. n \in 0..3
    BY <1>1, <1>5 DEF MustBeSilent, PingInterval, ActivityTimeout
  <2> QED BY <1>1, <1>5, <2>1, <2>2, BacklogPingRound
<1> QED
  BY <1>3, <1>4, <1>5 DEF OnPingTimer

LEMMA BacklogCompletion ==
  ASSUME SessionInv, SessionInv', PostInv', BacklogInv, RunCompletion
  PROVE  BacklogInv'
<1>1. CASE OnResolve \/ OnConnect \/ OnSSLHandshake
  BY <1>1, BacklogStage DEF OnResolve, OnConnect, OnSSLHandshake, Stages
<1>2. CASE OnHandshake \/ OnRead \/ OnWrite \/ OnPingTimer
  BY <1>2, BacklogHandshake, BacklogRead, BacklogWrite, BacklogPing
<1>3. CASE OnReconnectTimer
  <2>1. Completed("reconnect") /\ "reconnect" \in Kinds
    BY <1>3 DEF OnReconnectTimer, Kinds
  <2>2. generation > 0 /\ Op("reconnect") # "idle"
    BY <2>1, CompletedEffect DEF SessionInv, Ended
  <2>3. ~connected
    BY <2>2 DEF SessionInv, LinkInv, NotBoth, WaitHolds
  <2>4. ~connected' /\ outboundQueue' = outboundQueue
    BY <1>3, <2>3 DEF OnReconnectTimer, StartConnect
  <2> QED BY <2>4, BacklogSame, BacklogIdle DEF Live
<1>4. ASSUME NEW g \in 1..generation, NEW k \in Kinds, DropStale(k, g) PROVE BacklogInv'
  <2>1. /\ Run(k) /\ ops' = Finished(k, g) /\ g < generation
        /\ UNCHANGED <<connected, userClosed, quietPings, stream, outboundQueue>>
    BY <1>4 DEF DropStale, connVars, linkVars
  <2>2. generation \in Nat /\ ops \in OpsTable /\ {"ping", "read"} \subseteq Kinds
    BY LenProperties DEF SessionInv, TypeOK, OpsTable, generation, Kinds
  <2>3. generation' = generation /\ Op("ping")' = Op("ping") /\ Op("read")' = Op("read")
    <3>1. generation \in 1..generation /\ g # generation
      BY <2>1, <2>2
    <3> QED BY <2>1, <2>2, <3>1, FinishedOps DEF generation, Op
  <2> QED BY <2>1, <2>3, BacklogSame, BacklogRun
<1> QED
  BY <1>1, <1>2, <1>3, <1>4 DEF RunCompletion

\* Asio ends an operation that is not the read of a silent peer.
LEMMA BacklogComplete ==
  ASSUME SessionInv, SessionInv', BacklogInv, NEW k \in Kinds, NEW g \in 1..generation,
         NEW status \in Ended, Complete(k, g, status),
         k = "read" /\ g = generation => status # "ok" \/ stream' = "open" \/ userClosed,
         k = "ping" /\ g = generation /\ status = "ok" /\ stream' = "open" => Backlog < MaxQueue,
         stream' = "open" <=> stream = "open"
  PROVE  BacklogInv'
<1>1. /\ Len(ops') = generation /\ strand' = Append(strand, Handler(k, g))
      /\ \A h \in 1..generation, j \in Kinds :
           ops'[h][j] = IF h = g /\ j = k THEN status ELSE ops[h][j]
  BY CompleteEffect DEF SessionInv
<1>2. /\ generation' = generation /\ generation \in 1..generation /\ {"ping", "read"} \subseteq Kinds
  <2>1. generation \in Nat
    BY LenProperties DEF SessionInv, TypeOK, OpsTable, generation
  <2> QED BY <1>1, <2>1 DEF generation, Kinds
<1>3. UNCHANGED <<connected, userClosed, outboundQueue, quietPings>>
  BY DEF Complete, sessionVars, linkVars
<1>4. \A j \in {"ping", "read"} : Op(j)' = IF generation = g /\ j = k THEN status ELSE Op(j)
  BY <1>1, <1>2 DEF Op
<1>5. Live' /\ stream' = "open" /\ Op("ping")' = "ok" => Op("ping") = "ok" \/ Backlog < MaxQueue
  BY <1>4
<1>6. Live' /\ stream' # "open" /\ Op("read")' = "ok" => Op("read") = "ok" /\ ReadsKept
  <2> SUFFICES ASSUME Live', stream' # "open", Op("read")' = "ok"
               PROVE  Op("read") = "ok" /\ ReadsKept
    OBVIOUS
  <2>1. ~(k = "read" /\ g = generation)
    BY <1>3, <1>4 DEF Live
  <2>2. Handler(k, g) # Handler("read", generation)
    BY <2>1 DEF Handler
  <2> QED BY <1>1, <1>4, <2>1, <2>2, ReadsAppend DEF SessionInv
<1> QED
  BY <1>2, <1>3, <1>5, <1>6, BacklogSame, BacklogKept

\* A stage ends while there is no connection.
LEMMA BacklogStageEnds ==
  ASSUME SessionInv, SessionInv', BacklogInv, NEW k \in Stages, NEW status \in Ended,
         generation > 0, Complete(k, generation, status)
  PROVE  BacklogInv'
<1>1. ~connected
  BY StageDown DEF Complete, Op
<1>2. outboundQueue' = outboundQueue /\ ~connected'
  BY <1>1 DEF Complete, sessionVars, linkVars
<1> QED
  BY <1>2, BacklogSame, BacklogIdle DEF Live

LEMMA BacklogEnvironment ==
  ASSUME SessionInv, SessionInv', PostInv, BacklogInv, Environment
  PROVE  BacklogInv'
<1>0. /\ {"read", "write", "ping", "reconnect"} \subseteq Kinds
      /\ {"ok", "bad", "failed"} \subseteq Ended
      /\ generation \in Nat /\ (generation > 0 => generation \in 1..generation)
  BY LenProperties DEF Kinds, Ended, SessionInv, TypeOK, OpsTable, generation
<1>1. ASSUME NEW k \in Stages, StageSucceeds(k) \/ StageFails(k) PROVE BacklogInv'
  BY <1>0, <1>1, BacklogStageEnds DEF StageSucceeds, StageFails
<1>2. CASE WriteSucceeds \/ ReconnectTimerExpires
  BY <1>0, <1>2, BacklogComplete DEF WriteSucceeds, ReconnectTimerExpires
<1>3. ASSUME NEW g \in 1..generation, NEW k \in {"read", "write"}, TransferFails(k, g)
      PROVE  BacklogInv'
  <2>1. Complete(k, g, "failed") /\ (stream' = "open" <=> stream = "open")
    BY <1>0, <1>3 DEF TransferFails
  <2> QED BY <1>0, <1>3, <2>1, BacklogComplete
<1>4. ASSUME NEW g \in 1..generation, PingTimerExpires(g) PROVE BacklogInv'
  <2>1. /\ Complete("ping", g, "ok") /\ stream' = stream
        /\ stream = "open" => Len(outboundQueue) + Len(wire) < MaxQueue
    BY <1>4 DEF PingTimerExpires
  <2>2. stream = "open" => Backlog < MaxQueue
    <3>1. outboundQueue \in Seq(Messages) /\ Len(wire) \in Nat /\ MaxQueue \in Nat
      BY LenProperties, SessionAssumption DEF SessionInv, TypeOK
    <3>2. Backlog <= Len(outboundQueue) /\ Backlog \in Nat /\ Len(outboundQueue) \in Nat
      BY <3>1, PingsType DEF Backlog
    <3> QED BY <2>1, <3>1, <3>2
  <2> QED BY <1>0, <2>1, <2>2, BacklogComplete
<1>5. ASSUME NEW g \in 1..generation, WaitAborted("ping", g) \/ WaitAborted("reconnect", g)
      PROVE  BacklogInv'
  BY <1>0, <1>5, BacklogComplete DEF WaitAborted
<1>6. ASSUME NEW status \in {"ok", "bad"}, MessageArrives(status) PROVE BacklogInv'
  <2>1. /\ Complete("read", generation, status) /\ stream' = stream
        /\ stream = "open" \/ (userClosed /\ generation > 0)
    BY <1>6 DEF MessageArrives, PostInv, ClosingIsClosed
  <2> QED BY <1>0, <1>6, <2>1, BacklogComplete DEF MessageArrives
<1>7. CASE ConnectionBreaks \/ PeerFallsSilent \/ CloseHandshakeEnds \/ ServerReceives
  <2>1. UNCHANGED <<strand, ops, connected, userClosed, outboundQueue, quietPings>>
    BY <1>7
       DEF ConnectionBreaks, PeerFallsSilent, CloseHandshakeEnds, ServerReceives, sessionVars, linkVars
  <2>2. /\ generation' = generation /\ Op("ping")' = Op("ping") /\ Op("read")' = Op("read")
        /\ ReadsKept /\ Backlog' <= Backlog
    BY <2>1, ReadsSame, BacklogSame DEF generation, Op
  <2>3. CASE (stream' = "open" <=> stream = "open") \/ ~Live
    <3>1. Live' => (stream' = "open" <=> stream = "open")
      BY <2>1, <2>3 DEF Live
    <3> QED BY <2>1, <2>2, <3>1, BacklogKept
  <2>4. CASE stream = "open" /\ stream' # "open" /\ Live
    <3>1. Backlog <= MaxQueue /\ (Op("ping") = "ok" => Backlog < MaxQueue)
      BY <2>4 DEF BacklogInv, HealthyBacklog
    <3>2. /\ Backlog \in Nat /\ Backlog' \in Nat /\ MaxQueue \in Nat /\ quietPings \in Nat
      BY BacklogNumbers, BacklogNumbersNext
    <3>3. ASSUME NEW j \in 1..Len(strand), NEW i \in 1..(j - 1), strand[i] = Handler("ping", generation)
          PROVE  Backlog < MaxQueue
      <4>1. i \in 1..Len(strand) /\ strand[i].run = "ping" /\ strand[i].arg = generation
        BY <3>3, LenProperties DEF Handler, SessionInv, TypeOK
      <4>2. Op("ping") \in Ended
        BY <4>1 DEF PostInv, PingsPosted, Op
      <4>3. Op("ping") = "ok"
        BY <2>4, <4>2 DEF Live, SessionInv, LinkInv, HeartbeatArmed, Ended
      <4> QED BY <3>1, <4>3
    <3>4. \A j \in 1..Len(strand') : HeardBefore(j)'
      <4>1. ASSUME NEW j \in 1..Len(strand') PROVE HeardBefore(j)'
        BY <2>1, <2>2, <3>1, <3>2, <3>3, <4>1 DEF HeardBefore, Handler
      <4> QED BY <4>1
    <3>5. SilentBacklog'
      <4>1. Backlog' <= MaxQueue + quietPings'
        <5>1. Backlog' <= MaxQueue + quietPings
          BY <2>2, <3>1, <3>2
        <5> QED BY <2>1, <5>1
      <4> QED BY <3>4, <4>1 DEF SilentBacklog
    <3>6. HealthyBacklog' /\ QuietBound' /\ Backlog' <= MaxQueue + 3
      BY <2>1, <2>2, <2>4, <3>1, <3>2 DEF HealthyBacklog, QuietBound, BacklogInv
    <3> QED BY <3>5, <3>6, BoundOfBacklog DEF BacklogInv
  <2>5. stream' = "open" => stream = "open"
    BY <1>7 DEF ConnectionBreaks, PeerFallsSilent, CloseHandshakeEnds, ServerReceives
  <2> QED BY <2>3, <2>4, <2>5
<1> QED
  BY <1>1, <1>2, <1>3, <1>4, <1>5, <1>6, <1>7 DEF Environment, StageEnds, TransferEnds, TimerExpires

LEMMA BacklogInit == Init => BacklogInv
<1> SUFFICES ASSUME Init PROVE BacklogInv
  OBVIOUS
<1>1. ~connected /\ Backlog = 0
  BY PingsNone DEF Init, Backlog
<1>2. Backlog <= MaxQueue + 3
  BY <1>1, SessionAssumption
<1> QED
  BY <1>1, <1>2, BoundOfBacklog DEF BacklogInv, HealthyBacklog, SilentBacklog, QuietBound, Live

LEMMA BacklogStep == SessionInv /\ SessionInv' /\ PostInv /\ PostInv' /\ BacklogInv /\ [Next]_vars => BacklogInv'
<1> SUFFICES ASSUME SessionInv, SessionInv', PostInv, PostInv', BacklogInv, [Next]_vars
             PROVE  BacklogInv'
  OBVIOUS
<1>1. CASE UNCHANGED vars
  <2>1. UNCHANGED <<strand, ops, connected, userClosed, outboundQueue, quietPings, stream>>
    BY <1>1 DEF vars, sessionVars, linkVars
  <2>2. /\ generation' = generation /\ Op("ping")' = Op("ping") /\ Op("read")' = Op("read")
        /\ ReadsKept /\ Backlog' <= Backlog
    BY <2>1, ReadsSame, BacklogSame DEF generation, Op
  <2> QED BY <2>1, <2>2, BacklogKept
<1> QED
  BY <1>1, BacklogCallers, BacklogPosted, BacklogCompletion, BacklogEnvironment DEF Next

\* However long a peer stays silent, the queue never holds more than three pings
\* beyond what it held when the peer fell silent: the watchdog ends the rounds.
THEOREM PingsBounded == Spec => []PingBacklogBounded
<1>1. Init => SessionInv /\ PostInv /\ BacklogInv
  BY SessionInit, PostInit, BacklogInit
<1>2. SessionInv /\ PostInv /\ BacklogInv /\ [Next]_vars => (SessionInv /\ PostInv /\ BacklogInv)'
  BY SessionStep, PostStep, BacklogStep
<1>3. BacklogInv => PingBacklogBounded
  BY DEF BacklogInv
<1> QED
  BY <1>1, <1>2, <1>3, PTL DEF Spec

=============================================================================
