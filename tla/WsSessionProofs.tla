-------------------------- MODULE WsSessionProofs --------------------------
(***************************************************************************)
(* What holds of WsSession for any number of threads, topics, calls and    *)
(* failures: its types, and that only close() stops the reconnect loop.    *)
(***************************************************************************)
EXTENDS WsSession, SequenceTheorems, FiniteSetTheorems, TLAPS

-----------------------------------------------------------------------------
(* The table of operations.                                                *)

\* Marking an operation keeps the table well-formed and changes that entry only.
LEMMA MarkOp ==
  ASSUME NEW o \in OpsTable, NEW g \in 1..Len(o), NEW k \in Kinds, NEW status \in OpStatus
  PROVE  /\ Mark(o, g, k, status) \in OpsTable
         /\ Len(Mark(o, g, k, status)) = Len(o)
         /\ \A h \in 1..Len(o), j \in Kinds :
              Mark(o, g, k, status)[h][j] = IF h = g /\ j = k THEN status ELSE o[h][j]
<1> DEFINE row == [o[g] EXCEPT ![k] = status]
<1>1. o[g] \in [Kinds -> OpStatus]
  BY ElementOfSeq DEF OpsTable
<1>2. row \in [Kinds -> OpStatus]
  BY <1>1
<1>3. [o EXCEPT ![g][k] = status] = [o EXCEPT ![g] = row]
  OBVIOUS
<1>4. /\ [o EXCEPT ![g] = row] \in OpsTable
      /\ Len([o EXCEPT ![g] = row]) = Len(o)
      /\ \A h \in 1..Len(o) : [o EXCEPT ![g] = row][h] = IF h = g THEN row ELSE o[h]
  <2> HIDE DEF row
  <2> QED BY <1>2, ExceptSeq DEF OpsTable
<1>5. \A j \in Kinds : row[j] = IF j = k THEN status ELSE o[g][j]
  BY <1>1
<1> QED
  BY <1>3, <1>4, <1>5 DEF Mark

\* A cancel keeps the table well-formed and touches waits in flight only.
LEMMA CancelOps ==
  ASSUME NEW o \in OpsTable, NEW kinds
  PROVE  /\ Cancel(o, kinds) \in OpsTable
         /\ Len(Cancel(o, kinds)) = Len(o)
         /\ \A h \in 1..Len(o), j \in Kinds :
              Cancel(o, kinds)[h][j] =
                IF j \in kinds /\ o[h][j] = "inflight" THEN "cancelled" ELSE o[h][j]
<1>1. Len(o) \in Nat /\ DOMAIN o = 1..Len(o) /\ \A h \in 1..Len(o) : o[h] \in [Kinds -> OpStatus]
  BY ElementOfSeq, LenProperties DEF OpsTable
<1>2. \A h \in 1..Len(o) :
        [k \in Kinds |-> IF k \in kinds /\ o[h][k] = "inflight" THEN "cancelled" ELSE o[h][k]]
          \in [Kinds -> OpStatus]
  BY <1>1 DEF OpStatus
<1>3. Cancel(o, kinds) \in [1..Len(o) -> [Kinds -> OpStatus]]
  BY <1>1, <1>2 DEF Cancel
<1>4. Cancel(o, kinds) \in OpsTable /\ Len(Cancel(o, kinds)) = Len(o)
  BY <1>1, <1>3 DEF OpsTable
<1>5. \A h \in 1..Len(o), j \in Kinds :
        Cancel(o, kinds)[h][j] =
          IF j \in kinds /\ o[h][j] = "inflight" THEN "cancelled" ELSE o[h][j]
  BY <1>1 DEF Cancel
<1> QED
  BY <1>4, <1>5

\* Start touches the given kind of the last generation only.
LEMMA StartOps ==
  ASSUME NEW o \in OpsTable, NEW k \in Kinds
  PROVE  /\ Start(o, k) \in OpsTable
         /\ Len(Start(o, k)) = Len(o)
         /\ \A h \in 1..Len(o), j \in Kinds :
              Start(o, k)[h][j] = IF h = Len(o) /\ j = k THEN "inflight" ELSE o[h][j]
<1>1. Len(o) \in Nat /\ DOMAIN o = 1..Len(o)
  BY LenProperties DEF OpsTable
<1>2. CASE Len(o) = 0
  <2>1. Start(o, k) = o
    BY <1>1, <1>2, SMT DEF Start, Mark, OpsTable
  <2> QED BY <1>2, <2>1
<1>3. CASE Len(o) # 0
  <2>1. Len(o) \in 1..Len(o) /\ "inflight" \in OpStatus
    BY <1>1, <1>3 DEF OpStatus
  <2>2. PICK g \in 1..Len(o) : g = Len(o)
    BY <2>1
  <2>3. Start(o, k) = Mark(o, g, k, "inflight")
    BY <2>2 DEF Start
  <2>4. /\ Mark(o, g, k, "inflight") \in OpsTable
        /\ Len(Mark(o, g, k, "inflight")) = Len(o)
        /\ \A h \in 1..Len(o), j \in Kinds :
             Mark(o, g, k, "inflight")[h][j] = IF h = g /\ j = k THEN "inflight" ELSE o[h][j]
    BY <2>1, MarkOp
  <2> QED BY <2>2, <2>3, <2>4
<1> QED
  BY <1>2, <1>3

LEMMA StartTyped ==
  ASSUME NEW o \in OpsTable, NEW k \in Kinds
  PROVE  Start(o, k) \in OpsTable
BY StartOps

\* A handler's own operation becomes idle and nothing else changes.
LEMMA FinishedOps ==
  ASSUME ops \in OpsTable, NEW g \in 1..generation, NEW k \in Kinds
  PROVE  /\ Finished(k, g) \in OpsTable
         /\ Len(Finished(k, g)) = generation
         /\ \A h \in 1..generation, j \in Kinds :
              Finished(k, g)[h][j] = IF h = g /\ j = k THEN "idle" ELSE ops[h][j]
<1>1. "idle" \in OpStatus
  BY DEF OpStatus
<1> QED
  BY <1>1, MarkOp DEF Finished, generation

-----------------------------------------------------------------------------
(* What the shared parts of the handlers do.                               *)

\* The operations are those of o, a write of the last generation apart.
OnlyWriteStarted(o) ==
  /\ Len(ops') = Len(o)
  /\ \A h \in 1..Len(o), k \in Kinds : k # "write" \/ h # Len(o) => ops'[h][k] = o[h][k]

\* pump() starts a write at most.
LEMMA PumpEffect ==
  ASSUME TypeOK, NEW o \in OpsTable, NEW queue \in Seq(Messages), NEW busy \in BOOLEAN,
         NEW up, Pump(o, queue, busy, up)
  PROVE  /\ outboundQueue' \in Seq(Messages)
         /\ writeInFlight' \in BOOLEAN
         /\ wire' \in Seq(Messages)
         /\ ops' \in OpsTable
         /\ OnlyWriteStarted(o)
<1>1. CASE up /\ ~busy /\ IsOpen /\ queue # <<>>
  <2>1. Tail(queue) \in Seq(Messages) /\ Head(queue) \in Messages
    BY <1>1, HeadTailProperties
  <2>2. wire' \in Seq(Messages)
    <3>1. wire \in Seq(Messages)
      BY DEF TypeOK
    <3>2. Append(wire, Head(queue)) \in Seq(Messages)
      BY <2>1, <3>1, AppendProperties
    <3> QED BY <1>1, <3>1, <3>2 DEF Pump
  <2>3. ops' = Start(o, "write") /\ outboundQueue' = Tail(queue) /\ writeInFlight' = TRUE
    BY <1>1 DEF Pump
  <2>4. "write" \in Kinds
    BY DEF Kinds
  <2>5. ops' \in OpsTable /\ OnlyWriteStarted(o)
    BY <2>3, <2>4, StartOps DEF OnlyWriteStarted
  <2> QED BY <2>1, <2>2, <2>3, <2>5
<1>2. CASE ~(up /\ ~busy /\ IsOpen /\ queue # <<>>)
  <2>1. ops' = o /\ outboundQueue' = queue /\ writeInFlight' = busy /\ wire' = wire
    BY <1>2 DEF Pump
  <2> QED BY <2>1 DEF OnlyWriteStarted, TypeOK
<1> QED
  BY <1>1, <1>2

\* Without a connection it only queues.
LEMMA PumpDown ==
  ASSUME NEW o, NEW queue, NEW busy, NEW up, Pump(o, queue, busy, up), ~up
  PROVE  /\ ops' = o /\ outboundQueue' = queue /\ writeInFlight' = busy /\ wire' = wire
BY DEF Pump

\* What a flush appends to the queue.
LEMMA SubscribesTyped ==
  ASSUME TypeOK, NEW s \in Orderings(pendingTopics)
  PROVE  s \in Seq(Topics) /\ Subscribes(s) \in Seq(Messages)
<1>1. IsFiniteSet(pendingTopics) /\ pendingTopics \subseteq Topics
  BY FS_Subset, SessionAssumption DEF TypeOK
<1>2. Cardinality(pendingTopics) \in Nat
  BY <1>1, FS_CardinalityType
<1>3. s \in Seq(Topics)
  BY <1>1, <1>2 DEF Orderings
<1>4. DOMAIN s = 1..Len(s) /\ Len(s) \in Nat /\ \A i \in 1..Len(s) : s[i] \in Topics
  BY <1>3, ElementOfSeq, LenProperties
<1>5. \A i \in 1..Len(s) : [method |-> "subscribe", topic |-> s[i]] \in Messages
  BY <1>4 DEF Messages
<1>6. Subscribes(s) \in [1..Len(s) -> Messages]
  BY <1>4, <1>5 DEF Subscribes
<1> QED BY <1>3, <1>4, <1>6

\* flushTopics() moves the pending topics and pumps.
LEMMA FlushEffect ==
  ASSUME TypeOK, NEW o \in OpsTable, NEW up, FlushTopics(o, up)
  PROVE  /\ subscriptions' \subseteq Topics /\ pendingTopics' \subseteq Topics
         /\ outboundQueue' \in Seq(Messages)
         /\ writeInFlight' \in BOOLEAN
         /\ wire' \in Seq(Messages)
         /\ ops' \in OpsTable
         /\ OnlyWriteStarted(o)
<1>1. CASE up
  <2>1. PICK s \in Orderings(pendingTopics) :
          Pump(o, outboundQueue \o Subscribes(s), writeInFlight, TRUE)
    BY <1>1 DEF FlushTopics, FlushNow
  <2>2. Subscribes(s) \in Seq(Messages)
    BY SubscribesTyped
  <2>3. outboundQueue \o Subscribes(s) \in Seq(Messages) /\ writeInFlight \in BOOLEAN
    BY <2>2, ConcatProperties DEF TypeOK
  <2>4. subscriptions' \subseteq Topics /\ pendingTopics' \subseteq Topics
    BY <1>1 DEF FlushTopics, FlushNow, Wanted, TypeOK
  <2>5. /\ outboundQueue' \in Seq(Messages) /\ writeInFlight' \in BOOLEAN
        /\ wire' \in Seq(Messages) /\ ops' \in OpsTable /\ OnlyWriteStarted(o)
    <3> DEFINE queue == outboundQueue \o Subscribes(s)
    <3>1. queue \in Seq(Messages) /\ Pump(o, queue, writeInFlight, TRUE)
      BY <2>1, <2>3
    <3> HIDE DEF queue
    <3> QED BY <2>3, <3>1, PumpEffect
  <2> QED BY <2>4, <2>5
<1>2. CASE ~up
  <2>1. ops' = o /\ UNCHANGED <<topicVars, outboundQueue, writeInFlight, wire>>
    BY <1>2 DEF FlushTopics, FlushSkipped
  <2> QED BY <2>1 DEF OnlyWriteStarted, topicVars, TypeOK
<1> QED
  BY <1>1, <1>2

\* Without a connection flushTopics() does nothing.
LEMMA FlushDown ==
  ASSUME NEW o, NEW up, FlushTopics(o, up), ~up
  PROVE  ops' = o
BY DEF FlushTopics, FlushSkipped

\* The types of what an error handler changes.
LinkTyped ==
  /\ subscriptions \subseteq Topics /\ pendingTopics \subseteq Topics
  /\ outboundQueue \in Seq(Messages) /\ writeInFlight \in BOOLEAN
  /\ connected \in BOOLEAN /\ reconnectScheduled \in BOOLEAN
  /\ reconnectDelayS \in 1..ReconnectDelayMax
  /\ stream \in StreamStates
  /\ wire \in Seq(Messages) /\ serverTopics \subseteq Topics
  /\ ops \in OpsTable

\* handleError() either ignores the error or starts the reconnect wait.
LEMMA HandleErrorEffect ==
  ASSUME TypeOK, NEW o \in OpsTable, NEW busy \in BOOLEAN, HandleError(o, busy)
  PROVE  /\ LinkTyped'
         /\ Len(ops') = Len(o)
         /\ userClosed' = userClosed
         /\ \/ /\ reconnectScheduled \/ userClosed
               /\ ops' = o /\ UNCHANGED <<connected, reconnectScheduled>>
            \/ /\ ~userClosed
               /\ connected' = FALSE /\ reconnectScheduled' = TRUE
               /\ \A h \in 1..Len(o), k \in Kinds :
                    /\ h = Len(o) /\ k = "reconnect" => ops'[h][k] = "inflight"
                    /\ k \notin {"ping", "reconnect"} => ops'[h][k] = o[h][k]
<1>1. CASE reconnectScheduled \/ userClosed
  BY <1>1 DEF HandleError, topicVars, linkVars, wireVars, TypeOK, LinkTyped
<1>2. CASE ~(reconnectScheduled \/ userClosed)
  <2>1. /\ Cancel(o, {"ping"}) \in OpsTable
        /\ Len(Cancel(o, {"ping"})) = Len(o)
        /\ \A h \in 1..Len(o), k \in Kinds : k # "ping" => Cancel(o, {"ping"})[h][k] = o[h][k]
    BY CancelOps
  <2>2. "reconnect" \in Kinds
    BY DEF Kinds
  <2>3. ops' = Start(Cancel(o, {"ping"}), "reconnect")
    BY <1>2 DEF HandleError
  <2>4. /\ ops' \in OpsTable /\ Len(ops') = Len(o)
        /\ \A h \in 1..Len(o), k \in Kinds :
             /\ h = Len(o) /\ k = "reconnect" => ops'[h][k] = "inflight"
             /\ k \notin {"ping", "reconnect"} => ops'[h][k] = o[h][k]
    <3> DEFINE quiet == Cancel(o, {"ping"})
    <3> HIDE DEF quiet
    <3>1. /\ Start(quiet, "reconnect") \in OpsTable
          /\ Len(Start(quiet, "reconnect")) = Len(quiet)
          /\ \A h \in 1..Len(quiet), k \in Kinds :
               Start(quiet, "reconnect")[h][k] =
                 IF h = Len(quiet) /\ k = "reconnect" THEN "inflight" ELSE quiet[h][k]
      BY <2>1, <2>2, StartOps DEF quiet
    <3>2. /\ Len(quiet) = Len(o)
          /\ \A h \in 1..Len(o), k \in Kinds : k # "ping" => quiet[h][k] = o[h][k]
      BY <2>1 DEF quiet
    <3>3. ops' = Start(quiet, "reconnect")
      BY <2>3 DEF quiet
    <3> QED BY <3>1, <3>2, <3>3
  <2>5. SocketClosed \in StreamStates
    BY DEF SocketClosed, StreamStates, TypeOK
  <2>6. reconnectDelayS' \in 1..ReconnectDelayMax
    <3>1. reconnectDelayS' = IF 2 * reconnectDelayS > ReconnectDelayMax
                             THEN ReconnectDelayMax ELSE 2 * reconnectDelayS
      BY <1>2 DEF HandleError
    <3>2. reconnectDelayS \in 1..ReconnectDelayMax
      BY DEF TypeOK
    <3> QED BY <3>1, <3>2 DEF ReconnectDelayMax
  <2>7. subscriptions' \subseteq Topics /\ pendingTopics' \subseteq Topics
    BY <1>2 DEF HandleError, TopicsBackToPending, Wanted, TypeOK
  <2>8. /\ outboundQueue' = <<>> /\ writeInFlight' = FALSE /\ connected' = FALSE
        /\ reconnectScheduled' = TRUE /\ stream' = SocketClosed
        /\ wire' = <<>> /\ serverTopics' = {} /\ userClosed' = userClosed
    BY <1>2 DEF HandleError
  <2>9. <<>> \in Seq(Messages) /\ ~userClosed
    BY <1>2
  <2> QED BY <2>4, <2>5, <2>6, <2>7, <2>8, <2>9 DEF LinkTyped
<1> QED
  BY <1>1, <1>2

\* startConnect() does nothing once closed; else it opens a generation of which
\* only the resolve is outstanding.
LEMMA StartConnectEffect ==
  ASSUME TypeOK, NEW o \in OpsTable, StartConnect(o)
  PROVE  /\ connected' \in BOOLEAN /\ writeInFlight' \in BOOLEAN
         /\ stream' \in StreamStates
         /\ wire' \in Seq(Messages) /\ serverTopics' \subseteq Topics
         /\ ops' \in OpsTable
         /\ \/ userClosed /\ ops' = o /\ connected' = connected
            \/ /\ ~userClosed /\ connected' = FALSE
               /\ Len(ops') = Len(o) + 1
               /\ ops'[Len(ops')] = NewGeneration
<1>1. CASE userClosed
  BY <1>1 DEF StartConnect, wireVars, TypeOK
<1>2. CASE ~userClosed
  <2>1. NewGeneration \in [Kinds -> OpStatus]
    BY DEF NewGeneration, OpStatus
  <2>2. ops' \in OpsTable /\ Len(ops') = Len(o) + 1 /\ ops'[Len(ops')] = NewGeneration
    <3> HIDE DEF NewGeneration
    <3> QED BY <1>2, <2>1 DEF StartConnect, OpsTable
  <2>3. <<>> \in Seq(Messages)
    OBVIOUS
  <2> QED BY <1>2, <2>2, <2>3 DEF StartConnect, StreamStates
<1> QED
  BY <1>1, <1>2

\* Running a handler takes it from the head of the strand.
LEMMA RunEffect ==
  ASSUME TypeOK, NEW name, Run(name)
  PROVE  /\ strand' \in Seq(Handlers)
         /\ Head(strand) \in Handlers /\ Head(strand).run = name
         /\ Len(strand) \in Nat /\ Len(strand) > 0
         /\ Head(strand) = strand[1]
         /\ Len(strand') = Len(strand) - 1
         /\ \A i \in 1..Len(strand') : strand'[i] = strand[i + 1]
BY HeadTailProperties, LenProperties, EmptySeq DEF Run, TypeOK

\* A completion of the current generation leaves its operation idle.
LEMMA CompletedEffect ==
  ASSUME TypeOK, NEW k \in Kinds, Completed(k)
  PROVE  /\ strand' \in Seq(Handlers)
         /\ generation \in Nat \ {0}
         /\ Op(k) \in Ended
         /\ Finished(k, generation) \in OpsTable
         /\ Len(Finished(k, generation)) = generation
         /\ \A h \in 1..generation, j \in Kinds :
              Finished(k, generation)[h][j] = IF h = generation /\ j = k THEN "idle" ELSE ops[h][j]
<1>1. Run(k) /\ Head(strand).arg = generation /\ Op(k) \in Ended
  BY DEF Completed
<1>2. strand' \in Seq(Handlers) /\ Head(strand) \in Handlers /\ Head(strand).run = k
  BY <1>1, RunEffect
<1>3. generation \in Nat \ {0}
  BY <1>1, <1>2 DEF Handlers, Posts, Kinds, Stages
<1>4. generation \in 1..generation /\ ops \in OpsTable
  BY <1>3 DEF TypeOK
<1> QED
  BY <1>1, <1>2, <1>3, <1>4, FinishedOps

\* The environment ends one operation and queues its handler.
LEMMA CompleteEffect ==
  ASSUME TypeOK, NEW k \in Kinds, NEW g \in 1..generation, NEW status \in Ended,
         Complete(k, g, status)
  PROVE  /\ strand' \in Seq(Handlers)
         /\ strand' = Append(strand, Handler(k, g))
         /\ ops' \in OpsTable
         /\ Len(ops') = generation
         /\ ops[g][k] = "inflight" \/ (ops[g][k] = "cancelled" /\ status = "failed")
         /\ \A h \in 1..generation, j \in Kinds :
              ops'[h][j] = IF h = g /\ j = k THEN status ELSE ops[h][j]
<1>1. status \in OpStatus /\ ops \in OpsTable /\ generation \in Nat
  BY LenProperties DEF Ended, OpStatus, TypeOK, OpsTable, generation
<1>2. ops' = Mark(ops, g, k, status)
  BY DEF Complete
<1>3. Handler(k, g) \in Handlers
  BY <1>1 DEF Handler, Handlers
<1>4. strand' \in Seq(Handlers) /\ strand' = Append(strand, Handler(k, g))
  BY <1>3, AppendProperties DEF Complete, TypeOK
<1> QED
  <2>1. g \in 1..Len(ops) /\ generation = Len(ops)
    BY DEF generation
  <2>2. /\ ops' \in OpsTable /\ Len(ops') = Len(ops)
        /\ \A h \in 1..Len(ops), j \in Kinds :
             ops'[h][j] = IF h = g /\ j = k THEN status ELSE ops[h][j]
    BY <1>1, <1>2, <2>1, MarkOp
  <2>3. ops[g][k] = "inflight" \/ (ops[g][k] = "cancelled" /\ status = "failed")
    BY DEF Complete
  <2> QED BY <1>4, <2>1, <2>2, <2>3

-----------------------------------------------------------------------------
(* Type correctness.                                                       *)

LEMMA TypeInit == Init => TypeOK
<1> SUFFICES ASSUME Init PROVE TypeOK
  OBVIOUS
<1>1. strand \in Seq(Handlers)
  <2>1. Handler("startConnect", NoTopic) \in Handlers
    BY DEF Handler, Handlers, Posts
  <2> QED BY <2>1 DEF Init
<1>2. /\ ops \in OpsTable /\ outboundQueue \in Seq(Messages) /\ wire \in Seq(Messages)
  BY EmptySeq DEF Init, OpsTable
<1> QED
  <2>1. caller \in [Callers -> Posts \cup {NoHandler}]
    BY DEF Init
  <2>2. /\ calls \in Nat /\ subscriptions \subseteq Topics /\ pendingTopics \subseteq Topics
        /\ writeInFlight \in BOOLEAN /\ connected \in BOOLEAN
        /\ reconnectScheduled \in BOOLEAN /\ reconnectDelayS \in 1..ReconnectDelayMax
        /\ userClosed \in BOOLEAN /\ stream \in StreamStates /\ quietPings \in Nat
        /\ serverTopics \subseteq Topics /\ failures \in Nat
    <3>1. /\ calls = 0 /\ subscriptions = {} /\ pendingTopics = {} /\ writeInFlight = FALSE
          /\ connected = FALSE /\ reconnectScheduled = FALSE /\ reconnectDelayS = 1
          /\ userClosed = FALSE /\ stream = "idle" /\ quietPings = 0
          /\ serverTopics = {} /\ failures = 0
      BY DEF Init
    <3>2. reconnectDelayS \in 1..ReconnectDelayMax /\ stream \in StreamStates
      BY <3>1 DEF ReconnectDelayMax, StreamStates
    <3>3. writeInFlight \in BOOLEAN /\ connected \in BOOLEAN
          /\ reconnectScheduled \in BOOLEAN /\ userClosed \in BOOLEAN
      BY <3>1
    <3>4. calls \in Nat /\ quietPings \in Nat /\ failures \in Nat
      BY <3>1
    <3>5. subscriptions \subseteq Topics /\ pendingTopics \subseteq Topics /\ serverTopics \subseteq Topics
      BY <3>1
    <3> QED BY <3>2, <3>3, <3>4, <3>5
  <2> QED BY <1>1, <1>2, <2>1, <2>2 DEF TypeOK

\* A step of a calling thread.
LEMMA TypeCallers ==
  ASSUME TypeOK, NEW c \in Callers, Call(c) \/ Post(c)
  PROVE  TypeOK'
<1> USE DEF TypeOK, strandVars, linkVars, wireVars, topicVars
<1>0. /\ Handler("flushTopics", NoTopic) \in Posts /\ Handler("closeByUser", NoTopic) \in Posts
      /\ \A t \in Topics : Handler("unsubscribe", t) \in Posts
  BY DEF Handler, Posts
<1>1. CASE Close(c)
  BY <1>0, <1>1 DEF Close
<1>2. ASSUME NEW t \in Topics, Subscribe(c, t) PROVE TypeOK'
  BY <1>0, <1>2 DEF Subscribe, AddTopic
<1>3. ASSUME NEW t \in Topics, Unsubscribe(c, t) PROVE TypeOK'
  BY <1>0, <1>3 DEF Unsubscribe, RemoveTopic
<1>4. CASE Post(c)
  <2>1. caller[c] \in Handlers
    BY <1>4 DEF Post, Handlers
  <2>2. strand' \in Seq(Handlers)
    BY <1>4, <2>1, AppendProperties DEF Post
  <2> QED BY <1>4, <2>2 DEF Post
<1> QED
  BY <1>1, <1>2, <1>3, <1>4 DEF Call

\* A handler that was posted.
LEMMA TypePosted ==
  ASSUME TypeOK, RunPosted
  PROVE  TypeOK'
<1>0. /\ ops \in OpsTable /\ writeInFlight \in BOOLEAN
  BY DEF TypeOK
<1>1. CASE RunStartConnect
  <2>1. strand' \in Seq(Handlers)
    BY <1>1, RunEffect DEF RunStartConnect
  <2>2. StartConnect(ops)
    BY <1>1 DEF RunStartConnect
  <2>3. /\ connected' \in BOOLEAN /\ writeInFlight' \in BOOLEAN /\ stream' \in StreamStates
        /\ wire' \in Seq(Messages) /\ serverTopics' \subseteq Topics /\ ops' \in OpsTable
    BY <1>0, <2>2, StartConnectEffect
  <2> QED BY <1>1, <2>1, <2>3 DEF RunStartConnect, TypeOK, clientVars, topicVars
<1>2. CASE RunFlushTopics
  <2>1. strand' \in Seq(Handlers)
    BY <1>2, RunEffect DEF RunFlushTopics
  <2>2. FlushTopics(ops, connected)
    BY <1>2 DEF RunFlushTopics
  <2>3. /\ subscriptions' \subseteq Topics /\ pendingTopics' \subseteq Topics
        /\ outboundQueue' \in Seq(Messages) /\ writeInFlight' \in BOOLEAN
        /\ wire' \in Seq(Messages) /\ ops' \in OpsTable
    BY <1>0, <2>2, FlushEffect
  <2> QED BY <1>2, <2>1, <2>3 DEF RunFlushTopics, TypeOK, clientVars, linkVars
<1>3. CASE RunUnsubscribe
  <2>1. strand' \in Seq(Handlers) /\ Head(strand) \in Handlers /\ Head(strand).run = "unsubscribe"
    BY <1>3, RunEffect DEF RunUnsubscribe
  <2>2. UnsubscribeMsg \in Messages
    BY <2>1 DEF UnsubscribeMsg, Messages, Handlers, Posts, Kinds, Stages
  <2>3. Append(outboundQueue, UnsubscribeMsg) \in Seq(Messages)
    BY <2>2, AppendProperties DEF TypeOK
  <2>4. /\ outboundQueue' \in Seq(Messages) /\ writeInFlight' \in BOOLEAN
        /\ wire' \in Seq(Messages) /\ ops' \in OpsTable
    <3>1. CASE connected
      <4>1. Pump(ops, Append(outboundQueue, UnsubscribeMsg), writeInFlight, connected)
        BY <1>3, <3>1 DEF RunUnsubscribe, SendUnsubscribe
      <4> QED BY <1>0, <2>3, <4>1, PumpEffect
    <3>2. CASE ~connected
      BY <1>3, <3>2 DEF RunUnsubscribe, SendUnsubscribe, TypeOK
    <3> QED BY <3>1, <3>2
  <2> QED BY <1>3, <2>1, <2>4 DEF RunUnsubscribe, TypeOK, clientVars, topicVars, linkVars
<1>4. CASE RunCloseByUser
  <2>1. strand' \in Seq(Handlers)
    BY <1>4, RunEffect DEF RunCloseByUser
  <2>2. /\ ops' \in OpsTable /\ stream' \in StreamStates
        /\ wire' \in Seq(Messages) /\ serverTopics' \subseteq Topics
    <3>1. Cancel(ops, {"ping", "reconnect", "resolve"}) \in OpsTable
      BY <1>0, CancelOps
    <3>2. SocketClosed \in StreamStates /\ "closing" \in StreamStates /\ <<>> \in Seq(Messages)
      BY DEF SocketClosed, StreamStates, TypeOK
    <3> QED BY <1>4, <3>1, <3>2 DEF RunCloseByUser, TypeOK, wireVars
  <2> QED BY <1>4, <2>1, <2>2 DEF RunCloseByUser, TypeOK, clientVars, topicVars
<1> QED
  BY <1>1, <1>2, <1>3, <1>4 DEF RunPosted

\* A completion handler of the current generation, or a stale one.
LEMMA TypeCompletion ==
  ASSUME TypeOK, RunCompletion
  PROVE  TypeOK'
<1>0. writeInFlight \in BOOLEAN /\ quietPings \in Nat /\ outboundQueue \in Seq(Messages)
  BY DEF TypeOK
<1>k. /\ {"resolve", "connect", "tls", "handshake", "read", "write", "ping", "reconnect"} \subseteq Kinds
      /\ Ended \subseteq OpStatus
  BY DEF Kinds, Stages, Ended, OpStatus
<1>1. ASSUME NEW k \in Kinds, NEW next \in Kinds, AfterStage(k, next) PROVE TypeOK'
  <2>1. strand' \in Seq(Handlers) /\ Finished(k, generation) \in OpsTable
    BY <1>1, CompletedEffect DEF AfterStage
  <2>2. CASE StageGivesUp(k, next)
    <3>1. HandleError(Finished(k, generation), writeInFlight)
      BY <2>2 DEF StageGivesUp
    <3>2. LinkTyped' /\ userClosed' = userClosed
      BY <1>0, <2>1, <3>1, HandleErrorEffect
    <3> QED BY <1>1, <2>1, <3>2 DEF AfterStage, Unheard, clientVars, TypeOK, LinkTyped
  <2>3. CASE NextStage(k, next)
    <3>1. ops' \in OpsTable
      BY <2>1, <2>3, StartOps DEF NextStage
    <3>2. stream' \in StreamStates
      BY <2>3 DEF NextStage, StreamStates, TypeOK
    <3> QED BY <1>1, <2>1, <2>3, <3>1, <3>2
              DEF AfterStage, Unheard, NextStage, clientVars, topicVars, linkVars, wireVars, TypeOK
  <2> QED BY <1>1, <2>2, <2>3 DEF AfterStage
<1>2. CASE OnHandshake
  <2> DEFINE o == Finished("handshake", generation)
  <2>1. strand' \in Seq(Handlers) /\ o \in OpsTable
    BY <1>2, <1>k, CompletedEffect DEF OnHandshake
  <2>2. CASE HandleError(o, writeInFlight) /\ UNCHANGED quietPings
    <3> HIDE DEF o
    <3>1. LinkTyped' /\ userClosed' = userClosed
      BY <1>0, <2>1, <2>2, HandleErrorEffect
    <3> QED BY <1>2, <2>1, <2>2, <3>1 DEF OnHandshake, clientVars, TypeOK, LinkTyped
  <2>3. CASE Accept(o)
    <3>1. CASE userClosed
      <4> HIDE DEF o
      <4> QED BY <1>2, <2>1, <2>3, <3>1
                DEF OnHandshake, Accept, clientVars, connVars, topicVars, linkVars, wireVars, TypeOK
    <3>2. CASE Connected(o)
      <4> DEFINE armed == Start(Start(Cancel(o, {"ping"}), "ping"), "read")
      <4> HIDE DEF o
      <4>1. armed \in OpsTable
        BY <1>k, <2>1, CancelOps, StartOps
      <4>2. FlushTopics(armed, TRUE)
        BY <3>2 DEF Connected
      <4> HIDE DEF armed
      <4>3. /\ subscriptions' \subseteq Topics /\ pendingTopics' \subseteq Topics
            /\ outboundQueue' \in Seq(Messages) /\ writeInFlight' \in BOOLEAN
            /\ wire' \in Seq(Messages) /\ ops' \in OpsTable
        BY <4>1, <4>2, FlushEffect
      <4>4. reconnectDelayS' \in 1..ReconnectDelayMax /\ quietPings' \in Nat /\ connected' \in BOOLEAN
        BY <3>2 DEF Connected, DelayReset, ReconnectDelayMax
      <4> QED BY <1>2, <2>1, <3>2, <4>3, <4>4 DEF OnHandshake, Connected, clientVars, TypeOK
    <3> QED BY <2>3, <3>1, <3>2 DEF Accept
  <2> QED BY <1>2, <2>2, <2>3 DEF OnHandshake
<1>3. CASE OnRead
  <2> DEFINE o == Finished("read", generation)
  <2>1. strand' \in Seq(Handlers) /\ o \in OpsTable /\ quietPings' \in Nat
    BY <1>0, <1>3, <1>k, CompletedEffect DEF OnRead
  <2>2. CASE HandleError(o, writeInFlight)
    <3> HIDE DEF o
    <3>1. LinkTyped' /\ userClosed' = userClosed
      BY <1>0, <2>1, <2>2, HandleErrorEffect
    <3> QED BY <1>3, <2>1, <3>1 DEF OnRead, clientVars, TypeOK, LinkTyped
  <2>3. CASE UNCHANGED connVars /\ (ops' = o \/ ops' = Start(o, "read"))
    <3> HIDE DEF o
    <3>1. Start(o, "read") \in OpsTable
      BY <1>k, <2>1, StartTyped
    <3>2. ops' \in OpsTable
      BY <2>1, <2>3, <3>1
    <3> QED BY <1>3, <2>1, <2>3, <3>2
              DEF OnRead, clientVars, connVars, topicVars, linkVars, wireVars, TypeOK
  <2> QED BY <1>3, <2>2, <2>3 DEF OnRead
<1>4. CASE OnWrite
  <2> DEFINE o == Finished("write", generation)
  <2>1. strand' \in Seq(Handlers) /\ o \in OpsTable
    BY <1>4, <1>k, CompletedEffect DEF OnWrite
  <2>2. CASE HandleError(o, FALSE)
    <3> HIDE DEF o
    <3>1. LinkTyped' /\ userClosed' = userClosed
      BY <2>1, <2>2, HandleErrorEffect
    <3> QED BY <1>4, <2>1, <3>1 DEF OnWrite, Unheard, clientVars, TypeOK, LinkTyped
  <2>3. CASE /\ Pump(o, outboundQueue, FALSE, connected)
             /\ UNCHANGED <<topicVars, linkVars, stream, serverTopics>>
    <3> HIDE DEF o
    <3>1. /\ outboundQueue' \in Seq(Messages) /\ writeInFlight' \in BOOLEAN
          /\ wire' \in Seq(Messages) /\ ops' \in OpsTable
      BY <1>0, <2>1, <2>3, PumpEffect
    <3> QED BY <1>4, <2>1, <2>3, <3>1 DEF OnWrite, Unheard, clientVars, topicVars, linkVars, TypeOK
  <2> QED BY <1>4, <2>2, <2>3 DEF OnWrite
<1>5. CASE OnPingTimer
  <2> DEFINE o == Finished("ping", generation)
             n == IF stream = "open" THEN 0 ELSE quietPings + 1
  <2>1. strand' \in Seq(Handlers) /\ o \in OpsTable /\ n \in Nat
    BY <1>0, <1>5, <1>k, CompletedEffect DEF OnPingTimer
  <2>2. CASE UNCHANGED <<connVars, quietPings>> /\ (ops' = o \/ ops' = Start(o, "ping"))
    <3> HIDE DEF o, n
    <3>1. Start(o, "ping") \in OpsTable
      BY <1>k, <2>1, StartTyped
    <3>2. ops' \in OpsTable
      BY <2>1, <2>2, <3>1
    <3> QED BY <1>5, <2>1, <2>2, <3>2
              DEF OnPingTimer, clientVars, connVars, topicVars, linkVars, wireVars, TypeOK
  <2>3. CASE PeerSilent(o, n)
    <3> HIDE DEF o, n
    <3>1. HandleError(o, writeInFlight) /\ quietPings' \in Nat
      BY <2>1, <2>3 DEF PeerSilent
    <3>2. LinkTyped' /\ userClosed' = userClosed
      BY <1>0, <2>1, <3>1, HandleErrorEffect
    <3> QED BY <1>5, <2>1, <3>1, <3>2 DEF OnPingTimer, clientVars, TypeOK, LinkTyped
  <2>4. CASE PingRound(o, n)
    <3> HIDE DEF o, n
    <3>1. Start(o, "ping") \in OpsTable /\ Append(outboundQueue, Ping) \in Seq(Messages)
      BY <1>0, <1>k, <2>1, StartOps, AppendProperties DEF Ping, Messages
    <3>2. /\ outboundQueue' \in Seq(Messages) /\ writeInFlight' \in BOOLEAN
          /\ wire' \in Seq(Messages) /\ ops' \in OpsTable
      BY <1>0, <2>4, <3>1, PumpEffect DEF PingRound
    <3> QED BY <1>5, <2>1, <2>4, <3>2
              DEF OnPingTimer, PingRound, clientVars, topicVars, linkVars, TypeOK
  <2> QED BY <1>5, <2>2, <2>3, <2>4 DEF OnPingTimer
<1>6. CASE OnReconnectTimer
  <2> DEFINE o == Finished("reconnect", generation)
  <2>1. strand' \in Seq(Handlers) /\ o \in OpsTable /\ reconnectScheduled' \in BOOLEAN
    BY <1>6, <1>k, CompletedEffect DEF OnReconnectTimer, ReconnectFlagCleared
  <2>2. CASE ops' = o /\ UNCHANGED <<connected, writeInFlight, stream, wireVars>>
    <3> HIDE DEF o
    <3> QED BY <1>6, <2>1, <2>2 DEF OnReconnectTimer, Unheard, clientVars, topicVars, wireVars, TypeOK
  <2>3. CASE StartConnect(o)
    <3> HIDE DEF o
    <3>1. /\ connected' \in BOOLEAN /\ writeInFlight' \in BOOLEAN /\ stream' \in StreamStates
          /\ wire' \in Seq(Messages) /\ serverTopics' \subseteq Topics /\ ops' \in OpsTable
      BY <2>1, <2>3, StartConnectEffect
    <3> QED BY <1>6, <2>1, <3>1 DEF OnReconnectTimer, Unheard, clientVars, topicVars, TypeOK
  <2> QED BY <1>6, <2>2, <2>3 DEF OnReconnectTimer
<1>7. ASSUME NEW g \in 1..generation, NEW k \in Kinds, DropStale(k, g) PROVE TypeOK'
  <2>1. strand' \in Seq(Handlers)
    BY <1>7, RunEffect DEF DropStale
  <2>2. ops' \in OpsTable
    BY <1>7, FinishedOps DEF DropStale, TypeOK
  <2> QED BY <1>7, <2>1, <2>2
            DEF DropStale, clientVars, connVars, topicVars, linkVars, wireVars, TypeOK
<1> QED
  BY <1>k, <1>1, <1>2, <1>3, <1>4, <1>5, <1>6, <1>7
     DEF RunCompletion, OnResolve, OnConnect, OnSSLHandshake

\* An operation ends: only the table, the strand, the stream and the failure
\* count change.
LEMMA TypeComplete ==
  ASSUME TypeOK, NEW k \in Kinds, NEW g \in 1..generation, NEW status \in Ended,
         Complete(k, g, status), stream' \in StreamStates, failures' \in Nat
  PROVE  TypeOK'
<1>1. strand' \in Seq(Handlers) /\ ops' \in OpsTable
  BY CompleteEffect
<1>2. UNCHANGED <<sessionVars, wireVars>>
  BY DEF Complete
<1> QED
  BY <1>1, <1>2 DEF sessionVars, clientVars, topicVars, linkVars, wireVars, TypeOK

\* A step of the environment.
LEMMA TypeEnvironment ==
  ASSUME TypeOK, Environment
  PROVE  TypeOK'
<1>k. /\ Stages \subseteq Kinds /\ {"read", "write", "ping", "reconnect"} \subseteq Kinds
      /\ {"ok", "bad", "failed"} \subseteq Ended
  BY DEF Kinds, Ended
<1>g. generation \in Nat /\ (generation > 0 => generation \in 1..generation)
  BY LenProperties DEF TypeOK, OpsTable, generation
<1>f. failures \in Nat /\ (MayFail => failures' \in Nat) /\ stream \in StreamStates
  BY DEF MayFail, TypeOK
<1>1. ASSUME NEW k \in Stages, StageSucceeds(k) PROVE TypeOK'
  <2>1. stream' \in StreamStates /\ failures' \in Nat
    BY <1>1, <1>f DEF StageSucceeds, StreamStates
  <2> QED BY <1>1, <1>g, <1>k, <2>1, TypeComplete DEF StageSucceeds
<1>2. ASSUME NEW k \in Stages, StageFails(k) PROVE TypeOK'
  <2>1. stream' \in StreamStates /\ failures' \in Nat
    BY <1>2, <1>f DEF StageFails
  <2> QED BY <1>2, <1>g, <1>k, <2>1, TypeComplete DEF StageFails
<1>3. CASE WriteSucceeds
  BY <1>3, <1>f, <1>g, <1>k, TypeComplete DEF WriteSucceeds
<1>4. ASSUME NEW g \in 1..generation, NEW k \in {"read", "write"}, TransferFails(k, g) PROVE TypeOK'
  <2>1. stream' \in StreamStates /\ failures' \in Nat
    BY <1>4, <1>f DEF TransferFails, StreamStates
  <2> QED BY <1>4, <1>k, <2>1, TypeComplete DEF TransferFails
<1>5. CASE ReconnectTimerExpires
  BY <1>5, <1>f, <1>g, <1>k, TypeComplete DEF ReconnectTimerExpires
<1>6. ASSUME NEW g \in 1..generation, PingTimerExpires(g) PROVE TypeOK'
  BY <1>6, <1>f, <1>k, TypeComplete DEF PingTimerExpires
<1>7. ASSUME NEW g \in 1..generation, NEW k \in {"ping", "reconnect"}, WaitAborted(k, g) PROVE TypeOK'
  BY <1>7, <1>f, <1>k, TypeComplete DEF WaitAborted
<1>8. ASSUME NEW status \in {"ok", "bad"}, MessageArrives(status) PROVE TypeOK'
  <2>1. stream' \in StreamStates /\ failures' \in Nat
    BY <1>8, <1>f DEF MessageArrives
  <2> QED BY <1>8, <1>g, <1>k, <2>1, TypeComplete DEF MessageArrives
<1>9. CASE ConnectionBreaks \/ PeerFallsSilent \/ CloseHandshakeEnds
  BY <1>9, <1>f, EmptySeq
     DEF ConnectionBreaks, PeerFallsSilent, CloseHandshakeEnds, sessionVars, clientVars,
         topicVars, linkVars, wireVars, TypeOK, StreamStates
<1>10. CASE ServerReceives
  <2>1. Head(wire) \in Messages /\ Tail(wire) \in Seq(Messages)
    BY <1>10, HeadTailProperties DEF ServerReceives, TypeOK
  <2>2. Head(wire).method = "subscribe" => Head(wire).topic \in Topics
    BY <2>1 DEF Messages
  <2>3. wire' \in Seq(Messages) /\ serverTopics' \subseteq Topics
    BY <1>10, <2>1, <2>2 DEF ServerReceives, TypeOK
  <2> QED BY <1>10, <2>3 DEF ServerReceives, sessionVars, clientVars, topicVars, linkVars, TypeOK
<1> QED
  BY <1>1, <1>2, <1>3, <1>4, <1>5, <1>6, <1>7, <1>8, <1>9, <1>10
     DEF Environment, StageEnds, TransferEnds, TimerExpires

\* Every step keeps the types.
LEMMA TypeStep == TypeOK /\ [Next]_vars => TypeOK'
<1> SUFFICES ASSUME TypeOK, [Next]_vars PROVE TypeOK'
  OBVIOUS
<1>1. CASE Next
  BY <1>1, TypeCallers, TypePosted, TypeCompletion, TypeEnvironment DEF Next
<1>2. CASE UNCHANGED vars
  BY <1>2 DEF vars, sessionVars, clientVars, topicVars, linkVars, wireVars, TypeOK
<1> QED
  BY <1>1, <1>2

\* The session's state keeps its types whatever threads and failures do.
THEOREM TypeCorrect == Spec => []TypeOK
<1>1. Init => TypeOK
  BY TypeInit
<1>2. TypeOK /\ [Next]_vars => TypeOK'
  BY TypeStep
<1> QED
  BY <1>1, <1>2, PTL DEF Spec

-----------------------------------------------------------------------------
(* Only close() stops the loop.  OnlyCloseStopsTheLoop is not inductive:   *)
(* that a handler of one kind does not undo the work of another takes      *)
(* OneAttemptAtATime, that an ignored error leaves a reconnect wait takes  *)
(* WaitPending, and that the first connect opens generation 1 StartFirst.  *)

StartFirst ==
  \A i \in 1..Len(strand) : strand[i].run = "startConnect" => i = 1 /\ generation = 0

NothingYet == generation = 0 => ~connected /\ ~reconnectScheduled

WaitPending ==
  reconnectScheduled /\ ~userClosed => generation > 0 /\ Op("reconnect") \in {"inflight", "ok"}

LoopInv ==
  /\ StartFirst
  /\ NothingYet
  /\ WaitPending
  /\ OneAttemptAtATime
  /\ OnlyCloseStopsTheLoop

\* OnlyCloseStopsTheLoop once the first connect has run.
LoopAlive ==
  \/ userClosed
  \/ /\ generation > 0
     /\ \/ \E k \in Stages : Op(k) # "idle"
        \/ connected /\ Op("read") # "idle"
        \/ reconnectScheduled /\ Op("reconnect") \in {"inflight", "ok"}

\* Once a handler other than the first connect runs, that one is gone.
LEMMA StartGone ==
  ASSUME TypeOK, LoopInv, NEW name, name # "startConnect", Run(name)
  PROVE  LoopAlive /\ StartFirst'
<1>1. /\ Head(strand).run = name /\ Head(strand) = strand[1]
      /\ Len(strand) \in Nat /\ Len(strand) > 0 /\ Len(strand') = Len(strand) - 1
      /\ \A i \in 1..Len(strand') : strand'[i] = strand[i + 1]
  BY RunEffect
<1>2. \A i \in 1..Len(strand) : strand[i].run # "startConnect"
  BY <1>1 DEF LoopInv, StartFirst
<1>3. StartFirst'
  BY <1>1, <1>2 DEF StartFirst
<1>4. DOMAIN strand = 1..Len(strand)
  BY LenProperties DEF TypeOK
<1> QED
  BY <1>2, <1>3, <1>4 DEF LoopInv, OnlyCloseStopsTheLoop, LoopAlive

\* What is left to show of such a handler.
LEMMA AfterRun ==
  ASSUME StartFirst', NothingYet', WaitPending', OneAttemptAtATime', LoopAlive'
  PROVE  LoopInv'
BY DEF LoopInv, OnlyCloseStopsTheLoop, LoopAlive

\* handleError() by the handler of operation k.
LEMMA LoopHandleError ==
  ASSUME TypeOK, LoopInv, NEW k \in Kinds \ {"reconnect"}, Completed(k),
         NEW busy \in BOOLEAN, HandleError(Finished(k, generation), busy)
  PROVE  LoopInv'
<1> DEFINE o == Finished(k, generation)
<1>1. /\ generation \in Nat \ {0} /\ o \in OpsTable /\ Len(o) = generation
      /\ Op(k) # "idle"
      /\ \A j \in Kinds : o[generation][j] = IF j = k THEN "idle" ELSE Op(j)
  BY CompletedEffect DEF Ended, Op
<1>2. k # "startConnect" /\ "reconnect" \in Kinds /\ Stages \subseteq Kinds /\ "reconnect" \notin Stages
      /\ "ping" \notin Stages
  BY DEF Kinds, Stages
<1>3. LoopAlive /\ StartFirst'
  BY <1>2, StartGone DEF Completed
<1>4. HandleError(o, busy)
  OBVIOUS
<1> HIDE DEF o
<1>5. /\ Len(ops') = generation
      /\ userClosed' = userClosed
      /\ \/ /\ reconnectScheduled \/ userClosed
            /\ ops' = o /\ UNCHANGED <<connected, reconnectScheduled>>
         \/ /\ ~userClosed
            /\ connected' = FALSE /\ reconnectScheduled' = TRUE
            /\ ops'[generation]["reconnect"] = "inflight"
            /\ \A j \in Kinds : j \notin {"ping", "reconnect"} => ops'[generation][j] = o[generation][j]
  <2>1. /\ Len(ops') = Len(o)
        /\ userClosed' = userClosed
        /\ \/ /\ reconnectScheduled \/ userClosed
              /\ ops' = o /\ UNCHANGED <<connected, reconnectScheduled>>
           \/ /\ ~userClosed
              /\ connected' = FALSE /\ reconnectScheduled' = TRUE
              /\ \A h \in 1..Len(o), j \in Kinds :
                   /\ h = Len(o) /\ j = "reconnect" => ops'[h][j] = "inflight"
                   /\ j \notin {"ping", "reconnect"} => ops'[h][j] = o[h][j]
    BY <1>1, <1>4, HandleErrorEffect
  <2>2. generation \in 1..Len(o) /\ generation = Len(o)
    BY <1>1
  <2> QED BY <1>2, <2>1, <2>2
<1>6. generation' = generation
  BY <1>5 DEF generation
<1>7. CASE /\ reconnectScheduled \/ userClosed
           /\ ops' = o /\ UNCHANGED <<connected, reconnectScheduled>>
  <2>1. \A j \in Kinds : Op(j)' = IF j = k THEN "idle" ELSE Op(j)
    BY <1>1, <1>6, <1>7 DEF Op
  <2>2. NothingYet' /\ WaitPending' /\ LoopAlive'
    BY <1>1, <1>2, <1>5, <1>6, <1>7, <2>1 DEF NothingYet, WaitPending, LoopAlive, LoopInv
  <2>3. OneAttemptAtATime'
    BY <1>1, <1>2, <1>6, <1>7, <2>1 DEF OneAttemptAtATime, LoopInv
  <2> QED BY <1>3, <2>2, <2>3, AfterRun
<1>8. CASE /\ ~userClosed
           /\ connected' = FALSE /\ reconnectScheduled' = TRUE
           /\ ops'[generation]["reconnect"] = "inflight"
           /\ \A j \in Kinds : j \notin {"ping", "reconnect"} => ops'[generation][j] = o[generation][j]
  <2>1. \A j \in Stages : j # k => Op(j) = "idle"
    BY <1>1, <1>2 DEF OneAttemptAtATime, LoopInv
  <2>2. \A j \in Stages : Op(j)' = "idle"
    BY <1>1, <1>2, <1>6, <1>8, <2>1 DEF Op
  <2>3. Op("reconnect")' = "inflight"
    BY <1>6, <1>8 DEF Op
  <2>4. NothingYet' /\ WaitPending' /\ LoopAlive' /\ OneAttemptAtATime'
    BY <1>1, <1>6, <1>8, <2>2, <2>3 DEF NothingYet, WaitPending, LoopAlive, OneAttemptAtATime
  <2> QED BY <1>3, <2>4, AfterRun
<1> QED
  BY <1>5, <1>7, <1>8

\* A handler that keeps the flags and, of the table, only ends operation k or
\* touches the read, the write and the ping while the session is connected.
LEMMA LoopKeepsGoing ==
  ASSUME TypeOK, LoopInv, LoopAlive, StartFirst', generation' = generation,
         UNCHANGED <<connected, reconnectScheduled, userClosed>>,
         generation > 0 =>
           /\ \A j \in Stages \cup {"reconnect"} : Op(j)' = Op(j)
           /\ \A j \in {"read", "write", "ping"} : Op(j)' # "idle" => connected \/ Op(j) # "idle"
           /\ connected /\ Op("read") # "idle" /\ ~reconnectScheduled => Op("read")' # "idle"
  PROVE  LoopInv'
<1>1. NothingYet' /\ WaitPending'
  BY DEF LoopInv, NothingYet, WaitPending, Stages
<1>2. LoopAlive'
  BY DEF LoopInv, LoopAlive, WaitPending
<1>3. OneAttemptAtATime'
  BY DEF LoopInv, OneAttemptAtATime, Kinds
<1> QED
  BY <1>1, <1>2, <1>3, AfterRun

\* A step that runs no handler: the strand grows at most, no operation becomes
\* or ceases to be idle, and the reconnect wait is not lost.
LEMMA LoopUndisturbed ==
  ASSUME TypeOK, LoopInv, generation' = generation,
         UNCHANGED <<connected, reconnectScheduled, userClosed>>,
         \/ strand' = strand
         \/ \E h \in Handlers : h.run # "startConnect" /\ strand' = Append(strand, h),
         generation > 0 =>
           /\ \A j \in Kinds : Op(j)' = "idle" <=> Op(j) = "idle"
           /\ Op("reconnect") \in {"inflight", "ok"} => Op("reconnect")' \in {"inflight", "ok"}
  PROVE  LoopInv'
<1>1. Len(strand) \in Nat /\ DOMAIN strand = 1..Len(strand)
  BY LenProperties DEF TypeOK
<1>2. /\ Len(strand') \in Nat /\ DOMAIN (strand') = 1..Len(strand')
      /\ \A i \in 1..Len(strand) : i \in 1..Len(strand') /\ strand'[i] = strand[i]
      /\ \A i \in 1..Len(strand') : strand'[i].run = "startConnect" => i \in 1..Len(strand)
  <2>1. CASE strand' = strand
    BY <1>1, <2>1
  <2>2. CASE \E h \in Handlers : h.run # "startConnect" /\ strand' = Append(strand, h)
    <3>1. PICK h \in Handlers : h.run # "startConnect" /\ strand' = Append(strand, h)
      BY <2>2
    <3>2. /\ Len(strand') = Len(strand) + 1 /\ strand' \in Seq(Handlers)
          /\ \A i \in 1..Len(strand) : strand'[i] = strand[i]
          /\ strand'[Len(strand) + 1] = h
      BY <3>1, AppendProperties DEF TypeOK
    <3>3. DOMAIN (strand') = 1..Len(strand') /\ Len(strand') \in Nat
      BY <3>2, LenProperties
    <3>4. \A i \in 1..Len(strand') : i \in 1..Len(strand) \/ i = Len(strand) + 1
      BY <1>1, <3>2
    <3>5. strand'[Len(strand) + 1].run # "startConnect"
      BY <3>1, <3>2
    <3> QED BY <1>1, <3>2, <3>3, <3>4, <3>5
  <2> QED BY <2>1, <2>2
<1>3. StartFirst' /\ NothingYet' /\ WaitPending'
  BY <1>1, <1>2 DEF LoopInv, StartFirst, NothingYet, WaitPending
<1>4. OneAttemptAtATime'
  BY DEF LoopInv, OneAttemptAtATime, Kinds
<1>5. OnlyCloseStopsTheLoop'
  <2>1. CASE \E i \in DOMAIN strand : strand[i].run = "startConnect"
    <3>1. PICK i \in 1..Len(strand) : strand[i].run = "startConnect"
      BY <1>1, <2>1
    <3>2. i \in 1..Len(strand') /\ strand'[i] = strand[i]
      BY <1>1, <1>2
    <3>3. (\E j \in DOMAIN strand : strand[j].run = "startConnect")'
      BY <1>2, <3>1, <3>2
    <3> QED BY <3>3 DEF OnlyCloseStopsTheLoop
  <2>2. CASE ~ \E i \in DOMAIN strand : strand[i].run = "startConnect"
    BY <2>2 DEF LoopInv, OnlyCloseStopsTheLoop, Kinds
  <2> QED BY <2>1, <2>2
<1> QED
  BY <1>3, <1>4, <1>5 DEF LoopInv

LEMMA LoopInit == Init => LoopInv
<1> SUFFICES ASSUME Init PROVE LoopInv
  OBVIOUS
<1>1. /\ strand = <<Handler("startConnect", NoTopic)>> /\ generation = 0
      /\ ~connected /\ ~reconnectScheduled
  BY DEF Init, generation
<1>2. Len(strand) = 1 /\ DOMAIN strand = 1..1 /\ strand[1].run = "startConnect"
  BY <1>1 DEF Handler
<1> QED
  BY <1>1, <1>2
     DEF LoopInv, StartFirst, NothingYet, WaitPending, OneAttemptAtATime, OnlyCloseStopsTheLoop

\* Calls and their posts.
LEMMA LoopCallers ==
  ASSUME TypeOK, LoopInv, NEW c \in Callers, Call(c) \/ Post(c)
  PROVE  LoopInv'
<1>1. UNCHANGED <<ops, connected, reconnectScheduled, userClosed>>
  BY DEF Call, Close, Subscribe, Unsubscribe, Post, strandVars, linkVars
<1>2. \/ strand' = strand
      \/ \E h \in Handlers : h.run # "startConnect" /\ strand' = Append(strand, h)
  <2>1. CASE Call(c)
    BY <2>1 DEF Call, Close, Subscribe, Unsubscribe
  <2>2. CASE Post(c)
    <3>1. caller[c] \in Posts /\ strand' = Append(strand, caller[c])
      BY <2>2 DEF Post, TypeOK
    <3>2. \A h \in Posts : h \in Handlers /\ h.run # "startConnect"
      BY DEF Posts, Handlers
    <3> QED BY <3>1, <3>2
  <2> QED BY <2>1, <2>2
<1>3. generation' = generation /\ \A j \in Kinds \cup {"reconnect"} : Op(j)' = Op(j)
  BY <1>1 DEF generation, Op
<1> QED
  BY <1>1, <1>2, <1>3, LoopUndisturbed DEF Kinds

\* The first connect.
LEMMA LoopStartConnect ==
  ASSUME TypeOK, LoopInv, RunStartConnect
  PROVE  LoopInv'
<1>1. /\ Head(strand).run = "startConnect" /\ Head(strand) = strand[1]
      /\ Len(strand) \in Nat /\ Len(strand) > 0 /\ Len(strand') = Len(strand) - 1
      /\ \A i \in 1..Len(strand') : strand'[i] = strand[i + 1]
  BY RunEffect DEF RunStartConnect
<1>2. generation = 0 /\ ~connected /\ ~reconnectScheduled
  BY <1>1 DEF LoopInv, StartFirst, NothingYet
<1>3. StartFirst'
  <2>1. \A i \in 1..Len(strand') : strand'[i].run # "startConnect"
    BY <1>1 DEF LoopInv, StartFirst
  <2> QED BY <2>1 DEF StartFirst
<1>4. /\ reconnectScheduled' = FALSE /\ userClosed' = userClosed
      /\ \/ userClosed /\ ops' = ops /\ connected' = connected
         \/ connected' = FALSE /\ Len(ops') = 1 /\ ops'[1] = NewGeneration
  <2>1. ops \in OpsTable /\ Len(ops) = 0 /\ StartConnect(ops)
    BY <1>2 DEF TypeOK, RunStartConnect, generation
  <2>2. \/ userClosed /\ ops' = ops /\ connected' = connected
        \/ /\ ~userClosed /\ connected' = FALSE
           /\ Len(ops') = Len(ops) + 1 /\ ops'[Len(ops')] = NewGeneration
    BY <2>1, StartConnectEffect
  <2> QED BY <1>2, <2>1, <2>2 DEF RunStartConnect, TypeOK
<1>5. CASE userClosed /\ ops' = ops /\ connected' = connected
  BY <1>2, <1>3, <1>4, <1>5, AfterRun
     DEF NothingYet, WaitPending, OneAttemptAtATime, LoopAlive, generation
<1>6. CASE connected' = FALSE /\ Len(ops') = 1 /\ ops'[1] = NewGeneration
  <2>1. generation' = 1 /\ \A j \in Kinds : Op(j)' = IF j = "resolve" THEN "inflight" ELSE "idle"
    BY <1>6 DEF generation, Op, NewGeneration
  <2>2. NothingYet' /\ WaitPending' /\ OneAttemptAtATime' /\ LoopAlive'
    BY <1>4, <1>6, <2>1
       DEF NothingYet, WaitPending, OneAttemptAtATime, LoopAlive, Kinds, Stages
  <2> QED BY <1>3, <2>2, AfterRun
<1> QED
  BY <1>4, <1>5, <1>6

\* The other posted handlers.
LEMMA LoopPosted ==
  ASSUME TypeOK, LoopInv, RunFlushTopics \/ RunUnsubscribe \/ RunCloseByUser
  PROVE  LoopInv'
<1>0. LoopAlive /\ StartFirst'
  BY StartGone DEF RunFlushTopics, RunUnsubscribe, RunCloseByUser
<1>g. /\ generation \in Nat /\ ops \in OpsTable /\ generation = Len(ops)
      /\ (generation > 0 => generation \in 1..Len(ops))
      /\ Stages \cup {"reconnect", "read", "write", "ping"} \subseteq Kinds
      /\ "write" \notin Stages /\ outboundQueue \in Seq(Messages) /\ writeInFlight \in BOOLEAN
  BY LenProperties DEF TypeOK, OpsTable, generation, Kinds, Stages
<1>1. CASE RunFlushTopics \/ RunUnsubscribe
  <2>1. UNCHANGED <<connected, reconnectScheduled, userClosed>>
    BY <1>1 DEF RunFlushTopics, RunUnsubscribe, linkVars
  <2>2. OnlyWriteStarted(ops) /\ (connected \/ ops' = ops)
    <3>1. CASE RunFlushTopics
      <4>1. FlushTopics(ops, connected)
        BY <3>1 DEF RunFlushTopics
      <4>2. OnlyWriteStarted(ops)
        BY <1>g, <4>1, FlushEffect
      <4> QED BY <4>1, <4>2, FlushDown
    <3>2. CASE RunUnsubscribe
      <4>1. CASE connected
        <5> DEFINE queue == Append(outboundQueue, UnsubscribeMsg)
        <5>1. Head(strand) \in Handlers /\ Head(strand).run = "unsubscribe"
          BY <3>2, RunEffect DEF RunUnsubscribe
        <5>2. UnsubscribeMsg \in Messages
          BY <5>1 DEF Handlers, Posts, Kinds, Stages, UnsubscribeMsg, Messages
        <5>3. queue \in Seq(Messages)
          BY <1>g, <5>2, AppendProperties
        <5>4. Pump(ops, queue, writeInFlight, connected)
          BY <3>2, <4>1 DEF RunUnsubscribe, SendUnsubscribe
        <5> HIDE DEF queue
        <5> QED BY <1>g, <4>1, <5>3, <5>4, PumpEffect
      <4>2. CASE ~connected
        BY <3>2, <4>2 DEF RunUnsubscribe, SendUnsubscribe, OnlyWriteStarted
      <4> QED BY <4>1, <4>2
    <3> QED BY <1>1, <3>1, <3>2
  <2>3. generation' = generation
    BY <2>2 DEF generation, OnlyWriteStarted
  <2>4. generation > 0 => \A j \in Kinds : j # "write" \/ ~connected => Op(j)' = Op(j)
    BY <1>g, <2>2, <2>3 DEF Op, OnlyWriteStarted, generation
  <2>5. generation > 0 =>
          /\ \A j \in Stages \cup {"reconnect"} : Op(j)' = Op(j)
          /\ \A j \in {"read", "write", "ping"} : Op(j)' # "idle" => connected \/ Op(j) # "idle"
          /\ connected /\ Op("read") # "idle" /\ ~reconnectScheduled => Op("read")' # "idle"
    BY <1>g, <2>4
  <2> QED BY <1>0, <2>1, <2>3, <2>5, LoopKeepsGoing
<1>2. CASE RunCloseByUser
  <2>1. /\ userClosed' = TRUE /\ UNCHANGED <<connected, reconnectScheduled>>
        /\ ops' = ops \/ ops' = Cancel(ops, {"ping", "reconnect", "resolve"})
    BY <1>2 DEF RunCloseByUser
  <2>2. /\ Len(ops') = Len(ops)
        /\ \A h \in 1..Len(ops), j \in Kinds : ops'[h][j] = "idle" <=> ops[h][j] = "idle"
    BY <1>g, <2>1, CancelOps
  <2>3. generation' = generation
    BY <2>2 DEF generation
  <2>4. generation > 0 => \A j \in Kinds : Op(j)' = "idle" <=> Op(j) = "idle"
    BY <1>g, <2>2, <2>3 DEF Op
  <2>5. OneAttemptAtATime'
    BY <1>g, <2>1, <2>3, <2>4 DEF LoopInv, OneAttemptAtATime
  <2>6. NothingYet' /\ WaitPending' /\ LoopAlive'
    BY <2>1, <2>3 DEF LoopInv, NothingYet, WaitPending, LoopAlive
  <2> QED BY <1>0, <2>5, <2>6, AfterRun
<1> QED
  BY <1>1, <1>2

\* A stage of the connect chain ended: the next one runs, or handleError waits
\* to reconnect.
LEMMA LoopStage ==
  ASSUME TypeOK, LoopInv, NEW k \in Stages, NEW next \in Stages, AfterStage(k, next)
  PROVE  LoopInv'
<1> DEFINE o == Finished(k, generation)
<1>1. /\ k \in Kinds \ {"reconnect"} /\ next \in Kinds /\ writeInFlight \in BOOLEAN
      /\ Stages \subseteq Kinds /\ k # "startConnect" /\ {"read", "reconnect"} \subseteq Kinds \ Stages
  BY DEF Kinds, Stages, TypeOK
<1>2. /\ generation \in Nat \ {0} /\ o \in OpsTable /\ Len(o) = generation /\ Op(k) # "idle"
      /\ \A j \in Kinds : o[generation][j] = IF j = k THEN "idle" ELSE Op(j)
  BY <1>1, CompletedEffect DEF AfterStage, Ended, Op
<1>3. CASE HandleError(o, writeInFlight)
  BY <1>1, <1>3, LoopHandleError DEF AfterStage
<1>4. CASE NextStage(k, next)
  <2>1. ops' = Start(o, next) /\ UNCHANGED <<connected, reconnectScheduled, userClosed>>
    BY <1>4 DEF NextStage, linkVars
  <2>2. StartFirst'
    BY <1>1, StartGone DEF AfterStage, Completed
  <2> HIDE DEF o
  <2>3. /\ Len(ops') = Len(o)
        /\ \A h \in 1..Len(o), j \in Kinds :
             ops'[h][j] = IF h = Len(o) /\ j = next THEN "inflight" ELSE o[h][j]
    <3>1. o \in OpsTable /\ next \in Kinds
      BY <1>1, <1>2
    <3>2. /\ Len(Start(o, next)) = Len(o)
          /\ \A h \in 1..Len(o), j \in Kinds :
               Start(o, next)[h][j] = IF h = Len(o) /\ j = next THEN "inflight" ELSE o[h][j]
      BY <3>1, StartOps
    <3> QED BY <2>1, <3>2
  <2>4. generation' = generation
    BY <1>2, <2>3 DEF generation
  <2>5. \A j \in Kinds : Op(j)' = IF j = next THEN "inflight" ELSE IF j = k THEN "idle" ELSE Op(j)
    <3>1. generation \in 1..Len(o)
      BY <1>2
    <3> QED BY <1>2, <2>3, <2>4, <3>1 DEF Op
  <2>6. ~connected /\ ~reconnectScheduled /\ \A j \in Kinds \ {k} : Op(j) = "idle"
    BY <1>2 DEF LoopInv, OneAttemptAtATime
  <2>7. NothingYet' /\ WaitPending' /\ LoopAlive'
    BY <1>1, <1>2, <2>1, <2>4, <2>5, <2>6 DEF NothingYet, WaitPending, LoopAlive
  <2>8. OneAttemptAtATime'
    BY <1>1, <1>2, <2>1, <2>4, <2>5, <2>6 DEF OneAttemptAtATime
  <2> QED BY <2>2, <2>7, <2>8, AfterRun
<1> QED
  BY <1>3, <1>4 DEF AfterStage, StageGivesUp

\* The TLS handshake is followed by the WebSocket one: once it is done the
\* ping wait and the read are armed.
LEMMA LoopHandshake ==
  ASSUME TypeOK, LoopInv, OnHandshake
  PROVE  LoopInv'
<1> DEFINE o == Finished("handshake", generation)
<1>1. /\ "handshake" \in Stages /\ Stages \subseteq Kinds /\ {"read", "ping"} \subseteq Kinds \ Stages
      /\ "handshake" \in Kinds \ {"reconnect"} /\ "reconnect" \notin Stages
      /\ writeInFlight \in BOOLEAN /\ Completed("handshake")
  BY DEF Kinds, Stages, TypeOK, OnHandshake
<1>2. /\ generation \in Nat \ {0} /\ o \in OpsTable /\ Len(o) = generation /\ Op("handshake") # "idle"
      /\ \A j \in Kinds : o[generation][j] = IF j = "handshake" THEN "idle" ELSE Op(j)
  BY <1>1, CompletedEffect DEF Ended, Op
<1>3. LoopAlive /\ StartFirst'
  BY <1>1, StartGone DEF Completed
<1>4. ~connected /\ ~reconnectScheduled /\ \A j \in Kinds \ {"handshake"} : Op(j) = "idle"
  BY <1>1, <1>2 DEF LoopInv, OneAttemptAtATime
<1>5. CASE HandleError(o, writeInFlight)
  BY <1>1, <1>5, LoopHandleError
<1>6. CASE userClosed /\ ops' = o /\ UNCHANGED connVars
  <2> HIDE DEF o
  <2>1. generation' = generation /\ UNCHANGED <<connected, reconnectScheduled, userClosed>>
    BY <1>2, <1>6 DEF generation, connVars, linkVars
  <2>2. \A j \in Kinds : Op(j)' = "idle"
    BY <1>2, <1>4, <1>6, <2>1 DEF Op
  <2>3. NothingYet' /\ WaitPending' /\ OneAttemptAtATime' /\ LoopAlive'
    BY <1>1, <1>6, <2>1, <2>2 DEF LoopInv, NothingYet, WaitPending, OneAttemptAtATime, LoopAlive
  <2> QED BY <1>3, <2>3, AfterRun
<1>7. CASE Connected(o)
  <2> HIDE DEF o
  <2> DEFINE armed == Start(Start(Cancel(o, {"ping"}), "ping"), "read")
  <2>1. connected' = TRUE /\ UNCHANGED <<reconnectScheduled, userClosed>> /\ FlushTopics(armed, TRUE)
    BY <1>7 DEF Connected
  <2>2. /\ Cancel(o, {"ping"}) \in OpsTable /\ Len(Cancel(o, {"ping"})) = Len(o)
        /\ \A h \in 1..Len(o), j \in Kinds : j # "ping" => Cancel(o, {"ping"})[h][j] = o[h][j]
    BY <1>2, CancelOps
  <2> DEFINE timed == Start(Cancel(o, {"ping"}), "ping")
  <2>3. /\ timed \in OpsTable /\ Len(timed) = Len(o)
        /\ \A h \in 1..Len(o), j \in Kinds : j # "ping" => timed[h][j] = o[h][j]
    BY <1>1, <2>2, StartOps
  <2>4. /\ armed \in OpsTable /\ Len(armed) = Len(o)
        /\ \A h \in 1..Len(o), j \in Kinds :
             /\ h = Len(o) /\ j = "read" => armed[h][j] = "inflight"
             /\ j \notin {"ping", "read"} => armed[h][j] = o[h][j]
    <3> HIDE DEF timed
    <3>1. armed = Start(timed, "read")
      BY DEF timed
    <3>2. /\ Start(timed, "read") \in OpsTable /\ Len(Start(timed, "read")) = Len(timed)
          /\ \A h \in 1..Len(timed), j \in Kinds :
               Start(timed, "read")[h][j] = IF h = Len(timed) /\ j = "read" THEN "inflight" ELSE timed[h][j]
      BY <1>1, <2>3, StartOps
    <3> QED BY <2>3, <3>1, <3>2
  <2> HIDE DEF armed
  <2>5. /\ Len(ops') = Len(armed)
        /\ \A h \in 1..Len(armed), j \in Kinds : j # "write" => ops'[h][j] = armed[h][j]
    <3>1. OnlyWriteStarted(armed)
      BY <2>1, <2>4, FlushEffect
    <3> QED BY <3>1 DEF OnlyWriteStarted
  <2>6. generation' = generation
    BY <1>2, <2>4, <2>5 DEF generation
  <2>7. generation \in 1..Len(o) /\ generation = Len(o)
    BY <1>2
  <2>8. Op("read")' = "inflight" /\ \A j \in Stages : Op(j)' = o[generation][j]
    <3>1. "write" \notin Stages
      BY DEF Stages
    <3> QED BY <1>1, <2>4, <2>5, <2>6, <2>7, <3>1 DEF Op
  <2>9. \A j \in Stages : Op(j)' = "idle"
    BY <1>1, <1>2, <1>4, <2>8
  <2>10. NothingYet' /\ WaitPending' /\ OneAttemptAtATime' /\ LoopAlive'
    BY <1>2, <1>4, <2>1, <2>6, <2>8, <2>9
       DEF NothingYet, WaitPending, OneAttemptAtATime, LoopAlive
  <2> QED BY <1>3, <2>10, AfterRun
<1> QED
  BY <1>5, <1>6, <1>7 DEF OnHandshake, Accept

\* The reconnect wait ended: startConnect(), unless it was cancelled by close().
LEMMA LoopReconnectTimer ==
  ASSUME TypeOK, LoopInv, OnReconnectTimer
  PROVE  LoopInv'
<1> DEFINE o == Finished("reconnect", generation)
<1>1. "reconnect" \in Kinds \ Stages /\ Stages \subseteq Kinds /\ "read" \in Kinds \ Stages
      /\ Completed("reconnect")
  BY DEF Kinds, Stages, OnReconnectTimer
<1>2. /\ generation \in Nat \ {0} /\ o \in OpsTable /\ Len(o) = generation /\ Op("reconnect") # "idle"
      /\ \A j \in Kinds : o[generation][j] = IF j = "reconnect" THEN "idle" ELSE Op(j)
  BY <1>1, CompletedEffect DEF Ended, Op
<1>3. LoopAlive /\ StartFirst'
  BY <1>1, StartGone DEF Completed
<1>4. reconnectScheduled' = FALSE /\ userClosed' = userClosed
  BY DEF OnReconnectTimer, ReconnectFlagCleared
<1>5. \A j \in Stages : Op(j) = "idle"
  BY <1>1, <1>2 DEF LoopInv, OneAttemptAtATime
<1>6. CASE ops' = o /\ connected' = connected /\ (Op("reconnect") = "failed" \/ userClosed)
  <2> HIDE DEF o
  <2>1. generation' = generation
    BY <1>2, <1>6 DEF generation
  <2>2. \A j \in Kinds : Op(j)' = IF j = "reconnect" THEN "idle" ELSE Op(j)
    BY <1>2, <1>6, <2>1 DEF Op
  <2>3. LoopAlive'
    BY <1>1, <1>3, <1>4, <1>5, <1>6, <2>1, <2>2 DEF LoopAlive
  <2>4. OneAttemptAtATime'
    BY <1>1, <1>5, <2>1, <2>2 DEF OneAttemptAtATime
  <2>5. NothingYet' /\ WaitPending'
    BY <1>2, <1>4, <2>1 DEF NothingYet, WaitPending
  <2> QED BY <1>3, <2>3, <2>4, <2>5, AfterRun
<1>7. CASE connected' = FALSE /\ Len(ops') = Len(o) + 1 /\ ops'[Len(ops')] = NewGeneration
  <2> HIDE DEF o
  <2>1. generation' = generation + 1
    BY <1>2, <1>7 DEF generation
  <2>2. \A j \in Kinds : Op(j)' = IF j = "resolve" THEN "inflight" ELSE "idle"
    BY <1>2, <1>7, <2>1 DEF Op, NewGeneration
  <2>3. NothingYet' /\ WaitPending' /\ OneAttemptAtATime' /\ LoopAlive'
    BY <1>2, <1>4, <1>7, <2>1, <2>2
       DEF NothingYet, WaitPending, OneAttemptAtATime, LoopAlive, Kinds, Stages
  <2> QED BY <1>3, <2>3, AfterRun
<1> QED
  <2>1. CASE Op("reconnect") = "failed"
    BY <1>6, <2>1 DEF OnReconnectTimer
  <2>2. CASE Op("reconnect") # "failed"
    <3>1. StartConnect(o)
      BY <2>2 DEF OnReconnectTimer
    <3>2. \/ userClosed /\ ops' = o /\ connected' = connected
          \/ /\ ~userClosed /\ connected' = FALSE
             /\ Len(ops') = Len(o) + 1 /\ ops'[Len(ops')] = NewGeneration
      <4> HIDE DEF o
      <4> QED BY <1>2, <3>1, StartConnectEffect
    <3> QED BY <1>6, <1>7, <3>2
  <2> QED BY <2>1, <2>2

\* A message, a written message and a ping leave the connection as it is.
LEMMA LoopTransfer ==
  ASSUME TypeOK, LoopInv, OnRead \/ OnWrite \/ OnPingTimer
  PROVE  LoopInv'
<1>k. /\ {"read", "write", "ping"} \subseteq Kinds \ {"reconnect"}
      /\ {"read", "write", "ping"} \subseteq Kinds \ (Stages \cup {"reconnect"})
      /\ Stages \cup {"reconnect"} \subseteq Kinds
      /\ writeInFlight \in BOOLEAN /\ outboundQueue \in Seq(Messages)
  BY DEF Kinds, Stages, TypeOK
<1>0. ASSUME NEW k \in {"read", "write", "ping"}, Completed(k)
      PROVE  /\ LoopAlive /\ StartFirst'
             /\ generation \in Nat \ {0} /\ Finished(k, generation) \in OpsTable
             /\ Len(Finished(k, generation)) = generation
             /\ \A j \in Kinds : Finished(k, generation)[generation][j] = IF j = k THEN "idle" ELSE Op(j)
             /\ Op(k) # "idle"
  <2>1. LoopAlive /\ StartFirst'
    BY <1>0, StartGone DEF Completed
  <2>2. k \in Kinds
    BY <1>k
  <2> QED BY <1>0, <2>1, <2>2, CompletedEffect DEF Ended, Op
<1>1. ASSUME NEW k \in {"read", "write", "ping"}, Completed(k),
             UNCHANGED <<connected, reconnectScheduled, userClosed>>,
             Len(ops') = generation,
             \A j \in Stages \cup {"reconnect"} : ops'[generation][j] = Op(j),
             \A j \in {"read", "write", "ping"} :
               ops'[generation][j] # "idle" => connected \/ Op(j) # "idle",
             connected /\ Op("read") # "idle" /\ ~reconnectScheduled => ops'[generation]["read"] # "idle"
      PROVE  LoopInv'
  <2>1. generation' = generation
    BY <1>1 DEF generation
  <2> QED BY <1>0, <1>1, <2>1, LoopKeepsGoing DEF Op
<1>2. CASE OnRead
  <2> DEFINE o == Finished("read", generation)
  <2>1. /\ Completed("read") /\ o \in OpsTable /\ Len(o) = generation /\ generation \in Nat \ {0}
        /\ \A j \in Kinds : o[generation][j] = IF j = "read" THEN "idle" ELSE Op(j)
    BY <1>0, <1>2 DEF OnRead
  <2>2. CASE HandleError(o, writeInFlight)
    BY <1>k, <2>1, <2>2, LoopHandleError
  <2>3. CASE /\ UNCHANGED <<connected, reconnectScheduled, userClosed>>
             /\ ops' = IF reconnectScheduled \/ ~connected THEN o ELSE Start(o, "read")
    <3> HIDE DEF o
    <3>1. /\ Len(Start(o, "read")) = Len(o)
          /\ \A h \in 1..Len(o), j \in Kinds :
               Start(o, "read")[h][j] = IF h = Len(o) /\ j = "read" THEN "inflight" ELSE o[h][j]
      BY <1>k, <2>1, StartOps
    <3>2. generation \in 1..Len(o) /\ generation = Len(o)
      BY <2>1
    <3>3. /\ Len(ops') = generation
          /\ \A j \in Kinds : j # "read" => ops'[generation][j] = Op(j)
          /\ ops'[generation]["read"] # "idle" => connected
          /\ connected /\ ~reconnectScheduled => ops'[generation]["read"] # "idle"
      BY <1>k, <2>1, <2>3, <3>1, <3>2
    <3> QED BY <1>k, <1>1, <2>1, <2>3, <3>3
  <2> QED BY <1>2, <2>2, <2>3 DEF OnRead, connVars, linkVars
<1>3. CASE OnWrite
  <2> DEFINE o == Finished("write", generation)
  <2>1. /\ Completed("write") /\ o \in OpsTable /\ Len(o) = generation /\ generation \in Nat \ {0}
        /\ \A j \in Kinds : o[generation][j] = IF j = "write" THEN "idle" ELSE Op(j)
    BY <1>0, <1>3 DEF OnWrite
  <2>2. CASE HandleError(o, FALSE)
    BY <1>k, <2>1, <2>2, LoopHandleError
  <2>3. CASE /\ UNCHANGED <<connected, reconnectScheduled, userClosed>>
             /\ Pump(o, outboundQueue, FALSE, connected)
    <3> HIDE DEF o
    <3>0. PICK busy \in BOOLEAN : Pump(o, outboundQueue, busy, connected) /\ o \in OpsTable
      BY <2>1, <2>3
    <3>1. OnlyWriteStarted(o) /\ (connected \/ ops' = o)
      <4>1. OnlyWriteStarted(o)
        BY <1>k, <3>0, PumpEffect
      <4>2. connected \/ ops' = o
        BY <3>0, PumpDown
      <4> QED BY <4>1, <4>2
    <3>2. generation \in 1..Len(o) /\ generation = Len(o)
      BY <2>1
    <3>3. /\ Len(ops') = generation
          /\ \A j \in Kinds : j # "write" => ops'[generation][j] = Op(j)
          /\ ops'[generation]["write"] # "idle" => connected
      BY <1>k, <2>1, <3>1, <3>2 DEF OnlyWriteStarted
    <3> QED BY <1>k, <1>1, <2>1, <2>3, <3>3
  <2> QED BY <1>3, <2>2, <2>3 DEF OnWrite, linkVars
<1>4. CASE OnPingTimer
  <2> DEFINE o == Finished("ping", generation)
             n == IF stream = "open" THEN 0 ELSE quietPings + 1
  <2>1. /\ Completed("ping") /\ o \in OpsTable /\ Len(o) = generation /\ generation \in Nat \ {0}
        /\ Op("ping") # "idle"
        /\ \A j \in Kinds : o[generation][j] = IF j = "ping" THEN "idle" ELSE Op(j)
    BY <1>0, <1>4 DEF OnPingTimer
  <2>2. /\ Start(o, "ping") \in OpsTable /\ Len(Start(o, "ping")) = Len(o)
        /\ \A h \in 1..Len(o), j \in Kinds :
             Start(o, "ping")[h][j] = IF h = Len(o) /\ j = "ping" THEN "inflight" ELSE o[h][j]
    <3> HIDE DEF o
    <3> QED BY <1>k, <2>1, StartOps
  <2>3. generation \in 1..Len(o) /\ generation = Len(o)
    BY <2>1
  <2>4. CASE HandleError(o, writeInFlight)
    BY <1>k, <2>1, <2>4, LoopHandleError
  <2>5. CASE /\ UNCHANGED <<connected, reconnectScheduled, userClosed>>
             /\ ops' = o \/ ops' = Start(o, "ping")
    <3> HIDE DEF o
    <3>1. Len(ops') = generation /\ \A j \in Kinds : j # "ping" => ops'[generation][j] = Op(j)
      BY <1>k, <2>1, <2>2, <2>3, <2>5
    <3> QED BY <1>k, <1>1, <2>1, <2>5, <3>1
  <2>6. CASE PingRound(o, n)
    <3> DEFINE started == Start(o, "ping")
               queue == Append(outboundQueue, Ping)
    <3>1. queue \in Seq(Messages)
      BY <1>k, AppendProperties DEF Ping, Messages
    <3>2. Pump(started, queue, writeInFlight, connected) /\ UNCHANGED <<connected, reconnectScheduled, userClosed>>
      BY <2>6 DEF PingRound, linkVars
    <3>3. /\ started \in OpsTable /\ Len(started) = generation /\ generation \in 1..Len(started)
          /\ \A j \in Kinds : j # "ping" => started[generation][j] = Op(j)
      BY <2>1, <2>2, <2>3
    <3> HIDE DEF o, n, started, queue
    <3>4. OnlyWriteStarted(started) /\ (connected \/ ops' = started)
      <4>1. OnlyWriteStarted(started)
        BY <1>k, <3>1, <3>2, <3>3, PumpEffect
      <4>2. connected \/ ops' = started
        BY <3>2, PumpDown
      <4> QED BY <4>1, <4>2
    <3>5. /\ Len(ops') = generation
          /\ \A j \in Kinds : j # "ping" /\ (j # "write" \/ ~connected) => ops'[generation][j] = Op(j)
      BY <3>3, <3>4 DEF OnlyWriteStarted
    <3>6. \A j \in Stages \cup {"read", "reconnect"} : ops'[generation][j] = Op(j)
      BY <1>k, <3>5 DEF Stages
    <3>7. \A j \in {"read", "write", "ping"} :
            ops'[generation][j] # "idle" => connected \/ Op(j) # "idle"
      BY <1>k, <2>1, <3>5
    <3> QED BY <1>1, <2>1, <3>2, <3>5, <3>6, <3>7
  <2> QED BY <1>4, <2>4, <2>5, <2>6 DEF OnPingTimer, PeerSilent, connVars, linkVars
<1> QED
  BY <1>2, <1>3, <1>4

\* A completion of an older generation changes that generation only.
LEMMA LoopStale ==
  ASSUME TypeOK, LoopInv, NEW g \in 1..generation, NEW k \in Kinds, DropStale(k, g)
  PROVE  LoopInv'
<1>1. k # "startConnect" /\ Run(k) /\ g < generation /\ ops' = Finished(k, g)
  BY DEF DropStale, Kinds, Stages
<1>2. LoopAlive /\ StartFirst'
  BY <1>1, StartGone
<1>3. UNCHANGED <<connected, reconnectScheduled, userClosed>>
  BY DEF DropStale, connVars, linkVars
<1>4. /\ generation \in Nat /\ ops \in OpsTable /\ Len(ops') = generation
      /\ \A h \in 1..generation, j \in Kinds : h # g => ops'[h][j] = ops[h][j]
  BY <1>1, FinishedOps, LenProperties DEF TypeOK, OpsTable, generation
<1>5. generation' = generation /\ \A j \in Kinds : Op(j)' = Op(j)
  <2>1. generation' = generation
    BY <1>4 DEF generation
  <2>2. generation \in 1..generation /\ generation # g
    BY <1>1, <1>4
  <2> QED BY <1>4, <2>1, <2>2 DEF Op
<1> QED
  BY <1>2, <1>3, <1>5, LoopKeepsGoing DEF Kinds

\* Asio ends an operation; only a cancelled reconnect wait fails.
LEMMA LoopComplete ==
  ASSUME TypeOK, LoopInv, NEW k \in Kinds, NEW g \in 1..generation, NEW status \in Ended,
         Complete(k, g, status),
         k = "reconnect" => status = "ok" \/ ops[g][k] = "cancelled"
  PROVE  LoopInv'
<1>1. /\ strand' = Append(strand, Handler(k, g)) /\ Len(ops') = generation
      /\ ops[g][k] = "inflight" \/ (ops[g][k] = "cancelled" /\ status = "failed")
      /\ \A h \in 1..generation, j \in Kinds :
           ops'[h][j] = IF h = g /\ j = k THEN status ELSE ops[h][j]
  BY CompleteEffect
<1>2. generation' = generation /\ generation \in Nat /\ "reconnect" \in Kinds
  BY <1>1, LenProperties DEF generation, TypeOK, OpsTable, Kinds
<1>3. UNCHANGED <<connected, reconnectScheduled, userClosed>>
  BY DEF Complete, sessionVars, linkVars
<1>4. \E h \in Handlers : h.run # "startConnect" /\ strand' = Append(strand, h)
  <2>1. Handler(k, g) \in Handlers /\ Handler(k, g).run # "startConnect"
    BY DEF Handler, Handlers, Kinds, Stages
  <2> QED BY <1>1, <2>1
<1>5. generation > 0 =>
        /\ \A j \in Kinds : Op(j)' = "idle" <=> Op(j) = "idle"
        /\ Op("reconnect") \in {"inflight", "ok"} => Op("reconnect")' \in {"inflight", "ok"}
  <2> SUFFICES ASSUME generation > 0
               PROVE  /\ \A j \in Kinds : Op(j)' = "idle" <=> Op(j) = "idle"
                      /\ Op("reconnect") \in {"inflight", "ok"} => Op("reconnect")' \in {"inflight", "ok"}
    OBVIOUS
  <2>1. \A j \in Kinds : Op(j)' = IF generation = g /\ j = k THEN status ELSE Op(j)
    BY <1>1, <1>2 DEF Op
  <2>2. generation = g => Op(k) = ops[g][k]
    BY DEF Op
  <2>3. generation = g => Op(k) \in {"inflight", "cancelled"} /\ (k = "reconnect" => status = "ok" \/ Op(k) = "cancelled")
    BY <1>1, <2>2
  <2>4. status # "idle"
    BY DEF Ended
  <2> QED BY <1>2, <2>1, <2>3, <2>4
<1> QED
  BY <1>2, <1>3, <1>4, <1>5, LoopUndisturbed

\* A step of the environment.
LEMMA LoopEnvironment ==
  ASSUME TypeOK, LoopInv, Environment
  PROVE  LoopInv'
<1>k. /\ Stages \subseteq Kinds \ {"reconnect"} /\ {"read", "write", "ping"} \subseteq Kinds \ {"reconnect"}
      /\ "reconnect" \in Kinds /\ {"ok", "bad", "failed"} \subseteq Ended
  BY DEF Kinds, Stages, Ended
<1>g. generation \in Nat /\ (generation > 0 => generation \in 1..generation)
  BY LenProperties DEF TypeOK, OpsTable, generation
<1>1. ASSUME NEW k \in Stages, StageSucceeds(k) \/ StageFails(k) PROVE LoopInv'
  BY <1>1, <1>g, <1>k, LoopComplete DEF StageSucceeds, StageFails
<1>2. CASE WriteSucceeds \/ ReconnectTimerExpires
  BY <1>2, <1>g, <1>k, LoopComplete DEF WriteSucceeds, ReconnectTimerExpires
<1>3. ASSUME NEW g \in 1..generation, NEW k \in {"read", "write"}, TransferFails(k, g) PROVE LoopInv'
  BY <1>3, <1>k, LoopComplete DEF TransferFails
<1>4. ASSUME NEW g \in 1..generation,
             PingTimerExpires(g) \/ WaitAborted("ping", g) \/ WaitAborted("reconnect", g)
      PROVE  LoopInv'
  BY <1>4, <1>k, LoopComplete DEF PingTimerExpires, WaitAborted
<1>5. ASSUME NEW status \in {"ok", "bad"}, MessageArrives(status) PROVE LoopInv'
  BY <1>5, <1>g, <1>k, LoopComplete DEF MessageArrives
<1>6. CASE ConnectionBreaks \/ PeerFallsSilent \/ CloseHandshakeEnds \/ ServerReceives
  <2>1. UNCHANGED <<strand, ops, connected, reconnectScheduled, userClosed>>
    BY <1>6
       DEF ConnectionBreaks, PeerFallsSilent, CloseHandshakeEnds, ServerReceives, sessionVars, linkVars
  <2> QED BY <2>1, LoopUndisturbed DEF generation, Op
<1> QED
  BY <1>1, <1>2, <1>3, <1>4, <1>5, <1>6 DEF Environment, StageEnds, TransferEnds, TimerExpires

\* Every step keeps the loop going.
LEMMA LoopStep == TypeOK /\ LoopInv /\ [Next]_vars => LoopInv'
<1> SUFFICES ASSUME TypeOK, LoopInv, [Next]_vars PROVE LoopInv'
  OBVIOUS
<1>1. CASE \E c \in Callers : Call(c) \/ Post(c)
  BY <1>1, LoopCallers
<1>2. CASE RunPosted
  BY <1>2, LoopStartConnect, LoopPosted DEF RunPosted
<1>3. CASE RunCompletion
  <2>1. CASE OnResolve \/ OnConnect \/ OnSSLHandshake
    <3>1. {"resolve", "connect", "tls", "handshake"} \subseteq Stages
      BY DEF Stages
    <3> QED BY <2>1, <3>1, LoopStage DEF OnResolve, OnConnect, OnSSLHandshake
  <2>2. CASE OnHandshake \/ OnReconnectTimer \/ OnRead \/ OnWrite \/ OnPingTimer
    BY <2>2, LoopHandshake, LoopReconnectTimer, LoopTransfer
  <2>3. CASE \E g \in 1..generation, k \in Kinds : DropStale(k, g)
    BY <2>3, LoopStale
  <2> QED BY <1>3, <2>1, <2>2, <2>3 DEF RunCompletion
<1>4. CASE Environment
  BY <1>4, LoopEnvironment
<1>5. CASE UNCHANGED vars
  <2>1. UNCHANGED <<strand, ops, connected, reconnectScheduled, userClosed>>
    BY <1>5 DEF vars, sessionVars, linkVars
  <2> QED BY <2>1, LoopUndisturbed DEF generation, Op
<1> QED
  BY <1>1, <1>2, <1>3, <1>4, <1>5 DEF Next

\* The strengthened invariant of the reconnect loop.
THEOREM LoopInvariant == Spec => []LoopInv
<1>1. Init => TypeOK /\ LoopInv
  BY TypeInit, LoopInit
<1>2. (TypeOK /\ LoopInv) /\ [Next]_vars => (TypeOK /\ LoopInv)'
  BY TypeStep, LoopStep
<1> QED
  BY <1>1, <1>2, PTL DEF Spec

\* Whatever fails and in whatever order completions run, the session never
\* stops trying to be connected unless close() was called.
THEOREM OnlyCloseStops == Spec => []OnlyCloseStopsTheLoop
<1>1. LoopInv => OnlyCloseStopsTheLoop
  BY DEF LoopInv
<1> QED
  BY <1>1, LoopInvariant, PTL

\* A connection attempt is never joined by a second one, by a live connection
\* or by a reconnect wait: late and stale completions start nothing.
THEOREM OneAttempt == Spec => []OneAttemptAtATime
<1>1. LoopInv => OneAttemptAtATime
  BY DEF LoopInv
<1> QED
  BY <1>1, LoopInvariant, PTL

=============================================================================
