---------------------------- MODULE OrderGateway ----------------------------
(***************************************************************************)
(* Order bookkeeping of HyperliquidExecutionGateway                        *)
(* (src/src/hyperliquid_execution_gateway.cpp).  The core's threads submit *)
(* and cancel orders over HTTP; the WebSocket thread reports order updates *)
(* and fills of the orders the gateway still maps.  A terminal update      *)
(* drops the mapping, and a cancel that finds its order gone fetches the   *)
(* fills from REST.                                                        *)
(*                                                                         *)
(* An order stands for its clientOrderId and its cloid, which are paired   *)
(* once: the core does not use a clientOrderId twice.  One thread at a     *)
(* time works on an order.  The venue is external: an order of it rests,   *)
(* fills in units of size 1 and is published on two feeds of one           *)
(* connection, the fill before or after the update it causes; requests     *)
(* arrive in any order, or late, or never.                                 *)
(***************************************************************************)
EXTENDS Naturals, Sequences

CONSTANTS
  Orders,            \* orders the core submits
  Market,            \* those of them that are reduce-only IOC orders
  NoOrder,
  Size,              \* units in an order
  MaxDrops           \* bound: connections lost

ASSUME GatewayAssumption ==
  /\ Market \subseteq Orders /\ NoOrder \notin Orders
  /\ Size \in Nat \ {0} /\ MaxDrops \in Nat

VARIABLES
  started,       \* start() has returned
  connected,     \* stream->isConnected()
  feeds,         \* feeds the venue has activated on this connection
  feed,          \* messages on their way to the WebSocket thread
  drops,         \* connections lost so far
  call,          \* the core's call for each order, or how its last one ended
  mapped,        \* orders in byCloid and clientToCloid
  toPrune,       \* the order whose terminal update is being handled
  told,          \* orders whose terminal state was reported to the core
  credited,      \* fills reported to the core
  warned,        \* orders whose reconciliation failed and was logged
  requests,      \* actions on their way to the venue
  reply,         \* the venue's verdict on its way back
  book,          \* the venue's state of each order
  fills,         \* units of each order executed
  due,           \* units executed when a cancel found the order gone
  missed,        \* fills no live feed carried
  everFed        \* the fills feed has been active

linkVars == <<started, connected, feeds, drops, everFed>>
coreVars == <<told, credited, warned>>
venueVars == <<book, fills>>
vars == <<linkVars, feed, call, mapped, toPrune, coreVars, requests, reply,
          venueVars, due, missed>>

Calls ==
  {"none", "placing", "submitted", "rejected", "unknown",
   "cancelling", "reconciling", "fetching", "cancelled", "gone", "cancelFailed"}
BookStates == {"none", "resting", "filled", "canceled", "rejected"}
Terminal == {"filled", "canceled", "rejected"}
Verdicts == {"none", "ok", "error", "gone"}

Fills == Orders \X (1..Size)
FillsOf(o, n) == {o} \X (1..n)
Requests == [op : {"place", "cancel"}, order : Orders]

Messages == [feed : {"orderUpdates"}, order : Orders, status : BookStates \ {"none"}]
              \cup [feed : {"userFills"}, order : Orders, tid : 1..Size]
Update(o, status) == [feed |-> "orderUpdates", order |-> o, status |-> status]
Fill(o, n) == [feed |-> "userFills", order |-> o, tid |-> n]

TypeOK ==
  /\ started \in BOOLEAN /\ connected \in BOOLEAN /\ everFed \in BOOLEAN
  /\ feeds \subseteq {"orderUpdates", "userFills"}
  /\ feed \in Seq(Messages)
  /\ drops \in Nat
  /\ call \in [Orders -> Calls]
  /\ mapped \subseteq Orders
  /\ told \subseteq Orders
  /\ toPrune \in told \cup {NoOrder}
  /\ credited \subseteq Fills
  /\ warned \subseteq Orders
  /\ requests \subseteq Requests
  /\ reply \in [Orders -> Verdicts]
  /\ book \in [Orders -> BookStates]
  /\ fills \in [Orders -> 0..Size]
  /\ due \in [Orders -> 0..Size]
  /\ missed \subseteq Fills

Init ==
  /\ started = FALSE
  /\ connected = FALSE
  /\ feeds = {}
  /\ feed = <<>>
  /\ drops = 0
  /\ call = [o \in Orders |-> "none"]
  /\ mapped = {}
  /\ toPrune = NoOrder
  /\ told = {}
  /\ credited = {}
  /\ warned = {}
  /\ requests = {}
  /\ reply = [o \in Orders |-> "none"]
  /\ book = [o \in Orders |-> "none"]
  /\ fills = [o \in Orders |-> 0]
  /\ due = [o \in Orders |-> 0]
  /\ missed = {}
  /\ everFed = FALSE

-----------------------------------------------------------------------------
(* The connection.  start() subscribes both feeds, then polls isConnected, *)
(* which is true as soon as the handshake is done.                         *)

ConnectionUp ==
  /\ ~connected
  /\ connected' = TRUE
  /\ UNCHANGED <<started, feeds, drops, everFed, feed, call, mapped, toPrune,
                 coreVars, requests, reply, venueVars, due, missed>>

StartReturns ==
  /\ ~started
  /\ connected
  /\ started' = TRUE
  /\ UNCHANGED <<connected, feeds, drops, everFed, feed, call, mapped, toPrune,
                 coreVars, requests, reply, venueVars, due, missed>>

\* The session sends orderUpdates first.  What was executed before the fills
\* feed is active comes in its snapshot, which onUserFillsMsg() skips.
FeedActivated(name) ==
  /\ connected
  /\ name \notin feeds
  /\ name = "userFills" => "orderUpdates" \in feeds
  /\ feeds' = feeds \cup {name}
  /\ everFed' = (everFed \/ name = "userFills")
  /\ UNCHANGED <<started, connected, drops, feed, call, mapped, toPrune,
                 coreVars, requests, reply, venueVars, due, missed>>

FillsIn(messages) ==
  {<<messages[i].order, messages[i].tid>> :
     i \in {j \in DOMAIN messages : messages[j].feed = "userFills"}}

ConnectionLost ==
  /\ connected
  /\ drops < MaxDrops
  /\ drops' = drops + 1
  /\ connected' = FALSE
  /\ feeds' = {}
  /\ feed' = <<>>
  /\ missed' = missed \cup FillsIn(feed)
  /\ UNCHANGED <<started, everFed, call, mapped, toPrune, coreVars, requests,
                 reply, venueVars, due>>

-----------------------------------------------------------------------------
(* The core's calls.                                                       *)

Becomes(o, state) == call' = [call EXCEPT ![o] = state]

PostAction(o, op) ==
  /\ requests' = requests \cup {[op |-> op, order |-> o]}
  /\ reply' = [reply EXCEPT ![o] = "none"]

\* submitPostOnlyLimit() and submitReduceOnlyMarket(): makeCloid(), then POST.
Submit(o) ==
  /\ started
  /\ call[o] = "none"
  /\ mapped' = mapped \cup {o}
  /\ PostAction(o, "place")
  /\ Becomes(o, "placing")
  /\ UNCHANGED <<linkVars, feed, toPrune, coreVars, venueVars, due, missed>>

\* A rejected order is unmapped before the submit throws.
SubmitReturns(o) ==
  /\ call[o] = "placing"
  /\ reply[o] # "none"
  /\ Becomes(o, IF reply[o] = "ok" THEN "submitted" ELSE "rejected")
  /\ mapped' = IF reply[o] = "ok" THEN mapped ELSE mapped \ {o}
  /\ UNCHANGED <<linkVars, feed, toPrune, coreVars, requests, reply, venueVars, due, missed>>

\* A transport error that also drops the mapping.
UnmapOnThrow(o) == mapped' = mapped \ {o}

KeepMapped(o) == UNCHANGED mapped

\* A transport error leaves the submit without an answer: the order may be
\* placed or not, or still be on its way, and it stays mapped.
SubmitThrows(o) ==
  /\ call[o] = "placing"
  /\ KeepMapped(o)
  /\ Becomes(o, "unknown")
  /\ UNCHANGED <<linkVars, feed, toPrune, coreVars, requests, reply, venueVars, due, missed>>

MayCancel(o) == call[o] \in {"submitted", "rejected", "unknown", "cancelFailed"}

\* cancel() of an order that is not mapped does nothing and returns false.
CancelUnmapped(o) ==
  /\ MayCancel(o)
  /\ o \notin mapped
  /\ due' = [due EXCEPT ![o] = fills[o]]
  /\ Becomes(o, "gone")
  /\ UNCHANGED <<linkVars, feed, mapped, toPrune, coreVars, requests, reply, venueVars, missed>>

Cancel(o) ==
  /\ MayCancel(o)
  /\ o \in mapped
  /\ PostAction(o, "cancel")
  /\ Becomes(o, "cancelling")
  /\ UNCHANGED <<linkVars, feed, mapped, toPrune, coreVars, venueVars, due, missed>>

\* A cancel that reports a gone order at once.
AfterGoneAtOnce == "gone"

AfterGone == "reconciling"

CancelReturns(o) ==
  /\ call[o] = "cancelling"
  /\ reply[o] # "none"
  /\ Becomes(o, IF reply[o] = "ok" THEN "cancelled"
                ELSE IF reply[o] = "gone" THEN AfterGone ELSE "cancelFailed")
  /\ UNCHANGED <<linkVars, feed, mapped, toPrune, coreVars, requests, reply, venueVars, due, missed>>

CancelThrows(o) ==
  /\ call[o] = "cancelling"
  /\ Becomes(o, "cancelFailed")
  /\ UNCHANGED <<linkVars, feed, mapped, toPrune, coreVars, requests, reply, venueVars, due, missed>>

\* reconcileMissedFills() looks the order up again: unmapped in the meantime,
\* there is nothing it can fetch.
LookUpAgain(o) ==
  /\ call[o] = "reconciling"
  /\ Becomes(o, IF o \in mapped THEN "fetching" ELSE "gone")
  /\ UNCHANGED <<linkVars, feed, mapped, toPrune, coreVars, requests, reply, venueVars, due, missed>>

\* Every fill REST lists under the order's cloid is reported again; a failed
\* fetch is only logged.
FetchFills(o) ==
  /\ call[o] = "fetching"
  /\ \/ credited' = credited \cup FillsOf(o, fills[o]) /\ UNCHANGED warned
     \/ warned' = warned \cup {o} /\ UNCHANGED credited
  /\ Becomes(o, "gone")
  /\ UNCHANGED <<linkVars, feed, mapped, toPrune, told, requests, reply, venueVars, due, missed>>

-----------------------------------------------------------------------------
(* The WebSocket thread.                                                   *)

IsNext(name) ==
  /\ toPrune = NoOrder
  /\ feed # <<>>
  /\ Head(feed).feed = name
  /\ feed' = Tail(feed)

\* Statuses after which an order is unmapped, one too many.
FinalStatusesTooMany == Terminal \cup {"resting"}

FinalStatuses == Terminal

\* An update handler that unmaps the order without having reported it.
NotReported(o) == told

Reported(o) == told \cup {o}

\* onOrderUpdateMsg(): an update of a mapped order is reported; after a
\* terminal one its mapping goes.
OnOrderUpdate ==
  /\ IsNext("orderUpdates")
  /\ LET o == Head(feed).order
         status == Head(feed).status
     IN /\ told' = IF o \in mapped /\ status \in Terminal THEN Reported(o) ELSE told
        /\ toPrune' = IF o \in mapped /\ status \in FinalStatuses THEN o ELSE NoOrder
  /\ UNCHANGED <<linkVars, call, mapped, credited, warned, requests, reply,
                 venueVars, due, missed>>

PruneCloid ==
  /\ toPrune # NoOrder
  /\ mapped' = mapped \ {toPrune}
  /\ toPrune' = NoOrder
  /\ UNCHANGED <<linkVars, feed, call, coreVars, requests, reply, venueVars, due, missed>>

\* emitFill(): a fill of an order that is not mapped is dropped.
OnUserFill ==
  /\ IsNext("userFills")
  /\ LET o == Head(feed).order
     IN credited' = IF o \in mapped THEN credited \cup {<<o, Head(feed).tid>>} ELSE credited
  /\ UNCHANGED <<linkVars, call, mapped, toPrune, told, warned, requests, reply,
                 venueVars, due, missed>>

-----------------------------------------------------------------------------
(* The venue.                                                              *)

\* The part of a message that the active feeds carry; a fill they do not carry
\* is missed.
Carried(m) == IF m.feed \in feeds THEN <<m>> ELSE <<>>

PublishUpdate(o, status) ==
  /\ feed' = feed \o Carried(Update(o, status))
  /\ UNCHANGED missed

\* A fill and the update it causes are published in either order.
PublishFill(o, n, status) ==
  /\ \/ feed' = (feed \o Carried(Fill(o, n))) \o Carried(Update(o, status))
     \/ feed' = (feed \o Carried(Update(o, status))) \o Carried(Fill(o, n))
  /\ missed' = IF "userFills" \in feeds THEN missed ELSE missed \cup {<<o, n>>}

Answer(o, op, verdict) ==
  /\ requests' = requests \ {[op |-> op, order |-> o]}
  /\ reply' = IF call[o] = (IF op = "place" THEN "placing" ELSE "cancelling")
              THEN [reply EXCEPT ![o] = verdict] ELSE reply

Requested(o, op) == [op |-> op, order |-> o] \in requests

OrderPlaced(o) ==
  /\ Requested(o, "place")
  /\ o \notin Market
  /\ book' = [book EXCEPT ![o] = "resting"]
  /\ PublishUpdate(o, "resting")
  /\ Answer(o, "place", "ok")
  /\ UNCHANGED <<linkVars, call, mapped, toPrune, coreVars, fills, due>>

OrderRejected(o) ==
  /\ Requested(o, "place")
  /\ book' = [book EXCEPT ![o] = "rejected"]
  /\ PublishUpdate(o, "rejected") \/ UNCHANGED <<feed, missed>>
  /\ Answer(o, "place", "error")
  /\ UNCHANGED <<linkVars, call, mapped, toPrune, coreVars, fills, due>>

\* An IOC order takes what it can get at once and is done.
MarketOrderExecuted(o) ==
  /\ Requested(o, "place")
  /\ o \in Market
  /\ fills' = [fills EXCEPT ![o] = 1]
  /\ LET status == IF Size = 1 THEN "filled" ELSE "canceled"
     IN /\ book' = [book EXCEPT ![o] = status]
        /\ PublishFill(o, 1, status)
  /\ Answer(o, "place", "ok")
  /\ UNCHANGED <<linkVars, call, mapped, toPrune, coreVars, due>>

UnitFilled(o) ==
  /\ book[o] = "resting"
  /\ fills' = [fills EXCEPT ![o] = @ + 1]
  /\ LET status == IF fills[o] + 1 = Size THEN "filled" ELSE "resting"
     IN /\ book' = [book EXCEPT ![o] = status]
        /\ PublishFill(o, fills[o] + 1, status)
  /\ UNCHANGED <<linkVars, call, mapped, toPrune, coreVars, requests, reply, due>>

OrderCancelled(o) ==
  /\ Requested(o, "cancel")
  /\ book[o] = "resting"
  /\ book' = [book EXCEPT ![o] = "canceled"]
  /\ PublishUpdate(o, "canceled")
  /\ Answer(o, "cancel", "ok")
  /\ UNCHANGED <<linkVars, call, mapped, toPrune, coreVars, fills, due>>

\* "never placed, already canceled, or filled".
CancelFindsItGone(o) ==
  /\ Requested(o, "cancel")
  /\ book[o] # "resting"
  /\ due' = [due EXCEPT ![o] = fills[o]]
  /\ Answer(o, "cancel", "gone")
  /\ UNCHANGED <<linkVars, feed, call, mapped, toPrune, coreVars, venueVars, missed>>

\* Any other reason, rate limiting for one.
CancelRefused(o) ==
  /\ Requested(o, "cancel")
  /\ Answer(o, "cancel", "error")
  /\ UNCHANGED <<linkVars, feed, call, mapped, toPrune, coreVars, venueVars, due, missed>>

-----------------------------------------------------------------------------

CoreStep(o) ==
  \/ Submit(o) \/ SubmitReturns(o) \/ SubmitThrows(o)
  \/ Cancel(o) \/ CancelUnmapped(o) \/ CancelReturns(o) \/ CancelThrows(o)
  \/ LookUpAgain(o) \/ FetchFills(o)

VenueStep(o) ==
  \/ OrderPlaced(o) \/ OrderRejected(o) \/ MarketOrderExecuted(o)
  \/ UnitFilled(o) \/ OrderCancelled(o) \/ CancelFindsItGone(o) \/ CancelRefused(o)

Link ==
  \/ ConnectionUp \/ StartReturns \/ ConnectionLost
  \/ \E name \in {"orderUpdates", "userFills"} : FeedActivated(name)

Next ==
  \/ Link
  \/ OnOrderUpdate \/ PruneCloid \/ OnUserFill
  \/ \E o \in Orders : CoreStep(o) \/ VenueStep(o)

Spec == Init /\ [][Next]_vars

-----------------------------------------------------------------------------

\* An order on the book is always mapped, its submission confirmed or not:
\* its fills are reported and the core can cancel it.
LiveOrdersMapped == \A o \in Orders : book[o] = "resting" => o \in mapped

\* Every fill was reported to the core, is on its way, happened while no feed
\* carried it, or belongs to an order whose end was reported (a fill after
\* that is dropped, hyperliquid_execution_gateway.cpp:186): the gateway loses
\* none, however its submits, prunes and reconciliations interleave.
NoFillSlipsThrough ==
  \A o \in Orders :
    o \in told \/ FillsOf(o, fills[o]) \subseteq credited \cup FillsIn(feed) \cup missed

\* When cancel() returns false the core knows what became of the order: its end
\* was reported, or every fill that made it go was ("Gone" can mean FILLED ...
\* Reconcile first", hyperliquid_execution_gateway.cpp:544), or the log has it.
GoneIsAccounted ==
  [][\A o \in Orders : call[o] # "gone" /\ call'[o] = "gone" =>
       o \in told \cup warned' \/ FillsOf(o, due'[o]) \subseteq credited']_vars

\* "orders must never be placed before fills can be observed"
\* (hyperliquid_execution_gateway.cpp:426).
NoOrderBeforeFeed ==
  (\E o \in Orders : book[o] \in {"resting", "filled", "canceled"}) => everFed

=============================================================================
