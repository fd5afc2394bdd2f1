-------------------------- MODULE OrderGatewayProofs --------------------------
(***************************************************************************)
(* The order bookkeeping of the gateway, for any orders, sizes and number  *)
(* of lost connections.  A live order stays mapped because a mapping goes  *)
(* only for an order that the venue is done with: the verdict that removes *)
(* it after a submit, and the update that removes it on the WebSocket      *)
(* thread, both come after the venue's last word, and nothing follows that *)
(* word.  A fill is found again because it stays on its way, is credited   *)
(* or is counted as missed, and a cancel that finds its order gone looks   *)
(* for what the venue had executed by then.                                *)
(***************************************************************************)
EXTENDS OrderGateway, TLAPS

Place(o) == [op |-> "place", order |-> o]

\* A submission under way is mapped and not yet at the venue.
PlacingMapped == \A o \in Orders : Place(o) \in requests => o \in mapped /\ book[o] = "none"

\* An order that was never submitted is nowhere.
NeverSubmitted == \A o \in Orders : call[o] = "none" => book[o] = "none" /\ Place(o) \notin requests

\* The verdict that makes a submit fail is the venue's last word.
RefusedMeansRejected ==
  \A o \in Orders : call[o] = "placing" /\ reply[o] \in {"error", "gone"} => book[o] = "rejected"

\* Terminal updates on their way are about orders that are over.
Settled(messages, state) ==
  \A i \in DOMAIN messages :
    messages[i].feed = "orderUpdates" /\ messages[i].status \in Terminal
      => state[messages[i].order] \in Terminal

OverWhenPruned == toPrune # NoOrder => book[toPrune] \in Terminal

\* What is executed fits the order.
Executed ==
  \A o \in Orders : /\ book[o] = "none" => fills[o] = 0
                    /\ book[o] = "resting" => fills[o] < Size

IInv ==
  /\ TypeOK
  /\ PlacingMapped /\ NeverSubmitted /\ RefusedMeansRejected
  /\ Settled(feed, book) /\ OverWhenPruned
  /\ Executed
  /\ LiveOrdersMapped

-----------------------------------------------------------------------------
(* Messages.                                                               *)

LEMMA MessagesTyped ==
  ASSUME NEW o \in Orders
  PROVE  /\ \A status \in BookStates \ {"none"} : Update(o, status) \in Messages
         /\ \A n \in 1..Size : Fill(o, n) \in Messages
BY DEF Update, Fill, Messages

\* Publishing adds at most the one message.
LEMMA CarriedKeeps ==
  ASSUME NEW s \in Seq(Messages), NEW m \in Messages, NEW state, Settled(s, state),
         m.feed = "orderUpdates" /\ m.status \in Terminal => state[m.order] \in Terminal
  PROVE  s \o Carried(m) \in Seq(Messages) /\ Settled(s \o Carried(m), state)
<1>1. CASE m.feed \in feeds
  <2>1. s \o Carried(m) = s \o <<m>>
    BY <1>1 DEF Carried
  <2>2. s \o <<m>> \in Seq(Messages)
    OBVIOUS
  <2>3. ASSUME NEW i \in DOMAIN (s \o <<m>>)
        PROVE (s \o <<m>>)[i] = m \/ (i \in DOMAIN s /\ (s \o <<m>>)[i] = s[i])
    OBVIOUS
  <2>4. QED
    BY <2>1, <2>2, <2>3 DEF Settled
<1>2. CASE m.feed \notin feeds
  <2>1. s \o Carried(m) = s
    BY <1>2 DEF Carried
  <2>2. QED
    BY <2>1
<1>3. QED
  BY <1>1, <1>2

\* Taking the first message leaves the others.
LEMMA TailKeeps ==
  ASSUME NEW s \in Seq(Messages), NEW state, s # <<>>, Settled(s, state)
  PROVE  /\ Head(s) \in Messages /\ Tail(s) \in Seq(Messages)
         /\ Settled(Tail(s), state)
         /\ Head(s).feed = "orderUpdates" /\ Head(s).status \in Terminal
              => state[Head(s).order] \in Terminal
<1>1. Head(s) \in Messages /\ Head(s) = s[1] /\ 1 \in DOMAIN s /\ Tail(s) \in Seq(Messages)
  OBVIOUS
<1>2. ASSUME NEW i \in DOMAIN Tail(s) PROVE i + 1 \in DOMAIN s /\ Tail(s)[i] = s[i + 1]
  OBVIOUS
<1>3. QED
  BY <1>1, <1>2 DEF Settled

LEMMA FillsInTyped ==
  ASSUME NEW s \in Seq(Messages)
  PROVE  FillsIn(s) \subseteq Fills
<1>1. ASSUME NEW i \in DOMAIN s, s[i].feed = "userFills"
      PROVE <<s[i].order, s[i].tid>> \in Fills
  <2>1. s[i] \in Messages
    OBVIOUS
  <2>2. s[i] \in [feed : {"userFills"}, order : Orders, tid : 1..Size]
    BY <2>1, <1>1 DEF Messages
  <2>3. QED
    BY <2>2 DEF Fills
<1>2. QED
  BY <1>1 DEF FillsIn

\* An order's end is settled whatever the other orders do.
LEMMA SettledUnder ==
  ASSUME NEW s \in Seq(Messages), NEW old \in [Orders -> BookStates], NEW o \in Orders,
         NEW status \in BookStates, Settled(s, old),
         old[o] \in Terminal => status \in Terminal
  PROVE  Settled(s, [old EXCEPT ![o] = status])
<1>1. ASSUME NEW i \in DOMAIN s PROVE s[i].order \in Orders
  <2>1. s[i] \in Messages
    OBVIOUS
  <2>2. QED
    BY <2>1 DEF Messages
<1>2. QED
  BY <1>1 DEF Settled

-----------------------------------------------------------------------------

LEMMA InitHolds == Init => IInv
<1> SUFFICES ASSUME Init PROVE IInv
  OBVIOUS
<1> USE GatewayAssumption
<1>1. TypeOK
  <2>1. feed \in Seq(Messages)
    BY DEF Init
  <2>2. /\ call \in [Orders -> Calls] /\ reply \in [Orders -> Verdicts]
        /\ book \in [Orders -> BookStates]
    BY DEF Init, Calls, Verdicts, BookStates
  <2>3. fills \in [Orders -> 0..Size] /\ due \in [Orders -> 0..Size]
    BY DEF Init
  <2>4. QED
    BY <2>1, <2>2, <2>3 DEF Init, TypeOK
<1>2. /\ PlacingMapped /\ NeverSubmitted /\ RefusedMeansRejected /\ OverWhenPruned /\ Executed
      /\ LiveOrdersMapped
  BY DEF Init, PlacingMapped, NeverSubmitted, RefusedMeansRejected, OverWhenPruned, Executed,
         LiveOrdersMapped
<1>3. Settled(feed, book)
  BY DEF Init, Settled
<1>4. QED
  BY <1>1, <1>2, <1>3 DEF IInv
-----------------------------------------------------------------------------
(* Every group of steps keeps the invariant.                               *)

\* The connection comes and goes.
LEMMA LinkKeeps == IInv /\ Link => IInv'
<1> SUFFICES ASSUME IInv, Link PROVE IInv'
  OBVIOUS
<1>1. /\ UNCHANGED <<call, mapped, toPrune, coreVars, requests, reply, venueVars, due>>
      /\ started' \in BOOLEAN /\ connected' \in BOOLEAN /\ everFed' \in BOOLEAN
      /\ feeds' \subseteq {"orderUpdates", "userFills"} /\ drops' \in Nat
  <2>1. CASE ConnectionUp \/ StartReturns
    BY <2>1 DEF IInv, TypeOK, ConnectionUp, StartReturns, coreVars, venueVars
  <2>2. CASE ConnectionLost
    <3>1. drops' = drops + 1 /\ drops \in Nat /\ feeds' = {} /\ connected' = FALSE
      BY <2>2 DEF ConnectionLost, IInv, TypeOK
    <3>2. UNCHANGED <<started, everFed, call, mapped, toPrune, coreVars, requests, reply, venueVars, due>>
      BY <2>2 DEF ConnectionLost
    <3>3. started' \in BOOLEAN /\ connected' \in BOOLEAN /\ everFed' \in BOOLEAN
      BY <3>1, <3>2 DEF IInv, TypeOK
    <3>4. QED
      BY <3>1, <3>2, <3>3
  <2>3. ASSUME NEW name \in {"orderUpdates", "userFills"}, FeedActivated(name)
        PROVE /\ UNCHANGED <<call, mapped, toPrune, coreVars, requests, reply, venueVars, due>>
              /\ UNCHANGED <<started, connected, drops>>
              /\ feeds' \subseteq {"orderUpdates", "userFills"}
              /\ everFed' \in BOOLEAN
    <3>1. everFed' = (everFed \/ name = "userFills")
      BY <2>3 DEF FeedActivated
    <3>2. everFed' \in BOOLEAN
      BY <3>1 DEF IInv, TypeOK
    <3>3. QED
      BY <2>3, <3>2 DEF FeedActivated, IInv, TypeOK
  <2>4. QED
    BY <2>1, <2>2, <2>3 DEF Link, IInv, TypeOK
<1>2. feed' \in Seq(Messages) /\ Settled(feed', book) /\ missed' \subseteq Fills
  <2>1. \/ UNCHANGED <<feed, missed>>
        \/ feed' = <<>> /\ missed' = missed \cup FillsIn(feed)
    BY DEF Link, ConnectionUp, StartReturns, ConnectionLost, FeedActivated
  <2>2. Settled(<<>>, book)
    BY DEF Settled
  <2>3. FillsIn(feed) \subseteq Fills
    BY FillsInTyped DEF IInv, TypeOK
  <2>4. Settled(feed', book)
    <3>1. CASE feed' = feed
      BY <3>1 DEF IInv, Settled
    <3>2. CASE feed' = <<>>
      BY <3>2, <2>2
    <3>3. QED
      BY <2>1, <3>1, <3>2
  <2>5. feed' \in Seq(Messages)
    <3>1. feed \in Seq(Messages) /\ <<>> \in Seq(Messages)
      BY DEF IInv, TypeOK
    <3>2. QED
      BY <2>1, <3>1
  <2>6. missed \subseteq Fills
    BY DEF IInv, TypeOK
  <2>7. QED
    BY <2>1, <2>3, <2>4, <2>5, <2>6
<1>3. TypeOK'
  BY <1>1, <1>2 DEF IInv, TypeOK, coreVars, venueVars
<1>4. QED
  BY <1>1, <1>2, <1>3 DEF IInv, PlacingMapped, NeverSubmitted, RefusedMeansRejected, Settled,
       OverWhenPruned, Executed, LiveOrdersMapped, coreVars, venueVars

\* The core's calls: what they leave alone, and where a call can go.
LEMMA CoreTypes ==
  ASSUME IInv, NEW o \in Orders, CoreStep(o)
  PROVE  TypeOK' /\ UNCHANGED <<feed, toPrune, venueVars, missed>>
<1> USE DEF IInv, TypeOK
<1>1. UNCHANGED <<feed, toPrune, venueVars, missed, linkVars>>
  BY DEF CoreStep, Submit, SubmitReturns, SubmitThrows, Cancel, CancelUnmapped, CancelReturns,
         CancelThrows, LookUpAgain, FetchFills, PostAction
<1>2. call' \in [Orders -> Calls]
  BY DEF CoreStep, Submit, SubmitReturns, SubmitThrows, Cancel, CancelUnmapped, CancelReturns,
         CancelThrows, LookUpAgain, FetchFills, Becomes, AfterGone, Calls
<1>3. mapped' \subseteq Orders
  BY DEF CoreStep, Submit, SubmitReturns, SubmitThrows, KeepMapped, Cancel, CancelUnmapped,
         CancelReturns, CancelThrows, LookUpAgain, FetchFills
<1>4. requests' \subseteq Requests /\ reply' \in [Orders -> Verdicts]
  <2>1. \A op \in {"place", "cancel"} : [op |-> op, order |-> o] \in Requests
    BY DEF Requests
  <2>2. QED
    BY <2>1 DEF CoreStep, Submit, SubmitReturns, SubmitThrows, Cancel, CancelUnmapped,
         CancelReturns, CancelThrows, LookUpAgain, FetchFills, PostAction, Verdicts
<1>5. due' \in [Orders -> 0..Size]
  BY DEF CoreStep, Submit, SubmitReturns, SubmitThrows, Cancel, CancelUnmapped, CancelReturns,
         CancelThrows, LookUpAgain, FetchFills
<1>6. told' = told /\ credited' \subseteq Fills /\ warned' \subseteq Orders
  <2>1. FillsOf(o, fills[o]) \subseteq Fills
    BY GatewayAssumption DEF FillsOf, Fills
  <2>2. QED
    BY <2>1 DEF CoreStep, Submit, SubmitReturns, SubmitThrows, Cancel, CancelUnmapped,
         CancelReturns, CancelThrows, LookUpAgain, FetchFills, coreVars
<1>7. QED
  BY <1>1, <1>2, <1>3, <1>4, <1>5, <1>6 DEF linkVars, venueVars

LEMMA CoreKeeps == ASSUME IInv, NEW o \in Orders, CoreStep(o) PROVE IInv'
<1>1. TypeOK' /\ UNCHANGED <<feed, toPrune, venueVars, missed>>
  BY CoreTypes
<1>2. Settled(feed, book)' /\ OverWhenPruned' /\ Executed'
  BY <1>1 DEF IInv, Settled, OverWhenPruned, Executed, venueVars
<1> DEFINE Rest == PlacingMapped' /\ NeverSubmitted' /\ RefusedMeansRejected' /\ LiveOrdersMapped'
<1> USE DEF IInv, TypeOK, PlacingMapped, NeverSubmitted, RefusedMeansRejected, LiveOrdersMapped,
        Place, venueVars
<1>3. CASE Submit(o)
  <2>1. requests' = requests \cup {Place(o)} /\ mapped' = mapped \cup {o}
    BY <1>3 DEF Submit, PostAction
  <2>2. \A p \in Orders : Place(p) = Place(o) => p = o
    OBVIOUS
  <2>3. Rest
    BY <1>1, <1>3, <2>1, <2>2 DEF Submit, PostAction, Becomes
  <2>4. QED
    BY <1>1, <1>2, <2>3
<1>4. CASE SubmitReturns(o)
  <2>1. UNCHANGED <<requests, reply>> /\ call[o] = "placing" /\ reply[o] # "none"
    BY <1>4 DEF SubmitReturns
  <2>2. reply[o] # "ok" => book[o] = "rejected"
    BY <2>1 DEF Verdicts
  <2>3. \A p \in Orders : p # o => call'[p] = call[p] /\ (p \in mapped' <=> p \in mapped)
    BY <1>4 DEF SubmitReturns, Becomes
  <2>4. call'[o] \in {"submitted", "rejected"} /\ (reply[o] = "ok" => mapped' = mapped)
    BY <1>4 DEF SubmitReturns, Becomes
  <2>5. Rest
    BY <1>1, <2>1, <2>2, <2>3, <2>4
  <2>6. QED
    BY <1>1, <1>2, <2>5
<1>5. CASE Cancel(o)
  <2>1. requests' = requests \cup {[op |-> "cancel", order |-> o]} /\ UNCHANGED mapped
    BY <1>5 DEF Cancel, PostAction
  <2>2. \A p \in Orders : Place(p) \in requests' => Place(p) \in requests
    BY <2>1
  <2>3. \A p \in Orders : p # o => call'[p] = call[p] /\ reply'[p] = reply[p]
    BY <1>5 DEF Cancel, PostAction, Becomes
  <2>4. call'[o] = "cancelling"
    BY <1>5 DEF Cancel, Becomes
  <2>5. QED
    BY <1>1, <1>2, <2>1, <2>2, <2>3, <2>4
<1>6. CASE \/ SubmitThrows(o) \/ CancelUnmapped(o) \/ CancelReturns(o) \/ CancelThrows(o)
           \/ LookUpAgain(o) \/ FetchFills(o)
  <2>1. UNCHANGED <<requests, reply, mapped>>
    BY <1>6 DEF SubmitThrows, KeepMapped, CancelUnmapped, CancelReturns, CancelThrows,
         LookUpAgain, FetchFills
  <2>2. \A p \in Orders : p # o => call'[p] = call[p]
    BY <1>6 DEF SubmitThrows, CancelUnmapped, CancelReturns, CancelThrows, LookUpAgain,
         FetchFills, Becomes
  <2>3. call'[o] \notin {"none", "placing"}
    BY <1>6 DEF SubmitThrows, CancelUnmapped, CancelReturns, CancelThrows, LookUpAgain,
         FetchFills, Becomes, AfterGone
  <2>4. QED
    BY <1>1, <1>2, <2>1, <2>2, <2>3
<1>7. QED
  BY <1>3, <1>4, <1>5, <1>6 DEF CoreStep

\* The WebSocket thread takes messages and prunes.
LEMMA FeedKeeps == IInv /\ (OnOrderUpdate \/ PruneCloid \/ OnUserFill) => IInv'
<1> SUFFICES ASSUME IInv, OnOrderUpdate \/ PruneCloid \/ OnUserFill PROVE IInv'
  OBVIOUS
<1> USE DEF IInv, TypeOK
<1>1. UNCHANGED <<linkVars, call, warned, requests, reply, venueVars, due, missed>>
  BY DEF OnOrderUpdate, PruneCloid, OnUserFill, coreVars
<1>2. CASE OnOrderUpdate
  <2>1. feed # <<>> /\ feed' = Tail(feed) /\ Head(feed).feed = "orderUpdates" /\ toPrune = NoOrder
    BY <1>2 DEF OnOrderUpdate, IsNext
  <2> DEFINE o == Head(feed).order
             status == Head(feed).status
  <2>2. /\ Head(feed) \in Messages /\ Tail(feed) \in Seq(Messages) /\ Settled(Tail(feed), book)
        /\ status \in Terminal => book[o] \in Terminal
    BY <2>1, TailKeeps
  <2>3. o \in Orders
    BY <2>2 DEF Messages
  <2>4. /\ told' = IF o \in mapped /\ status \in Terminal THEN told \cup {o} ELSE told
        /\ toPrune' = IF o \in mapped /\ status \in Terminal THEN o ELSE NoOrder
        /\ UNCHANGED <<mapped, credited>>
    BY <1>2 DEF OnOrderUpdate, FinalStatuses, Reported
  <2>5. OverWhenPruned'
    BY <1>1, <2>2, <2>4 DEF OverWhenPruned, venueVars
  <2>6. TypeOK'
    BY <1>1, <2>1, <2>2, <2>3, <2>4 DEF linkVars, venueVars
  <2>7. Settled(feed, book)'
    BY <1>1, <2>1, <2>2 DEF Settled, venueVars
  <2>8. QED
    BY <1>1, <2>4, <2>5, <2>6, <2>7 DEF PlacingMapped, NeverSubmitted, RefusedMeansRejected,
         Executed, LiveOrdersMapped, venueVars
<1>3. CASE PruneCloid
  <2>1. toPrune # NoOrder /\ mapped' = mapped \ {toPrune} /\ toPrune' = NoOrder
        /\ UNCHANGED <<feed, told, credited>>
    BY <1>3 DEF PruneCloid, coreVars
  <2>2. book[toPrune] \in Terminal
    BY <2>1 DEF OverWhenPruned
  <2>3. \A o \in Orders : o \in mapped /\ book[o] \notin Terminal => o \in mapped'
    BY <2>1, <2>2
  <2>4. PlacingMapped' /\ LiveOrdersMapped'
    BY <1>1, <2>3 DEF PlacingMapped, LiveOrdersMapped, Terminal, venueVars
  <2>5. TypeOK'
    BY <1>1, <2>1 DEF linkVars, venueVars
  <2>6. Settled(feed, book)'
    BY <1>1, <2>1 DEF Settled, venueVars
  <2>7. QED
    BY <1>1, <2>1, <2>4, <2>5, <2>6 DEF NeverSubmitted, RefusedMeansRejected, OverWhenPruned,
         Executed, venueVars
<1>4. CASE OnUserFill
  <2>1. feed # <<>> /\ feed' = Tail(feed) /\ Head(feed).feed = "userFills"
    BY <1>4 DEF OnUserFill, IsNext
  <2>2. Head(feed) \in Messages /\ Tail(feed) \in Seq(Messages) /\ Settled(Tail(feed), book)
    BY <2>1, TailKeeps
  <2>3. <<Head(feed).order, Head(feed).tid>> \in Fills
    <3>1. Head(feed) \in [feed : {"userFills"}, order : Orders, tid : 1..Size]
      BY <2>1, <2>2 DEF Messages
    <3>2. QED
      BY <3>1 DEF Fills
  <2>4. credited' \subseteq Fills /\ UNCHANGED <<mapped, toPrune, told>>
    BY <1>4, <2>3 DEF OnUserFill
  <2>5. TypeOK'
    BY <1>1, <2>1, <2>2, <2>4 DEF linkVars, venueVars
  <2>6. Settled(feed, book)'
    BY <1>1, <2>1, <2>2 DEF Settled, venueVars
  <2>7. QED
    BY <1>1, <2>4, <2>5, <2>6 DEF PlacingMapped, NeverSubmitted, RefusedMeansRejected,
         OverWhenPruned, Executed, LiveOrdersMapped, venueVars
<1>5. QED
  BY <1>2, <1>3, <1>4

\* The venue moves an order on and tells the feeds.
LEMMA PublishedKeeps ==
  ASSUME IInv, NEW o \in Orders, NEW status \in BookStates \ {"none"}, NEW n \in 1..Size,
         book[o] \notin Terminal, book' = [book EXCEPT ![o] = status],
         \/ PublishUpdate(o, status)
         \/ PublishFill(o, n, status)
         \/ UNCHANGED <<feed, missed>>
  PROVE  feed' \in Seq(Messages) /\ Settled(feed', book') /\ missed' \subseteq Fills
<1> DEFINE update == Update(o, status)
           fill == Fill(o, n)
<1>1. feed \in Seq(Messages) /\ book \in [Orders -> BookStates] /\ missed \subseteq Fills
      /\ Settled(feed, book)
  BY DEF IInv, TypeOK
<1>2. Settled(feed, book')
  BY <1>1, SettledUnder
<1>3. /\ update \in Messages
      /\ update.feed = "orderUpdates" /\ update.status \in Terminal => book'[update.order] \in Terminal
  BY <1>1, MessagesTyped DEF Update
<1>4. /\ fill \in Messages
      /\ fill.feed = "orderUpdates" /\ fill.status \in Terminal => book'[fill.order] \in Terminal
  BY MessagesTyped DEF Fill
<1>5. \A s \in Seq(Messages) :
        Settled(s, book') => /\ s \o Carried(update) \in Seq(Messages)
                             /\ Settled(s \o Carried(update), book')
  BY <1>3, CarriedKeeps
<1>6. \A s \in Seq(Messages) :
        Settled(s, book') => /\ s \o Carried(fill) \in Seq(Messages)
                             /\ Settled(s \o Carried(fill), book')
  BY <1>4, CarriedKeeps
<1>7. \/ feed' = feed \/ feed' = feed \o Carried(update)
      \/ feed' = (feed \o Carried(fill)) \o Carried(update)
      \/ feed' = (feed \o Carried(update)) \o Carried(fill)
  BY DEF PublishUpdate, PublishFill
<1>8. missed' = missed \/ missed' = missed \cup {<<o, n>>}
  BY DEF PublishUpdate, PublishFill
<1>9. <<o, n>> \in Fills
  BY DEF Fills
<1> HIDE DEF update, fill
<1>10. feed' \in Seq(Messages) /\ Settled(feed', book')
  <2>1. CASE feed' = feed
    BY <1>1, <1>2, <2>1
  <2>2. CASE feed' = feed \o Carried(update)
    BY <1>1, <1>2, <1>5, <2>2
  <2>3. CASE feed' = (feed \o Carried(fill)) \o Carried(update)
    <3> DEFINE s == feed \o Carried(fill)
    <3>1. s \in Seq(Messages) /\ Settled(s, book')
      BY <1>1, <1>2, <1>6
    <3> HIDE DEF s
    <3>2. QED
      BY <3>1, <1>5, <2>3 DEF s
  <2>4. CASE feed' = (feed \o Carried(update)) \o Carried(fill)
    <3> DEFINE s == feed \o Carried(update)
    <3>1. s \in Seq(Messages) /\ Settled(s, book')
      BY <1>1, <1>2, <1>5
    <3> HIDE DEF s
    <3>2. QED
      BY <3>1, <1>6, <2>4 DEF s
  <2>5. QED
    BY <1>7, <2>1, <2>2, <2>3, <2>4
<1>11. QED
  BY <1>1, <1>8, <1>9, <1>10

\* An order moves on from "none" with the answer to its submission, or from
\* the book; what else the invariant says of it follows.
LEMMA MovedKeeps ==
  ASSUME IInv, NEW o \in Orders, NEW status \in BookStates \ {"none"},
         book' = [book EXCEPT ![o] = status],
         UNCHANGED <<linkVars, call, mapped, toPrune, coreVars, due>>,
         feed' \in Seq(Messages), Settled(feed', book'), missed' \subseteq Fills,
         \/ Place(o) \in requests
         \/ book[o] = "resting",
         requests' \subseteq requests, Place(o) \notin requests',
         reply' \in [Orders -> Verdicts],
         \A p \in Orders : p # o => reply'[p] = reply[p],
         call[o] = "placing" /\ reply'[o] \in {"error", "gone"} => status = "rejected",
         fills' \in [Orders -> 0..Size],
         \A p \in Orders : p # o => fills'[p] = fills[p],
         status = "resting" => fills'[o] < Size
  PROVE  IInv'
<1> USE DEF IInv, TypeOK
<1>1. /\ book[o] \notin Terminal
      /\ o \in mapped
      /\ call[o] # "none"
  BY DEF PlacingMapped, LiveOrdersMapped, NeverSubmitted, Terminal
<1>2. book' \in [Orders -> BookStates] /\ \A p \in Orders : p # o => book'[p] = book[p]
  OBVIOUS
<1>3. book'[o] = status
  OBVIOUS
<1>4. TypeOK'
  BY <1>2 DEF linkVars, coreVars
<1>5. PlacingMapped' /\ NeverSubmitted' /\ LiveOrdersMapped'
  BY <1>1, <1>2 DEF PlacingMapped, NeverSubmitted, LiveOrdersMapped, Place
<1>6. RefusedMeansRejected'
  BY <1>2, <1>3 DEF RefusedMeansRejected
<1>7. OverWhenPruned'
  <2>1. toPrune' = toPrune /\ (toPrune # NoOrder => toPrune \in Orders /\ toPrune # o)
    BY <1>1 DEF OverWhenPruned
  <2>2. QED
    BY <1>2, <2>1 DEF OverWhenPruned
<1>8. Executed'
  BY <1>2, <1>3 DEF Executed
<1>9. QED
  BY <1>4, <1>5, <1>6, <1>7, <1>8

LEMMA AnswerTyped ==
  ASSUME IInv, NEW o \in Orders, NEW op \in {"place", "cancel"}, NEW verdict \in Verdicts,
         Answer(o, op, verdict)
  PROVE  /\ requests' \subseteq requests /\ reply' \in [Orders -> Verdicts]
         /\ [op |-> op, order |-> o] \notin requests'
         /\ \A p \in Orders : p # o => reply'[p] = reply[p]
         /\ reply'[o] \in {verdict, reply[o]}
         /\ call[o] = "placing" => reply'[o] = IF op = "place" THEN verdict ELSE reply[o]
BY DEF IInv, TypeOK, Answer

LEMMA VenueKeeps == ASSUME IInv, NEW o \in Orders, VenueStep(o) PROVE IInv'
<1> USE GatewayAssumption
<1>1. /\ fills \in [Orders -> 0..Size] /\ reply \in [Orders -> Verdicts]
      /\ due \in [Orders -> 0..Size] /\ book \in [Orders -> BookStates]
  BY DEF IInv, TypeOK
<1>2. Place(o) \in requests => book[o] = "none" /\ fills[o] = 0
  BY DEF IInv, PlacingMapped, Executed
<1>3. book[o] = "resting" =>
        /\ Place(o) \notin requests
        /\ fills[o] < Size
        /\ ~(call[o] = "placing" /\ reply[o] \in {"error", "gone"})
  BY DEF IInv, PlacingMapped, Executed, RefusedMeansRejected
<1>4. CASE OrderPlaced(o) \/ OrderRejected(o)
  <2> DEFINE status == IF OrderPlaced(o) THEN "resting" ELSE "rejected"
             verdict == IF OrderPlaced(o) THEN "ok" ELSE "error"
  <2>1. /\ Place(o) \in requests /\ book' = [book EXCEPT ![o] = status]
        /\ Answer(o, "place", verdict)
        /\ PublishUpdate(o, status) \/ UNCHANGED <<feed, missed>>
        /\ UNCHANGED <<linkVars, call, mapped, toPrune, coreVars, fills, due>>
    BY <1>4 DEF OrderPlaced, OrderRejected, Requested, Place
  <2>2. status \in BookStates \ {"none"} /\ verdict \in Verdicts /\ book[o] \notin Terminal
    BY <1>2, <2>1 DEF BookStates, Verdicts, Terminal
  <2>3. verdict = "ok" \/ (verdict = "error" /\ status = "rejected")
    BY <1>4
  <2> HIDE DEF status, verdict
  <2>4. feed' \in Seq(Messages) /\ Settled(feed', book') /\ missed' \subseteq Fills
    <3>1. 1 \in 1..Size
      OBVIOUS
    <3>2. QED
      BY <2>1, <2>2, <3>1, PublishedKeeps
  <2>5. /\ requests' \subseteq requests /\ reply' \in [Orders -> Verdicts]
        /\ Place(o) \notin requests'
        /\ \A p \in Orders : p # o => reply'[p] = reply[p]
        /\ call[o] = "placing" => reply'[o] = verdict
    BY <2>1, <2>2, AnswerTyped DEF Place
  <2>6. fills' = fills /\ fills[o] < Size
    BY <1>2, <2>1
  <2>7. QED
    BY <1>1, <2>1, <2>2, <2>3, <2>4, <2>5, <2>6, MovedKeeps
<1>5. CASE MarketOrderExecuted(o)
  <2> DEFINE status == IF Size = 1 THEN "filled" ELSE "canceled"
  <2>1. /\ Place(o) \in requests /\ book' = [book EXCEPT ![o] = status]
        /\ Answer(o, "place", "ok") /\ PublishFill(o, 1, status)
        /\ fills' = [fills EXCEPT ![o] = 1]
        /\ UNCHANGED <<linkVars, call, mapped, toPrune, coreVars, due>>
    BY <1>5 DEF MarketOrderExecuted, Requested, Place
  <2>2. /\ status \in BookStates \ {"none"} /\ book[o] \notin Terminal
        /\ status # "resting"
    BY <1>2, <2>1 DEF BookStates, Terminal
  <2> HIDE DEF status
  <2>3. 1 \in 1..Size /\ "ok" \in Verdicts
    BY DEF Verdicts
  <2>4. feed' \in Seq(Messages) /\ Settled(feed', book') /\ missed' \subseteq Fills
    BY <2>1, <2>2, <2>3, PublishedKeeps
  <2>5. /\ requests' \subseteq requests /\ reply' \in [Orders -> Verdicts]
        /\ Place(o) \notin requests'
        /\ \A p \in Orders : p # o => reply'[p] = reply[p]
        /\ call[o] = "placing" => reply'[o] = "ok"
    BY <2>1, <2>3, AnswerTyped DEF Place
  <2>6. fills' \in [Orders -> 0..Size] /\ \A p \in Orders : p # o => fills'[p] = fills[p]
    BY <1>1, <2>1, <2>3
  <2>7. QED
    BY <2>1, <2>2, <2>4, <2>5, <2>6, MovedKeeps
<1>6. CASE UnitFilled(o)
  <2> DEFINE status == IF fills[o] + 1 = Size THEN "filled" ELSE "resting"
             n == fills[o] + 1
  <2>1. /\ book[o] = "resting" /\ book' = [book EXCEPT ![o] = status]
        /\ PublishFill(o, n, status)
        /\ fills' = [fills EXCEPT ![o] = n]
        /\ UNCHANGED <<linkVars, call, mapped, toPrune, coreVars, requests, reply, due>>
    BY <1>6 DEF UnitFilled
  <2>2. n \in 1..Size
    BY <1>1, <1>3, <2>1
  <2>3. /\ status \in BookStates \ {"none"} /\ book[o] \notin Terminal
        /\ status = "resting" => n < Size
    BY <2>1, <2>2 DEF BookStates, Terminal
  <2> HIDE DEF status, n
  <2>4. feed' \in Seq(Messages) /\ Settled(feed', book') /\ missed' \subseteq Fills
    BY <2>1, <2>2, <2>3, PublishedKeeps
  <2>5. /\ fills' \in [Orders -> 0..Size] /\ fills'[o] = n
        /\ \A p \in Orders : p # o => fills'[p] = fills[p]
    BY <1>1, <2>1, <2>2
  <2>6. QED
    BY <1>1, <1>3, <2>1, <2>3, <2>4, <2>5, MovedKeeps
<1>7. CASE OrderCancelled(o)
  <2>1. /\ book[o] = "resting" /\ book' = [book EXCEPT ![o] = "canceled"]
        /\ PublishUpdate(o, "canceled") /\ Answer(o, "cancel", "ok")
        /\ UNCHANGED <<linkVars, call, mapped, toPrune, coreVars, fills, due>>
    BY <1>7 DEF OrderCancelled
  <2>2. /\ "canceled" \in BookStates \ {"none"} /\ book[o] \notin Terminal
        /\ 1 \in 1..Size /\ "ok" \in Verdicts
    BY <2>1 DEF BookStates, Terminal, Verdicts
  <2>3. feed' \in Seq(Messages) /\ Settled(feed', book') /\ missed' \subseteq Fills
    BY <2>1, <2>2, PublishedKeeps
  <2>4. /\ requests' \subseteq requests /\ reply' \in [Orders -> Verdicts]
        /\ \A p \in Orders : p # o => reply'[p] = reply[p]
        /\ call[o] = "placing" => reply'[o] = reply[o]
    BY <2>1, <2>2, AnswerTyped
  <2>5. QED
    BY <1>1, <1>3, <2>1, <2>2, <2>3, <2>4, MovedKeeps
<1>8. CASE CancelFindsItGone(o) \/ CancelRefused(o)
  <2>1. /\ Answer(o, "cancel", "gone") \/ Answer(o, "cancel", "error")
        /\ due' = due \/ due' = [due EXCEPT ![o] = fills[o]]
        /\ UNCHANGED <<linkVars, feed, call, mapped, toPrune, coreVars, venueVars, missed>>
    BY <1>8 DEF CancelFindsItGone, CancelRefused
  <2>2. /\ requests' \subseteq requests /\ reply' \in [Orders -> Verdicts]
        /\ \A p \in Orders : p # o => reply'[p] = reply[p]
        /\ call[o] = "placing" => reply'[o] = reply[o]
    <3>1. "gone" \in Verdicts /\ "error" \in Verdicts
      BY DEF Verdicts
    <3>2. QED
      BY <2>1, <3>1, AnswerTyped
  <2>3. due' \in [Orders -> 0..Size]
    BY <1>1, <2>1
  <2>4. TypeOK'
    BY <2>1, <2>2, <2>3 DEF IInv, TypeOK, linkVars, coreVars, venueVars
  <2>5. RefusedMeansRejected'
    BY <2>1, <2>2 DEF IInv, RefusedMeansRejected, venueVars
  <2>6. QED
    BY <2>1, <2>2, <2>4, <2>5 DEF IInv, PlacingMapped, NeverSubmitted, Settled, OverWhenPruned,
         Executed, LiveOrdersMapped, venueVars
<1>9. QED
  BY <1>4, <1>5, <1>6, <1>7, <1>8 DEF VenueStep

LEMMA StutterKeeps == IInv /\ UNCHANGED vars => IInv'
BY DEF IInv, TypeOK, PlacingMapped, NeverSubmitted, RefusedMeansRejected, Settled, OverWhenPruned,
       Executed, LiveOrdersMapped, vars, linkVars, coreVars, venueVars

-----------------------------------------------------------------------------

\* The order bookkeeping: what the core, the WebSocket thread and the venue
\* believe of an order fits together at every step.
THEOREM GatewayInvariant == Spec => []IInv
<1>1. IInv /\ [Next]_vars => IInv'
  BY LinkKeeps, FeedKeeps, CoreKeeps, VenueKeeps, StutterKeeps DEF Next
<1>2. QED
  BY InitHolds, <1>1, PTL DEF Spec

\* The gateway's maps, messages and calls keep their types.
THEOREM GatewayTypes == Spec => []TypeOK
<1>1. IInv => TypeOK
  BY DEF IInv
<1>2. QED
  BY GatewayInvariant, <1>1, PTL

\* An order on the venue's book is always mapped (makeCloid() comes before the
\* POST, pruneCloid() after the last word), so its fills are reported and the
\* core can cancel it: with any number of orders of any size, lost
\* connections, unanswered submits and refused cancels.
THEOREM LiveOrdersStayMapped == Spec => []LiveOrdersMapped
<1>1. IInv => LiveOrdersMapped
  BY DEF IInv
<1>2. QED
  BY GatewayInvariant, <1>1, PTL

-----------------------------------------------------------------------------
(* No fill slips through.                                                  *)

\* Where a fill may be: an order with fills is mapped, or its end was reported;
\* a rejected order has none.
FillsFollowed ==
  /\ NoFillSlipsThrough
  /\ \A o \in Orders : fills[o] > 0 => o \in mapped \cup told
  /\ \A o \in Orders : book[o] = "rejected" => fills[o] = 0

LEMMA FillsInTail ==
  ASSUME NEW s \in Seq(Messages), s # <<>>
  PROVE  \A f \in FillsIn(s) :
           \/ f \in FillsIn(Tail(s))
           \/ Head(s).feed = "userFills" /\ f = <<Head(s).order, Head(s).tid>>
<1> TAKE f \in FillsIn(s)
<1>1. PICK i \in DOMAIN s : s[i].feed = "userFills" /\ f = <<s[i].order, s[i].tid>>
  BY DEF FillsIn
<1>2. CASE i = 1
  BY <1>1, <1>2
<1>3. CASE i # 1
  <2>1. i - 1 \in DOMAIN Tail(s) /\ Tail(s)[i - 1] = s[i]
    BY <1>3
  <2>2. QED
    BY <1>1, <2>1 DEF FillsIn
<1>4. QED
  BY <1>2, <1>3

\* Publishing keeps what is on its way, and a carried fill joins it.
LEMMA FillsInCarried ==
  ASSUME NEW s \in Seq(Messages), NEW m \in Messages
  PROVE  /\ s \o Carried(m) \in Seq(Messages)
         /\ FillsIn(s) \subseteq FillsIn(s \o Carried(m))
         /\ m.feed = "userFills" /\ m.feed \in feeds
              => <<m.order, m.tid>> \in FillsIn(s \o Carried(m))
<1>1. CASE m.feed \in feeds
  <2>1. s \o Carried(m) = s \o <<m>>
    BY <1>1 DEF Carried
  <2>2. s \o <<m>> \in Seq(Messages)
    OBVIOUS
  <2>3. \A i \in DOMAIN s : i \in DOMAIN (s \o <<m>>) /\ (s \o <<m>>)[i] = s[i]
    OBVIOUS
  <2>4. Len(s) + 1 \in DOMAIN (s \o <<m>>) /\ (s \o <<m>>)[Len(s) + 1] = m
    OBVIOUS
  <2>5. FillsIn(s) \subseteq FillsIn(s \o <<m>>)
    BY <2>3 DEF FillsIn
  <2>6. m.feed = "userFills" => <<m.order, m.tid>> \in FillsIn(s \o <<m>>)
    BY <2>4 DEF FillsIn
  <2>7. QED
    BY <2>1, <2>2, <2>5, <2>6
<1>2. CASE m.feed \notin feeds
  <2>1. s \o Carried(m) = s
    BY <1>2 DEF Carried
  <2>2. QED
    BY <1>2, <2>1
<1>3. QED
  BY <1>1, <1>2

\* The fill of an order that just moved is on its way or missed, and no other
\* fill is lost by publishing it.
LEMMA FillPublished ==
  ASSUME IInv, NEW o \in Orders, NEW status \in BookStates \ {"none"}, NEW n \in 1..Size,
         PublishFill(o, n, status)
  PROVE  /\ FillsIn(feed) \subseteq FillsIn(feed')
         /\ missed \subseteq missed'
         /\ <<o, n>> \in FillsIn(feed') \cup missed'
<1> DEFINE update == Update(o, status)
           fill == Fill(o, n)
<1>1. feed \in Seq(Messages) /\ update \in Messages /\ fill \in Messages
  BY MessagesTyped DEF IInv, TypeOK
<1>2. fill.feed = "userFills" /\ fill.order = o /\ fill.tid = n
  BY DEF Fill
<1>3. \/ feed' = (feed \o Carried(fill)) \o Carried(update)
      \/ feed' = (feed \o Carried(update)) \o Carried(fill)
  BY DEF PublishFill
<1>4. missed' = IF "userFills" \in feeds THEN missed ELSE missed \cup {<<o, n>>}
  BY DEF PublishFill
<1> HIDE DEF update, fill
<1>5. FillsIn(feed) \subseteq FillsIn(feed') /\ ("userFills" \in feeds => <<o, n>> \in FillsIn(feed'))
  <2>1. CASE feed' = (feed \o Carried(fill)) \o Carried(update)
    <3> DEFINE s == feed \o Carried(fill)
    <3>1. /\ s \in Seq(Messages) /\ FillsIn(feed) \subseteq FillsIn(s)
          /\ "userFills" \in feeds => <<o, n>> \in FillsIn(s)
      BY <1>1, <1>2, FillsInCarried
    <3> HIDE DEF s
    <3>2. FillsIn(s) \subseteq FillsIn(s \o Carried(update))
      BY <1>1, <3>1, FillsInCarried
    <3>3. QED
      BY <2>1, <3>1, <3>2 DEF s
  <2>2. CASE feed' = (feed \o Carried(update)) \o Carried(fill)
    <3> DEFINE s == feed \o Carried(update)
    <3>1. s \in Seq(Messages) /\ FillsIn(feed) \subseteq FillsIn(s)
      BY <1>1, FillsInCarried
    <3> HIDE DEF s
    <3>2. /\ FillsIn(s) \subseteq FillsIn(s \o Carried(fill))
          /\ "userFills" \in feeds => <<o, n>> \in FillsIn(s \o Carried(fill))
      BY <1>1, <1>2, <3>1, FillsInCarried
    <3>3. QED
      BY <2>2, <3>1, <3>2 DEF s
  <2>3. QED
    BY <1>3, <2>1, <2>2
<1>6. QED
  BY <1>4, <1>5

LEMMA LinkFollows == IInv /\ FillsFollowed /\ Link => FillsFollowed'
<1> SUFFICES ASSUME IInv, FillsFollowed, Link PROVE FillsFollowed'
  OBVIOUS
<1>1. UNCHANGED <<mapped, coreVars, venueVars>>
  BY DEF Link, ConnectionUp, StartReturns, ConnectionLost, FeedActivated
<1>2. \/ UNCHANGED <<feed, missed>>
      \/ missed' = missed \cup FillsIn(feed)
  BY DEF Link, ConnectionUp, StartReturns, ConnectionLost, FeedActivated
<1>3. FillsIn(feed) \cup missed \subseteq FillsIn(feed') \cup missed'
  BY <1>2
<1>4. NoFillSlipsThrough'
  BY <1>1, <1>3 DEF FillsFollowed, NoFillSlipsThrough, coreVars, venueVars, FillsOf
<1>5. QED
  BY <1>1, <1>4 DEF FillsFollowed, coreVars, venueVars

LEMMA CoreFollows ==
  ASSUME IInv, FillsFollowed, NEW o \in Orders, CoreStep(o) PROVE FillsFollowed'
<1>1. UNCHANGED <<feed, told, book, fills, missed>>
  BY CoreTypes DEF venueVars, CoreStep, Submit, SubmitReturns, SubmitThrows, Cancel,
     CancelUnmapped, CancelReturns, CancelThrows, LookUpAgain, FetchFills, coreVars
<1>2. credited \subseteq credited'
  BY DEF CoreStep, Submit, SubmitReturns, SubmitThrows, Cancel, CancelUnmapped, CancelReturns,
     CancelThrows, LookUpAgain, FetchFills, coreVars
<1>3. \/ mapped \subseteq mapped'
      \/ SubmitReturns(o) /\ reply[o] # "ok" /\ mapped' = mapped \ {o}
  BY DEF CoreStep, Submit, SubmitReturns, SubmitThrows, KeepMapped, Cancel, CancelUnmapped,
     CancelReturns, CancelThrows, LookUpAgain, FetchFills
<1>4. SubmitReturns(o) /\ reply[o] # "ok" => fills[o] = 0
  BY DEF SubmitReturns, IInv, TypeOK, RefusedMeansRejected, Verdicts, FillsFollowed
<1>5. \A p \in Orders : fills[p] > 0 => p \in mapped' \cup told
  BY <1>3, <1>4 DEF FillsFollowed
<1>6. NoFillSlipsThrough'
  BY <1>1, <1>2 DEF FillsFollowed, NoFillSlipsThrough
<1>7. QED
  BY <1>1, <1>5, <1>6 DEF FillsFollowed

LEMMA FeedFollows ==
  IInv /\ FillsFollowed /\ (OnOrderUpdate \/ PruneCloid \/ OnUserFill) => FillsFollowed'
<1> SUFFICES ASSUME IInv, FillsFollowed, OnOrderUpdate \/ PruneCloid \/ OnUserFill
             PROVE FillsFollowed'
  OBVIOUS
<1>1. UNCHANGED <<venueVars, missed>>
  BY DEF OnOrderUpdate, PruneCloid, OnUserFill
<1>2. told \subseteq told' /\ credited \subseteq credited'
  BY DEF OnOrderUpdate, Reported, PruneCloid, OnUserFill, coreVars
<1>3. \A o \in Orders : fills[o] > 0 => o \in mapped' \cup told'
  <2>1. toPrune \in told \cup {NoOrder}
    BY DEF IInv, TypeOK
  <2>2. mapped' = mapped \/ (toPrune \in told /\ mapped' = mapped \ {toPrune})
    BY <2>1 DEF OnOrderUpdate, PruneCloid, OnUserFill
  <2>3. QED
    BY <1>2, <2>2 DEF FillsFollowed
<1>4. feed' = feed \/ (feed # <<>> /\ feed' = Tail(feed))
  BY DEF OnOrderUpdate, PruneCloid, OnUserFill, IsNext
<1>5. feed # <<>> /\ feed' = Tail(feed) /\ Head(feed).feed = "userFills" =>
        feed = feed' \/ OnUserFill
  BY DEF OnOrderUpdate, PruneCloid, IsNext
<1>6. ASSUME NEW o \in Orders, o \notin told'
      PROVE FillsOf(o, fills[o]) \subseteq credited' \cup FillsIn(feed') \cup missed
  <2>1. FillsOf(o, fills[o]) \subseteq credited \cup FillsIn(feed) \cup missed
    BY <1>2, <1>6 DEF FillsFollowed, NoFillSlipsThrough
  <2>2. ASSUME NEW f \in FillsOf(o, fills[o]), f \in FillsIn(feed), f \notin FillsIn(feed')
        PROVE f \in credited'
    <3>1. feed # <<>> /\ feed' = Tail(feed) /\ feed # feed'
      BY <1>4, <2>2
    <3>2. Head(feed).feed = "userFills" /\ f = <<Head(feed).order, Head(feed).tid>>
      BY <2>2, <3>1, FillsInTail DEF IInv, TypeOK
    <3>3. OnUserFill
      BY <1>5, <3>1, <3>2
    <3>4. Head(feed).order = o /\ fills[o] > 0
      <4>1. f[1] = o /\ f[2] \in 1..fills[o] /\ fills[o] \in Nat
        BY <2>2, GatewayAssumption DEF FillsOf, IInv, TypeOK
      <4>2. QED
        BY <3>2, <4>1
    <3>5. o \in mapped
      BY <1>2, <1>6, <3>4 DEF FillsFollowed
    <3>6. QED
      BY <3>2, <3>3, <3>4, <3>5 DEF OnUserFill
  <2>3. QED
    BY <1>2, <2>1, <2>2
<1>7. NoFillSlipsThrough'
  BY <1>1, <1>6 DEF NoFillSlipsThrough, venueVars
<1>8. QED
  BY <1>1, <1>3, <1>7 DEF FillsFollowed, venueVars

\* A fill that the venue adds to an order of the book, or to one just placed.
LEMMA FillFollows ==
  ASSUME IInv, FillsFollowed, NEW o \in Orders, NEW status \in BookStates \ {"none", "rejected"},
         o \in mapped, fills[o] + 1 \in 1..Size, PublishFill(o, fills[o] + 1, status),
         fills' = [fills EXCEPT ![o] = @ + 1], book' = [book EXCEPT ![o] = status],
         UNCHANGED <<mapped, coreVars>>
  PROVE  FillsFollowed'
<1> DEFINE n == fills[o] + 1
<1>1. fills \in [Orders -> 0..Size] /\ book \in [Orders -> BookStates]
  BY DEF IInv, TypeOK
<1>2. /\ FillsIn(feed) \subseteq FillsIn(feed') /\ missed \subseteq missed'
      /\ <<o, n>> \in FillsIn(feed') \cup missed'
  BY FillPublished
<1>3. /\ fills'[o] = n /\ book'[o] = status
      /\ \A p \in Orders : p # o => fills'[p] = fills[p] /\ book'[p] = book[p]
  BY <1>1
<1>4. FillsOf(o, n) \subseteq FillsOf(o, fills[o]) \cup {<<o, n>>}
  BY <1>1, GatewayAssumption DEF FillsOf
<1>5. UNCHANGED <<mapped, told, credited>>
  BY DEF coreVars
<1> HIDE DEF n
<1>6. ASSUME NEW p \in Orders, p \notin told
      PROVE FillsOf(p, fills'[p]) \subseteq credited \cup FillsIn(feed') \cup missed'
  <2>1. FillsOf(p, fills[p]) \subseteq credited \cup FillsIn(feed) \cup missed
    BY <1>6 DEF FillsFollowed, NoFillSlipsThrough
  <2>2. CASE p = o
    BY <1>2, <1>3, <1>4, <2>1, <2>2
  <2>3. CASE p # o
    BY <1>2, <1>3, <2>1, <2>3
  <2>4. QED
    BY <2>2, <2>3
<1>7. NoFillSlipsThrough'
  BY <1>5, <1>6 DEF NoFillSlipsThrough
<1>8. QED
  BY <1>3, <1>5, <1>7 DEF FillsFollowed

LEMMA VenueFollows ==
  ASSUME IInv, FillsFollowed, NEW o \in Orders, VenueStep(o) PROVE FillsFollowed'
<1> USE GatewayAssumption
<1>1. /\ fills \in [Orders -> 0..Size] /\ book \in [Orders -> BookStates]
      /\ feed \in Seq(Messages)
  BY DEF IInv, TypeOK
<1>2. Place(o) \in requests => o \in mapped /\ fills[o] = 0
  BY DEF IInv, PlacingMapped, Executed
<1>3. book[o] = "resting" => o \in mapped /\ fills[o] < Size
  BY DEF IInv, Executed, LiveOrdersMapped
<1>4. CASE MarketOrderExecuted(o)
  <2> DEFINE status == IF Size = 1 THEN "filled" ELSE "canceled"
  <2>1. /\ Place(o) \in requests /\ book' = [book EXCEPT ![o] = status]
        /\ PublishFill(o, 1, status) /\ fills' = [fills EXCEPT ![o] = 1]
        /\ UNCHANGED <<mapped, coreVars>>
    BY <1>4 DEF MarketOrderExecuted, Requested, Place
  <2>2. /\ status \in BookStates \ {"none", "rejected"}
        /\ o \in mapped /\ fills[o] + 1 = 1 /\ fills[o] + 1 \in 1..Size
    BY <1>2, <2>1 DEF BookStates
  <2> HIDE DEF status
  <2>3. QED
    BY <1>1, <2>1, <2>2, FillFollows
<1>5. CASE UnitFilled(o)
  <2> DEFINE status == IF fills[o] + 1 = Size THEN "filled" ELSE "resting"
  <2>1. /\ book[o] = "resting" /\ book' = [book EXCEPT ![o] = status]
        /\ PublishFill(o, fills[o] + 1, status) /\ fills' = [fills EXCEPT ![o] = @ + 1]
        /\ UNCHANGED <<mapped, coreVars>>
    BY <1>5 DEF UnitFilled
  <2>2. /\ status \in BookStates \ {"none", "rejected"}
        /\ o \in mapped /\ fills[o] + 1 \in 1..Size
    BY <1>1, <1>3, <2>1 DEF BookStates
  <2> HIDE DEF status
  <2>3. QED
    BY <2>1, <2>2, FillFollows
<1>6. CASE \/ OrderPlaced(o) \/ OrderRejected(o) \/ OrderCancelled(o)
           \/ CancelFindsItGone(o) \/ CancelRefused(o)
  <2>1. UNCHANGED <<mapped, coreVars, fills, missed>>
    BY <1>6 DEF OrderPlaced, OrderRejected, OrderCancelled, CancelFindsItGone, CancelRefused,
         PublishUpdate, venueVars
  <2>2. feed' = feed \/ \E status \in BookStates \ {"none"} : feed' = feed \o Carried(Update(o, status))
    BY <1>6 DEF OrderPlaced, OrderRejected, OrderCancelled, CancelFindsItGone, CancelRefused,
         PublishUpdate, BookStates
  <2>3. FillsIn(feed) \subseteq FillsIn(feed')
    <3>1. CASE feed' = feed
      BY <3>1
    <3>2. ASSUME NEW status \in BookStates \ {"none"}, feed' = feed \o Carried(Update(o, status))
          PROVE FillsIn(feed) \subseteq FillsIn(feed')
      BY <1>1, <3>2, MessagesTyped, FillsInCarried
    <3>3. QED
      BY <2>2, <3>1, <3>2
  <2>4. \A p \in Orders : book'[p] = "rejected" => fills[p] = 0
    <3>1. \/ book' = book
          \/ \E status \in {"resting", "canceled"} : book' = [book EXCEPT ![o] = status]
          \/ book' = [book EXCEPT ![o] = "rejected"] /\ fills[o] = 0
      BY <1>2, <1>6 DEF OrderPlaced, OrderRejected, OrderCancelled, CancelFindsItGone,
           CancelRefused, venueVars, Requested, Place
    <3>2. QED
      BY <1>1, <3>1 DEF FillsFollowed
  <2>5. NoFillSlipsThrough'
    BY <2>1, <2>3 DEF FillsFollowed, NoFillSlipsThrough, coreVars
  <2>6. QED
    BY <2>1, <2>4, <2>5 DEF FillsFollowed, coreVars
<1>7. QED
  BY <1>4, <1>5, <1>6 DEF VenueStep

LEMMA FillsInvariant == Spec => []FillsFollowed
<1>1. Init => FillsFollowed
  <2>1. ASSUME NEW o \in Orders PROVE FillsOf(o, 0) = {}
    BY DEF FillsOf
  <2>2. QED
    BY <2>1 DEF Init, FillsFollowed, NoFillSlipsThrough
<1>2. IInv /\ FillsFollowed /\ [Next]_vars => FillsFollowed'
  <2>1. IInv /\ FillsFollowed /\ UNCHANGED vars => FillsFollowed'
    BY DEF FillsFollowed, NoFillSlipsThrough, vars, coreVars, venueVars
  <2>2. QED
    BY <2>1, LinkFollows, FeedFollows, CoreFollows, VenueFollows DEF Next
<1>3. QED
  BY <1>1, <1>2, GatewayInvariant, PTL DEF Spec

\* No fill is lost without a trace (emitFill() drops the fills of unmapped
\* orders, hyperliquid_execution_gateway.cpp:186): as long as the end of an
\* order was not reported, each of its fills was credited, is on its way, or
\* happened while no feed carried it.
THEOREM FillsDoNotSlipThrough == Spec => []NoFillSlipsThrough
<1>1. FillsFollowed => NoFillSlipsThrough
  BY DEF FillsFollowed
<1>2. QED
  BY <1>1, FillsInvariant, PTL

-----------------------------------------------------------------------------
(* What a cancel that returns false leaves behind.                         *)

\* What a cancel owes the core was executed.
DueExecuted == \A o \in Orders : due[o] <= fills[o]

LEMMA DueKeeps == IInv /\ DueExecuted /\ [Next]_vars => DueExecuted'
<1> SUFFICES ASSUME IInv, DueExecuted, [Next]_vars PROVE DueExecuted'
  OBVIOUS
<1>1. fills \in [Orders -> 0..Size] /\ due \in [Orders -> 0..Size] /\ Size \in Nat \ {0}
  BY GatewayAssumption DEF IInv, TypeOK
<1>2. \/ due' = due
      \/ fills' = fills /\ \E o \in Orders : due' = [due EXCEPT ![o] = fills[o]]
  BY DEF Next, vars, Link, ConnectionUp, StartReturns, ConnectionLost, FeedActivated,
     OnOrderUpdate, PruneCloid, OnUserFill, CoreStep, Submit, SubmitReturns, SubmitThrows,
     Cancel, CancelUnmapped, CancelReturns, CancelThrows, LookUpAgain, FetchFills, VenueStep,
     OrderPlaced, OrderRejected, MarketOrderExecuted, UnitFilled, OrderCancelled,
     CancelFindsItGone, CancelRefused, venueVars
<1>3. \/ fills' = fills
      \/ \E o \in Orders : fills' = [fills EXCEPT ![o] = @ + 1]
      \/ \E o \in Orders : Place(o) \in requests /\ fills' = [fills EXCEPT ![o] = 1]
  BY DEF Next, vars, Link, ConnectionUp, StartReturns, ConnectionLost, FeedActivated,
     OnOrderUpdate, PruneCloid, OnUserFill, CoreStep, Submit, SubmitReturns, SubmitThrows,
     Cancel, CancelUnmapped, CancelReturns, CancelThrows, LookUpAgain, FetchFills, VenueStep,
     OrderPlaced, OrderRejected, MarketOrderExecuted, UnitFilled, OrderCancelled,
     CancelFindsItGone, CancelRefused, venueVars, Requested, Place
<1>4. \A o \in Orders : Place(o) \in requests => fills[o] = 0
  BY DEF IInv, PlacingMapped, Executed
<1>5. \A o \in Orders : fills'[o] \in Nat /\ fills[o] <= fills'[o]
  <2>1. CASE fills' = fills
    BY <1>1, <2>1
  <2>2. ASSUME NEW o \in Orders, fills' = [fills EXCEPT ![o] = @ + 1]
        PROVE  \A q \in Orders : fills'[q] \in Nat /\ fills[q] <= fills'[q]
    BY <1>1, <2>2
  <2>3. ASSUME NEW o \in Orders, Place(o) \in requests, fills' = [fills EXCEPT ![o] = 1]
        PROVE  \A q \in Orders : fills'[q] \in Nat /\ fills[q] <= fills'[q]
    BY <1>1, <1>4, <2>3
  <2> QED BY <1>3, <2>1, <2>2, <2>3
<1>6. CASE due' = due
  <2>1. \A o \in Orders : due[o] \in Nat /\ fills[o] \in Nat
    BY <1>1
  <2> QED BY <1>5, <1>6, <2>1 DEF DueExecuted
<1>7. CASE fills' = fills /\ \E o \in Orders : due' = [due EXCEPT ![o] = fills[o]]
  BY <1>1, <1>7 DEF DueExecuted
<1> QED
  BY <1>2, <1>6, <1>7

\* A call ends as "gone" only in three ways.
LEMMA BecomesGone ==
  ASSUME IInv, [Next]_vars, NEW o \in Orders, call[o] # "gone", call'[o] = "gone"
  PROVE  \/ CancelUnmapped(o)
         \/ LookUpAgain(o) /\ o \notin mapped
         \/ FetchFills(o)
<1>1. call \in [Orders -> Calls]
  BY DEF IInv, TypeOK
<1>2. PICK p \in Orders : CoreStep(p)
  <2>1. call' # call
    OBVIOUS
  <2> QED BY <2>1 DEF Next, vars, Link, ConnectionUp, StartReturns, ConnectionLost, FeedActivated,
          OnOrderUpdate, PruneCloid, OnUserFill, VenueStep, OrderPlaced, OrderRejected,
          MarketOrderExecuted, UnitFilled, OrderCancelled, CancelFindsItGone, CancelRefused
<1>3. p = o
  <2>1. \E s : call' = [call EXCEPT ![p] = s]
    BY <1>2 DEF CoreStep, Submit, SubmitReturns, SubmitThrows, Cancel, CancelUnmapped,
       CancelReturns, CancelThrows, LookUpAgain, FetchFills, Becomes
  <2> QED BY <1>1, <2>1
<1>4. ~(Submit(o) \/ SubmitReturns(o) \/ SubmitThrows(o) \/ Cancel(o) \/ CancelReturns(o)
          \/ CancelThrows(o))
  BY <1>1 DEF Submit, SubmitReturns, SubmitThrows, Cancel, CancelReturns, CancelThrows,
     Becomes, AfterGone
<1>5. LookUpAgain(o) => o \notin mapped
  BY <1>1 DEF LookUpAgain, Becomes
<1> QED
  BY <1>2, <1>3, <1>4, <1>5 DEF CoreStep

\* "Gone" can mean filled ("Reconcile first", hyperliquid_execution_gateway.
\* cpp:544): whenever a cancel returns false, the order's end was reported, or
\* every fill up to the venue's answer was credited, or the log has a failure.
\* An order that lost its mapping in the meantime was told or never filled.
THEOREM GoneOrdersAccounted == Spec => GoneIsAccounted
<1>1. Init => DueExecuted
  <2> SUFFICES ASSUME Init, NEW o \in Orders
               PROVE  due[o] <= fills[o]
    BY DEF DueExecuted
  <2>1. due[o] = 0 /\ fills[o] = 0
    BY DEF Init
  <2> HIDE DEF Init
  <2> QED BY <2>1, SMT
<1>2. ASSUME IInv, FillsFollowed, DueExecuted, [Next]_vars
      PROVE  [\A o \in Orders : call[o] # "gone" /\ call'[o] = "gone" =>
                o \in told \cup warned' \/ FillsOf(o, due'[o]) \subseteq credited']_vars
  <2> SUFFICES ASSUME NEW o \in Orders, call[o] # "gone", call'[o] = "gone"
               PROVE  o \in told \cup warned' \/ FillsOf(o, due'[o]) \subseteq credited'
    OBVIOUS
  <2>1. /\ due \in [Orders -> 0..Size] /\ fills \in [Orders -> 0..Size] /\ Size \in Nat
        /\ due[o] <= fills[o]
    BY <1>2, GatewayAssumption DEF IInv, TypeOK, DueExecuted
  <2>2. o \in mapped \cup told \/ fills[o] = 0
    BY <1>2, <2>1 DEF FillsFollowed
  <2>3. FillsOf(o, 0) = {}
    BY DEF FillsOf
  <2>4. CASE CancelUnmapped(o)
    <3>1. o \notin mapped /\ due'[o] = fills[o]
      BY <2>1, <2>4 DEF CancelUnmapped
    <3> QED BY <2>2, <2>3, <3>1
  <2>5. CASE LookUpAgain(o) /\ o \notin mapped
    <3>1. due' = due /\ (fills[o] = 0 => due[o] = 0)
      BY <2>1, <2>5 DEF LookUpAgain
    <3> QED BY <2>2, <2>3, <2>5, <3>1
  <2>6. CASE FetchFills(o)
    <3>1. due' = due /\ (o \in warned' \/ FillsOf(o, fills[o]) \subseteq credited')
      BY <2>6 DEF FetchFills
    <3>2. FillsOf(o, due[o]) \subseteq FillsOf(o, fills[o])
      BY <2>1 DEF FillsOf
    <3> QED BY <3>1, <3>2
  <2> QED BY <1>2, <2>4, <2>5, <2>6, BecomesGone
<1> QED
  BY <1>1, <1>2, DueKeeps, GatewayInvariant, FillsInvariant, PTL DEF Spec, GoneIsAccounted

=============================================================================
