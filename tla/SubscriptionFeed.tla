--------------------------- MODULE SubscriptionFeed ---------------------------
(***************************************************************************)
(* What a session promises about subscriptions, without connections: the   *)
(* topics that are wanted, those the venue feeds, and those whose          *)
(* unsubscribing has been asked for and is still on its way.  WsSession    *)
(* implements it (FollowsFeed).                                            *)
(***************************************************************************)
CONSTANT Topics
VARIABLES wanted, fed, dropping

feedVars == <<wanted, fed, dropping>>

FeedInit == wanted = {} /\ fed = {} /\ dropping = {}

Want(t) ==
  /\ wanted' = wanted \cup {t}
  /\ UNCHANGED <<fed, dropping>>

\* A fed topic is not just forgotten: its unsubscribing is on its way.
Drop(t) ==
  /\ wanted' = wanted \ {t}
  /\ dropping' \in {dropping, dropping \cup {t}}
  /\ t \in fed => t \in dropping'
  /\ UNCHANGED fed

\* A topic is fed once, and only because it is or has just been wanted.
Feed(t) ==
  /\ t \in (wanted \cup dropping) \ fed
  /\ fed' = fed \cup {t}
  /\ UNCHANGED <<wanted, dropping>>

Stop(t) ==
  /\ t \in dropping
  /\ fed' = fed \ {t}
  /\ dropping' \in {dropping, dropping \ {t}}
  /\ UNCHANGED wanted

\* The feed is lost with its connection, and what is wanted stays wanted.
Lose ==
  /\ fed' = {}
  /\ dropping' \in SUBSET dropping
  /\ UNCHANGED wanted

FeedNext ==
  \/ \E t \in Topics : Want(t) \/ Drop(t) \/ Feed(t) \/ Stop(t)
  \/ Lose

FeedSpec == FeedInit /\ [][FeedNext]_feedVars

\* What the venue feeds is wanted, or its unsubscribing is on its way.
NoZombieFeed == fed \subseteq wanted \cup dropping

=============================================================================
