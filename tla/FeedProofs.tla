------------------------------ MODULE FeedProofs ------------------------------
(***************************************************************************)
(* What SubscriptionFeed promises, and that WsSession implements it when a *)
(* topic is subscribed again only after its unsubscribe handler has run:   *)
(* for any threads, topics and bounds, the messages on their way to the    *)
(* venue always add up to the topics the session has recorded as sent.     *)
(***************************************************************************)
EXTENDS WsLinkProofs, WellFoundedInduction

Sub(t) == [method |-> "subscribe", topic |-> t]
Unsub(t) == [method |-> "unsubscribe", topic |-> t]

-----------------------------------------------------------------------------
(* Messages on their way to a venue that feeds the topics of fed.          *)

Carries(all, m) == \E i \in 1..Len(all) : all[i] = m
NoneAbout(all, t) == \A i \in 1..Len(all) : all[i].topic # t
LastIs(all, t, m) ==
  \E i \in 1..Len(all) : all[i] = m /\ \A j \in 1..Len(all) : all[j].topic = t => j <= i

\* Effective, for any messages.
EndsFed(all, fed, t) == LastIs(all, t, Sub(t)) \/ (t \in fed /\ NoneAbout(all, t))

\* Before every subscribe for t that the venue feeds or has been asked for
\* comes an unsubscribe.
AskedOnce(all, fed, t) ==
  \A i \in 1..Len(all) : all[i] = Sub(t) =>
    /\ t \in fed => \E j \in 1..i : all[j] = Unsub(t)
    /\ \A k \in 1..(i - 1) : all[k] = Sub(t) => \E j \in k..i : all[j] = Unsub(t)

LEMMA MessageFacts ==
  ASSUME NEW t \in Topics
  PROVE  /\ Sub(t) \in Messages /\ Unsub(t) \in Messages
         /\ Sub(t) # Unsub(t)
         /\ Sub(t).topic = t /\ Unsub(t).topic = t
         /\ \A m \in Messages : m.topic = t => m \in {Sub(t), Unsub(t)}
         /\ \A m \in Messages : m = Sub(t) <=> m.topic = t /\ m.method = "subscribe"
<1>1. Sub(t).method = "subscribe" /\ Unsub(t).method = "unsubscribe"
  BY DEF Sub, Unsub
<1>2. Sub(t) \in Messages /\ Unsub(t) \in Messages /\ Sub(t).topic = t /\ Unsub(t).topic = t
  BY DEF Sub, Unsub, Messages
<1>3. ASSUME NEW m \in Messages, m.topic = t PROVE m \in {Sub(t), Unsub(t)}
  BY <1>3, SessionAssumption DEF Messages, Sub, Unsub
<1> QED
  BY <1>1, <1>2, <1>3

\* Messages about a topic have a last one.
LEMMA LastExists ==
  ASSUME NEW n \in Nat, NEW T \in SUBSET (1..n), T # {}
  PROVE  \E i \in T : \A j \in T : j <= i
<1> DEFINE Above == {i..n : i \in T}
<1>1. Above \subseteq FiniteSubsetsOf(1..n) /\ Above # {}
  <2>1. IsFiniteSet(1..n)
    BY FS_Interval
  <2>2. ASSUME NEW i \in T PROVE i..n \in SUBSET (1..n) /\ IsFiniteSet(i..n)
    <3>1. i..n \in SUBSET (1..n)
      OBVIOUS
    <3> QED BY <2>1, <3>1, FS_Subset
  <2> QED BY <2>2 DEF FiniteSubsetsOf
<1>2. PICK u \in Above : \A v \in Above : <<v, u>> \notin StrictSubsetOrdering(1..n)
  <2>1. IsWellFoundedOn(StrictSubsetOrdering(1..n), FiniteSubsetsOf(1..n))
    BY FS_StrictSubsetOrderingWellFounded
  <2> HIDE DEF Above
  <2> QED BY <1>1, <2>1, WFMin
<1>3. PICK i \in T : u = i..n
  OBVIOUS
<1>4. ASSUME NEW j \in T, i < j PROVE FALSE
  <2>1. i \in i..n /\ i \notin j..n /\ j..n \in SUBSET (i..n) /\ i..n \in SUBSET (1..n)
    BY <1>4
  <2>2. <<j..n, i..n>> \in StrictSubsetOrdering(1..n)
    BY <2>1 DEF StrictSubsetOrdering
  <2> QED BY <1>2, <1>3, <2>2
<1> QED
  BY <1>4

\* The last message about t subscribes it, or unsubscribes it, or there is none.
LEMMA LastCases ==
  ASSUME NEW all \in Seq(Messages), NEW t \in Topics
  PROVE  LastIs(all, t, Sub(t)) \/ LastIs(all, t, Unsub(t)) \/ NoneAbout(all, t)
<1> DEFINE T == {i \in 1..Len(all) : all[i].topic = t}
<1>1. Len(all) \in Nat /\ T \in SUBSET (1..Len(all))
  BY LenProperties
<1>2. CASE T = {}
  BY <1>2 DEF NoneAbout
<1>3. CASE T # {}
  <2>1. PICK i \in T : \A j \in T : j <= i
    <3> HIDE DEF T
    <3> QED BY <1>1, <1>3, LastExists
  <2>2. all[i] \in Messages /\ all[i].topic = t
    BY ElementOfSeq
  <2>3. all[i] \in {Sub(t), Unsub(t)}
    BY <2>2, MessageFacts
  <2> QED BY <2>1, <2>3 DEF LastIs
<1> QED
  BY <1>2, <1>3

\* The session's Effective is EndsFed.
LEMMA EffectiveIs ==
  ASSUME wire \o outboundQueue \in Seq(Messages), NEW t \in Topics
  PROVE  Effective(t) <=> EndsFed(wire \o outboundQueue, serverTopics, t)
<1> DEFINE all == wire \o outboundQueue
<1>1. DOMAIN all = 1..Len(all) /\ \A i \in 1..Len(all) : all[i] \in Messages
  BY LenProperties, ElementOfSeq
<1>2. \A i \in 1..Len(all) : all[i] = Sub(t) <=> all[i].topic = t /\ all[i].method = "subscribe"
  BY <1>1, MessageFacts
<1> HIDE DEF all
<1>3. EndsFed(all, serverTopics, t) <=>
        \/ \E i \in DOMAIN all :
             /\ all[i].topic = t /\ all[i].method = "subscribe"
             /\ \A j \in DOMAIN all : all[j].topic = t => j <= i
        \/ t \in serverTopics /\ \A i \in DOMAIN all : ~(all[i].topic = t)
  BY <1>1, <1>2 DEF EndsFed, LastIs, NoneAbout
<1> QED
  BY <1>3 DEF Effective, all

\* A topic that does not end up fed although messages or the feed mention it
\* has an unsubscribe on its way.
LEMMA LeavesByUnsub ==
  ASSUME NEW all \in Seq(Messages), NEW t \in Topics, NEW fed, ~EndsFed(all, fed, t)
  PROVE  \/ t \notin fed /\ NoneAbout(all, t)
         \/ LastIs(all, t, Unsub(t)) /\ Carries(all, Unsub(t))
BY LastCases DEF EndsFed, LastIs, Carries

-----------------------------------------------------------------------------
(* One more message, one message less.                                     *)

\* all followed by m.
IsAppend(new, all, m) ==
  /\ Len(new) = Len(all) + 1 /\ new[Len(new)] = m
  /\ \A i \in 1..Len(all) : new[i] = all[i]

\* all without its first n messages.
IsSuffix(new, all, n) ==
  /\ Len(new) = Len(all) - n
  /\ \A i \in 1..Len(new) : new[i] = all[i + n]

\* A message about another topic changes nothing for t.
LEMMA AppendOther ==
  ASSUME NEW all \in Seq(Messages), NEW new \in Seq(Messages), NEW fed, NEW t \in Topics,
         NEW m \in Messages, m.topic # t, IsAppend(new, all, m)
  PROVE  /\ AskedOnce(all, fed, t) => AskedOnce(new, fed, t)
         /\ EndsFed(new, fed, t) <=> EndsFed(all, fed, t)
         /\ Carries(new, Unsub(t)) <=> Carries(all, Unsub(t))
<1>1. Len(all) \in Nat /\ m # Sub(t) /\ m # Unsub(t)
  BY LenProperties, MessageFacts
<1>2. AskedOnce(all, fed, t) => AskedOnce(new, fed, t)
  BY <1>1 DEF AskedOnce, IsAppend
<1>3. LastIs(new, t, Sub(t)) <=> LastIs(all, t, Sub(t))
  BY <1>1 DEF LastIs, IsAppend
<1>4. NoneAbout(new, t) <=> NoneAbout(all, t)
  BY <1>1 DEF NoneAbout, IsAppend
<1>5. Carries(new, Unsub(t)) <=> Carries(all, Unsub(t))
  BY <1>1 DEF Carries, IsAppend
<1> QED
  BY <1>2, <1>3, <1>4, <1>5 DEF EndsFed

\* Unsubscribing t: it is not fed in the end.
LEMMA AppendUnsub ==
  ASSUME NEW all \in Seq(Messages), NEW new \in Seq(Messages), NEW fed, NEW t \in Topics,
         IsAppend(new, all, Unsub(t))
  PROVE  /\ AskedOnce(all, fed, t) => AskedOnce(new, fed, t)
         /\ ~EndsFed(new, fed, t)
         /\ Carries(new, Unsub(t))
<1>1. Len(all) \in Nat /\ Sub(t) # Unsub(t) /\ Unsub(t).topic = t
  BY LenProperties, MessageFacts
<1>2. ASSUME AskedOnce(all, fed, t) PROVE AskedOnce(new, fed, t)
  <2>1. ASSUME NEW i \in 1..Len(new), new[i] = Sub(t)
        PROVE  /\ i \in 1..Len(all) /\ all[i] = Sub(t)
               /\ \A j \in 1..i : j \in 1..Len(all) /\ new[j] = all[j]
    BY <1>1, <2>1 DEF IsAppend
  <2>2. ASSUME NEW i \in 1..Len(new), new[i] = Sub(t)
        PROVE  /\ t \in fed => \E j \in 1..i : new[j] = Unsub(t)
               /\ \A k \in 1..(i - 1) : new[k] = Sub(t) => \E j \in k..i : new[j] = Unsub(t)
    <3>1. /\ t \in fed => \E j \in 1..i : all[j] = Unsub(t)
          /\ \A k \in 1..(i - 1) : all[k] = Sub(t) => \E j \in k..i : all[j] = Unsub(t)
      BY <1>2, <2>1, <2>2 DEF AskedOnce
    <3>2. \A k \in 1..(i - 1) : k \in 1..i /\ \A j \in k..i : j \in 1..i
      BY <2>1, <2>2
    <3> QED BY <2>1, <2>2, <3>1, <3>2
  <2> QED BY <2>2 DEF AskedOnce
<1>3. ~LastIs(new, t, Sub(t)) /\ ~NoneAbout(new, t) /\ Carries(new, Unsub(t))
  BY <1>1 DEF LastIs, NoneAbout, Carries, IsAppend
<1> QED
  BY <1>2, <1>3 DEF EndsFed

\* The first messages are lost, and so is the feed.
LEMMA LoseFirst ==
  ASSUME NEW all \in Seq(Messages), NEW new \in Seq(Messages), NEW n \in 0..Len(all), NEW fed,
         NEW t \in Topics, IsSuffix(new, all, n)
  PROVE  /\ AskedOnce(all, fed, t) => AskedOnce(new, {}, t)
         /\ EndsFed(new, {}, t) => EndsFed(all, fed, t)
         /\ Carries(new, Unsub(t)) => Carries(all, Unsub(t))
<1>1. Len(all) \in Nat /\ Len(new) = Len(all) - n /\ n \in Nat
  BY LenProperties DEF IsSuffix
<1>2. ASSUME AskedOnce(all, fed, t) PROVE AskedOnce(new, {}, t)
  <2>a. ASSUME \A i \in 1..Len(new) : \A k \in 1..(i - 1) :
                 new[i] = Sub(t) /\ new[k] = Sub(t) => \E j \in k..i : new[j] = Unsub(t)
        PROVE  AskedOnce(new, {}, t)
    BY <2>a DEF AskedOnce
  <2> SUFFICES ASSUME NEW i \in 1..Len(new), new[i] = Sub(t),
                      NEW k \in 1..(i - 1), new[k] = Sub(t)
               PROVE  \E j \in k..i : new[j] = Unsub(t)
    BY <2>a
  <2>1. /\ i + n \in 1..Len(all) /\ all[i + n] = Sub(t)
        /\ k + n \in 1..(i + n - 1) /\ all[k + n] = Sub(t)
    <3>1. i + n \in 1..Len(all) /\ k + n \in 1..(i + n - 1) /\ k \in 1..Len(new)
      BY <1>1
    <3> QED BY <3>1 DEF IsSuffix
  <2>2. PICK j \in (k + n)..(i + n) : all[j] = Unsub(t)
    BY <1>2, <2>1 DEF AskedOnce
  <2>3. j - n \in k..i /\ j - n \in 1..Len(new) /\ (j - n) + n = j
    BY <1>1
  <2>4. new[j - n] = all[j]
    BY <2>3 DEF IsSuffix
  <2> QED BY <2>2, <2>3, <2>4
<1>3. ASSUME LastIs(new, t, Sub(t)) PROVE LastIs(all, t, Sub(t))
  <2>1. PICK i \in 1..Len(new) : new[i] = Sub(t) /\ \A j \in 1..Len(new) : new[j].topic = t => j <= i
    BY <1>3 DEF LastIs
  <2>2. i + n \in 1..Len(all) /\ all[i + n] = Sub(t)
    BY <1>1, <2>1 DEF IsSuffix
  <2>3. ASSUME NEW j \in 1..Len(all), all[j].topic = t, j > i + n PROVE FALSE
    <3>1. j - n \in 1..Len(new) /\ (j - n) + n = j /\ j - n > i
      BY <1>1, <2>3
    <3>2. new[j - n] = all[j]
      BY <3>1 DEF IsSuffix
    <3> QED BY <2>1, <2>3, <3>1, <3>2
  <2>4. \A j \in 1..Len(all) : all[j].topic = t => j <= i + n
    BY <1>1, <2>3
  <2> QED BY <2>2, <2>4 DEF LastIs
<1>4. Carries(new, Unsub(t)) => Carries(all, Unsub(t))
  BY <1>1 DEF Carries, IsSuffix
<1> QED
  BY <1>2, <1>3, <1>4 DEF EndsFed

\* new is all without its first message, m, and the venue feeds taken instead
\* of fed, which is for t what taking m makes of it.
Delivers(new, all, m, fed, taken, t) ==
  /\ new \in Seq(Messages) /\ all \in Seq(Messages) /\ m \in Messages
  /\ all # <<>> /\ all[1] = m /\ IsSuffix(new, all, 1)
  /\ m = Sub(t) => t \in taken
  /\ m = Unsub(t) => t \notin taken
  /\ m.topic # t => (t \in taken <=> t \in fed)

\* The venue takes the first message: what it feeds in the end is the same.
LEMMA DeliverFirst ==
  ASSUME NEW new, NEW all, NEW m, NEW fed, NEW taken, NEW t \in Topics,
         Delivers(new, all, m, fed, taken, t)
  PROVE  /\ AskedOnce(all, fed, t) => AskedOnce(new, taken, t) /\ (m = Sub(t) => t \notin fed)
         /\ EndsFed(new, taken, t) <=> EndsFed(all, fed, t)
         /\ Carries(new, Unsub(t)) => Carries(all, Unsub(t))
         /\ Carries(all, Unsub(t)) => Carries(new, Unsub(t)) \/ m = Unsub(t)
<1> USE DEF Delivers
<1>1. Len(all) \in Nat \ {0} /\ m = all[1]
  BY EmptySeq
<1>2. m \notin {Sub(t), Unsub(t)} => m.topic # t /\ (t \in taken <=> t \in fed)
  BY <1>1, MessageFacts
<1>3. Sub(t) # Unsub(t) /\ Sub(t).topic = t /\ Unsub(t).topic = t
  BY MessageFacts
<1>4. Len(new) = Len(all) - 1 /\ \A i \in 1..Len(new) : i + 1 \in 1..Len(all) /\ new[i] = all[i + 1]
  BY <1>1 DEF IsSuffix
<1>5. \A i \in 2..Len(all) : i - 1 \in 1..Len(new) /\ new[i - 1] = all[i]
  BY <1>1, <1>4
<1>6. ASSUME AskedOnce(all, fed, t) PROVE AskedOnce(new, taken, t) /\ (m = Sub(t) => t \notin fed)
  <2>1. m = Sub(t) => t \notin fed
    <3>1. 1 \in 1..Len(all) /\ \A j \in 1..1 : j = 1
      BY <1>1
    <3> QED BY <1>1, <1>3, <1>6, <3>1 DEF AskedOnce
  <2>2. ASSUME NEW i \in 1..Len(new), new[i] = Sub(t), t \in taken
        PROVE  \E j \in 1..i : new[j] = Unsub(t)
    <3>1. i + 1 \in 1..Len(all) /\ all[i + 1] = Sub(t) /\ 1 \in 1..((i + 1) - 1)
      BY <1>4, <2>2
    <3>2. PICK j \in 1..(i + 1) : all[j] = Unsub(t) /\ j # 1
      <4>1. CASE m = Sub(t)
        BY <1>1, <1>3, <1>6, <3>1, <4>1 DEF AskedOnce
      <4>2. CASE m # Sub(t)
        <5>1. t \in fed /\ m # Unsub(t)
          BY <1>2, <2>2, <4>2
        <5> QED BY <1>1, <1>6, <3>1, <5>1 DEF AskedOnce
      <4> QED BY <4>1, <4>2
    <3>3. j \in 2..Len(all) /\ j - 1 \in 1..i
      BY <3>1, <3>2
    <3> QED BY <1>5, <3>2, <3>3
  <2>3. ASSUME NEW i \in 1..Len(new), new[i] = Sub(t), NEW k \in 1..(i - 1), new[k] = Sub(t)
        PROVE  \E j \in k..i : new[j] = Unsub(t)
    <3>1. k \in 1..Len(new) /\ k + 1 \in 1..((i + 1) - 1)
      BY <2>3
    <3>2. PICK j \in (k + 1)..(i + 1) : all[j] = Unsub(t)
      BY <1>4, <1>6, <2>3, <3>1 DEF AskedOnce
    <3>3. j \in 2..Len(all) /\ j - 1 \in k..i
      BY <1>4, <3>2
    <3> QED BY <1>5, <3>2, <3>3
  <2> QED BY <2>1, <2>2, <2>3 DEF AskedOnce
<1>7. LastIs(new, t, Sub(t)) \/ (t \in taken /\ NoneAbout(new, t)) <=>
      LastIs(all, t, Sub(t)) \/ (t \in fed /\ NoneAbout(all, t))
  <2>1. ASSUME LastIs(new, t, Sub(t)) PROVE LastIs(all, t, Sub(t))
    <3>1. PICK i \in 1..Len(new) : new[i] = Sub(t) /\ \A j \in 1..Len(new) : new[j].topic = t => j <= i
      BY <2>1 DEF LastIs
    <3>2. i + 1 \in 1..Len(all) /\ all[i + 1] = Sub(t)
      BY <1>4, <3>1
    <3>3. ASSUME NEW j \in 1..Len(all), all[j].topic = t PROVE j <= i + 1
      <4>1. CASE j \in 2..Len(all)
        <5>1. j - 1 \in 1..Len(new) /\ new[j - 1].topic = t
          BY <1>5, <3>3, <4>1
        <5>2. j - 1 <= i
          BY <3>1, <5>1
        <5> QED BY <5>2, i \in Int, j \in Int
      <4> QED BY <4>1
    <3> QED BY <3>2, <3>3 DEF LastIs
  <2>2. ASSUME LastIs(all, t, Sub(t)) PROVE LastIs(new, t, Sub(t)) \/ (t \in taken /\ NoneAbout(new, t))
    <3>1. PICK i \in 1..Len(all) : all[i] = Sub(t) /\ \A j \in 1..Len(all) : all[j].topic = t => j <= i
      BY <2>2 DEF LastIs
    <3>2. CASE i = 1
      <4>1. t \in taken
        BY <1>1, <1>2, <3>1, <3>2
      <4>2. NoneAbout(new, t)
        BY <1>1, <1>4, <3>1, <3>2 DEF NoneAbout
      <4> QED BY <4>1, <4>2
    <3>3. CASE i # 1
      <4>1. i - 1 \in 1..Len(new) /\ new[i - 1] = Sub(t)
        BY <1>1, <1>5, <3>1, <3>3
      <4>2. ASSUME NEW j \in 1..Len(new), new[j].topic = t PROVE j <= i - 1
        <5>1. j + 1 \in 1..Len(all) /\ all[j + 1].topic = t
          BY <1>4, <4>2
        <5>2. j + 1 <= i
          BY <3>1, <5>1
        <5> QED BY <5>2, i \in Int, j \in Int
      <4> QED BY <4>1, <4>2 DEF LastIs
    <3> QED BY <3>2, <3>3
  <2>3. NoneAbout(all, t) => NoneAbout(new, t) /\ m.topic # t
    BY <1>1, <1>4 DEF NoneAbout
  <2>4. NoneAbout(new, t) /\ m.topic # t => NoneAbout(all, t)
    BY <1>1, <1>5 DEF NoneAbout
  <2>5. ASSUME m = Sub(t), NoneAbout(new, t) PROVE LastIs(all, t, Sub(t))
    <3>1. ASSUME NEW j \in 1..Len(all), all[j].topic = t PROVE j <= 1
      <4>1. CASE j \in 2..Len(all)
        BY <1>5, <2>5, <3>1, <4>1 DEF NoneAbout
      <4> QED BY <4>1
    <3>2. 1 \in 1..Len(all) /\ all[1] = Sub(t)
      BY <1>1, <2>5
    <3> QED BY <3>1, <3>2 DEF LastIs
  <2> QED BY <1>2, <1>3, <2>1, <2>2, <2>3, <2>4, <2>5
<1>8. Carries(new, Unsub(t)) => Carries(all, Unsub(t))
  BY <1>4 DEF Carries
<1>9. Carries(all, Unsub(t)) => Carries(new, Unsub(t)) \/ m = Unsub(t)
  BY <1>1, <1>5 DEF Carries
<1> QED
  BY <1>6, <1>7, <1>8, <1>9 DEF EndsFed

\* The pending topics in some order, each once.
LEMMA OrderingFacts ==
  ASSUME NEW S, IsFiniteSet(S), NEW s \in Orderings(S)
  PROVE  /\ s \in Seq(S) /\ Len(s) \in Nat
         /\ \A t \in S : \E i \in 1..Len(s) : s[i] = t
         /\ \A i, j \in 1..Len(s) : s[i] = s[j] => i = j
<1> DEFINE n == Cardinality(S)
<1>1. n \in Nat /\ s \in [1..n -> S] /\ \A t \in S : \E i \in 1..n : s[i] = t
  BY FS_CardinalityType DEF Orderings
<1>2. s \in Seq(S) /\ Len(s) = n
  BY <1>1
<1>3. s \in Injection(1..n, S)
  <2>1. s \in Surjection(1..n, S)
    BY <1>1 DEF Surjection
  <2>2. IsFiniteSet(1..n) /\ Cardinality(1..n) = n
    BY <1>1, FS_Interval
  <2> QED BY <2>1, <2>2, FS_SurjSameCardinalityImpliesInj
<1> QED
  BY <1>1, <1>2, <1>3 DEF Injection, IsInjective

\* A flush: each pending topic ends up fed, and the others are not concerned.
LEMMA AppendSubscribes ==
  ASSUME NEW base \in Seq(Messages), NEW S \in SUBSET Topics, NEW s \in Orderings(S),
         NEW new, new = base \o Subscribes(s), NEW fed, NEW t \in Topics
  PROVE  /\ new \in Seq(Messages)
         /\ t \in S => /\ EndsFed(new, fed, t)
                       /\ ~EndsFed(base, fed, t) /\ AskedOnce(base, fed, t) => AskedOnce(new, fed, t)
         /\ t \notin S => /\ EndsFed(new, fed, t) <=> EndsFed(base, fed, t)
                          /\ AskedOnce(base, fed, t) => AskedOnce(new, fed, t)
         /\ Carries(new, Unsub(t)) <=> Carries(base, Unsub(t))
<1> DEFINE n == Len(base)
<1>1. /\ s \in Seq(S) /\ Len(s) \in Nat
      /\ \A u \in S : \E i \in 1..Len(s) : s[i] = u
      /\ \A i, j \in 1..Len(s) : s[i] = s[j] => i = j
  BY OrderingFacts, FS_Subset, SessionAssumption
<1>2. /\ Subscribes(s) \in Seq(Messages) /\ Len(Subscribes(s)) = Len(s)
      /\ \A i \in 1..Len(s) : s[i] \in S /\ Subscribes(s)[i] = Sub(s[i])
  <2>1. DOMAIN s = 1..Len(s) /\ \A i \in 1..Len(s) : s[i] \in S
    BY <1>1, LenProperties, ElementOfSeq
  <2>2. \A i \in 1..Len(s) : Subscribes(s)[i] = Sub(s[i]) /\ Sub(s[i]) \in Messages
    BY <2>1, MessageFacts DEF Subscribes, Sub
  <2>3. Subscribes(s) \in [1..Len(s) -> Messages]
    BY <2>1, <2>2 DEF Subscribes
  <2> QED BY <1>1, <2>1, <2>2, <2>3
<1>3. n \in Nat /\ Sub(t) # Unsub(t) /\ Sub(t).topic = t /\ Unsub(t).topic = t
  BY LenProperties, MessageFacts
<1>4. /\ new \in Seq(Messages) /\ Len(new) = n + Len(s)
      /\ \A i \in 1..n : i \in 1..Len(new) /\ new[i] = base[i]
      /\ \A i \in 1..Len(new) : i > n => i - n \in 1..Len(s) /\ new[i] = Sub(s[i - n])
      /\ \A i \in 1..Len(s) : n + i \in 1..Len(new) /\ new[n + i] = Sub(s[i])
  <2> DEFINE tail == Subscribes(s)
  <2>1. tail \in Seq(Messages) /\ Len(tail) = Len(s) /\ new = base \o tail
    BY <1>2
  <2> HIDE DEF tail
  <2>2. /\ new \in Seq(Messages) /\ Len(new) = n + Len(s)
        /\ \A i \in 1..(n + Len(s)) : new[i] = IF i <= n THEN base[i] ELSE tail[i - n]
    <3> HIDE DEF n
    <3>1. /\ base \o tail \in Seq(Messages) /\ Len(base \o tail) = Len(base) + Len(tail)
          /\ \A i \in 1..(Len(base) + Len(tail)) :
               (base \o tail)[i] = IF i <= Len(base) THEN base[i] ELSE tail[i - Len(base)]
      BY <2>1, ConcatProperties
    <3>2. new = base \o tail /\ Len(tail) = Len(s) /\ n = Len(base)
      BY <2>1 DEF n
    <3> HIDE DEF tail
    <3> QED BY <3>1, <3>2
  <2>3. \A i \in 1..Len(new) : i > n => i - n \in 1..Len(s) /\ new[i] = tail[i - n]
    BY <1>1, <1>3, <2>2
  <2>4. ASSUME NEW i \in 1..Len(s) PROVE n + i \in 1..Len(new) /\ new[n + i] = tail[i]
    <3>1. n + i \in 1..(n + Len(s)) /\ ~(n + i <= n) /\ (n + i) - n = i
      BY <1>1, <1>3
    <3> QED BY <2>2, <3>1
  <2>5. \A i \in 1..n : i \in 1..Len(new) /\ new[i] = base[i]
    BY <1>1, <1>3, <2>2
  <2> QED BY <1>2, <2>2, <2>3, <2>4, <2>5 DEF tail
<1> HIDE DEF n
<1>5. \A u \in S : Sub(u) = Sub(t) <=> u = t
  BY DEF Sub
<1>6. \A u \in S : Sub(u).topic = u /\ Sub(u) # Unsub(t)
  BY DEF Sub, Unsub
<1>7. ASSUME t \in S PROVE EndsFed(new, fed, t)
  <2>1. PICK x \in 1..Len(s) : s[x] = t
    BY <1>1, <1>7
  <2>2. n + x \in 1..Len(new) /\ new[n + x] = Sub(t)
    BY <1>4, <2>1
  <2>3. ASSUME NEW j \in 1..Len(new), new[j].topic = t PROVE j <= n + x
    <3>1. CASE j > n
      <4>1. j - n \in 1..Len(s) /\ s[j - n] = t
        BY <1>2, <1>4, <1>6, <2>3, <3>1
      <4>2. j - n = x
        BY <1>1, <2>1, <4>1
      <4> QED BY <1>3, <4>2 DEF n
    <3>2. CASE ~(j > n)
      BY <1>3, <3>2 DEF n
    <3> QED BY <3>1, <3>2
  <2> QED BY <2>2, <2>3 DEF EndsFed, LastIs
<1>8. ASSUME t \in S, ~EndsFed(base, fed, t), AskedOnce(base, fed, t) PROVE AskedOnce(new, fed, t)
  <2>0. n \in Nat /\ n = Len(base)
    BY <1>3 DEF n
  <2>1. \/ t \notin fed /\ NoneAbout(base, t)
        \/ LastIs(base, t, Unsub(t))
    BY <1>8, LeavesByUnsub
  <2>2. ASSUME NEW i \in 1..Len(new), new[i] = Sub(t), t \in fed
        PROVE  \E j \in 1..i : new[j] = Unsub(t)
    <3>1. CASE i <= n
      <4>1. i \in 1..n /\ base[i] = Sub(t)
        BY <1>4, <2>0, <2>2, <3>1
      <4>2. PICK j \in 1..i : base[j] = Unsub(t)
        BY <1>8, <2>0, <2>2, <4>1 DEF AskedOnce
      <4>3. j \in 1..n
        BY <2>0, <4>1
      <4> QED BY <1>4, <4>2, <4>3
    <3>2. CASE i > n
      <4>1. PICK j \in 1..n : base[j] = Unsub(t)
        BY <2>0, <2>1, <2>2 DEF LastIs
      <4>2. j \in 1..i
        BY <2>0, <3>2
      <4> QED BY <1>4, <4>1, <4>2
    <3> QED BY <2>0, <3>1, <3>2
  <2>3. ASSUME NEW i \in 1..Len(new), new[i] = Sub(t), NEW k \in 1..(i - 1), new[k] = Sub(t)
        PROVE  \E j \in k..i : new[j] = Unsub(t)
    <3>0. k \in 1..Len(new) /\ Len(new) \in Nat
      BY <1>1, <1>4, <2>0
    <3>1. CASE i <= n
      <4>1. i \in 1..n /\ k \in 1..n /\ base[i] = Sub(t) /\ base[k] = Sub(t)
        BY <1>4, <2>0, <2>3, <3>0, <3>1
      <4>2. PICK j \in k..i : base[j] = Unsub(t)
        BY <1>8, <2>0, <2>3, <4>1 DEF AskedOnce
      <4>3. j \in 1..n
        BY <2>0, <4>1
      <4> QED BY <1>4, <4>2, <4>3
    <3>2. CASE i > n /\ k <= n
      <4>1. k \in 1..n /\ base[k] = Sub(t)
        BY <1>4, <2>0, <2>3, <3>0, <3>2
      <4>2. PICK j \in 1..n : base[j] = Unsub(t) /\ k <= j
        BY <1>3, <2>0, <2>1, <4>1 DEF LastIs, NoneAbout
      <4>3. j \in k..i
        BY <2>0, <3>0, <3>2, <4>2
      <4> QED BY <1>4, <4>2, <4>3
    <3>3. CASE i > n /\ k > n
      <4>1. i - n \in 1..Len(s) /\ Sub(s[i - n]) = Sub(t) /\ k - n \in 1..Len(s) /\ Sub(s[k - n]) = Sub(t)
        BY <1>4, <2>3, <3>0, <3>3
      <4>2. s[i - n] = t /\ s[k - n] = t
        BY <1>2, <1>5, <4>1
      <4>3. i - n = k - n
        BY <1>1, <4>1, <4>2
      <4> QED BY <2>0, <2>3, <3>0, <4>3
    <3> QED BY <2>0, <3>0, <3>1, <3>2, <3>3
  <2> QED BY <2>2, <2>3 DEF AskedOnce
<1>9. ASSUME t \notin S
      PROVE  /\ EndsFed(new, fed, t) <=> EndsFed(base, fed, t)
             /\ AskedOnce(base, fed, t) => AskedOnce(new, fed, t)
  <2>0. n \in Nat /\ n = Len(base)
    BY <1>3 DEF n
  <2>1. ASSUME NEW i \in 1..Len(new), new[i].topic = t \/ new[i] = Sub(t)
        PROVE  i \in 1..n /\ new[i] = base[i]
    <3>1. CASE i > n
      BY <1>2, <1>3, <1>4, <1>6, <1>9, <2>1, <3>1
    <3> QED BY <1>4, <2>0, <3>1
  <2>2. LastIs(new, t, Sub(t)) <=> LastIs(base, t, Sub(t))
    BY <1>3, <1>4, <2>0, <2>1 DEF LastIs
  <2>3. NoneAbout(new, t) <=> NoneAbout(base, t)
    BY <1>4, <2>0, <2>1 DEF NoneAbout
  <2>4. ASSUME AskedOnce(base, fed, t) PROVE AskedOnce(new, fed, t)
    <3> SUFFICES ASSUME NEW i \in 1..Len(new), new[i] = Sub(t)
                 PROVE  /\ t \in fed => \E j \in 1..i : new[j] = Unsub(t)
                        /\ \A k \in 1..(i - 1) : new[k] = Sub(t) => \E j \in k..i : new[j] = Unsub(t)
      BY DEF AskedOnce
    <3>1. i \in 1..n /\ base[i] = Sub(t)
      BY <2>1
    <3>2. \A j \in 1..i : j \in 1..n /\ new[j] = base[j]
      BY <1>4, <2>0, <3>1
    <3>3. /\ t \in fed => \E j \in 1..i : base[j] = Unsub(t)
          /\ \A k \in 1..(i - 1) : base[k] = Sub(t) => \E j \in k..i : base[j] = Unsub(t)
      BY <2>0, <2>4, <3>1 DEF AskedOnce
    <3>4. \A k \in 1..(i - 1) : k \in 1..i /\ \A j \in k..i : j \in 1..i
      BY <2>0, <3>1
    <3> QED BY <3>2, <3>3, <3>4
  <2> QED BY <2>2, <2>3, <2>4 DEF EndsFed
<1>10. Carries(new, Unsub(t)) <=> Carries(base, Unsub(t))
  <2>1. ASSUME NEW i \in 1..Len(new), new[i] = Unsub(t) PROVE i \in 1..n /\ base[i] = Unsub(t)
    <3>0. n \in Nat /\ n = Len(base)
      BY <1>3 DEF n
    <3>1. CASE i > n
      BY <1>2, <1>4, <1>6, <2>1, <3>1
    <3> QED BY <1>4, <2>1, <3>0, <3>1
  <2> QED BY <1>4, <2>1 DEF Carries, n
<1> QED
  BY <1>4, <1>7, <1>8, <1>9, <1>10

-----------------------------------------------------------------------------
(* The topics of the session and the messages on their way.                *)

Mail == wire \o outboundQueue
Carrying == stream \in {"open", "stalled"}

LeavingUnwanted == \A t \in Topics : UnsubscribeUnderWay(t) => t \notin Wanted
ListsApart == subscriptions \cap pendingTopics = {}
NothingWhenDown == ~connected => subscriptions = {} /\ wire = <<>> /\ serverTopics = {}
DeadStreamCarriesNothing ==
  stream \notin {"open", "stalled", "closing"} => wire = <<>> /\ serverTopics = {}
AskedOnceEach == \A t \in Topics : AskedOnce(Mail, serverTopics, t)
FedIsRecorded ==
  \A t \in Topics : EndsFed(Mail, serverTopics, t) => t \in subscriptions \/ UnsubscribeUnderWay(t)
RecordedIsFed ==
  connected /\ Carrying => \A t \in subscriptions : EndsFed(Mail, serverTopics, t)

TopicInv ==
  /\ LeavingUnwanted /\ ListsApart /\ NothingWhenDown /\ DeadStreamCarriesNothing
  /\ AskedOnceEach /\ FedIsRecorded /\ RecordedIsFed

TopicState == SessionInv /\ TopicInv

\* A step of SubscriptionFeed, or an invisible one.
FeedStep == [Feeding!FeedNext]_(Feeding!feedVars)

LEMMA MailTyped ==
  ASSUME TypeOK
  PROVE  Mail \in Seq(Messages) /\ wire \in Seq(Messages) /\ outboundQueue \in Seq(Messages)
BY ConcatProperties DEF TypeOK, Mail

LEMMA OnItsWayIs ==
  ASSUME TypeOK, NEW t \in Topics
  PROVE  OnItsWay(t) <=> UnsubscribeUnderWay(t) \/ Carries(Mail, Unsub(t))
<1>1. /\ Len(wire) \in Nat /\ DOMAIN wire = 1..Len(wire)
      /\ Len(outboundQueue) \in Nat /\ DOMAIN outboundQueue = 1..Len(outboundQueue)
      /\ Len(Mail) = Len(wire) + Len(outboundQueue)
      /\ \A i \in 1..(Len(wire) + Len(outboundQueue)) :
           Mail[i] = IF i <= Len(wire) THEN wire[i] ELSE outboundQueue[i - Len(wire)]
  BY LenProperties, ConcatProperties DEF TypeOK, Mail
<1>2. Carries(Mail, Unsub(t)) <=> Carries(wire, Unsub(t)) \/ Carries(outboundQueue, Unsub(t))
  <2>1. ASSUME NEW i \in 1..Len(Mail), Mail[i] = Unsub(t)
        PROVE  Carries(wire, Unsub(t)) \/ Carries(outboundQueue, Unsub(t))
    <3>1. CASE i <= Len(wire)
      BY <1>1, <2>1, <3>1 DEF Carries
    <3>2. CASE ~(i <= Len(wire))
      <4>1. i - Len(wire) \in 1..Len(outboundQueue) /\ outboundQueue[i - Len(wire)] = Unsub(t)
        BY <1>1, <2>1, <3>2
      <4> QED BY <4>1 DEF Carries
    <3> QED BY <3>1, <3>2
  <2>2. ASSUME NEW i \in 1..Len(wire), wire[i] = Unsub(t) PROVE Carries(Mail, Unsub(t))
    BY <1>1, <2>2 DEF Carries
  <2>3. ASSUME NEW i \in 1..Len(outboundQueue), outboundQueue[i] = Unsub(t)
        PROVE  Carries(Mail, Unsub(t))
    <3>1. /\ Len(wire) + i \in 1..(Len(wire) + Len(outboundQueue))
          /\ ~(Len(wire) + i <= Len(wire)) /\ (Len(wire) + i) - Len(wire) = i
      BY <1>1
    <3>2. Len(wire) + i \in 1..Len(Mail) /\ Mail[Len(wire) + i] = Unsub(t)
      BY <1>1, <2>3, <3>1
    <3> QED BY <3>2 DEF Carries
  <2> QED BY <2>1, <2>2, <2>3 DEF Carries
<1>3. OnItsWay(t) <=>
        \/ UnsubscribeUnderWay(t)
        \/ \E i \in 1..Len(outboundQueue) : outboundQueue[i] = Unsub(t)
        \/ \E i \in 1..Len(wire) : wire[i] = Unsub(t)
  BY <1>1 DEF OnItsWay, Unsub
<1> QED
  BY <1>2, <1>3 DEF Carries

LEMMA OnItsWayAll ==
  TypeOK => \A t \in Topics : OnItsWay(t) <=> UnsubscribeUnderWay(t) \/ Carries(Mail, Unsub(t))
BY OnItsWayIs

\* What a step may do to the messages all: keep them on their way, or lose the
\* first ones together with the feed.
Moves(all) ==
  /\ serverTopics' \in {serverTopics, {}}
  /\ \A t \in Topics :
       /\ AskedOnce(all, serverTopics, t) => AskedOnce(Mail, serverTopics, t)'
       /\ EndsFed(Mail, serverTopics, t)' => EndsFed(all, serverTopics, t)
       /\ Carrying' /\ EndsFed(all, serverTopics, t) => EndsFed(Mail, serverTopics, t)'
       /\ Carries(Mail, Unsub(t))' => Carries(all, Unsub(t))
       /\ serverTopics' = {} \/ (Carries(all, Unsub(t)) => Carries(Mail, Unsub(t))')

LEMMA MovesSame ==
  ASSUME NEW all, Mail' = all, serverTopics' = serverTopics
  PROVE  Moves(all)
BY DEF Moves

LEMMA MovesLost ==
  ASSUME NEW all \in Seq(Messages), Mail' \in Seq(Messages), NEW n \in 0..Len(all),
         IsSuffix(Mail', all, n), serverTopics' = {}, ~Carrying'
  PROVE  Moves(all)
BY LoseFirst DEF Moves

\* The messages on the wire are gone, and with them the feed.
LEMMA MovesWireLost ==
  ASSUME TypeOK, TypeOK', wire' = <<>>, serverTopics' = {}, outboundQueue' = outboundQueue, ~Carrying'
  PROVE  Moves(Mail)
<1>1. /\ Mail \in Seq(Messages) /\ Mail' \in Seq(Messages) /\ Mail' = outboundQueue
      /\ Len(wire) \in Nat /\ Len(outboundQueue) \in Nat
      /\ Len(Mail) = Len(wire) + Len(outboundQueue)
      /\ \A i \in 1..(Len(wire) + Len(outboundQueue)) :
           Mail[i] = IF i <= Len(wire) THEN wire[i] ELSE outboundQueue[i - Len(wire)]
  BY MailTyped, LenProperties, ConcatProperties, ConcatEmptySeq DEF TypeOK, Mail
<1>2. IsSuffix(Mail', Mail, Len(wire))
  <2>1. ASSUME NEW i \in 1..Len(outboundQueue) PROVE outboundQueue[i] = Mail[i + Len(wire)]
    <3>1. /\ i + Len(wire) \in 1..(Len(wire) + Len(outboundQueue))
          /\ ~(i + Len(wire) <= Len(wire)) /\ (i + Len(wire)) - Len(wire) = i
      BY <1>1
    <3> QED BY <1>1, <3>1
  <2> QED BY <1>1, <2>1 DEF IsSuffix
<1> QED
  BY <1>1, <1>2, MovesLost

\* pump(): the head of the queue goes to the wire, or to nowhere on a dead stream.
LEMMA MovesPump ==
  ASSUME TypeOK, TypeOK', DeadStreamCarriesNothing, NEW o, NEW queue \in Seq(Messages), NEW busy, NEW up,
         Pump(o, queue, busy, up), UNCHANGED <<serverTopics, stream>>
  PROVE  Moves(wire \o queue)
<1>0. wire \in Seq(Messages) /\ Mail' \in Seq(Messages) /\ wire \o queue \in Seq(Messages)
  BY ConcatProperties DEF TypeOK, Mail
<1>1. CASE wire' = wire /\ outboundQueue' = queue
  BY <1>1, MovesSame DEF Mail
<1>2. CASE /\ queue # <<>> /\ outboundQueue' = Tail(queue)
           /\ Carrying /\ wire' = Append(wire, Head(queue))
  <2>1. /\ Head(queue) \in Messages /\ Tail(queue) \in Seq(Messages)
        /\ queue = <<Head(queue)>> \o Tail(queue) /\ <<Head(queue)>> \in Seq(Messages)
    BY <1>2, HeadTailProperties
  <2>2. Append(wire, Head(queue)) = wire \o <<Head(queue)>>
    BY <1>0, <2>1, AppendIsConcat
  <2>3. Mail' = wire \o queue
    BY <1>0, <1>2, <2>1, <2>2, ConcatAssociative DEF Mail
  <2> QED BY <2>3, MovesSame
<1>3. CASE /\ queue # <<>> /\ outboundQueue' = Tail(queue)
           /\ IsOpen /\ ~Carrying /\ wire' = wire
  <2>1. wire = <<>> /\ serverTopics = {}
    BY <1>3 DEF DeadStreamCarriesNothing, IsOpen, Carrying
  <2>2. wire \o queue = queue /\ Mail' = Tail(queue) /\ Tail(queue) \in Seq(Messages)
    BY <1>0, <1>3, <2>1, ConcatEmptySeq, HeadTailProperties DEF Mail
  <2>3. IsSuffix(Mail', queue, 1) /\ 1 \in 0..Len(queue)
    BY <1>3, <2>2, HeadTailProperties, EmptySeq DEF IsSuffix
  <2> QED BY <1>0, <1>3, <2>1, <2>2, <2>3, MovesLost DEF Carrying
<1> QED
  BY <1>1, <1>2, <1>3 DEF Pump, Carrying

\* What suffices for the topics after a step without a call.
LEMMA TopicMove ==
  ASSUME TopicState, TypeOK', NEW all, Moves(all), Wanted' = Wanted,
         ListsApart', NothingWhenDown', DeadStreamCarriesNothing',
         \A t \in Topics :
           /\ UnsubscribeUnderWay(t)' => UnsubscribeUnderWay(t)
           /\ AskedOnce(all, serverTopics, t)
           /\ EndsFed(all, serverTopics, t) => t \in subscriptions' \/ UnsubscribeUnderWay(t)'
           /\ Carries(all, Unsub(t)) => OnItsWay(t)
           /\ OnItsWay(t) =>
                UnsubscribeUnderWay(t)' \/ Carries(all, Unsub(t)) \/ serverTopics' = {},
         connected' /\ Carrying' => \A t \in subscriptions' : EndsFed(all, serverTopics, t)
  PROVE  TopicInv' /\ FeedStep
<1>1. LeavingUnwanted'
  BY DEF TopicState, TopicInv, LeavingUnwanted
<1>2. AskedOnceEach' /\ FedIsRecorded'
  BY DEF Moves, AskedOnceEach, FedIsRecorded
<1>3. RecordedIsFed'
  <2>1. subscriptions' \subseteq Topics
    BY DEF TypeOK
  <2> QED BY <2>1 DEF Moves, RecordedIsFed
<1>4. FeedStep
  <2>0. TypeOK
    BY DEF TopicState, SessionInv
  <2>1. \A t \in Topics :
          /\ OnItsWay(t)' <=> UnsubscribeUnderWay(t)' \/ Carries(Mail, Unsub(t))'
          /\ OnItsWay(t) <=> UnsubscribeUnderWay(t) \/ Carries(Mail, Unsub(t))
    <3>1. \A t \in Topics : OnItsWay(t) <=> UnsubscribeUnderWay(t) \/ Carries(Mail, Unsub(t))
      BY <2>0, OnItsWayAll
    <3>2. (TypeOK => \A t \in Topics : OnItsWay(t) <=> UnsubscribeUnderWay(t) \/ Carries(Mail, Unsub(t)))'
      BY OnItsWayAll, PTL
    <3> QED BY <3>1, <3>2
  <2>2. \A t \in Topics : OnItsWay(t)' => OnItsWay(t)
    BY <2>1 DEF Moves
  <2>3. serverTopics' = {} \/ (serverTopics' = serverTopics /\ \A t \in Topics : OnItsWay(t)' <=> OnItsWay(t))
    BY <2>1, <2>2 DEF Moves
  <2>4. CASE serverTopics' = {}
    <3>1. Feeding!Lose
      BY <2>2, <2>4 DEF Feeding!Lose
    <3> QED BY <3>1 DEF FeedStep, Feeding!FeedNext
  <2>5. CASE serverTopics' = serverTopics /\ \A t \in Topics : OnItsWay(t)' <=> OnItsWay(t)
    <3>1. {t \in Topics : OnItsWay(t)}' = {t \in Topics : OnItsWay(t)}
      BY <2>5
    <3> QED BY <2>5, <3>1 DEF FeedStep, Feeding!feedVars
  <2> QED BY <2>3, <2>4, <2>5
<1> QED
  BY <1>1, <1>2, <1>3, <1>4 DEF TopicInv

\* A step that leaves the lists, and the messages but for a loss.
LEMMA TopicUnmoved ==
  ASSUME TopicState, TypeOK', Moves(Mail), UNCHANGED topicVars,
         NothingWhenDown', DeadStreamCarriesNothing',
         \A t \in Topics : UnsubscribeUnderWay(t)' <=> UnsubscribeUnderWay(t),
         connected' /\ Carrying' => connected /\ Carrying
  PROVE  TopicInv' /\ FeedStep
<1>1. Wanted' = Wanted /\ ListsApart'
  BY DEF topicVars, Wanted, TopicState, TopicInv, ListsApart
<1>2. \A t \in Topics : OnItsWay(t) <=> UnsubscribeUnderWay(t) \/ Carries(Mail, Unsub(t))
  BY OnItsWayAll DEF TopicState, SessionInv
<1>3. subscriptions' = subscriptions
  BY DEF topicVars
<1>4. \A t \in Topics :
        /\ UnsubscribeUnderWay(t)' => UnsubscribeUnderWay(t)
        /\ AskedOnce(Mail, serverTopics, t)
        /\ EndsFed(Mail, serverTopics, t) => t \in subscriptions' \/ UnsubscribeUnderWay(t)'
        /\ Carries(Mail, Unsub(t)) => OnItsWay(t)
        /\ OnItsWay(t) => UnsubscribeUnderWay(t)' \/ Carries(Mail, Unsub(t)) \/ serverTopics' = {}
  BY <1>2, <1>3 DEF TopicState, TopicInv, AskedOnceEach, FedIsRecorded
<1>5. connected' /\ Carrying' => \A t \in subscriptions' : EndsFed(Mail, serverTopics, t)
  BY <1>3 DEF TopicState, TopicInv, RecordedIsFed
<1> QED
  BY <1>1, <1>4, <1>5, TopicMove

\* A step that leaves all of it.
LEMMA TopicSame ==
  ASSUME TopicState, TypeOK', UNCHANGED <<topicVars, outboundQueue, wireVars, connected>>,
         DeadStreamCarriesNothing', connected /\ Carrying' => Carrying,
         \A t \in Topics : UnsubscribeUnderWay(t)' <=> UnsubscribeUnderWay(t)
  PROVE  TopicInv' /\ FeedStep
<1>1. Moves(Mail)
  BY MovesSame DEF wireVars, Mail
<1>2. NothingWhenDown' /\ UNCHANGED topicVars /\ (connected' /\ Carrying' => connected /\ Carrying)
  BY DEF TopicState, TopicInv, NothingWhenDown, topicVars, wireVars
<1> QED
  BY <1>1, <1>2, TopicUnmoved

\* A step that takes the connection down.
LEMMA TopicDown ==
  ASSUME TopicState, TypeOK', ~connected', subscriptions' = {}, Wanted' = Wanted,
         outboundQueue' = <<>>, wire' = <<>>, serverTopics' = {},
         \A t \in Topics : UnsubscribeUnderWay(t)' => UnsubscribeUnderWay(t)
  PROVE  TopicInv' /\ FeedStep
<1>1. Mail' = <<>> /\ Len(<<>>) = 0
  BY MailTyped, ConcatEmptySeq, EmptySeq DEF Mail, TopicState, SessionInv, TypeOK
<1>2. \A t \in Topics :
        /\ AskedOnce(<<>>, {}, t) /\ ~EndsFed(<<>>, {}, t) /\ ~Carries(<<>>, Unsub(t))
  BY <1>1 DEF AskedOnce, EndsFed, LastIs, Carries
<1>3. AskedOnceEach' /\ FedIsRecorded' /\ RecordedIsFed'
  BY <1>1, <1>2 DEF AskedOnceEach, FedIsRecorded, RecordedIsFed
<1>4. LeavingUnwanted' /\ ListsApart' /\ NothingWhenDown' /\ DeadStreamCarriesNothing'
  BY DEF TopicState, TopicInv, LeavingUnwanted, ListsApart, NothingWhenDown, DeadStreamCarriesNothing
<1>5. \A t \in Topics : OnItsWay(t) <=> UnsubscribeUnderWay(t) \/ Carries(Mail, Unsub(t))
  BY OnItsWayAll DEF TopicState, SessionInv
<1>6. (TypeOK => \A t \in Topics : OnItsWay(t) <=> UnsubscribeUnderWay(t) \/ Carries(Mail, Unsub(t)))'
  BY OnItsWayAll, PTL
<1>7. \A t \in Topics : OnItsWay(t)' => OnItsWay(t)
  BY <1>1, <1>2, <1>5, <1>6
<1>8. Feeding!Lose
  BY <1>7 DEF Feeding!Lose
<1> QED
  BY <1>3, <1>4, <1>8 DEF TopicInv, FeedStep, Feeding!FeedNext

-----------------------------------------------------------------------------
(* The unsubscribe handlers under way.                                     *)

\* Only running its handler ends an unsubscribe.
LEMMA UnderRun ==
  ASSUME TypeOK, TypeOK', NEW name, Run(name), UNCHANGED caller
  PROVE  \A t \in Topics :
           /\ UnsubscribeUnderWay(t)' => UnsubscribeUnderWay(t)
           /\ UnsubscribeUnderWay(t) =>
                \/ UnsubscribeUnderWay(t)'
                \/ name = "unsubscribe" /\ Head(strand) = Handler("unsubscribe", t)
<1>1. /\ Head(strand).run = name /\ Head(strand) = strand[1]
      /\ Len(strand) \in Nat /\ Len(strand) > 0 /\ Len(strand') = Len(strand) - 1
      /\ \A i \in 1..Len(strand') : strand'[i] = strand[i + 1]
  BY RunEffect
<1>2. DOMAIN strand = 1..Len(strand) /\ DOMAIN strand' = 1..Len(strand')
  BY LenProperties DEF TypeOK
<1> TAKE t \in Topics
<1>3. ASSUME NEW i \in DOMAIN strand', strand'[i] = Handler("unsubscribe", t)
      PROVE  \E j \in DOMAIN strand : strand[j] = Handler("unsubscribe", t)
  <2>1. i + 1 \in DOMAIN strand
    BY <1>1, <1>2
  <2> QED BY <1>1, <1>2, <1>3, <2>1
<1>4. ASSUME NEW i \in DOMAIN strand, strand[i] = Handler("unsubscribe", t)
      PROVE  \/ \E j \in DOMAIN strand' : strand'[j] = Handler("unsubscribe", t)
             \/ name = "unsubscribe" /\ Head(strand) = Handler("unsubscribe", t)
  <2>1. CASE i = 1
    BY <1>1, <1>4, <2>1 DEF Handler
  <2>2. CASE i # 1
    <3>1. i - 1 \in DOMAIN strand' /\ (i - 1) + 1 = i
      BY <1>1, <1>2, <2>2
    <3>2. strand'[i - 1] = strand[i]
      BY <1>1, <1>2, <3>1
    <3> QED BY <1>4, <3>1, <3>2
  <2> QED BY <2>1, <2>2
<1> QED
  BY <1>3, <1>4 DEF UnsubscribeUnderWay

LEMMA UnderSame ==
  ASSUME TypeOK, TypeOK', NEW name, name # "unsubscribe", Run(name), UNCHANGED caller
  PROVE  \A t \in Topics : UnsubscribeUnderWay(t)' <=> UnsubscribeUnderWay(t)
BY UnderRun

\* The environment queues completions only.
LEMMA UnderComplete ==
  ASSUME TypeOK, TypeOK', NEW k \in Kinds, NEW g, NEW status, Complete(k, g, status)
  PROVE  \A t \in Topics : UnsubscribeUnderWay(t)' <=> UnsubscribeUnderWay(t)
<1> DEFINE h == Handler(k, g)
<1>1. strand' = Append(strand, h) /\ caller' = caller
  BY DEF Complete, sessionVars, clientVars
<1>2. /\ Len(strand) \in Nat /\ DOMAIN strand = 1..Len(strand) /\ DOMAIN strand' = 1..Len(strand')
      /\ strand \in Seq(Handlers)
  BY LenProperties DEF TypeOK
<1>3. h.run # "unsubscribe"
  BY DEF Handler, Kinds, Stages
<1> HIDE DEF h
<1>4. /\ Len(strand') = Len(strand) + 1 /\ strand'[Len(strand) + 1] = h
      /\ \A i \in 1..Len(strand) : strand'[i] = strand[i]
  BY <1>1, <1>2
<1> TAKE t \in Topics
<1>5. h # Handler("unsubscribe", t)
  BY <1>3 DEF Handler
<1>6. (\E i \in DOMAIN strand' : strand'[i] = Handler("unsubscribe", t)) <=>
      (\E i \in DOMAIN strand : strand[i] = Handler("unsubscribe", t))
  BY <1>2, <1>4, <1>5
<1> QED
  BY <1>1, <1>6 DEF UnsubscribeUnderWay

-----------------------------------------------------------------------------
(* The parts the handlers share.                                           *)

UnderKept == \A t \in Topics : UnsubscribeUnderWay(t)' <=> UnsubscribeUnderWay(t)

\* pump() with the queue as it is, or with a ping.
LEMMA TopicPump ==
  ASSUME TopicState, TypeOK', UnderKept, NEW o, NEW queue, NEW busy, Pump(o, queue, busy, connected),
         queue = outboundQueue \/ (connected /\ queue = Append(outboundQueue, Ping)),
         UNCHANGED <<topicVars, connected, serverTopics, stream>>
  PROVE  TopicInv' /\ FeedStep
<1>0. /\ TypeOK /\ TopicInv /\ Mail \in Seq(Messages)
      /\ wire \in Seq(Messages) /\ outboundQueue \in Seq(Messages) /\ Ping \in Messages
  BY MailTyped DEF TopicState, SessionInv, Ping, Messages
<1>1. queue \in Seq(Messages)
  <2>1. Append(outboundQueue, Ping) \in Seq(Messages)
    BY <1>0, AppendProperties
  <2> QED BY <1>0, <2>1
<1>2. Moves(wire \o queue)
  BY <1>0, <1>1, MovesPump DEF TopicInv
<1>3. NothingWhenDown' /\ DeadStreamCarriesNothing'
  BY <1>0 DEF TopicInv, NothingWhenDown, DeadStreamCarriesNothing, Pump, topicVars
<1>4. CASE queue = outboundQueue
  BY <1>2, <1>3, <1>4, TopicUnmoved DEF Mail, UnderKept, Carrying
<1>5. CASE queue = Append(outboundQueue, Ping)
  <2> DEFINE all == wire \o queue
  <2>1. all = Append(Mail, Ping)
    <3>1. queue = outboundQueue \o <<Ping>> /\ <<Ping>> \in Seq(Messages)
      BY <1>0, <1>5, AppendIsConcat
    <3>2. all = Mail \o <<Ping>>
      BY <1>0, <3>1, ConcatAssociative DEF Mail
    <3> QED BY <1>0, <3>2, AppendIsConcat
  <2>2. all \in Seq(Messages) /\ IsAppend(all, Mail, Ping)
    BY <1>0, <2>1, AppendProperties, LenProperties DEF IsAppend
  <2> HIDE DEF all
  <2>3. \A t \in Topics :
          /\ AskedOnce(Mail, serverTopics, t) => AskedOnce(all, serverTopics, t)
          /\ EndsFed(all, serverTopics, t) <=> EndsFed(Mail, serverTopics, t)
          /\ Carries(all, Unsub(t)) <=> Carries(Mail, Unsub(t))
    <3> TAKE t \in Topics
    <3>1. Ping.topic # t
      BY SessionAssumption DEF Ping
    <3> QED BY <1>0, <2>2, <3>1, AppendOther
  <2>4. Moves(all) /\ Wanted' = Wanted /\ ListsApart' /\ subscriptions' = subscriptions
    BY <1>0, <1>2 DEF all, topicVars, Wanted, TopicInv, ListsApart
  <2>5. \A t \in Topics : OnItsWay(t) <=> UnsubscribeUnderWay(t) \/ Carries(Mail, Unsub(t))
    BY <1>0, OnItsWayAll
  <2>6. \A t \in Topics :
          /\ UnsubscribeUnderWay(t)' => UnsubscribeUnderWay(t)
          /\ AskedOnce(all, serverTopics, t)
          /\ EndsFed(all, serverTopics, t) => t \in subscriptions' \/ UnsubscribeUnderWay(t)'
          /\ Carries(all, Unsub(t)) => OnItsWay(t)
          /\ OnItsWay(t) => UnsubscribeUnderWay(t)' \/ Carries(all, Unsub(t)) \/ serverTopics' = {}
    BY <1>0, <2>3, <2>4, <2>5 DEF UnderKept, TopicInv, AskedOnceEach, FedIsRecorded
  <2>7. connected' /\ Carrying' => \A t \in subscriptions' : EndsFed(all, serverTopics, t)
    BY <1>0, <2>3, <2>4 DEF TopicInv, RecordedIsFed, Carrying, TypeOK
  <2> QED BY <1>3, <2>4, <2>6, <2>7, TopicMove
<1> QED
  BY <1>4, <1>5

LEMMA ConcatMessages ==
  ASSUME NEW a \in Seq(Messages), NEW b \in Seq(Messages), NEW c \in Seq(Messages)
  PROVE  a \o (b \o c) = (a \o b) \o c
BY ConcatAssociative

\* flushTopics() on a connection, or on one just made.
LEMMA TopicFlush ==
  ASSUME TopicState, TypeOK', UnderKept, NEW o, FlushTopics(o, TRUE), connected',
         UNCHANGED <<serverTopics, stream>>
  PROVE  TopicInv' /\ FeedStep
<1>0. /\ TypeOK /\ TopicInv /\ Mail \in Seq(Messages)
      /\ wire \in Seq(Messages) /\ outboundQueue \in Seq(Messages)
      /\ subscriptions \subseteq Topics /\ pendingTopics \in SUBSET Topics
  BY MailTyped DEF TopicState, SessionInv, TypeOK
<1>1. PICK s \in Orderings(pendingTopics) :
        Pump(o, outboundQueue \o Subscribes(s), writeInFlight, TRUE)
  BY DEF FlushTopics, FlushNow
<1>2. subscriptions' = Wanted /\ pendingTopics' = {}
  BY DEF FlushTopics, FlushNow
<1>3. Subscribes(s) \in Seq(Messages) /\ outboundQueue \o Subscribes(s) \in Seq(Messages)
  BY <1>0, SubscribesTyped, ConcatProperties
<1> DEFINE all == wire \o (outboundQueue \o Subscribes(s))
<1>4. all = Mail \o Subscribes(s)
  BY <1>0, <1>3, ConcatMessages, Zenon DEF Mail
<1>5. Moves(all)
  BY <1>0, <1>1, <1>3, MovesPump DEF TopicInv
<1> HIDE DEF all
<1>6. \A t \in Topics :
        /\ t \in pendingTopics =>
             /\ EndsFed(all, serverTopics, t)
             /\ ~EndsFed(Mail, serverTopics, t) /\ AskedOnce(Mail, serverTopics, t) =>
                  AskedOnce(all, serverTopics, t)
        /\ t \notin pendingTopics =>
             /\ EndsFed(all, serverTopics, t) <=> EndsFed(Mail, serverTopics, t)
             /\ AskedOnce(Mail, serverTopics, t) => AskedOnce(all, serverTopics, t)
        /\ Carries(all, Unsub(t)) <=> Carries(Mail, Unsub(t))
  BY <1>0, <1>1, <1>4, AppendSubscribes
<1>7. \A t \in pendingTopics : ~EndsFed(Mail, serverTopics, t)
  BY <1>0 DEF TopicInv, FedIsRecorded, ListsApart, LeavingUnwanted, Wanted
<1>8. Wanted' = Wanted /\ ListsApart' /\ NothingWhenDown'
  BY <1>2 DEF Wanted, ListsApart, NothingWhenDown
<1>9. DeadStreamCarriesNothing'
  BY <1>0, <1>1 DEF TopicInv, DeadStreamCarriesNothing, Pump
<1>10. \A t \in Topics : OnItsWay(t) <=> UnsubscribeUnderWay(t) \/ Carries(Mail, Unsub(t))
  BY <1>0, OnItsWayAll
<1>11. \A t \in Topics :
         /\ UnsubscribeUnderWay(t)' => UnsubscribeUnderWay(t)
         /\ AskedOnce(all, serverTopics, t)
         /\ EndsFed(all, serverTopics, t) => t \in subscriptions' \/ UnsubscribeUnderWay(t)'
         /\ Carries(all, Unsub(t)) => OnItsWay(t)
         /\ OnItsWay(t) => UnsubscribeUnderWay(t)' \/ Carries(all, Unsub(t)) \/ serverTopics' = {}
  BY <1>0, <1>2, <1>6, <1>7, <1>10 DEF UnderKept, TopicInv, AskedOnceEach, FedIsRecorded, Wanted
<1>12. connected' /\ Carrying' => \A t \in subscriptions' : EndsFed(all, serverTopics, t)
  <2> SUFFICES ASSUME Carrying', NEW t \in subscriptions' PROVE EndsFed(all, serverTopics, t)
    OBVIOUS
  <2>1. CASE t \in pendingTopics
    BY <1>0, <1>6, <2>1
  <2>2. CASE t \in subscriptions \ pendingTopics
    <3>1. connected /\ Carrying
      BY <1>0, <2>2 DEF TopicInv, NothingWhenDown, Carrying
    <3> QED BY <1>0, <1>6, <2>2, <3>1 DEF TopicInv, RecordedIsFed
  <2> QED BY <1>2, <2>1, <2>2 DEF Wanted
<1> QED
  BY <1>5, <1>8, <1>9, <1>11, <1>12, TopicMove

\* handleError() ignores the error or takes the connection down.
LEMMA TopicHandleError ==
  ASSUME TopicState, TypeOK', UnderKept, NEW o, NEW busy, HandleError(o, busy)
  PROVE  TopicInv' /\ FeedStep
<1>1. CASE reconnectScheduled \/ userClosed
  <2>1. UNCHANGED <<topicVars, outboundQueue, linkVars, stream, wireVars>>
    BY <1>1 DEF HandleError
  <2>2. UNCHANGED <<topicVars, outboundQueue, wireVars, connected>>
    BY <2>1 DEF linkVars
  <2>3. DeadStreamCarriesNothing' /\ (Carrying' <=> Carrying)
    BY <2>1 DEF TopicState, TopicInv, DeadStreamCarriesNothing, Carrying, wireVars
  <2> QED BY <2>2, <2>3, TopicSame DEF UnderKept
<1>2. CASE ~(reconnectScheduled \/ userClosed)
  <2>1. /\ ~connected' /\ subscriptions' = {} /\ pendingTopics' = Wanted
        /\ outboundQueue' = <<>> /\ wire' = <<>> /\ serverTopics' = {}
    BY <1>2 DEF HandleError, TopicsBackToPending
  <2>2. Wanted' = Wanted
    BY <2>1 DEF Wanted
  <2> QED BY <2>1, <2>2, TopicDown DEF UnderKept
<1> QED
  BY <1>1, <1>2

\* startConnect() while there is no connection.
LEMMA TopicStartConnect ==
  ASSUME TopicState, TypeOK', UnderKept, NEW o, StartConnect(o), ~connected,
         UNCHANGED <<topicVars, outboundQueue>>
  PROVE  TopicInv' /\ FeedStep
<1>1. CASE userClosed
  <2>1. UNCHANGED <<connected, stream, wireVars>>
    BY <1>1 DEF StartConnect
  <2>2. DeadStreamCarriesNothing' /\ (Carrying' <=> Carrying)
    BY <2>1 DEF TopicState, TopicInv, DeadStreamCarriesNothing, Carrying, wireVars
  <2> QED BY <2>1, <2>2, TopicSame DEF UnderKept
<1>2. CASE ~userClosed
  <2>1. /\ ~connected' /\ wire' = <<>> /\ serverTopics' = {}
    BY <1>2 DEF StartConnect
  <2>2. subscriptions' = {} /\ Wanted' = Wanted /\ outboundQueue' = <<>>
    BY DEF topicVars, Wanted, TopicState, TopicInv, NothingWhenDown, SessionInv, LinkInv,
           QueueDiesWithConnection
  <2> QED BY <2>1, <2>2, TopicDown DEF UnderKept
<1> QED
  BY <1>1, <1>2

-----------------------------------------------------------------------------
(* The steps.                                                              *)

\* The handlers that callers and run() post.
LEMMA TopicPosted ==
  ASSUME TopicState, TypeOK', RunPosted
  PROVE  TopicInv' /\ FeedStep
<1>0. TypeOK /\ TopicInv /\ caller' = caller
  BY DEF TopicState, SessionInv, RunPosted, RunStartConnect, RunFlushTopics, RunUnsubscribe,
         RunCloseByUser, clientVars
<1>u. ASSUME NEW name, name # "unsubscribe", Run(name) PROVE UnderKept
  BY <1>0, <1>u, UnderSame DEF UnderKept
<1>1. CASE RunStartConnect
  <2>1. Len(strand) > 0 /\ Len(strand) \in Nat /\ strand[1].run = "startConnect" /\ UnderKept
    BY <1>0, <1>1, <1>u, RunEffect DEF RunStartConnect
  <2>2. ~connected
    BY <2>1 DEF TopicState, SessionInv, LoopInv, StartFirst, NothingYet
  <2> QED BY <1>1, <2>1, <2>2, TopicStartConnect DEF RunStartConnect
<1>2. CASE RunFlushTopics
  <2>1. UnderKept /\ FlushTopics(ops, connected) /\ UNCHANGED <<connected, stream, serverTopics>>
    BY <1>2, <1>u DEF RunFlushTopics, linkVars
  <2>2. CASE connected
    <3>1. FlushTopics(ops, TRUE)
      BY <2>1, <2>2 DEF FlushTopics
    <3> QED BY <2>1, <2>2, <3>1, TopicFlush
  <2>3. CASE ~connected
    <3>1. UNCHANGED <<topicVars, outboundQueue, wire>>
      BY <2>1, <2>3 DEF FlushTopics, FlushSkipped
    <3> QED BY <1>0, <2>1, <3>1, TopicSame
            DEF wireVars, UnderKept, TopicInv, DeadStreamCarriesNothing, Carrying
  <2> QED BY <2>2, <2>3
<1>3. CASE RunUnsubscribe
  <2>0. Run("unsubscribe") /\ UNCHANGED <<topicVars, connected, stream, serverTopics>>
    BY <1>3 DEF RunUnsubscribe, linkVars
  <2>1. Head(strand) \in Handlers /\ Head(strand).run = "unsubscribe"
    BY <1>0, <2>0, RunEffect
  <2>2. PICK t \in Topics : Head(strand) = Handler("unsubscribe", t)
    BY <2>1 DEF Handlers, Posts, Kinds, Stages, Handler
  <2>3. UnsubscribeMsg = Unsub(t)
    BY <2>2 DEF UnsubscribeMsg, Unsub, Handler
  <2>4. \A u \in Topics :
          /\ UnsubscribeUnderWay(u)' => UnsubscribeUnderWay(u)
          /\ UnsubscribeUnderWay(u) => UnsubscribeUnderWay(u)' \/ u = t
    <3>1. \A u \in Topics : Handler("unsubscribe", u) = Handler("unsubscribe", t) => u = t
      BY DEF Handler
    <3> QED BY <1>0, <2>0, <2>2, <3>1, UnderRun
  <2>5. UnsubscribeUnderWay(t)
    <3>1. 1 \in DOMAIN strand /\ strand[1] = Handler("unsubscribe", t)
      BY <1>0, <2>0, <2>2, RunEffect, LenProperties DEF TypeOK
    <3> QED BY <3>1 DEF UnsubscribeUnderWay
  <2>6. Wanted' = Wanted /\ subscriptions' = subscriptions
    BY <2>0 DEF topicVars, Wanted
  <2>7. CASE ~connected
    <3>1. outboundQueue' = outboundQueue /\ wire' = wire
      BY <1>3, <2>7 DEF RunUnsubscribe, SendUnsubscribe
    <3>2. /\ subscriptions' = {} /\ wire' = <<>> /\ serverTopics' = {} /\ ~connected'
          /\ outboundQueue' = <<>>
      BY <1>0, <2>0, <2>6, <2>7, <3>1
         DEF TopicInv, NothingWhenDown, TopicState, SessionInv, LinkInv, QueueDiesWithConnection
    <3> QED BY <2>4, <2>6, <3>2, TopicDown
  <2>8. CASE connected
    <3> DEFINE queue == Append(outboundQueue, Unsub(t))
               all == wire \o queue
    <3>1. /\ wire \in Seq(Messages) /\ outboundQueue \in Seq(Messages) /\ Mail \in Seq(Messages)
          /\ Unsub(t) \in Messages
      BY <1>0, MailTyped, MessageFacts
    <3>2. queue \in Seq(Messages) /\ Pump(ops, queue, writeInFlight, connected)
      BY <1>3, <2>3, <2>8, <3>1, AppendProperties DEF RunUnsubscribe, SendUnsubscribe
    <3>3. all = Append(Mail, Unsub(t))
      <4>1. queue = outboundQueue \o <<Unsub(t)>> /\ <<Unsub(t)>> \in Seq(Messages)
        BY <3>1, AppendIsConcat
      <4>2. all = Mail \o <<Unsub(t)>>
        BY <3>1, <4>1, ConcatAssociative DEF Mail
      <4> QED BY <3>1, <4>2, AppendIsConcat
    <3>4. all \in Seq(Messages) /\ IsAppend(all, Mail, Unsub(t))
      BY <3>1, <3>3, AppendProperties, LenProperties DEF IsAppend
    <3> HIDE DEF queue
    <3>5. Moves(all)
      BY <1>0, <2>0, <3>2, MovesPump DEF TopicInv
    <3>6. NothingWhenDown' /\ DeadStreamCarriesNothing' /\ ListsApart'
      BY <1>0, <2>0, <2>8, <3>2
         DEF TopicInv, NothingWhenDown, DeadStreamCarriesNothing, ListsApart, Pump, topicVars
    <3> HIDE DEF all
    <3>7. \A u \in Topics :
            /\ AskedOnce(Mail, serverTopics, u) => AskedOnce(all, serverTopics, u)
            /\ u = t => ~EndsFed(all, serverTopics, u) /\ Carries(all, Unsub(u))
            /\ u # t => /\ EndsFed(all, serverTopics, u) <=> EndsFed(Mail, serverTopics, u)
                        /\ Carries(all, Unsub(u)) <=> Carries(Mail, Unsub(u))
      <4> TAKE u \in Topics
      <4>1. CASE u = t
        BY <3>1, <3>4, <4>1, AppendUnsub
      <4>2. CASE u # t
        <5>1. Unsub(t).topic # u
          BY <4>2, MessageFacts
        <5> QED BY <3>1, <3>4, <4>2, <5>1, AppendOther
      <4> QED BY <4>1, <4>2
    <3>8. \A u \in Topics : OnItsWay(u) <=> UnsubscribeUnderWay(u) \/ Carries(Mail, Unsub(u))
      BY <1>0, OnItsWayAll
    <3>9. \A u \in Topics :
            /\ UnsubscribeUnderWay(u)' => UnsubscribeUnderWay(u)
            /\ AskedOnce(all, serverTopics, u)
            /\ EndsFed(all, serverTopics, u) => u \in subscriptions' \/ UnsubscribeUnderWay(u)'
            /\ Carries(all, Unsub(u)) => OnItsWay(u)
            /\ OnItsWay(u) => UnsubscribeUnderWay(u)' \/ Carries(all, Unsub(u)) \/ serverTopics' = {}
      BY <1>0, <2>4, <2>5, <2>6, <3>7, <3>8 DEF TopicInv, AskedOnceEach, FedIsRecorded
    <3>10. connected' /\ Carrying' => \A u \in subscriptions' : EndsFed(all, serverTopics, u)
      <4>1. t \notin subscriptions
        BY <1>0, <2>5 DEF TopicInv, LeavingUnwanted, Wanted
      <4> QED BY <1>0, <2>0, <2>6, <3>7, <4>1 DEF TopicInv, RecordedIsFed, Carrying, TypeOK
    <3> QED BY <2>6, <3>5, <3>6, <3>9, <3>10, TopicMove
  <2> QED BY <2>7, <2>8
<1>4. CASE RunCloseByUser
  <2>1. UnderKept /\ UNCHANGED <<topicVars, outboundQueue, connected>>
    BY <1>4, <1>u DEF RunCloseByUser
  <2>2. CASE UNCHANGED <<stream, wireVars>> \/ (stream' = "closing" /\ UNCHANGED wireVars)
    <3>1. DeadStreamCarriesNothing' /\ (Carrying' => Carrying)
      BY <1>0, <2>2 DEF TopicInv, DeadStreamCarriesNothing, Carrying, wireVars
    <3> QED BY <2>1, <2>2, <3>1, TopicSame DEF UnderKept
  <2>3. CASE stream' = SocketClosed /\ wire' = <<>> /\ serverTopics' = {}
    <3>1. ~Carrying' /\ DeadStreamCarriesNothing'
      BY <2>3 DEF SocketClosed, Carrying, DeadStreamCarriesNothing
    <3>2. NothingWhenDown'
      BY <1>0, <2>1, <2>3 DEF TopicInv, NothingWhenDown, topicVars
    <3>3. Moves(Mail)
      BY <1>0, <2>1, <2>3, <3>1, MovesWireLost
    <3> QED BY <2>1, <3>1, <3>2, <3>3, TopicUnmoved DEF UnderKept
  <2> QED BY <1>4, <2>2, <2>3 DEF RunCloseByUser
<1> QED
  BY <1>1, <1>2, <1>3, <1>4 DEF RunPosted

\* Completion handlers.
LEMMA TopicCompletion ==
  ASSUME TopicState, TypeOK', RunCompletion
  PROVE  TopicInv' /\ FeedStep
<1>0. TypeOK /\ TopicInv /\ SessionInv /\ {"handshake", "read", "write", "ping", "reconnect"} \subseteq Kinds
      /\ Stages \subseteq Kinds /\ "handshake" \in Stages
  BY DEF TopicState, SessionInv, Kinds, Stages
<1>u. ASSUME NEW k \in Kinds, Run(k), caller' = caller PROVE UnderKept
  BY <1>0, <1>u, UnderSame DEF UnderKept, Kinds, Stages
<1>d. ASSUME UNCHANGED <<wireVars, stream>> PROVE DeadStreamCarriesNothing' /\ (Carrying' <=> Carrying)
  BY <1>0, <1>d DEF TopicInv, DeadStreamCarriesNothing, Carrying, wireVars
<1>c. ASSUME UNCHANGED connVars, UnderKept PROVE TopicInv' /\ FeedStep
  <2>1. UNCHANGED <<topicVars, outboundQueue, wireVars, connected, stream>>
    BY <1>c DEF connVars, linkVars
  <2> QED BY <1>c, <1>d, <2>1, TopicSame DEF UnderKept
<1>1. ASSUME NEW k \in Stages, NEW next \in Stages, AfterStage(k, next)
      PROVE  TopicInv' /\ FeedStep
  <2>1. UnderKept /\ Completed(k)
    BY <1>0, <1>1, <1>u DEF AfterStage, Unheard, clientVars, Completed
  <2>2. CASE StageGivesUp(k, next)
    BY <2>1, <2>2, TopicHandleError DEF StageGivesUp
  <2>3. CASE NextStage(k, next)
    <3>1. ~connected
      <4>1. generation > 0 /\ Op(k) # "idle"
        BY <1>0, <2>1, CompletedEffect DEF Ended
      <4> QED BY <1>0, <4>1 DEF SessionInv, LoopInv, OneAttemptAtATime
    <3>2. UNCHANGED <<topicVars, outboundQueue, wireVars, connected>>
      BY <2>3 DEF NextStage, linkVars
    <3>3. DeadStreamCarriesNothing'
      BY <1>0, <3>1, <3>2 DEF TopicInv, NothingWhenDown, DeadStreamCarriesNothing, wireVars
    <3> QED BY <2>1, <3>1, <3>2, <3>3, TopicSame DEF UnderKept
  <2> QED BY <1>1, <2>2, <2>3 DEF AfterStage
<1>2. CASE OnResolve \/ OnConnect \/ OnSSLHandshake
  BY <1>1, <1>2 DEF OnResolve, OnConnect, OnSSLHandshake, Stages
<1>3. CASE OnHandshake
  <2>1. UnderKept
    BY <1>0, <1>3, <1>u DEF OnHandshake, clientVars, Completed
  <2>2. CASE HandleError(Finished("handshake", generation), writeInFlight)
    BY <2>1, <2>2, TopicHandleError
  <2>3. CASE UNCHANGED connVars
    BY <1>c, <2>1, <2>3
  <2>4. CASE Connected(Finished("handshake", generation))
    BY <2>1, <2>4, TopicFlush DEF Connected
  <2> QED BY <1>3, <2>2, <2>3, <2>4 DEF OnHandshake, Accept
<1>4. CASE OnRead
  <2>1. UnderKept
    BY <1>0, <1>4, <1>u DEF OnRead, clientVars, Completed
  <2> QED BY <1>4, <1>c, <2>1, TopicHandleError DEF OnRead
<1>5. CASE OnWrite
  <2>1. UnderKept
    BY <1>0, <1>5, <1>u DEF OnWrite, Unheard, clientVars, Completed
  <2>2. CASE HandleError(Finished("write", generation), FALSE)
    BY <2>1, <2>2, TopicHandleError
  <2>3. CASE /\ Pump(Finished("write", generation), outboundQueue, FALSE, connected)
             /\ UNCHANGED <<topicVars, linkVars, stream, serverTopics>>
    <3>1. UNCHANGED <<topicVars, connected, serverTopics, stream>>
      BY <2>3 DEF linkVars
    <3> QED BY <2>1, <2>3, <3>1, TopicPump
  <2> QED BY <1>5, <2>2, <2>3 DEF OnWrite
<1>6. CASE OnPingTimer
  <2> DEFINE o == Finished("ping", generation)
             n == IF stream = "open" THEN 0 ELSE quietPings + 1
  <2>1. UnderKept
    BY <1>0, <1>6, <1>u DEF OnPingTimer, clientVars, Completed
  <2>2. CASE UNCHANGED connVars
    BY <1>c, <2>1, <2>2
  <2>3. CASE PeerSilent(o, n)
    BY <2>1, <2>3, TopicHandleError DEF PeerSilent
  <2>4. CASE connected /\ PingRound(o, n)
    <3>1. /\ UNCHANGED <<topicVars, connected, serverTopics, stream>>
          /\ Pump(Start(o, "ping"), Append(outboundQueue, Ping), writeInFlight, connected)
      BY <2>4 DEF PingRound, linkVars
    <3> HIDE DEF o
    <3> QED BY <2>1, <2>4, <3>1, TopicPump
  <2> QED BY <1>6, <2>2, <2>3, <2>4 DEF OnPingTimer
<1>7. CASE OnReconnectTimer
  <2>1. UnderKept /\ Completed("reconnect") /\ UNCHANGED <<topicVars, outboundQueue>>
    BY <1>0, <1>7, <1>u DEF OnReconnectTimer, Unheard, clientVars, Completed
  <2>2. ~connected
    <3>1. generation > 0 /\ Op("reconnect") # "idle"
      BY <1>0, <2>1, CompletedEffect DEF Ended
    <3> QED BY <1>0, <3>1 DEF SessionInv, LinkInv, NotBoth, WaitHolds
  <2>3. CASE UNCHANGED <<connected, stream, wireVars>>
    BY <1>d, <2>1, <2>3, TopicSame DEF UnderKept
  <2>4. CASE StartConnect(Finished("reconnect", generation))
    BY <2>1, <2>2, <2>4, TopicStartConnect
  <2> QED BY <1>7, <2>3, <2>4 DEF OnReconnectTimer
<1>8. ASSUME NEW g \in 1..generation, NEW k \in Kinds, DropStale(k, g)
      PROVE  TopicInv' /\ FeedStep
  BY <1>8, <1>c, <1>u DEF DropStale, clientVars
<1> QED
  BY <1>2, <1>3, <1>4, <1>5, <1>6, <1>7, <1>8 DEF RunCompletion

\* The venue takes a message: it feeds the topic, or stops feeding it.
LEMMA TopicReceives ==
  ASSUME TopicState, TypeOK', ServerReceives
  PROVE  TopicInv' /\ FeedStep
<1> DEFINE m == Head(wire)
<1>0. /\ TypeOK /\ TopicInv /\ wire # <<>> /\ wire' = Tail(wire)
      /\ UNCHANGED <<caller, strand, subscriptions, pendingTopics, connected, stream, outboundQueue>>
      /\ stream = "open"
      /\ serverTopics' = IF m.method = "subscribe" THEN serverTopics \cup {m.topic}
                         ELSE serverTopics \ {m.topic}
  BY DEF TopicState, SessionInv, ServerReceives, sessionVars, clientVars, topicVars, linkVars
<1>1. /\ wire \in Seq(Messages) /\ outboundQueue \in Seq(Messages) /\ Mail \in Seq(Messages)
      /\ m \in Messages /\ Tail(wire) \in Seq(Messages) /\ wire = <<m>> \o Tail(wire)
      /\ <<m>> \in Seq(Messages)
  BY <1>0, MailTyped, HeadTailProperties
<1> HIDE DEF m
<1>2. Mail # <<>> /\ Head(Mail) = m /\ Mail' = Tail(Mail)
  <2> DEFINE rest == Tail(wire) \o outboundQueue
  <2>1. rest \in Seq(Messages) /\ Mail' = rest /\ Mail = <<m>> \o rest
    BY <1>0, <1>1, ConcatAssociative, ConcatProperties DEF Mail
  <2> HIDE DEF rest
  <2>2. /\ Len(<<m>>) = 1 /\ <<m>>[1] = m /\ Len(rest) \in Nat
        /\ Len(Mail) = 1 + Len(rest)
        /\ \A i \in 1..(1 + Len(rest)) : Mail[i] = IF i <= 1 THEN <<m>>[i] ELSE rest[i - 1]
    BY <1>1, <2>1, ConcatProperties, LenProperties
  <2>3. Mail # <<>> /\ Head(Mail) = m
    BY <1>1, <2>2, EmptySeq, 1 \in 1..(1 + Len(rest))
  <2>4. /\ Tail(Mail) \in Seq(Messages) /\ Len(Tail(Mail)) = Len(rest)
        /\ \A i \in 1..Len(rest) : Tail(Mail)[i] = Mail[i + 1]
    BY <1>1, <2>2, <2>3, HeadTailProperties
  <2>5. \A i \in 1..Len(rest) : Mail[i + 1] = rest[i]
    BY <2>2
  <2>6. Tail(Mail) = rest
    BY <2>1, <2>4, <2>5, SeqEqual
  <2> QED BY <2>1, <2>3, <2>6
<1>3. \A t \in Topics :
        /\ AskedOnce(Mail, serverTopics, t) /\ AskedOnce(Mail, serverTopics, t)'
        /\ m = Sub(t) => t \notin serverTopics
        /\ EndsFed(Mail, serverTopics, t)' <=> EndsFed(Mail, serverTopics, t)
        /\ Carries(Mail, Unsub(t))' => Carries(Mail, Unsub(t))
        /\ Carries(Mail, Unsub(t)) => Carries(Mail, Unsub(t))' \/ m = Unsub(t)
  <2> TAKE t \in Topics
  <2>1. AskedOnce(Mail, serverTopics, t)
    BY <1>0 DEF TopicInv, AskedOnceEach
  <2>2. /\ m = Sub(t) => t \in serverTopics'
        /\ m = Unsub(t) => t \notin serverTopics'
        /\ m.topic # t => (t \in serverTopics' <=> t \in serverTopics)
    <3>1. /\ Sub(t).method = "subscribe" /\ Sub(t).topic = t
          /\ Unsub(t).method # "subscribe" /\ Unsub(t).topic = t
      BY DEF Sub, Unsub
    <3> QED BY <1>0, <3>1
  <2>3. PICK new, taken, first : new = Mail' /\ taken = serverTopics' /\ first = m
    OBVIOUS
  <2>4. /\ AskedOnce(Mail, serverTopics, t) =>
             AskedOnce(new, taken, t) /\ (first = Sub(t) => t \notin serverTopics)
        /\ EndsFed(new, taken, t) <=> EndsFed(Mail, serverTopics, t)
        /\ Carries(new, Unsub(t)) => Carries(Mail, Unsub(t))
        /\ Carries(Mail, Unsub(t)) => Carries(new, Unsub(t)) \/ first = Unsub(t)
    <3>1. /\ Mail \in Seq(Messages) /\ Mail # <<>> /\ Mail[1] = first /\ first \in Messages
          /\ new \in Seq(Messages) /\ IsSuffix(new, Mail, 1)
          /\ first = Sub(t) => t \in taken
          /\ first = Unsub(t) => t \notin taken
          /\ first.topic # t => (t \in taken <=> t \in serverTopics)
      BY <1>1, <1>2, <2>2, <2>3, HeadTailProperties DEF IsSuffix
    <3>2. Delivers(new, Mail, first, serverTopics, taken, t)
      BY <3>1 DEF Delivers
    <3> QED BY <3>2, DeliverFirst
  <2> QED BY <2>1, <2>3, <2>4
<1>4. \A t \in Topics : UnsubscribeUnderWay(t)' <=> UnsubscribeUnderWay(t)
  BY <1>0 DEF UnsubscribeUnderWay
<1>5. TopicInv'
  <2>1. LeavingUnwanted' /\ ListsApart' /\ NothingWhenDown' /\ DeadStreamCarriesNothing'
    BY <1>0, <1>4
       DEF TopicInv, LeavingUnwanted, Wanted, ListsApart, NothingWhenDown, DeadStreamCarriesNothing
  <2>2. AskedOnceEach' /\ FedIsRecorded' /\ RecordedIsFed'
    BY <1>0, <1>3, <1>4 DEF TopicInv, AskedOnceEach, FedIsRecorded, RecordedIsFed, Carrying, TypeOK
  <2> QED BY <2>1, <2>2 DEF TopicInv
<1>6. \A t \in Topics : OnItsWay(t) <=> UnsubscribeUnderWay(t) \/ Carries(Mail, Unsub(t))
  BY <1>0, OnItsWayAll
<1>7. (TypeOK => \A t \in Topics : OnItsWay(t) <=> UnsubscribeUnderWay(t) \/ Carries(Mail, Unsub(t)))'
  BY OnItsWayAll, PTL
<1>8. \A t \in Topics : (OnItsWay(t)' => OnItsWay(t)) /\ (OnItsWay(t) => OnItsWay(t)' \/ m = Unsub(t))
  BY <1>3, <1>4, <1>6, <1>7
<1>9. Wanted' = Wanted
  BY <1>0 DEF Wanted
<1>10. CASE m.topic \in Topics /\ m.method = "subscribe"
  <2>1. PICK t \in Topics : m = Sub(t) /\ m.topic = t
    BY <1>1, <1>10, MessageFacts
  <2>2. t \notin serverTopics /\ serverTopics' = serverTopics \cup {t}
    BY <1>0, <1>3, <1>10, <2>1
  <2>3. t \in Wanted \/ OnItsWay(t)
    <3>1. CASE EndsFed(Mail, serverTopics, t)
      BY <1>0, <1>6, <3>1 DEF TopicInv, FedIsRecorded, Wanted
    <3>2. CASE ~EndsFed(Mail, serverTopics, t)
      <4>1. ~NoneAbout(Mail, t)
        <5>1. 1 \in 1..Len(Mail) /\ Mail[1].topic = t
          BY <1>1, <1>2, <2>1, EmptySeq, HeadTailProperties
        <5> QED BY <5>1 DEF NoneAbout
      <4> QED BY <1>1, <1>6, <3>2, <4>1, LeavesByUnsub
    <3> QED BY <3>1, <3>2
  <2>4. \A u \in Topics : OnItsWay(u)' <=> OnItsWay(u)
    <3>1. \A u \in Topics : m # Unsub(u)
      BY <1>10 DEF Unsub
    <3> QED BY <1>8, <3>1
  <2>5. {u \in Topics : OnItsWay(u)}' = {u \in Topics : OnItsWay(u)}
    BY <2>4
  <2>6. Feeding!Feed(t)
    BY <1>9, <2>2, <2>3, <2>5 DEF Feeding!Feed
  <2>7. FeedStep
    BY <2>6 DEF FeedStep, Feeding!FeedNext
  <2> QED BY <1>5, <2>1, <2>2, <2>7 DEF m
<1>11. CASE m.topic \in Topics /\ m.method # "subscribe"
  <2>1. PICK t \in Topics : m = Unsub(t) /\ m.topic = t
    BY <1>1, <1>11, MessageFacts
  <2>2. serverTopics' = serverTopics \ {t}
    BY <1>0, <1>11, <2>1
  <2>3. OnItsWay(t)
    <3>1. 1 \in 1..Len(Mail) /\ Mail[1] = Unsub(t)
      BY <1>1, <1>2, <2>1, EmptySeq, HeadTailProperties
    <3> QED BY <1>6, <3>1 DEF Carries
  <2>4. \A u \in Topics : u # t => (OnItsWay(u)' <=> OnItsWay(u))
    <3>1. \A u \in Topics : u # t => m # Unsub(u)
      BY <2>1, MessageFacts
    <3> QED BY <1>8, <3>1
  <2>5. {u \in Topics : OnItsWay(u)}' \in
          {{u \in Topics : OnItsWay(u)}, {u \in Topics : OnItsWay(u)} \ {t}}
    <3>1. CASE OnItsWay(t)'
      <4>1. {u \in Topics : OnItsWay(u)}' = {u \in Topics : OnItsWay(u)}
        BY <2>3, <2>4, <3>1
      <4> QED BY <4>1
    <3>2. CASE ~OnItsWay(t)'
      <4>1. {u \in Topics : OnItsWay(u)}' = {u \in Topics : OnItsWay(u)} \ {t}
        BY <2>3, <2>4, <3>2
      <4> QED BY <4>1
    <3> QED BY <3>1, <3>2
  <2>6. Feeding!Stop(t)
    BY <1>9, <2>2, <2>3, <2>5 DEF Feeding!Stop
  <2>7. FeedStep
    BY <2>6 DEF FeedStep, Feeding!FeedNext
  <2> QED BY <1>5, <1>11, <2>7 DEF m
<1>12. CASE m.topic \notin Topics
  <2>1. m.method # "subscribe"
    BY <1>1, <1>12 DEF Messages
  <2>2. serverTopics' = serverTopics
    BY <1>0, <1>12, <2>1 DEF TypeOK
  <2>3. \A u \in Topics : OnItsWay(u)' <=> OnItsWay(u)
    <3>1. \A u \in Topics : m # Unsub(u)
      BY <1>12, MessageFacts
    <3> QED BY <1>8, <3>1
  <2>4. {u \in Topics : OnItsWay(u)}' = {u \in Topics : OnItsWay(u)}
    BY <2>3
  <2>5. FeedStep
    BY <1>9, <2>2, <2>4 DEF FeedStep, Feeding!feedVars
  <2> QED BY <1>5, <2>1, <2>5 DEF m
<1> QED
  BY <1>10, <1>11, <1>12

\* A step of the environment.
LEMMA TopicEnvironment ==
  ASSUME TopicState, TypeOK', Environment
  PROVE  TopicInv' /\ FeedStep
<1>0. /\ TypeOK /\ TopicInv /\ SessionInv
      /\ Stages \cup {"read", "write", "ping", "reconnect", "handshake"} \subseteq Kinds
      /\ "handshake" \in Stages
  BY DEF TopicState, SessionInv, Kinds, Stages
<1>c. ASSUME NEW k \in Kinds, NEW g, NEW status, Complete(k, g, status),
             DeadStreamCarriesNothing', connected /\ Carrying' => Carrying
      PROVE  TopicInv' /\ FeedStep
  <2>1. \A t \in Topics : UnsubscribeUnderWay(t)' <=> UnsubscribeUnderWay(t)
    BY <1>0, <1>c, UnderComplete
  <2>2. UNCHANGED <<topicVars, outboundQueue, wireVars, connected>>
    BY <1>c DEF Complete, sessionVars, linkVars
  <2> QED BY <1>c, <2>1, <2>2, TopicSame
<1>s. ASSUME UNCHANGED <<stream, wireVars>>
      PROVE  DeadStreamCarriesNothing' /\ (connected /\ Carrying' => Carrying)
  BY <1>0, <1>s DEF TopicInv, DeadStreamCarriesNothing, Carrying, wireVars
<1>1. ASSUME NEW k \in Stages, StageSucceeds(k) PROVE TopicInv' /\ FeedStep
  <2>1. Complete(k, generation, "ok") /\ UNCHANGED wireVars /\ generation > 0
    BY <1>1 DEF StageSucceeds, Complete
  <2>2. CASE k = "handshake"
    <3>1. Op(k) # "idle" /\ stream' = "open"
      BY <1>1, <2>2 DEF StageSucceeds, Complete, Op
    <3>2. ~connected
      BY <1>0, <2>1, <2>2, <3>1 DEF SessionInv, LoopInv, OneAttemptAtATime
    <3>3. DeadStreamCarriesNothing'
      BY <3>1 DEF DeadStreamCarriesNothing
    <3> QED BY <1>0, <1>c, <2>1, <3>2, <3>3
  <2>3. CASE k # "handshake"
    BY <1>0, <1>1, <1>c, <1>s, <2>1, <2>3 DEF StageSucceeds
  <2> QED BY <2>2, <2>3
<1>2. ASSUME NEW k \in Stages, StageFails(k) PROVE TopicInv' /\ FeedStep
  BY <1>0, <1>2, <1>c, <1>s DEF StageFails, Complete
<1>3. CASE WriteSucceeds \/ ReconnectTimerExpires
  BY <1>0, <1>3, <1>c, <1>s DEF WriteSucceeds, ReconnectTimerExpires, Complete
<1>4. ASSUME NEW g \in 1..generation, NEW k \in {"read", "write"}, TransferFails(k, g)
      PROVE  TopicInv' /\ FeedStep
  <2>1. Complete(k, g, "failed") /\ UNCHANGED wireVars
    BY <1>4 DEF TransferFails, Complete
  <2>2. CASE g = generation /\ stream # "closing"
    <3>1. stream \notin {"open", "stalled", "closing"} /\ stream' = "idle"
      <4>1. g \in Int /\ ~(g < g)
        BY LenProperties, <1>0 DEF generation, TypeOK, OpsTable
      <4> QED BY <1>4, <2>2, <4>1 DEF TransferFails
    <3>2. DeadStreamCarriesNothing' /\ ~Carrying'
      BY <1>0, <2>1, <3>1 DEF TopicInv, DeadStreamCarriesNothing, Carrying, wireVars
    <3> QED BY <1>0, <1>c, <2>1, <3>2
  <2>3. CASE ~(g = generation /\ stream # "closing")
    BY <1>0, <1>4, <1>c, <1>s, <2>1, <2>3 DEF TransferFails
  <2> QED BY <2>2, <2>3
<1>5. ASSUME NEW g \in 1..generation,
             PingTimerExpires(g) \/ WaitAborted("ping", g) \/ WaitAborted("reconnect", g)
      PROVE  TopicInv' /\ FeedStep
  BY <1>0, <1>5, <1>c, <1>s DEF PingTimerExpires, WaitAborted, Complete
<1>6. ASSUME NEW status \in {"ok", "bad"}, MessageArrives(status) PROVE TopicInv' /\ FeedStep
  BY <1>0, <1>6, <1>c, <1>s DEF MessageArrives, Complete
<1>7. CASE ConnectionBreaks \/ CloseHandshakeEnds
  <2>1. /\ wire' = <<>> /\ serverTopics' = {} /\ stream' \in {"broken", "idle"}
        /\ UNCHANGED <<caller, strand, topicVars, outboundQueue, connected>>
    BY <1>7 DEF ConnectionBreaks, CloseHandshakeEnds, sessionVars, clientVars, linkVars
  <2>2. ~Carrying' /\ DeadStreamCarriesNothing' /\ NothingWhenDown'
    BY <1>0, <2>1 DEF Carrying, DeadStreamCarriesNothing, NothingWhenDown, TopicInv, topicVars
  <2>3. \A t \in Topics : UnsubscribeUnderWay(t)' <=> UnsubscribeUnderWay(t)
    BY <2>1 DEF UnsubscribeUnderWay
  <2>4. Moves(Mail)
    BY <1>0, <2>1, <2>2, MovesWireLost
  <2> QED BY <2>1, <2>2, <2>3, <2>4, TopicUnmoved
<1>8. CASE PeerFallsSilent
  <2>1. /\ UNCHANGED <<caller, strand, topicVars, outboundQueue, connected, wireVars>>
        /\ stream = "open" /\ stream' = "stalled"
    BY <1>8 DEF PeerFallsSilent, sessionVars, clientVars, linkVars
  <2>2. Carrying /\ DeadStreamCarriesNothing'
    BY <2>1 DEF Carrying, DeadStreamCarriesNothing
  <2>3. \A t \in Topics : UnsubscribeUnderWay(t)' <=> UnsubscribeUnderWay(t)
    BY <2>1 DEF UnsubscribeUnderWay
  <2> QED BY <2>1, <2>2, <2>3, TopicSame
<1> QED
  BY <1>1, <1>2, <1>3, <1>4, <1>5, <1>6, <1>7, <1>8, TopicReceives
     DEF Environment, StageEnds, TransferEnds, TimerExpires

-----------------------------------------------------------------------------
(* The callers.                                                            *)

\* A call, and the post that follows it, tell of the handlers under way.
LEMMA UnderCalls ==
  ASSUME TypeOK, NEW c \in Callers, NEW t \in Topics
  PROVE  /\ caller[c] = NoHandler /\ strand' = strand =>
              /\ \A h : h.run # "unsubscribe" /\ caller' = [caller EXCEPT ![c] = h] =>
                   (UnsubscribeUnderWay(t)' <=> UnsubscribeUnderWay(t))
              /\ \A u \in Topics : caller' = [caller EXCEPT ![c] = Handler("unsubscribe", u)] =>
                   (UnsubscribeUnderWay(t)' <=> UnsubscribeUnderWay(t) \/ t = u)
         /\ Post(c) => (UnsubscribeUnderWay(t)' <=> UnsubscribeUnderWay(t))
<1>0. /\ caller \in [Callers -> Posts \cup {NoHandler}] /\ strand \in Seq(Handlers)
      /\ Len(strand) \in Nat /\ DOMAIN strand = 1..Len(strand)
      /\ caller[c] = NoHandler \/ caller[c] \in Handlers
  BY LenProperties DEF TypeOK, Handlers
<1>1. NoHandler # Handler("unsubscribe", t)
  BY DEF NoHandler, Handler
<1>2. ASSUME caller[c] = NoHandler, strand' = strand, NEW h, caller' = [caller EXCEPT ![c] = h]
      PROVE  UnsubscribeUnderWay(t)' <=> UnsubscribeUnderWay(t) \/ h = Handler("unsubscribe", t)
  <2>1. caller'[c] = h /\ \A d \in Callers : d # c => caller'[d] = caller[d]
    BY <1>0, <1>2
  <2> QED BY <1>1, <1>2, <2>1 DEF UnsubscribeUnderWay
<1>3. \A h : h.run # "unsubscribe" => h # Handler("unsubscribe", t)
  BY DEF Handler
<1>4. \A u \in Topics : Handler("unsubscribe", u) = Handler("unsubscribe", t) <=> u = t
  BY DEF Handler
<1>5. ASSUME Post(c) PROVE UnsubscribeUnderWay(t)' <=> UnsubscribeUnderWay(t)
  <2>1. caller[c] \in Handlers /\ strand' = Append(strand, caller[c])
    BY <1>0, <1>5 DEF Post
  <2>2. /\ DOMAIN strand' = 1..(Len(strand) + 1) /\ strand'[Len(strand) + 1] = caller[c]
        /\ \A i \in 1..Len(strand) : strand'[i] = strand[i]
    BY <1>0, <2>1
  <2>3. caller'[c] = NoHandler /\ \A d \in Callers : d # c => caller'[d] = caller[d]
    BY <1>0, <1>5 DEF Post
  <2>4. (\E i \in DOMAIN strand' : strand'[i] = Handler("unsubscribe", t)) <=>
        \/ \E i \in DOMAIN strand : strand[i] = Handler("unsubscribe", t)
        \/ caller[c] = Handler("unsubscribe", t)
    BY <1>0, <2>2
  <2>5. (\E d \in Callers : caller[d] = Handler("unsubscribe", t)) <=>
        \/ \E d \in Callers : caller'[d] = Handler("unsubscribe", t)
        \/ caller[c] = Handler("unsubscribe", t)
    BY <1>1, <2>3
  <2>6. UnsubscribeUnderWay(t)' <=>
        \/ \E d \in Callers : caller'[d] = Handler("unsubscribe", t)
        \/ \E i \in DOMAIN strand' : strand'[i] = Handler("unsubscribe", t)
    BY DEF UnsubscribeUnderWay
  <2> QED BY <2>4, <2>5, <2>6 DEF UnsubscribeUnderWay
<1> QED
  BY <1>2, <1>3, <1>4, <1>5

\* A call edits what is wanted, and an unsubscribe leaves a handler under way.
LEMMA TopicCallers ==
  ASSUME TopicState, TypeOK', ~RacingResubscribe, NEW c \in Callers, Call(c) \/ Post(c)
  PROVE  TopicInv' /\ FeedStep
<1>0. /\ TypeOK /\ TopicInv /\ Mail \in Seq(Messages)
      /\ UNCHANGED <<outboundQueue, wire, serverTopics, connected, stream>>
  <2>1. UNCHANGED strandVars
    BY DEF Call, Close, Subscribe, Unsubscribe, Post
  <2> QED BY <2>1, MailTyped DEF TopicState, SessionInv, strandVars, linkVars, wireVars
<1>1. Mail' = Mail /\ DeadStreamCarriesNothing' /\ (Carrying' <=> Carrying) /\ AskedOnceEach'
  BY <1>0 DEF Mail, TopicInv, DeadStreamCarriesNothing, Carrying, AskedOnceEach
<1>2. CASE Close(c) \/ Post(c)
  <2>1. UnderKept
    <3>1. CASE Close(c)
      <4>1. Handler("closeByUser", NoTopic).run # "unsubscribe"
        BY DEF Handler
      <4> QED BY <1>0, <3>1, <4>1, UnderCalls DEF Close, MayCall, UnderKept
    <3>2. CASE Post(c)
      BY <1>0, <3>2, UnderCalls DEF UnderKept
    <3> QED BY <1>2, <3>1, <3>2
  <2>2. UNCHANGED <<topicVars, outboundQueue, wireVars, connected>>
    BY <1>0, <1>2 DEF Close, Post, wireVars
  <2> QED BY <1>1, <2>1, <2>2, TopicSame DEF UnderKept
<1>3. ASSUME NEW t \in Topics, Subscribe(c, t) PROVE TopicInv' /\ FeedStep
  <2>1. \A u \in Topics : UnsubscribeUnderWay(u)' <=> UnsubscribeUnderWay(u)
    <3>1. Handler("flushTopics", NoTopic).run # "unsubscribe"
      BY DEF Handler
    <3> QED BY <1>0, <1>3, <3>1, UnderCalls DEF Subscribe, MayCall
  <2>2. /\ ~UnsubscribeUnderWay(t) /\ subscriptions' = subscriptions /\ Wanted' = Wanted \cup {t}
        /\ pendingTopics' = IF t \in Wanted THEN pendingTopics ELSE pendingTopics \cup {t}
    BY <1>3 DEF Subscribe, AddTopic, Wanted
  <2>3. LeavingUnwanted' /\ ListsApart' /\ NothingWhenDown'
    BY <1>0, <2>1, <2>2
       DEF TopicInv, LeavingUnwanted, ListsApart, NothingWhenDown, Wanted
  <2>4. FedIsRecorded' /\ RecordedIsFed'
    BY <1>0, <1>1, <2>1, <2>2 DEF TopicInv, FedIsRecorded, RecordedIsFed
  <2>5. \A u \in Topics : OnItsWay(u)' <=> OnItsWay(u)
    BY <1>0, <2>1 DEF OnItsWay
  <2>6. {u \in Topics : OnItsWay(u)}' = {u \in Topics : OnItsWay(u)}
    BY <2>5
  <2>7. Feeding!Want(t)
    BY <1>0, <2>2, <2>6 DEF Feeding!Want
  <2> QED BY <1>1, <2>3, <2>4, <2>7 DEF TopicInv, FeedStep, Feeding!FeedNext
<1>4. ASSUME NEW t \in Topics, Unsubscribe(c, t) PROVE TopicInv' /\ FeedStep
  <2>1. /\ subscriptions' = subscriptions \ {t} /\ Wanted' = Wanted \ {t}
        /\ pendingTopics' = pendingTopics \ {t}
        /\ caller[c] = NoHandler /\ strand' = strand
        /\ caller' = IF t \in subscriptions
                     THEN [caller EXCEPT ![c] = Handler("unsubscribe", t)] ELSE caller
    BY <1>4 DEF Unsubscribe, MayCall, RemoveTopic, Wanted
  <2>2. \A u \in Topics :
          UnsubscribeUnderWay(u)' <=> UnsubscribeUnderWay(u) \/ (t \in subscriptions /\ u = t)
    <3>1. CASE t \in subscriptions
      BY <1>0, <2>1, <3>1, UnderCalls
    <3>2. CASE t \notin subscriptions
      BY <2>1, <3>2 DEF UnsubscribeUnderWay
    <3> QED BY <3>1, <3>2
  <2>3. LeavingUnwanted' /\ ListsApart' /\ NothingWhenDown'
    BY <1>0, <2>1, <2>2
       DEF TopicInv, LeavingUnwanted, ListsApart, NothingWhenDown, Wanted
  <2>4. FedIsRecorded' /\ RecordedIsFed'
    BY <1>0, <1>1, <2>1, <2>2 DEF TopicInv, FedIsRecorded, RecordedIsFed
  <2>5. \A u \in Topics : OnItsWay(u)' <=> OnItsWay(u) \/ (t \in subscriptions /\ u = t)
    BY <1>0, <2>2 DEF OnItsWay
  <2>6. t \in serverTopics => OnItsWay(t)'
    <3>1. CASE EndsFed(Mail, serverTopics, t)
      <4>1. t \in subscriptions \/ UnsubscribeUnderWay(t)
        BY <1>0, <3>1 DEF TopicInv, FedIsRecorded
      <4> QED BY <2>5, <4>1 DEF OnItsWay
    <3>2. CASE ~EndsFed(Mail, serverTopics, t)
      <4>1. t \in serverTopics => Carries(Mail, Unsub(t))
        BY <1>0, <3>2, LeavesByUnsub
      <4> QED BY <1>0, <2>5, <4>1, OnItsWayAll
    <3> QED BY <3>1, <3>2
  <2>7. {u \in Topics : OnItsWay(u)}' \in
          {{u \in Topics : OnItsWay(u)}, {u \in Topics : OnItsWay(u)} \cup {t}}
    <3>1. CASE t \in subscriptions
      <4>1. {u \in Topics : OnItsWay(u)}' = {u \in Topics : OnItsWay(u)} \cup {t}
        BY <2>5, <3>1
      <4> QED BY <4>1
    <3>2. CASE t \notin subscriptions
      <4>1. {u \in Topics : OnItsWay(u)}' = {u \in Topics : OnItsWay(u)}
        BY <2>5, <3>2
      <4> QED BY <4>1
    <3> QED BY <3>1, <3>2
  <2>8. t \in serverTopics => t \in {u \in Topics : OnItsWay(u)}'
    BY <2>6
  <2>9. Feeding!Drop(t)
    BY <1>0, <2>1, <2>7, <2>8 DEF Feeding!Drop
  <2> QED BY <1>1, <2>3, <2>4, <2>9 DEF TopicInv, FeedStep, Feeding!FeedNext
<1> QED
  BY <1>2, <1>3, <1>4 DEF Call

-----------------------------------------------------------------------------
(* The invariant, and what follows from it.                                *)

LEMMA TopicInit == Init => TopicState /\ Feeding!FeedInit
<1> SUFFICES ASSUME Init PROVE TopicState /\ Feeding!FeedInit
  OBVIOUS
<1>1. SessionInv /\ TypeOK
  BY SessionInit DEF SessionInv
<1>2. /\ strand = <<Handler("startConnect", NoTopic)>> /\ caller = [c \in Callers |-> NoHandler]
      /\ subscriptions = {} /\ pendingTopics = {} /\ serverTopics = {} /\ ~connected
      /\ wire = <<>> /\ outboundQueue = <<>>
  BY DEF Init
<1>3. \A t \in Topics : ~UnsubscribeUnderWay(t)
  <2>1. /\ DOMAIN strand = {1} /\ strand[1].run = "startConnect"
        /\ \A c \in Callers : caller[c].run = "none"
    BY <1>2 DEF Handler, NoHandler
  <2> QED BY <2>1 DEF UnsubscribeUnderWay, Handler
<1>4. Mail = <<>> /\ Len(Mail) = 0
  BY <1>1, <1>2, MailTyped, ConcatEmptySeq, EmptySeq DEF Mail
<1>5. \A t \in Topics :
        AskedOnce(Mail, serverTopics, t) /\ ~EndsFed(Mail, serverTopics, t) /\ ~Carries(Mail, Unsub(t))
  BY <1>2, <1>4 DEF AskedOnce, EndsFed, LastIs, Carries
<1>6. TopicInv
  BY <1>2, <1>3, <1>5
     DEF TopicInv, LeavingUnwanted, ListsApart, NothingWhenDown, DeadStreamCarriesNothing,
         AskedOnceEach, FedIsRecorded, RecordedIsFed
<1>7. {t \in Topics : OnItsWay(t)} = {}
  BY <1>1, <1>3, <1>5, OnItsWayAll
<1> QED
  BY <1>1, <1>2, <1>6, <1>7 DEF TopicState, Wanted, Feeding!FeedInit

LEMMA TopicStep ==
  ASSUME ~RacingResubscribe, TopicState, [Next]_vars
  PROVE  TopicState' /\ FeedStep
<1>1. SessionInv' /\ TypeOK'
  BY SessionStep DEF TopicState, SessionInv
<1>2. CASE UNCHANGED vars
  <2>1. UNCHANGED <<caller, strand, topicVars, outboundQueue, wireVars, connected, stream>>
    BY <1>2 DEF vars, sessionVars, clientVars, linkVars
  <2>2. UnderKept
    BY <2>1 DEF UnderKept, UnsubscribeUnderWay
  <2>3. DeadStreamCarriesNothing' /\ (connected /\ Carrying' => Carrying)
    BY <2>1 DEF TopicState, TopicInv, DeadStreamCarriesNothing, Carrying, wireVars
  <2> QED BY <1>1, <2>1, <2>2, <2>3, TopicSame DEF TopicState, UnderKept
<1> QED
  BY <1>1, <1>2, TopicCallers, TopicPosted, TopicCompletion, TopicEnvironment DEF TopicState, Next

\* The strengthened invariant of the topics: the messages on their way add up
\* to the topics recorded as sent.
THEOREM TopicInvariant ==
  ASSUME ~RacingResubscribe
  PROVE  Spec => []TopicState
<1>1. Init => TopicState
  BY TopicInit
<1>2. TopicState /\ [Next]_vars => TopicState'
  BY TopicStep
<1> QED
  BY <1>1, <1>2, PTL DEF Spec

\* What is recorded as sent reaches the venue, across flushes, unsubscribes and
\* reconnects ("queued until the connection is up", hyperliquid_ws_session.h:55).
THEOREM SubscriptionsReach ==
  ASSUME ~RacingResubscribe
  PROVE  Spec => []SubscriptionsReachVenue
<1>1. TopicState => SubscriptionsReachVenue
  <2> SUFFICES ASSUME TopicState, connected, stream = "open", NEW t \in subscriptions
               PROVE  Effective(t)
    BY DEF SubscriptionsReachVenue
  <2>1. t \in Topics /\ Mail \in Seq(Messages)
    BY MailTyped DEF TopicState, SessionInv, TypeOK
  <2>2. EndsFed(Mail, serverTopics, t)
    BY DEF TopicState, TopicInv, RecordedIsFed, Carrying
  <2> QED BY <2>1, <2>2, EffectiveIs DEF Mail
<1> QED
  BY <1>1, TopicInvariant, PTL

\* The next message for the venue subscribes no topic it feeds.
LEMMA HeadNotFed ==
  ASSUME TopicState, wire # <<>>, Head(wire).method = "subscribe"
  PROVE  Head(wire).topic \notin serverTopics
<1>1. /\ wire \in Seq(Messages) /\ outboundQueue \in Seq(Messages) /\ Head(wire) \in Messages
      /\ Mail \in Seq(Messages) /\ Head(wire) = wire[1] /\ Len(wire) \in Nat \ {0}
  BY MailTyped, HeadTailProperties, EmptySeq, LenProperties DEF TopicState, SessionInv
<1>2. 1 \in 1..Len(Mail) /\ Mail[1] = Head(wire)
  BY <1>1, ConcatProperties, LenProperties DEF Mail
<1>3. PICK t \in Topics : Head(wire) = Sub(t) /\ Head(wire).topic = t
  <2>1. Head(wire).topic \in Topics
    BY <1>1 DEF Messages
  <2> QED BY <1>1, <2>1, MessageFacts
<1>4. AskedOnce(Mail, serverTopics, t)
  BY DEF TopicState, TopicInv, AskedOnceEach
<1>5. t \in serverTopics => \E j \in 1..1 : Mail[j] = Unsub(t)
  BY <1>2, <1>3, <1>4 DEF AskedOnce
<1> QED
  BY <1>2, <1>3, <1>5, MessageFacts

\* The venue is never asked twice for a topic it feeds (addTopic deduplicates
\* against both lists, a replay goes to a new connection).
THEOREM NoDuplicate ==
  ASSUME ~RacingResubscribe
  PROVE  Spec => NoDuplicateSubscribe
<1>1. TopicState /\ [Next]_vars =>
        [wire # <<>> /\ wire' = Tail(wire) /\ Head(wire).method = "subscribe" /\ stream = "open"
           => Head(wire).topic \notin serverTopics]_vars
  BY HeadNotFed
<1> QED
  BY <1>1, TopicInvariant, PTL DEF Spec, NoDuplicateSubscribe

-----------------------------------------------------------------------------
(* The abstract specification.                                             *)

\* A topic that was unsubscribed (hyperliquid_ws_session.cpp:505) is not fed for
\* good: as long as the venue feeds it, it is wanted again or its unsubscribing
\* is on its way.
THEOREM NeverFedUnwanted == Feeding!FeedSpec => []Feeding!NoZombieFeed
<1>1. Feeding!FeedInit => Feeding!NoZombieFeed
  BY DEF Feeding!FeedInit, Feeding!NoZombieFeed
<1>2. Feeding!NoZombieFeed /\ [Feeding!FeedNext]_(Feeding!feedVars) => Feeding!NoZombieFeed'
  <2> DEFINE dropping == {t \in Topics : OnItsWay(t)}
  <2> SUFFICES ASSUME Feeding!NoZombieFeed, [Feeding!FeedNext]_(Feeding!feedVars)
               PROVE  serverTopics' \subseteq Wanted' \cup dropping'
    BY DEF Feeding!NoZombieFeed
  <2>0. serverTopics \subseteq Wanted \cup dropping
    BY DEF Feeding!NoZombieFeed
  <2> HIDE DEF dropping
  <2>1. ASSUME NEW t \in Topics, Feeding!Want(t)
        PROVE  serverTopics' \subseteq Wanted' \cup dropping'
    BY <2>0, <2>1 DEF Feeding!Want, dropping
  <2>2. ASSUME NEW t \in Topics, Feeding!Drop(t)
        PROVE  serverTopics' \subseteq Wanted' \cup dropping'
    <3>1. /\ serverTopics' = serverTopics /\ Wanted' = Wanted \ {t}
          /\ dropping' \in {dropping, dropping \cup {t}}
          /\ t \in serverTopics => t \in dropping'
      BY <2>2 DEF Feeding!Drop, dropping
    <3> QED BY <2>0, <3>1
  <2>3. ASSUME NEW t \in Topics, Feeding!Feed(t)
        PROVE  serverTopics' \subseteq Wanted' \cup dropping'
    BY <2>0, <2>3 DEF Feeding!Feed, dropping
  <2>4. ASSUME NEW t \in Topics, Feeding!Stop(t)
        PROVE  serverTopics' \subseteq Wanted' \cup dropping'
    <3>1. /\ serverTopics' = serverTopics \ {t} /\ Wanted' = Wanted
          /\ dropping' \in {dropping, dropping \ {t}}
      BY <2>4 DEF Feeding!Stop, dropping
    <3> QED BY <2>0, <3>1
  <2>5. CASE Feeding!Lose
    BY <2>5 DEF Feeding!Lose
  <2>6. CASE UNCHANGED Feeding!feedVars
    BY <2>0, <2>6 DEF Feeding!feedVars, dropping
  <2> QED
    BY <2>1, <2>2, <2>3, <2>4, <2>5, <2>6 DEF Feeding!FeedNext
<1> QED
  BY <1>1, <1>2, PTL DEF Feeding!FeedSpec

\* WsSession implements SubscriptionFeed: every handler, whatever it interleaves
\* with, edits what is wanted, feeds or stops one topic, loses a connection, or
\* is invisible.
THEOREM SessionFollowsFeed ==
  ASSUME ~RacingResubscribe
  PROVE  Spec => FollowsFeed
<1>1. Init => Feeding!FeedInit
  BY TopicInit
<1>2. TopicState /\ [Next]_vars => [Feeding!FeedNext]_(Feeding!feedVars)
  BY TopicStep DEF FeedStep
<1> QED
  BY <1>1, <1>2, TopicInvariant, PTL DEF Spec, FollowsFeed, Feeding!FeedSpec

\* So the venue feeds only what is wanted or is being unsubscribed.
THEOREM NeverFedForGood ==
  ASSUME ~RacingResubscribe
  PROVE  Spec => []Feeding!NoZombieFeed
BY SessionFollowsFeed, NeverFedUnwanted DEF FollowsFeed

=============================================================================
