----------------------------- MODULE WakuNodeProofs -----------------------------
(***************************************************************************)
(* Proofs about the nodes, for every number of subscribers, messages,      *)
(* peers and calls.  Each kind of node changes variables of its own, so    *)
(* each part has an invariant of its own.                                  *)
(***************************************************************************)
EXTENDS WakuNode, FiniteSetTheorems, TLAPS

(* Filter. *)

\* A subscription that is active has been made, and is that of one node and one
\* pubsub topic.
SubscriptionsMade ==
    \A n \in FilterNodes, t \in F!PubsubTopics :
        activeSubscriptions[n][t] # F!None =>
            monitorOf[activeSubscriptions[n][t]] # F!None

SubscriptionsApart ==
    \A n, k \in FilterNodes, t, u \in F!PubsubTopics :
        /\ activeSubscriptions[n][t] # F!None
        /\ activeSubscriptions[n][t] = activeSubscriptions[k][u]
        => n = k /\ t = u

\* A call that is not refused is one of a single pubsub topic of its node.
OneTopic(s) ==
    /\ F!pubsubTopic(s) \in ConfiguredOn[s.node]
    /\ \A d \in s.decoders : d.topic = F!pubsubTopic(s)

\* Once it has its subscription, that is the one its node uses for the topic.
CallsHold ==
    \A s \in Subscribers :
        /\ subscriber[s].at \notin {"new", "refused"} => OneTopic(s)
        /\ subscriber[s].at \in {"subscribing", "subscribed", "unsubscribing"} =>
             /\ subscriber[s].subscription # F!None
             /\ subscriber[s].subscription
                  = activeSubscriptions[s.node][F!pubsubTopic(s)]

\* What was given is noted by the monitor that will be asked.
GivenNoted ==
    \A n \in FilterNodes, m \in Incoming :
        /\ given[<<n, m>>] <= pushes[<<n, m>>] /\ given[<<n, m>>] <= 1
        /\ given[<<n, m>>] > 0 =>
             /\ activeSubscriptions[n][m.topic] # F!None
             /\ m \in receivedMessages[monitorOf[activeSubscriptions[n][m.topic]]]

FilterInv ==
    /\ F!FilterTypeOK
    /\ SubscriptionsMade /\ SubscriptionsApart
    /\ CallsHold /\ F!SubscriberIsReached
    /\ GivenNoted

-----------------------------------------------------------------------------
\* A set of numbers that is not empty has a least one.
LEMMA LeastNumber ==
    ASSUME NEW T \in SUBSET Nat, T # {}
    PROVE  \E x \in T : \A y \in T : x <= y
<1> DEFINE Below == {ss \in Nat \X Nat : ss[1] < ss[2]}
<1>1. IsWellFoundedOn(Below, Nat)
  BY NatLessThanWellFounded DEF OpToRel
<1>2. PICK x \in T : \A y \in T : ~(<<y, x>> \in Below)
  <2> HIDE DEF Below
  <2> QED
    BY <1>1, WFMin
<1>3. ASSUME NEW y \in T PROVE x <= y
  <2>1. x \in Nat /\ y \in Nat
    OBVIOUS
  <2>2. <<y, x>> \notin Below
    BY <1>2
  <2>3. ~(y < x)
    BY <2>1, <2>2
  <2> QED
    BY <2>1, <2>3
<1> QED
  BY <1>3

\* The instance of FilterSDK counts as this module does.
LEMMA SameCounting ==
    /\ \A A : F!IsFiniteSet(A) <=> IsFiniteSet(A)
    /\ \A A : F!Cardinality(A) = Cardinality(A)
<1>1. \A A : F!IsFiniteSet(A) <=> IsFiniteSet(A)
  BY DEF F!IsFiniteSet, IsFiniteSet
<1>2. \A A : F!Cardinality(A) = Cardinality(A)
  BY DEF F!Cardinality, Cardinality
<1> QED
  BY <1>1, <1>2

LEMMA SubscriptionNumbers ==
    F!Subscriptions \subseteq Nat /\ F!None \notin F!Subscriptions
BY DEF F!Subscriptions, F!None

LEMMA NextSubscriptionIsUnmade ==
    ASSUME F!Unmade # {}
    PROVE  F!NextSubscription \in F!Unmade /\ F!NextSubscription \in F!Subscriptions
           /\ monitorOf[F!NextSubscription] = F!None
<1>1. F!Unmade \subseteq Nat
  BY SubscriptionNumbers DEF F!Unmade
<1>2. \E x \in F!Unmade : \A y \in F!Unmade : x <= y
  BY <1>1, LeastNumber
<1>3. F!NextSubscription \in F!Unmade
  BY <1>2 DEF F!NextSubscription
<1> QED
  BY <1>3 DEF F!Unmade

LEMMA ContentTopicsOfCalls ==
    ASSUME NEW s \in Subscribers
    PROVE  F!contentTopics(s) \subseteq F!ContentTopics
BY DEF F!contentTopics, F!ContentTopics

\* A call whose decoders have one topic among them.
LEMMA CheckedTopic ==
    ASSUME NEW s \in Subscribers,
           Cardinality(F!getUniquePubsubTopics(s)) = 1,
           F!pubsubTopic(s) \in ConfiguredOn[s.node]
    PROVE  OneTopic(s)
<1> DEFINE f == [d \in s.decoders |-> d.topic]
           T == F!getUniquePubsubTopics(s)
<1>1. f \in Surjection(s.decoders, T)
  BY DEF Surjection, F!getUniquePubsubTopics
<1>2. IsFiniteSet(T)
  <2> HIDE DEF f, T
  <2>1. IsFiniteSet(s.decoders)
    BY WakuNodeAssumption, SameCounting DEF F!FilterAssumption
  <2> QED
    BY <1>1, <2>1, FS_Surjection
<1>3. PICK t : T = {t}
  BY <1>2, FS_Singleton
<1>4. F!pubsubTopic(s) \in T /\ \A d \in s.decoders : d.topic \in T
  BY <1>3 DEF F!pubsubTopic, F!getUniquePubsubTopics
<1> QED
  BY <1>3, <1>4 DEF OneTopic

LEMMA TopicsAreConfigured ==
    ASSUME NEW s \in Subscribers, OneTopic(s)
    PROVE  F!pubsubTopic(s) \in F!PubsubTopics /\ s.node \in FilterNodes
BY WakuNodeAssumption DEF OneTopic, F!PubsubTopics, F!FilterAssumption

\* A call only moves on: what has used a topic before still has.
LEMMA RivalsRemain ==
    ASSUME \A r \in Subscribers : subscriber[r].at # "new" => subscriber'[r].at # "new"
    PROVE  \A s \in Subscribers : F!Rivals(s)' = {} => F!Rivals(s) = {}
BY DEF F!Rivals

\* Two calls that are given the messages of one subscription, and of which one
\* is no rival of the other, have no content topic in common.
LEMMA TopicsApart ==
    ASSUME SubscriptionsApart, CallsHold,
           NEW s \in Subscribers, NEW r \in Subscribers \ {s},
           F!Rivals(s) = {}, subscriber[r].at # "new",
           OneTopic(s), OneTopic(r),
           activeSubscriptions[s.node][F!pubsubTopic(s)] # F!None,
           activeSubscriptions[s.node][F!pubsubTopic(s)] =
             activeSubscriptions[r.node][F!pubsubTopic(r)]
    PROVE  F!contentTopics(s) \cap F!contentTopics(r) = {}
<1>1. s.node = r.node /\ F!pubsubTopic(s) = F!pubsubTopic(r)
  BY TopicsAreConfigured DEF SubscriptionsApart
<1>2. r.decoders \cap s.decoders = {}
  BY <1>1 DEF F!Rivals
<1> SUFFICES ASSUME NEW d \in s.decoders, NEW e \in r.decoders,
                    d.contentTopic = e.contentTopic
             PROVE  FALSE
  BY DEF F!contentTopics
<1>3. d.topic = e.topic
  BY <1>1 DEF OneTopic
<1>4. /\ d = [topic |-> d.topic, contentTopic |-> d.contentTopic]
      /\ e = [topic |-> e.topic, contentTopic |-> e.contentTopic]
  BY WakuNodeAssumption DEF F!FilterAssumption
<1>5. d = e
  BY <1>3, <1>4
<1> QED
  BY <1>2, <1>5

\* A call goes from one stage to the next, and no other call does.
LEMMA CallMoves ==
    ASSUME F!FilterTypeOK, NEW s \in Subscribers, NEW stage \in F!Stages,
           F!Moves(s, stage)
    PROVE  /\ subscriber' \in [Subscribers -> [at : F!Stages,
                                    subscription : F!Subscriptions \cup {F!None}]]
           /\ \A r \in Subscribers \ {s} : subscriber'[r] = subscriber[r]
           /\ subscriber'[s].at = stage
           /\ subscriber'[s].subscription = subscriber[s].subscription
BY DEF F!FilterTypeOK, F!Moves

-----------------------------------------------------------------------------
(* Steps that change only how far a call is. *)

LEMMA StageKeeps ==
    ASSUME FilterInv, NEW s \in Subscribers, NEW stage \in F!Stages \ {"new"},
           F!Moves(s, stage),
           UNCHANGED <<activeSubscriptions, receiverMonitors, monitorOf,
                       subscriptionCallbacks, receivedMessages, pushes, given>>,
           stage \notin {"refused"} => OneTopic(s),
           stage \notin {"subscribing", "subscribed"},
           stage = "unsubscribing" => subscriber[s].at = "subscribed"
    PROVE  FilterInv'
<1>1. /\ subscriber' \in [Subscribers -> [at : F!Stages,
                                    subscription : F!Subscriptions \cup {F!None}]]
      /\ \A r \in Subscribers \ {s} : subscriber'[r] = subscriber[r]
      /\ subscriber'[s].at = stage
      /\ subscriber'[s].subscription = subscriber[s].subscription
  BY CallMoves DEF FilterInv
<1>2. F!FilterTypeOK'
  BY <1>1 DEF FilterInv, F!FilterTypeOK
<1>3. SubscriptionsMade' /\ SubscriptionsApart' /\ GivenNoted'
  BY DEF FilterInv, SubscriptionsMade, SubscriptionsApart, GivenNoted
<1>4. CallsHold'
  BY <1>1 DEF FilterInv, CallsHold, OneTopic
<1>5. F!SubscriberIsReached'
  <2>1. \A r \in Subscribers : subscriber'[r].at = "subscribed" =>
          subscriber[r].at = "subscribed"
    BY <1>1
  <2>2. \A r \in Subscribers : F!Rivals(r)' = {} => F!Rivals(r) = {}
    BY <1>1, RivalsRemain
  <2> QED
    BY <2>1, <2>2 DEF FilterInv, F!SubscriberIsReached
<1> QED
  BY <1>2, <1>3, <1>4, <1>5 DEF FilterInv

LEMMA SubscribeKeeps ==
    ASSUME FilterInv, NEW s \in Subscribers,
           F!Subscribe(s) \/ F!NoPeers(s) \/ F!Unsubscribe(s)
             \/ F!UnsubscribeReturns(s)
    PROVE  FilterInv'
<1>1. CASE F!Subscribe(s)
  <2> DEFINE stage == IF /\ Cardinality(F!getUniquePubsubTopics(s)) = 1
                         /\ F!pubsubTopic(s) \in ConfiguredOn[s.node]
                      THEN "asking" ELSE "refused"
  <2>1. F!Moves(s, stage) /\ stage \in {"asking", "refused"}
    BY <1>1, SameCounting DEF F!Subscribe, F!Moves
  <2>3. stage = "asking" => OneTopic(s)
    BY CheckedTopic
  <2>2. UNCHANGED <<activeSubscriptions, receiverMonitors, monitorOf,
                    subscriptionCallbacks, receivedMessages, pushes, given>>
    BY <1>1 DEF F!Subscribe
  <2> HIDE DEF stage
  <2> QED
    BY <2>1, <2>2, <2>3, StageKeeps DEF F!Stages
<1>2. CASE F!NoPeers(s)
  BY <1>2, StageKeeps DEF F!NoPeers, F!Stages
<1>3. CASE F!Unsubscribe(s)
  BY <1>3, StageKeeps DEF F!Unsubscribe, F!Stages, FilterInv, CallsHold
<1>4. CASE F!UnsubscribeReturns(s)
  BY <1>4, StageKeeps DEF F!UnsubscribeReturns, F!Stages, FilterInv, CallsHold
<1> QED
  BY <1>1, <1>2, <1>3, <1>4

-----------------------------------------------------------------------------
(* Steps that change what is subscribed. *)

LEMMA CreateSubscriptionKeeps ==
    ASSUME FilterInv, NEW s \in Subscribers, F!createSubscription(s)
    PROVE  FilterInv'
<1> DEFINE t == F!pubsubTopic(s)
           old == activeSubscriptions[s.node][t]
           x == F!NextSubscription
           monitor == F!createReceiverMonitor(t, x)
<1>1. /\ subscriber[s].at = "asking" /\ OneTopic(s)
      /\ t \in F!PubsubTopics /\ s.node \in FilterNodes
      /\ UNCHANGED <<subscriptionCallbacks, receivedMessages, pushes, given>>
  <2>1. subscriber[s].at = "asking" /\ OneTopic(s)
    BY DEF F!createSubscription, FilterInv, CallsHold
  <2> QED
    BY <2>1, TopicsAreConfigured DEF F!createSubscription
<1>2. PICK held \in F!Subscriptions :
        /\ subscriber' = [subscriber EXCEPT
                            ![s] = [at |-> "subscribing", subscription |-> held]]
        /\ activeSubscriptions' = [activeSubscriptions EXCEPT ![s.node][t] = held]
        /\ held # old =>
             /\ old = F!None /\ monitorOf[held] = F!None
             /\ monitorOf' = [monitorOf EXCEPT ![held] = monitor]
             /\ receiverMonitors' = [receiverMonitors EXCEPT ![t] = monitor]
             /\ monitor \in F!Subscriptions
        /\ held = old => UNCHANGED <<receiverMonitors, monitorOf>>
  <2>1. CASE old # F!None
    <3>1. old \in F!Subscriptions
      BY <1>1, <2>1 DEF FilterInv, F!FilterTypeOK
    <3>2. activeSubscriptions = [activeSubscriptions EXCEPT ![s.node][t] = old]
      BY <1>1 DEF FilterInv, F!FilterTypeOK
    <3> QED
      BY <2>1, <3>1, <3>2 DEF F!createSubscription, F!getActiveSubscription
  <2>2. CASE old = F!None
    <3>1. F!Unmade # {}
      BY <2>2 DEF F!createSubscription, F!getActiveSubscription
    <3>2. x \in F!Subscriptions /\ monitorOf[x] = F!None
      BY <3>1, NextSubscriptionIsUnmade
    <3>3. monitor \in F!Subscriptions
      BY <1>1, <3>2 DEF F!createReceiverMonitor, FilterInv, F!FilterTypeOK
    <3>4. x # old
      BY <2>2, <3>2, SubscriptionNumbers
    <3>5. /\ activeSubscriptions' = [activeSubscriptions EXCEPT ![s.node][t] = x]
          /\ receiverMonitors' = [receiverMonitors EXCEPT ![t] = monitor]
          /\ monitorOf' = [monitorOf EXCEPT ![x] = monitor]
          /\ subscriber' = [subscriber EXCEPT
                              ![s] = [at |-> "subscribing", subscription |-> x]]
      BY <2>2 DEF F!createSubscription, F!getActiveSubscription
    <3> HIDE DEF x, monitor, old, t
    <3> QED
      BY <2>2, <3>2, <3>3, <3>4, <3>5
  <2> QED
    BY <2>1, <2>2
<1>14. /\ old = activeSubscriptions[s.node][t]
       /\ activeSubscriptions \in
            [FilterNodes -> [F!PubsubTopics -> F!Subscriptions \cup {F!None}]]
       /\ receiverMonitors \in [F!PubsubTopics -> F!Subscriptions \cup {F!None}]
       /\ monitorOf \in [F!Subscriptions -> F!Subscriptions \cup {F!None}]
       /\ subscriber \in [Subscribers -> [at : F!Stages,
                                    subscription : F!Subscriptions \cup {F!None}]]
  BY DEF FilterInv, F!FilterTypeOK
<1> HIDE DEF x, monitor, old, t
<1>3. /\ activeSubscriptions' \in
           [FilterNodes -> [F!PubsubTopics -> F!Subscriptions \cup {F!None}]]
      /\ \A n \in FilterNodes, u \in F!PubsubTopics : activeSubscriptions'[n][u] =
           IF n = s.node /\ u = t THEN held ELSE activeSubscriptions[n][u]
  <2>1. activeSubscriptions' = [activeSubscriptions EXCEPT ![s.node] =
                                  [activeSubscriptions[s.node] EXCEPT ![t] = held]]
    BY <1>2
  <2> QED
    BY <1>1, <1>14, <2>1
<1>4. held # F!None
  BY SubscriptionNumbers
<1>5. /\ subscriber' \in [Subscribers -> [at : F!Stages,
                                    subscription : F!Subscriptions \cup {F!None}]]
      /\ \A r \in Subscribers \ {s} : subscriber'[r] = subscriber[r]
      /\ subscriber'[s].at = "subscribing" /\ subscriber'[s].subscription = held
  <2>1. [at |-> "subscribing", subscription |-> held] \in
          [at : F!Stages, subscription : F!Subscriptions \cup {F!None}]
    BY DEF F!Stages
  <2> QED
    BY <1>2, <1>14, <2>1
<1>6. /\ monitorOf' \in [F!Subscriptions -> F!Subscriptions \cup {F!None}]
      /\ receiverMonitors' \in [F!PubsubTopics -> F!Subscriptions \cup {F!None}]
      /\ \A y \in F!Subscriptions : monitorOf[y] # F!None => monitorOf'[y] = monitorOf[y]
      /\ monitorOf'[held] # F!None
  <2>1. CASE held = old
    <3>1. monitorOf[old] # F!None
      BY <1>1, <1>4, <1>14, <2>1 DEF FilterInv, SubscriptionsMade
    <3> QED
      BY <1>2, <1>14, <2>1, <3>1
  <2>2. CASE held # old
    <3>1. monitor # F!None
      BY <1>2, <2>2, SubscriptionNumbers
    <3> QED
      BY <1>1, <1>2, <1>14, <2>2, <3>1
  <2> QED
    BY <2>1, <2>2
<1>7. F!FilterTypeOK'
  BY <1>1, <1>3, <1>5, <1>6 DEF FilterInv, F!FilterTypeOK
\* What was active stays so, with the monitor it had.
<1>8. \A n \in FilterNodes, u \in F!PubsubTopics :
        activeSubscriptions[n][u] # F!None =>
          /\ activeSubscriptions'[n][u] = activeSubscriptions[n][u]
          /\ monitorOf[activeSubscriptions[n][u]] # F!None
          /\ monitorOf'[activeSubscriptions[n][u]] = monitorOf[activeSubscriptions[n][u]]
  <2>1. ASSUME NEW n \in FilterNodes, NEW u \in F!PubsubTopics,
               activeSubscriptions[n][u] # F!None
        PROVE  /\ activeSubscriptions'[n][u] = activeSubscriptions[n][u]
               /\ activeSubscriptions[n][u] \in F!Subscriptions
               /\ monitorOf[activeSubscriptions[n][u]] # F!None
    BY <1>2, <1>3, <1>14, <2>1 DEF FilterInv, SubscriptionsMade
  <2> QED
    BY <1>6, <2>1
<1>9. SubscriptionsMade'
  BY <1>3, <1>6, <1>8 DEF SubscriptionsMade
<1>10. SubscriptionsApart'
  <2>1. held = old \/ \A n \in FilterNodes, u \in F!PubsubTopics :
                        activeSubscriptions[n][u] # held
    BY <1>2, <1>4, <1>8, <1>14
  <2>2. ASSUME NEW n \in FilterNodes, NEW u \in F!PubsubTopics,
               NEW k \in FilterNodes, NEW v \in F!PubsubTopics,
               activeSubscriptions'[n][u] # F!None,
               activeSubscriptions'[n][u] = activeSubscriptions'[k][v]
        PROVE  n = k /\ u = v
    <3>1. CASE held = old
      BY <1>3, <1>14, <2>2, <3>1 DEF FilterInv, SubscriptionsApart
    <3>2. CASE \A m \in FilterNodes, w \in F!PubsubTopics :
                 activeSubscriptions[m][w] # held
      BY <1>3, <2>2, <3>2 DEF FilterInv, SubscriptionsApart
    <3> QED
      BY <2>1, <3>1, <3>2
  <2> QED
    BY <2>2 DEF SubscriptionsApart
<1>11. CallsHold'
  <2>1. ASSUME NEW r \in Subscribers \ {s},
               subscriber[r].at \in {"subscribing", "subscribed", "unsubscribing"}
        PROVE  activeSubscriptions'[r.node][F!pubsubTopic(r)]
                 = activeSubscriptions[r.node][F!pubsubTopic(r)]
    <3>1. OneTopic(r) /\ subscriber[r].subscription # F!None
          /\ subscriber[r].subscription = activeSubscriptions[r.node][F!pubsubTopic(r)]
      BY <2>1 DEF FilterInv, CallsHold
    <3>2. F!pubsubTopic(r) \in F!PubsubTopics /\ r.node \in FilterNodes
      BY <3>1, TopicsAreConfigured
    <3> QED
      BY <1>8, <3>1, <3>2
  <2>2. \A r \in Subscribers : OneTopic(r)' <=> OneTopic(r)
    BY DEF OneTopic
  <2>3. ASSUME NEW r \in Subscribers
        PROVE  /\ subscriber'[r].at \notin {"new", "refused"} => OneTopic(r)
               /\ subscriber'[r].at \in {"subscribing", "subscribed", "unsubscribing"} =>
                    /\ subscriber'[r].subscription # F!None
                    /\ subscriber'[r].subscription
                         = activeSubscriptions'[r.node][F!pubsubTopic(r)]
    <3>1. CASE r = s
      BY <1>1, <1>3, <1>4, <1>5, <3>1 DEF t
    <3>2. CASE r # s
      BY <1>5, <2>1, <3>2 DEF FilterInv, CallsHold
    <3> QED
      BY <3>1, <3>2
  <2> QED
    BY <2>2, <2>3 DEF CallsHold
<1>12. F!SubscriberIsReached'
  <2> SUFFICES ASSUME NEW r \in Subscribers, subscriber'[r].at = "subscribed",
                      F!Rivals(r)' = {}
               PROVE  F!contentTopics(r) \X {r} \subseteq
                        subscriptionCallbacks'[activeSubscriptions'[r.node][F!pubsubTopic(r)]]
    BY DEF F!SubscriberIsReached
  <2>1. subscriber[r].at = "subscribed" /\ r # s
    BY <1>5
  <2>2. F!Rivals(r) = {}
    BY <1>1, <1>5, RivalsRemain
  <2>3. OneTopic(r) /\ subscriber[r].subscription # F!None
        /\ subscriber[r].subscription = activeSubscriptions[r.node][F!pubsubTopic(r)]
    BY <2>1 DEF FilterInv, CallsHold
  <2>4. F!pubsubTopic(r) \in F!PubsubTopics /\ r.node \in FilterNodes
    BY <2>3, TopicsAreConfigured
  <2>5. activeSubscriptions'[r.node][F!pubsubTopic(r)]
          = activeSubscriptions[r.node][F!pubsubTopic(r)]
    BY <1>8, <2>3, <2>4
  <2> QED
    BY <1>1, <2>1, <2>2, <2>5 DEF FilterInv, F!SubscriberIsReached
<1>13. GivenNoted'
  <2> SUFFICES ASSUME NEW n \in FilterNodes, NEW m \in Incoming
               PROVE  /\ given[<<n, m>>] <= pushes[<<n, m>>] /\ given[<<n, m>>] <= 1
                      /\ given[<<n, m>>] > 0 =>
                           /\ activeSubscriptions'[n][m.topic] # F!None
                           /\ m \in receivedMessages[monitorOf'[activeSubscriptions'[n][m.topic]]]
    BY <1>1 DEF GivenNoted
  <2>1. m.topic \in F!PubsubTopics
    BY WakuNodeAssumption DEF F!FilterAssumption
  <2> QED
    BY <1>8, <2>1 DEF FilterInv, GivenNoted
<1> QED
  BY <1>7, <1>9, <1>10, <1>11, <1>12, <1>13 DEF FilterInv

LEMMA SubscribeReturnsKeeps ==
    ASSUME FilterInv, NEW s \in Subscribers, F!SubscribeReturns(s)
    PROVE  FilterInv'
<1> DEFINE x == subscriber[s].subscription
<1>1. /\ subscriber[s].at = "subscribing"
      /\ F!Moves(s, "subscribed")
      /\ subscriptionCallbacks' =
           [subscriptionCallbacks EXCEPT
              ![x] = F!Without(x, F!contentTopics(s)) \cup F!contentTopics(s) \X {s}]
      /\ UNCHANGED <<activeSubscriptions, receiverMonitors, monitorOf,
                     receivedMessages, pushes, given>>
  BY DEF F!SubscribeReturns
<1>2. /\ OneTopic(s) /\ x # F!None
      /\ x = activeSubscriptions[s.node][F!pubsubTopic(s)]
      /\ x \in F!Subscriptions
  BY <1>1 DEF FilterInv, CallsHold, F!FilterTypeOK
<1>3. /\ subscriber' \in [Subscribers -> [at : F!Stages,
                                    subscription : F!Subscriptions \cup {F!None}]]
      /\ \A r \in Subscribers \ {s} : subscriber'[r] = subscriber[r]
      /\ subscriber'[s].at = "subscribed"
      /\ subscriber'[s].subscription = x
  BY <1>1, CallMoves DEF FilterInv, F!Stages
<1>4. /\ subscriptionCallbacks' \in
           [F!Subscriptions -> SUBSET (F!ContentTopics \X Subscribers)]
      /\ \A y \in F!Subscriptions \ {x} :
           subscriptionCallbacks'[y] = subscriptionCallbacks[y]
      /\ subscriptionCallbacks'[x] =
           F!Without(x, F!contentTopics(s)) \cup F!contentTopics(s) \X {s}
  <2>1. subscriptionCallbacks \in
          [F!Subscriptions -> SUBSET (F!ContentTopics \X Subscribers)]
    BY DEF FilterInv, F!FilterTypeOK
  <2>2. F!Without(x, F!contentTopics(s)) \cup F!contentTopics(s) \X {s}
          \subseteq F!ContentTopics \X Subscribers
    BY <1>2, <2>1, ContentTopicsOfCalls DEF F!Without
  <2> HIDE DEF x
  <2> QED
    BY <1>1, <1>2, <2>1, <2>2
<1> HIDE DEF x
<1>5. F!FilterTypeOK'
  BY <1>1, <1>3, <1>4 DEF FilterInv, F!FilterTypeOK
<1>6. SubscriptionsMade' /\ SubscriptionsApart' /\ GivenNoted'
  BY <1>1 DEF FilterInv, SubscriptionsMade, SubscriptionsApart, GivenNoted
<1>7. CallsHold'
  BY <1>1, <1>2, <1>3 DEF FilterInv, CallsHold, OneTopic
<1>8. F!SubscriberIsReached'
  <2> SUFFICES ASSUME NEW r \in Subscribers, subscriber'[r].at = "subscribed",
                      F!Rivals(r)' = {}
               PROVE  F!contentTopics(r) \X {r} \subseteq
                        subscriptionCallbacks'[activeSubscriptions[r.node][F!pubsubTopic(r)]]
    BY <1>1 DEF F!SubscriberIsReached
  <2> DEFINE y == activeSubscriptions[r.node][F!pubsubTopic(r)]
  <2>1. CASE r = s
    BY <1>2, <1>4, <2>1
  <2>2. CASE r # s
    <3>1. /\ subscriber[r].at = "subscribed" /\ F!Rivals(r) = {}
          /\ OneTopic(r) /\ y # F!None
      BY <1>1, <1>3, <2>2, RivalsRemain DEF FilterInv, CallsHold
    <3>2. y \in F!Subscriptions
      BY <3>1 DEF FilterInv, F!FilterTypeOK, CallsHold
    <3>3. F!contentTopics(r) \X {r} \subseteq subscriptionCallbacks[y]
      BY <3>1 DEF FilterInv, F!SubscriberIsReached
    <3>4. CASE y # x
      BY <1>4, <3>2, <3>3, <3>4
    <3>5. CASE y = x
      <4>1. F!contentTopics(r) \cap F!contentTopics(s) = {}
        BY <1>1, <1>2, <2>2, <3>1, <3>5, TopicsApart DEF FilterInv
      <4>2. F!contentTopics(r) \X {r} \subseteq F!Without(x, F!contentTopics(s))
        BY <3>3, <3>5, <4>1 DEF F!Without
      <4> QED
        BY <1>4, <3>5, <4>2
    <3> QED
      BY <3>4, <3>5
  <2> QED
    BY <2>1, <2>2
<1> QED
  BY <1>5, <1>6, <1>7, <1>8 DEF FilterInv

\* An answer to unsubscribe takes the callbacks of the call's own topics.
LEMMA UnsubscribeAnswerKeeps ==
    ASSUME FilterInv, NEW s \in Subscribers, F!UnsubscribeAnswer(s)
    PROVE  FilterInv'
<1> DEFINE x == subscriber[s].subscription
<1>1. /\ subscriber[s].at = "unsubscribing"
      /\ subscriptionCallbacks' =
           [subscriptionCallbacks EXCEPT ![x] = F!Without(x, F!contentTopics(s))]
      /\ UNCHANGED <<activeSubscriptions, receiverMonitors, monitorOf,
                     receivedMessages, subscriber, pushes, given>>
  BY DEF F!UnsubscribeAnswer, F!UnsubscribedTopics
<1>2. /\ OneTopic(s) /\ x # F!None
      /\ x = activeSubscriptions[s.node][F!pubsubTopic(s)]
      /\ x \in F!Subscriptions
  BY <1>1 DEF FilterInv, CallsHold, F!FilterTypeOK
<1>3. /\ subscriptionCallbacks' \in
           [F!Subscriptions -> SUBSET (F!ContentTopics \X Subscribers)]
      /\ \A y \in F!Subscriptions \ {x} :
           subscriptionCallbacks'[y] = subscriptionCallbacks[y]
      /\ subscriptionCallbacks'[x] = F!Without(x, F!contentTopics(s))
  <2>1. subscriptionCallbacks \in
          [F!Subscriptions -> SUBSET (F!ContentTopics \X Subscribers)]
    BY DEF FilterInv, F!FilterTypeOK
  <2>2. F!Without(x, F!contentTopics(s)) \subseteq F!ContentTopics \X Subscribers
    BY <1>2, <2>1 DEF F!Without
  <2> HIDE DEF x
  <2> QED
    BY <1>1, <1>2, <2>1, <2>2
<1> HIDE DEF x
<1>4. F!FilterTypeOK'
  BY <1>1, <1>3 DEF FilterInv, F!FilterTypeOK
<1>5. SubscriptionsMade' /\ SubscriptionsApart' /\ GivenNoted'
  BY <1>1 DEF FilterInv, SubscriptionsMade, SubscriptionsApart, GivenNoted
<1>6. CallsHold'
  BY <1>1 DEF FilterInv, CallsHold, OneTopic
<1>7. F!SubscriberIsReached'
  <2> SUFFICES ASSUME NEW r \in Subscribers, subscriber[r].at = "subscribed",
                      F!Rivals(r) = {}
               PROVE  F!contentTopics(r) \X {r} \subseteq
                        subscriptionCallbacks'[activeSubscriptions[r.node][F!pubsubTopic(r)]]
    BY <1>1 DEF F!SubscriberIsReached, F!Rivals
  <2> DEFINE y == activeSubscriptions[r.node][F!pubsubTopic(r)]
  <2>1. OneTopic(r) /\ y # F!None /\ r # s
    BY <1>1 DEF FilterInv, CallsHold
  <2>2. y \in F!Subscriptions
    BY <2>1 DEF FilterInv, F!FilterTypeOK, CallsHold
  <2>3. F!contentTopics(r) \X {r} \subseteq subscriptionCallbacks[y]
    BY DEF FilterInv, F!SubscriberIsReached
  <2>4. CASE y # x
    BY <1>3, <2>2, <2>3, <2>4
  <2>5. CASE y = x
    <3>1. F!contentTopics(r) \cap F!contentTopics(s) = {}
      BY <1>1, <1>2, <2>1, <2>5, TopicsApart DEF FilterInv
    <3>2. F!contentTopics(r) \X {r} \subseteq F!Without(x, F!contentTopics(s))
      BY <2>3, <2>5, <3>1 DEF F!Without
    <3> QED
      BY <1>3, <2>5, <3>2
  <2> QED
    BY <2>4, <2>5
<1> QED
  BY <1>4, <1>5, <1>6, <1>7 DEF FilterInv

\* A push notes what it gives.
LEMMA PushKeeps ==
    ASSUME FilterInv, NEW n \in FilterNodes, NEW m \in Incoming, F!Push(n, m)
    PROVE  FilterInv'
<1> DEFINE x == activeSubscriptions[n][m.topic]
           y == monitorOf[x]
           g == given[<<n, m>>]
<1>1. /\ x # F!None /\ pushes[<<n, m>>] < MaxPushes
      /\ pushes' = [pushes EXCEPT ![<<n, m>>] = @ + 1]
      /\ receivedMessages' = [receivedMessages EXCEPT ![y] = @ \cup {m}]
      /\ \/ given' = given
         \/ /\ given' = [given EXCEPT ![<<n, m>>] = @ + 1]
            /\ m \notin receivedMessages[y]
      /\ UNCHANGED <<activeSubscriptions, receiverMonitors, monitorOf,
                     subscriptionCallbacks, subscriber>>
  BY DEF F!Push, F!Noted
<1>2. m.topic \in F!PubsubTopics /\ MaxPushes \in Nat
  BY WakuNodeAssumption DEF F!FilterAssumption
<1>3. x \in F!Subscriptions /\ y \in F!Subscriptions /\ y # F!None
  BY <1>1, <1>2 DEF FilterInv, F!FilterTypeOK, SubscriptionsMade
<1>4. /\ pushes \in [FilterNodes \X Incoming -> 0 .. MaxPushes]
      /\ given \in [FilterNodes \X Incoming -> 0 .. MaxPushes]
      /\ receivedMessages \in [F!Subscriptions -> SUBSET Incoming]
      /\ <<n, m>> \in FilterNodes \X Incoming
  BY DEF FilterInv, F!FilterTypeOK
<1>5. g <= pushes[<<n, m>>] /\ (m \notin receivedMessages[y] => g = 0)
  BY <1>4 DEF FilterInv, GivenNoted
<1> HIDE DEF x, y, g
<1>6. /\ pushes' \in [FilterNodes \X Incoming -> 0 .. MaxPushes]
      /\ pushes'[<<n, m>>] = pushes[<<n, m>>] + 1
      /\ \A k \in FilterNodes, l \in Incoming :
           <<k, l>> # <<n, m>> => pushes'[<<k, l>>] = pushes[<<k, l>>]
  BY <1>1, <1>2, <1>4
<1>7. /\ receivedMessages' \in [F!Subscriptions -> SUBSET Incoming]
      /\ m \in receivedMessages'[y]
      /\ \A z \in F!Subscriptions : receivedMessages[z] \subseteq receivedMessages'[z]
  BY <1>1, <1>3, <1>4
<1>8. /\ given' \in [FilterNodes \X Incoming -> 0 .. MaxPushes]
      /\ given'[<<n, m>>] <= pushes'[<<n, m>>] /\ given'[<<n, m>>] <= 1
      /\ \A k \in FilterNodes, l \in Incoming :
           <<k, l>> # <<n, m>> => given'[<<k, l>>] = given[<<k, l>>]
  <2>1. CASE given' = given
    <3>1. given[<<n, m>>] <= 1 /\ given[<<n, m>>] <= pushes[<<n, m>>]
      BY DEF FilterInv, GivenNoted
    <3> QED
      BY <1>4, <1>6, <2>1, <3>1
  <2>2. CASE given' = [given EXCEPT ![<<n, m>>] = @ + 1] /\ m \notin receivedMessages[y]
    BY <1>1, <1>2, <1>4, <1>5, <1>6, <2>2 DEF g
  <2> QED
    BY <1>1, <2>1, <2>2
<1>9. F!FilterTypeOK'
  BY <1>1, <1>6, <1>7, <1>8 DEF FilterInv, F!FilterTypeOK
<1>10. SubscriptionsMade' /\ SubscriptionsApart'
  BY <1>1 DEF FilterInv, SubscriptionsMade, SubscriptionsApart
<1>11. CallsHold' /\ F!SubscriberIsReached'
  BY <1>1 DEF FilterInv, CallsHold, OneTopic, F!SubscriberIsReached, F!Rivals
<1>12. GivenNoted'
  <2> SUFFICES ASSUME NEW k \in FilterNodes, NEW l \in Incoming
               PROVE  /\ given'[<<k, l>>] <= pushes'[<<k, l>>]
                      /\ given'[<<k, l>>] <= 1
                      /\ given'[<<k, l>>] > 0 =>
                           /\ activeSubscriptions[k][l.topic] # F!None
                           /\ l \in receivedMessages'[monitorOf[activeSubscriptions[k][l.topic]]]
    BY <1>1 DEF GivenNoted
  <2>1. CASE <<k, l>> = <<n, m>>
    BY <1>1, <1>3, <1>7, <1>8, <2>1 DEF x, y
  <2>2. CASE <<k, l>> # <<n, m>>
    <3>1. /\ given[<<k, l>>] <= pushes[<<k, l>>] /\ given[<<k, l>>] <= 1
          /\ given[<<k, l>>] > 0 =>
               /\ activeSubscriptions[k][l.topic] # F!None
               /\ l \in receivedMessages[monitorOf[activeSubscriptions[k][l.topic]]]
      BY DEF FilterInv, GivenNoted
    <3>2. l.topic \in F!PubsubTopics
      BY WakuNodeAssumption DEF F!FilterAssumption
    <3>3. activeSubscriptions[k][l.topic] # F!None =>
            monitorOf[activeSubscriptions[k][l.topic]] \in F!Subscriptions
      BY <3>2 DEF FilterInv, F!FilterTypeOK, SubscriptionsMade
    <3> QED
      BY <1>6, <1>7, <1>8, <2>2, <3>1, <3>3
  <2> QED
    BY <2>1, <2>2
<1> QED
  BY <1>9, <1>10, <1>11, <1>12 DEF FilterInv

\* The registry is emptied, and what subscriptions hold stays.
LEMMA StopAllKeeps ==
    ASSUME FilterInv, F!stopAll
    PROVE  FilterInv'
<1>1. /\ receiverMonitors' \in [F!PubsubTopics -> F!Subscriptions \cup {F!None}]
      /\ UNCHANGED <<activeSubscriptions, monitorOf, subscriptionCallbacks,
                     receivedMessages, subscriber, pushes, given>>
  BY DEF F!stopAll
<1> QED
  BY <1>1 DEF FilterInv, F!FilterTypeOK, SubscriptionsMade, SubscriptionsApart,
              CallsHold, OneTopic, GivenNoted, F!SubscriberIsReached, F!Rivals

LEMMA FilterUnchanged ==
    ASSUME FilterInv, UNCHANGED filterVars
    PROVE  FilterInv'
BY DEF filterVars, FilterInv, F!FilterTypeOK, SubscriptionsMade, SubscriptionsApart,
       CallsHold, OneTopic, GivenNoted, F!SubscriberIsReached, F!Rivals

LEMMA FilterStepKeeps == FilterInv /\ [Next]_vars => FilterInv'
<1> SUFFICES ASSUME FilterInv, [Next]_vars PROVE FilterInv'
  OBVIOUS
<1>1. F!FilterStep \/ UNCHANGED filterVars
  BY DEF Next, vars, RelayStarts, RelayMesh, RelayProcesses, RelayIterates, RelayIsUsed,
         StartRelayNode, StopRelayNode, RelayNodeWaits, RelayNodeFindsPeers,
         RelayNodeTimeout, LightPass, LightTimeout, LightStep, StartLightNode,
         StopLightNode, HistoryChanges, QueryGoesOn, LightNodeQueries, FilterIsUsed,
         OfRelay, OfLight, OfQuery
<1>2. CASE F!FilterStep
  BY <1>2, SubscribeKeeps, CreateSubscriptionKeeps, SubscribeReturnsKeeps,
     UnsubscribeAnswerKeeps, PushKeeps, StopAllKeeps
     DEF F!FilterStep, F!SubscriberStep
<1>3. CASE UNCHANGED filterVars
  BY <1>3, FilterUnchanged
<1> QED
  BY <1>1, <1>2, <1>3

LEMMA FilterInitHolds == Init => FilterInv
<1> SUFFICES ASSUME F!FilterInit PROVE FilterInv
  BY DEF Init
<1>1. F!FilterTypeOK
  <2>1. MaxPushes \in Nat
    BY WakuNodeAssumption DEF F!FilterAssumption
  <2> QED
    BY <2>1 DEF F!FilterInit, F!FilterTypeOK, F!Stages
<1>2. SubscriptionsMade /\ SubscriptionsApart
  BY DEF F!FilterInit, SubscriptionsMade, SubscriptionsApart
<1>3. CallsHold /\ F!SubscriberIsReached
  BY DEF F!FilterInit, CallsHold, F!SubscriberIsReached
<1>4. GivenNoted
  BY DEF F!FilterInit, GivenNoted
<1> QED
  BY <1>1, <1>2, <1>3, <1>4 DEF FilterInv

\* A call of subscribe that has returned is the one its node gives the messages
\* of its topics to, and a message that several service nodes push is given
\* once, for any number of nodes, calls and pushes.
THEOREM FilterDeliversAlways == Spec => []FilterDelivers
<1>1. FilterInv => FilterDelivers
  <2> SUFFICES ASSUME FilterInv PROVE F!GivenOnce
    BY DEF FilterInv, FilterDelivers, SubscriberIsReached, GivenOnce
  <2> QED
    BY DEF FilterInv, GivenNoted, F!GivenOnce
<1>2. Spec => []FilterInv
  BY FilterInitHolds, FilterStepKeeps, PTL DEF Spec
<1> QED
  BY <1>1, <1>2, PTL

-----------------------------------------------------------------------------
(* The waits. *)

PassType == [at : {"off", "get", "handshake", "over"}, left : Seq(Peers),
             confirmed : SUBSET wanted]

\* While the pass is not over it has a peer before it, and its only handshake is
\* with that peer; the other handshakes are those of protocols waited for.
HandshakesExact ==
    /\ pass \in PassType
    /\ pass.at \in {"get", "handshake"} => pass.left # <<>>
    /\ \A q \in queries :
         IF q.by = W!Pass THEN pass.at = "handshake" /\ q.peer = Head(pass.left)
                          ELSE q.by \in wanted

\* Before a wait of a light node, and in other nodes, nothing is waited for.
NothingWaitedFor ==
    kind # "light" \/ wait \in {"idle", "threw"} =>
        /\ wanted = {} /\ listening = {} /\ fulfilled = {}
        /\ pass.at = "off" /\ queries = {}

\* The loop over the topics of a relay node ends with a topic that has a peer.
MeshWaitEnds ==
    /\ meshWait.at = "done" => seen # {} \/ Topics = <<>>
    /\ kind = "mesh" /\ wait = "resolved" => meshWait.at = "done"

WaitInv ==
    /\ W!MetadataTypeOK /\ W!WaitTypeOK
    /\ HandshakesExact /\ NothingWaitedFor /\ AnsweredWaitEnds
    /\ MeshWaitEnds

-----------------------------------------------------------------------------
(* The end of a wait. *)

\* W's module counts as this one does.
LEMMA OrderOfPeers ==
    ASSUME NEW c \in SUBSET Peers, NEW order \in W!SetToSeqs(c)
    PROVE  order \in Seq(Peers) /\ (c # {} => order # <<>>)
<1>1. W!Cardinality(c) = Cardinality(c)
  BY DEF W!Cardinality, Cardinality
<1>2. IsFiniteSet(Peers)
  <2>1. \A A : W!IsFiniteSet(A) <=> IsFiniteSet(A)
    BY DEF W!IsFiniteSet, IsFiniteSet
  <2> QED
    BY <2>1, WakuNodeAssumption DEF W!WaitAssumption
<1>3. /\ IsFiniteSet(c) /\ Cardinality(c) \in Nat
      /\ Cardinality(c) = 0 <=> c = {}
  BY <1>2, FS_Subset, FS_CardinalityType, FS_EmptySet
<1>4. order \in [1 .. Cardinality(c) -> c]
  BY <1>1 DEF W!SetToSeqs
<1>5. order \in Seq(c) /\ Len(order) = Cardinality(c)
  BY <1>3, <1>4
<1> QED
  BY <1>3, <1>5

\* A change of the promises and the pass ends the wait when it has to.
LEMMA EndedWait ==
    ASSUME NEW promises, NEW metadata, W!Ends(promises, metadata), AnsweredWaitEnds,
           UNCHANGED <<kind, wanted>>, fulfilled' = promises, pass' = metadata,
           promises \subseteq wanted,
           kind = "light"
    PROVE  /\ AnsweredWaitEnds'
           /\ wait' = wait \/ (wait = "waiting" /\ wait' = "resolved")
BY DEF W!Ends, W!Settled, AnsweredWaitEnds, W!AnsweredWaitEnds

\* The pass goes on behind the peer that it has dealt with.
LEMMA PassGoesOn ==
    ASSUME pass \in PassType, pass.left # <<>>,
           NEW confirmed \in SUBSET wanted, UNCHANGED wanted,
           pass' = W!Passes(Tail(pass.left), confirmed)
    PROVE  /\ (pass \in PassType)'
           /\ pass'.at \in {"get", "over"}
           /\ pass'.at = "get" => pass'.left # <<>>
<1>1. Tail(pass.left) \in Seq(Peers)
  BY DEF PassType
<1> QED
  BY <1>1 DEF W!Passes, PassType

LightInv ==
    W!MetadataTypeOK /\ W!WaitTypeOK /\ HandshakesExact /\ NothingWaitedFor
    /\ AnsweredWaitEnds

(* libp2p and the timer. *)

LEMMA ConnectionsKeep ==
    ASSUME LightInv, kind = "light",
           UNCHANGED <<kind, wait, timed, wanted, listening, fulfilled, pass, served,
                       handshakesConfirmed, storedShards, queries>>,
           status' \in {"stopped", "started"},
           connected' \subseteq Peers, identifying' \subseteq connected'
    PROVE  LightInv'
BY DEF LightInv, W!MetadataTypeOK, W!WaitTypeOK, HandshakesExact, PassType,
       NothingWaitedFor, AnsweredWaitEnds, W!AnsweredWaitEnds, W!Queries

LEMMA TimeoutKeeps ==
    ASSUME LightInv, kind = "light", kind' = kind, W!Timeout
    PROVE  LightInv'
BY DEF W!Timeout, W!metadataVars, LightInv, W!MetadataTypeOK, W!WaitTypeOK,
       HandshakesExact, PassType, NothingWaitedFor, AnsweredWaitEnds,
       W!AnsweredWaitEnds, W!Queries

LEMMA WaitBegins ==
    ASSUME LightInv, kind = "light", kind' = kind,
           NEW protocols \in Requests, NEW withTimeout \in BOOLEAN,
           W!waitForRemotePeer(protocols, withTimeout)
    PROVE  LightInv'
<1>1. /\ wait = "idle"
      /\ UNCHANGED <<status, connected, identifying, fulfilled, served,
                     handshakesConfirmed, storedShards, queries>>
      /\ wanted = {} /\ listening = {} /\ fulfilled = {} /\ pass.at = "off"
      /\ queries = {}
  BY DEF W!waitForRemotePeer, W!metadataVars, LightInv, NothingWaitedFor
<1>2. W!MetadataTypeOK'
  BY <1>1 DEF LightInv, W!MetadataTypeOK, W!Queries
<1>3. CASE status = "stopped"
  <2>1. wait' = "threw" /\ UNCHANGED <<timed, wanted, listening, pass>>
    BY <1>3 DEF W!waitForRemotePeer
  <2> QED
    BY <1>1, <1>2, <2>1
       DEF LightInv, W!WaitTypeOK, HandshakesExact, PassType, NothingWaitedFor,
           AnsweredWaitEnds, W!AnsweredWaitEnds
<1>4. CASE status # "stopped"
  <2>1. /\ wait' = "waiting" /\ timed' = withTimeout
        /\ wanted' = IF protocols = {} THEN Protocols ELSE protocols
        /\ listening' = wanted'
    BY <1>4 DEF W!waitForRemotePeer
  <2>2. PICK order \in W!SetToSeqs(connected) :
          pass' = IF connected = {} THEN W!NoPass
                  ELSE [W!NoPass EXCEPT !.at = "get", !.left = order]
    BY <1>4 DEF W!waitForRemotePeer
  <2>3. wanted' \subseteq Protocols /\ wanted' # {}
    BY <2>1, WakuNodeAssumption DEF W!WaitAssumption
  <2>4. order \in Seq(Peers) /\ (connected # {} => order # <<>>)
    BY OrderOfPeers DEF LightInv, W!WaitTypeOK
  <2>5. /\ (pass \in PassType)' /\ pass'.at \in {"off", "get"}
        /\ pass'.at = "get" => pass'.left # <<>>
    <3>1. CASE connected = {}
      BY <2>2, <3>1 DEF W!NoPass, PassType
    <3>2. CASE connected # {}
      BY <2>2, <2>4, <3>2 DEF W!NoPass, PassType
    <3> QED
      BY <3>1, <3>2
  <2>6. W!WaitTypeOK'
    BY <1>1, <2>1, <2>3, <2>5 DEF LightInv, W!WaitTypeOK, PassType
  <2>7. HandshakesExact'
    BY <1>1, <2>5 DEF HandshakesExact
  <2>8. NothingWaitedFor' /\ AnsweredWaitEnds'
    BY <1>1, <2>1, <2>3, <2>5
       DEF NothingWaitedFor, AnsweredWaitEnds, W!AnsweredWaitEnds
  <2> QED
    BY <1>2, <2>6, <2>7, <2>8 DEF LightInv
<1> QED
  BY <1>3, <1>4

\* An identify event.
LEMMA IdentifyKeeps ==
    ASSUME LightInv, kind = "light", kind' = kind, NEW p \in Peers, W!Identify(p)
    PROVE  LightInv'
<1> DEFINE codecs == W!Concerned(p)
<1>1. /\ codecs \subseteq listening /\ codecs \subseteq wanted
      /\ codecs \subseteq Protocols /\ wanted \subseteq Protocols
  BY DEF W!Concerned, LightInv, W!WaitTypeOK
<1>2. /\ identifying' = identifying \ {p}
      /\ UNCHANGED <<status, connected, timed, wanted, pass, handshakesConfirmed,
                     storedShards>>
      /\ W!Ends(fulfilled', pass)
      /\ \/ /\ fulfilled' = fulfilled \cup codecs /\ listening' = listening \ codecs
            /\ served' = served \cup codecs /\ queries' = queries
         \/ /\ queries' = queries \cup {W!Asked(c, p) : c \in codecs}
            /\ UNCHANGED <<fulfilled, listening, served>>
  BY DEF W!Identify, W!Resolves
<1>3. wait' = wait \/ (wait = "waiting" /\ wait' = "resolved")
  BY <1>1, <1>2, EndedWait DEF LightInv, W!WaitTypeOK
<1>4. AnsweredWaitEnds'
  BY <1>1, <1>2, EndedWait DEF LightInv, W!WaitTypeOK
<1> HIDE DEF codecs
<1>5. \A q \in queries' : q \in queries \/ \E c \in codecs : q = W!Asked(c, p)
  BY <1>2
<1>6. \A c \in codecs : /\ W!Asked(c, p) \in W!Queries
                        /\ W!Asked(c, p).by = c /\ c # W!Pass /\ c \in wanted
  BY <1>1, WakuNodeAssumption DEF W!Asked, W!Queries, W!WaitAssumption
<1>7. W!MetadataTypeOK'
  BY <1>2, <1>5, <1>6 DEF LightInv, W!MetadataTypeOK, W!Queries
<1>8. W!WaitTypeOK'
  BY <1>1, <1>2, <1>3 DEF LightInv, W!WaitTypeOK
<1>9. HandshakesExact'
  <2>1. (pass \in PassType)'
    BY <1>2 DEF LightInv, HandshakesExact, PassType
  <2> QED
    BY <1>2, <1>5, <1>6, <2>1 DEF LightInv, HandshakesExact
<1>10. NothingWaitedFor'
  BY <1>1, <1>2, <1>3 DEF LightInv, NothingWaitedFor
<1> QED
  BY <1>4, <1>7, <1>8, <1>9, <1>10 DEF LightInv

LEMMA PeerAsksKeeps ==
    ASSUME LightInv, kind = "light", kind' = kind, NEW p \in Peers,
           NEW shards \in Shards, W!PeerAsks(p, shards)
    PROVE  LightInv'
<1>1. /\ UNCHANGED <<status, connected, identifying, wait, timed, wanted, listening,
                     fulfilled, pass, served, queries>>
      /\ W!savePeerShardInfo(p, shards)
  BY DEF W!PeerAsks, W!onRequest, W!waitVars
<1>2. W!MetadataTypeOK'
  BY <1>1 DEF W!savePeerShardInfo, LightInv, W!MetadataTypeOK, W!Queries
<1> QED
  BY <1>1, <1>2 DEF LightInv, W!WaitTypeOK, HandshakesExact, PassType,
     NothingWaitedFor, AnsweredWaitEnds, W!AnsweredWaitEnds

\* The pass looks at its next peer.
LEMMA PassGetsKeeps ==
    ASSUME LightInv, kind = "light", kind' = kind, W!PassGets
    PROVE  LightInv'
<1> DEFINE p == Head(pass.left)
<1>1. /\ pass.at = "get" /\ pass.left # <<>> /\ pass \in PassType
      /\ UNCHANGED <<status, connected, identifying, timed, wanted, listening,
                     fulfilled, handshakesConfirmed, storedShards>>
      /\ W!Ends(fulfilled, pass')
      /\ fulfilled \subseteq wanted /\ wanted \subseteq Protocols
  BY DEF W!PassGets, LightInv, HandshakesExact, W!WaitTypeOK
<1>2. p \in Peers /\ Serves[p] \subseteq Protocols
  BY <1>1, WakuNodeAssumption DEF PassType, W!WaitAssumption
<1>3. \A q \in queries : q.by # W!Pass /\ q.by \in wanted
  BY <1>1 DEF LightInv, HandshakesExact
<1>4. /\ wait' = wait \/ (wait = "waiting" /\ wait' = "resolved")
      /\ AnsweredWaitEnds'
  BY <1>1, EndedWait DEF LightInv
<1>5. \/ /\ pass' = [pass EXCEPT !.at = "handshake"]
         /\ queries' = queries \cup {W!Asked(W!Pass, p)}
         /\ served' = served
      \/ /\ \E confirmed \in SUBSET wanted :
              pass' = W!Passes(Tail(pass.left), confirmed)
         /\ served' \in {served, served \cup Serves[p]}
         /\ queries' = queries
  <2>1. pass.confirmed \subseteq wanted
    BY <1>1 DEF PassType
  <2>2. pass.confirmed \cup (Serves[p] \cap wanted) \in SUBSET wanted
    BY <2>1
  <2> QED
    BY <2>1, <2>2 DEF W!PassGets
<1>6. /\ (pass \in PassType)'
      /\ pass'.at \in {"get", "handshake"} => pass'.left # <<>>
      /\ queries' # queries => pass'.at = "handshake" /\ Head(pass'.left) = p
      /\ queries' \subseteq queries \cup {W!Asked(W!Pass, p)}
  <2>1. CASE /\ pass' = [pass EXCEPT !.at = "handshake"]
             /\ queries' = queries \cup {W!Asked(W!Pass, p)}
    <3>1. /\ pass'.at = "handshake" /\ pass'.left = pass.left
          /\ pass'.confirmed = pass.confirmed /\ pass' \in PassType
      BY <1>1, <2>1 DEF PassType
    <3> QED
      BY <1>1, <2>1, <3>1 DEF PassType
  <2>2. CASE /\ \E confirmed \in SUBSET wanted :
                  pass' = W!Passes(Tail(pass.left), confirmed)
             /\ queries' = queries
    <3>1. PICK confirmed \in SUBSET wanted :
            pass' = W!Passes(Tail(pass.left), confirmed)
      BY <2>2
    <3>2. /\ (pass \in PassType)' /\ pass'.at \in {"get", "over"}
          /\ pass'.at = "get" => pass'.left # <<>>
      BY <1>1, <3>1, PassGoesOn
    <3> QED
      BY <2>2, <3>2
  <2> QED
    BY <1>5, <2>1, <2>2
<1>7. W!Asked(W!Pass, p) \in W!Queries /\ W!Asked(W!Pass, p).by = W!Pass
      /\ W!Asked(W!Pass, p).peer = p
  BY <1>2, WakuNodeAssumption DEF W!Asked, W!Queries, W!WaitAssumption
<1>8. served' \subseteq Protocols
  BY <1>2, <1>5 DEF LightInv, W!WaitTypeOK
<1> HIDE DEF p
<1>9. W!MetadataTypeOK'
  BY <1>1, <1>6, <1>7 DEF LightInv, W!MetadataTypeOK, W!Queries
<1>10. W!WaitTypeOK'
  BY <1>1, <1>4, <1>6, <1>8 DEF LightInv, W!WaitTypeOK, PassType
<1>11. HandshakesExact'
  BY <1>1, <1>3, <1>6, <1>7 DEF HandshakesExact
<1>12. NothingWaitedFor'
  BY <1>1, <1>4 DEF LightInv, NothingWaitedFor
<1> QED
  BY <1>4, <1>9, <1>10, <1>11, <1>12 DEF LightInv

\* A handshake has its outcome.
LEMMA HandshakeKeeps ==
    ASSUME LightInv, kind = "light", kind' = kind, NEW q \in queries,
           W!HandshakeEnds(q)
    PROVE  LightInv'
<1>1. PICK ok \in BOOLEAN :
        /\ W!Told(q, ok)
        /\ queries' = queries \ {q}
        /\ W!Ends(fulfilled', pass')
        /\ \/ q.by \in Protocols /\ W!Resolves({q.by})
           \/ UNCHANGED <<fulfilled, listening>>
        /\ \/ UNCHANGED <<handshakesConfirmed, storedShards>>
           \/ \E shards \in Shards : W!savePeerShardInfo(q.peer, shards)
  <2>1. CASE \E shards \in Shards : W!HandshakeDone(q, shards)
    BY <2>1 DEF W!HandshakeDone, W!Answered
  <2>2. CASE \E returned \in BOOLEAN : W!HandshakeFails(q, returned)
    BY <2>2 DEF W!HandshakeFails, W!Fail
  <2> QED
    BY <2>1, <2>2 DEF W!HandshakeEnds
<1>2. /\ q \in W!Queries /\ q.peer \in Peers /\ queries \subseteq W!Queries
      /\ Serves[q.peer] \subseteq Protocols
      /\ pass \in PassType
      /\ q.by = W!Pass => pass.at = "handshake" /\ pass.left # <<>>
      /\ q.by # W!Pass => q.by \in wanted
  BY WakuNodeAssumption
     DEF LightInv, W!MetadataTypeOK, W!Queries, HandshakesExact, W!WaitAssumption
<1>3. W!MetadataTypeOK'
  <2>1. CASE UNCHANGED <<handshakesConfirmed, storedShards>>
    BY <1>1, <1>2, <2>1 DEF LightInv, W!MetadataTypeOK, W!Queries
  <2>2. CASE \E shards \in Shards : W!savePeerShardInfo(q.peer, shards)
    BY <1>1, <1>2, <2>2
       DEF LightInv, W!MetadataTypeOK, W!Queries, W!savePeerShardInfo
  <2> QED
    BY <1>1, <2>1, <2>2
<1>4. /\ UNCHANGED <<status, connected, identifying, timed, wanted>>
      /\ served' \subseteq Protocols
  BY <1>1, <1>2 DEF W!Told, LightInv, W!WaitTypeOK
<1>5. fulfilled' \subseteq wanted /\ listening' \subseteq wanted
  <2>1. q.by \in Protocols => q.by \in wanted
    BY <1>2, WakuNodeAssumption DEF W!WaitAssumption
  <2> QED
    BY <1>1, <2>1 DEF W!Resolves, LightInv, W!WaitTypeOK
<1>6. /\ (pass \in PassType)'
      /\ q.by # W!Pass => pass' = pass
      /\ q.by = W!Pass => /\ pass'.at \in {"get", "over"}
                          /\ pass'.at = "get" => pass'.left # <<>>
  <2>1. CASE q.by # W!Pass
    BY <1>1, <1>2, <1>4, <2>1 DEF W!Told, PassType
  <2>2. CASE q.by = W!Pass
    <3> DEFINE confirmed == pass.confirmed \cup
                              IF ok THEN Serves[q.peer] \cap wanted ELSE {}
    <3>1. pass' = W!Passes(Tail(pass.left), confirmed)
      BY <1>1, <2>2 DEF W!Told
    <3>2. confirmed \in SUBSET wanted
      BY <1>2 DEF PassType
    <3> HIDE DEF confirmed
    <3> QED
      BY <1>2, <1>4, <2>2, <3>1, <3>2, PassGoesOn
  <2> QED
    BY <2>1, <2>2
<1>7. /\ wait' = wait \/ (wait = "waiting" /\ wait' = "resolved")
      /\ AnsweredWaitEnds'
  BY <1>1, <1>4, <1>5, EndedWait DEF LightInv
<1>8. W!WaitTypeOK'
  BY <1>4, <1>5, <1>6, <1>7 DEF LightInv, W!WaitTypeOK, PassType
<1>9. HandshakesExact'
  <2>1. pass'.at \in {"get", "handshake"} => pass'.left # <<>>
    BY <1>6 DEF LightInv, HandshakesExact
  <2>2. ASSUME NEW r \in queries'
        PROVE  IF r.by = W!Pass
               THEN pass'.at = "handshake" /\ r.peer = Head(pass'.left)
               ELSE r.by \in wanted'
    <3>1. /\ r \in queries /\ r # q /\ r \in W!Queries
          /\ IF r.by = W!Pass THEN pass.at = "handshake" /\ r.peer = Head(pass.left)
                              ELSE r.by \in wanted
      BY <1>1, <1>2 DEF LightInv, HandshakesExact
    <3>2. ~(r.by = W!Pass /\ q.by = W!Pass)
      <4>1. q.by = W!Pass => q.peer = Head(pass.left)
        BY DEF LightInv, HandshakesExact
      <4> QED
        BY <1>2, <3>1, <4>1 DEF W!Queries
    <3> QED
      BY <1>4, <1>6, <3>1, <3>2
  <2> QED
    BY <1>6, <2>1, <2>2 DEF HandshakesExact
<1>10. NothingWaitedFor'
  BY <1>7 DEF LightInv, NothingWaitedFor
<1> QED
  BY <1>3, <1>7, <1>8, <1>9, <1>10 DEF LightInv

-----------------------------------------------------------------------------
(* A step of any node. *)

LEMMA LightStepKeeps ==
    ASSUME LightInv, kind = "light", kind' = kind,
           W!PassStep \/ W!WaitNext \/ W!Timeout \/ W!Start \/ W!Stop
    PROVE  LightInv'
<1>1. CASE W!PassStep
  BY <1>1, PassGetsKeeps, HandshakeKeeps DEF W!PassStep
<1>2. CASE W!Timeout
  BY <1>2, TimeoutKeeps
<1>3. CASE W!Start \/ W!Stop
  BY <1>3, ConnectionsKeep
     DEF W!Start, W!Stop, W!metadataVars, LightInv, W!WaitTypeOK
<1>4. CASE W!WaitNext
  <2>1. ASSUME NEW p \in Peers, W!Connect(p) \/ W!Disconnect(p) PROVE LightInv'
    BY <2>1, ConnectionsKeep
       DEF W!Connect, W!Disconnect, W!metadataVars, LightInv, W!WaitTypeOK
  <2>2. ASSUME NEW p \in Peers, W!Identify(p) PROVE LightInv'
    BY <2>2, IdentifyKeeps
  <2>3. ASSUME NEW p \in Peers, NEW shards \in Shards, W!PeerAsks(p, shards)
        PROVE  LightInv'
    BY <2>3, PeerAsksKeeps
  <2>4. ASSUME NEW protocols \in Requests, NEW withTimeout \in BOOLEAN,
               W!waitForRemotePeer(protocols, withTimeout)
        PROVE  LightInv'
    BY <2>4, WaitBegins
  <2>5. ASSUME NEW q \in queries, W!HandshakeEnds(q) PROVE LightInv'
    BY <2>5, HandshakeKeeps
  <2> QED
    BY <1>4, <2>1, <2>2, <2>3, <2>4, <2>5 DEF W!WaitNext
<1> QED
  BY <1>1, <1>2, <1>3, <1>4

\* The wait of a relay node leaves the handshakes of a light node alone.
LEMMA OtherStepKeeps ==
    ASSUME LightInv, UNCHANGED <<kind, lightVars>>, timed' \in BOOLEAN,
           wait' \in {"idle", "waiting", "resolved", "rejected", "threw"},
           kind = "light" => UNCHANGED <<wait, timed>>
    PROVE  LightInv'
<1>1. UNCHANGED <<handshakesConfirmed, storedShards, queries, status, connected,
                  identifying, wanted, listening, fulfilled, pass, served>>
  BY DEF lightVars
<1> QED
  BY <1>1 DEF LightInv, W!MetadataTypeOK, W!WaitTypeOK, HandshakesExact, PassType,
     NothingWaitedFor, AnsweredWaitEnds, W!AnsweredWaitEnds, W!Queries

\* A heartbeat ends the loop only with a mesh peer.
LEMMA MeshWaitKeeps ==
    ASSUME MeshWaitEnds, kind' = kind,
           R!Heartbeat \/ R!waitForPeers \/ UNCHANGED <<meshWait, seen>>,
           kind = "mesh" /\ wait' = "resolved" /\ wait # "resolved" =>
             meshWait.at = "done" /\ UNCHANGED <<meshWait, seen>>
    PROVE  MeshWaitEnds'
<1>1. meshWait.at = "done" => meshWait' = meshWait /\ seen' = seen
  BY DEF R!Heartbeat, R!waitForPeers
<1>2. meshWait'.at = "done" => seen' # {} \/ Topics = <<>>
  <2>1. CASE R!Heartbeat
    <3>1. CASE R!HasMeshPeers(Head(meshWait.left))
      <4>1. Head(meshWait.left) \in mesh
        BY <3>1 DEF R!HasMeshPeers
      <4>2. Head(meshWait.left) \in seen'
        BY <2>1, <3>1, <4>1 DEF R!Heartbeat
      <4> QED
        BY <4>2
    <3>2. CASE ~R!HasMeshPeers(Head(meshWait.left))
      BY <2>1, <3>2 DEF R!Heartbeat
    <3> QED
      BY <3>1, <3>2
  <2>2. CASE R!waitForPeers
    BY <2>2 DEF R!waitForPeers
  <2>3. CASE UNCHANGED <<meshWait, seen>>
    BY <2>3 DEF MeshWaitEnds
  <2> QED
    BY <2>1, <2>2, <2>3
<1>3. kind = "mesh" /\ wait' = "resolved" => meshWait'.at = "done"
  BY <1>1 DEF MeshWaitEnds
<1> QED
  BY <1>2, <1>3 DEF MeshWaitEnds

LEMMA WaitStepKeeps == WaitInv /\ [Next]_vars => WaitInv'
<1> SUFFICES ASSUME WaitInv, [Next]_vars PROVE WaitInv'
  OBVIOUS
<1>1. LightInv
  BY DEF WaitInv, LightInv
<1>2. SUFFICES LightInv' /\ MeshWaitEnds'
  BY DEF WaitInv, LightInv
<1>3. CASE LightPass \/ LightStep \/ LightTimeout \/ StartLightNode \/ StopLightNode
  <2>1. kind = "light" /\ kind' = kind /\ UNCHANGED <<meshWait, seen>>
    BY <1>3 DEF LightPass, LightStep, LightTimeout, StartLightNode, StopLightNode,
                OfLight, relayVars
  <2>2. LightInv'
    BY <1>1, <1>3, <2>1, LightStepKeeps
       DEF LightPass, LightStep, LightTimeout, StartLightNode, StopLightNode
  <2>3. MeshWaitEnds'
    BY <2>1 DEF WaitInv, MeshWaitEnds
  <2> QED
    BY <2>2, <2>3
<1>4. CASE \/ \E withTimeout \in BOOLEAN : RelayNodeWaits(withTimeout)
           \/ RelayNodeFindsPeers \/ RelayNodeTimeout
  <2>1. /\ kind = "mesh" /\ UNCHANGED <<kind, lightVars>>
        /\ timed' \in BOOLEAN
        /\ wait' \in {"waiting", "resolved", "rejected", "threw"}
        /\ wait' = "resolved" => meshWait.at = "done" /\ UNCHANGED <<meshWait, seen>>
        /\ R!waitForPeers \/ UNCHANGED <<meshWait, seen>>
    BY <1>4, <1>1 DEF RelayNodeWaits, RelayNodeFindsPeers, RelayNodeTimeout,
                      relayVars, LightInv, W!WaitTypeOK
  <2>2. LightInv'
    BY <1>1, <2>1, OtherStepKeeps
  <2>3. MeshWaitEnds'
    BY <2>1, MeshWaitKeeps DEF WaitInv
  <2> QED
    BY <2>2, <2>3
<1>5. CASE \/ RelayStarts \/ RelayMesh \/ RelayProcesses \/ RelayIterates
           \/ RelayIsUsed \/ StartRelayNode \/ StopRelayNode
  <2>1. UNCHANGED <<kind, lightVars, wait, timed>>
    BY <1>5 DEF RelayStarts, RelayMesh, RelayProcesses, RelayIterates, RelayIsUsed,
                StartRelayNode, StopRelayNode, OfRelay
  <2>2. R!Heartbeat \/ UNCHANGED <<meshWait, seen>>
    BY <1>5 DEF RelayStarts, RelayMesh, RelayProcesses, RelayIterates, RelayIsUsed,
                StartRelayNode, StopRelayNode, R!StartStep, R!MeshStep,
                R!ProcessStep, R!IteratorStep, R!MessageStep, R!start,
                R!subscribeToAllTopics, R!MeshChanges, R!processIncomingMessage,
                R!Decoded, R!AskNext, R!Turn, R!IteratorAction, R!TimePasses,
                R!subscribeWithUnsubscribe, R!removeObservers, R!Receive,
                R!StartGossip, R!StopGossip
  <2>3. LightInv'
    BY <1>1, <2>1, OtherStepKeeps DEF LightInv, W!WaitTypeOK
  <2>4. MeshWaitEnds'
    BY <2>1, <2>2, MeshWaitKeeps DEF WaitInv
  <2> QED
    BY <2>3, <2>4
<1>6. CASE \/ HistoryChanges \/ QueryGoesOn
           \/ \E mode \in Modes, forward \in BOOLEAN,
                 cursor \in {S!NoMessage} \cup S!Numbers :
                LightNodeQueries(mode, forward, cursor)
           \/ FilterIsUsed
           \/ UNCHANGED vars
  <2>1. UNCHANGED <<kind, lightVars, wait, timed, meshWait, seen>>
    BY <1>6 DEF HistoryChanges, QueryGoesOn, LightNodeQueries, FilterIsUsed,
                OfQuery, relayVars, vars
  <2>2. LightInv'
    BY <1>1, <2>1, OtherStepKeeps DEF LightInv, W!WaitTypeOK
  <2>3. MeshWaitEnds'
    BY <2>1, MeshWaitKeeps DEF WaitInv
  <2> QED
    BY <2>2, <2>3
<1> QED
  BY <1>3, <1>4, <1>5, <1>6 DEF Next

LEMMA WaitInitHolds == Init => WaitInv
<1> SUFFICES ASSUME W!MetadataInit, W!WaitInit, R!Init PROVE WaitInv
  BY DEF Init
<1>1. W!MetadataTypeOK
  BY DEF W!MetadataInit, W!MetadataTypeOK
<1>2. W!WaitTypeOK
  <2>1. pass.at = "off" /\ pass.left \in Seq(Peers) /\ pass.confirmed = {}
    BY DEF W!WaitInit, W!NoPass
  <2> QED
    BY <2>1 DEF W!WaitInit, W!WaitTypeOK
<1>3. HandshakesExact
  BY DEF W!MetadataInit, W!WaitInit, W!NoPass, HandshakesExact, PassType
<1>4. NothingWaitedFor /\ AnsweredWaitEnds
  BY DEF W!MetadataInit, W!WaitInit, W!NoPass, NothingWaitedFor,
         AnsweredWaitEnds, W!AnsweredWaitEnds
<1>5. MeshWaitEnds
  BY DEF W!WaitInit, R!Init, R!NotWaiting, MeshWaitEnds
<1> QED
  BY <1>1, <1>2, <1>3, <1>4, <1>5 DEF WaitInv

\* A wait for peers is over as soon as what it waits for is there or nothing is
\* left to try, and a relay node's wait has then seen a mesh peer: for any peers,
\* protocols and topics, in whatever order handshakes end.
THEOREM WaitsAlwaysAnswered == Spec => []WaitsAnswered
<1>1. WaitInv => WaitsAnswered
  BY DEF WaitInv, WaitsAnswered, MeshWaitEnds, RelayWaitMeansPeer
<1>2. Spec => []WaitInv
  BY WaitInitHolds, WaitStepKeeps, PTL DEF Spec
<1> QED
  BY <1>1, <1>2, PTL

-----------------------------------------------------------------------------
(* Relay. *)

IteratorType ==
    [at : {"off", "idle", "check", "wait", "over"}, subscribed : BOOLEAN,
     late : BOOLEAN, messages : Seq(Messages), yielded : Seq(Messages),
     returned : Seq(Messages)]
MeshWaitType ==
    [at : {"off", "waiting", "done"}, left : Seq(R!topicSet), peers : BOOLEAN]

RelayTypes ==
    R!RelayTypeOK /\ iterator \in IteratorType /\ meshWait \in MeshWaitType

\* The listeners there are and those to come are within the bound, and a node
\* that is subscribed has one.
RoundsCounted ==
    /\ starting + rounds <= MaxRounds
    /\ subscribed => rounds > 0

\* An observer is registered while its call is active, and what is due to one
\* was registered before.
ObserversActive ==
    /\ \A o \in observers : calls[o.call] = "active"
    /\ \A m \in Messages, o \in Observers :
         <<m, o>> \in due => calls[o.call] # "new" /\ R!Wants(o, m)

\* A message goes through the listeners, and from each to the observers.
CountsExact ==
    \A m \in Messages :
        /\ reading[m] > 0 => m.payload # R!Empty
        /\ reading[m] <= rounds
        /\ m \notin arrived => reading[m] = 0
        /\ \A o \in Observers :
             /\ decoding[<<m, o>>] + received[<<m, o>>] + reading[m] <= rounds
             /\ decoding[<<m, o>>] + received[<<m, o>>] > 0 =>
                  m \in arrived /\ R!Wants(o, m) /\ m.payload # R!Empty

RelayInv ==
    RelayTypes /\ RoundsCounted /\ ObserversActive /\ CountsExact
    /\ R!ObserversAreServed

-----------------------------------------------------------------------------
LEMMA RoundsAreNumbers == MaxRounds \in Nat /\ MaxRounds > 0
BY WakuNodeAssumption DEF R!RelayAssumption

LEMMA RelayCounts ==
    ASSUME RelayInv
    PROVE  /\ rounds \in Nat /\ rounds <= MaxRounds /\ MaxRounds \in Nat
           /\ reading \in [Messages -> 0 .. MaxRounds]
           /\ decoding \in [Messages \X Observers -> 0 .. MaxRounds]
           /\ received \in [Messages \X Observers -> 0 .. MaxRounds]
           /\ \A m \in Messages : reading[m] \in Nat
           /\ \A m \in Messages, o \in Observers :
                decoding[<<m, o>>] \in Nat /\ received[<<m, o>>] \in Nat
<1>1. /\ rounds \in Nat /\ rounds <= MaxRounds /\ MaxRounds \in Nat
      /\ reading \in [Messages -> 0 .. MaxRounds]
      /\ decoding \in [Messages \X Observers -> 0 .. MaxRounds]
      /\ received \in [Messages \X Observers -> 0 .. MaxRounds]
  BY RoundsAreNumbers DEF RelayInv, RelayTypes, R!RelayTypeOK, R!Counts
<1> QED
  BY <1>1

\* Another listener, or a relay that stops, changes nothing of the messages.
LEMMA MessagesStay ==
    ASSUME RelayInv, RelayTypes',
           UNCHANGED <<calls, observers, arrived, reading, decoding, received, due>>,
           rounds <= rounds'
    PROVE  ObserversActive' /\ CountsExact' /\ R!ObserversAreServed'
<1>1. ObserversActive'
  BY DEF RelayInv, ObserversActive, R!Wants
<1>2. CountsExact'
  <2>1. rounds' \in Nat /\ rounds \in Nat
    BY RelayCounts, RoundsAreNumbers DEF RelayTypes, R!RelayTypeOK
  <2>2. ASSUME NEW m \in Messages
        PROVE  /\ reading[m] > 0 => m.payload # R!Empty
               /\ reading[m] <= rounds'
               /\ m \notin arrived => reading[m] = 0
    <3>1. /\ reading[m] > 0 => m.payload # R!Empty
          /\ reading[m] <= rounds
          /\ m \notin arrived => reading[m] = 0
      BY DEF RelayInv, CountsExact
    <3>2. reading[m] \in Nat
      BY RelayCounts
    <3> QED
      BY <2>1, <3>1, <3>2
  <2>3. ASSUME NEW m \in Messages, NEW o \in Observers
        PROVE  /\ decoding[<<m, o>>] + received[<<m, o>>] + reading[m] <= rounds'
               /\ decoding[<<m, o>>] + received[<<m, o>>] > 0 =>
                    m \in arrived /\ R!Wants(o, m) /\ m.payload # R!Empty
    <3>1. /\ decoding[<<m, o>>] + received[<<m, o>>] + reading[m] <= rounds
          /\ decoding[<<m, o>>] + received[<<m, o>>] > 0 =>
               m \in arrived /\ R!Wants(o, m) /\ m.payload # R!Empty
      BY DEF RelayInv, CountsExact
    <3>2. /\ reading[m] \in Nat /\ decoding[<<m, o>>] \in Nat
          /\ received[<<m, o>>] \in Nat
      BY RelayCounts
    <3> QED
      BY <2>1, <3>1, <3>2
  <2> QED
    BY <2>2, <2>3 DEF CountsExact, R!Wants, R!Empty
<1>3. R!ObserversAreServed'
  BY DEF RelayInv, R!ObserversAreServed
<1> QED
  BY <1>1, <1>2, <1>3

\* GossipSub, the starts and the mesh.
LEMMA GossipKeeps ==
    ASSUME RelayInv, UNCHANGED relayVars \/ R!StartGossip \/ R!StopGossip
             \/ R!StartStep \/ R!MeshStep \/ R!waitForPeers
    PROVE  RelayInv'
<1>1. UNCHANGED <<calls, observers, arrived, reading, decoding, received, due, iterator>>
  BY DEF relayVars, R!StartGossip, R!StopGossip, R!StartStep, R!MeshStep,
         R!waitForPeers, R!start, R!subscribeToAllTopics, R!MeshChanges, R!Heartbeat
<1>2. /\ starting \in 0 .. MaxRounds /\ rounds \in 0 .. MaxRounds
      /\ starting + rounds <= MaxRounds /\ subscribed \in BOOLEAN
      /\ subscribed => rounds > 0
      /\ gossip \in {"stopped", "started"}
  BY DEF RelayInv, RelayTypes, R!RelayTypeOK, RoundsCounted
<1>3. /\ starting' \in 0 .. MaxRounds /\ rounds' \in 0 .. MaxRounds
      /\ starting' + rounds' <= MaxRounds /\ rounds <= rounds'
      /\ subscribed' \in BOOLEAN /\ (subscribed' => rounds' > 0)
      /\ gossip' \in {"stopped", "started"}
  <2>1. CASE R!subscribeToAllTopics
    BY <1>2, <2>1, RoundsAreNumbers DEF R!subscribeToAllTopics
  <2>2. CASE R!start
    BY <1>2, <2>2, RoundsAreNumbers DEF R!start
  <2>3. CASE R!StopGossip
    <3>1. /\ starting' = starting /\ rounds' = rounds
          /\ subscribed' = FALSE /\ gossip' = "stopped"
      BY <2>3 DEF R!StopGossip
    <3>2. /\ starting' \in 0 .. MaxRounds /\ rounds' \in 0 .. MaxRounds
          /\ starting' + rounds' <= MaxRounds /\ rounds <= rounds'
      BY <1>2, <3>1, RoundsAreNumbers
    <3> QED
      BY <3>1, <3>2
  <2>4. CASE /\ starting' = starting /\ rounds' = rounds
             /\ subscribed' = subscribed /\ gossip' \in {gossip, "started"}
    <3>1. /\ starting' \in 0 .. MaxRounds /\ rounds' \in 0 .. MaxRounds
          /\ starting' + rounds' <= MaxRounds /\ rounds <= rounds'
      BY <1>2, <2>4, RoundsAreNumbers
    <3>2. subscribed' \in BOOLEAN /\ (subscribed' => rounds' > 0)
      BY <1>2, <2>4, Zenon
    <3> QED
      BY <1>2, <2>4, <3>1, <3>2
  <2>5. \/ R!subscribeToAllTopics \/ R!start \/ R!StopGossip
        \/ /\ starting' = starting /\ rounds' = rounds
           /\ subscribed' = subscribed /\ gossip' \in {gossip, "started"}
    BY DEF relayVars, R!StartStep, R!MeshStep, R!MeshChanges, R!Heartbeat,
           R!waitForPeers, R!StartGossip
  <2> QED
    BY <2>1, <2>2, <2>3, <2>4, <2>5
<1>4. /\ mesh' \subseteq R!topicSet /\ seen' \subseteq R!topicSet
      /\ meshWait' \in MeshWaitType
  <2>1. /\ mesh \subseteq R!topicSet /\ seen \subseteq R!topicSet
        /\ meshWait \in MeshWaitType
    BY DEF RelayInv, RelayTypes, R!RelayTypeOK
  <2>2. CASE R!Heartbeat
    <3>1. mesh' = mesh /\ seen' \subseteq R!topicSet
      BY <2>1, <2>2 DEF R!Heartbeat
    <3>2. \/ meshWait' = meshWait
          \/ meshWait' = [at |-> "done", left |-> <<>>, peers |-> TRUE]
      BY <2>2 DEF R!Heartbeat
    <3>3. <<>> \in Seq(R!topicSet)
      OBVIOUS
    <3>4. meshWait' \in MeshWaitType
      <4>1. [at |-> "done", left |-> <<>>, peers |-> TRUE] \in MeshWaitType
        BY <3>3 DEF MeshWaitType
      <4> QED
        BY <2>1, <3>2, <4>1
    <3> QED
      BY <2>1, <3>1, <3>4
  <2>3. CASE R!waitForPeers
    <3>1. Topics \in Seq(R!topicSet) /\ <<>> \in Seq(R!topicSet)
      BY WakuNodeAssumption DEF R!RelayAssumption
    <3>2. \/ meshWait' = [at |-> "done", left |-> <<>>, peers |-> FALSE]
          \/ meshWait' = [at |-> "waiting", left |-> Topics, peers |-> FALSE]
      BY <2>3 DEF R!waitForPeers, R!NotWaiting
    <3>3. meshWait' \in MeshWaitType
      <4>1. /\ [at |-> "done", left |-> <<>>, peers |-> FALSE] \in MeshWaitType
            /\ [at |-> "waiting", left |-> Topics, peers |-> FALSE] \in MeshWaitType
        BY <3>1 DEF MeshWaitType
      <4> QED
        BY <3>2, <4>1
    <3> QED
      BY <2>1, <2>3, <3>3 DEF R!waitForPeers
  <2>4. CASE /\ meshWait' = meshWait /\ seen' = seen
             /\ mesh' \subseteq R!topicSet
    BY <2>1, <2>4
  <2>5. \/ R!Heartbeat \/ R!waitForPeers
        \/ /\ meshWait' = meshWait /\ seen' = seen
           /\ mesh' \subseteq R!topicSet
    BY <2>1 DEF R!MeshStep, R!MeshChanges, R!StopGossip, R!StartGossip, R!StartStep,
                R!start, R!subscribeToAllTopics, relayVars
  <2> QED
    BY <2>2, <2>3, <2>4, <2>5
<1>5. RelayTypes'
  <2>1. (meshWait \in MeshWaitType)'
    BY <1>4 DEF MeshWaitType
  <2>2. meshWait'.at \in {"off", "waiting", "done"}
        /\ meshWait'.left \in Seq(R!topicSet) /\ meshWait'.peers \in BOOLEAN
    BY <1>4 DEF MeshWaitType
  <2>3. R!RelayTypeOK'
    BY <1>1, <1>3, <1>4, <2>2
       DEF RelayInv, RelayTypes, R!RelayTypeOK, R!Counts, R!IteratorTypeOK,
           R!NewIterator
  <2> QED
    BY <1>1, <2>1, <2>3 DEF RelayInv, RelayTypes, IteratorType
<1>6. RoundsCounted'
  BY <1>3 DEF RoundsCounted
<1> QED
  BY <1>1, <1>3, <1>5, <1>6, MessagesStay DEF RelayInv

(* The iterator. *)

LEMMA IteratorTyped ==
    ASSUME NEW it \in IteratorType
    PROVE  R!IteratorTypeOK(it, Messages)
BY DEF IteratorType, R!IteratorTypeOK, R!NewIterator

LEMMA TurnTyped ==
    ASSUME NEW it \in IteratorType, it.at \in {"check", "wait"}
    PROVE  R!Turned(it) \in IteratorType
<1>1. CASE it.at = "check"
  BY <1>1 DEF R!Turned, IteratorType
<1>2. CASE it.at = "wait" /\ R!IsLast(it.subscribed, it.messages)
  <2>1. R!Turned(it) = [it EXCEPT !.at = "over", !.messages = <<>>,
                                  !.returned = it.messages]
    BY <1>2 DEF R!Turned
  <2>2. R!Turned(it) =
          [at |-> "over", subscribed |-> it.subscribed, late |-> it.late,
           messages |-> <<>>, yielded |-> it.yielded, returned |-> it.messages]
    BY <2>1 DEF IteratorType
  <2>3. <<>> \in Seq(Messages)
    OBVIOUS
  <2> QED
    BY <2>2, <2>3 DEF IteratorType
<1>3. CASE it.at = "wait" /\ ~R!IsLast(it.subscribed, it.messages)
             /\ it.messages = <<>>
  <2>1. R!Turned(it) = [it EXCEPT !.at = "check"]
    BY <1>3 DEF R!Turned
  <2> QED
    BY <2>1 DEF IteratorType
<1>4. CASE it.at = "wait" /\ ~R!IsLast(it.subscribed, it.messages)
             /\ it.messages # <<>>
  <2>1. R!Turned(it) = [it EXCEPT !.at = "idle", !.messages = Tail(it.messages),
                                  !.yielded = Append(it.yielded, Head(it.messages))]
    BY <1>4 DEF R!Turned
  <2>2. /\ it.messages \in Seq(Messages) /\ it.yielded \in Seq(Messages)
        /\ it.messages # <<>>
    BY <1>4 DEF IteratorType
  <2>3. /\ Tail(it.messages) \in Seq(Messages) /\ Head(it.messages) \in Messages
        /\ Append(it.yielded, Head(it.messages)) \in Seq(Messages)
    BY <2>2
  <2> QED
    BY <2>1, <2>3 DEF IteratorType
<1> QED
  BY <1>1, <1>2, <1>3, <1>4

LEMMA IteratorKeeps ==
    ASSUME RelayInv, NEW next \in IteratorType, R!IteratorAction(next)
    PROVE  RelayInv'
<1>1. /\ iterator' = next
      /\ UNCHANGED <<gossip, starting, rounds, subscribed, calls, observers, arrived,
                     reading, decoding, received, due, mesh, meshWait, seen>>
  BY DEF R!IteratorAction
<1>2. (iterator \in IteratorType)'
  BY <1>1 DEF IteratorType
<1>3. RelayTypes'
  BY <1>1, <1>2, IteratorTyped
     DEF RelayInv, RelayTypes, R!RelayTypeOK, R!Counts, MeshWaitType
<1>4. RoundsCounted' /\ rounds <= rounds'
  BY <1>1, RoundsAreNumbers DEF RelayInv, RoundsCounted, RelayTypes, R!RelayTypeOK
<1> QED
  BY <1>1, <1>3, <1>4, MessagesStay DEF RelayInv

(* Observers come and go. *)

LEMMA ObserversKeep ==
    ASSUME RelayInv, NEW c \in Calls,
           R!subscribeWithUnsubscribe(c) \/ R!removeObservers(c)
    PROVE  RelayInv'
<1>1. UNCHANGED <<gossip, starting, rounds, subscribed, arrived, reading, decoding,
                  received, due, mesh, meshWait, seen>>
  BY DEF R!subscribeWithUnsubscribe, R!removeObservers
<1>2. PICK at \in {"active", "removed"} :
        /\ calls' = [calls EXCEPT ![c] = at]
        /\ at = "active" =>
             calls[c] = "new" /\ observers' = observers \cup R!ObserversOf(c)
        /\ at = "removed" =>
             calls[c] = "active" /\ observers' = observers \ R!ObserversOf(c)
  BY DEF R!subscribeWithUnsubscribe, R!removeObservers
<1>3. /\ R!ObserversOf(c) \subseteq Observers
      /\ \A o \in Observers : o \in R!ObserversOf(c) <=> o.call = c
      /\ \A o \in Observers : o.call \in Calls
  BY WakuNodeAssumption DEF R!ObserversOf, R!RelayAssumption
<1>4. iterator' \in IteratorType
  <2>1. iterator \in IteratorType
    BY DEF RelayInv, RelayTypes
  <2>2. [iterator EXCEPT !.subscribed = FALSE] \in IteratorType
    BY <2>1 DEF IteratorType
  <2>3. R!Iterating \in IteratorType
    <3>1. <<>> \in Seq(Messages)
      OBVIOUS
    <3>2. R!NewIterator \in IteratorType
      BY <3>1 DEF R!NewIterator, IteratorType
    <3>3. R!Iterating = [R!NewIterator EXCEPT !.at = "idle", !.subscribed = TRUE]
      BY DEF R!Iterating
    <3> QED
      BY <3>2, <3>3 DEF IteratorType
  <2>4. iterator' \in {R!Iterating, iterator, [iterator EXCEPT !.subscribed = FALSE]}
    BY DEF R!subscribeWithUnsubscribe, R!removeObservers
  <2> QED
    BY <2>1, <2>2, <2>3, <2>4
<1>5. /\ calls' \in [Calls -> {"new", "active", "removed"}]
      /\ observers' \subseteq Observers /\ observers \subseteq Observers
      /\ calls \in [Calls -> {"new", "active", "removed"}]
  BY <1>2, <1>3 DEF RelayInv, RelayTypes, R!RelayTypeOK
<1>6. RelayTypes'
  <2>1. (iterator \in IteratorType)'
    BY <1>4 DEF IteratorType
  <2> QED
    BY <1>1, <1>4, <1>5, <2>1, IteratorTyped
       DEF RelayInv, RelayTypes, R!RelayTypeOK, R!Counts, MeshWaitType
<1>7. RoundsCounted'
  BY <1>1 DEF RelayInv, RoundsCounted
<1>8. ObserversActive'
  <2>1. ASSUME NEW o \in observers' PROVE calls'[o.call] = "active"
    BY <1>2, <1>3, <1>5 DEF RelayInv, ObserversActive
  <2>2. ASSUME NEW m \in Messages, NEW o \in Observers, <<m, o>> \in due
        PROVE  calls'[o.call] # "new" /\ R!Wants(o, m)
    BY <1>2, <1>3, <1>5, <2>2 DEF RelayInv, ObserversActive
  <2> QED
    BY <1>1, <2>1, <2>2 DEF ObserversActive, R!Wants
<1>9. CountsExact'
  BY <1>1 DEF RelayInv, CountsExact, R!Wants, R!Empty
<1>10. R!ObserversAreServed'
  <2> SUFFICES ASSUME NEW m \in Messages, NEW o \in Observers, <<m, o>> \in due,
                      o \in observers', m \in o.decodes
               PROVE  reading[m] + decoding[<<m, o>>] + received[<<m, o>>] > 0
    BY <1>1 DEF R!ObserversAreServed
  <2>1. o \in observers
    BY <1>2, <1>3 DEF RelayInv, ObserversActive
  <2> QED
    BY <2>1 DEF RelayInv, R!ObserversAreServed
<1> QED
  BY <1>6, <1>7, <1>8, <1>9, <1>10 DEF RelayInv

(* Messages. *)

LEMMA ReceiveKeeps ==
    ASSUME RelayInv, NEW m \in Messages, R!Receive(m)
    PROVE  RelayInv'
<1>1. /\ subscribed /\ m \notin arrived /\ m.payload # R!Empty
      /\ arrived' = arrived \cup {m}
      /\ reading' = [reading EXCEPT ![m] = rounds]
      /\ due' = due \cup ({m} \X {o \in observers : R!Wants(o, m)})
      /\ UNCHANGED <<gossip, starting, rounds, subscribed, calls, observers,
                     decoding, received, iterator, mesh, meshWait, seen>>
  BY DEF R!Receive, R!messageValidator
<1>2. rounds > 0 /\ observers \subseteq Observers
  BY <1>1 DEF RelayInv, RoundsCounted, RelayTypes, R!RelayTypeOK
<1>3. /\ reading' \in [Messages -> 0 .. MaxRounds] /\ reading'[m] = rounds
      /\ \A k \in Messages \ {m} : reading'[k] = reading[k]
  BY <1>1, RelayCounts
<1>4. RelayTypes'
  <2>1. due' \subseteq Messages \X Observers /\ arrived' \subseteq Messages
    BY <1>1, <1>2 DEF RelayInv, RelayTypes, R!RelayTypeOK
  <2>2. (iterator \in IteratorType)'
    BY <1>1 DEF RelayInv, RelayTypes, IteratorType
  <2> QED
    BY <1>1, <1>3, <2>1, <2>2, IteratorTyped
       DEF RelayInv, RelayTypes, R!RelayTypeOK, R!Counts, MeshWaitType
<1>5. RoundsCounted'
  BY <1>1 DEF RelayInv, RoundsCounted
<1>6. ObserversActive'
  <2>1. ASSUME NEW k \in Messages, NEW o \in Observers, <<k, o>> \in due'
        PROVE  calls[o.call] # "new" /\ R!Wants(o, k)
    <3>1. CASE <<k, o>> \in due
      BY <3>1 DEF RelayInv, ObserversActive
    <3>2. CASE k = m /\ o \in observers /\ R!Wants(o, m)
      BY <3>2 DEF RelayInv, ObserversActive
    <3> QED
      BY <1>1, <2>1, <3>1, <3>2
  <2> QED
    BY <1>1, <2>1 DEF RelayInv, ObserversActive, R!Wants
<1>7. CountsExact'
  <2>1. \A o \in Observers : decoding[<<m, o>>] + received[<<m, o>>] = 0
    <3> SUFFICES ASSUME NEW o \in Observers
                 PROVE  decoding[<<m, o>>] + received[<<m, o>>] = 0
      OBVIOUS
    <3>1. ~(decoding[<<m, o>>] + received[<<m, o>>] > 0)
      BY <1>1 DEF RelayInv, CountsExact
    <3>2. decoding[<<m, o>>] \in Nat /\ received[<<m, o>>] \in Nat
      BY RelayCounts
    <3> QED
      BY <3>1, <3>2
  <2>2. ASSUME NEW k \in Messages
        PROVE  /\ reading'[k] > 0 => k.payload # R!Empty
               /\ reading'[k] <= rounds
               /\ k \notin arrived' => reading'[k] = 0
               /\ \A o \in Observers :
                    /\ decoding[<<k, o>>] + received[<<k, o>>] + reading'[k] <= rounds
                    /\ decoding[<<k, o>>] + received[<<k, o>>] > 0 =>
                         k \in arrived' /\ R!Wants(o, k) /\ k.payload # R!Empty
    <3>1. CASE k = m
      BY <1>1, <1>3, <2>1, <3>1, RelayCounts
    <3>2. CASE k # m
      BY <1>1, <1>3, <3>2 DEF RelayInv, CountsExact
    <3> QED
      BY <3>1, <3>2
  <2> QED
    BY <1>1, <2>2 DEF CountsExact, R!Wants, R!Empty
<1>8. R!ObserversAreServed'
  <2> SUFFICES ASSUME NEW k \in Messages, NEW o \in Observers, <<k, o>> \in due',
                      o \in observers, k \in o.decodes
               PROVE  reading'[k] + decoding[<<k, o>>] + received[<<k, o>>] > 0
    BY <1>1 DEF R!ObserversAreServed
  <2>1. CASE k = m
    BY <1>2, <1>3, <2>1, RelayCounts
  <2>2. CASE k # m
    <3>1. <<k, o>> \in due
      BY <1>1, <2>2
    <3> QED
      BY <1>3, <2>2, <3>1 DEF RelayInv, R!ObserversAreServed
  <2> QED
    BY <2>1, <2>2
<1> QED
  BY <1>4, <1>5, <1>6, <1>7, <1>8 DEF RelayInv

\* The content topic is read: the observers of the topic decode.
LEMMA ProcessKeeps ==
    ASSUME RelayInv, NEW m \in Messages, R!processIncomingMessage(m)
    PROVE  RelayInv'
<1>1. /\ reading[m] > 0
      /\ reading' = [reading EXCEPT ![m] = reading[m] - 1]
      /\ decoding' = [mo \in Messages \X Observers |->
                        decoding[mo] + IF mo[1] = m /\ mo[2] \in R!ObserversFor(m)
                                       THEN 1 ELSE 0]
      /\ UNCHANGED <<gossip, starting, rounds, subscribed, calls, observers,
                     arrived, received, due, iterator, mesh, meshWait, seen>>
  BY RelayCounts DEF R!processIncomingMessage
<1>2. /\ reading'[m] = reading[m] - 1
      /\ \A k \in Messages \ {m} : reading'[k] = reading[k]
      /\ reading[m] <= rounds /\ m.payload # R!Empty /\ m \in arrived
  BY <1>1, RelayCounts DEF RelayInv, CountsExact
<1>3. reading' \in [Messages -> 0 .. MaxRounds]
  <2>1. reading[m] - 1 \in 0 .. MaxRounds
    BY <1>1, RelayCounts
  <2> QED
    BY <1>1, <2>1, RelayCounts
<1>4. ASSUME NEW k \in Messages, NEW o \in Observers
      PROVE  /\ decoding'[<<k, o>>] =
                  decoding[<<k, o>>] + IF k = m /\ o \in R!ObserversFor(m)
                                       THEN 1 ELSE 0
             /\ decoding'[<<k, o>>] \in 0 .. MaxRounds
             /\ decoding'[<<k, o>>] + received[<<k, o>>] + reading'[k] <= rounds
             /\ decoding'[<<k, o>>] + received[<<k, o>>] > 0 =>
                  k \in arrived /\ R!Wants(o, k) /\ k.payload # R!Empty
  <2>1. /\ reading[k] \in Nat /\ decoding[<<k, o>>] \in Nat
        /\ received[<<k, o>>] \in Nat
        /\ rounds \in Nat /\ rounds <= MaxRounds /\ MaxRounds \in Nat
    BY RelayCounts
  <2>2. /\ decoding[<<k, o>>] + received[<<k, o>>] + reading[k] <= rounds
        /\ decoding[<<k, o>>] + received[<<k, o>>] > 0 =>
             k \in arrived /\ R!Wants(o, k) /\ k.payload # R!Empty
    BY DEF RelayInv, CountsExact
  <2>3. decoding'[<<k, o>>] = decoding[<<k, o>>] + IF k = m /\ o \in R!ObserversFor(m)
                                                   THEN 1 ELSE 0
    BY <1>1
  <2>4. CASE k = m /\ o \in R!ObserversFor(m)
    <3>1. R!Wants(o, m)
      BY <2>4 DEF R!ObserversFor, R!Wants
    <3>2. /\ decoding'[<<k, o>>] = decoding[<<k, o>>] + 1
          /\ reading'[k] = reading[k] - 1 /\ reading[k] > 0
      BY <1>1, <1>2, <2>3, <2>4
    <3>3. /\ decoding'[<<k, o>>] \in 0 .. MaxRounds
          /\ decoding'[<<k, o>>] + received[<<k, o>>] + reading'[k] <= rounds
      BY <2>1, <2>2, <3>2
    <3> QED
      BY <1>2, <2>3, <2>4, <3>1, <3>3
  <2>5. CASE ~(k = m /\ o \in R!ObserversFor(m))
    <3>1. decoding'[<<k, o>>] = decoding[<<k, o>>]
      BY <2>1, <2>3, <2>5
    <3>2. reading'[k] \in Nat /\ reading'[k] <= reading[k]
      BY <1>1, <1>2, <2>1
    <3>3. /\ decoding'[<<k, o>>] \in 0 .. MaxRounds
          /\ decoding'[<<k, o>>] + received[<<k, o>>] + reading'[k] <= rounds
      BY <2>1, <2>2, <3>1, <3>2
    <3> QED
      BY <2>2, <2>3, <3>1, <3>3
  <2> QED
    BY <2>4, <2>5
<1>5. RelayTypes'
  <2>1. decoding' \in R!Counts
    <3>1. ASSUME NEW mo \in Messages \X Observers
          PROVE  decoding[mo] + (IF mo[1] = m /\ mo[2] \in R!ObserversFor(m)
                                 THEN 1 ELSE 0) \in 0 .. MaxRounds
      <4>1. PICK k \in Messages, o \in Observers : mo = <<k, o>>
        OBVIOUS
      <4>2. mo[1] = k /\ mo[2] = o
        BY <4>1
      <4> QED
        BY <1>4, <4>1, <4>2
    <3> QED
      BY <1>1, <3>1 DEF R!Counts
  <2>2. (iterator \in IteratorType)'
    BY <1>1 DEF RelayInv, RelayTypes, IteratorType
  <2> QED
    BY <1>1, <1>3, <2>1, <2>2, IteratorTyped
       DEF RelayInv, RelayTypes, R!RelayTypeOK, R!Counts, MeshWaitType
<1>6. RoundsCounted' /\ ObserversActive'
  BY <1>1 DEF RelayInv, RoundsCounted, ObserversActive, R!Wants
<1>7. CountsExact'
  <2>1. ASSUME NEW k \in Messages
        PROVE  /\ reading'[k] > 0 => k.payload # R!Empty
               /\ reading'[k] <= rounds
               /\ k \notin arrived => reading'[k] = 0
    <3>1. /\ reading[k] > 0 => k.payload # R!Empty
          /\ reading[k] <= rounds
          /\ k \notin arrived => reading[k] = 0
          /\ reading[k] \in Nat /\ rounds \in Nat
      BY RelayCounts DEF RelayInv, CountsExact
    <3>2. CASE k = m
      BY <1>1, <1>2, <3>1, <3>2
    <3>3. CASE k # m
      BY <1>2, <3>1, <3>3
    <3> QED
      BY <3>2, <3>3
  <2>2. \A k \in Messages, o \in Observers :
          /\ decoding'[<<k, o>>] + received[<<k, o>>] + reading'[k] <= rounds
          /\ decoding'[<<k, o>>] + received[<<k, o>>] > 0 =>
               k \in arrived /\ R!Wants(o, k) /\ k.payload # R!Empty
    BY <1>4
  <2>3. arrived' = arrived /\ received' = received /\ rounds' = rounds
    BY <1>1
  <2> HIDE <1>1, <1>2, <1>4
  <2> QED
    BY <2>1, <2>2, <2>3 DEF CountsExact, R!Wants, R!Empty
<1>8. R!ObserversAreServed'
  <2> SUFFICES ASSUME NEW k \in Messages, NEW o \in Observers, <<k, o>> \in due,
                      o \in observers, k \in o.decodes
               PROVE  reading'[k] + decoding'[<<k, o>>] + received[<<k, o>>] > 0
    BY <1>1 DEF R!ObserversAreServed
  <2>1. /\ reading[k] + decoding[<<k, o>>] + received[<<k, o>>] > 0
        /\ R!Wants(o, k)
        /\ reading[k] \in Nat /\ decoding[<<k, o>>] \in Nat
        /\ received[<<k, o>>] \in Nat
    BY RelayCounts DEF RelayInv, R!ObserversAreServed, ObserversActive
  <2>2. CASE k = m
    <3>1. o \in R!ObserversFor(m)
      BY <2>1, <2>2 DEF R!ObserversFor, R!Wants
    <3>2. decoding'[<<k, o>>] = decoding[<<k, o>>] + 1
      BY <1>4, <2>2, <3>1
    <3>3. reading'[k] \in Nat
      BY <1>1, <1>2, <2>1, <2>2
    <3> QED
      BY <2>1, <3>2, <3>3
  <2>3. CASE k # m
    <3>1. /\ decoding'[<<k, o>>] = decoding[<<k, o>>] + 0
          /\ reading'[k] = reading[k]
      BY <1>2, <1>4, <2>3
    <3> QED
      BY <2>1, <3>1
  <2> QED
    BY <2>2, <2>3
<1> QED
  BY <1>5, <1>6, <1>7, <1>8 DEF RelayInv

\* A decoder has resolved: the callback is called or the message dropped.
LEMMA DecodedKeeps ==
    ASSUME RelayInv, NEW m \in Messages, NEW o \in Observers, R!Decoded(m, o)
    PROVE  RelayInv'
<1>1. /\ decoding[<<m, o>>] > 0
      /\ decoding' = [decoding EXCEPT ![<<m, o>>] = decoding[<<m, o>>] - 1]
      /\ \/ /\ m \in o.decodes
            /\ received' = [received EXCEPT ![<<m, o>>] = received[<<m, o>>] + 1]
         \/ m \notin o.decodes /\ received' = received
      /\ iterator' \in {iterator, R!Pushed(iterator, m)}
      /\ UNCHANGED <<due, gossip, starting, rounds, subscribed, calls, observers,
                     arrived, reading, mesh, meshWait, seen>>
  BY DEF R!Decoded
<1>2. /\ decoding[<<m, o>>] + received[<<m, o>>] + reading[m] <= rounds
      /\ decoding[<<m, o>>] \in Nat /\ received[<<m, o>>] \in Nat
      /\ reading[m] \in Nat /\ rounds \in Nat /\ rounds <= MaxRounds
      /\ MaxRounds \in Nat
      /\ m \in arrived /\ R!Wants(o, m) /\ m.payload # R!Empty
  <2>1. /\ decoding[<<m, o>>] \in Nat /\ received[<<m, o>>] \in Nat
        /\ reading[m] \in Nat /\ rounds \in Nat /\ rounds <= MaxRounds
        /\ MaxRounds \in Nat
    BY RelayCounts
  <2>2. decoding[<<m, o>>] + received[<<m, o>>] > 0
    BY <1>1, <2>1
  <2> QED
    BY <2>1, <2>2 DEF RelayInv, CountsExact
<1>3. <<m, o>> \in Messages \X Observers
  OBVIOUS
<1>4. /\ decoding' \in R!Counts /\ received' \in R!Counts
      /\ decoding'[<<m, o>>] = decoding[<<m, o>>] - 1
      /\ received'[<<m, o>>] =
           received[<<m, o>>] + IF m \in o.decodes THEN 1 ELSE 0
  <2>1. /\ decoding[<<m, o>>] - 1 \in 0 .. MaxRounds
        /\ received[<<m, o>>] + 1 \in 0 .. MaxRounds
        /\ received[<<m, o>>] + 0 = received[<<m, o>>]
    BY <1>1, <1>2
  <2> QED
    BY <1>1, <1>3, <2>1, RelayCounts DEF R!Counts
<1>5. ASSUME NEW k \in Messages, NEW p \in Observers, <<k, p>> # <<m, o>>
      PROVE  decoding'[<<k, p>>] = decoding[<<k, p>>]
             /\ received'[<<k, p>>] = received[<<k, p>>]
  <2>1. <<k, p>> \in Messages \X Observers
    OBVIOUS
  <2> QED
    BY <1>1, <1>5, <2>1, RelayCounts
<1>6. iterator' \in IteratorType
  <2>1. iterator \in IteratorType
    BY DEF RelayInv, RelayTypes
  <2>2. R!Pushed(iterator, m) \in IteratorType
    <3>1. Append(iterator.messages, m) \in Seq(Messages)
      BY <2>1 DEF IteratorType
    <3>2. [iterator EXCEPT !.messages = Append(iterator.messages, m)] \in IteratorType
      BY <2>1, <3>1 DEF IteratorType
    <3> QED
      BY <2>1, <3>2 DEF R!Pushed
  <2> QED
    BY <1>1, <2>1, <2>2
<1>7. RelayTypes'
  <2>1. (iterator \in IteratorType)'
    BY <1>6 DEF IteratorType
  <2> QED
    BY <1>1, <1>4, <1>6, <2>1, IteratorTyped
       DEF RelayInv, RelayTypes, R!RelayTypeOK, R!Counts, MeshWaitType
<1>8. RoundsCounted' /\ ObserversActive'
  BY <1>1 DEF RelayInv, RoundsCounted, ObserversActive, R!Wants
<1>9. CountsExact'
  <2>1. ASSUME NEW k \in Messages, NEW p \in Observers
        PROVE  /\ decoding'[<<k, p>>] + received'[<<k, p>>] + reading[k] <= rounds
               /\ decoding'[<<k, p>>] + received'[<<k, p>>] > 0 =>
                    k \in arrived /\ R!Wants(p, k) /\ k.payload # R!Empty
    <3>1. CASE <<k, p>> = <<m, o>>
      <4>1. k = m /\ p = o
        BY <3>1
      <4>2. decoding'[<<m, o>>] + received'[<<m, o>>]
              <= decoding[<<m, o>>] + received[<<m, o>>]
        BY <1>2, <1>4
      <4>3. decoding'[<<m, o>>] \in Int /\ received'[<<m, o>>] \in Int
        BY <1>2, <1>4
      <4> QED
        BY <1>2, <4>1, <4>2, <4>3
    <3>2. CASE <<k, p>> # <<m, o>>
      BY <1>5, <3>2 DEF RelayInv, CountsExact
    <3> QED
      BY <3>1, <3>2
  <2>2. \A k \in Messages : /\ reading[k] > 0 => k.payload # R!Empty
                            /\ reading[k] <= rounds
                            /\ k \notin arrived => reading[k] = 0
    BY DEF RelayInv, CountsExact
  <2> QED
    BY <1>1, <2>1, <2>2 DEF CountsExact, R!Wants, R!Empty
<1>10. R!ObserversAreServed'
  <2> SUFFICES ASSUME NEW k \in Messages, NEW p \in Observers, <<k, p>> \in due,
                      p \in observers, k \in p.decodes
               PROVE  reading[k] + decoding'[<<k, p>>] + received'[<<k, p>>] > 0
    BY <1>1 DEF R!ObserversAreServed
  <2>1. CASE <<k, p>> = <<m, o>>
    <3>1. k = m /\ p = o
      BY <2>1
    <3>2. received'[<<m, o>>] = received[<<m, o>>] + 1
      BY <1>4, <3>1
    <3> QED
      BY <1>1, <1>2, <1>4, <3>1, <3>2
  <2>2. CASE <<k, p>> # <<m, o>>
    BY <1>5, <2>2 DEF RelayInv, R!ObserversAreServed
  <2> QED
    BY <2>1, <2>2
<1> QED
  BY <1>7, <1>8, <1>9, <1>10 DEF RelayInv

LEMMA RelayStepKeeps == RelayInv /\ [Next]_vars => RelayInv'
<1> SUFFICES ASSUME RelayInv, [Next]_vars PROVE RelayInv'
  OBVIOUS
<1>1. CASE RelayStarts \/ RelayMesh \/ StartRelayNode \/ StopRelayNode
             \/ \E withTimeout \in BOOLEAN : RelayNodeWaits(withTimeout)
  BY <1>1, GossipKeeps DEF RelayStarts, RelayMesh, StartRelayNode, StopRelayNode,
                           RelayNodeWaits
<1>2. CASE RelayProcesses
  BY <1>2, ProcessKeeps, DecodedKeeps DEF RelayProcesses, R!ProcessStep
<1>3. ASSUME R!AskNext \/ R!TimePasses \/ R!Turn PROVE RelayInv'
  <2>1. iterator \in IteratorType
    BY DEF RelayInv, RelayTypes
  <2>2. CASE R!AskNext
    <3>1. [iterator EXCEPT !.at = "check"] \in IteratorType
      BY <2>1 DEF IteratorType
    <3> QED
      BY <2>2, <3>1, IteratorKeeps DEF R!AskNext
  <2>3. CASE R!TimePasses
    <3>1. [iterator EXCEPT !.late = TRUE] \in IteratorType
      BY <2>1 DEF IteratorType
    <3> QED
      BY <2>3, <3>1, IteratorKeeps DEF R!TimePasses
  <2>4. CASE R!Turn
    BY <2>1, <2>4, TurnTyped, IteratorKeeps DEF R!Turn
  <2> QED
    BY <1>3, <2>2, <2>3, <2>4
<1>4. CASE RelayIterates
  BY <1>3, <1>4 DEF RelayIterates, R!IteratorStep
<1>5. CASE RelayIsUsed
  BY <1>3, <1>5, ObserversKeep, ReceiveKeeps DEF RelayIsUsed, R!MessageStep
<1>6. CASE UNCHANGED relayVars
  BY <1>6, GossipKeeps
<1>7. CASE \/ RelayNodeFindsPeers \/ RelayNodeTimeout
           \/ LightPass \/ LightTimeout \/ LightStep
           \/ StartLightNode \/ StopLightNode
           \/ HistoryChanges \/ QueryGoesOn
           \/ \E mode \in Modes, forward \in BOOLEAN,
                 cursor \in {S!NoMessage} \cup S!Numbers :
                LightNodeQueries(mode, forward, cursor)
           \/ FilterIsUsed \/ UNCHANGED vars
  <2>1. UNCHANGED relayVars
    BY <1>7 DEF RelayNodeFindsPeers, RelayNodeTimeout, LightPass, LightTimeout,
                LightStep, StartLightNode, StopLightNode, OfLight, HistoryChanges,
                QueryGoesOn, LightNodeQueries, OfQuery, FilterIsUsed, vars
  <2> QED
    BY <1>6, <2>1
<1> QED
  BY <1>1, <1>2, <1>4, <1>5, <1>7 DEF Next

LEMMA RelayInitHolds == Init => RelayInv
<1> SUFFICES ASSUME R!Init PROVE RelayInv
  BY DEF Init
<1>1. /\ rounds \in 0 .. 1 /\ rounds <= MaxRounds /\ MaxRounds \in Nat
      /\ starting = 0 /\ (gossip = "started" => rounds > 0)
  BY RoundsAreNumbers DEF R!Init
<1>11. subscribed \in BOOLEAN /\ (subscribed => gossip = "started")
  BY DEF R!Init
<1>2. <<>> \in Seq(Messages) /\ <<>> \in Seq(R!topicSet)
  OBVIOUS
<1>3. R!NewIterator \in IteratorType
  BY <1>2 DEF R!NewIterator, IteratorType
<1>4. R!NotWaiting \in MeshWaitType
  BY <1>2 DEF R!NotWaiting, MeshWaitType
<1>5. /\ reading = [m \in Messages |-> 0]
      /\ decoding = [mo \in Messages \X Observers |-> 0]
      /\ received = [mo \in Messages \X Observers |-> 0]
      /\ 0 \in 0 .. MaxRounds
  BY <1>1 DEF R!Init
<1>6. RelayTypes
  <2>1. decoding \in R!Counts /\ received \in R!Counts
        /\ reading \in [Messages -> 0 .. MaxRounds]
    BY <1>5 DEF R!Counts
  <2>2. iterator \in IteratorType /\ meshWait \in MeshWaitType
    BY <1>3, <1>4 DEF R!Init
  <2>3. /\ meshWait.at \in {"off", "waiting", "done"}
        /\ meshWait.left \in Seq(R!topicSet) /\ meshWait.peers \in BOOLEAN
    BY <2>2 DEF MeshWaitType
  <2>4. starting \in 0 .. MaxRounds /\ rounds \in 0 .. MaxRounds
    BY <1>1
  <2> QED
    BY <1>1, <1>11, <2>1, <2>2, <2>3, <2>4, IteratorTyped
       DEF RelayTypes, R!RelayTypeOK, R!Init
<1>7. RoundsCounted
  BY <1>1, <1>11 DEF RoundsCounted
<1>8. ObserversActive /\ R!ObserversAreServed
  BY DEF R!Init, ObserversActive, R!ObserversAreServed
<1>9. CountsExact
  <2>1. \A m \in Messages : reading[m] = 0
    BY <1>5
  <2>2. \A m \in Messages, o \in Observers :
          decoding[<<m, o>>] = 0 /\ received[<<m, o>>] = 0
    BY <1>5
  <2> QED
    BY <1>1, <2>1, <2>2 DEF CountsExact
<1> QED
  BY <1>6, <1>7, <1>8, <1>9 DEF RelayInv

\* Relay gives a message to the observers of its topics, to no other, and at most
\* once for each listener, and none of those registered in time is passed over:
\* for any topics, observers and messages, and however often it is started.
THEOREM RelayDeliversAlways == Spec => []RelayDelivers
<1>1. RelayInv => RelayDelivers
  <2> SUFFICES ASSUME RelayInv PROVE R!RelayTypeOK /\ R!DeliveredAsSubscribed
    BY DEF RelayDelivers, ObserversAreServed, DeliveredAsSubscribed, RelayInv
  <2>1. ASSUME NEW m \in Messages, NEW o \in Observers
        PROVE  LET n == received[<<m, o>>] + decoding[<<m, o>>] IN
               /\ n > 0 => /\ o.topic = m.topic /\ o.contentTopic = m.contentTopic
                           /\ m.payload # R!Empty
               /\ n + reading[m] <= rounds
    <3>1. /\ decoding[<<m, o>>] + received[<<m, o>>] + reading[m] <= rounds
          /\ decoding[<<m, o>>] + received[<<m, o>>] > 0 =>
               m \in arrived /\ R!Wants(o, m) /\ m.payload # R!Empty
      BY DEF RelayInv, CountsExact
    <3>2. decoding[<<m, o>>] + received[<<m, o>>]
            = received[<<m, o>>] + decoding[<<m, o>>]
      BY RelayCounts
    <3> QED
      BY <3>1, <3>2 DEF R!Wants
  <2> QED
    BY <2>1 DEF RelayInv, RelayTypes, R!DeliveredAsSubscribed
<1>2. Spec => []RelayInv
  BY RelayInitHolds, RelayStepKeeps, PTL DEF Spec
<1> QED
  BY <1>1, <1>2, PTL

-----------------------------------------------------------------------------
(* The history query. *)

QueryType ==
    [at : {"idle", "stream", "request", "page", "done", "failed"},
     mode : S!AllModes, forward : BOOLEAN, cursor : {0} \cup S!Numbers,
     lo : Nat, hi : Nat, from : Nat, to : Nat, delivered : Seq(S!Numbers), pending : SUBSET S!Numbers,
     abort : BOOLEAN, broken : BOOLEAN]

\* The history is an interval, which may be empty.
HistoryTyped ==
    /\ first \in 1 .. MaxMessages + 1 /\ last \in 0 .. MaxMessages
    /\ first <= last + 1
    /\ aborted \in BOOLEAN

\* Where the query's cursor is, once a page has come.
CursorFollows ==
    /\ query.at = "idle" => query.hi = 0
    /\ query.at \in {"stream", "request"} /\ query.hi > 0 =>
         query.cursor = S!CursorAfter(query)
    /\ query.at = "page" => query.hi > 0
    /\ query.at \in {"idle", "stream", "request", "done"} => query.pending = {}

\* No page yet, or the last one lies in the history as it was, is no longer than
\* a page may be, and reaches from where the first one began.
PageInHistory ==
    query.hi > 0 =>
        /\ 1 <= query.lo /\ query.lo <= query.hi /\ query.hi <= MaxMessages
        /\ query.hi - query.lo + 1 <= S!PageSize
        /\ 1 <= query.from /\ query.to <= last
        /\ query.from <= query.to /\ query.hi <= last
        /\ query.forward => query.from <= query.lo
        /\ ~query.forward => query.hi <= query.to

Covered ==
    IF query.forward THEN query.from .. query.hi ELSE query.lo .. query.to

\* What was delivered is what is readable in the pages that came.
DeliveredCovers ==
    /\ query.hi = 0 => query.delivered = <<>>
    /\ query.hi > 0 =>
         /\ S!IsInjective(query.delivered)
         /\ S!Range(query.delivered) = Covered \ Unreadable
         /\ query.forward => S!Ascending(query.delivered)

QueryInv ==
    /\ HistoryTyped /\ query \in QueryType
    /\ CursorFollows /\ PageInHistory /\ DeliveredCovers
    /\ S!QueryIsComplete
-----------------------------------------------------------------------------
LEMMA QueryNumbers ==
    /\ MaxMessages \in Nat /\ Unreadable \subseteq 1 .. MaxMessages
    /\ S!PageSize \in Nat \ {0} /\ S!PageSize <= MAX_PAGE_SIZE
    /\ MAX_PAGE_SIZE \in Nat
BY WakuNodeAssumption DEF S!StoreQueryAssumption, S!PageSize, S!Least

LEMMA SameCountingOfQuery == \A A : S!Cardinality(A) = Cardinality(A)
BY DEF S!Cardinality, Cardinality

\* The readable messages of a page can be listed in ascending order.
LEMMA ReadableListed ==
    ASSUME NEW lo \in Nat, NEW k \in Nat
    PROVE  LET T == (lo .. lo + k - 1) \ Unreadable IN
           \E s \in [1 .. Cardinality(T) -> T] : S!Ascending(s) /\ S!Range(s) = T
<1> DEFINE T(n) == (lo .. lo + n - 1) \ Unreadable
           Listed(n) == \E s \in [1 .. Cardinality(T(n)) -> T(n)] :
                          S!Ascending(s) /\ S!Range(s) = T(n)
           Bad == {n \in Nat : ~Listed(n)}
<1> SUFFICES ASSUME Bad # {} PROVE FALSE
  OBVIOUS
<1>1. PICK n \in Bad : \A j \in Bad : n <= j
  <2>1. Bad \in SUBSET Nat
    OBVIOUS
  <2> HIDE DEF Bad
  <2> QED
    BY <2>1, LeastNumber
<1>2. n \in Nat /\ ~Listed(n)
  OBVIOUS
<1>3. n # 0
  <2> SUFFICES ASSUME n = 0 PROVE FALSE
    OBVIOUS
  <2>1. T(n) = {}
    OBVIOUS
  <2>2. Cardinality(T(n)) = 0
    BY <2>1, FS_EmptySet
  <2> DEFINE s == [i \in 1 .. 0 |-> 0]
  <2>3. s \in [1 .. Cardinality(T(n)) -> T(n)]
    <3>1. s \in [1 .. 0 -> {}]
      OBVIOUS
    <3> HIDE DEF s, T
    <3> QED
      BY <2>1, <2>2, <3>1
  <2>4. S!Ascending(s) /\ S!Range(s) = T(n)
    BY <2>1 DEF S!Ascending, S!Range
  <2> HIDE DEF T, s
  <2>5. Listed(n)
    BY <2>3, <2>4
  <2> QED
    BY <1>2, <2>5
<1>4. n - 1 \in Nat /\ Listed(n - 1)
  <2>1. n - 1 \in Nat /\ ~(n <= n - 1)
    BY <1>2, <1>3
  <2>2. n - 1 \notin Bad
    BY <1>1, <2>1
  <2> QED
    BY <2>1, <2>2
<1> DEFINE x == lo + n - 1
           U == T(n - 1)
<1>5. \A y \in U : y \in Int /\ y < x
  BY <1>2
<1>6. /\ x \in Unreadable => T(n) = U
      /\ x \notin Unreadable => T(n) = U \cup {x}
  <2>1. lo .. lo + n - 1 = (lo .. lo + (n - 1) - 1) \cup {x}
    BY <1>2, <1>3
  <2> QED
    BY <2>1
<1>7. x \notin Unreadable
  <2> SUFFICES ASSUME x \in Unreadable PROVE FALSE
    OBVIOUS
  <2>1. T(n) = T(n - 1)
    BY <1>6
  <2> HIDE DEF T
  <2> QED
    BY <1>2, <1>4, <2>1
<1>8. IsFiniteSet(U)
  <2>1. U \subseteq lo .. lo + (n - 1) - 1 /\ lo + (n - 1) - 1 \in Int
    BY <1>2
  <2> HIDE DEF U
  <2>2. IsFiniteSet(lo .. lo + (n - 1) - 1)
    BY <2>1, FS_Interval
  <2> QED
    BY <2>1, <2>2, FS_Subset
<1>9. Cardinality(T(n)) = Cardinality(U) + 1 /\ Cardinality(U) \in Nat
  <2>1. x \notin U
    BY <1>5
  <2>2. Cardinality(U) \in Nat
    BY <1>8, FS_CardinalityType
  <2> HIDE DEF T, U, x
  <2> QED
    BY <1>6, <1>7, <1>8, <2>1, <2>2, FS_AddElement
<1>10. PICK s \in [1 .. Cardinality(U) -> U] : S!Ascending(s) /\ S!Range(s) = U
  BY <1>4
<1> DEFINE c == Cardinality(U)
           r == [i \in 1 .. c + 1 |-> IF i = c + 1 THEN x ELSE s[i]]
<1>11. T(n) = U \cup {x}
  BY <1>6, <1>7
<1>12. x \in Int /\ c \in Nat
  <2>1. x \in Int
    BY <1>2
  <2> HIDE DEF U, x
  <2> QED
    BY <1>9, <2>1
<1> HIDE DEF T, U, x, c
<1>13. r \in [1 .. Cardinality(T(n)) -> T(n)]
  <2>1. \A i \in 1 .. c + 1 : i = c + 1 \/ i \in 1 .. c
    BY <1>12
  <2>2. \A i \in 1 .. c : s[i] \in U
    BY <1>10 DEF c
  <2>3. Cardinality(T(n)) = c + 1
    BY <1>9 DEF c
  <2> QED
    BY <1>11, <2>1, <2>2, <2>3
<1>14. S!Ascending(r)
  <2> SUFFICES ASSUME NEW i \in 1 .. c + 1, NEW j \in 1 .. c + 1, i < j
               PROVE  r[i] < r[j]
    BY DEF S!Ascending
  <2>1. i \in 1 .. c /\ i # c + 1 /\ s[i] \in U
    BY <1>10, <1>12 DEF c
  <2>2. CASE j = c + 1
    BY <1>5, <2>1, <2>2
  <2>3. CASE j # c + 1
    <3>1. j \in 1 .. c
      BY <1>12, <2>3
    <3>2. DOMAIN s = 1 .. c
      BY <1>10 DEF c
    <3> QED
      BY <1>10, <2>1, <2>3, <3>1, <3>2 DEF S!Ascending
  <2> QED
    BY <2>2, <2>3
<1>15. S!Range(r) = T(n)
  <2>1. ASSUME NEW y \in T(n) PROVE \E i \in 1 .. c + 1 : r[i] = y
    <3>1. CASE y = x
      BY <1>12, <3>1
    <3>2. CASE y \in U
      <4>1. PICK i \in 1 .. c : s[i] = y
        BY <1>10, <3>2 DEF S!Range, c
      <4>2. i \in 1 .. c + 1 /\ i # c + 1
        BY <1>12
      <4> QED
        BY <4>1, <4>2
    <3> QED
      BY <1>11, <2>1, <3>1, <3>2
  <2>2. ASSUME NEW i \in 1 .. c + 1 PROVE r[i] \in T(n)
    <3>1. Cardinality(T(n)) = c + 1
      BY <1>9 DEF c
    <3> HIDE DEF r
    <3> QED
      BY <1>13, <3>1
  <2>3. DOMAIN r = 1 .. c + 1
    OBVIOUS
  <2> HIDE DEF r
  <2> QED
    BY <2>1, <2>2, <2>3 DEF S!Range
<1>16. Listed(n)
  <2> HIDE DEF r
  <2> QED
    BY <1>13, <1>14, <1>15
<1> QED
  BY <1>2, <1>16

LEMMA ReadableLists ==
    ASSUME NEW lo \in Nat, NEW hi \in Nat, 1 <= lo, lo <= hi, hi <= MaxMessages
    PROVE  /\ S!Readable(lo, hi) \in Seq(S!Numbers)
           /\ S!Ascending(S!Readable(lo, hi))
           /\ S!Range(S!Readable(lo, hi)) = (lo .. hi) \ Unreadable
<1> DEFINE T == (lo .. hi) \ Unreadable
           s == S!Readable(lo, hi)
<1>1. \E r \in [1 .. Cardinality(T) -> T] : S!Ascending(r) /\ S!Range(r) = T
  <2> DEFINE k == hi - lo + 1
  <2>1. k \in Nat /\ (lo .. lo + k - 1) \ Unreadable = T
    OBVIOUS
  <2> HIDE DEF k, T
  <2> QED
    BY <2>1, ReadableListed
<1>2. /\ s \in [1 .. Cardinality(T) -> T]
      /\ S!Ascending(s) /\ S!Range(s) = T
  <2> HIDE DEF T
  <2>1. s = CHOOSE r \in [1 .. Cardinality(T) -> T] :
              S!Ascending(r) /\ S!Range(r) = T
    BY SameCountingOfQuery DEF S!Readable, T
  <2> HIDE DEF s
  <2> QED
    BY <1>1, <2>1
<1>3. Cardinality(T) \in Nat
  <2>1. T \subseteq lo .. hi
    OBVIOUS
  <2> HIDE DEF T
  <2>2. IsFiniteSet(lo .. hi)
    BY FS_Interval
  <2>3. IsFiniteSet(T)
    BY <2>1, <2>2, FS_Subset
  <2> QED
    BY <2>3, FS_CardinalityType
<1>4. T \subseteq S!Numbers
  BY QueryNumbers DEF S!Numbers
<1>5. s \in Seq(S!Numbers)
  <2> HIDE DEF T, s
  <2>1. s \in [1 .. Cardinality(T) -> S!Numbers]
    BY <1>2, <1>4
  <2> QED
    BY <1>3, <2>1
<1> QED
  BY <1>2, <1>5

\* A page of messages that are all new joins those before.
LEMMA PagesAdd ==
    ASSUME NEW s \in Seq(S!Numbers), NEW r \in Seq(S!Numbers),
           S!IsInjective(s), S!Ascending(r), S!Range(s) \cap S!Range(r) = {}
    PROVE  /\ s \o r \in Seq(S!Numbers)
           /\ S!IsInjective(s \o r)
           /\ S!Range(s \o r) = S!Range(s) \cup S!Range(r)
           /\ S!Ascending(s) /\ (\A x \in S!Range(s), y \in S!Range(r) : x < y)
                => S!Ascending(s \o r)
<1> DEFINE t == s \o r
<1>1. /\ t \in Seq(S!Numbers) /\ Len(s) \in Nat /\ Len(r) \in Nat
      /\ DOMAIN s = 1 .. Len(s) /\ DOMAIN r = 1 .. Len(r)
      /\ DOMAIN t = 1 .. Len(s) + Len(r)
      /\ \A i \in 1 .. Len(s) : i \in DOMAIN t /\ t[i] = s[i]
      /\ \A i \in 1 .. Len(r) : Len(s) + i \in DOMAIN t /\ t[Len(s) + i] = r[i]
  OBVIOUS
<1>2. \A i \in DOMAIN t : \/ i \in 1 .. Len(s)
                          \/ i - Len(s) \in 1 .. Len(r) /\ i > Len(s)
  BY <1>1
<1>3. \A i \in DOMAIN t : i \notin 1 .. Len(s) => t[i] = r[i - Len(s)]
  BY <1>1
<1>4. \A i, j \in DOMAIN r : r[i] = r[j] => i = j
  <2> SUFFICES ASSUME NEW i \in DOMAIN r, NEW j \in DOMAIN r, r[i] = r[j], i # j
               PROVE  FALSE
    OBVIOUS
  <2>1. r[i] \in Int /\ r[j] \in Int
    BY QueryNumbers, <1>1 DEF S!Numbers
  <2>2. i < j \/ j < i
    BY <1>1
  <2> QED
    BY <2>1, <2>2 DEF S!Ascending
<1> HIDE DEF t
<1>5. S!IsInjective(t)
  <2> SUFFICES ASSUME NEW i \in DOMAIN t, NEW j \in DOMAIN t, t[i] = t[j]
               PROVE  i = j
    BY DEF S!IsInjective
  <2>1. CASE i \in 1 .. Len(s) /\ j \in 1 .. Len(s)
    BY <1>1, <2>1 DEF S!IsInjective
  <2>2. CASE i \notin 1 .. Len(s) /\ j \notin 1 .. Len(s)
    <3>1. i - Len(s) = j - Len(s)
      BY <1>1, <1>2, <1>3, <1>4, <2>2
    <3> QED
      BY <1>1, <3>1
  <2>3. \A k \in DOMAIN t : IF k \in 1 .. Len(s) THEN t[k] \in S!Range(s)
                            ELSE t[k] \in S!Range(r)
    <3>1. \A k \in DOMAIN s : s[k] \in S!Range(s)
      BY DEF S!Range
    <3>2. \A k \in DOMAIN r : r[k] \in S!Range(r)
      BY DEF S!Range
    <3> QED
      BY <1>1, <1>2, <1>3, <3>1, <3>2
  <2>4. i \in 1 .. Len(s) <=> j \in 1 .. Len(s)
    BY <2>3
  <2> QED
    BY <2>1, <2>2, <2>4
<1>6. S!Range(t) = S!Range(s) \cup S!Range(r)
  <2>1. ASSUME NEW x \in S!Range(t) PROVE x \in S!Range(s) \cup S!Range(r)
    <3>1. PICK i \in DOMAIN t : x = t[i]
      BY DEF S!Range
    <3> QED
      BY <1>1, <1>2, <1>3, <3>1 DEF S!Range
  <2>2. ASSUME NEW x \in S!Range(s) PROVE x \in S!Range(t)
    BY <1>1 DEF S!Range
  <2>3. ASSUME NEW x \in S!Range(r) PROVE x \in S!Range(t)
    BY <1>1 DEF S!Range
  <2> QED
    BY <2>1, <2>2, <2>3
<1>7. ASSUME S!Ascending(s), \A x \in S!Range(s), y \in S!Range(r) : x < y
      PROVE  S!Ascending(t)
  <2> SUFFICES ASSUME NEW i \in DOMAIN t, NEW j \in DOMAIN t, i < j
               PROVE  t[i] < t[j]
    BY DEF S!Ascending
  <2>1. CASE i \in 1 .. Len(s) /\ j \in 1 .. Len(s)
    BY <1>1, <1>7, <2>1 DEF S!Ascending
  <2>2. CASE i \notin 1 .. Len(s) /\ j \notin 1 .. Len(s)
    <3>1. i - Len(s) < j - Len(s)
      BY <1>1
    <3> QED
      BY <1>1, <1>2, <1>3, <2>2, <3>1 DEF S!Ascending
  <2>3. CASE i \in 1 .. Len(s) /\ j \notin 1 .. Len(s)
    BY <1>1, <1>2, <1>3, <1>7, <2>3 DEF S!Range
  <2>4. CASE i \notin 1 .. Len(s) /\ j \in 1 .. Len(s)
    BY <1>1, <1>2, <2>4
  <2> QED
    BY <2>1, <2>2, <2>3, <2>4
<1> QED
  BY <1>1, <1>5, <1>6, <1>7 DEF t

-----------------------------------------------------------------------------
\* The history grows at one end and shrinks at the other.
LEMMA HistoryKeeps ==
    ASSUME QueryInv, HistoryTyped', query' = query, first <= first', last <= last'
    PROVE  QueryInv'
<1>1. query' \in QueryType /\ CursorFollows'
  BY DEF QueryInv, CursorFollows, S!CursorAfter
<1>2. /\ first \in Int /\ first' \in Int /\ last \in Int /\ last' \in Int
      /\ query.from \in Int /\ query.to \in Int /\ query.hi \in Int
  BY QueryNumbers DEF QueryInv, HistoryTyped, QueryType
<1>3. PageInHistory'
  BY <1>2 DEF QueryInv, PageInHistory, S!PageSize, S!Least
<1>4. DeliveredCovers'
  BY DEF QueryInv, DeliveredCovers, Covered, S!IsInjective, S!Range, S!Ascending
<1>5. S!QueryIsComplete'
  <2>1. S!Expected' \subseteq S!Expected
    BY <1>2 DEF S!Expected, S!Greatest
  <2> QED
    BY <2>1 DEF QueryInv, S!QueryIsComplete, S!Range
<1> QED
  BY <1>1, <1>3, <1>4, <1>5 DEF QueryInv

\* A step of the query between two pages.
LEMMA BetweenPages ==
    ASSUME QueryInv, UNCHANGED <<first, last>>, aborted' \in BOOLEAN,
           query' \in QueryType, CursorFollows',
           query'.forward = query.forward, query'.delivered = query.delivered,
           query'.lo = query.lo, query'.hi = query.hi,
           query'.from = query.from, query'.to = query.to,
           query'.at = "done" => query'.broken
    PROVE  QueryInv'
<1>1. HistoryTyped'
  BY DEF QueryInv, HistoryTyped
<1>2. PageInHistory'
  BY DEF QueryInv, PageInHistory, S!PageSize, S!Least
<1>3. DeliveredCovers'
  BY DEF QueryInv, DeliveredCovers, Covered, S!IsInjective, S!Range, S!Ascending
<1>4. S!QueryIsComplete'
  BY DEF S!QueryIsComplete
<1> QED
  BY <1>1, <1>2, <1>3, <1>4 DEF QueryInv

LEMMA QueryFields ==
    ASSUME QueryInv
    PROVE  /\ query.at \in {"idle", "stream", "request", "page", "done", "failed"}
           /\ query.forward \in BOOLEAN /\ query.cursor \in Nat
           /\ query.lo \in Nat /\ query.hi \in Nat
           /\ query.from \in Nat /\ query.to \in Nat
           /\ query.delivered \in Seq(S!Numbers)
           /\ query.pending \subseteq S!Numbers
           /\ first \in Nat /\ last \in Nat /\ first >= 1
           /\ first <= last + 1 /\ first <= MaxMessages + 1 /\ last <= MaxMessages
BY QueryNumbers DEF QueryInv, QueryType, HistoryTyped, S!Numbers

LEMMA QueryBegins ==
    ASSUME QueryInv, NEW mode \in Modes, NEW forward \in BOOLEAN,
           NEW cursor \in {S!NoMessage} \cup S!Numbers,
           S!Query(mode, forward, cursor)
    PROVE  QueryInv'
<1>1. PICK at \in {"stream", "failed"} :
        query' = [S!NoQuery EXCEPT !.at = at, !.mode = mode, !.forward = forward,
                                   !.cursor = cursor]
  BY DEF S!Query
<1>2. query' = [at |-> at, mode |-> mode, forward |-> forward,
                cursor |-> cursor, lo |-> 1, hi |-> 0, from |-> 1, to |-> 0,
                delivered |-> <<>>, pending |-> {}, abort |-> FALSE,
                broken |-> FALSE]
  BY <1>1 DEF S!NoQuery, S!NoMessage
<1>3. UNCHANGED <<first, last, aborted>> /\ mode \in S!AllModes
  BY WakuNodeAssumption DEF S!Query, S!StoreQueryAssumption
<1>4. query' \in QueryType
  <2>1. <<>> \in Seq(S!Numbers)
    OBVIOUS
  <2> QED
    BY <1>2, <1>3, <2>1 DEF QueryType, S!NoMessage
<1>5. HistoryTyped'
  BY <1>3 DEF QueryInv, HistoryTyped
<1>6. CursorFollows' /\ PageInHistory'
  BY <1>2 DEF CursorFollows, PageInHistory
<1>7. DeliveredCovers' /\ S!QueryIsComplete'
  BY <1>2 DEF DeliveredCovers, S!QueryIsComplete
<1> QED
  BY <1>4, <1>5, <1>6, <1>7 DEF QueryInv

\* The steps that leave the pages alone.
LEMMA QueryStays ==
    ASSUME QueryInv,
           \/ S!GetStream \/ S!RequestFails \/ S!NextPage \/ S!Abort
           \/ \E m \in query.pending :
                S!CallbackThrows(m) \/ \E result \in BOOLEAN : S!CallbackReturns(m, result)
    PROVE  QueryInv'
<1> USE QueryFields
<1>0. query \in QueryType /\ CursorFollows /\ aborted \in BOOLEAN
  BY DEF QueryInv, HistoryTyped
<1>1. CASE S!GetStream
  <2>1. /\ query.at = "stream"
        /\ \/ query' = [query EXCEPT !.at = "request"]
           \/ query' = [query EXCEPT !.at = "done", !.broken = TRUE]
        /\ UNCHANGED <<first, last, aborted>>
    BY <1>1 DEF S!GetStream
  <2>2. CASE query' = [query EXCEPT !.at = "request"]
    <3>1. query' \in QueryType
      BY <1>0, <2>1, <2>2 DEF QueryType
    <3>2. CursorFollows'
      BY <1>0, <2>1, <2>2 DEF QueryType, CursorFollows, S!CursorAfter
    <3> QED
      BY <1>0, <2>1, <2>2, <3>1, <3>2, BetweenPages DEF QueryType
  <2>3. CASE query' = [query EXCEPT !.at = "done", !.broken = TRUE]
    <3>1. query' \in QueryType
      BY <1>0, <2>1, <2>3 DEF QueryType
    <3>2. CursorFollows'
      BY <1>0, <2>1, <2>3 DEF QueryType, CursorFollows, S!CursorAfter
    <3> QED
      BY <1>0, <2>1, <2>3, <3>1, <3>2, BetweenPages DEF QueryType
  <2> QED
    BY <2>1, <2>2, <2>3
<1>2. CASE S!RequestFails
  <2>1. /\ query' = [query EXCEPT !.at = "failed"]
        /\ UNCHANGED <<first, last, aborted>>
    BY <1>2 DEF S!RequestFails
  <2>2. query' \in QueryType /\ CursorFollows'
    BY <1>0, <2>1 DEF QueryType, CursorFollows, S!CursorAfter
  <2> QED
    BY <1>0, <2>1, <2>2, BetweenPages DEF QueryType
<1>3. CASE S!NextPage
  <2>1. ~S!StopsAfterPage(query.hi - query.lo + 1)
    <3>1. query.hi - query.lo + 1 <= S!PageSize
      BY <1>3 DEF QueryInv, CursorFollows, PageInHistory, S!NextPage
    <3> QED
      BY <3>1, QueryNumbers DEF S!StopsAfterPage
  <2>2. /\ query.at = "page" /\ query.pending = {}
        /\ query' = [query EXCEPT !.at = "stream", !.cursor = S!CursorAfter(query)]
        /\ UNCHANGED <<first, last, aborted>>
    BY <1>3, <2>1 DEF S!NextPage, S!PageIsOver
  <2>3. S!CursorAfter(query) \in S!Numbers /\ query.hi > 0
    <3>1. query.hi > 0
      BY <1>0, <2>2 DEF CursorFollows
    <3>2. 1 <= query.lo /\ query.lo <= query.hi /\ query.hi <= MaxMessages
      BY <3>1 DEF QueryInv, PageInHistory
    <3>3. query.lo \in S!Numbers /\ query.hi \in S!Numbers
      BY <3>2, QueryNumbers DEF S!Numbers
    <3> QED
      BY <3>1, <3>3 DEF S!CursorAfter
  <2>4. query' \in QueryType
    BY <1>0, <2>2, <2>3 DEF QueryType
  <2>5. CursorFollows'
    <3>1. S!CursorAfter(query') = S!CursorAfter(query) /\ query'.hi = query.hi
      BY <1>0, <2>2 DEF QueryType, S!CursorAfter
    <3> QED
      BY <1>0, <2>2, <2>3, <3>1 DEF QueryType, CursorFollows
  <2> QED
    BY <1>0, <2>2, <2>4, <2>5, BetweenPages DEF QueryType
<1>4. CASE S!Abort
  <2>1. /\ query.pending = {}
        /\ query' = [query EXCEPT !.at = "done", !.broken = TRUE]
        /\ UNCHANGED <<first, last, aborted>>
    BY <1>4 DEF S!Abort, S!PageIsOver
  <2>2. query' \in QueryType /\ CursorFollows'
    BY <1>0, <2>1 DEF QueryType, CursorFollows, S!CursorAfter
  <2> QED
    BY <1>0, <2>1, <2>2, BetweenPages DEF QueryType
<1>5. ASSUME NEW m \in query.pending, S!CallbackThrows(m) PROVE QueryInv'
  <2>1. /\ query' = [query EXCEPT !.at = "failed", !.pending = query.pending \ {m}]
        /\ UNCHANGED <<first, last, aborted>>
    BY <1>5 DEF S!CallbackThrows
  <2>2. query' \in QueryType /\ CursorFollows'
    BY <1>0, <2>1 DEF QueryType, CursorFollows, S!CursorAfter
  <2> QED
    BY <1>0, <2>1, <2>2, BetweenPages DEF QueryType
<1>6. ASSUME NEW m \in query.pending, NEW result \in BOOLEAN,
             S!CallbackReturns(m, result)
      PROVE  QueryInv'
  <2>1. /\ query.at = "page"
        /\ query' = [query EXCEPT !.pending = query.pending \ {m}, !.abort = result]
        /\ UNCHANGED <<first, last>>
    BY <1>6 DEF S!CallbackReturns
  <2>2. aborted' \in BOOLEAN
    BY <1>6 DEF S!CallbackReturns
  <2>3. query' \in QueryType /\ CursorFollows'
    BY <1>0, <2>1 DEF QueryType, CursorFollows, S!CursorAfter
  <2> QED
    BY <1>0, <2>1, <2>2, <2>3, BetweenPages DEF QueryType
<1> QED
  BY <1>1, <1>2, <1>3, <1>4, <1>5, <1>6

\* The page of a reply: it lies in the history, at the end that was asked for or
\* next to the pages before.
LEMMA PageLies ==
    ASSUME QueryInv, query.at = "request", S!KnowsCursor,
           NEW page, page = S!PageOf(query)
    PROVE  /\ page.lo \in Int /\ page.hi \in Int
           /\ page.hi <= last /\ page.hi - page.lo + 1 <= S!PageSize
           /\ S!FirstAsked(query) \in Nat /\ S!LastAsked(query) \in Nat
           /\ S!FirstAsked(query) >= first /\ S!LastAsked(query) <= last
           /\ query.hi = 0 /\ query.forward =>
                page.lo = S!FirstAsked(query) /\ S!LastAsked(query) = last
           /\ query.hi = 0 /\ ~query.forward =>
                /\ page.hi = S!LastAsked(query) /\ S!FirstAsked(query) = first
                /\ page.lo >= first
           /\ query.hi > 0 /\ query.forward => page.lo = query.hi + 1
           /\ query.hi > 0 /\ ~query.forward =>
                page.hi = query.lo - 1 /\ page.lo >= first
           /\ page.lo > page.hi =>
                /\ query.hi = 0 => S!FirstAsked(query) > S!LastAsked(query)
                /\ query.hi > 0 /\ query.forward => query.hi >= last
                /\ query.hi > 0 /\ ~query.forward => query.lo <= first
<1> USE QueryFields, QueryNumbers
<1>0. /\ query.cursor = 0 \/ (first <= query.cursor /\ query.cursor <= last)
      /\ S!FirstAsked(query) =
           IF query.forward /\ query.cursor # 0 THEN query.cursor + 1 ELSE first
      /\ S!LastAsked(query) =
           IF ~query.forward /\ query.cursor # 0 THEN query.cursor - 1 ELSE last
  BY DEF S!KnowsCursor, S!FirstAsked, S!LastAsked, S!NoMessage
<1>00. /\ S!FirstAsked(query) \in Nat /\ S!LastAsked(query) \in Nat
       /\ S!FirstAsked(query) >= first /\ S!LastAsked(query) <= last
  BY <1>0
<1>1. /\ query.hi > 0 => query.cursor = IF query.forward THEN query.hi ELSE query.lo
      /\ query.hi > 0 => query.cursor # 0 /\ query.lo <= query.hi /\ query.hi <= last
  BY SMTT(30) DEF QueryInv, CursorFollows, PageInHistory, S!CursorAfter
<1>2. CASE query.forward
  <2> DEFINE lo == S!FirstAsked(query)
  <2>1. lo \in Int /\ (query.hi > 0 => lo = query.hi + 1)
    BY <1>0, <1>00, <1>1, <1>2
  <2>2. page.lo = lo /\ page.hi = S!Least(lo + S!PageSize - 1, last)
    BY <1>2 DEF S!PageOf
  <2> HIDE DEF lo
  <2>3. /\ page.hi <= lo + S!PageSize - 1 /\ page.hi <= last /\ page.hi \in Int
        /\ page.hi = last \/ page.hi = lo + S!PageSize - 1
    <3>1. page.hi = IF lo + S!PageSize - 1 < last THEN lo + S!PageSize - 1 ELSE last
      BY <2>2 DEF S!Least
    <3>2. lo + S!PageSize - 1 \in Int /\ last \in Int
      BY <2>1
    <3> QED
      BY <3>1, <3>2
  <2>4. S!LastAsked(query) = last /\ lo = S!FirstAsked(query)
    BY <1>0, <1>2 DEF lo
  <2> QED
    BY SMTT(30), <1>00, <1>1, <1>2, <2>1, <2>2, <2>3, <2>4
<1>3. CASE ~query.forward
  <2> DEFINE hi == S!LastAsked(query)
  <2>1. hi \in Int /\ (query.hi > 0 => hi = query.lo - 1)
    BY <1>0, <1>00, <1>1, <1>3
  <2>2. page.hi = hi /\ page.lo = S!Greatest(hi - S!PageSize + 1, first)
    BY <1>3 DEF S!PageOf
  <2>3. /\ page.lo >= hi - S!PageSize + 1 /\ page.lo >= first /\ page.lo \in Int
        /\ page.lo = first \/ page.lo = hi - S!PageSize + 1
    BY SMTT(30), <2>1, <2>2 DEF S!Greatest
  <2>4. /\ hi = S!LastAsked(query) /\ hi <= last /\ S!FirstAsked(query) = first
        /\ query.hi > 0 => hi = query.lo - 1
    BY <1>0, <1>00, <1>3, <2>1
  <2> HIDE DEF hi
  <2>5. /\ page.lo \in Int /\ page.hi \in Int
        /\ page.hi - page.lo + 1 <= S!PageSize
        /\ page.lo > page.hi => page.lo = first
    BY SMTT(30), <2>1, <2>2, <2>3
  <2>6. CASE query.hi = 0
    BY <1>00, <1>3, <2>1, <2>2, <2>3, <2>4, <2>5, <2>6
  <2>7. CASE query.hi > 0
    <3>1. page.hi = query.lo - 1 /\ page.hi <= last
      BY <1>1, <2>2, <2>4, <2>7
    <3>2. page.lo > page.hi => query.lo <= first
      BY <2>5, <3>1
    <3> QED
      BY SMTT(30), <1>00, <1>3, <2>3, <2>5, <2>7, <3>1, <3>2
  <2> QED
    BY <2>6, <2>7
<1> QED
  BY <1>2, <1>3

\* The reply arrives.
LEMMA ReplyKeeps ==
    ASSUME QueryInv, S!Reply
    PROVE  QueryInv'
<1> USE QueryNumbers
<1> DEFINE page == S!PageOf(query)
           start == S!FirstAsked(query)
           end == S!LastAsked(query)
           from == IF query.hi = 0 THEN start ELSE query.from
           to == IF query.hi = 0 THEN end ELSE query.to
<1>1. /\ query.at = "request" /\ UNCHANGED <<first, last, aborted>>
      /\ S!KnowsCursor
  BY DEF S!Reply
<1>2. \/ /\ page.lo > page.hi
         /\ query' = [query EXCEPT !.at = "done", !.from = from, !.to = to]
      \/ /\ ~(page.lo > page.hi)
         /\ query' = [query EXCEPT
              !.at = "page", !.lo = page.lo, !.hi = page.hi,
              !.from = from, !.to = to,
              !.delivered = query.delivered \o S!Readable(page.lo, page.hi),
              !.pending = S!Callbacks(query.mode, page.lo, page.hi)]
  BY <1>1 DEF S!Reply, S!NoMessage
<1>a. /\ start \in Nat /\ end \in Nat /\ start >= first /\ end <= last
  <2> HIDE DEF page
  <2> QED
    BY <1>1, PageLies
<1> HIDE DEF start, end
<1>3. from \in Nat /\ to \in Nat
  BY <1>a, QueryFields
<1>4. /\ query \in QueryType /\ CursorFollows /\ PageInHistory /\ DeliveredCovers
      /\ HistoryTyped'
  BY <1>1 DEF QueryInv, HistoryTyped
<1>5. /\ query.hi = 0 => from = start /\ to = end
      /\ query.hi > 0 => from = query.from /\ to = query.to
  BY QueryFields
<1>6. query.hi > 0 =>
        /\ 1 <= query.lo /\ query.lo <= query.hi /\ query.hi <= last
        /\ 1 <= query.from /\ query.to <= last
        /\ query.from <= query.to
        /\ query.forward => query.from <= query.lo
        /\ ~query.forward => query.hi <= query.to
  BY <1>4 DEF PageInHistory
<1> DEFINE D == S!Range(query.delivered)
<1>7. /\ query.hi = 0 => D = {}
      /\ query.hi > 0 => D = Covered \ Unreadable
      /\ S!IsInjective(query.delivered)
      /\ query.forward => S!Ascending(query.delivered)
  BY <1>4, QueryFields DEF DeliveredCovers, S!Range, S!IsInjective, S!Ascending
<1>8. /\ page.lo \in Int /\ page.hi \in Int
      /\ page.hi <= last /\ page.hi - page.lo + 1 <= S!PageSize
      /\ query.hi = 0 /\ query.forward => page.lo = start /\ end = last
      /\ query.hi = 0 /\ ~query.forward =>
           page.hi = end /\ start = first /\ page.lo >= first
      /\ query.hi > 0 /\ query.forward => page.lo = query.hi + 1
      /\ query.hi > 0 /\ ~query.forward =>
           page.hi = query.lo - 1 /\ page.lo >= first
      /\ page.lo > page.hi =>
           /\ query.hi = 0 => start > end
           /\ query.hi > 0 /\ query.forward => query.hi >= last
           /\ query.hi > 0 /\ ~query.forward => query.lo <= first
  <2> HIDE DEF page
  <2>1. page = S!PageOf(query)
    BY DEF page
  <2> QED
    BY <1>1, <2>1, PageLies DEF start, end
<1> HIDE DEF page, from, to, D
<1>9. CASE /\ page.lo > page.hi
           /\ query' = [query EXCEPT !.at = "done", !.from = from, !.to = to]
  <2>1. query' \in QueryType
    BY <1>3, <1>4, <1>9 DEF QueryType
  <2>2. /\ query'.at = "done" /\ query'.hi = query.hi /\ query'.lo = query.lo
        /\ query'.from = from /\ query'.to = to /\ query'.pending = query.pending
        /\ query'.forward = query.forward /\ query'.delivered = query.delivered
    BY <1>4, <1>9 DEF QueryType
  <2>3. CursorFollows'
    BY <1>1, <1>4, <2>2 DEF CursorFollows
  <2>4. PageInHistory'
    BY <1>1, <1>4, <1>5, <2>2 DEF PageInHistory, S!PageSize, S!Least
  <2>5. DeliveredCovers'
    BY <1>4, <1>5, <2>2, QueryFields
       DEF DeliveredCovers, Covered, S!IsInjective, S!Range, S!Ascending
  <2>0. /\ S!Greatest(first, from) >= first /\ S!Greatest(first, from) >= from
        /\ S!Greatest(first, from) \in Nat
    BY <1>3, QueryFields DEF S!Greatest
  <2>6. (S!Greatest(first, from) .. to) \ Unreadable \subseteq D
    <3>1. CASE query.hi = 0
      BY <1>a, <1>5, <1>8, <1>9, <2>0, <3>1, QueryFields
    <3>2. CASE query.hi > 0 /\ query.forward
      <4>1. S!Greatest(first, from) .. to \subseteq Covered
        BY SMTT(30), <1>5, <1>6, <1>8, <1>9, <2>0, <3>2, QueryFields DEF Covered
      <4> QED
        BY <1>7, <3>2, <4>1
    <3>3. CASE query.hi > 0 /\ ~query.forward
      <4>1. S!Greatest(first, from) .. to \subseteq Covered
        BY SMTT(30), <1>5, <1>6, <1>8, <1>9, <2>0, <3>3, QueryFields DEF Covered
      <4> QED
        BY <1>7, <3>3, <4>1
    <3> QED
      BY <3>1, <3>2, <3>3, QueryFields
  <2>7. S!QueryIsComplete'
    <3>1. S!Range(query.delivered)' = D
      BY <2>2 DEF S!Range, D
    <3>2. S!Expected' = (S!Greatest(first, from) .. to) \ Unreadable
      BY <1>1, <2>2 DEF S!Expected, S!Greatest
    <3> QED
      BY <2>6, <3>1, <3>2 DEF S!QueryIsComplete
  <2> QED
    BY <1>4, <2>1, <2>3, <2>4, <2>5, <2>7 DEF QueryInv
<1>10. CASE /\ ~(page.lo > page.hi)
            /\ query' = [query EXCEPT
                 !.at = "page", !.lo = page.lo, !.hi = page.hi,
                 !.from = from, !.to = to,
                 !.delivered = query.delivered \o S!Readable(page.lo, page.hi),
                 !.pending = S!Callbacks(query.mode, page.lo, page.hi)]
  <2> DEFINE lo == page.lo
             hi == page.hi
             r == S!Readable(lo, hi)
             pending == S!Callbacks(query.mode, lo, hi)
             s == query.delivered \o r
  <2>1. lo \in Nat /\ hi \in Nat /\ 1 <= lo /\ lo <= hi /\ hi <= MaxMessages
    <3>1. lo \in Int /\ hi \in Int /\ lo <= hi /\ hi <= last
      BY <1>8, <1>10
    <3>2. 1 <= lo
      <4>1. CASE query.hi = 0
        BY <1>a, <1>8, <4>1, QueryFields
      <4>2. CASE query.hi > 0
        BY <1>6, <1>8, <4>2, QueryFields
      <4> QED
        BY <4>1, <4>2, QueryFields
    <3> HIDE DEF lo, hi
    <3> QED
      BY <3>1, <3>2, QueryFields
  <2>2. pending \subseteq S!Numbers
    <3>1. query.mode \in S!AllModes
      BY <1>4 DEF QueryType
    <3>2. pending \subseteq lo .. hi
      <4> HIDE DEF lo, hi
      <4> QED
        BY <3>1 DEF S!Callbacks, S!AllModes
    <3> HIDE DEF pending, lo, hi
    <3> QED
      BY <2>1, <3>2 DEF S!Numbers
  <2>3. /\ r \in Seq(S!Numbers) /\ S!Ascending(r)
        /\ S!Range(r) = (lo .. hi) \ Unreadable
    <3> HIDE DEF lo, hi
    <3> QED
      BY <2>1, ReadableLists
  <2>4. /\ query.forward => \A x \in D : x < lo
        /\ ~query.forward => \A x \in D : x > hi
    <3>1. CASE query.hi = 0
      BY <1>7, <3>1
    <3>2. CASE query.hi > 0 /\ query.forward
      <4>1. lo = query.hi + 1 /\ \A x \in D : x \in query.from .. query.hi
        BY <1>7, <1>8, <3>2 DEF Covered
      <4> QED
        BY <3>2, <4>1, QueryFields
    <3>3. CASE query.hi > 0 /\ ~query.forward
      <4>1. hi = query.lo - 1 /\ \A x \in D : x \in query.lo .. query.to
        BY <1>7, <1>8, <3>3 DEF Covered
      <4> QED
        BY <3>3, <4>1, QueryFields
    <3> QED
      BY <3>1, <3>2, <3>3, QueryFields
  <2>5. /\ s \in Seq(S!Numbers) /\ S!IsInjective(s)
        /\ S!Range(s) = D \cup ((lo .. hi) \ Unreadable)
        /\ query.forward => S!Ascending(s)
    <3> HIDE DEF r, lo, hi
    <3>1. D \subseteq Int
      BY QueryFields DEF D, S!Range, S!Numbers
    <3>2. D \cap S!Range(r) = {}
      BY <2>1, <2>3, <2>4, <3>1, QueryFields
    <3>3. query.forward => \A x \in D, y \in S!Range(r) : x < y
      BY <2>1, <2>3, <2>4, <3>1
    <3> QED
      BY <1>7, <2>3, <3>2, <3>3, PagesAdd, QueryFields DEF D
  <2>6. query' = [query EXCEPT
              !.at = "page", !.lo = lo, !.hi = hi, !.from = from, !.to = to,
              !.delivered = s, !.pending = pending]
    BY <1>10
  <2> HIDE DEF lo, hi, r, pending, s
  <2>7. query' \in QueryType
    BY <1>3, <1>4, <2>1, <2>2, <2>5, <2>6 DEF QueryType
  <2>8. /\ query'.at = "page" /\ query'.hi = hi /\ query'.lo = lo
        /\ query'.from = from /\ query'.to = to
        /\ query'.forward = query.forward /\ query'.delivered = s
    BY <1>4, <2>6 DEF QueryType
  <2>9. CursorFollows' /\ S!QueryIsComplete'
    BY <2>1, <2>8 DEF CursorFollows, S!QueryIsComplete
  <2>10. /\ hi <= last /\ hi - lo + 1 <= S!PageSize
         /\ query.hi = 0 /\ query.forward => lo = start /\ end = last
         /\ query.hi = 0 /\ ~query.forward => hi = end /\ start = first /\ lo >= first
         /\ query.hi > 0 /\ query.forward => lo = query.hi + 1
         /\ query.hi > 0 /\ ~query.forward => hi = query.lo - 1 /\ lo >= first
    BY <1>8 DEF lo, hi
  <2>11. /\ 1 <= from /\ to <= last /\ from <= to
         /\ query.forward => from <= lo
         /\ ~query.forward => hi <= to
    <3>1. CASE query.hi = 0
      BY <1>a, <1>5, <2>1, <2>10, <3>1, QueryFields
    <3>2. CASE query.hi > 0
      BY <1>5, <1>6, <2>1, <2>10, <3>2, QueryFields
    <3> QED
      BY <3>1, <3>2, QueryFields
  <2>12. PageInHistory'
    BY <1>1, <2>1, <2>8, <2>10, <2>11 DEF PageInHistory, S!PageSize, S!Least
  <2>13. Covered' \ Unreadable = D \cup ((lo .. hi) \ Unreadable)
    <3>1. CASE query.hi = 0
      <4>1. Covered' = lo .. hi
        BY <1>5, <2>1, <2>8, <2>10, <3>1, QueryFields DEF Covered
      <4> QED
        BY <1>7, <3>1, <4>1
    <3>2. CASE query.hi > 0
      <4>1. Covered' = Covered \cup (lo .. hi)
        <5>1. CASE query.forward
          BY SMTT(30), <1>5, <1>6, <2>1, <2>8, <2>10, <3>2, <5>1, QueryFields DEF Covered
        <5>2. CASE ~query.forward
          BY SMTT(30), <1>5, <1>6, <2>1, <2>8, <2>10, <3>2, <5>2, QueryFields DEF Covered
        <5> QED
          BY <5>1, <5>2
      <4> QED
        BY <1>7, <3>2, <4>1
    <3> QED
      BY <3>1, <3>2, QueryFields
  <2>14. DeliveredCovers'
    <3>1. query'.hi > 0
      BY <2>1, <2>8
    <3>2. /\ S!Range(query.delivered)' = S!Range(s)
          /\ S!IsInjective(query.delivered)' = S!IsInjective(s)
          /\ S!Ascending(query.delivered)' = S!Ascending(s)
      BY <2>8 DEF S!Range, S!IsInjective, S!Ascending
    <3> QED
      BY <2>5, <2>8, <2>13, <3>1, <3>2 DEF DeliveredCovers
  <2> QED
    BY <1>4, <2>7, <2>9, <2>12, <2>14 DEF QueryInv
<1> QED
  BY <1>2, <1>9, <1>10

LEMMA QueryStepKeeps == QueryInv /\ [Next]_vars => QueryInv'
<1> SUFFICES ASSUME QueryInv, [Next]_vars PROVE QueryInv'
  OBVIOUS
<1>1. CASE S!Store \/ S!Drop \/ UNCHANGED storeVars
  <2>1. /\ query' = query /\ first <= first' /\ last <= last'
        /\ HistoryTyped'
    BY <1>1, QueryFields, QueryNumbers
       DEF QueryInv, S!Store, S!Drop, storeVars, HistoryTyped
  <2> QED
    BY <2>1, HistoryKeeps
<1>2. CASE HistoryChanges
  BY <1>1, <1>2 DEF HistoryChanges
<1>3. CASE QueryGoesOn
  BY <1>3, QueryStays, ReplyKeeps DEF QueryGoesOn, S!QueryStep
<1>4. CASE \E mode \in Modes, forward \in BOOLEAN, cursor \in {S!NoMessage} \cup S!Numbers :
             LightNodeQueries(mode, forward, cursor)
  BY <1>4, QueryBegins DEF LightNodeQueries
<1>5. CASE UNCHANGED storeVars
  BY <1>1, <1>5
<1>6. CASE \/ RelayStarts \/ RelayMesh \/ RelayProcesses \/ RelayIterates \/ RelayIsUsed
           \/ StartRelayNode \/ StopRelayNode
           \/ \E withTimeout \in BOOLEAN : RelayNodeWaits(withTimeout)
           \/ RelayNodeFindsPeers \/ RelayNodeTimeout
           \/ LightPass \/ LightTimeout \/ LightStep \/ StartLightNode \/ StopLightNode
           \/ FilterIsUsed \/ UNCHANGED vars
  <2>1. UNCHANGED storeVars
    BY <1>6 DEF RelayStarts, RelayMesh, RelayProcesses, RelayIterates, RelayIsUsed,
                StartRelayNode, StopRelayNode, OfRelay, RelayNodeWaits,
                RelayNodeFindsPeers, RelayNodeTimeout, LightPass, LightTimeout,
                LightStep, StartLightNode, StopLightNode, OfLight, FilterIsUsed, vars
  <2> QED
    BY <1>5, <2>1
<1> QED
  BY <1>2, <1>3, <1>4, <1>6 DEF Next

LEMMA QueryInitHolds == Init => QueryInv
<1> SUFFICES ASSUME S!Init PROVE QueryInv
  BY DEF Init
<1>1. query = [at |-> "idle", mode |-> "generator", forward |-> TRUE,
               cursor |-> 0, lo |-> 1, hi |-> 0, from |-> 1, to |-> 0,
               delivered |-> <<>>, pending |-> {}, abort |-> FALSE,
               broken |-> FALSE]
  BY DEF S!Init, S!NoQuery, S!NoMessage
<1>2. query \in QueryType
  <2>1. <<>> \in Seq(S!Numbers)
    OBVIOUS
  <2> QED
    BY <1>1, <2>1 DEF QueryType, S!AllModes
<1>3. HistoryTyped
  <2>1. first = 1 /\ last \in 0 .. MaxMessages
    BY DEF S!Init
  <2>2. aborted \in BOOLEAN
    BY DEF S!Init
  <2> QED
    BY <2>1, <2>2, QueryNumbers DEF HistoryTyped
<1>4. CursorFollows /\ PageInHistory
  BY <1>1 DEF CursorFollows, PageInHistory
<1>5. DeliveredCovers /\ S!QueryIsComplete
  BY <1>1 DEF DeliveredCovers, S!QueryIsComplete
<1> QED
  BY <1>2, <1>3, <1>4, <1>5 DEF QueryInv

\* A history query delivers each message of its pages once, in order when it goes
\* forward, and leaves out none that the service node had and kept: for any
\* history, page size, limit and decoders.
THEOREM QueryAlwaysExact == Spec => []QueryExact
<1>1. QueryInv => QueryExact
  <2> SUFFICES ASSUME QueryInv PROVE S!TypeOK /\ S!PagesJoin
    BY DEF QueryExact, PagesJoin, QueryIsComplete, QueryInv
  <2>1. S!TypeOK
    <3>1. DOMAIN query = DOMAIN S!NoQuery
      BY DEF QueryInv, QueryType, S!NoQuery
    <3>2. /\ query.mode \in S!AllModes
          /\ {query.forward, query.abort, query.broken, aborted} \subseteq BOOLEAN
      BY DEF QueryInv, QueryType, HistoryTyped
    <3>3. query.cursor \in {S!NoMessage} \cup S!Numbers
      BY DEF QueryInv, QueryType, S!NoMessage
    <3>4. query.at = "page" =>
            query.lo \in S!Numbers /\ query.hi \in query.lo .. MaxMessages
      BY QueryFields, QueryNumbers
         DEF QueryInv, CursorFollows, PageInHistory, S!Numbers
    <3> QED
      BY <3>1, <3>2, <3>3, <3>4, QueryFields
         DEF QueryInv, HistoryTyped, CursorFollows, S!TypeOK
  <2>2. S!PagesJoin
    <3>1. query.delivered # <<>> => query.hi > 0
      BY QueryFields DEF QueryInv, DeliveredCovers
    <3> QED
      BY <3>1 DEF QueryInv, DeliveredCovers, Covered, S!PagesJoin
  <2> QED
    BY <2>1, <2>2
<1>2. Spec => []QueryInv
  BY QueryInitHolds, QueryStepKeeps, PTL DEF Spec
<1> QED
  BY <1>1, <1>2, PTL
=================================================================================
