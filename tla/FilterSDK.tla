------------------------------- MODULE FilterSDK -------------------------------
(***************************************************************************)
(* The Filter objects of the nodes of one process                          *)
(* (sdk/src/protocols/filter/index.ts): each keeps one SubscriptionManager *)
(* per pubsub topic, made by the first subscribe, and hands it every       *)
(* message of the topic.  The reliability monitor of a subscription comes  *)
(* from a static registry (sdk/src/reliability_monitor/index.ts) that all  *)
(* nodes share, and it decides what was received before.  What goes on     *)
(* inside one subscription is in the module SubscriptionManager.           *)
(***************************************************************************)
EXTENDS Naturals, FiniteSets

CONSTANTS
    FilterNodes,     \* the nodes
    ConfiguredOn,    \* [FilterNodes -> the pubsub topics it is configured for]
    Subscribers,     \* calls of subscribe: [node, decoders], where decoders is
                     \* a set of [topic, contentTopic]; a message is one too
    Incoming,          \* what the service nodes may push
    MaxPushes        \* bound on the pushes of one message to one node

PubsubTopics == UNION {ConfiguredOn[n] : n \in FilterNodes}
Subscriptions == 1 .. Cardinality(FilterNodes \X PubsubTopics)
None == 0

\* What is assumed of the constants, where this module is instantiated.
FilterAssumption ==
    /\ \A s \in Subscribers :
         /\ s.node \in FilterNodes
         /\ s.decoders # {} /\ IsFiniteSet(s.decoders)
         /\ \A d \in s.decoders :
              d = [topic |-> d.topic, contentTopic |-> d.contentTopic]
    /\ \A m \in Incoming : m.topic \in PubsubTopics
    /\ MaxPushes \in Nat

VARIABLES
    activeSubscriptions,   \* of each node and topic: the subscription, or None
    receiverMonitors,      \* static: the monitor of a topic, or None; a monitor
                           \* has the number of the subscription it was made for
    monitorOf,             \* this.reliabilityMonitor of each subscription
    subscriptionCallbacks, \* of each subscription: <<content topic, subscriber>>
    receivedMessages,      \* of each monitor
    subscriber,            \* how far each call is, and its subscription
    pushes,                \* how often a message came to a node
    given                  \* how often it was given to a callback there

filterVars == <<activeSubscriptions, receiverMonitors, monitorOf,
                subscriptionCallbacks, receivedMessages, subscriber, pushes, given>>

Stages == {"new", "asking", "refused", "subscribing", "subscribed",
           "unsubscribing", "unsubscribed"}
ContentTopics == {m.contentTopic : m \in Incoming \cup UNION {s.decoders : s \in Subscribers}}

FilterTypeOK ==
    /\ activeSubscriptions \in
         [FilterNodes -> [PubsubTopics -> Subscriptions \cup {None}]]
    /\ receiverMonitors \in [PubsubTopics -> Subscriptions \cup {None}]
    /\ monitorOf \in [Subscriptions -> Subscriptions \cup {None}]
    /\ subscriptionCallbacks \in
         [Subscriptions -> SUBSET (ContentTopics \X Subscribers)]
    /\ receivedMessages \in [Subscriptions -> SUBSET Incoming]
    /\ subscriber \in [Subscribers -> [at : Stages,
                                       subscription : Subscriptions \cup {None}]]
    /\ pushes \in [FilterNodes \X Incoming -> 0 .. MaxPushes]
    /\ given \in [FilterNodes \X Incoming -> 0 .. MaxPushes]

FilterInit ==
    /\ activeSubscriptions = [n \in FilterNodes |-> [t \in PubsubTopics |-> None]]
    /\ receiverMonitors = [t \in PubsubTopics |-> None]
    /\ monitorOf = [x \in Subscriptions |-> None]
    /\ subscriptionCallbacks = [x \in Subscriptions |-> {}]
    /\ receivedMessages = [x \in Subscriptions |-> {}]
    /\ subscriber = [s \in Subscribers |-> [at |-> "new", subscription |-> None]]
    /\ pushes = [nm \in FilterNodes \X Incoming |-> 0]
    /\ given = pushes

-----------------------------------------------------------------------------
getUniquePubsubTopics(s) == {d.topic : d \in s.decoders}
pubsubTopic(s) == CHOOSE t \in getUniquePubsubTopics(s) : TRUE
contentTopics(s) == {d.contentTopic : d \in s.decoders}

Moves(s, stage) == subscriber' = [subscriber EXCEPT ![s].at = stage]

\* subscribe: decoders of several pubsub topics are an error, a topic that the
\* node is not configured for throws; then hasPeers waits.
Subscribe(s) ==
    /\ subscriber[s].at = "new"
    /\ Moves(s, IF Cardinality(getUniquePubsubTopics(s)) = 1
                   /\ pubsubTopic(s) \in ConfiguredOn[s.node]
                THEN "asking" ELSE "refused")
    /\ UNCHANGED <<activeSubscriptions, receiverMonitors, monitorOf,
                   subscriptionCallbacks, receivedMessages, pushes, given>>

NoPeers(s) ==
    /\ subscriber[s].at = "asking"
    /\ Moves(s, "refused")
    /\ UNCHANGED <<activeSubscriptions, receiverMonitors, monitorOf,
                   subscriptionCallbacks, receivedMessages, pushes, given>>

\* The subscription of the topic, looked up once there are peers; the mutant
\* always makes one.
AlwaysNew(n, t) == None
getActiveSubscription(n, t) == activeSubscriptions[n][t]

Unmade == {x \in Subscriptions : monitorOf[x] = None}
NextSubscription == CHOOSE x \in Unmade : \A y \in Unmade : x <= y

\* createReceiverMonitor: the registered one of the topic, whoever made it.
createReceiverMonitor(t, x) ==
    IF receiverMonitors[t] # None THEN receiverMonitors[t] ELSE x

\* createSubscription goes on with peers: the subscription there is, or a new one.
createSubscription(s) ==
    LET t == pubsubTopic(s)
        old == getActiveSubscription(s.node, t)
        x == NextSubscription
    IN  /\ subscriber[s].at = "asking"
        /\ IF old # None
           THEN /\ subscriber' = [subscriber EXCEPT
                                    ![s] = [at |-> "subscribing", subscription |-> old]]
                /\ UNCHANGED <<activeSubscriptions, receiverMonitors, monitorOf>>
           ELSE /\ Unmade # {}
                /\ activeSubscriptions' = [activeSubscriptions EXCEPT ![s.node][t] = x]
                /\ receiverMonitors' =
                     [receiverMonitors EXCEPT ![t] = createReceiverMonitor(t, x)]
                /\ monitorOf' = [monitorOf EXCEPT ![x] = createReceiverMonitor(t, x)]
                /\ subscriber' = [subscriber EXCEPT
                                    ![s] = [at |-> "subscribing", subscription |-> x]]
        /\ UNCHANGED <<subscriptionCallbacks, receivedMessages, pushes, given>>

\* The callback of a content topic takes the place of the one before.
Without(x, topics) ==
    {cb \in subscriptionCallbacks[x] : cb[1] \notin topics}

\* The requests of subscribe are settled, and it returns.
SubscribeReturns(s) ==
    LET x == subscriber[s].subscription IN
    /\ subscriber[s].at = "subscribing"
    /\ Moves(s, "subscribed")
    /\ subscriptionCallbacks' = [subscriptionCallbacks EXCEPT
                                   ![x] = Without(x, contentTopics(s))
                                          \cup contentTopics(s) \X {s}]
    /\ UNCHANGED <<activeSubscriptions, receiverMonitors, monitorOf,
                   receivedMessages, pushes, given>>

\* The function that subscribeWithUnsubscribe returned, or unsubscribe of the
\* content topics of the call.
Unsubscribe(s) ==
    /\ subscriber[s].at = "subscribed"
    /\ Moves(s, "unsubscribing")
    /\ UNCHANGED <<activeSubscriptions, receiverMonitors, monitorOf,
                   subscriptionCallbacks, receivedMessages, pushes, given>>

\* What the answer of a peer to unsubscribe removes; the mutant removes all.
AllTopics(s) == ContentTopics
UnsubscribedTopics(s) == contentTopics(s)

\* One more peer answers; it may be the last one, or there is none.
UnsubscribeAnswer(s) ==
    LET x == subscriber[s].subscription IN
    /\ subscriber[s].at = "unsubscribing"
    /\ subscriptionCallbacks' = [subscriptionCallbacks EXCEPT
                                   ![x] = Without(x, UnsubscribedTopics(s))]
    /\ UNCHANGED <<activeSubscriptions, receiverMonitors, monitorOf,
                   receivedMessages, subscriber, pushes, given>>

UnsubscribeReturns(s) ==
    /\ subscriber[s].at = "unsubscribing"
    /\ Moves(s, "unsubscribed")
    /\ UNCHANGED <<activeSubscriptions, receiverMonitors, monitorOf,
                   subscriptionCallbacks, receivedMessages, pushes, given>>

\* notifyMessageReceived; the mutant forgets.
NotNoted(x, m) == receivedMessages
Noted(x, m) == [receivedMessages EXCEPT ![x] = @ \cup {m}]

\* A service node pushes a message: the subscription of its pubsub topic, if
\* there is one, takes it, and the callback of its content topic gets it, unless
\* the monitor of the subscription knows it.
Push(n, m) ==
    LET x == activeSubscriptions[n][m.topic] IN
    /\ x # None
    /\ pushes[<<n, m>>] < MaxPushes
    /\ pushes' = [pushes EXCEPT ![<<n, m>>] = @ + 1]
    /\ receivedMessages' = Noted(monitorOf[x], m)
    /\ given' = IF /\ m \notin receivedMessages[monitorOf[x]]
                   /\ \E cb \in subscriptionCallbacks[x] : cb[1] = m.contentTopic
                THEN [given EXCEPT ![<<n, m>>] = @ + 1] ELSE given
    /\ UNCHANGED <<activeSubscriptions, receiverMonitors, monitorOf,
                   subscriptionCallbacks, subscriber>>

\* WakuNode.stop of any node: stopAll empties the registry, and subscriptions
\* keep the monitor they have.
stopAll ==
    /\ receiverMonitors # [t \in PubsubTopics |-> None]
    /\ receiverMonitors' = [t \in PubsubTopics |-> None]
    /\ UNCHANGED <<activeSubscriptions, monitorOf, subscriptionCallbacks,
                   receivedMessages, subscriber, pushes, given>>

SubscriberStep(s) ==
    \/ Subscribe(s) \/ NoPeers(s) \/ createSubscription(s) \/ SubscribeReturns(s)
    \/ Unsubscribe(s) \/ UnsubscribeAnswer(s) \/ UnsubscribeReturns(s)

FilterStep ==
    \/ \E s \in Subscribers : SubscriberStep(s)
    \/ \E n \in FilterNodes, m \in Incoming : Push(n, m)
    \/ stopAll

-----------------------------------------------------------------------------
\* The calls that have used a content topic of s at the same node.
Rivals(s) ==
    {r \in Subscribers \ {s} : /\ r.node = s.node /\ r.decoders \cap s.decoders # {}
                               /\ subscriber[r].at # "new"}

\* A call that has subscribed is the one its node gives the messages of its
\* topics to, whatever calls for other topics run beside it: overlapping calls
\* for one pubsub topic share its subscription, and unsubscribing from some
\* content topics leaves the others.
SubscriberIsReached ==
    \A s \in Subscribers : subscriber[s].at = "subscribed" /\ Rivals(s) = {} =>
        contentTopics(s) \X {s} \subseteq
            subscriptionCallbacks[activeSubscriptions[s.node][pubsubTopic(s)]]

\* A message that several service nodes push is given to a callback of a node
\* once, over calls that overlap and stops of the nodes.
GivenOnce == \A nm \in FilterNodes \X Incoming : given[nm] <= 1

-----------------------------------------------------------------------------
\* A subscription has a monitor of its own.  Not so when two nodes of a process
\* use a pubsub topic: what one of them has received the other passes over.
NodesApart ==
    \A x \in Subscriptions : monitorOf[x] # None => monitorOf[x] = x
=============================================================================
