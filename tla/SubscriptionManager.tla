-------------------------- MODULE SubscriptionManager --------------------------
(***************************************************************************)
(* The Filter subscription of one pubsub topic:                            *)
(* sdk/src/protocols/filter/subscription_manager.ts, with the push handler *)
(* and the requests of core/src/lib/filter/index.ts.                       *)
(*                                                                         *)
(* Calls in flight are members of Calls: subscribe, unsubscribe,           *)
(* unsubscribeAll, the connection listener, which waits for the pings of   *)
(* all peers, and the request by which a renewal subscribes the peer it    *)
(* has found.  A call waits for one request per peer that was in use when  *)
(* it was made (a renewal for its one): "toPeers" are the requests under   *)
(* way, "answered" the answers not yet processed.                          *)
(*                                                                         *)
(* When a peer is pinged and renewed is the business of                    *)
(* ReceiverReliabilityMonitor; here peers come and go, and each may be     *)
(* subscribed by a renewal at any time.  A service node pushes a message   *)
(* of a topic it was asked for, once.                                      *)
(***************************************************************************)
EXTENDS Naturals, FiniteSets

CONSTANTS
    Peers,     \* service nodes
    Topics,    \* content topics
    Messages,  \* messages on the network
    TopicOf,   \* [Messages -> Topics]
    Calls      \* ids of the calls in flight (bound)

ASSUME SubscriptionAssumption == TopicOf \in [Messages -> Topics]

VARIABLES
    peers,                 \* getPeers(): the peers in use
    online,                \* the last connection status reported
    subscriptionCallbacks, \* the topics with a callback
    keepAliveInterval,     \* it is set
    listening,             \* some connection listener is registered
    call,
    subscribed,            \* service nodes: the topics each was asked for
    receivedMessages,
    delivered,             \* how often each was given to decoders and callback
    pushed                 \* service nodes: the messages each has pushed

vars == <<peers, online, subscriptionCallbacks, keepAliveInterval, listening,
          call, subscribed, receivedMessages, delivered, pushed>>
maintenance == <<keepAliveInterval, listening>>
incoming == <<receivedMessages, delivered, pushed>>
environment == <<peers, online>>

Kinds == {"subscribe", "unsubscribe", "unsubscribeAll", "online", "renewal"}
NoCall == [kind |-> "none", topics |-> {}, toPeers |-> {}, answered |-> {}]

TypeOK ==
    /\ peers \subseteq Peers
    /\ online \in BOOLEAN
    /\ subscriptionCallbacks \subseteq Topics
    /\ keepAliveInterval \in BOOLEAN
    /\ listening \in BOOLEAN
    /\ call \in [Calls -> [kind : Kinds, topics : SUBSET Topics,
                           toPeers : SUBSET Peers, answered : SUBSET Peers]
                          \cup {NoCall}]
    /\ \A c \in Calls : call[c].toPeers \cap call[c].answered = {}
    /\ subscribed \in [Peers -> SUBSET Topics]
    /\ receivedMessages \subseteq Messages
    /\ delivered \in [Messages -> Nat]
    /\ pushed \in [Peers -> SUBSET Messages]

\* Filter creates the subscription when it has peers.
Init ==
    /\ peers \in SUBSET Peers \ {{}}
    /\ online \in BOOLEAN
    /\ subscriptionCallbacks = {}
    /\ keepAliveInterval = FALSE
    /\ listening = FALSE
    /\ call = [c \in Calls |-> NoCall]
    /\ subscribed = [p \in Peers |-> {}]
    /\ receivedMessages = {}
    /\ delivered = [m \in Messages |-> 0]
    /\ pushed = [p \in Peers |-> {}]

-----------------------------------------------------------------------------
(* Calls and their requests. *)

Idle(c) == call[c].kind = "none"
Ends(c) == call' = [call EXCEPT ![c] = NoCall]

\* A call sends its request to every peer in use.
Start(c, kind, topics) ==
    /\ Idle(c)
    /\ call' = [call EXCEPT ![c] = [kind |-> kind, topics |-> topics,
                                    toPeers |-> peers, answered |-> {}]]

Subscribe(c, topics) ==
    /\ Start(c, "subscribe", topics)
    /\ UNCHANGED <<environment, subscriptionCallbacks, maintenance, subscribed,
                   incoming>>

Unsubscribe(c, topics) ==
    /\ Start(c, "unsubscribe", topics)
    /\ UNCHANGED <<environment, subscriptionCallbacks, maintenance, subscribed,
                   incoming>>

UnsubscribeAll(c) ==
    /\ Start(c, "unsubscribeAll", Topics)
    /\ UNCHANGED <<environment, subscriptionCallbacks, maintenance, subscribed,
                   incoming>>

\* A renewal asks the peer it has found for the topics with a callback.
Renew(c, p) ==
    /\ Idle(c)
    /\ p \in peers
    /\ call' = [call EXCEPT ![c] = [kind |-> "renewal",
                                    topics |-> subscriptionCallbacks,
                                    toPeers |-> {p}, answered |-> {}]]
    /\ UNCHANGED <<environment, subscriptionCallbacks, maintenance, subscribed,
                   incoming>>

\* The mutant goes on waiting for a peer that has answered.
StillWaiting(c, p) == call' = [call EXCEPT ![c].answered = @ \cup {p}]
Answered(c, p) ==
    call' = [call EXCEPT ![c].toPeers = @ \ {p}, ![c].answered = @ \cup {p}]

\* The request takes effect at the service node.  Whether its answer arrives
\* or is lost with the stream, the call goes on all the same.
Request(c, p) ==
    LET this == call[c] IN
    /\ p \in this.toPeers
    /\ subscribed' = [subscribed EXCEPT ![p] =
                        CASE this.kind \in {"subscribe", "renewal"} -> @ \cup this.topics
                          [] this.kind = "online" -> @
                          [] OTHER -> @ \ this.topics]
    /\ Answered(c, p)
    /\ UNCHANGED <<environment, subscriptionCallbacks, maintenance, incoming>>

\* No stream, a request that never arrives, a refusal: so it does then.
RequestFails(c, p) ==
    /\ p \in call[c].toPeers
    /\ Answered(c, p)
    /\ UNCHANGED <<environment, subscriptionCallbacks, maintenance, subscribed,
                   incoming>>

\* unsubscribe processes the answer of one peer.
UnsubscribeAnswer(c, p) ==
    /\ call[c].kind = "unsubscribe"
    /\ p \in call[c].answered
    /\ call' = [call EXCEPT ![c].answered = @ \ {p}]
    /\ subscriptionCallbacks' = subscriptionCallbacks \ call[c].topics
    /\ UNCHANGED <<environment, maintenance, subscribed, incoming>>

-----------------------------------------------------------------------------
(* What a call does when all requests are settled. *)

stopSubscriptionsMaintenance ==
    \* removeEventListener is given a new function and removes nothing.
    /\ keepAliveInterval' = FALSE
    /\ UNCHANGED listening

SubscribeReturns(c) ==
    /\ call[c].kind = "subscribe" /\ call[c].toPeers = {}
    /\ subscriptionCallbacks' = subscriptionCallbacks \cup call[c].topics
    /\ keepAliveInterval' = TRUE
    /\ listening' = TRUE
    /\ Ends(c)
    /\ UNCHANGED <<environment, subscribed, incoming>>

\* Whether unsubscribe ends the maintenance; the mutant always does.
AlwaysStops == TRUE
NothingLeft == subscriptionCallbacks = {}

UnsubscribeReturns(c) ==
    /\ call[c].kind = "unsubscribe"
    /\ call[c].toPeers = {} /\ call[c].answered = {}
    /\ IF NothingLeft THEN stopSubscriptionsMaintenance
       ELSE UNCHANGED maintenance
    /\ Ends(c)
    /\ UNCHANGED <<environment, subscriptionCallbacks, subscribed, incoming>>

UnsubscribeAllReturns(c) ==
    /\ call[c].kind = "unsubscribeAll" /\ call[c].toPeers = {}
    /\ subscriptionCallbacks' = {}
    /\ stopSubscriptionsMaintenance
    /\ Ends(c)
    /\ UNCHANGED <<environment, subscribed, incoming>>

\* What the renewal does next is ReceiverReliabilityMonitor's.
RenewalReturns(c) ==
    /\ call[c].kind = "renewal" /\ call[c].toPeers = {}
    /\ Ends(c)
    /\ UNCHANGED <<environment, subscriptionCallbacks, maintenance, subscribed,
                   incoming>>

-----------------------------------------------------------------------------
(* The connection listeners.  Every subscribe registers one more; as they do *)
(* the same, one call stands for all.                                        *)

GoOffline ==
    /\ online
    /\ online' = FALSE
    /\ keepAliveInterval' = IF listening THEN FALSE ELSE keepAliveInterval
    /\ UNCHANGED <<peers, subscriptionCallbacks, listening, call, subscribed,
                   incoming>>

GoOnline(c) ==
    /\ ~online
    /\ online' = TRUE
    /\ IF listening THEN Start(c, "online", {}) ELSE UNCHANGED call
    /\ UNCHANGED <<peers, subscriptionCallbacks, maintenance, subscribed,
                   incoming>>

\* The pings are answered.  The mutant leaves the pings stopped.
StaysStopped == keepAliveInterval
startKeepAlivePings == TRUE

ListenerReturns(c) ==
    /\ call[c].kind = "online" /\ call[c].toPeers = {}
    /\ keepAliveInterval' = startKeepAlivePings
    /\ Ends(c)
    /\ UNCHANGED <<environment, subscriptionCallbacks, listening, subscribed,
                   incoming>>

-----------------------------------------------------------------------------
(* Messages. *)

\* notifyMessageReceived; the mutant forgets what it has received.
NothingNoted(m) == receivedMessages
Noted(m) == receivedMessages \cup {m}

\* A service node pushes a message, once: onRequest, processIncomingMessage.
\* pushMessage decodes it and calls the callback; neither changes state here.
Push(p, m) ==
    /\ TopicOf[m] \in subscribed[p]
    /\ m \notin pushed[p]
    /\ pushed' = [pushed EXCEPT ![p] = @ \cup {m}]
    /\ receivedMessages' = Noted(m)
    /\ delivered' = [delivered EXCEPT ![m] =
                       IF m \notin receivedMessages
                          /\ TopicOf[m] \in subscriptionCallbacks
                       THEN @ + 1 ELSE @]
    /\ UNCHANGED <<environment, subscriptionCallbacks, maintenance, call,
                   subscribed>>

-----------------------------------------------------------------------------
\* The protocol renews its peers, loses and finds some.
PeersChange ==
    /\ peers' \in SUBSET Peers
    /\ peers' # peers
    /\ UNCHANGED <<online, subscriptionCallbacks, maintenance, call, subscribed,
                   incoming>>

CallStep(c) ==
    \/ \E p \in Peers : \/ Request(c, p) \/ RequestFails(c, p)
                        \/ UnsubscribeAnswer(c, p)
    \/ SubscribeReturns(c) \/ UnsubscribeReturns(c) \/ UnsubscribeAllReturns(c)
    \/ ListenerReturns(c) \/ RenewalReturns(c)

Next ==
    \/ \E c \in Calls :
         \/ \E topics \in SUBSET Topics \ {{}} : \/ Subscribe(c, topics)
                                                 \/ Unsubscribe(c, topics)
         \/ UnsubscribeAll(c)
         \/ GoOnline(c)
         \/ \E p \in Peers : Renew(c, p)
         \/ CallStep(c)
    \/ GoOffline
    \/ \E p \in Peers, m \in Messages : Push(p, m)
    \/ PeersChange

Spec == Init /\ [][Next]_vars

\* Requests are answered or fail, and the event loop resumes the calls.
FairSpec == Spec /\ \A c \in Calls : WF_vars(CallStep(c))

-----------------------------------------------------------------------------
(* What holds. *)

\* No call but renewals.
Quiet == \A c \in Calls : call[c].kind \in {"none", "renewal"}

\* A message that several service nodes push is given to the callback once.
DeliveredOnce == \A m \in Messages : delivered[m] <= 1

\* Once none of these calls is in flight, an online node with a callback pings its peers,
\* however subscribe, unsubscribe and connection events were interleaved.
SubscriptionIsKept ==
    Quiet /\ online /\ subscriptionCallbacks # {} => keepAliveInterval

\* A node that stays online and subscribed ends up pinging its peers for good.
PingsResume ==
    <>[](online /\ subscriptionCallbacks # {}) => <>[]keepAliveInterval

-----------------------------------------------------------------------------
(* What the repository says and the code does not keep. *)

\* The callback is "to be invoked with decoded messages" (filter/index.ts): a
\* message that is pushed while its topic has a callback was or is given to it.
PushedIsDelivered ==
    [][\A p \in Peers : \A m \in pushed'[p] \ pushed[p] :
         TopicOf[m] \in subscriptionCallbacks => delivered'[m] > 0]_vars

\* Callbacks are removed "if `unsubscribe` ... is called for those content
\* topics" (subscription_manager.ts).
UnsubscribeRemoves ==
    [][\A c \in Calls :
         (/\ call[c].kind = "unsubscribe" /\ call'[c].kind = "none"
          /\ \A d \in Calls \ {c} : Idle(d))
           => subscriptionCallbacks' \cap call[c].topics = {}]_vars

\* "Stopping subscriptions maintenance" (subscription_manager.ts): without a
\* callback and with no call in flight nobody pings the peers.
MaintenanceStops ==
    Quiet /\ subscriptionCallbacks = {} => ~keepAliveInterval
=============================================================================
