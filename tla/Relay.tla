--------------------------------- MODULE Relay ---------------------------------
(***************************************************************************)
(* Waku relay (relay/src/relay.ts) over GossipSub: topics are subscribed   *)
(* when the node is created or relay.start is called; a message of one of  *)
(* them goes through the validator, then its content topic is read, and    *)
(* every observer registered at that moment decodes it and is called.      *)
(***************************************************************************)
EXTENDS Naturals, Sequences, FiniteSets

CONSTANTS
    Topics,          \* the pubsub topics, in the order of the set: a sequence
    Calls,           \* of subscribeWithUnsubscribe; the iterator's is "iterator"
    Observers,       \* [call, topic, contentTopic, decodes]: one of each decoder
    Messages,        \* [topic, contentTopic, payload]
    MaxRounds        \* bound on the runs of subscribeToAllTopics

Empty == ""
topicSet == {Topics[i] : i \in DOMAIN Topics}

\* What is assumed of the constants, where this module is instantiated.
RelayAssumption ==
    /\ Topics \in Seq(topicSet)
    /\ \A o \in Observers : o.call \in Calls /\ o.decodes \in SUBSET Messages
    /\ MaxRounds \in Nat \ {0}

-----------------------------------------------------------------------------
\* toAsyncIterator (utils/src/common/to_async_iterator.ts): the messages of a
\* subscription as an asynchronous generator, which polls the queue that the
\* subscription's callback fills.  The state of one iterator is a record.

\* at: where the generator is.  "idle": the consumer has not asked for the next
\* message; "check": it is about to look at the time; "wait": it waits for
\* iteratorDelay; "over": it has returned.  subscribed: unsubscribe is defined.
\* late: timeoutMs have passed.  returned: the messages that the generator
\* returned with done, which a for-await loop does not see.
NewIterator ==
    [at |-> "off", subscribed |-> FALSE, late |-> FALSE, messages |-> <<>>,
     yielded |-> <<>>, returned |-> <<>>]
Iterating == [NewIterator EXCEPT !.at = "idle", !.subscribed = TRUE]

IteratorTypeOK(it, Msgs) ==
    /\ DOMAIN it = DOMAIN NewIterator
    /\ it.at \in {"off", "idle", "check", "wait", "over"}
    /\ it.subscribed \in BOOLEAN /\ it.late \in BOOLEAN
    /\ it.messages \in Seq(Msgs) /\ it.yielded \in Seq(Msgs)
    /\ it.returned \in Seq(Msgs)

\* The callback.
Pushed(it, message) ==
    IF it.at = "off" THEN it ELSE [it EXCEPT !.messages = Append(@, message)]

\* The mutant goes on until a last message has come.
EndsOnMessage(subscribed, messages) == ~subscribed /\ Len(messages) = 1
IsLast(subscribed, messages) == ~subscribed /\ Len(messages) <= 1

\* One turn of the loop of iterator(), up to its next await or yield.
Turned(it) ==
    CASE it.at = "check" -> [it EXCEPT !.at = IF it.late THEN "over" ELSE "wait"]
      [] it.at = "wait" /\ IsLast(it.subscribed, it.messages) ->
           [it EXCEPT !.at = "over", !.messages = <<>>,
                      !.returned = it.messages]
      [] it.at = "wait" /\ ~IsLast(it.subscribed, it.messages)
           /\ it.messages = <<>> -> [it EXCEPT !.at = "check"]
      [] OTHER -> [it EXCEPT !.at = "idle", !.messages = Tail(@),
                             !.yielded = Append(@, Head(it.messages))]
-----------------------------------------------------------------------------

VARIABLES
    gossip,      \* "stopped" or "started"
    starting,    \* calls of relay.start that wait for gossipSub.start
    rounds,      \* how often subscribeToAllTopics ran: the listeners per topic
    subscribed,  \* gossipSub is subscribed to the topics
    calls,       \* "new", "active" or "removed"
    observers,   \* those registered
    arrived,     \* the messages that GossipSub has seen
    reading,     \* of each message: its listeners that read the content topic
    decoding,    \* of each message and observer: those that decode it
    received,    \* of each message and observer: how often it was called
    due,         \* the messages and the observers registered as they arrived
    iterator,    \* toSubscriptionIterator
    mesh,        \* the topics with a mesh peer
    meshWait,    \* the call of waitForPeers: where it is, topics left, peers
    seen         \* the topics it saw a peer of

relayVars == <<gossip, starting, rounds, subscribed, calls, observers, arrived,
               reading, decoding, received, due, iterator, mesh, meshWait, seen>>

Counts == [Messages \X Observers -> 0 .. MaxRounds]
NotWaiting == [at |-> "off", left |-> <<>>, peers |-> FALSE]

RelayTypeOK ==
    /\ gossip \in {"stopped", "started"}
    /\ starting \in 0 .. MaxRounds /\ rounds \in 0 .. MaxRounds
    /\ subscribed \in BOOLEAN
    /\ calls \in [Calls -> {"new", "active", "removed"}]
    /\ observers \subseteq Observers
    /\ arrived \subseteq Messages
    /\ reading \in [Messages -> 0 .. MaxRounds]
    /\ due \subseteq Messages \X Observers
    /\ decoding \in Counts /\ received \in Counts
    /\ IteratorTypeOK(iterator, Messages)
    /\ mesh \subseteq topicSet /\ seen \subseteq topicSet
    /\ meshWait.at \in {"off", "waiting", "done"}
    /\ meshWait.left \in Seq(topicSet) /\ meshWait.peers \in BOOLEAN

\* The constructor: the topics are subscribed if GossipSub is already started.
Init ==
    /\ gossip \in {"stopped", "started"}
    /\ rounds = IF gossip = "started" THEN 1 ELSE 0
    /\ subscribed = (gossip = "started")
    /\ starting = 0
    /\ calls = [c \in Calls |-> "new"]
    /\ observers = {} /\ arrived = {}
    /\ reading = [m \in Messages |-> 0]
    /\ decoding = [mo \in Messages \X Observers |-> 0]
    /\ received = decoding /\ due = {}
    /\ iterator = NewIterator
    /\ mesh = {} /\ seen = {}
    /\ meshWait = NotWaiting

-----------------------------------------------------------------------------
(* GossipSub, and start. *)

\* libp2p starts GossipSub, which subscribes to nothing.
StartGossip ==
    /\ gossip = "stopped"
    /\ gossip' = "started"
    /\ UNCHANGED <<starting, rounds, subscribed, calls, observers, arrived,
                   reading, decoding, received, due, iterator, mesh, meshWait, seen>>

\* libp2p stops it: the listeners of the relay stay registered.
StopGossip ==
    /\ gossip = "started"
    /\ gossip' = "stopped"
    /\ subscribed' = FALSE
    /\ mesh' = {}
    /\ UNCHANGED <<starting, rounds, calls, observers, arrived, reading,
                   decoding, received, due, iterator, meshWait, seen>>

\* relay.start, which throws when GossipSub is started.
start ==
    /\ gossip = "stopped"
    /\ starting + rounds < MaxRounds
    /\ starting' = starting + 1
    /\ UNCHANGED <<gossip, rounds, subscribed, calls, observers, arrived,
                   reading, decoding, received, due, iterator, mesh, meshWait, seen>>

\* gossipSub.start resolves, and subscribeToAllTopics adds a listener to every
\* topic.
subscribeToAllTopics ==
    /\ starting > 0
    /\ starting' = starting - 1
    /\ gossip' = "started"
    /\ rounds' = rounds + 1
    /\ subscribed' = TRUE
    /\ UNCHANGED <<calls, observers, arrived, reading, decoding, received, due,
                   iterator, mesh, meshWait, seen>>

MeshChanges ==
    /\ gossip = "started" /\ subscribed
    /\ mesh' \in SUBSET topicSet
    /\ mesh' # mesh
    /\ UNCHANGED <<gossip, starting, rounds, subscribed, calls, observers,
                   arrived, reading, decoding, received, due, iterator, meshWait, seen>>

-----------------------------------------------------------------------------
(* waitForPeers *)

waitForPeers ==
    /\ meshWait.at = "off"
    /\ meshWait' = IF Topics = <<>> THEN [NotWaiting EXCEPT !.at = "done"]
                   ELSE [at |-> "waiting", left |-> Topics, peers |-> FALSE]
    /\ UNCHANGED <<gossip, starting, rounds, subscribed, calls, observers,
                   arrived, reading, decoding, received, due, iterator, mesh, seen>>

\* getMeshPeers; the mutant takes any answer for one with peers.
AnyAnswer(topic) == TRUE
HasMeshPeers(topic) == topic \in mesh

\* A heartbeat resolves pEvent.  The peers found for one topic end the loop of
\* every later topic at once.
Heartbeat ==
    /\ gossip = "started"
    /\ meshWait.at = "waiting"
    /\ LET topic == Head(meshWait.left) IN
         IF HasMeshPeers(topic)
         THEN /\ meshWait' = [at |-> "done", left |-> <<>>, peers |-> TRUE]
              /\ seen' = seen \cup ({topic} \cap mesh)
         ELSE UNCHANGED <<meshWait, seen>>
    /\ UNCHANGED <<gossip, starting, rounds, subscribed, calls, observers,
                   arrived, reading, decoding, received, due, iterator, mesh>>

-----------------------------------------------------------------------------
(* Subscriptions *)

ObserversOf(c) == {o \in Observers : o.call = c}

subscribeWithUnsubscribe(c) ==
    /\ calls[c] = "new"
    /\ calls' = [calls EXCEPT ![c] = "active"]
    /\ observers' = observers \cup ObserversOf(c)
    /\ iterator' = IF c = "iterator" THEN Iterating ELSE iterator
    /\ UNCHANGED <<gossip, starting, rounds, subscribed, arrived, reading,
                   decoding, received, due, mesh, meshWait, seen>>

\* The function that it returned, or the iterator's stop.
removeObservers(c) ==
    /\ calls[c] = "active"
    /\ calls' = [calls EXCEPT ![c] = "removed"]
    /\ observers' = observers \ ObserversOf(c)
    /\ iterator' = IF c = "iterator" THEN [iterator EXCEPT !.subscribed = FALSE]
                   ELSE iterator
    /\ UNCHANGED <<gossip, starting, rounds, subscribed, arrived, reading,
                   decoding, received, due, mesh, meshWait, seen>>

IteratorAction(next) ==
    /\ iterator' = next
    /\ UNCHANGED <<gossip, starting, rounds, subscribed, calls, observers,
                   arrived, reading, decoding, received, due, mesh, meshWait, seen>>

\* The consumer asks for the next message; the time passes; the loop turns.
AskNext == iterator.at = "idle" /\ IteratorAction([iterator EXCEPT !.at = "check"])
TimePasses ==
    /\ iterator.at \notin {"off", "over"} /\ ~iterator.late
    /\ IteratorAction([iterator EXCEPT !.late = TRUE])
Turn ==
    /\ iterator.at \in {"check", "wait"}
    /\ IteratorAction(Turned(iterator))

-----------------------------------------------------------------------------
(* Messages *)

\* The mutant accepts what has no payload.
WithContentTopic(m) == m.contentTopic # Empty
messageValidator(m) == m.contentTopic # Empty /\ m.payload # Empty

Wants(o, m) == o.topic = m.topic /\ o.contentTopic = m.contentTopic

\* GossipSub passes a message it has not seen on to every listener.
Receive(m) ==
    /\ gossip = "started" /\ subscribed
    /\ m \notin arrived /\ m.topic \in topicSet
    /\ messageValidator(m)
    /\ arrived' = arrived \cup {m}
    /\ reading' = [reading EXCEPT ![m] = rounds]
    /\ due' = due \cup ({m} \X {o \in observers : Wants(o, m)})
    /\ UNCHANGED <<gossip, starting, rounds, subscribed, calls, observers,
                   decoding, received, iterator, mesh, meshWait, seen>>

\* The observers of the pubsub topic and the content topic; the mutant takes
\* one of those of the pubsub topic.
OneObserver(m) ==
    {o \in observers : o = CHOOSE x \in observers : x.topic = m.topic}
ObserversFor(m) ==
    {o \in observers : o.topic = m.topic /\ o.contentTopic = m.contentTopic}

\* processIncomingMessage, once the content topic is read.
processIncomingMessage(m) ==
    /\ reading[m] > 0
    /\ reading' = [reading EXCEPT ![m] = @ - 1]
    /\ decoding' = [mo \in DOMAIN decoding |->
                      decoding[mo] + IF mo[1] = m /\ mo[2] \in ObserversFor(m)
                                     THEN 1 ELSE 0]
    /\ UNCHANGED <<gossip, starting, rounds, subscribed, calls, observers,
                   arrived, received, due, iterator, mesh, meshWait, seen>>

\* One observer's decoder has resolved: its callback is called, or the message
\* is dropped, even if the observer was removed meanwhile.  What a decoder or a
\* callback throws is caught for this observer.
Decoded(m, o) ==
    /\ decoding[<<m, o>>] > 0
    /\ decoding' = [decoding EXCEPT ![<<m, o>>] = @ - 1]
    /\ IF m \in o.decodes
       THEN /\ received' = [received EXCEPT ![<<m, o>>] = @ + 1]
            /\ iterator' = IF o.call = "iterator" THEN Pushed(iterator, m)
                           ELSE iterator
       ELSE UNCHANGED <<received, iterator>>
    /\ UNCHANGED <<due, gossip, starting, rounds, subscribed, calls, observers,
                   arrived, reading, mesh, meshWait, seen>>

-----------------------------------------------------------------------------
ProcessStep ==
    \/ \E m \in Messages : processIncomingMessage(m)
    \/ \E m \in Messages, o \in Observers : Decoded(m, o)
IteratorStep == AskNext \/ Turn

StartStep == start \/ subscribeToAllTopics
MeshStep == MeshChanges \/ Heartbeat
MessageStep ==
    \/ \E c \in Calls : subscribeWithUnsubscribe(c) \/ removeObservers(c)
    \/ TimePasses
    \/ \E m \in Messages : Receive(m)

-----------------------------------------------------------------------------
\* A callback gets only valid messages of its own topics, and a message at most
\* once per listener: once in a node whose topics were subscribed once.
DeliveredAsSubscribed ==
    \A m \in Messages, o \in Observers :
        LET n == received[<<m, o>>] + decoding[<<m, o>>] IN
        /\ n > 0 => /\ o.topic = m.topic /\ o.contentTopic = m.contentTopic
                    /\ m.payload # Empty
        /\ n + reading[m] <= rounds

\* An observer that was registered when a message arrived and still is gets it
\* if it can decode it, whatever the other observers do with it.
ObserversAreServed ==
    \A m \in Messages, o \in Observers :
        <<m, o>> \in due /\ o \in observers /\ m \in o.decodes =>
            reading[m] + decoding[<<m, o>>] + received[<<m, o>>] > 0

\* After stop, a consumer that keeps asking comes to the end of the iterator.
IteratorEnds == calls["iterator"] = "removed" ~> iterator.at = "over"

-----------------------------------------------------------------------------
\* The doc comment of waitForPeers: a mesh peer for all pubsub topics.
MeshOnAllTopics == meshWait.at = "done" => seen = topicSet

\* The consumer of an iterator sees every message: not the last one in the
\* queue when it was stopped, nor what is left when its time is over.
IteratorYieldsAll ==
    iterator.at = "over" => iterator.returned = <<>> /\ iterator.messages = <<>>

\* A message is delivered once: not when relay.start ran twice, after a stop or
\* at the same time.
DeliveredOnce == \A mo \in DOMAIN received : received[mo] <= 1

\* A node that is started is subscribed: not when only libp2p was started.
StartedIsSubscribed == gossip = "started" => subscribed
=============================================================================
