------------------------------- MODULE MCWakuNode -------------------------------
EXTENDS WakuNode, TLC

m1 == [topic |-> "t1", contentTopic |-> "A", payload |-> "p"]
m2 == [topic |-> "t1", contentTopic |-> "B", payload |-> "p"]
m3 == [topic |-> "t1", contentTopic |-> "A", payload |-> ""]
MCMessages == {m1, m2, m3}

\* The observer of the call cannot decode what the one of the iterator can; no
\* observer wants m2.
MCObservers ==
    {[call |-> "c", topic |-> "t1", contentTopic |-> "A", decodes |-> {}],
     [call |-> "iterator", topic |-> "t1", contentTopic |-> "A",
      decodes |-> {m1}]}

MCTopics == <<"t1", "t2">>

\* Two calls of one node and one of another share a pubsub topic; the fourth has
\* decoders of two.
A == [topic |-> "t1", contentTopic |-> "A"]
B == [topic |-> "t1", contentTopic |-> "B"]
MCConfiguredOn == [n \in FilterNodes |-> {"t1"}]
MCIncoming == {A}
MCSubscribers ==
    {[node |-> 1, decoders |-> {A}], [node |-> 1, decoders |-> {B}],
     [node |-> 2, decoders |-> {A}],
     [node |-> 1, decoders |-> {A, [A EXCEPT !.topic = "t2"]}]}
MCServes == 1 :> {"store"} @@ 2 :> {"store", "filter"}
=============================================================================
