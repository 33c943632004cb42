-------------------------------- MODULE MCWire --------------------------------
(***************************************************************************)
(* A finite instance of four modules for TLC: a message on its way         *)
(* (MessagePath), a request and its response (RpcExchange), the topics of  *)
(* a node (NodeTopics) and the choice of peers (PeerFilter).  They share   *)
(* no state: a behaviour is one of one part, the others stand still.       *)
(***************************************************************************)
EXTENDS MessagePath, RpcExchange, NodeTopics, PeerFilter

VARIABLE part

Parts == {"message", "rpc", "topics", "peers"}

-----------------------------------------------------------------------------
Enc(kind, signer, pubsubTopic, ephemeral, meta) ==
    [kind |-> kind, key |-> IF kind = "plain" THEN "none" ELSE "k1",
     signer |-> signer, contentTopic |-> "/app/1/t/proto",
     pubsubTopic |-> pubsubTopic, ephemeral |-> ephemeral, meta |-> meta]

\* Every kind; a meta field that is missing, empty and set.
SomeEncoders ==
    {Enc("plain", <<>>, "/waku/2/rs/1/1", e, meta) :
        e \in BOOLEAN, meta \in {<<>>, <<EmptyBytes>>, <<Data(3)>>}}
    \cup {Enc(kind, signer, "/waku/2/rs/1/1", FALSE, meta) :
            kind \in {"ecies", "symmetric"}, signer \in {<<>>, <<"alice">>},
            meta \in {<<>>, <<Data(3)>>}}
    \cup {Enc("plain", <<>>, "/waku/2/rs/1/2", FALSE, <<>>)}

\* Payload sizes at the steps of the size field, of the padding and of the cap,
\* once with a proof and at time 0.
SomeMessages ==
    {[payload |-> Data(n), timestamp |-> 5, rateLimitProof |-> <<>>] :
        n \in {0, 1, 189, 254, 255, 256, 65535, 65536, SizeCap - FieldBytes,
               SizeCap - FieldBytes + 1}}
    \cup {[payload |-> Data(1), timestamp |-> 0,
           rateLimitProof |->
              << [proof |-> <<Data(2)>>, merkleRoot |-> <<Data(2)>>,
                 epoch |-> <<EmptyBytes>>, shareX |-> <<Data(2)>>,
                 shareY |-> <<Data(2)>>, nullifier |-> <<Data(2)>>,
                 rlnIdentifier |-> <<Data(2)>>] >>]}

Dec(kind, key, contentTopic) ==
    [kind |-> kind, key |-> key, contentTopic |-> contentTopic,
     pubsubTopic |-> "/waku/2/rs/1/1"]

SomeDecoders ==
    {Dec("plain", "none", "/app/1/t/proto"), Dec("ecies", "k1", "/app/1/t/proto"),
     Dec("ecies", "k2", "/app/1/t/proto"), Dec("symmetric", "k1", "/app/1/t/proto"),
     Dec("plain", "none", "/app/1/other/proto")}

OneTopic == {"/waku/2/rs/1/1"}

-----------------------------------------------------------------------------
FilterCalls ==
    {[kind |-> k, pubsubTopic |-> "pt", contentTopics |-> cts] :
        k \in {"subscribe", "unsubscribe", "unsubscribeAll", "ping"},
        cts \in {<<>>, <<"a">>, <<"a", "b">>, <<"b", "a", "b">>}}
PeerCalls == {[kind |-> "peers", numPeers |-> n] : n \in {0, 1, 60}}
QueryCalls ==
    [kind : {"query"}, includeData : BOOLEAN, pubsubTopic : {<<>>, <<"">>, <<"pt">>},
     contentTopics : {<<>>, << <<>> >>, << <<"a", "b">> >>},
     timeStart : {<<>>, <<0>>, <<7>>}, timeEnd : {<<>>, <<9>>},
     messageHashes : {<<>>, << <<>> >>, << << <<"hash", 1>>, <<"hash", 2>> >> >>},
     paginationCursor : {<<>>, << <<"hash", 1>> >>},
     paginationForward : BOOLEAN, paginationLimit : {<<>>, <<0>>, <<20>>}]
SomeCalls == FilterCalls \cup PeerCalls \cup QueryCalls

FilterAnswers ==
    {[requestId |-> <<id>>, statusCode |-> <<code>>, statusDesc |-> desc] :
        id \in {"", "id"}, code \in {0, 200}, desc \in {<<>>, <<"">>, <<"OK">>}}
StoredMessage(meta) ==
    [payload |-> <<Data(1)>>, contentTopic |-> <<"a">>, version |-> <<0>>,
     timestamp |-> <<5>>, meta |-> meta, rateLimitProof |-> <<>>,
     ephemeral |-> <<>>]
KeyValue(n) ==
    [messageHash |-> << <<"hash", n>> >>,
     message |-> IF n = 3 THEN <<>>
                 ELSE <<StoredMessage(IF n = 1 THEN <<>> ELSE <<EmptyBytes>>)>>,
     pubsubTopic |-> <<"pt">>]
QueryAnswers ==
    {[requestId |-> <<"id">>, statusCode |-> code, statusDesc |-> <<>>,
      messages |-> ms, paginationCursor |-> cursor] :
        code \in {<<>>, <<0>>, <<200>>},
        ms \in {<<>>, <<KeyValue(1)>>, <<KeyValue(2), KeyValue(1), KeyValue(3)>>},
        cursor \in {<<>>, <<EmptyBytes>>, << <<"hash", 1>> >>}}
PeerAnswers ==
    {[query |-> <<>>, response |-> r] :
        r \in {<<>>, << [peerInfos |-> <<>>] >>,
               << [peerInfos |-> << [enr |-> << <<"enr", 1>> >>], [enr |-> <<>>],
                                    [enr |-> << <<"enr", 2>> >>] >>] >>}}
SomeAnswers ==
    [k \in {"subscribe", "unsubscribe", "unsubscribeAll", "ping", "query", "peers"} |->
        CASE k = "query" -> QueryAnswers
          [] k = "peers" -> PeerAnswers
          [] OTHER -> FilterAnswers]

-----------------------------------------------------------------------------
\* Letters are numbers; the hash spreads them over the shards.
LetterSum ==
    [letters \in Seq(0 .. 9) |-> FoldLeft(LAMBDA sum, c : 3 * sum + c, 5, letters)]

Ct(generation, application, version, topicName) ==
    [generation |-> generation, application |-> application, version |-> version,
     topicName |-> topicName, encoding |-> <<9>>]

SomeContentTopics ==
    {Ct(0, <<1>>, <<1>>, <<1>>), Ct(0, <<1>>, <<1>>, <<2>>), Ct(0, <<1>>, <<2>>, <<1>>),
     Ct(-1, <<2, 1>>, <<4>>, <<1>>), Ct(1, <<1>>, <<1>>, <<1>>), Ct(0, <<>>, <<1>>, <<1>>)}

UpTo(n) == [i \in 1 .. n |-> n - i]
SomeShards ==
    {<<>>, <<0>>, <<1>>, <<7, 1>>, <<1, 7, 1>>, <<1023>>, <<300, 44>>, UpTo(63),
     UpTo(64), UpTo(65), Append(UpTo(63), 1023), [i \in 1 .. 64 |-> i % 3]}
Clusters == {<<>>, <<0>>, <<1>>, <<44>>, <<300>>}

SomeConfigs ==
    [clusterId : Clusters, shards : {<<s>> : s \in SomeShards},
     contentTopics : {<<>>}]
    \cup [clusterId : Clusters, shards : {<<>>, <<<<1>>>>},
          contentTopics : {<<cts>> : cts \in {<<>>} \cup {<<a>> : a \in SomeContentTopics}
                                 \cup (SomeContentTopics \X SomeContentTopics)}]
SomeInfos == [clusterId : Clusters, shard : {<<>>, <<0>>, <<1>>, <<1023>>}]

-----------------------------------------------------------------------------
CONSTANTS b1, b2, o1, o2

FourPeers == {b1, b2, o1, o2}
TwoBootstrap == {b1, b2}
TwoOrders == {<<b1, o1, b2, o2>>, <<o2, b2, b1, o1>>}
SomePings == {NoPing, 0, 1}

-----------------------------------------------------------------------------
MessageStill == sender = "refused" /\ encoder = (CHOOSE x \in Encoders : TRUE)
                /\ outgoing = (CHOOSE x \in Outgoing : TRUE) /\ request = <<>> /\ published = <<>>
                /\ page = <<>> /\ pushes = [p \in FilterPeers |-> "none"]
                /\ seen = {} /\ received = [p \in Paths |-> <<>>]
RpcStill == exchange = "refused" /\ call = (CHOOSE x \in Calls : TRUE) /\ onWire = <<>>
            /\ served = <<>> /\ answer = <<>> /\ returned = <<>>
TopicStill == node = "refused" /\ config = (CHOOSE x \in Configs : TRUE) /\ pubsubTopics = <<>>
              /\ told = <<>> /\ shardInfoBytes = <<>> /\ codecs = {}
SelectionStill == progress = "still" /\ peerStore = <<>> /\ speaking = {}
                  /\ connectedTo = {} /\ numPeers = 0 /\ maxBootstrapPeers = 0
                  /\ peers = <<>> /\ selectedPeers = <<>>
                  /\ nonBootstrapPeers = <<>> /\ ping = <<>>

Init ==
    \/ part = "message" /\ MessageInit /\ RpcStill /\ TopicStill /\ SelectionStill
    \/ part = "rpc" /\ MessageStill /\ RpcInit /\ TopicStill /\ SelectionStill
    \/ part = "topics" /\ MessageStill /\ RpcStill /\ TopicInit /\ SelectionStill
    \/ part = "peers" /\ MessageStill /\ RpcStill /\ TopicStill /\ SelectionInit

Next ==
    \/ part = "message" /\ MessageNext
       /\ UNCHANGED <<part, rpcVars, topicVars, selectionVars>>
    \/ part = "rpc" /\ RpcNext
       /\ UNCHANGED <<part, messageVars, topicVars, selectionVars>>
    \/ part = "topics" /\ TopicNext
       /\ UNCHANGED <<part, messageVars, rpcVars, selectionVars>>
    \/ part = "peers" /\ SelectionNext
       /\ UNCHANGED <<part, messageVars, rpcVars, topicVars>>

vars == <<part, messageVars, rpcVars, topicVars, selectionVars>>

Spec == Init /\ [][Next]_vars
=============================================================================
