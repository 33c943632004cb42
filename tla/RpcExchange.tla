------------------------------ MODULE RpcExchange ------------------------------
(***************************************************************************)
(* One request and its response over the wire, for every request the       *)
(* library makes of a service node: filter subscriptions                   *)
(* (core/src/lib/filter/filter_rpc.ts), store queries                      *)
(* (core/src/lib/store/rpc.ts), and peer exchange                          *)
(* (discovery/src/peer-exchange/rpc.ts).  The service node is another      *)
(* program: it reads what protobuf allows it to read, whatever the order   *)
(* of the fields, and answers.  An undefined field is <<>>.                *)
(***************************************************************************)
EXTENDS ProtoMessages

CONSTANTS
    Calls,      \* what the library may be called for
    Answers     \* what a service node may answer, by kind of call

VARIABLES
    call,       \* the call
    exchange,   \* "called", "refused", "asked", "answered" or "returned"
    onWire,     \* the bytes under way
    served,     \* what the service node has read, <<>> before
    answer,     \* what it answered
    returned    \* what the library has read, <<>> before

rpcVars == <<call, exchange, onWire, served, answer, returned>>

RpcInit ==
    /\ call \in Calls
    /\ exchange = "called"
    /\ onWire = <<>> /\ served = <<>> /\ answer = <<>> /\ returned = <<>>

FilterKinds == {"subscribe", "unsubscribe", "unsubscribeAll", "ping"}
Kinds == FilterKinds \cup {"query", "peers"}

\* How the request and the response of a kind of call are written and read.
EncodeRequest(kind, obj) ==
    CASE kind \in FilterKinds -> FilterSubscribeRequest_encode(obj)
      [] kind = "query" -> StoreQueryRequest_encode(obj)
      [] kind = "peers" -> PeerExchangeRPC_encode(obj)
DecodeRequest(kind, wire) ==
    CASE kind \in FilterKinds -> FilterSubscribeRequest_decode(wire)
      [] kind = "query" -> StoreQueryRequest_decode(wire)
      [] kind = "peers" -> PeerExchangeRPC_decode(wire)
EncodeResponse(kind, obj) ==
    CASE kind \in FilterKinds -> FilterSubscribeResponse_encode(obj)
      [] kind = "query" -> StoreQueryResponse_encode(obj)
      [] kind = "peers" -> PeerExchangeRPC_encode(obj)
DecodeResponse(kind, wire) ==
    CASE kind \in FilterKinds -> FilterSubscribeResponse_decode(wire)
      [] kind = "query" -> StoreQueryResponse_decode(wire)
      [] kind = "peers" -> PeerExchangeRPC_decode(wire)

\* FilterSubscribeRpc.create...Request.  The mutant takes one type for both
\* ways of unsubscribing.
FilterRequest(type, pubsubTopic, contentTopics) ==
    [requestId |-> <<"id">>, filterSubscribeType |-> <<type>>,
     pubsubTopic |-> <<pubsubTopic>>, contentTopics |-> contentTopics]
createFilterRequestOneType(c) ==
    CASE c.kind = "subscribe" ->
            FilterRequest("SUBSCRIBE", c.pubsubTopic, c.contentTopics)
      [] c.kind \in {"unsubscribe", "unsubscribeAll"} ->
            FilterRequest("UNSUBSCRIBE", c.pubsubTopic, c.contentTopics)
      [] c.kind = "ping" -> FilterRequest("SUBSCRIBER_PING", "", <<>>)
createFilterRequest(c) ==
    CASE c.kind = "subscribe" ->
            FilterRequest("SUBSCRIBE", c.pubsubTopic, c.contentTopics)
      [] c.kind = "unsubscribe" ->
            FilterRequest("UNSUBSCRIBE", c.pubsubTopic, c.contentTopics)
      [] c.kind = "unsubscribeAll" ->
            FilterRequest("UNSUBSCRIBE_ALL", c.pubsubTopic, <<>>)
      [] c.kind = "ping" -> FilterRequest("SUBSCRIBER_PING", "", <<>>)

\* StoreQueryRequest.create: times are dates, and go from milliseconds to
\* nanoseconds; a limit of 0 counts as undefined.
NsPerMs == 1000000
InNs(time) == [i \in DOMAIN time |-> time[i] * NsPerMs]
createStoreRequest(c) ==
    [requestId |-> <<"id">>,
     includeData |-> <<c.includeData>>,
     pubsubTopic |-> c.pubsubTopic,
     contentTopics |-> OrElse(c.contentTopics, <<>>),
     timeStart |-> InNs(c.timeStart),
     timeEnd |-> InNs(c.timeEnd),
     messageHashes |-> OrElse(c.messageHashes, <<>>),
     paginationCursor |-> c.paginationCursor,
     paginationForward |-> <<c.paginationForward>>,
     paginationLimit |->
        IF c.paginationLimit = <<0>> THEN <<>> ELSE c.paginationLimit]

\* What it throws at: one of the two topics without the other, or hashes with
\* a filter.  An empty list counts as given, an empty topic does not.
\* The mutant lets hashes go with times.
Given(topic) == OrElse(topic, "") # ""
RefusesTopicsOnly(c) == Given(c.pubsubTopic) # (c.contentTopics # <<>>)
RefusesQuery(c) ==
    \/ Given(c.pubsubTopic) # (c.contentTopics # <<>>)
    \/ /\ c.messageHashes # <<>>
       /\ \/ Given(c.pubsubTopic) \/ c.contentTopics # <<>>
          \/ c.timeStart # <<>> \/ c.timeEnd # <<>>

\* PeerExchangeRPC.createRequest.
createPeersRequest(c) ==
    [query |-> <<[numPeers |-> <<c.numPeers>>]>>, response |-> <<>>]

Request(c) ==
    CASE c.kind = "query" -> createStoreRequest(c)
      [] c.kind = "peers" -> createPeersRequest(c)
      [] OTHER -> createFilterRequest(c)

\* Calls and answers have the types the signatures and the interfaces give.
ASSUME RpcAssumption ==
    /\ \A c \in Calls :
          /\ c.kind \in Kinds
          /\ c.kind \in {"subscribe", "unsubscribe"} => IsList(c.contentTopics)
          /\ c.kind = "query" =>
                /\ IsOptional(c.pubsubTopic)
                /\ IsOptional(c.contentTopics) /\ AllAre(c.contentTopics, IsList)
                /\ IsOptional(c.timeStart) /\ IsOptional(c.timeEnd)
                /\ IsOptional(c.messageHashes) /\ AllAre(c.messageHashes, IsList)
                /\ IsOptional(c.paginationCursor)
                /\ IsOptional(c.paginationLimit)
    /\ \A kind \in Kinds : \A a \in Answers[kind] :
          CASE kind \in FilterKinds -> IsFilterSubscribeResponse(a)
            [] kind = "query" -> IsStoreQueryResponse(a)
            [] kind = "peers" -> IsPeerExchangeRPC(a)

-----------------------------------------------------------------------------
Ask ==
    /\ exchange = "called"
    /\ IF call.kind = "query" /\ RefusesQuery(call)
       THEN exchange' = "refused" /\ UNCHANGED onWire
       ELSE /\ exchange' = "asked"
            /\ onWire' = EncodeRequest(call.kind, Request(call))
    /\ UNCHANGED <<call, served, answer, returned>>

\* Another program may begin with any field, but writes the values of a
\* repeated one together.
Rotated(wire, at) == SubSeq(wire, at + 1, Len(wire)) \o SubSeq(wire, 1, at)
Between(wire) ==
    {at \in 0 .. Len(wire) :
        \A i \in 1 .. at, j \in at + 1 .. Len(wire) : wire[i][1] # wire[j][1]}

\* The service node reads the request and answers.
Serve(a, at) ==
    /\ exchange = "asked"
    /\ at \in Between(EncodeResponse(call.kind, a))
    /\ served' = <<DecodeRequest(call.kind, onWire)>>
    /\ answer' = <<a>>
    /\ onWire' = Rotated(EncodeResponse(call.kind, a), at)
    /\ exchange' = "answered"
    /\ UNCHANGED <<call, returned>>

\* The answer is read: all chunks of the stream in one list of bytes.
Return ==
    /\ exchange = "answered"
    /\ returned' = <<DecodeResponse(call.kind, onWire)>>
    /\ onWire' = <<>>
    /\ exchange' = "returned"
    /\ UNCHANGED <<call, served, answer>>

RpcNext ==
    \/ Ask
    \/ \E a \in Answers[call.kind] :
          \E at \in 0 .. Len(EncodeResponse(call.kind, a)) : Serve(a, at)
    \/ Return

RpcSpec == RpcInit /\ [][RpcNext]_rpcVars

-----------------------------------------------------------------------------
\* A service node reads what the application asked for: a subscription to or
\* from the topics given and of the type meant, a store query with the times
\* in nanoseconds and every restriction there is, the number of peers wanted.
RequestUnderstood ==
    \A r \in Range(served) :
        CASE call.kind \in {"subscribe", "unsubscribe"} ->
                /\ r.filterSubscribeType =
                     <<IF call.kind = "subscribe" THEN "SUBSCRIBE"
                       ELSE "UNSUBSCRIBE">>
                /\ r.pubsubTopic = <<call.pubsubTopic>>
                /\ r.contentTopics = call.contentTopics
          [] call.kind = "unsubscribeAll" ->
                /\ r.filterSubscribeType = <<"UNSUBSCRIBE_ALL">>
                /\ r.pubsubTopic = <<call.pubsubTopic>>
          [] call.kind = "ping" -> r.filterSubscribeType = <<"SUBSCRIBER_PING">>
          [] call.kind = "query" ->
                /\ r.pubsubTopic = call.pubsubTopic
                /\ r.contentTopics = OrElse(call.contentTopics, <<>>)
                /\ InNs(call.timeStart) = r.timeStart
                /\ InNs(call.timeEnd) = r.timeEnd
                /\ r.messageHashes = OrElse(call.messageHashes, <<>>)
                /\ r.paginationCursor = call.paginationCursor
                /\ r.paginationForward = <<call.paginationForward>>
                /\ r.includeData = <<call.includeData>>
                /\ \A n \in Range(call.paginationLimit) \ {0} :
                        r.paginationLimit = <<n>>
          [] call.kind = "peers" -> r.query[1].numPeers = <<call.numPeers>>

\* A query that reaches a store looks messages up by their hashes or filters
\* them by topics and times, never both.
HashesOrFilter ==
    \A r \in Range(served) :
        call.kind = "query" /\ r.messageHashes # <<>> =>
            /\ r.pubsubTopic \in {<<>>, <<"">>} /\ r.contentTopics = <<>>
            /\ r.timeStart = <<>> /\ r.timeEnd = <<>>

\* What the service node answered is what the library reads, in whatever order
\* the fields were written: a status that is 0 or a cursor that is empty is
\* not taken for a missing one, and every message and peer is there.
AnswerUnderstood == returned # <<>> => returned = answer

\* Both sides of a request mean the same (filter_rpc.ts, store/rpc.ts,
\* peer-exchange/rpc.ts with the generated codecs).
RequestExact == RequestUnderstood /\ HashesOrFilter /\ AnswerUnderstood
=============================================================================
