----------------------------- MODULE ProtoMessages -----------------------------
(***************************************************************************)
(* The encoders and decoders protons generates for @waku/proto             *)
(* (proto/src/generated/*.ts): number, label and default of every field,   *)
(* read off the codec of each namespace.                                   *)
(*                                                                         *)
(* An object is a record of sequences of values: the elements of a         *)
(* repeated field, one value or none (undefined) otherwise.  The bytes on  *)
(* the wire are a sequence of <<field number, value>>; the layout of       *)
(* numbers and lengths is left out.  Byte strings are tuples that start    *)
(* with what they are; the empty one is <<>>.                              *)
(***************************************************************************)
EXTENDS Lists, SequencesExt

EmptyBytes == <<>>

\* Fields are written one after the other: an implicit one when it differs from
\* its default, an optional one when it is defined, a repeated one value by
\* value.
Entries(no, values) == [i \in DOMAIN values |-> <<no, values[i]>>]
Implicit(no, default, values) ==
    IF values[1] = default THEN <<>> ELSE Entries(no, values)
Optional(no, values) == Entries(no, values)
Repeated(no, values) == Entries(no, values)

\* The values of a field whose type is another message.
Each(values, Op(_)) == [i \in DOMAIN values |-> Op(values[i])]

\* Fields are read in any order and unknown ones skipped; a repeated field
\* collects its values, of any other the last one counts.  The mutant of
\* ReadRepeated puts each value in the place of the one before.
Values(wire, no) ==
    LET read == ElementsAt(wire, {i \in DOMAIN wire : wire[i][1] = no})
    IN  [k \in DOMAIN read |-> read[k][2]]
ReadOptional(wire, no) ==
    LET read == Values(wire, no)
    IN  IF read = <<>> THEN <<>> ELSE <<Last(read)>>
ReadImplicit(wire, no, default) ==
    LET read == Values(wire, no)
    IN  IF read = <<>> THEN <<default>> ELSE <<Last(read)>>
ReadLastOnly(wire, no) == ReadOptional(wire, no)
ReadRepeated(wire, no) == Values(wire, no)

\* The first value of a field, or the given default (x ?? d).
OrElse(values, d) == IF values = <<>> THEN d ELSE values[1]

\* What the interfaces say of a field: a list, one value, one value or none;
\* and of the values that are objects.
IsList(values) == values \in Seq(Range(values))
IsOne(values) == IsList(values) /\ Len(values) = 1
IsOptional(values) == IsList(values) /\ Len(values) <= 1
AllAre(values, Type(_)) == \A i \in DOMAIN values : Type(values[i])

-----------------------------------------------------------------------------
IsRateLimitProof(obj) ==
    /\ obj = [proof |-> obj.proof, merkleRoot |-> obj.merkleRoot,
              epoch |-> obj.epoch, shareX |-> obj.shareX,
              shareY |-> obj.shareY, nullifier |-> obj.nullifier,
              rlnIdentifier |-> obj.rlnIdentifier]
    /\ IsOne(obj.proof) /\ IsOne(obj.merkleRoot) /\ IsOne(obj.epoch)
    /\ IsOne(obj.shareX) /\ IsOne(obj.shareY) /\ IsOne(obj.nullifier)
    /\ IsOne(obj.rlnIdentifier)
RateLimitProof_encode(obj) ==
    Implicit(1, EmptyBytes, obj.proof) \o Implicit(2, EmptyBytes, obj.merkleRoot)
    \o Implicit(3, EmptyBytes, obj.epoch) \o Implicit(4, EmptyBytes, obj.shareX)
    \o Implicit(5, EmptyBytes, obj.shareY) \o Implicit(6, EmptyBytes, obj.nullifier)
    \o Implicit(7, EmptyBytes, obj.rlnIdentifier)
RateLimitProof_decode(wire) ==
    [proof |-> ReadImplicit(wire, 1, EmptyBytes),
     merkleRoot |-> ReadImplicit(wire, 2, EmptyBytes),
     epoch |-> ReadImplicit(wire, 3, EmptyBytes),
     shareX |-> ReadImplicit(wire, 4, EmptyBytes),
     shareY |-> ReadImplicit(wire, 5, EmptyBytes),
     nullifier |-> ReadImplicit(wire, 6, EmptyBytes),
     rlnIdentifier |-> ReadImplicit(wire, 7, EmptyBytes)]

IsWakuMessage(obj) ==
    /\ obj = [payload |-> obj.payload, contentTopic |-> obj.contentTopic,
              version |-> obj.version, timestamp |-> obj.timestamp,
              meta |-> obj.meta, rateLimitProof |-> obj.rateLimitProof,
              ephemeral |-> obj.ephemeral]
    /\ IsOne(obj.payload) /\ IsOne(obj.contentTopic)
    /\ IsOptional(obj.version) /\ IsOptional(obj.timestamp)
    /\ IsOptional(obj.meta) /\ IsOptional(obj.rateLimitProof)
    /\ IsOptional(obj.ephemeral)
    /\ AllAre(obj.rateLimitProof, IsRateLimitProof)
WakuMessage_encode(obj) ==
    Implicit(1, EmptyBytes, obj.payload) \o Implicit(2, "", obj.contentTopic)
    \o Optional(3, obj.version) \o Optional(10, obj.timestamp)
    \o Optional(11, obj.meta)
    \o Optional(21, Each(obj.rateLimitProof, RateLimitProof_encode))
    \o Optional(31, obj.ephemeral)
WakuMessage_decode(wire) ==
    [payload |-> ReadImplicit(wire, 1, EmptyBytes),
     contentTopic |-> ReadImplicit(wire, 2, ""),
     version |-> ReadOptional(wire, 3),
     timestamp |-> ReadOptional(wire, 10),
     meta |-> ReadOptional(wire, 11),
     rateLimitProof |-> Each(ReadOptional(wire, 21), RateLimitProof_decode),
     ephemeral |-> ReadOptional(wire, 31)]

\* Reads the content topic out of a WakuMessage.
TopicOnlyMessage_decode(wire) == [contentTopic |-> ReadImplicit(wire, 2, "")]

-----------------------------------------------------------------------------
\* Filter.
IsFilterSubscribeRequest(obj) ==
    /\ obj = [requestId |-> obj.requestId,
              filterSubscribeType |-> obj.filterSubscribeType,
              pubsubTopic |-> obj.pubsubTopic,
              contentTopics |-> obj.contentTopics]
    /\ IsOne(obj.requestId) /\ IsOne(obj.filterSubscribeType)
    /\ IsOptional(obj.pubsubTopic)
    /\ IsList(obj.contentTopics)
FilterSubscribeRequest_encode(obj) ==
    Implicit(1, "", obj.requestId)
    \o Implicit(2, "SUBSCRIBER_PING", obj.filterSubscribeType)
    \o Optional(10, obj.pubsubTopic) \o Repeated(11, obj.contentTopics)
FilterSubscribeRequest_decode(wire) ==
    [requestId |-> ReadImplicit(wire, 1, ""),
     filterSubscribeType |-> ReadImplicit(wire, 2, "SUBSCRIBER_PING"),
     pubsubTopic |-> ReadOptional(wire, 10),
     contentTopics |-> ReadRepeated(wire, 11)]

IsFilterSubscribeResponse(obj) ==
    /\ obj = [requestId |-> obj.requestId, statusCode |-> obj.statusCode,
              statusDesc |-> obj.statusDesc]
    /\ IsOne(obj.requestId) /\ IsOne(obj.statusCode)
    /\ IsOptional(obj.statusDesc)
FilterSubscribeResponse_encode(obj) ==
    Implicit(1, "", obj.requestId) \o Implicit(10, 0, obj.statusCode)
    \o Optional(11, obj.statusDesc)
FilterSubscribeResponse_decode(wire) ==
    [requestId |-> ReadImplicit(wire, 1, ""),
     statusCode |-> ReadImplicit(wire, 10, 0),
     statusDesc |-> ReadOptional(wire, 11)]

MessagePush_decode(wire) ==
    [wakuMessage |-> Each(ReadOptional(wire, 1), WakuMessage_decode),
     pubsubTopic |-> ReadOptional(wire, 2)]

-----------------------------------------------------------------------------
\* Light push.
IsPushRequest(obj) ==
    /\ obj = [pubsubTopic |-> obj.pubsubTopic, message |-> obj.message]
    /\ IsOne(obj.pubsubTopic)
    /\ IsOptional(obj.message)
    /\ AllAre(obj.message, IsWakuMessage)
PushRequest_encode(obj) ==
    Implicit(1, "", obj.pubsubTopic)
    \o Optional(2, Each(obj.message, WakuMessage_encode))
PushRequest_decode(wire) ==
    [pubsubTopic |-> ReadImplicit(wire, 1, ""),
     message |-> Each(ReadOptional(wire, 2), WakuMessage_decode)]

IsPushResponse(obj) ==
    /\ obj = [isSuccess |-> obj.isSuccess, info |-> obj.info]
    /\ IsOne(obj.isSuccess)
    /\ IsOptional(obj.info)
PushResponse_encode(obj) ==
    Implicit(1, FALSE, obj.isSuccess) \o Optional(2, obj.info)
PushResponse_decode(wire) ==
    [isSuccess |-> ReadImplicit(wire, 1, FALSE), info |-> ReadOptional(wire, 2)]

IsPushRpc(obj) ==
    /\ obj = [requestId |-> obj.requestId, request |-> obj.request,
              response |-> obj.response]
    /\ IsOne(obj.requestId)
    /\ IsOptional(obj.request) /\ IsOptional(obj.response)
    /\ AllAre(obj.request, IsPushRequest)
    /\ AllAre(obj.response, IsPushResponse)
PushRpc_encode(obj) ==
    Implicit(1, "", obj.requestId)
    \o Optional(2, Each(obj.request, PushRequest_encode))
    \o Optional(3, Each(obj.response, PushResponse_encode))
PushRpc_decode(wire) ==
    [requestId |-> ReadImplicit(wire, 1, ""),
     request |-> Each(ReadOptional(wire, 2), PushRequest_decode),
     response |-> Each(ReadOptional(wire, 3), PushResponse_decode)]

-----------------------------------------------------------------------------
\* Store.
IsWakuMessageKeyValue(obj) ==
    /\ obj = [messageHash |-> obj.messageHash, message |-> obj.message,
              pubsubTopic |-> obj.pubsubTopic]
    /\ IsOptional(obj.messageHash) /\ IsOptional(obj.message)
    /\ IsOptional(obj.pubsubTopic)
    /\ AllAre(obj.message, IsWakuMessage)
WakuMessageKeyValue_encode(obj) ==
    Optional(1, obj.messageHash)
    \o Optional(2, Each(obj.message, WakuMessage_encode))
    \o Optional(3, obj.pubsubTopic)
WakuMessageKeyValue_decode(wire) ==
    [messageHash |-> ReadOptional(wire, 1),
     message |-> Each(ReadOptional(wire, 2), WakuMessage_decode),
     pubsubTopic |-> ReadOptional(wire, 3)]

IsStoreQueryRequest(obj) ==
    /\ obj = [requestId |-> obj.requestId, includeData |-> obj.includeData,
              pubsubTopic |-> obj.pubsubTopic,
              contentTopics |-> obj.contentTopics,
              timeStart |-> obj.timeStart, timeEnd |-> obj.timeEnd,
              messageHashes |-> obj.messageHashes,
              paginationCursor |-> obj.paginationCursor,
              paginationForward |-> obj.paginationForward,
              paginationLimit |-> obj.paginationLimit]
    /\ IsOne(obj.requestId) /\ IsOne(obj.includeData)
    /\ IsOne(obj.paginationForward)
    /\ IsOptional(obj.pubsubTopic) /\ IsOptional(obj.timeStart)
    /\ IsOptional(obj.timeEnd) /\ IsOptional(obj.paginationCursor)
    /\ IsOptional(obj.paginationLimit)
    /\ IsList(obj.contentTopics) /\ IsList(obj.messageHashes)
StoreQueryRequest_encode(obj) ==
    Implicit(1, "", obj.requestId) \o Implicit(2, FALSE, obj.includeData)
    \o Optional(10, obj.pubsubTopic) \o Repeated(11, obj.contentTopics)
    \o Optional(12, obj.timeStart) \o Optional(13, obj.timeEnd)
    \o Repeated(20, obj.messageHashes) \o Optional(51, obj.paginationCursor)
    \o Implicit(52, FALSE, obj.paginationForward)
    \o Optional(53, obj.paginationLimit)
StoreQueryRequest_decode(wire) ==
    [requestId |-> ReadImplicit(wire, 1, ""),
     includeData |-> ReadImplicit(wire, 2, FALSE),
     pubsubTopic |-> ReadOptional(wire, 10),
     contentTopics |-> ReadRepeated(wire, 11),
     timeStart |-> ReadOptional(wire, 12),
     timeEnd |-> ReadOptional(wire, 13),
     messageHashes |-> ReadRepeated(wire, 20),
     paginationCursor |-> ReadOptional(wire, 51),
     paginationForward |-> ReadImplicit(wire, 52, FALSE),
     paginationLimit |-> ReadOptional(wire, 53)]

IsStoreQueryResponse(obj) ==
    /\ obj = [requestId |-> obj.requestId, statusCode |-> obj.statusCode,
              statusDesc |-> obj.statusDesc, messages |-> obj.messages,
              paginationCursor |-> obj.paginationCursor]
    /\ IsOne(obj.requestId)
    /\ IsOptional(obj.statusCode) /\ IsOptional(obj.statusDesc)
    /\ IsOptional(obj.paginationCursor)
    /\ IsList(obj.messages)
    /\ AllAre(obj.messages, IsWakuMessageKeyValue)
StoreQueryResponse_encode(obj) ==
    Implicit(1, "", obj.requestId) \o Optional(10, obj.statusCode)
    \o Optional(11, obj.statusDesc)
    \o Repeated(20, Each(obj.messages, WakuMessageKeyValue_encode))
    \o Optional(51, obj.paginationCursor)
StoreQueryResponse_decode(wire) ==
    [requestId |-> ReadImplicit(wire, 1, ""),
     statusCode |-> ReadOptional(wire, 10),
     statusDesc |-> ReadOptional(wire, 11),
     messages |-> Each(ReadRepeated(wire, 20), WakuMessageKeyValue_decode),
     paginationCursor |-> ReadOptional(wire, 51)]

-----------------------------------------------------------------------------
\* Metadata: a request and a response have the same fields.
WakuMetadataRequest_encode(obj) ==
    Optional(1, obj.clusterId) \o Repeated(2, obj.shards)
WakuMetadataResponse_decode(wire) ==
    [clusterId |-> ReadOptional(wire, 1), shards |-> ReadRepeated(wire, 2)]

\* Peer exchange.
IsPeerInfo(obj) ==
    /\ obj = [enr |-> obj.enr]
    /\ IsOptional(obj.enr)
PeerInfo_encode(obj) == Optional(1, obj.enr)
PeerInfo_decode(wire) == [enr |-> ReadOptional(wire, 1)]

IsPeerExchangeQuery(obj) ==
    /\ obj = [numPeers |-> obj.numPeers]
    /\ IsOptional(obj.numPeers)
PeerExchangeQuery_encode(obj) == Optional(1, obj.numPeers)
PeerExchangeQuery_decode(wire) == [numPeers |-> ReadOptional(wire, 1)]

IsPeerExchangeResponse(obj) ==
    /\ obj = [peerInfos |-> obj.peerInfos]
    /\ IsList(obj.peerInfos)
    /\ AllAre(obj.peerInfos, IsPeerInfo)
PeerExchangeResponse_encode(obj) == Repeated(1, Each(obj.peerInfos, PeerInfo_encode))
PeerExchangeResponse_decode(wire) ==
    [peerInfos |-> Each(ReadRepeated(wire, 1), PeerInfo_decode)]

IsPeerExchangeRPC(obj) ==
    /\ obj = [query |-> obj.query, response |-> obj.response]
    /\ IsOptional(obj.query) /\ IsOptional(obj.response)
    /\ AllAre(obj.query, IsPeerExchangeQuery)
    /\ AllAre(obj.response, IsPeerExchangeResponse)
PeerExchangeRPC_encode(obj) ==
    Optional(1, Each(obj.query, PeerExchangeQuery_encode))
    \o Optional(2, Each(obj.response, PeerExchangeResponse_encode))
PeerExchangeRPC_decode(wire) ==
    [query |-> Each(ReadOptional(wire, 1), PeerExchangeQuery_decode),
     response |-> Each(ReadOptional(wire, 2), PeerExchangeResponse_decode)]
=============================================================================
