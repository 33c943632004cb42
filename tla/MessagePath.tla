------------------------------ MODULE MessagePath ------------------------------
(***************************************************************************)
(* One message from an application to another over every path the library  *)
(* has: sent by relay or by light push, received by relay, by filter from  *)
(* several service nodes, and from a store.  The service nodes are other   *)
(* programs: they read the message and write it again, with its fields in  *)
(* an order of their own and with or without those at their default.       *)
(***************************************************************************)
EXTENDS Messages

CONSTANTS
    Encoders, Outgoing,     \* what the sender may use and send
    Decoders,               \* what the receiver has set up
    SenderTopics,           \* the pubsub topics of the sending node
    FilterPeers             \* service nodes that push the message

\* What is sent and how is typed; a plain codec has no key; the receiver has a
\* decoder for each encoder the sending node may use.
ASSUME MessageAssumption ==
    /\ FieldBytes \in Nat
    /\ \A c \in Encoders \cup Decoders :
          /\ c.kind \in {"plain", "ecies", "symmetric"}
          /\ c.kind = "plain" => c.key = "none"
    /\ \A e \in Encoders : IsOptional(e.signer) /\ IsOptional(e.meta)
    /\ \A m \in Outgoing :
          /\ DataSize(m.payload) \in Nat /\ m.payload = Data(DataSize(m.payload))
          /\ m.timestamp \in Nat
          /\ IsOptional(m.rateLimitProof)
          /\ AllAre(m.rateLimitProof, IsRateLimitProof)
    /\ \A e \in Encoders :
          e.pubsubTopic \in SenderTopics =>
             \E d \in Decoders :
                /\ d.kind = e.kind /\ d.key = e.key
                /\ d.contentTopic = e.contentTopic /\ d.pubsubTopic = e.pubsubTopic

VARIABLES
    encoder, outgoing,  \* the message to send and how
    sender,     \* "ready", "refused", "pushing" or "sent"
    request,    \* the light push request under way, <<>> without
    published,  \* the message on the gossip network, <<>> without
    pushes,     \* filter pushes under way, by service node
    page,       \* the store's answer under way
    seen,       \* hashes the receiver's reliability monitor has
    received    \* per path, the [decoder, message] handed to callbacks

messageVars == <<encoder, outgoing, sender, request, published, pushes, page,
                 seen, received>>

Paths == {"relay", "filter", "store"}

MessageTypeOK ==
    /\ encoder \in Encoders
    /\ outgoing \in Outgoing
    /\ sender \in {"ready", "refused", "pushing", "sent"}
    /\ (request # <<>>) = (sender = "pushing")
    /\ (published # <<>>) = (sender = "sent")
    /\ DOMAIN pushes = FilterPeers
    /\ DOMAIN received = Paths

MessageInit ==
    /\ encoder \in Encoders
    /\ outgoing \in Outgoing
    /\ sender = "ready"
    /\ request = <<>> /\ published = <<>> /\ page = <<>>
    /\ pushes = [p \in FilterPeers |-> "none"]
    /\ seen = {}
    /\ received = [p \in Paths |-> <<>>]

-----------------------------------------------------------------------------
\* The message as published: the topic and the bytes.
Publish(topic, wire) == published' = <<[topic |-> topic, wire |-> wire]>>

\* Relay.send: the topic is one of the node's, and the bytes fit.
SendRelay ==
    /\ sender = "ready"
    /\ IF encoder.pubsubTopic \in SenderTopics
          /\ isMessageSizeUnderCap(encoder, outgoing)
       THEN /\ sender' = "sent"
            /\ Publish(encoder.pubsubTopic, toWire(encoder, outgoing))
       ELSE sender' = "refused" /\ UNCHANGED published
    /\ UNCHANGED <<encoder, outgoing, request, pushes, page, seen, received>>

\* PushRpc.createRequest.
createPushRequest(proto, pubsubTopic) ==
    [requestId |-> <<"id">>,
     request |-> << [message |-> <<proto>>, pubsubTopic |-> <<pubsubTopic>>] >>,
     response |-> <<>>]

\* LightPush.send, after the SDK has found the topic to be one of the node's;
\* LightPushCore.preparePushMessage refuses an empty payload.
SendLightPush ==
    /\ sender = "ready"
    /\ IF /\ encoder.pubsubTopic \in SenderTopics
          /\ outgoing.payload # EmptyBytes
          /\ isMessageSizeUnderCap(encoder, outgoing)
       THEN /\ sender' = "pushing"
            /\ request' = PushRpc_encode(
                   createPushRequest(toProtoObj(encoder, outgoing),
                                     encoder.pubsubTopic))
       ELSE sender' = "refused" /\ UNCHANGED request
    /\ UNCHANGED <<encoder, outgoing, published, pushes, page, seen, received>>

\* The service node publishes what it was asked to.  The mutant goes on asking.
ServicePublishesStillAsked ==
    /\ sender = "pushing"
    /\ LET asked == PushRpc_decode(request).request[1]
       IN  Publish(asked.pubsubTopic[1], WakuMessage_encode(asked.message[1]))
    /\ sender' = "sent"
    /\ UNCHANGED <<encoder, outgoing, request, pushes, page, seen, received>>
ServicePublishes ==
    /\ sender = "pushing"
    /\ LET asked == PushRpc_decode(request).request[1]
       IN  Publish(asked.pubsubTopic[1], WakuMessage_encode(asked.message[1]))
    /\ sender' = "sent"
    /\ request' = <<>>
    /\ UNCHANGED <<encoder, outgoing, pushes, page, seen, received>>

-----------------------------------------------------------------------------
\* How another program may write the message: in order or in reverse, with or
\* without the fields that are at their default.
Writings == {"same", "reversed", "short"}
Unless(default, values) == IF values = <<default>> THEN <<>> ELSE values
Short(proto) ==
    [proto EXCEPT !.version = Unless(0, @), !.meta = Unless(EmptyBytes, @),
                  !.ephemeral = Unless(FALSE, @)]
Rewritten(wire, how) ==
    CASE how = "same" -> wire
      [] how = "reversed" -> Reverse(wire)
      [] how = "short" -> WakuMessage_encode(Short(WakuMessage_decode(wire)))

\* The receiver's decoders that are asked: those of the topics.
Asked(pubsubTopic, contentTopic) ==
    {d \in Decoders : d.pubsubTopic = pubsubTopic /\ d.contentTopic = contentTopic}

\* What they make of a message.
Readings(pubsubTopic, proto) ==
    UNION {{[decoder |-> d, message |-> m] :
              m \in Range(fromProtoObj(d, pubsubTopic, proto))} :
           d \in Asked(pubsubTopic, proto.contentTopic[1])}

\* messageValidator.
Valid(wire) ==
    LET proto == WakuMessage_decode(wire)
    IN  proto.contentTopic[1] # "" /\ proto.payload[1] # EmptyBytes

\* Relay.processIncomingMessage: the content topic is read first, then every
\* observer's decoder reads the bytes; each success is a callback.
ReceiveByRelay ==
    /\ published # <<>> /\ received["relay"] = <<>>
    /\ LET topic == published[1].topic
           wire == published[1].wire
           contentTopic == TopicOnlyMessage_decode(wire).contentTopic[1]
           proto == fromWireToProtoObj(wire)
       IN  /\ Valid(wire) /\ contentTopic # ""
           /\ received' = [received EXCEPT !["relay"] =
                << UNION {{[decoder |-> d, message |-> m] :
                             m \in Range(fromProtoObj(d, topic, proto))} :
                          d \in Asked(topic, contentTopic)} >>]
    /\ UNCHANGED <<encoder, outgoing, sender, request, published, pushes, page,
                   seen>>

\* A filter service node has the message and pushes it.
PushByFilter(p, how) ==
    /\ published # <<>> /\ pushes[p] = "none"
    /\ pushes' = [pushes EXCEPT ![p] = how]
    /\ UNCHANGED <<encoder, outgoing, sender, request, published, page, seen,
                   received>>
MessagePushOf(how) ==
    << <<1, Rewritten(published[1].wire, how)>>, <<2, published[1].topic>> >>

\* FilterCore.onRequest, SubscriptionManager.processIncomingMessage and
\* pushMessage: a message whose hash is known is skipped; the callback gets
\* what one of the decoders could read.
ReceiveByFilter(p) ==
    /\ pushes[p] \in Writings
    /\ LET push == MessagePush_decode(MessagePushOf(pushes[p]))
           topic == push.pubsubTopic[1]
           proto == push.wakuMessage[1]
           hash == messageHash(topic, proto)
           readings == Readings(topic, proto)
       IN  /\ seen' = seen \cup {hash}
           /\ IF hash \in seen \/ readings = {} THEN UNCHANGED received
              ELSE \E r \in readings :
                      received' = [received EXCEPT !["filter"] = Append(@, {r})]
    /\ pushes' = [pushes EXCEPT ![p] = "done"]
    /\ UNCHANGED <<encoder, outgoing, sender, request, published, page>>

\* A store node has archived the message and answers a query with it.
AnswerQuery(how) ==
    /\ published # <<>> /\ page = <<>> /\ received["store"] = <<>>
    /\ page' = << <<1, "id">>, <<10, 200>>,
                  <<20, << <<1, <<"hash">>>>,
                           <<2, Rewritten(published[1].wire, how)>>,
                           <<3, published[1].topic>> >> >> >>
    /\ UNCHANGED <<encoder, outgoing, sender, request, published, pushes, seen,
                   received>>

\* StoreCore.queryPerPage: every message of the page goes to the decoder of
\* its content topic.
ReceiveFromStore ==
    /\ page # <<>>
    /\ LET kv == StoreQueryResponse_decode(page).messages[1]
       IN  received' = [received EXCEPT !["store"] =
                << Readings(OrElse(kv.pubsubTopic, ""),
                            toProtoMessage(kv.message[1])) >>]
    /\ page' = <<>>
    /\ UNCHANGED <<encoder, outgoing, sender, request, published, pushes, seen>>

MessageNext ==
    \/ SendRelay \/ SendLightPush \/ ServicePublishes
    \/ ReceiveByRelay
    \/ \E p \in FilterPeers : (\E how \in Writings : PushByFilter(p, how))
                              \/ ReceiveByFilter(p)
    \/ \E how \in Writings : AnswerQuery(how)
    \/ ReceiveFromStore

MessageSpec == MessageInit /\ [][MessageNext]_messageVars

-----------------------------------------------------------------------------
\* All that reached a callback.
Readers == UNION {UNION Range(received[p]) : p \in Paths}

\* Whatever path a message takes and however the nodes on it write it, what
\* the application gets is what was sent: the payload, the topics, the
\* timestamp (but 0, which reads as none), the meta field, the proof and
\* whether it is ephemeral.
ReceivedAsSent ==
    \A m \in {r.message : r \in Readers} :
        /\ m.payload = outgoing.payload
        /\ m.pubsubTopic = encoder.pubsubTopic
        /\ m.contentTopic = encoder.contentTopic
        /\ outgoing.timestamp # 0 => m.timestamp = <<outgoing.timestamp>>
        /\ Range(m.meta) \ {EmptyBytes} = Range(encoder.meta) \ {EmptyBytes}
        /\ m.rateLimitProof = outgoing.rateLimitProof
        /\ m.ephemeral = encoder.ephemeral

\* A message is read by decoders of the kind and with the key it was written
\* for, and by no other: an encrypted message is never handed out as it is,
\* and a plain one never passes for a decrypted one.
ReadByItsDecoder ==
    \A r \in Readers :
        r.decoder.kind = encoder.kind /\ r.decoder.key = encoder.key

\* verifySignature holds for the key that signed the message and for no other.
SignerVerified ==
    \A r \in Readers : \A k \in {"alice", "bob", "nobody"} :
        verifySignature(r.message, k)
            <=> encoder.kind # "plain" /\ encoder.signer = <<k>>

\* A message that was accepted for sending, and that arrives, can be read: each
\* path hands it to the receiver's decoder, filter after the first push.
AcceptedIsReadable ==
    /\ \A p \in Paths : received[p] # <<>> => UNION Range(received[p]) # {}
    /\ (\E p \in FilterPeers : pushes[p] = "done") => received["filter"] # <<>>

\* The message is handed to the filter callback once, although several service
\* nodes push it and write it differently: its hash is that of the message the
\* sender encoded.
FilteredOnce ==
    /\ Len(received["filter"]) <= 1
    /\ seen \subseteq {messageHash(encoder.pubsubTopic,
                                   toProtoObj(encoder, outgoing))}

\* The cursor an application makes of a plain message it has received
\* (Store.createCursor) is the hash the store knows the message by.
CursorNamesMessage ==
    \A r \in Readers :
        encoder.kind = "plain" =>
            decodedMessageHash(r.message) = messageHash(encoder.pubsubTopic,
                                                toProtoObj(encoder, outgoing))

\* A message that was accepted for sending fits the network's limit, its
\* encryption and its padding counted.
PublishedFits ==
    published # <<>> =>
        WireSize(WakuMessage_decode(published[1].wire).payload[1]) <= SizeCap

\* What is encrypted has a length that is a multiple of PaddingTarget, so that
\* the length tells little about the payload.
LengthHidden ==
    published # <<>> /\ encoder.kind # "plain" =>
        LET bytes == WakuMessage_decode(published[1].wire).payload[1]
        IN  /\ EnvelopeSize(bytes[3]) % PaddingTarget = 0
            /\ bytes[3].padding > 0

\* A message keeps what it says, its reader, its signer and its hash on every
\* path, and its size within limits (encoders, ciphers and decoders together).
MessageExact ==
    /\ MessageTypeOK
    /\ ReceivedAsSent /\ ReadByItsDecoder /\ AcceptedIsReadable /\ SignerVerified
    /\ FilteredOnce /\ CursorNamesMessage
    /\ PublishedFits /\ LengthHidden
=============================================================================
