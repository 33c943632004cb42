------------------------------- MODULE Messages -------------------------------
(***************************************************************************)
(* Encoders and decoders of Waku messages: version 0 (@waku/core), and     *)
(* version 1 encrypted for a public or a symmetric key (@waku/message-     *)
(* encryption); the message hash; and what the sending protocols check.    *)
(*                                                                         *)
(* An encoder is a record [kind, key, signer, contentTopic, pubsubTopic,   *)
(* ephemeral, meta], where kind is "plain", "ecies" or "symmetric", signer *)
(* is <<>> or the key that signs, and meta is <<>> or what the metaSetter  *)
(* returns.  A decoder is a record [kind, key, contentTopic, pubsubTopic]. *)
(* A message to send is a record [payload, timestamp, rateLimitProof].     *)
(***************************************************************************)
EXTENDS ProtoMessages, PayloadCipher

CONSTANT FieldBytes     \* bytes of a message besides its payload

OneMillion == 1000000   \* nanoseconds in a millisecond
SizeCap == 1024 * 1024  \* the most bytes a message may have

\* Encoder.toProtoObj of the three packages; an undefined field is <<>>.  The
\* mutant gives every message the version of the encrypted ones.
Cipher(enc, payload) ==
    CASE enc.kind = "plain" -> payload
      [] enc.kind = "ecies" ->
            encryptAsymmetric(preCipher(payload, enc.signer), enc.key)
      [] enc.kind = "symmetric" ->
            encryptSymmetric(preCipher(payload, enc.signer), enc.key)

VersionAlwaysOne(kind) == 1
Version(kind) == IF kind = "plain" THEN 0 ELSE 1

toProtoObj(enc, msg) ==
    [payload |-> <<Cipher(enc, msg.payload)>>,
     version |-> <<Version(enc.kind)>>,
     contentTopic |-> <<enc.contentTopic>>,
     timestamp |-> <<msg.timestamp * OneMillion>>,
     meta |-> enc.meta,
     rateLimitProof |-> msg.rateLimitProof,
     ephemeral |-> <<enc.ephemeral>>]

toWire(enc, msg) == WakuMessage_encode(toProtoObj(enc, msg))

\* isWireSizeUnderCap, of the encoded message.  The mutant measures what the
\* application gave.
WireSize(payload) == ByteLength(payload) + FieldBytes
PayloadUnderCap(enc, msg) == WireSize(msg.payload) <= SizeCap
isMessageSizeUnderCap(enc, msg) ==
    WireSize(Cipher(enc, msg.payload)) <= SizeCap

-----------------------------------------------------------------------------
\* Decoder.fromWireToProtoObj.
fromWireToProtoObj(wire) ==
    LET proto == WakuMessage_decode(wire)
    IN  [proto EXCEPT !.ephemeral = <<OrElse(proto.ephemeral, FALSE)>>]

\* toProtoMessage: every field is there, undefined if need be.
EmptyMessage ==
    [payload |-> <<EmptyBytes>>, contentTopic |-> <<"">>, version |-> <<>>,
     timestamp |-> <<>>, meta |-> <<>>, rateLimitProof |-> <<>>,
     ephemeral |-> <<>>]
toProtoMessage(wire) ==
    [field \in DOMAIN EmptyMessage |->
        IF field \in DOMAIN wire THEN wire[field] ELSE EmptyMessage[field]]

\* What a decoded message shows: the getters of DecodedMessage.
DecodedMessage(pubsubTopic, proto, payload, signaturePublicKey) ==
    [pubsubTopic |-> pubsubTopic,
     contentTopic |-> proto.contentTopic[1],
     payload |-> payload,
     timestamp |-> IF OrElse(proto.timestamp, 0) = 0 THEN <<>>
                   ELSE <<proto.timestamp[1] \div OneMillion>>,
     meta |-> proto.meta,
     version |-> OrElse(proto.version, 0),
     rateLimitProof |-> proto.rateLimitProof,
     ephemeral |-> OrElse(proto.ephemeral, FALSE),
     signaturePublicKey |-> signaturePublicKey]

\* Decoder.fromProtoObj: <<message>>, or <<>> for undefined.  Version 0 turns
\* away any other version, one that is undefined counts as 0.
fromProtoObjV0(pubsubTopic, proto) ==
    IF OrElse(proto.version, 0) # 0 THEN <<>>
    ELSE <<DecodedMessage(pubsubTopic, proto, proto.payload[1], <<>>)>>

\* The encrypting packages turn away every version but theirs, what the key
\* does not open, and what has no payload size.
fromProtoObjV1(pubsubTopic, proto, opened) ==
    LET res == IF opened = <<>> THEN <<>> ELSE postCipher(opened[1])
    IN  IF proto.version # <<1>> \/ res = <<>> THEN <<>>
        ELSE <<DecodedMessage(pubsubTopic, proto, res[1].payload,
                              res[1].signaturePublicKey)>>

\* The mutant of fromProtoObj does not look at the version.
AnyVersion(dec, pubsubTopic, proto) ==
    CASE dec.kind = "plain" ->
            <<DecodedMessage(pubsubTopic, proto, proto.payload[1], <<>>)>>
      [] dec.kind = "ecies" ->
            fromProtoObjV1(pubsubTopic, proto,
                           decryptAsymmetric(proto.payload[1], dec.key))
      [] dec.kind = "symmetric" ->
            fromProtoObjV1(pubsubTopic, proto,
                           decryptSymmetric(proto.payload[1], dec.key))
fromProtoObj(dec, pubsubTopic, proto) ==
    CASE dec.kind = "plain" -> fromProtoObjV0(pubsubTopic, proto)
      [] dec.kind = "ecies" ->
            fromProtoObjV1(pubsubTopic, proto,
                           decryptAsymmetric(proto.payload[1], dec.key))
      [] dec.kind = "symmetric" ->
            fromProtoObjV1(pubsubTopic, proto,
                           decryptSymmetric(proto.payload[1], dec.key))

verifySignature(message, publicKey) == message.signaturePublicKey = <<publicKey>>

-----------------------------------------------------------------------------
\* messageHash: the hash is ideal, so it is what is hashed: the concatenation,
\* from which empty byte strings vanish, of what is defined.  The timestamp is
\* in nanoseconds, and left out when it is 0.
Piece(bytes) == IF bytes = EmptyBytes THEN <<>> ELSE <<bytes>>
HashOf(pubsubTopic, contentTopic, payload, meta, timestamp) ==
    << <<"text", pubsubTopic>> >> \o Piece(payload) \o << <<"text", contentTopic>> >>
    \o Piece(OrElse(meta, EmptyBytes))
    \o (IF OrElse(timestamp, 0) = 0 THEN <<>> ELSE << <<"number", timestamp[1]>> >>)

\* The hash of a message as it is on the wire.  The mutant hashes all of it.
HashOfEverything(pubsubTopic, proto) == <<pubsubTopic, proto>>
messageHash(pubsubTopic, proto) ==
    HashOf(pubsubTopic, proto.contentTopic[1], proto.payload[1], proto.meta,
           proto.timestamp)

\* The hash of a decoded message, whose timestamp is a Date in milliseconds.
\* The mutant forgets to convert it.
HashInMilliseconds(m) ==
    HashOf(m.pubsubTopic, m.contentTopic, m.payload, m.meta, m.timestamp)
decodedMessageHash(m) ==
    HashOf(m.pubsubTopic, m.contentTopic, m.payload, m.meta,
           IF m.timestamp = <<>> THEN <<>> ELSE <<m.timestamp[1] * OneMillion>>)
=============================================================================
