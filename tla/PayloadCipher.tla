----------------------------- MODULE PayloadCipher -----------------------------
(***************************************************************************)
(* The payload encryption of @waku/message-encryption (26/WAKU-PAYLOAD).   *)
(* A payload is put into an envelope                                       *)
(*     flags | payload size | payload | padding [| signature]              *)
(* which is encrypted for a key.  Sizes are counted in bytes; the ciphers, *)
(* the hash and the signature scheme are ideal: a ciphertext opens with    *)
(* its key only, and a signature names its signer over the signed bytes.   *)
(***************************************************************************)
EXTENDS ProtoMessages

FlagsLength == 1
FlagMask == 3
IsSignedMask == 4
PaddingTarget == 256
SignatureLength == 65

\* A payload of n bytes, and the number of its bytes.
Data(n) == IF n = 0 THEN EmptyBytes ELSE <<"data", n>>
DataSize(payload) == IF payload = EmptyBytes THEN 0 ELSE payload[2]

\* The bytes of the field that holds the payload size, for arrays below 4 GiB.
\* The mutant is off by one at the powers of 256.
SizeFieldTooShort(n) ==
    CASE n <= 256 -> 1
      [] n > 256 /\ n <= 65536 -> 2
      [] n > 65536 /\ n <= 16777216 -> 3
      [] n > 16777216 -> 4
computeSizeOfPayloadSizeField(n) ==
    CASE n < 256 -> 1
      [] n >= 256 /\ n < 65536 -> 2
      [] n >= 65536 /\ n < 16777216 -> 3
      [] n >= 16777216 -> 4

\* addPayloadSizeField: the little-endian size cut to the field, whose width
\* goes into the flags, which are 0 before.
addPayloadSizeField(n) ==
    LET fieldSize == computeSizeOfPayloadSizeField(n)
    IN  [flags |-> fieldSize, width |-> fieldSize,
         size |-> IF fieldSize = 4 THEN n
                  ELSE n % <<256, 65536, 16777216>>[fieldSize]]

\* flags | IsSignedMask and flags & IsSignedMask.
WithSignedFlag(flags) ==
    IF (flags \div IsSignedMask) % 2 = 1 THEN flags ELSE flags + IsSignedMask
HasSignedFlag(flags) == (flags \div IsSignedMask) % 2 = 1

\* The padding up to a multiple of PaddingTarget, never none.  The mutant
\* forgets the signature.
PaddingIgnoringSignature(field, n, isSigned) ==
    PaddingTarget - ((FlagsLength + field.width + n) % PaddingTarget)
Padding(field, n, isSigned) ==
    LET rawSize == FlagsLength + computeSizeOfPayloadSizeField(n) + n
                   + (IF isSigned THEN SignatureLength ELSE 0)
    IN  PaddingTarget - (rawSize % PaddingTarget)

\* The envelope without its signature, and with it: a signature is the key
\* that made it and what it was made over.
Unsigned(envelope) == [envelope EXCEPT !.sig = <<>>]
sign(envelope, key) == [envelope EXCEPT !.sig = <<key, Unsigned(envelope)>>]

\* The mutant signs before the flag is set.
preCipherFlagLast(payload, sigPrivKey) ==
    LET field == addPayloadSizeField(DataSize(payload))
        envelope == [flags |-> field.flags, width |-> field.width,
                     size |-> field.size, payload |-> payload,
                     padding |-> Padding(field, DataSize(payload), sigPrivKey # <<>>),
                     sig |-> <<>>]
    IN  IF sigPrivKey = <<>> THEN envelope
        ELSE [sign(envelope, sigPrivKey[1])
                EXCEPT !.flags = WithSignedFlag(envelope.flags)]
preCipher(payload, sigPrivKey) ==
    LET field == addPayloadSizeField(DataSize(payload))
        envelope == [flags |-> field.flags, width |-> field.width,
                     size |-> field.size, payload |-> payload,
                     padding |-> Padding(field, DataSize(payload), sigPrivKey # <<>>),
                     sig |-> <<>>]
    IN  IF sigPrivKey = <<>> THEN envelope
        ELSE sign([envelope EXCEPT !.flags = WithSignedFlag(envelope.flags)],
                  sigPrivKey[1])

EnvelopeSize(e) ==
    FlagsLength + e.width + DataSize(e.payload) + e.padding
    + (IF e.sig = <<>> THEN 0 ELSE SignatureLength)

getSizeOfPayloadSizeField(e) == e.flags % (FlagMask + 1)
isMessageSigned(e) == HasSignedFlag(e.flags)

\* message.slice(start, start + size): the payload, when start and size are
\* its own, and other bytes otherwise.
Slice(e, start, size) ==
    IF start = FlagsLength + e.width /\ size = DataSize(e.payload)
    THEN e.payload ELSE <<"bytes from", start, size>>

\* ecRecoverPubKey over the hash of all but the signature.  An envelope that
\* only claims a signature, or one made over other bytes, gives a key that is
\* nobody's.
ecRecoverPubKey(e) ==
    IF e.sig # <<>> /\ e.sig[2] = Unsigned(e) THEN e.sig[1] ELSE "nobody"

\* The payload and who signed it, or nothing when there is no size field
\* (a width of 4 or more is lost in the flags).
postCipher(e) ==
    LET width == getSizeOfPayloadSizeField(e)
    IN  IF width = 0 THEN <<>>
        ELSE << [payload |-> Slice(e, FlagsLength + width, e.size),
                 signaturePublicKey |->
                    IF isMessageSigned(e) THEN <<ecRecoverPubKey(e)>> ELSE <<>>] >>

\* ECIES (crypto/ecies.ts): the ephemeral public key, the initial vector and
\* the authentication code go with the ciphertext.
EciesOverhead == 65 + 16 + 32
encryptAsymmetric(e, key) == <<"ecies", key, e>>

\* AES-GCM (crypto/symmetric.ts): the tag and the initial vector do.
SymmetricOverhead == 16 + 12
encryptSymmetric(e, key) == <<"symmetric", key, e>>

\* What a key opens: bytes that are of another kind, for another key, or not a
\* ciphertext make the cipher throw.
OpenedWith(kind, bytes, key) ==
    IF bytes # EmptyBytes /\ bytes[1] = kind /\ bytes[2] = key
    THEN <<bytes[3]>> ELSE <<>>
decryptAsymmetric(bytes, key) == OpenedWith("ecies", bytes, key)
decryptSymmetric(bytes, key) == OpenedWith("symmetric", bytes, key)

\* The number of bytes of a payload, encrypted or not.
ByteLength(bytes) ==
    CASE bytes = EmptyBytes -> 0
      [] bytes # EmptyBytes /\ bytes[1] = "ecies" ->
            EnvelopeSize(bytes[3]) + EciesOverhead
      [] bytes # EmptyBytes /\ bytes[1] = "symmetric" ->
            EnvelopeSize(bytes[3]) + SymmetricOverhead
      [] OTHER -> DataSize(bytes)
=============================================================================
