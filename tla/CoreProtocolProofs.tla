-------------------------- MODULE CoreProtocolProofs --------------------------
(***************************************************************************)
(* Proofs about what @waku/core gives the protocols of a node, in five     *)
(* parts that share no state and are specifications of their own:          *)
(*   - the streams of StreamManager, for every number of calls, scheduled  *)
(*     creations, connections and streams;                                 *)
(*   - the peers PeerFilter chooses, for every finite set of peers, every  *)
(*     order of them and all latencies;                                    *)
(*   - a request and its response on the wire (RpcExchange), with every    *)
(*     codec of ProtoMessages, for all calls and answers;                  *)
(*   - the topics of a node (NodeTopics, Sharding), for all configurations *)
(*     and every digest of its content topics;                             *)
(*   - a message from sender to receiver (MessagePath, Messages,           *)
(*     PayloadCipher), for all encoders, messages and decoders.            *)
(* The last four are about lists of unknown length, so they first prove    *)
(* what the helpers of Lists and the codecs return on every list.          *)
(***************************************************************************)
EXTENDS StreamManager, MessagePath, RpcExchange, NodeTopics, PeerFilter,
        SequenceTheorems, FiniteSetTheorems, TLAPS

\* A stream that was found is locked, so that nobody finds it again, and it is
\* no stream that is still to be opened; nor is the one a call has created.
FoundLocked ==
    \A g \in Gets :
        /\ get[g].at = "found" => /\ get[g].stream \in 1 .. created
                                  /\ stream[get[g].stream].locked
        /\ get[g].at = "created" => get[g].stream \in 1 .. created

\* Streams still to be opened are blank.
BlankAhead == \A s \in Streams : s > created => stream[s] = NoStream

\* The lock of createStreamWithLock without cardinalities.
LockExact ==
    /\ \A r, q \in Creating : r = q
    /\ ongoingCreation <=> Creating # {}

IInv == TypeOK /\ FoundLocked /\ BlankAhead /\ FoundByOne /\ LockExact

USE StreamManagerAssumption

-----------------------------------------------------------------------------
(* What the lookups return. *)

\* getOpenStreamForCodec returns nothing, or a free stream.
LEMMA OpenStreamFree ==
    ASSUME getOpenStreamForCodec # None
    PROVE  getOpenStreamForCodec \in Streams /\ Free(getOpenStreamForCodec)
<1> DEFINE free == {s \in ListedOn(selectOpenConnection) :
                      Free(s) /\ \A t \in ListedOn(selectOpenConnection) : s <= t}
<1>1. free # {} /\ getOpenStreamForCodec = CHOOSE s \in free : TRUE
  BY DEF getOpenStreamForCodec
<1>2. getOpenStreamForCodec \in free
  BY <1>1
<1> QED
  BY <1>2 DEF ListedOn

\* Open connections have been opened.
LEMMA OpenConnections == TypeOK => open \subseteq Connections
BY DEF TypeOK, Connections

\* The connection that is chosen is an open one.
LEMMA SelectedConnection ==
    ASSUME TypeOK, selectOpenConnection # None
    PROVE  selectOpenConnection \in Connections
<1> DEFINE newest == {c \in open : \A d \in open : d <= c}
<1>1. newest # {} /\ selectOpenConnection = CHOOSE c \in newest : TRUE
  BY DEF selectOpenConnection
<1>2. selectOpenConnection \in open
  BY <1>1
<1> QED
  BY <1>2, OpenConnections

-----------------------------------------------------------------------------
(* The initial state. *)

LEMMA InitIInv == Init => IInv
<1> SUFFICES ASSUME Init PROVE IInv
  OBVIOUS
<1>1. /\ IdleGet \in Get /\ IdleGet.at = "idle"
      /\ IdleCreation \in Creation /\ IdleCreation.at = "idle"
      /\ NoStream \in Stream
  BY DEF IdleGet, Get, IdleCreation, Creation, NoStream, Stream, Ended
<1>2. TypeOK
  <2>1. /\ get \in [Gets -> Get] /\ promise \in [Promises -> Creation]
        /\ stream \in [Streams -> Stream]
    BY <1>1 DEF Init
  <2>2. /\ \A g \in Gets : get[g].at # "creating"
        /\ \A r \in Promises : promise[r].at # "creating"
    BY <1>1 DEF Init
  <2>3. opened \in 0 .. MaxConnections /\ open \subseteq 1 .. opened
    BY DEF Init
  <2>4. streamPool \in Promises \cup {None} /\ ongoingCreation \in BOOLEAN
    BY Zenon DEF Init
  <2>5. created \in 0 .. MaxStreams
    BY DEF Init
  <2> QED
    BY <2>1, <2>2, <2>3, <2>4, <2>5 DEF TypeOK
<1>3. FoundLocked /\ BlankAhead /\ FoundByOne
  BY <1>1 DEF Init, FoundLocked, BlankAhead, FoundByOne
<1>4. LockExact
  BY <1>1 DEF Init, LockExact, Creating
<1> QED
  BY <1>2, <1>3, <1>4 DEF IInv

-----------------------------------------------------------------------------
(* The lookup of getStream, with which two of its steps end. *)

LEMMA LookupKeeps ==
    ASSUME IInv, NEW g \in Gets, Lookup(g), get[g].at \in {"idle", "scheduled"},
           UNCHANGED <<promise, ongoingCreation, opened, open, created>>,
           streamPool' \in Promises \cup {None}
    PROVE  IInv'
<1> DEFINE s == getOpenStreamForCodec
           c == selectOpenConnection
<1> USE DEF IInv
<1>1. CASE s # None
  <2>1. s \in Streams /\ Free(s)
    BY <1>1, OpenStreamFree
  <2>2. get' = [get EXCEPT ![g] = [IdleGet EXCEPT !.at = "found", !.stream = s]]
    BY <1>1 DEF Lookup
  <2>3. stream' = [stream EXCEPT ![s].locked = TRUE]
    BY <1>1 DEF Lookup, lockStream
  <2> HIDE DEF s
  <2>4. /\ get'[g] \in Get /\ get'[g].at = "found" /\ get'[g].stream = s
        /\ \A h \in Gets \ {g} : get'[h] = get[h]
        /\ get' \in [Gets -> Get]
    BY <2>1, <2>2 DEF TypeOK, Get, IdleGet, Ended
  <2>5. /\ stream' \in [Streams -> Stream]
        /\ \A t \in Streams : /\ t # s => stream'[t] = stream[t]
                              /\ t = s => stream'[t].locked
    BY <2>1, <2>3 DEF TypeOK, Stream
  <2>6. TypeOK'
    BY <2>4, <2>5 DEF TypeOK
  <2>7. s \in 1 .. created
    BY <2>1 DEF BlankAhead, Free, NoStream, TypeOK, Streams
  <2>8. FoundLocked' /\ BlankAhead'
    <3>1. ASSUME NEW h \in Gets
          PROVE  /\ get'[h].at = "found" => /\ get'[h].stream \in 1 .. created
                                           /\ stream'[get'[h].stream].locked
                 /\ get'[h].at = "created" => get'[h].stream \in 1 .. created
      <4>1. CASE h = g
        BY <2>1, <2>4, <2>5, <2>7, <4>1
      <4>2. CASE h # g
        <5>1. get'[h] = get[h]
          BY <2>4, <4>2
        <5>2. \A t \in 1 .. created : stream[t].locked => stream'[t].locked
          BY <2>5 DEF TypeOK, Streams
        <5> QED
          BY <5>1, <5>2 DEF FoundLocked
      <4> QED
        BY <4>1, <4>2
    <3>2. FoundLocked'
      BY <3>1 DEF FoundLocked
    <3>3. BlankAhead'
      BY <2>5, <2>7 DEF BlankAhead, TypeOK, Streams
    <3> QED
      BY <3>2, <3>3
  <2>9. \A h \in Gets : get[h].at = "found" => get[h].stream # s
    BY <2>1 DEF FoundLocked, Free
  <2>10. FoundByOne'
    BY <2>4, <2>9 DEF FoundByOne
  <2> QED
    BY <2>6, <2>8, <2>10 DEF LockExact, Creating
<1>2. CASE s = None
  <2>1. c # None => c \in Connections
    BY SelectedConnection
  <2>2. stream' = stream
    BY <1>2 DEF Lookup
  <2>3. /\ get' = [get EXCEPT ![g] =
                     IF c # None THEN [IdleGet EXCEPT !.at = "creating", !.on = c]
                     ELSE [IdleGet EXCEPT !.at = "failed"]]
    BY <1>2 DEF Lookup, CanCreate
  <2> HIDE DEF s, c
  <2>4. /\ get'[g] \in Get /\ get'[g].at \in {"creating", "failed"}
        /\ get'[g].at = "creating" => get'[g].on # None
        /\ \A h \in Gets \ {g} : get'[h] = get[h]
        /\ get' \in [Gets -> Get]
    BY <2>1, <2>3 DEF TypeOK, Get, IdleGet, Ended
  <2>5. TypeOK'
    BY <2>2, <2>4 DEF TypeOK
  <2>6. FoundLocked' /\ BlankAhead' /\ FoundByOne'
    BY <2>2, <2>4 DEF FoundLocked, BlankAhead, FoundByOne
  <2> QED
    BY <2>5, <2>6 DEF LockExact, Creating
<1> QED
  BY <1>1, <1>2

-----------------------------------------------------------------------------
(* One lemma for each kind of step. *)

\* getStream: the call, its resumption and its end.
LEMMA GetStreamKeeps ==
    ASSUME IInv, NEW g \in Gets, GetStream(g)
    PROVE  IInv'
<1>1. CASE streamPool = None
  <2>1. Lookup(g) /\ streamPool' \in Promises \cup {None}
    BY <1>1 DEF GetStream
  <2> QED
    BY <2>1, LookupKeeps DEF GetStream
<1>2. CASE streamPool # None
  <2> USE DEF IInv
  <2>1. /\ get' = [get EXCEPT ![g] = [IdleGet EXCEPT !.at = "scheduled",
                                                    !.promise = streamPool]]
        /\ streamPool' = None
        /\ UNCHANGED <<promise, ongoingCreation, opened, open, stream, created>>
    BY <1>2 DEF GetStream
  <2>2. /\ get'[g] \in Get /\ get'[g].at = "scheduled"
        /\ \A h \in Gets \ {g} : get'[h] = get[h]
        /\ get' \in [Gets -> Get]
    BY <1>2, <2>1 DEF TypeOK, Get, IdleGet, Ended
  <2>3. TypeOK'
    BY <2>1, <2>2 DEF TypeOK
  <2>4. FoundLocked' /\ BlankAhead' /\ FoundByOne'
    BY <2>1, <2>2 DEF FoundLocked, BlankAhead, FoundByOne
  <2> QED
    BY <2>1, <2>3, <2>4 DEF LockExact, Creating
<1> QED
  BY <1>1, <1>2

LEMMA AfterScheduledKeeps ==
    ASSUME IInv, NEW g \in Gets, AfterScheduled(g)
    PROVE  IInv'
BY LookupKeeps DEF AfterScheduled, IInv, TypeOK

LEMMA AfterCreateKeeps ==
    ASSUME IInv, NEW g \in Gets, AfterCreate(g)
    PROVE  IInv'
<1> USE DEF IInv
<1>1. UNCHANGED <<promise, streamPool, ongoingCreation, opened, open, created>>
  BY DEF AfterCreate
<1>2. /\ get'[g].at \in {"made", "failed"}
      /\ \A h \in Gets \ {g} : get'[h] = get[h]
      /\ get' \in [Gets -> Get]
  BY DEF AfterCreate, TypeOK, Get, Ended
<1>3. /\ stream' \in [Streams -> Stream]
      /\ \A s \in Streams : stream[s].locked => stream'[s].locked
      /\ \A s \in Streams : s > created => stream'[s] = stream[s]
  <2>1. \/ stream' = stream
        \/ /\ get[g].stream \in 1 .. created
           /\ stream' = [stream EXCEPT ![get[g].stream].locked = TRUE]
    BY DEF AfterCreate, FoundLocked, lockStream
  <2>2. CASE stream' = stream
    BY <2>2 DEF TypeOK
  <2>3. ASSUME NEW s \in 1 .. created,
               stream' = [stream EXCEPT ![s].locked = TRUE]
        PROVE  /\ stream' \in [Streams -> Stream]
               /\ \A t \in Streams : stream[t].locked => stream'[t].locked
               /\ \A t \in Streams : t > created => stream'[t] = stream[t]
    <3>1. /\ s \in Streams /\ stream \in [Streams -> Stream]
          /\ \A t \in Streams : t > created => t # s
      BY <2>3 DEF TypeOK, Streams
    <3>2. stream' \in [Streams -> Stream]
      BY <2>3, <3>1 DEF Stream
    <3>3. /\ stream'[s].locked
          /\ \A t \in Streams \ {s} : stream'[t] = stream[t]
      BY <2>3, <3>1 DEF Stream
    <3> QED
      BY <3>1, <3>2, <3>3
  <2> QED
    BY <2>1, <2>2, <2>3
<1>4. TypeOK'
  BY <1>1, <1>2, <1>3 DEF TypeOK
<1>5. BlankAhead' /\ FoundByOne'
  BY <1>1, <1>2, <1>3 DEF BlankAhead, FoundByOne
<1>6. FoundLocked'
  <2> SUFFICES ASSUME NEW h \in Gets \ {g} PROVE FoundLocked!(h)'
    BY <1>2 DEF FoundLocked
  <2>1. FoundLocked!(h) /\ get'[h] = get[h]
    BY <1>2 DEF FoundLocked
  <2> QED
    BY <1>1, <1>3, <2>1 DEF TypeOK, Streams
<1> QED
  BY <1>1, <1>4, <1>5, <1>6 DEF LockExact, Creating

-----------------------------------------------------------------------------
(* Scheduled creations. *)

\* The lock is exact again when it is held by the creation of r alone, ...
LEMMA LockTaken ==
    ASSUME NEW r \in Promises, Creating' = {r}, ongoingCreation' = TRUE
    PROVE  LockExact'
BY DEF LockExact

\* ... or by nobody.
LEMMA LockFree ==
    ASSUME Creating' = {}, ongoingCreation' = FALSE
    PROVE  LockExact'
BY DEF LockExact

LEMMA PeerUpdateKeeps ==
    ASSUME IInv, NEW r \in Promises, PeerUpdate(r)
    PROVE  IInv'
<1> DEFINE c == selectOpenConnection
<1> USE DEF IInv
<1>1. /\ promise[r].at = "idle" /\ createStreamWithLock(r) /\ streamPool' = r
      /\ UNCHANGED <<get, opened, open, stream, created>>
  BY DEF PeerUpdate
<1>2. FoundLocked' /\ BlankAhead' /\ FoundByOne'
  BY <1>1 DEF FoundLocked, BlankAhead, FoundByOne
<1>3. CASE ongoingCreation \/ c = None
  <2>1. /\ promise' = [promise EXCEPT ![r].at = "settled"]
        /\ ongoingCreation' = ongoingCreation
    BY <1>1, <1>3 DEF createStreamWithLock, SkipKeepsLock, CanCreate
  <2>2. /\ promise' \in [Promises -> Creation]
        /\ promise'[r].at = "settled"
        /\ \A q \in Promises \ {r} : promise'[q] = promise[q]
    BY <2>1 DEF TypeOK, Creation
  <2>3. Creating' = Creating
    BY <1>1, <2>2 DEF Creating
  <2> QED
    BY <1>1, <1>2, <2>1, <2>2, <2>3 DEF TypeOK, LockExact
<1>4. CASE ~ongoingCreation /\ c # None
  <2>1. /\ promise' = [promise EXCEPT ![r] = [at |-> "creating", on |-> c]]
        /\ ongoingCreation' = TRUE
    BY <1>1, <1>4 DEF createStreamWithLock, CanCreate
  <2>2. c \in Connections
    BY <1>4, SelectedConnection
  <2> HIDE DEF c
  <2>3. /\ promise' \in [Promises -> Creation]
        /\ promise'[r].at = "creating" /\ promise'[r].on # None
        /\ \A q \in Promises \ {r} : promise'[q] = promise[q]
    BY <1>4, <2>1, <2>2 DEF TypeOK, Creation
  <2>4. Creating' = {r}
    <3>1. Creating = {}
      BY <1>4 DEF LockExact
    <3> QED
      BY <2>3, <3>1 DEF Creating
  <2>5. LockExact'
    BY <2>1, <2>4, LockTaken
  <2>6. TypeOK'
    BY <1>1, <2>1, <2>3 DEF TypeOK
  <2> QED
    BY <1>2, <2>5, <2>6
<1> QED
  BY <1>3, <1>4

LEMMA AfterScheduledCreateKeeps ==
    ASSUME IInv, NEW r \in Promises, AfterScheduledCreate(r)
    PROVE  IInv'
<1> USE DEF IInv
<1>1. /\ r \in Creating
      /\ promise' = [promise EXCEPT ![r].at = "settled"]
      /\ ongoingCreation' = FALSE
      /\ UNCHANGED <<get, streamPool, opened, open, stream, created>>
  BY DEF AfterScheduledCreate, Released, Creating
<1>2. /\ promise' \in [Promises -> Creation]
      /\ promise'[r].at = "settled"
      /\ \A q \in Promises \ {r} : promise'[q] = promise[q]
  BY <1>1 DEF TypeOK, Creation
<1>3. Creating' = {}
  <2>1. \A q \in Promises \ {r} : q \notin Creating
    BY <1>1 DEF LockExact
  <2> QED
    BY <1>2, <2>1 DEF Creating
<1>4. TypeOK'
  BY <1>1, <1>2 DEF TypeOK
<1>5. FoundLocked' /\ BlankAhead' /\ FoundByOne'
  BY <1>1 DEF FoundLocked, BlankAhead, FoundByOne
<1> QED
  BY <1>1, <1>3, <1>4, <1>5, LockFree

-----------------------------------------------------------------------------
(* The steps of libp2p. *)

\* A new stream disturbs no stream that was handed out.
LEMMA OpenedKeeps ==
    ASSUME IInv, NEW c \in Connections, Opened(c)
    PROVE  /\ created' \in 0 .. MaxStreams /\ created' = created + 1
           /\ stream' \in [Streams -> Stream]
           /\ \A s \in 1 .. created : s \in Streams /\ stream'[s] = stream[s]
           /\ BlankAhead'
<1>1. /\ created \in Nat /\ created < MaxStreams /\ created' = created + 1
      /\ stream' = [stream EXCEPT ![created + 1] =
                      [on |-> c, status |-> "usable", locked |-> FALSE]]
      /\ stream \in [Streams -> Stream]
  BY DEF Opened, IInv, TypeOK
<1>2. created + 1 \in Streams
  BY <1>1 DEF Streams
<1>3. /\ stream' \in [Streams -> Stream]
      /\ \A s \in Streams \ {created + 1} : stream'[s] = stream[s]
  BY <1>1, <1>2 DEF Stream
<1>4. BlankAhead'
  BY <1>1, <1>3 DEF BlankAhead, IInv, Streams
<1>5. \A s \in 1 .. created : s \in Streams /\ s # created + 1
  BY <1>1 DEF Streams
<1> QED
  BY <1>1, <1>3, <1>4, <1>5

LEMMA NewStreamForGetKeeps ==
    ASSUME IInv, NEW g \in Gets, NewStreamForGet(g)
    PROVE  IInv'
<1> USE DEF IInv
<1>1. /\ get[g].at = "creating"
      /\ UNCHANGED <<promise, streamPool, ongoingCreation, opened, open>>
  BY DEF NewStreamForGet
<1>2. CASE get' = [get EXCEPT ![g].at = "rejected"] /\ UNCHANGED <<created, stream>>
  <2>1. /\ get' \in [Gets -> Get] /\ get'[g].at = "rejected"
        /\ \A h \in Gets \ {g} : get'[h] = get[h]
    BY <1>2 DEF TypeOK, Get
  <2>2. TypeOK'
    BY <1>1, <1>2, <2>1 DEF TypeOK
  <2>3. FoundLocked' /\ BlankAhead' /\ FoundByOne'
    BY <1>2, <2>1 DEF FoundLocked, BlankAhead, FoundByOne
  <2> QED
    BY <1>1, <2>2, <2>3 DEF LockExact, Creating
<1>3. CASE /\ get[g].on \in open /\ Opened(get[g].on)
           /\ get' = [get EXCEPT ![g].at = "created", ![g].stream = created']
  <2>1. get[g].on \in Connections
    BY <1>3, OpenConnections
  <2>2. /\ created' \in 0 .. MaxStreams /\ created' = created + 1
        /\ stream' \in [Streams -> Stream]
        /\ \A s \in 1 .. created : s \in Streams /\ stream'[s] = stream[s]
        /\ BlankAhead'
    BY <1>3, <2>1, OpenedKeeps
  <2>3. created \in Nat /\ created' \in 1 .. created' /\ created' \in Streams
    BY <2>2 DEF TypeOK, Streams
  <2>4. /\ get' \in [Gets -> Get]
        /\ get'[g].at = "created" /\ get'[g].stream = created'
        /\ \A h \in Gets \ {g} : get'[h] = get[h]
    BY <1>3, <2>3 DEF TypeOK, Get
  <2>5. TypeOK'
    BY ZenonT(60), <1>1, <2>2, <2>4 DEF TypeOK
  <2>6. FoundByOne'
    BY <2>4 DEF FoundByOne
  <2>7. FoundLocked'
    BY <2>2, <2>3, <2>4 DEF FoundLocked
  <2> QED
    BY <1>1, <2>2, <2>5, <2>6, <2>7 DEF LockExact, Creating
<1> QED
  BY <1>2, <1>3 DEF NewStreamForGet, AfterRejection

\* A step that only adds a stream, and does not touch the calls.
LEMMA StreamAddedKeeps ==
    ASSUME IInv, NEW c \in Connections, Opened(c),
           UNCHANGED <<get, streamPool, ongoingCreation, opened, open>>,
           promise' \in [Promises -> Creation],
           \A r \in Promises : promise'[r].at = "creating" => promise'[r].on # None,
           Creating' = Creating
    PROVE  IInv'
<1> USE DEF IInv
<1>1. /\ created' \in 0 .. MaxStreams /\ created' = created + 1
      /\ stream' \in [Streams -> Stream]
      /\ \A s \in 1 .. created : s \in Streams /\ stream'[s] = stream[s]
      /\ BlankAhead'
  BY OpenedKeeps
<1>2. TypeOK'
  BY <1>1 DEF TypeOK
<1>3. \A s \in 1 .. created : s \in 1 .. created'
  BY <1>1 DEF TypeOK
<1>4. FoundLocked' /\ FoundByOne'
  BY <1>1, <1>3 DEF FoundLocked, FoundByOne
<1> QED
  BY <1>1, <1>2, <1>4 DEF LockExact

LEMMA NewStreamForPoolKeeps ==
    ASSUME IInv, NEW r \in Promises, NewStreamForPool(r)
    PROVE  IInv'
<1> USE DEF IInv
<1>1. /\ promise[r].at = "creating"
      /\ UNCHANGED <<get, streamPool, ongoingCreation, opened, open>>
  BY DEF NewStreamForPool
<1>2. \E s \in {"created", "rejected"} : promise' = [promise EXCEPT ![r].at = s]
  BY DEF NewStreamForPool, AfterRejection
<1>3. /\ promise' \in [Promises -> Creation]
      /\ promise'[r].at \in {"created", "rejected"}
      /\ \A q \in Promises \ {r} : promise'[q] = promise[q]
  BY <1>2 DEF TypeOK, Creation
<1>4. \A q \in Promises : promise'[q].at = "creating" => promise'[q].on # None
  BY <1>3 DEF TypeOK
<1>5. Creating' = Creating
  BY <1>1, <1>3 DEF Creating
<1>6. CASE UNCHANGED <<created, stream>>
  <2>1. TypeOK'
    BY <1>1, <1>3, <1>4, <1>6 DEF TypeOK
  <2>2. FoundLocked' /\ BlankAhead' /\ FoundByOne'
    BY <1>1, <1>6 DEF FoundLocked, BlankAhead, FoundByOne
  <2> QED
    BY <1>1, <1>5, <2>1, <2>2 DEF LockExact
<1>7. CASE promise[r].on \in open /\ Opened(promise[r].on)
  <2>1. promise[r].on \in Connections
    BY <1>7, OpenConnections
  <2> QED
    BY <1>1, <1>3, <1>4, <1>5, <1>7, <2>1, StreamAddedKeeps
<1> QED
  BY <1>6, <1>7 DEF NewStreamForPool

LEMMA InboundStreamKeeps ==
    ASSUME IInv, NEW c \in Connections, InboundStream(c)
    PROVE  IInv'
<1>1. Opened(c) /\ UNCHANGED <<managerVars, opened, open>>
  BY DEF InboundStream
<1>2. /\ promise' \in [Promises -> Creation]
      /\ \A r \in Promises : promise'[r].at = "creating" => promise'[r].on # None
      /\ Creating' = Creating
  BY <1>1 DEF IInv, TypeOK, managerVars, Creating
<1> QED
  BY <1>1, <1>2, StreamAddedKeeps DEF managerVars

\* Streams that end stay locked, and blank ones stay blank.
LEMMA StreamsEndKeeps ==
    ASSUME IInv, UNCHANGED <<managerVars, created>>,
           opened' \in 0 .. MaxConnections, open' \subseteq 1 .. opened',
           stream' \in [Streams -> Stream],
           \A s \in Streams : /\ stream'[s].locked = stream[s].locked
                              /\ stream[s] = NoStream => stream'[s] = NoStream
    PROVE  IInv'
<1> USE DEF IInv
<1>1. UNCHANGED <<get, promise, streamPool, ongoingCreation, created>>
  BY DEF managerVars
<1>2. TypeOK'
  BY <1>1 DEF TypeOK
<1>3. \A s \in 1 .. created : s \in Streams
  BY DEF TypeOK, Streams
<1>4. FoundLocked'
  BY <1>1, <1>3 DEF FoundLocked
<1>5. BlankAhead' /\ FoundByOne'
  BY <1>1 DEF BlankAhead, FoundByOne
<1> QED
  BY <1>1, <1>2, <1>4, <1>5 DEF LockExact, Creating

LEMMA StreamEndsKeeps ==
    ASSUME IInv, NEW s \in Streams, StreamEnds(s)
    PROVE  IInv'
<1>1. /\ stream[s].status # "none" /\ stream \in [Streams -> Stream]
      /\ \E e \in {"unusable", "removed"} :
            stream' = [stream EXCEPT ![s].status = e]
  BY DEF StreamEnds, IInv, TypeOK
<1>2. /\ stream' \in [Streams -> Stream]
      /\ stream'[s].locked = stream[s].locked /\ stream[s] # NoStream
      /\ \A t \in Streams \ {s} : stream'[t] = stream[t]
  BY <1>1 DEF Stream, NoStream
<1> QED
  BY <1>2, StreamsEndKeeps DEF StreamEnds, IInv, TypeOK

LEMMA ConnectionClosesKeeps ==
    ASSUME IInv, NEW c \in Connections, ConnectionCloses(c)
    PROVE  IInv'
<1>1. /\ stream \in [Streams -> Stream] /\ c # None
      /\ stream' = [s \in Streams |->
                      IF stream[s].on = c
                      THEN [stream[s] EXCEPT !.status = "removed"] ELSE stream[s]]
  BY DEF ConnectionCloses, IInv, TypeOK, Connections
<1>2. ASSUME NEW s \in Streams
      PROVE  /\ stream'[s] \in Stream /\ stream'[s].locked = stream[s].locked
             /\ stream[s] = NoStream => stream'[s] = NoStream
  <2>1. CASE stream[s].on = c
    BY <1>1, <2>1 DEF Stream, NoStream
  <2>2. CASE stream[s].on # c
    BY <1>1, <2>2
  <2> QED
    BY <2>1, <2>2
<1>3. stream' \in [Streams -> Stream]
  BY <1>1, <1>2
<1> QED
  BY <1>2, <1>3, StreamsEndKeeps DEF ConnectionCloses, IInv, TypeOK

LEMMA ConnectionOpensKeeps ==
    ASSUME IInv, ConnectionOpens
    PROVE  IInv'
<1>1. /\ opened' \in 0 .. MaxConnections /\ open' \subseteq 1 .. opened'
      /\ stream' \in [Streams -> Stream]
  BY DEF ConnectionOpens, IInv, TypeOK
<1> QED
  BY <1>1, StreamsEndKeeps DEF ConnectionOpens

-----------------------------------------------------------------------------
(* The theorems. *)

LEMMA NextIInv == IInv /\ [Next]_vars => IInv'
<1> SUFFICES ASSUME IInv, [Next]_vars PROVE IInv'
  OBVIOUS
<1>1. ASSUME NEW g \in Gets, GetStep(g) PROVE IInv'
  BY <1>1, GetStreamKeeps, AfterScheduledKeeps, NewStreamForGetKeeps,
     AfterCreateKeeps DEF GetStep
<1>2. ASSUME NEW r \in Promises, PeerUpdate(r) \/ PromiseStep(r) PROVE IInv'
  BY <1>2, PeerUpdateKeeps, NewStreamForPoolKeeps, AfterScheduledCreateKeeps
     DEF PromiseStep
<1>3. ASSUME NEW c \in Connections, InboundStream(c) \/ ConnectionCloses(c)
      PROVE  IInv'
  BY <1>3, InboundStreamKeeps, ConnectionClosesKeeps
<1>4. CASE UNCHANGED vars
  BY <1>4 DEF vars, managerVars, IInv, TypeOK, FoundLocked, BlankAhead,
              FoundByOne, LockExact, Creating
<1> QED
  BY <1>1, <1>2, <1>3, <1>4, StreamEndsKeeps, ConnectionOpensKeeps DEF Next

LEMMA Invariance == Spec => []IInv
<1>1. Init => IInv
  BY InitIInv
<1>2. IInv /\ [Next]_vars => IInv'
  BY NextIInv
<1> QED
  BY <1>1, <1>2, PTL DEF Spec

\* Every variable keeps its type, and no creation runs without a connection.
THEOREM StreamTypes == Spec => []TypeOK
<1>1. IInv => TypeOK
  BY DEF IInv
<1> QED
  BY <1>1, Invariance, PTL

\* The lock of createStreamWithLock is held exactly while one scheduled
\* creation runs, for any number of peer:update events.
THEOREM CreationLockExact == Spec => []OneScheduledCreation
<1>1. IInv => OneScheduledCreation
  <2> SUFFICES ASSUME IInv PROVE OneScheduledCreation
    OBVIOUS
  <2>1. \/ Creating = {}
        \/ \E r \in Creating : Creating = {r}
    BY DEF IInv, LockExact
  <2>2. Cardinality(Creating) \in {0, 1}
    BY <2>1, FS_EmptySet, FS_Singleton
  <2> QED
    BY <2>2 DEF IInv, LockExact, OneScheduledCreation
<1> QED
  BY <1>1, Invariance, PTL

\* Two getStream() calls never find the same stream.
THEOREM WaitingStreamGivenOnce == Spec => []FoundByOne
<1>1. IInv => FoundByOne
  BY DEF IInv
<1> QED
  BY <1>1, Invariance, PTL

HIDE StreamManagerAssumption

-----------------------------------------------------------------------------
(* Places of a list, and the way through them. *)

\* The elements of a list on the way at through n of its places.
On(list, at, n) == [k \in 1 .. n |-> list[at[k]]]

\* Whole numbers, finitely many, and a way through them from the least to the
\* greatest.
Places(S) == (\A i \in S : i \in Int) /\ IsFiniteSet(S)
Through(at, S, n) ==
    /\ at \in [1 .. n -> S]
    /\ \A k, l \in 1 .. n : k < l => at[k] < at[l]
    /\ \A i \in S : \E k \in 1 .. n : at[k] = i

\* An order of the members of a set that gives for each those up to it, and a
\* way through them in that order.
Orders(upTo, S) ==
    /\ upTo \in [S -> SUBSET S]
    /\ \A i \in S : i \in upTo[i]
    /\ \A i, j \in S : i # j =>
          \/ upTo[i] \subseteq upTo[j] /\ j \notin upTo[i]
          \/ upTo[j] \subseteq upTo[i] /\ i \notin upTo[j]
Along(at, S, upTo, n) ==
    /\ at \in [1 .. n -> S]
    /\ \A k, l \in 1 .. n : at[k] = at[l] => k = l
    /\ \A i \in S : \E k \in 1 .. n : at[k] = i
    /\ \A k, l \in 1 .. n : k < l => at[k] \in upTo[at[l]]

\* The places of a list, arranged: each is taken once, and comes after those up
\* to it.
LEMMA Arrangement ==
    ASSUME NEW list, NEW S, IsFiniteSet(S), NEW upTo, Orders(upTo, S)
    PROVE  /\ Cardinality(S) \in Nat
           /\ \E at : /\ Along(at, S, upTo, Cardinality(S))
                      /\ Arranged(list, upTo) = On(list, at, Cardinality(S))
<1>0. /\ upTo \in [S -> SUBSET S]
      /\ \A i \in S : i \in upTo[i]
      /\ \A i, j \in S : i # j =>
            \/ upTo[i] \subseteq upTo[j] /\ j \notin upTo[i]
            \/ upTo[j] \subseteq upTo[i] /\ i \notin upTo[j]
  BY DEF Orders
<1> DEFINE rank(i) == Cardinality(upTo[i])
           n == Cardinality(S)
           place(k) == CHOOSE i \in S : rank(i) = k
<1>1. IsFiniteSet(S) /\ n \in Nat
  BY FS_CardinalityType
<1>2. \A i \in S : IsFiniteSet(upTo[i]) /\ rank(i) \in 1 .. n
  <2> SUFFICES ASSUME NEW i \in S PROVE IsFiniteSet(upTo[i]) /\ rank(i) \in 1 .. n
    OBVIOUS
  <2>1. upTo[i] \subseteq S /\ i \in upTo[i]
    BY <1>0
  <2>2. IsFiniteSet(upTo[i]) /\ rank(i) <= n
    BY <1>1, <2>1, FS_Subset
  <2>3. rank(i) \in Nat /\ rank(i) # 0
    BY <2>1, <2>2, FS_CardinalityType, FS_EmptySet
  <2> QED
    BY <1>1, <2>2, <2>3
<1>3. ASSUME NEW i \in S, NEW j \in S, upTo[i] \subseteq upTo[j], j \notin upTo[i]
      PROVE  rank(i) < rank(j)
  <2>1. IsFiniteSet(upTo[j]) /\ upTo[i] # upTo[j]
    BY <1>0, <1>2, <1>3
  <2>2. rank(i) <= rank(j) /\ rank(i) # rank(j)
    BY <1>3, <2>1, FS_Subset
  <2>3. rank(i) \in 1 .. n /\ rank(j) \in 1 .. n
    BY <1>2
  <2> HIDE DEF rank, n
  <2> QED
    BY <1>1, <2>2, <2>3
<1> DEFINE f == [i \in S |-> rank(i)]
<1>4. \A i, j \in S : rank(i) = rank(j) => i = j
  <2> SUFFICES ASSUME NEW i \in S, NEW j \in S, rank(i) = rank(j), i # j PROVE FALSE
    OBVIOUS
  <2>1. rank(i) < rank(j) \/ rank(j) < rank(i)
    BY <1>0, <1>3
  <2>2. rank(i) \in 1 .. n /\ rank(j) \in 1 .. n
    BY <1>2
  <2> HIDE DEF rank, n
  <2> QED
    BY <1>1, <2>1, <2>2
<1>5. f \in Injection(S, 1 .. n)
  <2>1. f \in [S -> 1 .. n]
    <3> HIDE DEF rank, n
    <3> QED
      BY <1>2
  <2> HIDE DEF rank, n
  <2> QED
    BY <1>4, <2>1 DEF Injection, IsInjective
<1>6. f \in Surjection(S, 1 .. n)
  <2>1. IsFiniteSet(1 .. n) /\ Cardinality(1 .. n) = n
    BY <1>1, FS_Interval
  <2> HIDE DEF f
  <2> QED
    BY <1>1, <1>5, <2>1, FS_Injection
<1>7. \A k \in 1 .. n : place(k) \in S /\ rank(place(k)) = k
  <2> HIDE DEF rank, n
  <2>1. \A k \in 1 .. n : \E i \in S : rank(i) = k
    BY <1>6 DEF Surjection
  <2> QED
    BY <2>1
<1>8. Arranged(list, upTo) = [k \in 1 .. n |-> list[place(k)]]
  BY <1>0 DEF Arranged
<1> DEFINE at == [k \in 1 .. n |-> place(k)]
<1> HIDE DEF n, place, rank
<1>9. at \in [1 .. n -> S] /\ \A k \in 1 .. n : at[k] = place(k) /\ rank(at[k]) = k
  BY <1>7
<1>10. Arranged(list, upTo) = [k \in 1 .. n |-> list[at[k]]]
  BY <1>8
<1> HIDE DEF at
<1>11. \A k, l \in 1 .. n : at[k] = at[l] => k = l
  BY <1>9
<1>12. \A i \in S : \E k \in 1 .. n : at[k] = i
  BY <1>2, <1>4, <1>9
<1>13. ASSUME NEW k \in 1 .. n, NEW l \in 1 .. n, k < l
       PROVE  at[k] \in upTo[at[l]]
  <2>1. at[k] \in S /\ at[l] \in S /\ at[k] # at[l] /\ rank(at[k]) < rank(at[l])
    BY <1>9, <1>11, <1>13
  <2>2. CASE upTo[at[l]] \subseteq upTo[at[k]] /\ at[k] \notin upTo[at[l]]
    <3>1. rank(at[l]) < rank(at[k])
      BY <1>3, <2>1, <2>2
    <3> QED
      BY <1>1, <1>2, <2>1, <3>1
  <2> QED
    BY <1>0, <2>1, <2>2
<1>14. Along(at, S, upTo, n)
  BY <1>9, <1>11, <1>12, <1>13 DEF Along
<1>15. Arranged(list, upTo) = On(list, at, n)
  BY <1>10 DEF On
<1> QED
  BY <1>1, <1>14, <1>15 DEF n

\* There is a way through the places, and the elements on it are those there.
LEMMA Enumeration ==
    ASSUME NEW list, NEW S, Places(S)
    PROVE  /\ Cardinality(S) \in Nat
           /\ \E at : /\ Through(at, S, Cardinality(S))
                      /\ ElementsAt(list, S) = On(list, at, Cardinality(S))
<1> DEFINE upTo == [i \in S |-> {j \in S : j <= i}]
           n == Cardinality(S)
<1>1. ElementsAt(list, S) = Arranged(list, upTo)
  BY DEF ElementsAt
<1>0. (\A i \in S : i \in Int) /\ IsFiniteSet(S)
  BY DEF Places
<1>2. upTo \in [S -> SUBSET S] /\ \A i \in S : i \in upTo[i]
  BY <1>0
<1>3. \A i, j \in S : i # j =>
          \/ upTo[i] \subseteq upTo[j] /\ j \notin upTo[i]
          \/ upTo[j] \subseteq upTo[i] /\ i \notin upTo[j]
  <2> SUFFICES ASSUME NEW i \in S, NEW j \in S, i # j
               PROVE  \/ upTo[i] \subseteq upTo[j] /\ j \notin upTo[i]
                      \/ upTo[j] \subseteq upTo[i] /\ i \notin upTo[j]
    OBVIOUS
  <2>1. i < j \/ j < i
    BY <1>0
  <2> QED
    BY <1>0, <2>1
<1>4. \A i, j \in S : i \in upTo[j] => i <= j
  BY <1>0
<1>n. n \in Nat
  BY <1>0, FS_CardinalityType
<1> HIDE DEF upTo
<1>5. Orders(upTo, S)
  BY <1>2, <1>3 DEF Orders
<1>6. PICK at : /\ Along(at, S, upTo, n)
                /\ Arranged(list, upTo) = On(list, at, n)
  BY <1>0, <1>5, Arrangement
<1> HIDE DEF n
<1>7. ASSUME NEW k \in 1 .. n, NEW l \in 1 .. n, k < l PROVE at[k] < at[l]
  <2>1. at[k] <= at[l] /\ at[k] # at[l] /\ at[k] \in S /\ at[l] \in S
    BY <1>4, <1>n, <1>6, <1>7 DEF Along
  <2> QED
    BY <1>0, <2>1
<1>8. Through(at, S, n)
  BY <1>6, <1>7 DEF Through, Along
<1>9. ElementsAt(list, S) = On(list, at, n)
  BY <1>1, <1>6
<1> QED
  BY <1>n, <1>8, <1>9 DEF n

\* The elements at some places are those that one goes through from the least
\* place to the greatest.
LEMMA Enumerated ==
    ASSUME NEW list, NEW S, \A i \in S : i \in Int, NEW n \in Nat, NEW at,
           Through(at, S, n)
    PROVE  /\ Places(S) /\ Cardinality(S) = n
           /\ ElementsAt(list, S) = On(list, at, n)
<1>0. /\ at \in [1 .. n -> S]
      /\ \A k, l \in 1 .. n : k < l => at[k] < at[l]
      /\ \A i \in S : \E k \in 1 .. n : at[k] = i
  BY DEF Through
<1>1. \A k, l \in 1 .. n : at[k] = at[l] => k = l
  <2> SUFFICES ASSUME NEW k \in 1 .. n, NEW l \in 1 .. n, at[k] = at[l], k # l
               PROVE  FALSE
    OBVIOUS
  <2>1. k < l \/ l < k
    OBVIOUS
  <2>2. at[k] \in Int /\ at[l] \in Int
    BY <1>0
  <2> QED
    BY <1>0, <2>1, <2>2
<1>2. IsFiniteSet(1 .. n) /\ Cardinality(1 .. n) = n
  BY FS_Interval
<1>3. at \in Injection(1 .. n, S) /\ at \in Surjection(1 .. n, S)
  BY <1>0, <1>1 DEF Injection, IsInjective, Surjection
<1>4. IsFiniteSet(S) /\ Cardinality(S) = n
  BY <1>2, <1>3, FS_Surjection
<1> DEFINE upTo == [i \in S |-> {j \in S : j <= i}]
           rank(i) == Cardinality(upTo[i])
<1>5. \A k \in 1 .. n : upTo[at[k]] = {at[l] : l \in 1 .. k}
  <2> SUFFICES ASSUME NEW k \in 1 .. n PROVE upTo[at[k]] = {at[l] : l \in 1 .. k}
    OBVIOUS
  <2>1. upTo[at[k]] = {j \in S : j <= at[k]}
    BY <1>0
  <2>2. ASSUME NEW l \in 1 .. k PROVE at[l] \in S /\ at[l] <= at[k]
    <3>1. l \in 1 .. n /\ (l = k \/ l < k)
      OBVIOUS
    <3>2. at[l] \in Int /\ at[k] \in Int /\ at[l] \in S
      BY <1>0, <3>1
    <3> QED
      BY <1>0, <3>1, <3>2
  <2>3. ASSUME NEW j \in S, j <= at[k] PROVE \E l \in 1 .. k : at[l] = j
    <3>1. PICK l \in 1 .. n : at[l] = j
      BY <1>0
    <3>2. ~(k < l)
      <4>1. at[k] \in Int /\ j \in Int
        BY <1>0
      <4> QED
        BY <1>0, <2>3, <3>1, <4>1
    <3> QED
      BY <3>1, <3>2
  <2> HIDE DEF upTo
  <2> QED
    BY <2>1, <2>2, <2>3
<1>6. \A k \in 1 .. n : rank(at[k]) = k
  <2> SUFFICES ASSUME NEW k \in 1 .. n PROVE rank(at[k]) = k
    OBVIOUS
  <2> DEFINE T == {at[l] : l \in 1 .. k}
             f == [l \in 1 .. k |-> at[l]]
  <2>1. IsFiniteSet(1 .. k) /\ Cardinality(1 .. k) = k
    BY FS_Interval
  <2>2. 1 .. k \subseteq 1 .. n
    OBVIOUS
  <2>3. f \in Injection(1 .. k, T)
    BY <1>1, <2>2 DEF Injection, IsInjective
  <2>4. f \in Surjection(1 .. k, T)
    BY DEF Surjection
  <2> HIDE DEF f
  <2>5. Cardinality(T) = Cardinality(1 .. k)
    BY <2>1, <2>3, <2>4, FS_Surjection
  <2> QED
    BY <1>5, <2>1, <2>5
<1>7. ElementsAt(list, S) = [k \in 1 .. n |-> list[CHOOSE i \in S : rank(i) = k]]
  BY <1>4 DEF ElementsAt, Arranged
<1> HIDE DEF rank
<1>8. ASSUME NEW k \in 1 .. n PROVE (CHOOSE i \in S : rank(i) = k) = at[k]
  <2>1. at[k] \in S /\ rank(at[k]) = k
    BY <1>0, <1>6
  <2>2. ASSUME NEW i \in S, rank(i) = k PROVE i = at[k]
    BY <1>0, <1>6, <2>2
  <2> QED
    BY <2>1, <2>2
<1> QED
  BY <1>4, <1>7, <1>8 DEF Places, On

\* Places that are shifted keep their elements in order.
LEMMA Shifted ==
    ASSUME NEW list, NEW other, NEW S, Places(S), NEW d \in Int,
           \A i \in S : other[i + d] = list[i]
    PROVE  /\ Places({i + d : i \in S})
           /\ ElementsAt(other, {i + d : i \in S}) = ElementsAt(list, S)
<1> DEFINE n == Cardinality(S)
           T == {i + d : i \in S}
<1>1. n \in Nat
  BY Enumeration
<1>2. PICK at : Through(at, S, n) /\ ElementsAt(list, S) = On(list, at, n)
  BY Enumeration
<1>3. \A i \in S : i \in Int
  BY DEF Places
<1>4. /\ at \in [1 .. n -> S]
      /\ \A k, l \in 1 .. n : k < l => at[k] < at[l]
      /\ \A i \in S : \E k \in 1 .. n : at[k] = i
  BY <1>2 DEF Through
<1> HIDE DEF n
<1> DEFINE to == [k \in 1 .. n |-> at[k] + d]
<1>5. to \in [1 .. n -> T] /\ \A j \in T : j \in Int
  BY <1>3, <1>4
<1>6. \A k, l \in 1 .. n : k < l => to[k] < to[l]
  <2> SUFFICES ASSUME NEW k \in 1 .. n, NEW l \in 1 .. n, k < l PROVE to[k] < to[l]
    OBVIOUS
  <2>1. at[k] \in Int /\ at[l] \in Int /\ at[k] < at[l]
    BY <1>3, <1>4
  <2> QED
    BY <2>1
<1>7. \A j \in T : \E k \in 1 .. n : to[k] = j
  BY <1>4
<1>8. \A k \in 1 .. n : other[to[k]] = list[at[k]]
  BY <1>4
<1> HIDE DEF T, to
<1>9. Through(to, T, n)
  BY <1>5, <1>6, <1>7 DEF Through
<1>10. Places(T) /\ ElementsAt(other, T) = On(other, to, n)
  BY <1>1, <1>5, <1>9, Enumerated
<1>11. On(other, to, n) = On(list, at, n)
  BY <1>8 DEF On
<1> QED
  BY <1>2, <1>10, <1>11 DEF T

\* The same elements at the same places.
LEMMA SamePlaces ==
    ASSUME NEW list, NEW other, NEW S, Places(S), \A i \in S : other[i] = list[i]
    PROVE  ElementsAt(other, S) = ElementsAt(list, S)
<1>1. PICK at : /\ Through(at, S, Cardinality(S))
                /\ ElementsAt(list, S) = On(list, at, Cardinality(S))
  BY Enumeration
<1>2. ElementsAt(other, S) = On(other, at, Cardinality(S))
  BY <1>1, Enumeration, Enumerated DEF Places
<1>3. On(other, at, Cardinality(S)) = On(list, at, Cardinality(S))
  BY <1>1 DEF On, Through
<1> QED
  BY <1>1, <1>2, <1>3

-----------------------------------------------------------------------------
(* Lists of peers. *)

PeerList(s) == s \in Seq(Peers) /\ IsInjective(s)

LEMMA NoPeers == PeerList(<<>>) /\ Range(<<>>) = {}
<1>1. <<>> \in Seq(Peers) /\ DOMAIN <<>> = {}
  OBVIOUS
<1> QED
  BY <1>1 DEF PeerList, IsInjective, Range

\* A list has as many peers as places.
LEMMA PeersOfList ==
    ASSUME NEW s, PeerList(s)
    PROVE  /\ s \in Seq(Peers) /\ Len(s) \in Nat /\ DOMAIN s = 1 .. Len(s)
           /\ \A i \in DOMAIN s : s[i] \in Range(s)
           /\ Range(s) \subseteq Peers /\ IsFiniteSet(Range(s))
           /\ Cardinality(Range(s)) = Len(s)
<1>1. s \in Seq(Peers) /\ Len(s) \in Nat /\ DOMAIN s = 1 .. Len(s)
      /\ \A i \in DOMAIN s : s[i] \in Range(s)
  BY DEF PeerList, Range
<1>2. Range(s) \subseteq Peers
  BY <1>1 DEF Range
<1>3. IsFiniteSet(Peers)
  BY PeerFilterAssumption
<1>4. IsFiniteSet(Range(s))
  BY <1>2, <1>3, FS_Subset
<1> DEFINE f == [i \in 1 .. Len(s) |-> s[i]]
<1>5. f \in Injection(1 .. Len(s), Range(s))
  BY <1>1 DEF PeerList, Injection, IsInjective
<1>6. f \in Surjection(1 .. Len(s), Range(s))
  BY <1>1 DEF Surjection, Range
<1>7. IsFiniteSet(1 .. Len(s)) /\ Cardinality(1 .. Len(s)) = Len(s)
  BY <1>1, FS_Interval
<1> HIDE DEF f
<1>9. Cardinality(Range(s)) = Len(s)
  BY <1>5, <1>6, <1>7, FS_Surjection
<1> QED
  BY <1>1, <1>2, <1>4, <1>9

\* Arranged peers are a list of those at the places.
LEMMA ArrangedAreAList ==
    ASSUME NEW list, PeerList(list), NEW S \in SUBSET DOMAIN list,
           NEW upTo, Orders(upTo, S)
    PROVE  /\ PeerList(Arranged(list, upTo))
           /\ Range(Arranged(list, upTo)) = {list[i] : i \in S}
<1> DEFINE n == Cardinality(S)
           a == Arranged(list, upTo)
<1>0. IsFiniteSet(S)
  <2>1. DOMAIN list = 1 .. Len(list) /\ Len(list) \in Nat
    BY DEF PeerList
  <2>2. IsFiniteSet(1 .. Len(list)) /\ S \subseteq 1 .. Len(list)
    BY <2>1, FS_Interval
  <2> QED
    BY <2>2, FS_Subset
<1>1. n \in Nat
  BY <1>0, Arrangement
<1>2. PICK at : Along(at, S, upTo, n) /\ a = On(list, at, n)
  BY <1>0, Arrangement
<1> HIDE DEF n, a
<1>3. list \in Seq(Peers) /\ \A i, j \in DOMAIN list : list[i] = list[j] => i = j
  BY DEF PeerList, IsInjective
<1>4. /\ \A k \in 1 .. n : at[k] \in DOMAIN list /\ list[at[k]] \in Peers
      /\ \A k, l \in 1 .. n : at[k] = at[l] => k = l
  BY <1>2, <1>3 DEF Along
<1>5. a \in Seq(Peers) /\ DOMAIN a = 1 .. n /\ \A k \in 1 .. n : a[k] = list[at[k]]
  BY <1>1, <1>2, <1>4 DEF On
<1>6. IsInjective(a)
  BY <1>3, <1>4, <1>5 DEF IsInjective
<1>7. Range(a) = {list[i] : i \in S}
  BY <1>2, <1>5 DEF Range, Along
<1> QED
  BY <1>5, <1>6, <1>7 DEF PeerList, a

LEMMA KeepIsAList ==
    ASSUME NEW list, PeerList(list), NEW some
    PROVE  PeerList(Keep(list, some))
           /\ Range(Keep(list, some)) = Range(list) \cap some
<1> DEFINE S == {i \in DOMAIN list : list[i] \in some}
           upTo == [i \in S |-> {j \in S : j <= i}]
<1>1. Keep(list, some) = Arranged(list, upTo)
  BY DEF Keep, ElementsAt
<1>2. S \in SUBSET DOMAIN list /\ \A i \in S : i \in Int
  BY PeersOfList
<1>3. {list[i] : i \in S} = Range(list) \cap some
  BY DEF Range
<1> HIDE DEF S
<1>4. upTo \in [S -> SUBSET S] /\ \A i \in S : i \in upTo[i]
  BY <1>2
<1>5. \A i, j \in S : i # j =>
          \/ upTo[i] \subseteq upTo[j] /\ j \notin upTo[i]
          \/ upTo[j] \subseteq upTo[i] /\ i \notin upTo[j]
  <2> SUFFICES ASSUME NEW i \in S, NEW j \in S, i # j
               PROVE  \/ upTo[i] \subseteq upTo[j] /\ j \notin upTo[i]
                      \/ upTo[j] \subseteq upTo[i] /\ i \notin upTo[j]
    OBVIOUS
  <2>1. i < j \/ j < i
    BY <1>2
  <2> QED
    BY <1>2, <2>1
<1>6. Orders(upTo, S)
  BY <1>4, <1>5 DEF Orders
<1> HIDE DEF upTo
<1> QED
  BY <1>1, <1>2, <1>3, <1>6, ArrangedAreAList

\* Sorting keeps the peers, and leaves none after a peer that it should be
\* before.
LEMMA SortedIsAList ==
    ASSUME NEW list, PeerList(list), NEW latency \in [Range(list) -> Pings]
    PROVE  /\ PeerList(Sorted(list, latency))
           /\ Range(Sorted(list, latency)) = Range(list)
           /\ \A k, l \in DOMAIN Sorted(list, latency) :
                k < l => ~Before(latency[Sorted(list, latency)[l]],
                                 latency[Sorted(list, latency)[k]])
<1> DEFINE S == DOMAIN list
           lat(i) == latency[list[i]]
           Earlier(i, j) == \/ Before(lat(i), lat(j))
                            \/ ~Before(lat(j), lat(i)) /\ i <= j
           upTo == [j \in S |-> {i \in S : Earlier(i, j)}]
           s == Sorted(list, latency)
<1>1. s = Arranged(list, upTo)
  BY DEF Sorted
<1>2. \A i \in S : lat(i) \in Int /\ i \in Int
  <2>1. \A i \in S : list[i] \in Range(list) /\ i \in Int
    BY PeersOfList
  <2>2. Pings \subseteq Int
    BY PeerFilterAssumption DEF NoPing
  <2> QED
    BY <2>1, <2>2
<1>3. {list[i] : i \in S} = Range(list)
  BY DEF Range
<1> HIDE DEF S, lat
<1>4. upTo \in [S -> SUBSET S] /\ \A i \in S : i \in upTo[i]
  BY <1>2 DEF Before
<1>5. \A i, j \in S : i # j =>
          \/ upTo[i] \subseteq upTo[j] /\ j \notin upTo[i]
          \/ upTo[j] \subseteq upTo[i] /\ i \notin upTo[j]
  <2> SUFFICES ASSUME NEW i \in S, NEW j \in S, i # j
               PROVE  \/ upTo[i] \subseteq upTo[j] /\ j \notin upTo[i]
                      \/ upTo[j] \subseteq upTo[i] /\ i \notin upTo[j]
    OBVIOUS
  <2>1. ASSUME NEW k \in S, NEW l \in S, NEW m \in S, Earlier(k, l), Earlier(l, m)
        PROVE  Earlier(k, m)
    BY <1>2, <2>1 DEF Before
  <2>2. \/ Earlier(i, j) /\ ~Earlier(j, i)
        \/ Earlier(j, i) /\ ~Earlier(i, j)
    BY <1>2 DEF Before
  <2> HIDE DEF Earlier
  <2>3. \A k, l \in S : k \in upTo[l] <=> Earlier(k, l)
    OBVIOUS
  <2>4. upTo[i] \subseteq S /\ upTo[j] \subseteq S
    OBVIOUS
  <2> HIDE DEF upTo
  <2> QED
    BY <2>1, <2>2, <2>3, <2>4
<1> HIDE DEF Earlier
<1>6. \A k, l \in S : k \in upTo[l] <=> Earlier(k, l)
  OBVIOUS
<1> HIDE DEF upTo
<1>7. Orders(upTo, S) /\ IsFiniteSet(S)
  <2>1. Orders(upTo, S)
    BY <1>4, <1>5 DEF Orders
  <2>2. IsFiniteSet(1 .. Len(list)) /\ DOMAIN list = 1 .. Len(list)
    BY PeersOfList, FS_Interval
  <2> QED
    BY <2>1, <2>2 DEF S
<1>n. PICK at : /\ Along(at, S, upTo, Cardinality(S))
                /\ s = On(list, at, Cardinality(S))
  BY <1>1, <1>7, Arrangement
<1> HIDE DEF s
<1>8. PeerList(s) /\ Range(s) = Range(list)
  BY <1>1, <1>3, <1>7, ArrangedAreAList DEF S
<1>9. ASSUME NEW k \in DOMAIN s, NEW l \in DOMAIN s, k < l
      PROVE  ~Before(latency[s[l]], latency[s[k]])
  <2>1. k \in 1 .. Cardinality(S) /\ l \in 1 .. Cardinality(S)
        /\ s[k] = list[at[k]] /\ s[l] = list[at[l]]
    BY <1>n DEF On
  <2>2. at[k] \in S /\ at[l] \in S /\ Earlier(at[k], at[l])
    BY <1>6, <1>n, <1>9, <2>1 DEF Along
  <2>3. lat(at[k]) = latency[s[k]] /\ lat(at[l]) = latency[s[l]]
    BY <2>1 DEF lat
  <2>4. lat(at[k]) \in Int /\ lat(at[l]) \in Int
    BY <1>2, <2>2
  <2> QED
    BY <2>2, <2>3, <2>4 DEF Earlier, Before
<1> QED
  BY <1>8, <1>9 DEF s

LEMMA FirstIsAList ==
    ASSUME NEW s, PeerList(s), NEW n \in Nat
    PROVE  /\ PeerList(FirstOf(s, n)) /\ Len(FirstOf(s, n)) = Least(n, Len(s))
           /\ Range(FirstOf(s, n)) \subseteq Range(s)
<1> DEFINE m == Least(n, Len(s))
<1>1. s \in Seq(Peers) /\ Len(s) \in Nat /\ DOMAIN s = 1 .. Len(s)
  BY PeersOfList
<1>2. FirstOf(s, n) = SubSeq(s, 1, m) /\ m \in Nat /\ m <= Len(s)
  BY <1>1 DEF FirstOf, Least
<1> HIDE DEF m
<1>3. /\ SubSeq(s, 1, m) \in Seq(Peers) /\ Len(SubSeq(s, 1, m)) = m
      /\ DOMAIN SubSeq(s, 1, m) = 1 .. m
      /\ \A i \in 1 .. m : SubSeq(s, 1, m)[i] = s[i]
  BY <1>1, <1>2
<1>4. IsInjective(SubSeq(s, 1, m))
  BY <1>1, <1>2, <1>3 DEF PeerList, IsInjective
<1>5. Range(SubSeq(s, 1, m)) \subseteq Range(s)
  BY <1>1, <1>2, <1>3 DEF Range
<1> QED
  BY <1>2, <1>3, <1>4, <1>5 DEF PeerList, m

\* A list without one of its places.
LEMMA SplicedIsAList ==
    ASSUME NEW l, PeerList(l), NEW i \in DOMAIN l
    PROVE  PeerList(RemoveAt(l, i)) /\ Range(RemoveAt(l, i)) = Range(l) \ {l[i]}
<1> DEFINE a == SubSeq(l, 1, i - 1)
           b == SubSeq(l, i + 1, Len(l))
<1>0. l \in Seq(Peers)
  BY DEF PeerList
<1>1. a \in Seq(Peers) /\ Len(a) = i - 1 /\ \A j \in 1 .. i - 1 : a[j] = l[j]
  BY <1>0
<1>2. b \in Seq(Peers) /\ Len(b) = Len(l) - i
      /\ \A j \in 1 .. Len(l) - i : b[j] = l[i + j]
  BY <1>0
<1>3. RemoveAt(l, i) = a \o b
  BY DEF RemoveAt
<1> HIDE DEF a, b
<1>4. PICK r : r = RemoveAt(l, i)
  OBVIOUS
<1>5. /\ r \in Seq(Peers) /\ DOMAIN r = 1 .. Len(l) - 1
      /\ \A j \in 1 .. Len(l) - 1 : r[j] = l[IF j < i THEN j ELSE j + 1]
  <2>1. /\ a \o b \in Seq(Peers) /\ Len(a \o b) = Len(l) - 1
        /\ \A j \in 1 .. Len(l) - 1 :
             (a \o b)[j] = l[IF j < i THEN j ELSE j + 1]
    BY <1>0, <1>1, <1>2
  <2>2. r = a \o b
    BY <1>3, <1>4
  <2>3. DOMAIN (a \o b) = 1 .. Len(l) - 1
    BY <1>0, <2>1
  <2> QED
    BY <2>1, <2>2, <2>3
<1>6. ASSUME NEW j \in 1 .. Len(l) - 1, NEW k \in 1 .. Len(l) - 1, r[j] = r[k]
      PROVE  j = k
  <2> DEFINE at(m) == IF m < i THEN m ELSE m + 1
  <2>1. at(j) \in DOMAIN l /\ at(k) \in DOMAIN l /\ l[at(j)] = l[at(k)]
    BY <1>0, <1>5, <1>6
  <2>2. at(j) = at(k)
    BY <2>1 DEF PeerList, IsInjective
  <2> QED
    BY <1>0, <2>2
<1>7. PeerList(r)
  BY <1>5, <1>6 DEF PeerList, IsInjective
<1>8. Range(r) \subseteq Range(l) \ {l[i]}
  <2> SUFFICES ASSUME NEW j \in 1 .. Len(l) - 1
               PROVE  r[j] \in Range(l) /\ r[j] # l[i]
    BY <1>5 DEF Range
  <2> DEFINE k == IF j < i THEN j ELSE j + 1
  <2>1. k \in DOMAIN l /\ k # i
    BY <1>0
  <2>a. r[j] = l[k]
    BY <1>5
  <2> HIDE DEF k
  <2> QED
    BY <1>0, <2>1, <2>a DEF PeerList, IsInjective, Range
<1>9. Range(l) \ {l[i]} \subseteq Range(r)
  <2> SUFFICES ASSUME NEW k \in DOMAIN l, k # i PROVE l[k] \in Range(r)
    BY DEF Range
  <2> DEFINE j == IF k < i THEN k ELSE k - 1
  <2>1. j \in DOMAIN r /\ r[j] = l[k]
    BY <1>0, <1>5
  <2> QED
    BY <2>1 DEF Range
<1> QED
  BY <1>4, <1>7, <1>8, <1>9

LEMMA LongerIsAList ==
    ASSUME NEW l, PeerList(l), NEW p \in Peers, p \notin Range(l)
    PROVE  /\ PeerList(Append(l, p)) /\ Range(Append(l, p)) = Range(l) \cup {p}
           /\ Len(Append(l, p)) = Len(l) + 1
<1>1. l \in Seq(Peers) /\ DOMAIN l = 1 .. Len(l) /\ Len(l) \in Nat
      /\ \A i \in DOMAIN l : l[i] # p
  BY PeersOfList DEF Range
<1>2. /\ Append(l, p) \in Seq(Peers) /\ DOMAIN Append(l, p) = 1 .. Len(l) + 1
      /\ Len(Append(l, p)) = Len(l) + 1
      /\ \A i \in 1 .. Len(l) : Append(l, p)[i] = l[i]
      /\ Append(l, p)[Len(l) + 1] = p
  BY <1>1
<1>3. IsInjective(Append(l, p))
  BY <1>1, <1>2 DEF IsInjective, PeerList
<1>4. Range(Append(l, p)) = Range(l) \cup {p}
  BY <1>1, <1>2 DEF Range
<1> QED
  BY <1>2, <1>3, <1>4 DEF PeerList

LEMMA BothAreAList ==
    ASSUME NEW l, PeerList(l), NEW m, PeerList(m), Range(l) \cap Range(m) = {}
    PROVE  PeerList(l \o m) /\ Range(l \o m) = Range(l) \cup Range(m)
<1>1. /\ l \in Seq(Peers) /\ DOMAIN l = 1 .. Len(l) /\ Len(l) \in Nat
      /\ m \in Seq(Peers) /\ DOMAIN m = 1 .. Len(m) /\ Len(m) \in Nat
      /\ \A i \in DOMAIN l, j \in DOMAIN m : l[i] # m[j]
  BY PeersOfList
<1>2. PICK r : r = l \o m
  OBVIOUS
<1>3. /\ r \in Seq(Peers) /\ DOMAIN r = 1 .. Len(l) + Len(m)
      /\ \A i \in 1 .. Len(l) : r[i] = l[i]
      /\ \A i \in 1 .. Len(m) : r[Len(l) + i] = m[i]
      /\ \A i \in DOMAIN r \ (1 .. Len(l)) :
           i - Len(l) \in 1 .. Len(m) /\ r[i] = m[i - Len(l)]
  BY <1>1, <1>2
<1>4. ASSUME NEW i \in DOMAIN r, NEW j \in DOMAIN r, r[i] = r[j] PROVE i = j
  <2>1. CASE i \in DOMAIN l /\ j \in DOMAIN l
    BY <1>1, <1>3, <1>4, <2>1 DEF PeerList, IsInjective
  <2>2. CASE i \notin DOMAIN l /\ j \notin DOMAIN l
    <3>1. m[i - Len(l)] = m[j - Len(l)]
          /\ i - Len(l) \in DOMAIN m /\ j - Len(l) \in DOMAIN m
      BY <1>1, <1>3, <1>4, <2>2
    <3>2. i - Len(l) = j - Len(l)
      BY <3>1 DEF PeerList, IsInjective
    <3> QED
      BY <1>1, <1>3, <3>2
  <2>3. CASE i \in DOMAIN l /\ j \notin DOMAIN l
    BY <1>1, <1>3, <1>4, <2>3
  <2>4. CASE i \notin DOMAIN l /\ j \in DOMAIN l
    BY <1>1, <1>3, <1>4, <2>4
  <2> QED
    BY <2>1, <2>2, <2>3, <2>4
<1>5. PeerList(r)
  BY <1>3, <1>4 DEF PeerList, IsInjective
<1>6. Range(r) \subseteq Range(l) \cup Range(m)
  BY <1>1, <1>3 DEF Range
<1>7. Range(l) \subseteq Range(r)
  <2> SUFFICES ASSUME NEW i \in DOMAIN l PROVE l[i] \in Range(r)
    BY DEF Range
  <2>1. i \in DOMAIN r /\ r[i] = l[i]
    BY <1>1, <1>3
  <2> QED
    BY <2>1 DEF Range
<1>8. Range(m) \subseteq Range(r)
  <2> SUFFICES ASSUME NEW i \in DOMAIN m PROVE m[i] \in Range(r)
    BY DEF Range
  <2>1. Len(l) + i \in DOMAIN r /\ r[Len(l) + i] = m[i]
    BY <1>1, <1>3
  <2> QED
    BY <2>1 DEF Range
<1> QED
  BY <1>2, <1>5, <1>6, <1>7, <1>8

-----------------------------------------------------------------------------
(* The invariant of getPeers. *)

available == speaking \cap connectedTo
allowed == Least(maxBootstrapPeers, Cardinality(available \cap Bootstrap))
others == Cardinality(available \ Bootstrap)

\* How many bootstrap peers are taken, and how many peers.
bootstrapDue == IF numPeers = 0 THEN allowed ELSE Least(numPeers, allowed)
peersDue ==
    IF numPeers = 0 THEN allowed + others ELSE Least(numPeers, allowed + others)

CallInv ==
    /\ peerStore \in StoreOrders
    /\ speaking \subseteq Peers /\ connectedTo \subseteq Peers
    /\ numPeers \in Nat /\ maxBootstrapPeers \in Nat
    /\ progress \in {"called", "picking", "sorting", "done"}

\* The peers taken are available, the right number of bootstrap peers among
\* them.
TakenInv ==
    progress # "called" =>
        /\ PeerList(selectedPeers)
        /\ Range(selectedPeers) \subseteq available
        /\ Cardinality(Range(selectedPeers) \cap Bootstrap) = bootstrapDue

\* While it picks, each other peer is either taken or left.
LeftInv ==
    progress = "picking" =>
        /\ PeerList(nonBootstrapPeers)
        /\ Range(nonBootstrapPeers) = (available \ Bootstrap) \ Range(selectedPeers)
        /\ IF numPeers = 0 THEN Range(selectedPeers) \subseteq Bootstrap
           ELSE Len(selectedPeers) <= numPeers

NumberInv == progress \in {"sorting", "done"} => Len(selectedPeers) = peersDue

SelectionInv == CallInv /\ TakenInv /\ LeftInv /\ NumberInv /\ FastestFirst

\* Everything counted is a number, and the peers taken are the bootstrap peers
\* and the others among them.
LEMMA Numbers ==
    ASSUME CallInv
    PROVE  /\ available \subseteq Peers /\ IsFiniteSet(available)
           /\ Cardinality(available \cap Bootstrap) \in Nat
           /\ allowed \in Nat /\ others \in Nat /\ bootstrapDue \in Nat
           /\ bootstrapDue <= allowed
<1>1. available \subseteq Peers /\ IsFiniteSet(Peers)
  BY PeerFilterAssumption DEF CallInv, available
<1>2. IsFiniteSet(available)
  BY <1>1, FS_Subset
<1>3. IsFiniteSet(available \cap Bootstrap) /\ IsFiniteSet(available \ Bootstrap)
  BY <1>2, FS_Subset
<1>4. Cardinality(available \cap Bootstrap) \in Nat /\ others \in Nat
  BY <1>3, FS_CardinalityType DEF others
<1>5. numPeers \in Nat /\ maxBootstrapPeers \in Nat
  BY DEF CallInv
<1>6. allowed \in Nat
  BY <1>4, <1>5 DEF allowed, Least
<1>7. bootstrapDue \in Nat /\ bootstrapDue <= allowed
  BY <1>5, <1>6 DEF bootstrapDue, Least
<1> QED
  BY <1>1, <1>2, <1>4, <1>6, <1>7

LEMMA CountedApart ==
    ASSUME NEW S, IsFiniteSet(S)
    PROVE  /\ Cardinality(S \cap Bootstrap) \in Nat
           /\ Cardinality(S \ Bootstrap) \in Nat
           /\ Cardinality(S)
                = Cardinality(S \cap Bootstrap) + Cardinality(S \ Bootstrap)
<1> DEFINE B == S \cap Bootstrap
           O == S \ Bootstrap
<1>1. B \cup O = S /\ B \cap O = {} /\ B \subseteq S /\ O \subseteq S
  OBVIOUS
<1> HIDE DEF B, O
<1>2. IsFiniteSet(B) /\ IsFiniteSet(O)
  BY <1>1, FS_Subset
<1>3. Cardinality(B) \in Nat /\ Cardinality(O) \in Nat /\ Cardinality({}) = 0
  BY <1>2, FS_CardinalityType, FS_EmptySet
<1>4. Cardinality(B \cup O) = Cardinality(B) + Cardinality(O) - Cardinality(B \cap O)
  BY <1>2, FS_Union
<1>5. Cardinality(S) = Cardinality(B) + Cardinality(O) - Cardinality({})
  BY <1>1, <1>4, Zenon
<1>6. Cardinality(S) = Cardinality(B) + Cardinality(O)
  BY <1>3, <1>5
<1> QED
  BY <1>3, <1>6 DEF B, O

\* Nothing of a call but what it has selected changes.
LEMMA CallStays ==
    ASSUME UNCHANGED <<peerStore, speaking, connectedTo, numPeers, maxBootstrapPeers>>
    PROVE  /\ available' = available /\ allowed' = allowed /\ others' = others
           /\ bootstrapDue' = bootstrapDue /\ peersDue' = peersDue
<1>1. available' = available
  BY DEF available
<1>2. allowed' = allowed /\ others' = others
  BY <1>1 DEF allowed, others
<1> QED
  BY <1>1, <1>2 DEF bootstrapDue, peersDue

LEMMA AvailableKeeps ==
    ASSUME SelectionInv, Available
    PROVE  SelectionInv'
<1>1. CallInv /\ UNCHANGED <<peerStore, speaking, connectedTo, numPeers,
                             maxBootstrapPeers>>
      /\ progress' = "picking"
  BY DEF SelectionInv, Available
<1>2. PeerList(peers') /\ Range(peers') = available
  <2>1. PeerList(peerStore) /\ Range(peerStore) = Peers
    BY <1>1, PeerFilterAssumption DEF CallInv, PeerList
  <2>2. PeerList(allPeers) /\ Range(allPeers) = Peers \cap speaking
    BY <2>1, KeepIsAList DEF allPeers
  <2>3. PeerList(connectedPeers) /\ Range(connectedPeers) = Peers \cap available
    BY <2>2, KeepIsAList DEF connectedPeers, available
  <2> QED
    BY <1>1, <2>3, Numbers DEF Available
<1>3. PICK b : b = Keep(peers', Bootstrap)
  OBVIOUS
<1>4. PeerList(b) /\ Range(b) = available \cap Bootstrap
      /\ Len(b) = Cardinality(available \cap Bootstrap)
  BY <1>2, <1>3, KeepIsAList, PeersOfList
<1>5. PICK a : a = FirstOf(b, maxBootstrapPeers)
  OBVIOUS
<1>6. numPeers \in Nat /\ maxBootstrapPeers \in Nat
  BY <1>1 DEF CallInv
<1>7. PeerList(a) /\ Range(a) \subseteq available \cap Bootstrap /\ Len(a) = allowed
  BY <1>4, <1>5, <1>6, FirstIsAList DEF allowed
<1>8. selectedPeers' = IF numPeers > 0 /\ numPeers < Len(a)
                       THEN FirstOf(a, numPeers) ELSE a
  BY <1>3, <1>5 DEF Available, BootstrapTaken
<1>9. allowed \in Nat
  BY <1>1, Numbers
<1>10. /\ PeerList(selectedPeers')
       /\ Range(selectedPeers') \subseteq available \cap Bootstrap
       /\ Len(selectedPeers') = bootstrapDue
       /\ numPeers # 0 => Len(selectedPeers') <= numPeers
  <2>1. CASE numPeers > 0 /\ numPeers < Len(a)
    <3>1. /\ PeerList(FirstOf(a, numPeers))
          /\ Len(FirstOf(a, numPeers)) = Least(numPeers, Len(a))
          /\ Range(FirstOf(a, numPeers)) \subseteq Range(a)
      BY <1>6, <1>7, FirstIsAList
    <3>2. Len(FirstOf(a, numPeers)) = bootstrapDue /\ bootstrapDue = numPeers
      BY <1>6, <1>7, <1>9, <2>1, <3>1 DEF bootstrapDue, Least
    <3> QED
      BY <1>6, <1>7, <1>8, <2>1, <3>1, <3>2
  <2>2. CASE ~(numPeers > 0 /\ numPeers < Len(a))
    <3>1. bootstrapDue = allowed /\ (numPeers # 0 => allowed <= numPeers)
      BY <1>6, <1>7, <1>9, <2>2 DEF bootstrapDue, Least
    <3> QED
      BY <1>7, <1>8, <2>2, <3>1
  <2> QED
    BY <2>1, <2>2
<1>11. Cardinality(Range(selectedPeers') \cap Bootstrap) = bootstrapDue
  <2>1. Range(selectedPeers') \cap Bootstrap = Range(selectedPeers')
    BY <1>10
  <2> QED
    BY <1>10, <2>1, PeersOfList
<1>12. PeerList(nonBootstrapPeers')
       /\ Range(nonBootstrapPeers') = available \ Bootstrap
  <2>1. nonBootstrapPeers' = Keep(peers', Peers \ Bootstrap)
    BY DEF Available
  <2> QED
    BY <1>1, <1>2, <2>1, KeepIsAList, Numbers
<1>13. CallInv'
  BY <1>1 DEF CallInv
<1>14. TakenInv'
  BY <1>1, <1>10, <1>11, CallStays DEF TakenInv, PeerList, IsInjective, Range
<1>15. LeftInv'
  BY <1>1, <1>10, <1>12, CallStays DEF LeftInv, PeerList, IsInjective, Range
<1> QED
  BY <1>1, <1>13, <1>14, <1>15 DEF SelectionInv, NumberInv, FastestFirst

LEMMA TakeAllKeeps ==
    ASSUME SelectionInv, TakeAll
    PROVE  SelectionInv'
<1>1. /\ CallInv /\ UNCHANGED <<peerStore, speaking, connectedTo, numPeers,
                                maxBootstrapPeers>>
      /\ progress = "picking" /\ progress' = "sorting" /\ numPeers = 0
      /\ selectedPeers' = selectedPeers \o nonBootstrapPeers
  BY DEF SelectionInv, TakeAll
<1>2. /\ PeerList(selectedPeers) /\ Range(selectedPeers) \subseteq available
      /\ Cardinality(Range(selectedPeers) \cap Bootstrap) = bootstrapDue
      /\ PeerList(nonBootstrapPeers)
      /\ Range(nonBootstrapPeers) = (available \ Bootstrap) \ Range(selectedPeers)
      /\ Range(selectedPeers) \subseteq Bootstrap
  BY <1>1 DEF SelectionInv, TakenInv, LeftInv
<1>3. PeerList(selectedPeers')
      /\ Range(selectedPeers') = Range(selectedPeers) \cup (available \ Bootstrap)
  <2>1. Range(selectedPeers) \cap Range(nonBootstrapPeers) = {}
    BY <1>2
  <2> QED
    BY <1>1, <1>2, <2>1, BothAreAList
<1>4. PICK S : S = Range(selectedPeers')
  OBVIOUS
<1>5. /\ S \cap Bootstrap = Range(selectedPeers) \cap Bootstrap
      /\ S \ Bootstrap = available \ Bootstrap /\ S \subseteq available
  BY <1>2, <1>3, <1>4
<1>6. IsFiniteSet(S) /\ Cardinality(S) = Len(selectedPeers')
  BY <1>3, <1>4, PeersOfList
<1>7. Cardinality(S \cap Bootstrap) = bootstrapDue
      /\ Cardinality(S \ Bootstrap) = others
  BY <1>2, <1>5 DEF others
<1>8. Cardinality(S) = bootstrapDue + others
  BY <1>6, <1>7, CountedApart
<1>9. Len(selectedPeers') = peersDue
  BY <1>1, <1>6, <1>8 DEF peersDue, bootstrapDue
<1>10. CallInv'
  BY <1>1 DEF CallInv
<1>11. TakenInv'
  BY <1>1, <1>3, <1>4, <1>5, <1>7, CallStays DEF TakenInv, PeerList,
     IsInjective, Range
<1>12. NumberInv'
  BY <1>1, <1>9, CallStays DEF NumberInv
<1> QED
  BY <1>1, <1>10, <1>11, <1>12 DEF SelectionInv, LeftInv, FastestFirst

LEMMA PickKeeps ==
    ASSUME SelectionInv, NEW i \in DOMAIN nonBootstrapPeers, Pick(i)
    PROVE  SelectionInv'
<1>1. /\ CallInv /\ UNCHANGED <<peerStore, speaking, connectedTo, numPeers,
                                maxBootstrapPeers>>
      /\ progress = "picking" /\ progress' = "picking" /\ numPeers # 0
      /\ Len(selectedPeers) < numPeers
      /\ selectedPeers' = Append(selectedPeers, nonBootstrapPeers[i])
      /\ nonBootstrapPeers' = RemoveAt(nonBootstrapPeers, i)
  BY DEF SelectionInv, Pick, MorePeers
<1>2. /\ PeerList(selectedPeers) /\ Range(selectedPeers) \subseteq available
      /\ Cardinality(Range(selectedPeers) \cap Bootstrap) = bootstrapDue
      /\ PeerList(nonBootstrapPeers)
      /\ Range(nonBootstrapPeers) = (available \ Bootstrap) \ Range(selectedPeers)
  BY <1>1 DEF SelectionInv, TakenInv, LeftInv
<1>3. PICK p : p = nonBootstrapPeers[i]
  OBVIOUS
<1>4. p \in available \ Bootstrap /\ p \notin Range(selectedPeers) /\ p \in Peers
  <2>1. p \in Range(nonBootstrapPeers)
    BY <1>2, <1>3, PeersOfList
  <2> QED
    BY <1>1, <1>2, <2>1, Numbers
<1>5. /\ PeerList(selectedPeers')
      /\ Range(selectedPeers') = Range(selectedPeers) \cup {p}
      /\ Len(selectedPeers') = Len(selectedPeers) + 1
  BY <1>1, <1>2, <1>3, <1>4, LongerIsAList
<1>6. PeerList(nonBootstrapPeers')
      /\ Range(nonBootstrapPeers') = Range(nonBootstrapPeers) \ {p}
  BY <1>1, <1>2, <1>3, SplicedIsAList
<1>7. Len(selectedPeers') <= numPeers
  <2>1. Len(selectedPeers) \in Nat /\ numPeers \in Nat
    BY <1>1, <1>2, PeersOfList DEF CallInv
  <2> QED
    BY <1>1, <1>5, <2>1
<1>8. Range(selectedPeers') \cap Bootstrap = Range(selectedPeers) \cap Bootstrap
      /\ Range(selectedPeers') \subseteq available
      /\ Range(nonBootstrapPeers') = (available \ Bootstrap) \ Range(selectedPeers')
  BY <1>2, <1>4, <1>5, <1>6
<1>9. CallInv'
  BY <1>1 DEF CallInv
<1>10. TakenInv'
  BY <1>1, <1>2, <1>5, <1>8, CallStays DEF TakenInv, PeerList, IsInjective,
     Range
<1>11. LeftInv'
  BY <1>1, <1>6, <1>7, <1>8, CallStays DEF LeftInv, PeerList, IsInjective, Range
<1> QED
  BY <1>1, <1>9, <1>10, <1>11 DEF SelectionInv, NumberInv, FastestFirst

LEMMA PickedKeeps ==
    ASSUME SelectionInv, Picked
    PROVE  SelectionInv'
<1>1. /\ CallInv /\ UNCHANGED <<peerStore, speaking, connectedTo, numPeers,
                                maxBootstrapPeers>>
      /\ progress = "picking" /\ progress' = "sorting" /\ numPeers # 0
      /\ UNCHANGED selectedPeers
      /\ ~(Len(selectedPeers) < numPeers /\ nonBootstrapPeers # <<>>)
  BY DEF SelectionInv, Picked, MorePeers
<1>2. /\ PeerList(selectedPeers) /\ Range(selectedPeers) \subseteq available
      /\ Cardinality(Range(selectedPeers) \cap Bootstrap) = bootstrapDue
      /\ PeerList(nonBootstrapPeers)
      /\ Range(nonBootstrapPeers) = (available \ Bootstrap) \ Range(selectedPeers)
      /\ Len(selectedPeers) <= numPeers
  BY <1>1 DEF SelectionInv, TakenInv, LeftInv
<1>3. PICK S : S = Range(selectedPeers)
  OBVIOUS
<1>4. PICK n : n = Len(selectedPeers)
  OBVIOUS
<1>5. IsFiniteSet(S) /\ Cardinality(S) = n /\ n \in Nat
  BY <1>2, <1>3, <1>4, PeersOfList
<1>6. PICK o : o = Cardinality(S \ Bootstrap)
  OBVIOUS
<1>7. o \in Nat /\ n = bootstrapDue + o
  BY <1>2, <1>3, <1>5, <1>6, CountedApart
<1>8. o <= others
  <2>1. S \ Bootstrap \subseteq available \ Bootstrap
        /\ IsFiniteSet(available \ Bootstrap)
    BY <1>1, <1>2, <1>3, Numbers, FS_Subset
  <2> QED
    BY <1>6, <2>1, FS_Subset DEF others
<1>9. nonBootstrapPeers = <<>> => o = others
  <2> SUFFICES ASSUME nonBootstrapPeers = <<>> PROVE o = others
    OBVIOUS
  <2>1. Range(nonBootstrapPeers) = {}
    BY NoPeers
  <2>2. S \ Bootstrap = available \ Bootstrap
    BY <1>2, <1>3, <2>1
  <2> QED
    BY <1>6, <2>2 DEF others
<1>10. n <= numPeers /\ (n >= numPeers \/ o = others)
  <2>1. numPeers \in Nat
    BY <1>1 DEF CallInv
  <2>2. CASE nonBootstrapPeers = <<>>
    BY <1>2, <1>4, <1>9, <2>2
  <2>3. CASE nonBootstrapPeers # <<>>
    BY <1>1, <1>2, <1>4, <1>5, <2>1, <2>3
  <2> QED
    BY <2>2, <2>3
<1>11. n = peersDue
  <2>1. numPeers \in Nat /\ allowed \in Nat /\ others \in Nat
    BY <1>1, Numbers DEF CallInv
  <2> QED
    BY <1>1, <1>5, <1>7, <1>8, <1>10, <2>1 DEF peersDue, bootstrapDue, Least
<1>12. CallInv'
  BY <1>1 DEF CallInv
<1>13. TakenInv'
  BY <1>1, <1>2, CallStays DEF TakenInv, PeerList, IsInjective, Range
<1>14. NumberInv'
  BY <1>1, <1>4, <1>11, CallStays DEF NumberInv
<1> QED
  BY <1>1, <1>12, <1>13, <1>14 DEF SelectionInv, LeftInv, FastestFirst

LEMMA SortKeeps ==
    ASSUME SelectionInv, NEW latency \in [Range(selectedPeers) -> Pings],
           SortPeers(latency)
    PROVE  SelectionInv'
<1>1. /\ CallInv /\ UNCHANGED <<peerStore, speaking, connectedTo, numPeers,
                                maxBootstrapPeers>>
      /\ progress = "sorting" /\ progress' = "done" /\ ping' = latency
      /\ selectedPeers' = Sorted(selectedPeers, latency)
  BY DEF SelectionInv, SortPeers
<1>2. /\ PeerList(selectedPeers) /\ Range(selectedPeers) \subseteq available
      /\ Cardinality(Range(selectedPeers) \cap Bootstrap) = bootstrapDue
      /\ Len(selectedPeers) = peersDue
  BY <1>1 DEF SelectionInv, TakenInv, NumberInv
<1>3. PICK s : s = Sorted(selectedPeers, latency)
  OBVIOUS
<1>4. /\ PeerList(s) /\ Range(s) = Range(selectedPeers)
      /\ \A k, l \in DOMAIN s : k < l => ~Before(latency[s[l]], latency[s[k]])
  BY <1>2, <1>3, SortedIsAList
<1>5. Len(s) = peersDue
  <2>1. Len(s) = Cardinality(Range(s))
        /\ Len(selectedPeers) = Cardinality(Range(selectedPeers))
    BY <1>2, <1>4, PeersOfList
  <2> QED
    BY <1>2, <1>4, <2>1
<1>6. selectedPeers' = s
  BY <1>1, <1>3
<1>7. FastestFirst'
  <2> SUFFICES ASSUME NEW k \in DOMAIN s, NEW l \in DOMAIN s, k < l,
                      latency[s[l]] # NoPing
               PROVE  latency[s[k]] # NoPing /\ latency[s[k]] <= latency[s[l]]
    BY <1>1, <1>6 DEF FastestFirst
  <2>1. s[k] \in Range(selectedPeers) /\ s[l] \in Range(selectedPeers)
    BY <1>4, PeersOfList
  <2>2. latency[s[k]] \in Int /\ latency[s[l]] \in Int
    <3>1. Pings \subseteq Int
      BY PeerFilterAssumption DEF NoPing
    <3> QED
      BY <2>1, <3>1
  <2>3. ~Before(latency[s[l]], latency[s[k]])
    BY <1>4
  <2> QED
    BY <2>2, <2>3 DEF Before
<1>8. CallInv'
  BY <1>1 DEF CallInv
<1>9. TakenInv'
  BY <1>1, <1>2, <1>4, <1>6, CallStays DEF TakenInv, PeerList, IsInjective,
     Range
<1>10. NumberInv'
  BY <1>1, <1>5, <1>6, CallStays DEF NumberInv
<1> QED
  BY <1>1, <1>7, <1>8, <1>9, <1>10 DEF SelectionInv, LeftInv

LEMMA SelectionInvariant == SelectionSpec => []SelectionInv
<1>1. SelectionInit => SelectionInv
  <2> SUFFICES ASSUME SelectionInit PROVE SelectionInv
    OBVIOUS
  <2>1. numPeers \in Nat /\ maxBootstrapPeers \in Nat
    BY PeerFilterAssumption DEF SelectionInit
  <2>2. CallInv /\ progress = "called"
    BY <2>1 DEF SelectionInit, CallInv
  <2> QED
    BY <2>2 DEF SelectionInv, TakenInv, LeftInv, NumberInv, FastestFirst
<1>2. SelectionInv /\ [SelectionNext]_selectionVars => SelectionInv'
  <2> SUFFICES ASSUME SelectionInv, [SelectionNext]_selectionVars PROVE SelectionInv'
    OBVIOUS
  <2>1. CASE UNCHANGED selectionVars
    <3>1. UNCHANGED <<peerStore, speaking, connectedTo, numPeers, maxBootstrapPeers>>
          /\ UNCHANGED <<selectedPeers, nonBootstrapPeers, ping, progress>>
      BY <2>1 DEF selectionVars
    <3> QED
      BY <3>1, CallStays DEF SelectionInv, CallInv, TakenInv, LeftInv,
         NumberInv, FastestFirst, PeerList, IsInjective, Range
  <2> QED
    BY <2>1, AvailableKeeps, TakeAllKeeps, PickKeeps, PickedKeeps, SortKeeps
    DEF SelectionNext
<1> QED
  BY <1>1, <1>2, PTL DEF SelectionSpec

-----------------------------------------------------------------------------
(* For every set of peers and every two numbers, whatever random peers are   *)
(* picked: getPeers returns distinct peers that speak the protocol and are   *)
(* connected, exactly as many as asked for when there are enough, no more    *)
(* bootstrap peers than allowed and no other peer in place of one that was;  *)
(* and it returns them by the latencies read.                                *)
THEOREM PeersAlwaysChosen == SelectionSpec => []PeersChosen
<1>1. SelectionInv => PeersChosen
  <2> SUFFICES ASSUME SelectionInv, progress = "done" PROVE SelectionExact
    BY DEF SelectionInv, PeersChosen, SelectionExact
  <2>1. /\ PeerList(selectedPeers) /\ Range(selectedPeers) \subseteq available
        /\ Cardinality(Range(selectedPeers) \cap Bootstrap) = bootstrapDue
        /\ Len(selectedPeers) = peersDue
    BY DEF SelectionInv, TakenInv, NumberInv
  <2> QED
    BY <2>1 DEF SelectionExact, PeerList, available, allowed, others,
       bootstrapDue, peersDue
<1> QED
  BY <1>1, SelectionInvariant, PTL

-----------------------------------------------------------------------------
(* What is written on the wire is read from it. *)

\* The places of a field on the wire.
FieldAt(wire, no) == {i \in DOMAIN wire : wire[i][1] = no}

\* Lengths and places of a list.
LEMMA ListFacts ==
    ASSUME NEW s, IsList(s)
    PROVE  /\ s \in Seq(Range(s)) /\ Len(s) \in Nat /\ DOMAIN s = 1 .. Len(s)
           /\ \A i \in DOMAIN s : s[i] \in Range(s)
BY DEF IsList, Range

\* What is a sequence of any values is a list.
LEMMA IsAList ==
    ASSUME NEW T, NEW s \in Seq(T)
    PROVE  IsList(s)
<1>1. Len(s) \in Nat /\ DOMAIN s = 1 .. Len(s)
      /\ \A i \in 1 .. Len(s) : s[i] \in Range(s)
  BY DEF Range
<1>2. s = [i \in 1 .. Len(s) |-> s[i]]
  OBVIOUS
<1>3. s \in [1 .. Len(s) -> Range(s)]
  BY <1>1, <1>2
<1> QED
  BY <1>1, <1>3 DEF IsList

\* A function on the first numbers is a list.
LEMMA ListOf ==
    ASSUME NEW n \in Nat, NEW s, DOMAIN s = 1 .. n, s = [i \in 1 .. n |-> s[i]]
    PROVE  IsList(s) /\ Len(s) = n
<1>1. \A i \in 1 .. n : s[i] \in Range(s)
  BY DEF Range
<1>2. s \in [1 .. n -> Range(s)]
  BY <1>1
<1>3. s \in Seq(Range(s))
  BY <1>2
<1> QED
  BY <1>3 DEF IsList

\* The places of a field are finitely many whole numbers.
LEMMA FieldPlaces ==
    ASSUME NEW w, IsList(w), NEW no
    PROVE  Places(FieldAt(w, no))
<1>1. Len(w) \in Nat /\ DOMAIN w = 1 .. Len(w)
  BY ListFacts
<1>2. IsFiniteSet(1 .. Len(w)) /\ FieldAt(w, no) \subseteq 1 .. Len(w)
  BY <1>1, FS_Interval DEF FieldAt
<1>3. IsFiniteSet(FieldAt(w, no))
  BY <1>2, FS_Subset
<1> QED
  BY <1>2, <1>3 DEF Places

\* The values of a field, on the way through its places.
LEMMA ValuesThrough ==
    ASSUME NEW w, IsList(w), NEW no, NEW n \in Nat, NEW at,
           Through(at, FieldAt(w, no), n)
    PROVE  Values(w, no) = [k \in 1 .. n |-> w[at[k]][2]]
<1>1. \A i \in FieldAt(w, no) : i \in Int
  BY FieldPlaces DEF Places
<1>2. ElementsAt(w, FieldAt(w, no)) = On(w, at, n)
  BY <1>1, Enumerated
<1> DEFINE read == ElementsAt(w, FieldAt(w, no))
<1>3. Values(w, no) = [k \in DOMAIN read |-> read[k][2]]
  BY DEF Values, FieldAt
<1>4. DOMAIN read = 1 .. n /\ \A k \in 1 .. n : read[k] = w[at[k]]
  BY <1>2 DEF On
<1> HIDE DEF read
<1> QED
  BY <1>3, <1>4

\* The values of a field are a list, and there are none only when the field is
\* nowhere.
LEMMA ValuesAreAList ==
    ASSUME NEW w, IsList(w), NEW no
    PROVE  /\ IsList(Values(w, no))
           /\ Values(w, no) = <<>> <=> FieldAt(w, no) = {}
<1> DEFINE S == FieldAt(w, no)
           n == Cardinality(S)
<1>1. Places(S)
  BY FieldPlaces
<1> HIDE DEF S
<1>2. n \in Nat
  BY <1>1, Enumeration
<1>3. PICK at : Through(at, S, n)
  BY <1>1, Enumeration
<1> HIDE DEF n
<1>4. Values(w, no) = [k \in 1 .. n |-> w[at[k]][2]]
  BY <1>2, <1>3, ValuesThrough DEF S
<1>5. IsList(Values(w, no)) /\ Len(Values(w, no)) = n
  BY <1>2, <1>4, ListOf
<1>6. n = 0 <=> S = {}
  BY <1>2, <1>3 DEF Through
<1>7. Values(w, no) = <<>> <=> n = 0
  BY <1>2, <1>4, <1>5
<1> QED
  BY <1>5, <1>6, <1>7 DEF S

\* A field that is moved as a whole keeps its values.
LEMMA FieldMoved ==
    ASSUME NEW w, IsList(w), NEW v, IsList(v), NEW no, NEW d \in Int,
           FieldAt(v, no) = {i + d : i \in FieldAt(w, no)},
           \A i \in FieldAt(w, no) : v[i + d] = w[i]
    PROVE  Values(v, no) = Values(w, no)
<1>1. Places(FieldAt(w, no))
  BY FieldPlaces
<1>2. ElementsAt(v, {i + d : i \in FieldAt(w, no)}) = ElementsAt(w, FieldAt(w, no))
  BY <1>1, Shifted
<1>3. ElementsAt(v, FieldAt(v, no)) = ElementsAt(w, FieldAt(w, no))
  BY <1>2
<1> QED
  BY <1>3 DEF Values, FieldAt

\* An empty wire has no fields.
LEMMA EmptyWire ==
    IsList(<<>>) /\ \A no : Values(<<>>, no) = <<>>
<1>1. IsList(<<>>)
  BY DEF IsList
<1>2. \A no : FieldAt(<<>>, no) = {}
  BY DEF FieldAt
<1> QED
  BY <1>1, <1>2, ValuesAreAList

\* The entries of a field are a list, one for each value.
LEMMA EntryFacts ==
    ASSUME NEW no, NEW vs, IsList(vs)
    PROVE  /\ IsList(Entries(no, vs)) /\ Len(Entries(no, vs)) = Len(vs)
           /\ \A i \in 1 .. Len(vs) : Entries(no, vs)[i] = <<no, vs[i]>>
<1>1. Len(vs) \in Nat /\ DOMAIN vs = 1 .. Len(vs)
  BY ListFacts
<1>2. Entries(no, vs) = [i \in 1 .. Len(vs) |-> <<no, vs[i]>>]
  BY <1>1 DEF Entries
<1> QED
  BY <1>1, <1>2, ListOf

\* Joining two wires.
LEMMA JoinFacts ==
    ASSUME NEW s, IsList(s), NEW t, IsList(t)
    PROVE  /\ IsList(s \o t) /\ Len(s \o t) = Len(s) + Len(t)
           /\ \A i \in 1 .. Len(s) : (s \o t)[i] = s[i]
           /\ \A i \in 1 .. Len(t) : (s \o t)[i + Len(s)] = t[i]
           /\ \A i \in 1 .. Len(s) + Len(t) :
                i \in 1 .. Len(s) \/ i - Len(s) \in 1 .. Len(t)
<1> DEFINE T == Range(s) \cup Range(t)
<1>1. s \in Seq(T) /\ t \in Seq(T)
  <2>1. Range(s) \subseteq T /\ Range(t) \subseteq T
    OBVIOUS
  <2> HIDE DEF T
  <2> QED
    BY <2>1 DEF IsList
<1> HIDE DEF T
<1>2. s \o t \in Seq(T) /\ Len(s \o t) = Len(s) + Len(t)
  BY <1>1
<1>3. IsList(s \o t)
  BY <1>2, IsAList
<1> QED
  BY <1>1, <1>2, <1>3

\* A field written after others that are not it: it has its values, and the
\* others keep theirs.
LEMMA FieldAdded ==
    ASSUME NEW w, IsList(w), NEW no, NEW vs, IsList(vs), Values(w, no) = <<>>
    PROVE  /\ IsList(w \o Entries(no, vs))
           /\ \A n : Values(w \o Entries(no, vs), n)
                       = IF n = no THEN vs ELSE Values(w, n)
<1> DEFINE e == Entries(no, vs)
           v == w \o e
<1>1. IsList(e) /\ Len(e) = Len(vs) /\ \A i \in 1 .. Len(vs) : e[i] = <<no, vs[i]>>
  BY EntryFacts
<1>2. Len(w) \in Nat /\ DOMAIN w = 1 .. Len(w) /\ Len(vs) \in Nat
      /\ DOMAIN vs = 1 .. Len(vs)
  BY ListFacts
<1> HIDE DEF e
<1>3. /\ IsList(v) /\ Len(v) = Len(w) + Len(vs)
      /\ \A i \in 1 .. Len(w) : v[i] = w[i]
      /\ \A i \in 1 .. Len(vs) : v[i + Len(w)] = e[i]
      /\ \A i \in 1 .. Len(w) + Len(vs) :
           i \in 1 .. Len(w) \/ i - Len(w) \in 1 .. Len(vs)
  <2>1. /\ IsList(w \o e) /\ Len(w \o e) = Len(w) + Len(e)
        /\ \A i \in 1 .. Len(w) : (w \o e)[i] = w[i]
        /\ \A i \in 1 .. Len(e) : (w \o e)[i + Len(w)] = e[i]
        /\ \A i \in 1 .. Len(w) + Len(e) :
             i \in 1 .. Len(w) \/ i - Len(w) \in 1 .. Len(e)
    BY <1>1, JoinFacts
  <2> QED
    BY <1>1, <2>1
<1> HIDE DEF v
<1>4. DOMAIN v = 1 .. Len(w) + Len(vs)
  BY <1>3, ListFacts
<1>5. ASSUME NEW n, n # no PROVE Values(v, n) = Values(w, n)
  <2>1. FieldAt(v, n) = FieldAt(w, n)
    <3>1. ASSUME NEW i \in FieldAt(v, n) PROVE i \in FieldAt(w, n)
      <4>1. i \in 1 .. Len(w) + Len(vs) /\ v[i][1] = n
        BY <1>4 DEF FieldAt
      <4>2. CASE i - Len(w) \in 1 .. Len(vs)
        <5>1. v[(i - Len(w)) + Len(w)] = e[i - Len(w)]
          BY <1>3, <4>2
        <5>2. (i - Len(w)) + Len(w) = i
          BY <1>2, <4>1
        <5>3. v[i][1] = no
          BY <1>1, <4>2, <5>1, <5>2
        <5> QED
          BY <1>5, <4>1, <5>3
      <4>3. CASE i \in 1 .. Len(w)
        BY <1>2, <1>3, <4>1, <4>3 DEF FieldAt
      <4> QED
        BY <1>3, <4>1, <4>2, <4>3
    <3>2. ASSUME NEW i \in FieldAt(w, n) PROVE i \in FieldAt(v, n)
      BY <1>2, <1>3, <1>4 DEF FieldAt
    <3> QED
      BY <3>1, <3>2
  <2>2. \A i \in FieldAt(w, n) : v[i] = w[i]
    BY <1>2, <1>3 DEF FieldAt
  <2>3. Places(FieldAt(w, n))
    BY FieldPlaces
  <2>4. ElementsAt(v, FieldAt(v, n)) = ElementsAt(w, FieldAt(w, n))
    BY <2>1, <2>2, <2>3, SamePlaces
  <2> QED
    BY <2>4 DEF Values, FieldAt
<1>6. Values(v, no) = vs
  <2> DEFINE at == [k \in 1 .. Len(vs) |-> k + Len(w)]
  <2>1. ASSUME NEW i \in FieldAt(v, no) PROVE i - Len(w) \in 1 .. Len(vs)
    <3>1. i \in 1 .. Len(w) + Len(vs) /\ v[i][1] = no
      BY <1>4 DEF FieldAt
    <3>2. i \notin 1 .. Len(w)
      <4>1. FieldAt(w, no) = {}
        BY ValuesAreAList
      <4> QED
        BY <1>2, <1>3, <3>1, <4>1 DEF FieldAt
    <3> QED
      BY <1>3, <3>1, <3>2
  <2>2. ASSUME NEW k \in 1 .. Len(vs) PROVE k + Len(w) \in FieldAt(v, no)
    <3>1. k + Len(w) \in 1 .. Len(w) + Len(vs)
      BY <1>2
    <3>2. v[k + Len(w)][1] = no
      BY <1>1, <1>3
    <3> QED
      BY <1>4, <3>1, <3>2 DEF FieldAt
  <2>3. at \in [1 .. Len(vs) -> FieldAt(v, no)]
    BY <2>2
  <2>4. \A i \in FieldAt(v, no) : \E k \in 1 .. Len(vs) : at[k] = i
    <3> SUFFICES ASSUME NEW i \in FieldAt(v, no)
                 PROVE  \E k \in 1 .. Len(vs) : at[k] = i
      OBVIOUS
    <3>1. i - Len(w) \in 1 .. Len(vs) /\ i \in Int
      BY <1>2, <1>4, <2>1 DEF FieldAt
    <3>2. at[i - Len(w)] = i
      BY <1>2, <3>1
    <3> QED
      BY <3>1, <3>2
  <2>5. Through(at, FieldAt(v, no), Len(vs))
    BY <1>2, <2>3, <2>4 DEF Through
  <2>6. Values(v, no) = [k \in 1 .. Len(vs) |-> v[at[k]][2]]
    BY <1>2, <1>3, <2>5, ValuesThrough
  <2>7. \A k \in 1 .. Len(vs) : v[at[k]][2] = vs[k]
    BY <1>1, <1>3
  <2>8. vs = [k \in 1 .. Len(vs) |-> vs[k]]
    BY <1>2, ListFacts
  <2> HIDE DEF at
  <2> QED
    BY <2>6, <2>7, <2>8
<1>7. IsList(v) /\ \A n : Values(v, n) = IF n = no THEN vs ELSE Values(w, n)
  BY <1>3, <1>5, <1>6
<1> QED
  BY <1>7 DEF v, e

\* The first field.
LEMMA FirstField ==
    ASSUME NEW no, NEW vs, IsList(vs)
    PROVE  /\ IsList(Entries(no, vs))
           /\ \A n : Values(Entries(no, vs), n) = IF n = no THEN vs ELSE <<>>
<1>1. <<>> \o Entries(no, vs) = Entries(no, vs)
  BY EntryFacts DEF IsList
<1>2. IsList(<<>>) /\ \A n : Values(<<>>, n) = <<>>
  BY EmptyWire
<1>3. /\ IsList(<<>> \o Entries(no, vs))
      /\ \A n : Values(<<>> \o Entries(no, vs), n)
                  = IF n = no THEN vs ELSE Values(<<>>, n)
  <2>1. Values(<<>>, no) = <<>>
    BY <1>2
  <2>2. PICK w : w = <<>>
    OBVIOUS
  <2>3. IsList(w) /\ Values(w, no) = <<>>
    BY <1>2, <2>1, <2>2
  <2>4. /\ IsList(w \o Entries(no, vs))
        /\ \A n : Values(w \o Entries(no, vs), n)
                    = IF n = no THEN vs ELSE Values(w, n)
    BY <2>3, FieldAdded
  <2> QED
    BY <2>2, <2>4
<1> QED
  BY <1>1, <1>2, <1>3

\* Two wires with the same values of every field.
SameFields(v, w) == \A n : Values(v, n) = Values(w, n)

\* One wire is another with a field more.
Adds(v, w, no, vs) ==
    /\ IsList(v)
    /\ \A n : Values(v, n) = IF n = no THEN vs ELSE Values(w, n)

\* A list with one value.
LEMMA OneValue ==
    ASSUME NEW v, IsOne(v)
    PROVE  IsList(v) /\ v = <<v[1]>> /\ v # <<>>
<1>1. v \in Seq(Range(v)) /\ Len(v) = 1
  BY DEF IsOne, IsList
<1>2. v = <<v[1]>>
  BY <1>1
<1>3. v # <<>>
  BY <1>1
<1> QED
  BY <1>1, <1>2, <1>3 DEF IsList

\* A list of at most one value is nothing, or that value alone.
LEMMA OptionalValue ==
    ASSUME NEW v, IsOptional(v)
    PROVE  IsList(v) /\ (v = <<>> \/ v = <<v[1]>>)
<1>1. v \in Seq(Range(v)) /\ Len(v) \in Nat /\ Len(v) <= 1
  BY DEF IsOptional, IsList
<1>2. Len(v) = 0 \/ Len(v) = 1
  BY <1>1
<1> QED
  BY <1>1, <1>2 DEF IsList

\* What is written of an implicit field.
Said(default, values) == IF values[1] = default THEN <<>> ELSE values

\* A field that is written unless it holds its default.
LEMMA ImplicitEntries ==
    ASSUME NEW no, NEW d, NEW v, IsOne(v)
    PROVE  IsList(Said(d, v)) /\ Implicit(no, d, v) = Entries(no, Said(d, v))
<1>1. IsList(<<>>) /\ IsList(v)
  BY EmptyWire, OneValue
<1>2. Entries(no, <<>>) = <<>>
  BY DEF Entries
<1> QED
  BY <1>1, <1>2 DEF Implicit, Said

\* An implicit field is read as it was, whether it was written or not.
LEMMA ImplicitRead ==
    ASSUME NEW w, NEW no, NEW d, NEW v, IsOne(v), Values(w, no) = Said(d, v)
    PROVE  ReadImplicit(w, no, d) = v
<1>1. v = <<v[1]>> /\ v # <<>>
  BY OneValue
<1>2. Last(v) = v[1]
  BY <1>1 DEF Last
<1> QED
  BY <1>1, <1>2 DEF ReadImplicit, Said

\* An optional field is read as it was written.
LEMMA OptionalRead ==
    ASSUME NEW w, NEW no, NEW v, IsOptional(v), Values(w, no) = v
    PROVE  ReadOptional(w, no) = v
<1>1. v = <<>> \/ v = <<v[1]>>
  BY OptionalValue
<1>2. v = <<v[1]>> => Last(v) = v[1]
  BY DEF Last
<1> QED
  BY <1>1, <1>2 DEF ReadOptional

\* A wire that begins with another field.
LEMMA RotatedFields ==
    ASSUME NEW w, IsList(w), NEW at \in Between(w)
    PROVE  SameFields(Rotated(w, at), w)
<1> DEFINE v == Rotated(w, at)
           n == Len(w)
<1>1. /\ n \in Nat /\ DOMAIN w = 1 .. n /\ w \in Seq(Range(w))
      /\ at \in Nat /\ at <= n
      /\ \A i \in 1 .. at, j \in at + 1 .. n : w[i][1] # w[j][1]
  BY ListFacts DEF Between
<1>2. /\ SubSeq(w, at + 1, n) \in Seq(Range(w)) /\ Len(SubSeq(w, at + 1, n)) = n - at
      /\ \A i \in 1 .. n - at : SubSeq(w, at + 1, n)[i] = w[at + i]
  <2> HIDE DEF n
  <2>1. n = Len(w)
    BY DEF n
  <2>2. SubSeq(w, at + 1, n) \in Seq(Range(w))
    BY <1>1, <2>1
  <2>3. Len(SubSeq(w, at + 1, n)) = n - at
    <3>1. \A i \in at + 1 .. n : w[i] \in Range(w)
      BY <1>1
    <3>2. Len(SubSeq(w, at + 1, n)) = IF at + 1 <= n THEN n - (at + 1) + 1 ELSE 0
      BY <1>1, <3>1, SubSeqProperties
    <3> QED
      BY <1>1, <3>2
  <2>4. \A i \in 1 .. n - at : SubSeq(w, at + 1, n)[i] = w[at + i]
    BY <1>1, <2>1
  <2> QED
    BY <2>2, <2>3, <2>4
<1>3. /\ SubSeq(w, 1, at) \in Seq(Range(w)) /\ Len(SubSeq(w, 1, at)) = at
      /\ \A i \in 1 .. at : SubSeq(w, 1, at)[i] = w[i]
  BY <1>1
<1> HIDE DEF n
<1>4. v = SubSeq(w, at + 1, n) \o SubSeq(w, 1, at)
  BY DEF Rotated, n
<1>5. /\ v \in Seq(Range(w)) /\ Len(v) = n
      /\ \A i \in 1 .. n - at : v[i] = w[at + i]
      /\ \A i \in n - at + 1 .. n : v[i] = w[i - (n - at)]
  BY <1>1, <1>2, <1>3, <1>4
<1> HIDE DEF v
<1>6. IsList(v) /\ DOMAIN v = 1 .. n
  BY <1>5, IsAList
<1> SUFFICES ASSUME NEW no PROVE Values(v, no) = Values(w, no)
  BY DEF SameFields, v
<1>7. CASE \A i \in FieldAt(w, no) : i <= at
  <2>1. \A i \in FieldAt(w, no) : i \in 1 .. n /\ w[i][1] = no /\ i <= at
    BY <1>1, <1>7 DEF FieldAt
  <2>2. \A i \in FieldAt(w, no) : v[i + (n - at)] = w[i]
    <3> SUFFICES ASSUME NEW i \in FieldAt(w, no) PROVE v[i + (n - at)] = w[i]
      OBVIOUS
    <3>1. i + (n - at) \in n - at + 1 .. n /\ (i + (n - at)) - (n - at) = i
      BY <1>1, <2>1
    <3> QED
      BY <1>5, <3>1
  <2>3. ASSUME NEW i \in FieldAt(w, no) PROVE i + (n - at) \in FieldAt(v, no)
    BY <1>1, <1>6, <2>1, <2>2 DEF FieldAt
  <2>4. ASSUME NEW j \in FieldAt(v, no)
        PROVE  \E i \in FieldAt(w, no) : j = i + (n - at)
    <3>1. j \in 1 .. n /\ v[j][1] = no
      BY <1>6 DEF FieldAt
    <3>2. CASE j \in 1 .. n - at
      <4>1. at + j \in 1 .. n /\ w[at + j][1] = no /\ at + j > at
        BY <1>1, <1>5, <3>1, <3>2
      <4> QED
        BY <1>1, <1>7, <4>1 DEF FieldAt
    <3>3. CASE j \in n - at + 1 .. n
      <4>1. j - (n - at) \in 1 .. n /\ w[j - (n - at)][1] = no
            /\ j = (j - (n - at)) + (n - at)
        BY <1>1, <1>5, <3>1, <3>3
      <4> QED
        BY <1>1, <4>1 DEF FieldAt
    <3> QED
      BY <1>1, <3>1, <3>2, <3>3
  <2>5. FieldAt(v, no) = {i + (n - at) : i \in FieldAt(w, no)}
    BY <2>3, <2>4
  <2>6. n - at \in Int
    BY <1>1
  <2> QED
    BY <1>6, <2>2, <2>5, <2>6, FieldMoved
<1>8. CASE ~ \A i \in FieldAt(w, no) : i <= at
  <2>0. PICK i0 \in FieldAt(w, no) : ~(i0 <= at)
    BY <1>8
  <2>1. \A i \in FieldAt(w, no) : i \in at + 1 .. n /\ w[i][1] = no
    <3>1. i0 \in at + 1 .. n /\ w[i0][1] = no
      BY <1>1, <2>0 DEF FieldAt
    <3> SUFFICES ASSUME NEW i \in FieldAt(w, no)
                 PROVE  i \in at + 1 .. n /\ w[i][1] = no
      OBVIOUS
    <3>2. i \in 1 .. n /\ w[i][1] = no
      BY <1>1 DEF FieldAt
    <3>3. i \notin 1 .. at
      BY <1>1, <3>1, <3>2
    <3> QED
      BY <1>1, <3>2, <3>3
  <2>2. \A i \in FieldAt(w, no) : v[i + (0 - at)] = w[i]
    <3> SUFFICES ASSUME NEW i \in FieldAt(w, no) PROVE v[i + (0 - at)] = w[i]
      OBVIOUS
    <3>1. i + (0 - at) \in 1 .. n - at /\ at + (i + (0 - at)) = i
      BY <1>1, <2>1
    <3> QED
      BY <1>5, <3>1
  <2>3. ASSUME NEW i \in FieldAt(w, no) PROVE i + (0 - at) \in FieldAt(v, no)
    BY <1>1, <1>6, <2>1, <2>2 DEF FieldAt
  <2>4. ASSUME NEW j \in FieldAt(v, no)
        PROVE  \E i \in FieldAt(w, no) : j = i + (0 - at)
    <3>1. j \in 1 .. n /\ v[j][1] = no
      BY <1>6 DEF FieldAt
    <3>2. CASE j \in 1 .. n - at
      <4>1. at + j \in 1 .. n /\ w[at + j][1] = no /\ j = (at + j) + (0 - at)
        BY <1>1, <1>5, <3>1, <3>2
      <4> QED
        BY <1>1, <4>1 DEF FieldAt
    <3>3. CASE j \in n - at + 1 .. n
      <4>1. /\ j - (n - at) \in 1 .. at /\ j - (n - at) \in 1 .. n
            /\ w[j - (n - at)][1] = no
        BY <1>1, <1>5, <3>1, <3>3
      <4>2. j - (n - at) \in FieldAt(w, no)
        BY <1>1, <4>1 DEF FieldAt
      <4>3. j - (n - at) \in at + 1 .. n
        BY <2>1, <4>2
      <4> QED
        BY <1>1, <4>1, <4>3
    <3> QED
      BY <1>1, <3>1, <3>2, <3>3
  <2>5. FieldAt(v, no) = {i + (0 - at) : i \in FieldAt(w, no)}
    BY <2>3, <2>4
  <2>6. 0 - at \in Int
    BY <1>1
  <2> QED
    BY <1>6, <2>2, <2>5, <2>6, FieldMoved
<1> QED
  BY <1>7, <1>8

\* A field with one value at most is at one place at most.
LEMMA OnePlace ==
    ASSUME NEW w, IsList(w), NEW no, IsOptional(Values(w, no)),
           NEW i \in FieldAt(w, no), NEW j \in FieldAt(w, no)
    PROVE  i = j
<1> DEFINE S == FieldAt(w, no)
           n == Cardinality(S)
<1>1. Places(S)
  BY FieldPlaces
<1> HIDE DEF S
<1>2. n \in Nat
  BY <1>1, Enumeration
<1>3. PICK at : Through(at, S, n)
  BY <1>1, Enumeration
<1> HIDE DEF n
<1>4. Values(w, no) = [k \in 1 .. n |-> w[at[k]][2]]
  BY <1>2, <1>3, ValuesThrough DEF S
<1>5. Len(Values(w, no)) = n
  BY <1>2, <1>4, ListOf
<1>6. n <= 1
  BY <1>5 DEF IsOptional
<1>7. PICK k \in 1 .. n : at[k] = i
  BY <1>3 DEF Through, S
<1>8. PICK l \in 1 .. n : at[l] = j
  BY <1>3 DEF Through, S
<1> QED
  BY <1>2, <1>6, <1>7, <1>8

\* A wire written backwards has the same fields when none is repeated.
LEMMA ReversedFields ==
    ASSUME NEW w, IsList(w), \A no : IsOptional(Values(w, no))
    PROVE  SameFields(Reverse(w), w)
<1> DEFINE v == Reverse(w)
           n == Len(w)
<1>1. n \in Nat /\ DOMAIN w = 1 .. n
  BY ListFacts
<1>2. v = [i \in 1 .. n |-> w[(n - i) + 1]]
  BY DEF Reverse
<1> HIDE DEF n, v
<1>3. IsList(v) /\ DOMAIN v = 1 .. n /\ \A i \in 1 .. n : v[i] = w[(n - i) + 1]
  BY <1>1, <1>2, ListOf
<1> SUFFICES ASSUME NEW no PROVE Values(v, no) = Values(w, no)
  BY DEF SameFields, v
<1>4. \A i \in 1 .. n : (n - i) + 1 \in 1 .. n /\ (n - ((n - i) + 1)) + 1 = i
  BY <1>1
<1>5. \A i \in FieldAt(w, no) : i \in 1 .. n /\ (n - i) + 1 \in FieldAt(v, no)
  BY <1>1, <1>3, <1>4 DEF FieldAt
<1>6. \A i \in FieldAt(v, no) : i \in 1 .. n /\ (n - i) + 1 \in FieldAt(w, no)
  BY <1>1, <1>3, <1>4 DEF FieldAt
<1>7. CASE FieldAt(w, no) = {}
  <2>1. FieldAt(v, no) = {}
    BY <1>6, <1>7
  <2> QED
    BY <1>3, <1>7, <2>1, ValuesAreAList
<1>8. CASE FieldAt(w, no) # {}
  <2>1. PICK i : i \in FieldAt(w, no)
    BY <1>8
  <2>2. FieldAt(w, no) = {i}
    <3>1. \A j \in FieldAt(w, no) : j = i
      BY <2>1, OnePlace
    <3> QED
      BY <2>1, <3>1
  <2> DEFINE d == (n - 2 * i) + 1
  <2>3. i \in 1 .. n /\ d \in Int /\ i + d = (n - i) + 1
    BY <1>1, <1>5, <2>1
  <2> HIDE DEF d
  <2>4. ASSUME NEW j \in FieldAt(v, no) PROVE j = i + d
    <3>1. j \in 1 .. n /\ (n - j) + 1 = i
      BY <1>6, <2>2
    <3> QED
      BY <1>1, <2>3, <3>1
  <2>5. FieldAt(v, no) = {i + d}
    BY <1>5, <2>1, <2>3, <2>4
  <2>6. FieldAt(v, no) = {k + d : k \in FieldAt(w, no)}
    BY <2>2, <2>5
  <2>7. \A k \in FieldAt(w, no) : v[k + d] = w[k]
    BY <1>3, <1>4, <2>2, <2>3
  <2> QED
    BY <1>3, <2>3, <2>6, <2>7, FieldMoved
<1> QED
  BY <1>7, <1>8

\* One more field on a wire leaves the others as they are.
LEMMA FieldAdds ==
    ASSUME NEW w, IsList(w), NEW no, NEW vs, IsList(vs), Values(w, no) = <<>>,
           NEW f, f = Entries(no, vs)
    PROVE  Adds(w \o f, w, no, vs)
BY FieldAdded DEF Adds

(* Every object that is written is read as it was, from any wire with the   *)
(* same fields as the one it was written to: for each type what is on the   *)
(* wire, field by field, then what a reader makes of it.                    *)

\* The fields of the wire of RateLimitProof.
LEMMA RateLimitProof_fields ==
    ASSUME NEW obj, IsRateLimitProof(obj)
    PROVE  /\ IsList(RateLimitProof_encode(obj))
           /\ Values(RateLimitProof_encode(obj), 1) = Said(EmptyBytes, obj.proof)
           /\ Values(RateLimitProof_encode(obj), 2) = Said(EmptyBytes, obj.merkleRoot)
           /\ Values(RateLimitProof_encode(obj), 3) = Said(EmptyBytes, obj.epoch)
           /\ Values(RateLimitProof_encode(obj), 4) = Said(EmptyBytes, obj.shareX)
           /\ Values(RateLimitProof_encode(obj), 5) = Said(EmptyBytes, obj.shareY)
           /\ Values(RateLimitProof_encode(obj), 6) = Said(EmptyBytes, obj.nullifier)
           /\ Values(RateLimitProof_encode(obj), 7)
                = Said(EmptyBytes, obj.rlnIdentifier)
           /\ \A n : n \notin {1, 2, 3, 4, 5, 6, 7}
                => Values(RateLimitProof_encode(obj), n) = <<>>
<1> DEFINE f1 == Implicit(1, EmptyBytes, obj.proof)
           s1 == Said(EmptyBytes, obj.proof)
<1> DEFINE f2 == Implicit(2, EmptyBytes, obj.merkleRoot)
           s2 == Said(EmptyBytes, obj.merkleRoot)
<1> DEFINE f3 == Implicit(3, EmptyBytes, obj.epoch)
           s3 == Said(EmptyBytes, obj.epoch)
<1> DEFINE f4 == Implicit(4, EmptyBytes, obj.shareX)
           s4 == Said(EmptyBytes, obj.shareX)
<1> DEFINE f5 == Implicit(5, EmptyBytes, obj.shareY)
           s5 == Said(EmptyBytes, obj.shareY)
<1> DEFINE f6 == Implicit(6, EmptyBytes, obj.nullifier)
           s6 == Said(EmptyBytes, obj.nullifier)
<1> DEFINE f7 == Implicit(7, EmptyBytes, obj.rlnIdentifier)
           s7 == Said(EmptyBytes, obj.rlnIdentifier)
<1> DEFINE w1 == f1
           w2 == w1 \o f2
           w3 == w2 \o f3
           w4 == w3 \o f4
           w5 == w4 \o f5
           w6 == w5 \o f6
           w7 == w6 \o f7
<1>a. RateLimitProof_encode(obj) = w7
  BY DEF RateLimitProof_encode
<1>f1. f1 = Entries(1, s1) /\ IsList(s1)
  BY ImplicitEntries DEF IsRateLimitProof
<1>f2. f2 = Entries(2, s2) /\ IsList(s2)
  BY ImplicitEntries DEF IsRateLimitProof
<1>f3. f3 = Entries(3, s3) /\ IsList(s3)
  BY ImplicitEntries DEF IsRateLimitProof
<1>f4. f4 = Entries(4, s4) /\ IsList(s4)
  BY ImplicitEntries DEF IsRateLimitProof
<1>f5. f5 = Entries(5, s5) /\ IsList(s5)
  BY ImplicitEntries DEF IsRateLimitProof
<1>f6. f6 = Entries(6, s6) /\ IsList(s6)
  BY ImplicitEntries DEF IsRateLimitProof
<1>f7. f7 = Entries(7, s7) /\ IsList(s7)
  BY ImplicitEntries DEF IsRateLimitProof
<1> HIDE DEF f1, s1, f2, s2, f3, s3, f4, s4, f5, s5, f6, s6, f7, s7
<1>1. IsList(w1) /\ \A n : Values(w1, n) = IF n = 1 THEN s1 ELSE <<>>
  BY <1>f1, FirstField
<1> HIDE DEF w1
<1>2. Adds(w2, w1, 2, s2)
  <2>1. Values(w1, 2) = <<>> /\ IsList(w1)
    BY <1>1 DEF Adds
  <2> QED
    BY <1>f2, <2>1, FieldAdds
<1> HIDE DEF w2
<1>3. Adds(w3, w2, 3, s3)
  <2>1. Values(w2, 3) = <<>> /\ IsList(w2)
    BY <1>1, <1>2 DEF Adds
  <2> QED
    BY <1>f3, <2>1, FieldAdds
<1> HIDE DEF w3
<1>4. Adds(w4, w3, 4, s4)
  <2>1. Values(w3, 4) = <<>> /\ IsList(w3)
    BY <1>1, <1>2, <1>3 DEF Adds
  <2> QED
    BY <1>f4, <2>1, FieldAdds
<1> HIDE DEF w4
<1>5. Adds(w5, w4, 5, s5)
  <2>1. Values(w4, 5) = <<>> /\ IsList(w4)
    BY <1>1, <1>2, <1>3, <1>4 DEF Adds
  <2> QED
    BY <1>f5, <2>1, FieldAdds
<1> HIDE DEF w5
<1>6. Adds(w6, w5, 6, s6)
  <2>1. Values(w5, 6) = <<>> /\ IsList(w5)
    BY <1>1, <1>2, <1>3, <1>4, <1>5 DEF Adds
  <2> QED
    BY <1>f6, <2>1, FieldAdds
<1> HIDE DEF w6
<1>7. Adds(w7, w6, 7, s7)
  <2>1. Values(w6, 7) = <<>> /\ IsList(w6)
    BY <1>1, <1>2, <1>3, <1>4, <1>5, <1>6 DEF Adds
  <2> QED
    BY <1>f7, <2>1, FieldAdds
<1> HIDE DEF w7
<1>b. /\ IsList(w7)
      /\ Values(w7, 1) = s1
      /\ Values(w7, 2) = s2
      /\ Values(w7, 3) = s3
      /\ Values(w7, 4) = s4
      /\ Values(w7, 5) = s5
      /\ Values(w7, 6) = s6
      /\ Values(w7, 7) = s7
      /\ \A n : n \notin {1, 2, 3, 4, 5, 6, 7} => Values(w7, n) = <<>>
  BY <1>1, <1>2, <1>3, <1>4, <1>5, <1>6, <1>7 DEF Adds
<1> QED
  BY <1>a, <1>b DEF s1, s2, s3, s4, s5, s6, s7

\* RateLimitProof is read as it was written.
LEMMA RateLimitProof_read ==
    ASSUME NEW obj, IsRateLimitProof(obj), NEW w,
           SameFields(w, RateLimitProof_encode(obj))
    PROVE  RateLimitProof_decode(w) = obj
<1>1. ReadImplicit(w, 1, EmptyBytes) = obj.proof
  <2>1. Values(w, 1) = Said(EmptyBytes, obj.proof) /\ IsOne(obj.proof)
    BY RateLimitProof_fields DEF SameFields, IsRateLimitProof
  <2> QED
    BY <2>1, ImplicitRead
<1>2. ReadImplicit(w, 2, EmptyBytes) = obj.merkleRoot
  <2>1. Values(w, 2) = Said(EmptyBytes, obj.merkleRoot) /\ IsOne(obj.merkleRoot)
    BY RateLimitProof_fields DEF SameFields, IsRateLimitProof
  <2> QED
    BY <2>1, ImplicitRead
<1>3. ReadImplicit(w, 3, EmptyBytes) = obj.epoch
  <2>1. Values(w, 3) = Said(EmptyBytes, obj.epoch) /\ IsOne(obj.epoch)
    BY RateLimitProof_fields DEF SameFields, IsRateLimitProof
  <2> QED
    BY <2>1, ImplicitRead
<1>4. ReadImplicit(w, 4, EmptyBytes) = obj.shareX
  <2>1. Values(w, 4) = Said(EmptyBytes, obj.shareX) /\ IsOne(obj.shareX)
    BY RateLimitProof_fields DEF SameFields, IsRateLimitProof
  <2> QED
    BY <2>1, ImplicitRead
<1>5. ReadImplicit(w, 5, EmptyBytes) = obj.shareY
  <2>1. Values(w, 5) = Said(EmptyBytes, obj.shareY) /\ IsOne(obj.shareY)
    BY RateLimitProof_fields DEF SameFields, IsRateLimitProof
  <2> QED
    BY <2>1, ImplicitRead
<1>6. ReadImplicit(w, 6, EmptyBytes) = obj.nullifier
  <2>1. Values(w, 6) = Said(EmptyBytes, obj.nullifier) /\ IsOne(obj.nullifier)
    BY RateLimitProof_fields DEF SameFields, IsRateLimitProof
  <2> QED
    BY <2>1, ImplicitRead
<1>7. ReadImplicit(w, 7, EmptyBytes) = obj.rlnIdentifier
  <2>1. Values(w, 7) = Said(EmptyBytes, obj.rlnIdentifier) /\ IsOne(obj.rlnIdentifier)
    BY RateLimitProof_fields DEF SameFields, IsRateLimitProof
  <2> QED
    BY <2>1, ImplicitRead
<1>r. obj = [proof |-> obj.proof, merkleRoot |-> obj.merkleRoot,
             epoch |-> obj.epoch, shareX |-> obj.shareX, shareY |-> obj.shareY,
             nullifier |-> obj.nullifier, rlnIdentifier |-> obj.rlnIdentifier]
  BY DEF IsRateLimitProof
<1> QED
  BY <1>1, <1>2, <1>3, <1>4, <1>5, <1>6, <1>7, <1>r DEF RateLimitProof_decode

\* The fields of the wire of WakuMessage.
LEMMA WakuMessage_fields ==
    ASSUME NEW obj, IsWakuMessage(obj)
    PROVE  /\ IsList(WakuMessage_encode(obj))
           /\ Values(WakuMessage_encode(obj), 1) = Said(EmptyBytes, obj.payload)
           /\ Values(WakuMessage_encode(obj), 2) = Said("", obj.contentTopic)
           /\ Values(WakuMessage_encode(obj), 3) = obj.version
           /\ Values(WakuMessage_encode(obj), 10) = obj.timestamp
           /\ Values(WakuMessage_encode(obj), 11) = obj.meta
           /\ Values(WakuMessage_encode(obj), 21)
                = Each(obj.rateLimitProof, RateLimitProof_encode)
           /\ Values(WakuMessage_encode(obj), 31) = obj.ephemeral
           /\ \A n : n \notin {1, 2, 3, 10, 11, 21, 31}
                => Values(WakuMessage_encode(obj), n) = <<>>
<1> DEFINE f1 == Implicit(1, EmptyBytes, obj.payload)
           s1 == Said(EmptyBytes, obj.payload)
<1> DEFINE f2 == Implicit(2, "", obj.contentTopic)
           s2 == Said("", obj.contentTopic)
<1> DEFINE f3 == Optional(3, obj.version)
           s3 == obj.version
<1> DEFINE f4 == Optional(10, obj.timestamp)
           s4 == obj.timestamp
<1> DEFINE f5 == Optional(11, obj.meta)
           s5 == obj.meta
<1> DEFINE f6 == Optional(21, Each(obj.rateLimitProof, RateLimitProof_encode))
           s6 == Each(obj.rateLimitProof, RateLimitProof_encode)
<1> DEFINE f7 == Optional(31, obj.ephemeral)
           s7 == obj.ephemeral
<1> DEFINE w1 == f1
           w2 == w1 \o f2
           w3 == w2 \o f3
           w4 == w3 \o f4
           w5 == w4 \o f5
           w6 == w5 \o f6
           w7 == w6 \o f7
<1>a. WakuMessage_encode(obj) = w7
  BY DEF WakuMessage_encode
<1>f1. f1 = Entries(1, s1) /\ IsList(s1)
  BY ImplicitEntries DEF IsWakuMessage
<1>f2. f2 = Entries(2, s2) /\ IsList(s2)
  BY ImplicitEntries DEF IsWakuMessage
<1>f3. f3 = Entries(3, s3) /\ IsList(s3)
  BY OptionalValue DEF IsWakuMessage, Optional
<1>f4. f4 = Entries(10, s4) /\ IsList(s4)
  BY OptionalValue DEF IsWakuMessage, Optional
<1>f5. f5 = Entries(11, s5) /\ IsList(s5)
  BY OptionalValue DEF IsWakuMessage, Optional
<1>f6. f6 = Entries(21, s6) /\ IsList(s6)
  <2>1. IsList(obj.rateLimitProof)
    BY OptionalValue DEF IsWakuMessage
  <2> QED
    BY <2>1, ListFacts, ListOf DEF Each, Optional
<1>f7. f7 = Entries(31, s7) /\ IsList(s7)
  BY OptionalValue DEF IsWakuMessage, Optional
<1> HIDE DEF f1, s1, f2, s2, f3, s3, f4, s4, f5, s5, f6, s6, f7, s7
<1>1. IsList(w1) /\ \A n : Values(w1, n) = IF n = 1 THEN s1 ELSE <<>>
  BY <1>f1, FirstField
<1> HIDE DEF w1
<1>2. Adds(w2, w1, 2, s2)
  <2>1. Values(w1, 2) = <<>> /\ IsList(w1)
    BY <1>1 DEF Adds
  <2> QED
    BY <1>f2, <2>1, FieldAdds
<1> HIDE DEF w2
<1>3. Adds(w3, w2, 3, s3)
  <2>1. Values(w2, 3) = <<>> /\ IsList(w2)
    BY <1>1, <1>2 DEF Adds
  <2> QED
    BY <1>f3, <2>1, FieldAdds
<1> HIDE DEF w3
<1>4. Adds(w4, w3, 10, s4)
  <2>1. Values(w3, 10) = <<>> /\ IsList(w3)
    BY <1>1, <1>2, <1>3 DEF Adds
  <2> QED
    BY <1>f4, <2>1, FieldAdds
<1> HIDE DEF w4
<1>5. Adds(w5, w4, 11, s5)
  <2>1. Values(w4, 11) = <<>> /\ IsList(w4)
    BY <1>1, <1>2, <1>3, <1>4 DEF Adds
  <2> QED
    BY <1>f5, <2>1, FieldAdds
<1> HIDE DEF w5
<1>6. Adds(w6, w5, 21, s6)
  <2>1. Values(w5, 21) = <<>> /\ IsList(w5)
    BY <1>1, <1>2, <1>3, <1>4, <1>5 DEF Adds
  <2> QED
    BY <1>f6, <2>1, FieldAdds
<1> HIDE DEF w6
<1>7. Adds(w7, w6, 31, s7)
  <2>1. Values(w6, 31) = <<>> /\ IsList(w6)
    BY <1>1, <1>2, <1>3, <1>4, <1>5, <1>6 DEF Adds
  <2> QED
    BY <1>f7, <2>1, FieldAdds
<1> HIDE DEF w7
<1>b. /\ IsList(w7)
      /\ Values(w7, 1) = s1
      /\ Values(w7, 2) = s2
      /\ Values(w7, 3) = s3
      /\ Values(w7, 10) = s4
      /\ Values(w7, 11) = s5
      /\ Values(w7, 21) = s6
      /\ Values(w7, 31) = s7
      /\ \A n : n \notin {1, 2, 3, 10, 11, 21, 31} => Values(w7, n) = <<>>
  BY <1>1, <1>2, <1>3, <1>4, <1>5, <1>6, <1>7 DEF Adds
<1> QED
  BY <1>a, <1>b DEF s1, s2, s3, s4, s5, s6, s7

\* WakuMessage is read as it was written.
LEMMA WakuMessage_read ==
    ASSUME NEW obj, IsWakuMessage(obj), NEW w, SameFields(w, WakuMessage_encode(obj))
    PROVE  WakuMessage_decode(w) = obj
<1>1. ReadImplicit(w, 1, EmptyBytes) = obj.payload
  <2>1. Values(w, 1) = Said(EmptyBytes, obj.payload) /\ IsOne(obj.payload)
    BY WakuMessage_fields DEF SameFields, IsWakuMessage
  <2> QED
    BY <2>1, ImplicitRead
<1>2. ReadImplicit(w, 2, "") = obj.contentTopic
  <2>1. Values(w, 2) = Said("", obj.contentTopic) /\ IsOne(obj.contentTopic)
    BY WakuMessage_fields DEF SameFields, IsWakuMessage
  <2> QED
    BY <2>1, ImplicitRead
<1>3. ReadOptional(w, 3) = obj.version
  <2>1. Values(w, 3) = obj.version /\ IsOptional(obj.version)
    BY WakuMessage_fields DEF SameFields, IsWakuMessage
  <2> QED
    BY <2>1, OptionalRead
<1>4. ReadOptional(w, 10) = obj.timestamp
  <2>1. Values(w, 10) = obj.timestamp /\ IsOptional(obj.timestamp)
    BY WakuMessage_fields DEF SameFields, IsWakuMessage
  <2> QED
    BY <2>1, OptionalRead
<1>5. ReadOptional(w, 11) = obj.meta
  <2>1. Values(w, 11) = obj.meta /\ IsOptional(obj.meta)
    BY WakuMessage_fields DEF SameFields, IsWakuMessage
  <2> QED
    BY <2>1, OptionalRead
<1>6. Each(ReadOptional(w, 21), RateLimitProof_decode) = obj.rateLimitProof
  <2>1. /\ Values(w, 21) = Each(obj.rateLimitProof, RateLimitProof_encode)
        /\ IsOptional(obj.rateLimitProof)
        /\ \A i \in DOMAIN obj.rateLimitProof :
             IsRateLimitProof(obj.rateLimitProof[i])
    BY WakuMessage_fields DEF SameFields, IsWakuMessage, AllAre
  <2>2. /\ IsList(obj.rateLimitProof) /\ Len(obj.rateLimitProof) \in Nat
        /\ DOMAIN obj.rateLimitProof = 1 .. Len(obj.rateLimitProof)
        /\ obj.rateLimitProof
             = [i \in 1 .. Len(obj.rateLimitProof) |-> obj.rateLimitProof[i]]
    BY <2>1, OptionalValue, ListFacts
  <2>3. \A i \in DOMAIN obj.rateLimitProof :
          RateLimitProof_decode(RateLimitProof_encode(obj.rateLimitProof[i]))
            = obj.rateLimitProof[i]
    BY <2>1, RateLimitProof_read DEF SameFields
  <2> DEFINE each == Each(obj.rateLimitProof, RateLimitProof_encode)
  <2>4. /\ each = [i \in 1 .. Len(obj.rateLimitProof)
                   |-> RateLimitProof_encode(obj.rateLimitProof[i])]
        /\ DOMAIN each = 1 .. Len(obj.rateLimitProof) /\ IsList(each)
        /\ Len(each) = Len(obj.rateLimitProof)
    BY <2>2, ListOf DEF Each
  <2> HIDE DEF each
  <2>5. IsOptional(each)
    BY <2>1, <2>4 DEF IsOptional
  <2>6. ReadOptional(w, 21) = each
    BY <2>1, <2>5, OptionalRead DEF each
  <2>7. Each(each, RateLimitProof_decode)
          = [i \in 1 .. Len(obj.rateLimitProof) |-> obj.rateLimitProof[i]]
    BY <2>2, <2>3, <2>4 DEF Each
  <2> QED
    BY <2>2, <2>6, <2>7
<1>7. ReadOptional(w, 31) = obj.ephemeral
  <2>1. Values(w, 31) = obj.ephemeral /\ IsOptional(obj.ephemeral)
    BY WakuMessage_fields DEF SameFields, IsWakuMessage
  <2> QED
    BY <2>1, OptionalRead
<1>r. obj = [payload |-> obj.payload, contentTopic |-> obj.contentTopic,
             version |-> obj.version, timestamp |-> obj.timestamp,
             meta |-> obj.meta, rateLimitProof |-> obj.rateLimitProof,
             ephemeral |-> obj.ephemeral]
  BY DEF IsWakuMessage
<1> QED
  BY <1>1, <1>2, <1>3, <1>4, <1>5, <1>6, <1>7, <1>r DEF WakuMessage_decode

\* The fields of the wire of FilterSubscribeRequest.
LEMMA FilterSubscribeRequest_fields ==
    ASSUME NEW obj, IsFilterSubscribeRequest(obj)
    PROVE  /\ IsList(FilterSubscribeRequest_encode(obj))
           /\ Values(FilterSubscribeRequest_encode(obj), 1) = Said("", obj.requestId)
           /\ Values(FilterSubscribeRequest_encode(obj), 2)
                = Said("SUBSCRIBER_PING", obj.filterSubscribeType)
           /\ Values(FilterSubscribeRequest_encode(obj), 10) = obj.pubsubTopic
           /\ Values(FilterSubscribeRequest_encode(obj), 11) = obj.contentTopics
           /\ \A n : n \notin {1, 2, 10, 11}
                => Values(FilterSubscribeRequest_encode(obj), n) = <<>>
<1> DEFINE f1 == Implicit(1, "", obj.requestId)
           s1 == Said("", obj.requestId)
<1> DEFINE f2 == Implicit(2, "SUBSCRIBER_PING", obj.filterSubscribeType)
           s2 == Said("SUBSCRIBER_PING", obj.filterSubscribeType)
<1> DEFINE f3 == Optional(10, obj.pubsubTopic)
           s3 == obj.pubsubTopic
<1> DEFINE f4 == Repeated(11, obj.contentTopics)
           s4 == obj.contentTopics
<1> DEFINE w1 == f1
           w2 == w1 \o f2
           w3 == w2 \o f3
           w4 == w3 \o f4
<1>a. FilterSubscribeRequest_encode(obj) = w4
  BY DEF FilterSubscribeRequest_encode
<1>f1. f1 = Entries(1, s1) /\ IsList(s1)
  BY ImplicitEntries DEF IsFilterSubscribeRequest
<1>f2. f2 = Entries(2, s2) /\ IsList(s2)
  BY ImplicitEntries DEF IsFilterSubscribeRequest
<1>f3. f3 = Entries(10, s3) /\ IsList(s3)
  BY OptionalValue DEF IsFilterSubscribeRequest, Optional
<1>f4. f4 = Entries(11, s4) /\ IsList(s4)
  BY DEF IsFilterSubscribeRequest, Repeated
<1> HIDE DEF f1, s1, f2, s2, f3, s3, f4, s4
<1>1. IsList(w1) /\ \A n : Values(w1, n) = IF n = 1 THEN s1 ELSE <<>>
  BY <1>f1, FirstField
<1> HIDE DEF w1
<1>2. Adds(w2, w1, 2, s2)
  <2>1. Values(w1, 2) = <<>> /\ IsList(w1)
    BY <1>1 DEF Adds
  <2> QED
    BY <1>f2, <2>1, FieldAdds
<1> HIDE DEF w2
<1>3. Adds(w3, w2, 10, s3)
  <2>1. Values(w2, 10) = <<>> /\ IsList(w2)
    BY <1>1, <1>2 DEF Adds
  <2> QED
    BY <1>f3, <2>1, FieldAdds
<1> HIDE DEF w3
<1>4. Adds(w4, w3, 11, s4)
  <2>1. Values(w3, 11) = <<>> /\ IsList(w3)
    BY <1>1, <1>2, <1>3 DEF Adds
  <2> QED
    BY <1>f4, <2>1, FieldAdds
<1> HIDE DEF w4
<1>b. /\ IsList(w4)
      /\ Values(w4, 1) = s1
      /\ Values(w4, 2) = s2
      /\ Values(w4, 10) = s3
      /\ Values(w4, 11) = s4
      /\ \A n : n \notin {1, 2, 10, 11} => Values(w4, n) = <<>>
  BY <1>1, <1>2, <1>3, <1>4 DEF Adds
<1> QED
  BY <1>a, <1>b DEF s1, s2, s3, s4

\* FilterSubscribeRequest is read as it was written.
LEMMA FilterSubscribeRequest_read ==
    ASSUME NEW obj, IsFilterSubscribeRequest(obj), NEW w,
           SameFields(w, FilterSubscribeRequest_encode(obj))
    PROVE  FilterSubscribeRequest_decode(w) = obj
<1>1. ReadImplicit(w, 1, "") = obj.requestId
  <2>1. Values(w, 1) = Said("", obj.requestId) /\ IsOne(obj.requestId)
    BY FilterSubscribeRequest_fields DEF SameFields, IsFilterSubscribeRequest
  <2> QED
    BY <2>1, ImplicitRead
<1>2. ReadImplicit(w, 2, "SUBSCRIBER_PING") = obj.filterSubscribeType
  <2>1. Values(w, 2) = Said("SUBSCRIBER_PING", obj.filterSubscribeType)
        /\ IsOne(obj.filterSubscribeType)
    BY FilterSubscribeRequest_fields DEF SameFields, IsFilterSubscribeRequest
  <2> QED
    BY <2>1, ImplicitRead
<1>3. ReadOptional(w, 10) = obj.pubsubTopic
  <2>1. Values(w, 10) = obj.pubsubTopic /\ IsOptional(obj.pubsubTopic)
    BY FilterSubscribeRequest_fields DEF SameFields, IsFilterSubscribeRequest
  <2> QED
    BY <2>1, OptionalRead
<1>4. ReadRepeated(w, 11) = obj.contentTopics
  <2>1. Values(w, 11) = obj.contentTopics /\ IsList(obj.contentTopics)
    BY FilterSubscribeRequest_fields DEF SameFields, IsFilterSubscribeRequest
  <2> QED
    BY <2>1 DEF ReadRepeated
<1>r. obj = [requestId |-> obj.requestId,
             filterSubscribeType |-> obj.filterSubscribeType,
             pubsubTopic |-> obj.pubsubTopic, contentTopics |-> obj.contentTopics]
  BY DEF IsFilterSubscribeRequest
<1> QED
  BY <1>1, <1>2, <1>3, <1>4, <1>r DEF FilterSubscribeRequest_decode

\* The fields of the wire of FilterSubscribeResponse.
LEMMA FilterSubscribeResponse_fields ==
    ASSUME NEW obj, IsFilterSubscribeResponse(obj)
    PROVE  /\ IsList(FilterSubscribeResponse_encode(obj))
           /\ Values(FilterSubscribeResponse_encode(obj), 1) = Said("", obj.requestId)
           /\ Values(FilterSubscribeResponse_encode(obj), 10)
                = Said(0, obj.statusCode)
           /\ Values(FilterSubscribeResponse_encode(obj), 11) = obj.statusDesc
           /\ \A n : n \notin {1, 10, 11}
                => Values(FilterSubscribeResponse_encode(obj), n) = <<>>
<1> DEFINE f1 == Implicit(1, "", obj.requestId)
           s1 == Said("", obj.requestId)
<1> DEFINE f2 == Implicit(10, 0, obj.statusCode)
           s2 == Said(0, obj.statusCode)
<1> DEFINE f3 == Optional(11, obj.statusDesc)
           s3 == obj.statusDesc
<1> DEFINE w1 == f1
           w2 == w1 \o f2
           w3 == w2 \o f3
<1>a. FilterSubscribeResponse_encode(obj) = w3
  BY DEF FilterSubscribeResponse_encode
<1>f1. f1 = Entries(1, s1) /\ IsList(s1)
  BY ImplicitEntries DEF IsFilterSubscribeResponse
<1>f2. f2 = Entries(10, s2) /\ IsList(s2)
  BY ImplicitEntries DEF IsFilterSubscribeResponse
<1>f3. f3 = Entries(11, s3) /\ IsList(s3)
  BY OptionalValue DEF IsFilterSubscribeResponse, Optional
<1> HIDE DEF f1, s1, f2, s2, f3, s3
<1>1. IsList(w1) /\ \A n : Values(w1, n) = IF n = 1 THEN s1 ELSE <<>>
  BY <1>f1, FirstField
<1> HIDE DEF w1
<1>2. Adds(w2, w1, 10, s2)
  <2>1. Values(w1, 10) = <<>> /\ IsList(w1)
    BY <1>1 DEF Adds
  <2> QED
    BY <1>f2, <2>1, FieldAdds
<1> HIDE DEF w2
<1>3. Adds(w3, w2, 11, s3)
  <2>1. Values(w2, 11) = <<>> /\ IsList(w2)
    BY <1>1, <1>2 DEF Adds
  <2> QED
    BY <1>f3, <2>1, FieldAdds
<1> HIDE DEF w3
<1>b. /\ IsList(w3)
      /\ Values(w3, 1) = s1
      /\ Values(w3, 10) = s2
      /\ Values(w3, 11) = s3
      /\ \A n : n \notin {1, 10, 11} => Values(w3, n) = <<>>
  BY <1>1, <1>2, <1>3 DEF Adds
<1> QED
  BY <1>a, <1>b DEF s1, s2, s3

\* FilterSubscribeResponse is read as it was written.
LEMMA FilterSubscribeResponse_read ==
    ASSUME NEW obj, IsFilterSubscribeResponse(obj), NEW w,
           SameFields(w, FilterSubscribeResponse_encode(obj))
    PROVE  FilterSubscribeResponse_decode(w) = obj
<1>1. ReadImplicit(w, 1, "") = obj.requestId
  <2>1. Values(w, 1) = Said("", obj.requestId) /\ IsOne(obj.requestId)
    BY FilterSubscribeResponse_fields DEF SameFields, IsFilterSubscribeResponse
  <2> QED
    BY <2>1, ImplicitRead
<1>2. ReadImplicit(w, 10, 0) = obj.statusCode
  <2>1. Values(w, 10) = Said(0, obj.statusCode) /\ IsOne(obj.statusCode)
    BY FilterSubscribeResponse_fields DEF SameFields, IsFilterSubscribeResponse
  <2> QED
    BY <2>1, ImplicitRead
<1>3. ReadOptional(w, 11) = obj.statusDesc
  <2>1. Values(w, 11) = obj.statusDesc /\ IsOptional(obj.statusDesc)
    BY FilterSubscribeResponse_fields DEF SameFields, IsFilterSubscribeResponse
  <2> QED
    BY <2>1, OptionalRead
<1>r. obj = [requestId |-> obj.requestId, statusCode |-> obj.statusCode,
             statusDesc |-> obj.statusDesc]
  BY DEF IsFilterSubscribeResponse
<1> QED
  BY <1>1, <1>2, <1>3, <1>r DEF FilterSubscribeResponse_decode

\* The fields of the wire of PushRequest.
LEMMA PushRequest_fields ==
    ASSUME NEW obj, IsPushRequest(obj)
    PROVE  /\ IsList(PushRequest_encode(obj))
           /\ Values(PushRequest_encode(obj), 1) = Said("", obj.pubsubTopic)
           /\ Values(PushRequest_encode(obj), 2)
                = Each(obj.message, WakuMessage_encode)
           /\ \A n : n \notin {1, 2} => Values(PushRequest_encode(obj), n) = <<>>
<1> DEFINE f1 == Implicit(1, "", obj.pubsubTopic)
           s1 == Said("", obj.pubsubTopic)
<1> DEFINE f2 == Optional(2, Each(obj.message, WakuMessage_encode))
           s2 == Each(obj.message, WakuMessage_encode)
<1> DEFINE w1 == f1
           w2 == w1 \o f2
<1>a. PushRequest_encode(obj) = w2
  BY DEF PushRequest_encode
<1>f1. f1 = Entries(1, s1) /\ IsList(s1)
  BY ImplicitEntries DEF IsPushRequest
<1>f2. f2 = Entries(2, s2) /\ IsList(s2)
  <2>1. IsList(obj.message)
    BY OptionalValue DEF IsPushRequest
  <2> QED
    BY <2>1, ListFacts, ListOf DEF Each, Optional
<1> HIDE DEF f1, s1, f2, s2
<1>1. IsList(w1) /\ \A n : Values(w1, n) = IF n = 1 THEN s1 ELSE <<>>
  BY <1>f1, FirstField
<1> HIDE DEF w1
<1>2. Adds(w2, w1, 2, s2)
  <2>1. Values(w1, 2) = <<>> /\ IsList(w1)
    BY <1>1 DEF Adds
  <2> QED
    BY <1>f2, <2>1, FieldAdds
<1> HIDE DEF w2
<1>b. /\ IsList(w2)
      /\ Values(w2, 1) = s1
      /\ Values(w2, 2) = s2
      /\ \A n : n \notin {1, 2} => Values(w2, n) = <<>>
  BY <1>1, <1>2 DEF Adds
<1> QED
  BY <1>a, <1>b DEF s1, s2

\* PushRequest is read as it was written.
LEMMA PushRequest_read ==
    ASSUME NEW obj, IsPushRequest(obj), NEW w, SameFields(w, PushRequest_encode(obj))
    PROVE  PushRequest_decode(w) = obj
<1>1. ReadImplicit(w, 1, "") = obj.pubsubTopic
  <2>1. Values(w, 1) = Said("", obj.pubsubTopic) /\ IsOne(obj.pubsubTopic)
    BY PushRequest_fields DEF SameFields, IsPushRequest
  <2> QED
    BY <2>1, ImplicitRead
<1>2. Each(ReadOptional(w, 2), WakuMessage_decode) = obj.message
  <2>1. /\ Values(w, 2) = Each(obj.message, WakuMessage_encode)
        /\ IsOptional(obj.message)
        /\ \A i \in DOMAIN obj.message : IsWakuMessage(obj.message[i])
    BY PushRequest_fields DEF SameFields, IsPushRequest, AllAre
  <2>2. /\ IsList(obj.message) /\ Len(obj.message) \in Nat
        /\ DOMAIN obj.message = 1 .. Len(obj.message)
        /\ obj.message = [i \in 1 .. Len(obj.message) |-> obj.message[i]]
    BY <2>1, OptionalValue, ListFacts
  <2>3. \A i \in DOMAIN obj.message :
          WakuMessage_decode(WakuMessage_encode(obj.message[i])) = obj.message[i]
    BY <2>1, WakuMessage_read DEF SameFields
  <2> DEFINE each == Each(obj.message, WakuMessage_encode)
  <2>4. /\ each = [i \in 1 .. Len(obj.message) |-> WakuMessage_encode(obj.message[i])]
        /\ DOMAIN each = 1 .. Len(obj.message) /\ IsList(each)
        /\ Len(each) = Len(obj.message)
    BY <2>2, ListOf DEF Each
  <2> HIDE DEF each
  <2>5. IsOptional(each)
    BY <2>1, <2>4 DEF IsOptional
  <2>6. ReadOptional(w, 2) = each
    BY <2>1, <2>5, OptionalRead DEF each
  <2>7. Each(each, WakuMessage_decode)
          = [i \in 1 .. Len(obj.message) |-> obj.message[i]]
    BY <2>2, <2>3, <2>4 DEF Each
  <2> QED
    BY <2>2, <2>6, <2>7
<1>r. obj = [pubsubTopic |-> obj.pubsubTopic, message |-> obj.message]
  BY DEF IsPushRequest
<1> QED
  BY <1>1, <1>2, <1>r DEF PushRequest_decode

\* The fields of the wire of PushResponse.
LEMMA PushResponse_fields ==
    ASSUME NEW obj, IsPushResponse(obj)
    PROVE  /\ IsList(PushResponse_encode(obj))
           /\ Values(PushResponse_encode(obj), 1) = Said(FALSE, obj.isSuccess)
           /\ Values(PushResponse_encode(obj), 2) = obj.info
           /\ \A n : n \notin {1, 2} => Values(PushResponse_encode(obj), n) = <<>>
<1> DEFINE f1 == Implicit(1, FALSE, obj.isSuccess)
           s1 == Said(FALSE, obj.isSuccess)
<1> DEFINE f2 == Optional(2, obj.info)
           s2 == obj.info
<1> DEFINE w1 == f1
           w2 == w1 \o f2
<1>a. PushResponse_encode(obj) = w2
  BY DEF PushResponse_encode
<1>f1. f1 = Entries(1, s1) /\ IsList(s1)
  BY ImplicitEntries DEF IsPushResponse
<1>f2. f2 = Entries(2, s2) /\ IsList(s2)
  BY OptionalValue DEF IsPushResponse, Optional
<1> HIDE DEF f1, s1, f2, s2
<1>1. IsList(w1) /\ \A n : Values(w1, n) = IF n = 1 THEN s1 ELSE <<>>
  BY <1>f1, FirstField
<1> HIDE DEF w1
<1>2. Adds(w2, w1, 2, s2)
  <2>1. Values(w1, 2) = <<>> /\ IsList(w1)
    BY <1>1 DEF Adds
  <2> QED
    BY <1>f2, <2>1, FieldAdds
<1> HIDE DEF w2
<1>b. /\ IsList(w2)
      /\ Values(w2, 1) = s1
      /\ Values(w2, 2) = s2
      /\ \A n : n \notin {1, 2} => Values(w2, n) = <<>>
  BY <1>1, <1>2 DEF Adds
<1> QED
  BY <1>a, <1>b DEF s1, s2

\* PushResponse is read as it was written.
LEMMA PushResponse_read ==
    ASSUME NEW obj, IsPushResponse(obj), NEW w,
           SameFields(w, PushResponse_encode(obj))
    PROVE  PushResponse_decode(w) = obj
<1>1. ReadImplicit(w, 1, FALSE) = obj.isSuccess
  <2>1. Values(w, 1) = Said(FALSE, obj.isSuccess) /\ IsOne(obj.isSuccess)
    BY PushResponse_fields DEF SameFields, IsPushResponse
  <2> QED
    BY <2>1, ImplicitRead
<1>2. ReadOptional(w, 2) = obj.info
  <2>1. Values(w, 2) = obj.info /\ IsOptional(obj.info)
    BY PushResponse_fields DEF SameFields, IsPushResponse
  <2> QED
    BY <2>1, OptionalRead
<1>r. obj = [isSuccess |-> obj.isSuccess, info |-> obj.info]
  BY DEF IsPushResponse
<1> QED
  BY <1>1, <1>2, <1>r DEF PushResponse_decode

\* The fields of the wire of PushRpc.
LEMMA PushRpc_fields ==
    ASSUME NEW obj, IsPushRpc(obj)
    PROVE  /\ IsList(PushRpc_encode(obj))
           /\ Values(PushRpc_encode(obj), 1) = Said("", obj.requestId)
           /\ Values(PushRpc_encode(obj), 2) = Each(obj.request, PushRequest_encode)
           /\ Values(PushRpc_encode(obj), 3) = Each(obj.response, PushResponse_encode)
           /\ \A n : n \notin {1, 2, 3} => Values(PushRpc_encode(obj), n) = <<>>
<1> DEFINE f1 == Implicit(1, "", obj.requestId)
           s1 == Said("", obj.requestId)
<1> DEFINE f2 == Optional(2, Each(obj.request, PushRequest_encode))
           s2 == Each(obj.request, PushRequest_encode)
<1> DEFINE f3 == Optional(3, Each(obj.response, PushResponse_encode))
           s3 == Each(obj.response, PushResponse_encode)
<1> DEFINE w1 == f1
           w2 == w1 \o f2
           w3 == w2 \o f3
<1>a. PushRpc_encode(obj) = w3
  BY DEF PushRpc_encode
<1>f1. f1 = Entries(1, s1) /\ IsList(s1)
  BY ImplicitEntries DEF IsPushRpc
<1>f2. f2 = Entries(2, s2) /\ IsList(s2)
  <2>1. IsList(obj.request)
    BY OptionalValue DEF IsPushRpc
  <2> QED
    BY <2>1, ListFacts, ListOf DEF Each, Optional
<1>f3. f3 = Entries(3, s3) /\ IsList(s3)
  <2>1. IsList(obj.response)
    BY OptionalValue DEF IsPushRpc
  <2> QED
    BY <2>1, ListFacts, ListOf DEF Each, Optional
<1> HIDE DEF f1, s1, f2, s2, f3, s3
<1>1. IsList(w1) /\ \A n : Values(w1, n) = IF n = 1 THEN s1 ELSE <<>>
  BY <1>f1, FirstField
<1> HIDE DEF w1
<1>2. Adds(w2, w1, 2, s2)
  <2>1. Values(w1, 2) = <<>> /\ IsList(w1)
    BY <1>1 DEF Adds
  <2> QED
    BY <1>f2, <2>1, FieldAdds
<1> HIDE DEF w2
<1>3. Adds(w3, w2, 3, s3)
  <2>1. Values(w2, 3) = <<>> /\ IsList(w2)
    BY <1>1, <1>2 DEF Adds
  <2> QED
    BY <1>f3, <2>1, FieldAdds
<1> HIDE DEF w3
<1>b. /\ IsList(w3)
      /\ Values(w3, 1) = s1
      /\ Values(w3, 2) = s2
      /\ Values(w3, 3) = s3
      /\ \A n : n \notin {1, 2, 3} => Values(w3, n) = <<>>
  BY <1>1, <1>2, <1>3 DEF Adds
<1> QED
  BY <1>a, <1>b DEF s1, s2, s3

\* PushRpc is read as it was written.
LEMMA PushRpc_read ==
    ASSUME NEW obj, IsPushRpc(obj), NEW w, SameFields(w, PushRpc_encode(obj))
    PROVE  PushRpc_decode(w) = obj
<1>1. ReadImplicit(w, 1, "") = obj.requestId
  <2>1. Values(w, 1) = Said("", obj.requestId) /\ IsOne(obj.requestId)
    BY PushRpc_fields DEF SameFields, IsPushRpc
  <2> QED
    BY <2>1, ImplicitRead
<1>2. Each(ReadOptional(w, 2), PushRequest_decode) = obj.request
  <2>1. /\ Values(w, 2) = Each(obj.request, PushRequest_encode)
        /\ IsOptional(obj.request)
        /\ \A i \in DOMAIN obj.request : IsPushRequest(obj.request[i])
    BY PushRpc_fields DEF SameFields, IsPushRpc, AllAre
  <2>2. /\ IsList(obj.request) /\ Len(obj.request) \in Nat
        /\ DOMAIN obj.request = 1 .. Len(obj.request)
        /\ obj.request = [i \in 1 .. Len(obj.request) |-> obj.request[i]]
    BY <2>1, OptionalValue, ListFacts
  <2>3. \A i \in DOMAIN obj.request :
          PushRequest_decode(PushRequest_encode(obj.request[i])) = obj.request[i]
    BY <2>1, PushRequest_read DEF SameFields
  <2> DEFINE each == Each(obj.request, PushRequest_encode)
  <2>4. /\ each = [i \in 1 .. Len(obj.request) |-> PushRequest_encode(obj.request[i])]
        /\ DOMAIN each = 1 .. Len(obj.request) /\ IsList(each)
        /\ Len(each) = Len(obj.request)
    BY <2>2, ListOf DEF Each
  <2> HIDE DEF each
  <2>5. IsOptional(each)
    BY <2>1, <2>4 DEF IsOptional
  <2>6. ReadOptional(w, 2) = each
    BY <2>1, <2>5, OptionalRead DEF each
  <2>7. Each(each, PushRequest_decode)
          = [i \in 1 .. Len(obj.request) |-> obj.request[i]]
    BY <2>2, <2>3, <2>4 DEF Each
  <2> QED
    BY <2>2, <2>6, <2>7
<1>3. Each(ReadOptional(w, 3), PushResponse_decode) = obj.response
  <2>1. /\ Values(w, 3) = Each(obj.response, PushResponse_encode)
        /\ IsOptional(obj.response)
        /\ \A i \in DOMAIN obj.response : IsPushResponse(obj.response[i])
    BY PushRpc_fields DEF SameFields, IsPushRpc, AllAre
  <2>2. /\ IsList(obj.response) /\ Len(obj.response) \in Nat
        /\ DOMAIN obj.response = 1 .. Len(obj.response)
        /\ obj.response = [i \in 1 .. Len(obj.response) |-> obj.response[i]]
    BY <2>1, OptionalValue, ListFacts
  <2>3. \A i \in DOMAIN obj.response :
          PushResponse_decode(PushResponse_encode(obj.response[i])) = obj.response[i]
    BY <2>1, PushResponse_read DEF SameFields
  <2> DEFINE each == Each(obj.response, PushResponse_encode)
  <2>4. /\ each = [i \in 1 .. Len(obj.response)
                   |-> PushResponse_encode(obj.response[i])]
        /\ DOMAIN each = 1 .. Len(obj.response) /\ IsList(each)
        /\ Len(each) = Len(obj.response)
    BY <2>2, ListOf DEF Each
  <2> HIDE DEF each
  <2>5. IsOptional(each)
    BY <2>1, <2>4 DEF IsOptional
  <2>6. ReadOptional(w, 3) = each
    BY <2>1, <2>5, OptionalRead DEF each
  <2>7. Each(each, PushResponse_decode)
          = [i \in 1 .. Len(obj.response) |-> obj.response[i]]
    BY <2>2, <2>3, <2>4 DEF Each
  <2> QED
    BY <2>2, <2>6, <2>7
<1>r. obj = [requestId |-> obj.requestId, request |-> obj.request,
             response |-> obj.response]
  BY DEF IsPushRpc
<1> QED
  BY <1>1, <1>2, <1>3, <1>r DEF PushRpc_decode

\* The fields of the wire of WakuMessageKeyValue.
LEMMA WakuMessageKeyValue_fields ==
    ASSUME NEW obj, IsWakuMessageKeyValue(obj)
    PROVE  /\ IsList(WakuMessageKeyValue_encode(obj))
           /\ Values(WakuMessageKeyValue_encode(obj), 1) = obj.messageHash
           /\ Values(WakuMessageKeyValue_encode(obj), 2)
                = Each(obj.message, WakuMessage_encode)
           /\ Values(WakuMessageKeyValue_encode(obj), 3) = obj.pubsubTopic
           /\ \A n : n \notin {1, 2, 3}
                => Values(WakuMessageKeyValue_encode(obj), n) = <<>>
<1> DEFINE f1 == Optional(1, obj.messageHash)
           s1 == obj.messageHash
<1> DEFINE f2 == Optional(2, Each(obj.message, WakuMessage_encode))
           s2 == Each(obj.message, WakuMessage_encode)
<1> DEFINE f3 == Optional(3, obj.pubsubTopic)
           s3 == obj.pubsubTopic
<1> DEFINE w1 == f1
           w2 == w1 \o f2
           w3 == w2 \o f3
<1>a. WakuMessageKeyValue_encode(obj) = w3
  BY DEF WakuMessageKeyValue_encode
<1>f1. f1 = Entries(1, s1) /\ IsList(s1)
  BY OptionalValue DEF IsWakuMessageKeyValue, Optional
<1>f2. f2 = Entries(2, s2) /\ IsList(s2)
  <2>1. IsList(obj.message)
    BY OptionalValue DEF IsWakuMessageKeyValue
  <2> QED
    BY <2>1, ListFacts, ListOf DEF Each, Optional
<1>f3. f3 = Entries(3, s3) /\ IsList(s3)
  BY OptionalValue DEF IsWakuMessageKeyValue, Optional
<1> HIDE DEF f1, s1, f2, s2, f3, s3
<1>1. IsList(w1) /\ \A n : Values(w1, n) = IF n = 1 THEN s1 ELSE <<>>
  BY <1>f1, FirstField
<1> HIDE DEF w1
<1>2. Adds(w2, w1, 2, s2)
  <2>1. Values(w1, 2) = <<>> /\ IsList(w1)
    BY <1>1 DEF Adds
  <2> QED
    BY <1>f2, <2>1, FieldAdds
<1> HIDE DEF w2
<1>3. Adds(w3, w2, 3, s3)
  <2>1. Values(w2, 3) = <<>> /\ IsList(w2)
    BY <1>1, <1>2 DEF Adds
  <2> QED
    BY <1>f3, <2>1, FieldAdds
<1> HIDE DEF w3
<1>b. /\ IsList(w3)
      /\ Values(w3, 1) = s1
      /\ Values(w3, 2) = s2
      /\ Values(w3, 3) = s3
      /\ \A n : n \notin {1, 2, 3} => Values(w3, n) = <<>>
  BY <1>1, <1>2, <1>3 DEF Adds
<1> QED
  BY <1>a, <1>b DEF s1, s2, s3

\* WakuMessageKeyValue is read as it was written.
LEMMA WakuMessageKeyValue_read ==
    ASSUME NEW obj, IsWakuMessageKeyValue(obj), NEW w,
           SameFields(w, WakuMessageKeyValue_encode(obj))
    PROVE  WakuMessageKeyValue_decode(w) = obj
<1>1. ReadOptional(w, 1) = obj.messageHash
  <2>1. Values(w, 1) = obj.messageHash /\ IsOptional(obj.messageHash)
    BY WakuMessageKeyValue_fields DEF SameFields, IsWakuMessageKeyValue
  <2> QED
    BY <2>1, OptionalRead
<1>2. Each(ReadOptional(w, 2), WakuMessage_decode) = obj.message
  <2>1. /\ Values(w, 2) = Each(obj.message, WakuMessage_encode)
        /\ IsOptional(obj.message)
        /\ \A i \in DOMAIN obj.message : IsWakuMessage(obj.message[i])
    BY WakuMessageKeyValue_fields DEF SameFields, IsWakuMessageKeyValue, AllAre
  <2>2. /\ IsList(obj.message) /\ Len(obj.message) \in Nat
        /\ DOMAIN obj.message = 1 .. Len(obj.message)
        /\ obj.message = [i \in 1 .. Len(obj.message) |-> obj.message[i]]
    BY <2>1, OptionalValue, ListFacts
  <2>3. \A i \in DOMAIN obj.message :
          WakuMessage_decode(WakuMessage_encode(obj.message[i])) = obj.message[i]
    BY <2>1, WakuMessage_read DEF SameFields
  <2> DEFINE each == Each(obj.message, WakuMessage_encode)
  <2>4. /\ each = [i \in 1 .. Len(obj.message) |-> WakuMessage_encode(obj.message[i])]
        /\ DOMAIN each = 1 .. Len(obj.message) /\ IsList(each)
        /\ Len(each) = Len(obj.message)
    BY <2>2, ListOf DEF Each
  <2> HIDE DEF each
  <2>5. IsOptional(each)
    BY <2>1, <2>4 DEF IsOptional
  <2>6. ReadOptional(w, 2) = each
    BY <2>1, <2>5, OptionalRead DEF each
  <2>7. Each(each, WakuMessage_decode)
          = [i \in 1 .. Len(obj.message) |-> obj.message[i]]
    BY <2>2, <2>3, <2>4 DEF Each
  <2> QED
    BY <2>2, <2>6, <2>7
<1>3. ReadOptional(w, 3) = obj.pubsubTopic
  <2>1. Values(w, 3) = obj.pubsubTopic /\ IsOptional(obj.pubsubTopic)
    BY WakuMessageKeyValue_fields DEF SameFields, IsWakuMessageKeyValue
  <2> QED
    BY <2>1, OptionalRead
<1>r. obj = [messageHash |-> obj.messageHash, message |-> obj.message,
             pubsubTopic |-> obj.pubsubTopic]
  BY DEF IsWakuMessageKeyValue
<1> QED
  BY <1>1, <1>2, <1>3, <1>r DEF WakuMessageKeyValue_decode

\* The fields of the wire of StoreQueryRequest.
LEMMA StoreQueryRequest_fields ==
    ASSUME NEW obj, IsStoreQueryRequest(obj)
    PROVE  /\ IsList(StoreQueryRequest_encode(obj))
           /\ Values(StoreQueryRequest_encode(obj), 1) = Said("", obj.requestId)
           /\ Values(StoreQueryRequest_encode(obj), 2) = Said(FALSE, obj.includeData)
           /\ Values(StoreQueryRequest_encode(obj), 10) = obj.pubsubTopic
           /\ Values(StoreQueryRequest_encode(obj), 11) = obj.contentTopics
           /\ Values(StoreQueryRequest_encode(obj), 12) = obj.timeStart
           /\ Values(StoreQueryRequest_encode(obj), 13) = obj.timeEnd
           /\ Values(StoreQueryRequest_encode(obj), 20) = obj.messageHashes
           /\ Values(StoreQueryRequest_encode(obj), 51) = obj.paginationCursor
           /\ Values(StoreQueryRequest_encode(obj), 52)
                = Said(FALSE, obj.paginationForward)
           /\ Values(StoreQueryRequest_encode(obj), 53) = obj.paginationLimit
           /\ \A n : n \notin {1, 2, 10, 11, 12, 13, 20, 51, 52, 53}
                => Values(StoreQueryRequest_encode(obj), n) = <<>>
<1> DEFINE f1 == Implicit(1, "", obj.requestId)
           s1 == Said("", obj.requestId)
<1> DEFINE f2 == Implicit(2, FALSE, obj.includeData)
           s2 == Said(FALSE, obj.includeData)
<1> DEFINE f3 == Optional(10, obj.pubsubTopic)
           s3 == obj.pubsubTopic
<1> DEFINE f4 == Repeated(11, obj.contentTopics)
           s4 == obj.contentTopics
<1> DEFINE f5 == Optional(12, obj.timeStart)
           s5 == obj.timeStart
<1> DEFINE f6 == Optional(13, obj.timeEnd)
           s6 == obj.timeEnd
<1> DEFINE f7 == Repeated(20, obj.messageHashes)
           s7 == obj.messageHashes
<1> DEFINE f8 == Optional(51, obj.paginationCursor)
           s8 == obj.paginationCursor
<1> DEFINE f9 == Implicit(52, FALSE, obj.paginationForward)
           s9 == Said(FALSE, obj.paginationForward)
<1> DEFINE f10 == Optional(53, obj.paginationLimit)
           s10 == obj.paginationLimit
<1> DEFINE w1 == f1
           w2 == w1 \o f2
           w3 == w2 \o f3
           w4 == w3 \o f4
           w5 == w4 \o f5
           w6 == w5 \o f6
           w7 == w6 \o f7
           w8 == w7 \o f8
           w9 == w8 \o f9
           w10 == w9 \o f10
<1>a. StoreQueryRequest_encode(obj) = w10
  BY DEF StoreQueryRequest_encode
<1>f1. f1 = Entries(1, s1) /\ IsList(s1)
  BY ImplicitEntries DEF IsStoreQueryRequest
<1>f2. f2 = Entries(2, s2) /\ IsList(s2)
  BY ImplicitEntries DEF IsStoreQueryRequest
<1>f3. f3 = Entries(10, s3) /\ IsList(s3)
  BY OptionalValue DEF IsStoreQueryRequest, Optional
<1>f4. f4 = Entries(11, s4) /\ IsList(s4)
  BY DEF IsStoreQueryRequest, Repeated
<1>f5. f5 = Entries(12, s5) /\ IsList(s5)
  BY OptionalValue DEF IsStoreQueryRequest, Optional
<1>f6. f6 = Entries(13, s6) /\ IsList(s6)
  BY OptionalValue DEF IsStoreQueryRequest, Optional
<1>f7. f7 = Entries(20, s7) /\ IsList(s7)
  BY DEF IsStoreQueryRequest, Repeated
<1>f8. f8 = Entries(51, s8) /\ IsList(s8)
  BY OptionalValue DEF IsStoreQueryRequest, Optional
<1>f9. f9 = Entries(52, s9) /\ IsList(s9)
  BY ImplicitEntries DEF IsStoreQueryRequest
<1>f10. f10 = Entries(53, s10) /\ IsList(s10)
  BY OptionalValue DEF IsStoreQueryRequest, Optional
<1> HIDE DEF f1, s1, f2, s2, f3, s3, f4, s4, f5, s5, f6, s6, f7, s7, f8, s8, f9,
             s9, f10, s10
<1>1. IsList(w1) /\ \A n : Values(w1, n) = IF n = 1 THEN s1 ELSE <<>>
  BY <1>f1, FirstField
<1> HIDE DEF w1
<1>2. Adds(w2, w1, 2, s2)
  <2>1. Values(w1, 2) = <<>> /\ IsList(w1)
    BY <1>1 DEF Adds
  <2> QED
    BY <1>f2, <2>1, FieldAdds
<1> HIDE DEF w2
<1>3. Adds(w3, w2, 10, s3)
  <2>1. Values(w2, 10) = <<>> /\ IsList(w2)
    BY <1>1, <1>2 DEF Adds
  <2> QED
    BY <1>f3, <2>1, FieldAdds
<1> HIDE DEF w3
<1>4. Adds(w4, w3, 11, s4)
  <2>1. Values(w3, 11) = <<>> /\ IsList(w3)
    BY <1>1, <1>2, <1>3 DEF Adds
  <2> QED
    BY <1>f4, <2>1, FieldAdds
<1> HIDE DEF w4
<1>5. Adds(w5, w4, 12, s5)
  <2>1. Values(w4, 12) = <<>> /\ IsList(w4)
    BY <1>1, <1>2, <1>3, <1>4 DEF Adds
  <2> QED
    BY <1>f5, <2>1, FieldAdds
<1> HIDE DEF w5
<1>6. Adds(w6, w5, 13, s6)
  <2>1. Values(w5, 13) = <<>> /\ IsList(w5)
    BY <1>1, <1>2, <1>3, <1>4, <1>5 DEF Adds
  <2> QED
    BY <1>f6, <2>1, FieldAdds
<1> HIDE DEF w6
<1>7. Adds(w7, w6, 20, s7)
  <2>1. Values(w6, 20) = <<>> /\ IsList(w6)
    BY <1>1, <1>2, <1>3, <1>4, <1>5, <1>6 DEF Adds
  <2> QED
    BY <1>f7, <2>1, FieldAdds
<1> HIDE DEF w7
<1>8. Adds(w8, w7, 51, s8)
  <2>1. Values(w7, 51) = <<>> /\ IsList(w7)
    BY <1>1, <1>2, <1>3, <1>4, <1>5, <1>6, <1>7 DEF Adds
  <2> QED
    BY <1>f8, <2>1, FieldAdds
<1> HIDE DEF w8
<1>9. Adds(w9, w8, 52, s9)
  <2>1. Values(w8, 52) = <<>> /\ IsList(w8)
    BY <1>1, <1>2, <1>3, <1>4, <1>5, <1>6, <1>7, <1>8 DEF Adds
  <2> QED
    BY <1>f9, <2>1, FieldAdds
<1> HIDE DEF w9
<1>10. Adds(w10, w9, 53, s10)
  <2>1. Values(w9, 53) = <<>> /\ IsList(w9)
    BY <1>1, <1>2, <1>3, <1>4, <1>5, <1>6, <1>7, <1>8, <1>9 DEF Adds
  <2> QED
    BY <1>f10, <2>1, FieldAdds
<1> HIDE DEF w10
<1>b. /\ IsList(w10)
      /\ Values(w10, 1) = s1
      /\ Values(w10, 2) = s2
      /\ Values(w10, 10) = s3
      /\ Values(w10, 11) = s4
      /\ Values(w10, 12) = s5
      /\ Values(w10, 13) = s6
      /\ Values(w10, 20) = s7
      /\ Values(w10, 51) = s8
      /\ Values(w10, 52) = s9
      /\ Values(w10, 53) = s10
      /\ \A n : n \notin {1, 2, 10, 11, 12, 13, 20, 51, 52, 53}
           => Values(w10, n) = <<>>
  BY <1>1, <1>2, <1>3, <1>4, <1>5, <1>6, <1>7, <1>8, <1>9, <1>10 DEF Adds
<1> QED
  BY <1>a, <1>b DEF s1, s2, s3, s4, s5, s6, s7, s8, s9, s10

\* StoreQueryRequest is read as it was written.
LEMMA StoreQueryRequest_read ==
    ASSUME NEW obj, IsStoreQueryRequest(obj), NEW w,
           SameFields(w, StoreQueryRequest_encode(obj))
    PROVE  StoreQueryRequest_decode(w) = obj
<1>1. ReadImplicit(w, 1, "") = obj.requestId
  <2>1. Values(w, 1) = Said("", obj.requestId) /\ IsOne(obj.requestId)
    BY StoreQueryRequest_fields DEF SameFields, IsStoreQueryRequest
  <2> QED
    BY <2>1, ImplicitRead
<1>2. ReadImplicit(w, 2, FALSE) = obj.includeData
  <2>1. Values(w, 2) = Said(FALSE, obj.includeData) /\ IsOne(obj.includeData)
    BY StoreQueryRequest_fields DEF SameFields, IsStoreQueryRequest
  <2> QED
    BY <2>1, ImplicitRead
<1>3. ReadOptional(w, 10) = obj.pubsubTopic
  <2>1. Values(w, 10) = obj.pubsubTopic /\ IsOptional(obj.pubsubTopic)
    BY StoreQueryRequest_fields DEF SameFields, IsStoreQueryRequest
  <2> QED
    BY <2>1, OptionalRead
<1>4. ReadRepeated(w, 11) = obj.contentTopics
  <2>1. Values(w, 11) = obj.contentTopics /\ IsList(obj.contentTopics)
    BY StoreQueryRequest_fields DEF SameFields, IsStoreQueryRequest
  <2> QED
    BY <2>1 DEF ReadRepeated
<1>5. ReadOptional(w, 12) = obj.timeStart
  <2>1. Values(w, 12) = obj.timeStart /\ IsOptional(obj.timeStart)
    BY StoreQueryRequest_fields DEF SameFields, IsStoreQueryRequest
  <2> QED
    BY <2>1, OptionalRead
<1>6. ReadOptional(w, 13) = obj.timeEnd
  <2>1. Values(w, 13) = obj.timeEnd /\ IsOptional(obj.timeEnd)
    BY StoreQueryRequest_fields DEF SameFields, IsStoreQueryRequest
  <2> QED
    BY <2>1, OptionalRead
<1>7. ReadRepeated(w, 20) = obj.messageHashes
  <2>1. Values(w, 20) = obj.messageHashes /\ IsList(obj.messageHashes)
    BY StoreQueryRequest_fields DEF SameFields, IsStoreQueryRequest
  <2> QED
    BY <2>1 DEF ReadRepeated
<1>8. ReadOptional(w, 51) = obj.paginationCursor
  <2>1. Values(w, 51) = obj.paginationCursor /\ IsOptional(obj.paginationCursor)
    BY StoreQueryRequest_fields DEF SameFields, IsStoreQueryRequest
  <2> QED
    BY <2>1, OptionalRead
<1>9. ReadImplicit(w, 52, FALSE) = obj.paginationForward
  <2>1. Values(w, 52) = Said(FALSE, obj.paginationForward)
        /\ IsOne(obj.paginationForward)
    BY StoreQueryRequest_fields DEF SameFields, IsStoreQueryRequest
  <2> QED
    BY <2>1, ImplicitRead
<1>10. ReadOptional(w, 53) = obj.paginationLimit
  <2>1. Values(w, 53) = obj.paginationLimit /\ IsOptional(obj.paginationLimit)
    BY StoreQueryRequest_fields DEF SameFields, IsStoreQueryRequest
  <2> QED
    BY <2>1, OptionalRead
<1>r. obj = [requestId |-> obj.requestId, includeData |-> obj.includeData,
             pubsubTopic |-> obj.pubsubTopic,
             contentTopics |-> obj.contentTopics, timeStart |-> obj.timeStart,
             timeEnd |-> obj.timeEnd, messageHashes |-> obj.messageHashes,
             paginationCursor |-> obj.paginationCursor,
             paginationForward |-> obj.paginationForward,
             paginationLimit |-> obj.paginationLimit]
  BY DEF IsStoreQueryRequest
<1> QED
  BY <1>1, <1>2, <1>3, <1>4, <1>5, <1>6, <1>7, <1>8, <1>9, <1>10, <1>r DEF
     StoreQueryRequest_decode

\* The fields of the wire of StoreQueryResponse.
LEMMA StoreQueryResponse_fields ==
    ASSUME NEW obj, IsStoreQueryResponse(obj)
    PROVE  /\ IsList(StoreQueryResponse_encode(obj))
           /\ Values(StoreQueryResponse_encode(obj), 1) = Said("", obj.requestId)
           /\ Values(StoreQueryResponse_encode(obj), 10) = obj.statusCode
           /\ Values(StoreQueryResponse_encode(obj), 11) = obj.statusDesc
           /\ Values(StoreQueryResponse_encode(obj), 20)
                = Each(obj.messages, WakuMessageKeyValue_encode)
           /\ Values(StoreQueryResponse_encode(obj), 51) = obj.paginationCursor
           /\ \A n : n \notin {1, 10, 11, 20, 51}
                => Values(StoreQueryResponse_encode(obj), n) = <<>>
<1> DEFINE f1 == Implicit(1, "", obj.requestId)
           s1 == Said("", obj.requestId)
<1> DEFINE f2 == Optional(10, obj.statusCode)
           s2 == obj.statusCode
<1> DEFINE f3 == Optional(11, obj.statusDesc)
           s3 == obj.statusDesc
<1> DEFINE f4 == Repeated(20, Each(obj.messages, WakuMessageKeyValue_encode))
           s4 == Each(obj.messages, WakuMessageKeyValue_encode)
<1> DEFINE f5 == Optional(51, obj.paginationCursor)
           s5 == obj.paginationCursor
<1> DEFINE w1 == f1
           w2 == w1 \o f2
           w3 == w2 \o f3
           w4 == w3 \o f4
           w5 == w4 \o f5
<1>a. StoreQueryResponse_encode(obj) = w5
  BY DEF StoreQueryResponse_encode
<1>f1. f1 = Entries(1, s1) /\ IsList(s1)
  BY ImplicitEntries DEF IsStoreQueryResponse
<1>f2. f2 = Entries(10, s2) /\ IsList(s2)
  BY OptionalValue DEF IsStoreQueryResponse, Optional
<1>f3. f3 = Entries(11, s3) /\ IsList(s3)
  BY OptionalValue DEF IsStoreQueryResponse, Optional
<1>f4. f4 = Entries(20, s4) /\ IsList(s4)
  <2>1. IsList(obj.messages)
    BY OptionalValue DEF IsStoreQueryResponse
  <2> QED
    BY <2>1, ListFacts, ListOf DEF Each, Repeated
<1>f5. f5 = Entries(51, s5) /\ IsList(s5)
  BY OptionalValue DEF IsStoreQueryResponse, Optional
<1> HIDE DEF f1, s1, f2, s2, f3, s3, f4, s4, f5, s5
<1>1. IsList(w1) /\ \A n : Values(w1, n) = IF n = 1 THEN s1 ELSE <<>>
  BY <1>f1, FirstField
<1> HIDE DEF w1
<1>2. Adds(w2, w1, 10, s2)
  <2>1. Values(w1, 10) = <<>> /\ IsList(w1)
    BY <1>1 DEF Adds
  <2> QED
    BY <1>f2, <2>1, FieldAdds
<1> HIDE DEF w2
<1>3. Adds(w3, w2, 11, s3)
  <2>1. Values(w2, 11) = <<>> /\ IsList(w2)
    BY <1>1, <1>2 DEF Adds
  <2> QED
    BY <1>f3, <2>1, FieldAdds
<1> HIDE DEF w3
<1>4. Adds(w4, w3, 20, s4)
  <2>1. Values(w3, 20) = <<>> /\ IsList(w3)
    BY <1>1, <1>2, <1>3 DEF Adds
  <2> QED
    BY <1>f4, <2>1, FieldAdds
<1> HIDE DEF w4
<1>5. Adds(w5, w4, 51, s5)
  <2>1. Values(w4, 51) = <<>> /\ IsList(w4)
    BY <1>1, <1>2, <1>3, <1>4 DEF Adds
  <2> QED
    BY <1>f5, <2>1, FieldAdds
<1> HIDE DEF w5
<1>b. /\ IsList(w5)
      /\ Values(w5, 1) = s1
      /\ Values(w5, 10) = s2
      /\ Values(w5, 11) = s3
      /\ Values(w5, 20) = s4
      /\ Values(w5, 51) = s5
      /\ \A n : n \notin {1, 10, 11, 20, 51} => Values(w5, n) = <<>>
  BY <1>1, <1>2, <1>3, <1>4, <1>5 DEF Adds
<1> QED
  BY <1>a, <1>b DEF s1, s2, s3, s4, s5

\* StoreQueryResponse is read as it was written.
LEMMA StoreQueryResponse_read ==
    ASSUME NEW obj, IsStoreQueryResponse(obj), NEW w,
           SameFields(w, StoreQueryResponse_encode(obj))
    PROVE  StoreQueryResponse_decode(w) = obj
<1>1. ReadImplicit(w, 1, "") = obj.requestId
  <2>1. Values(w, 1) = Said("", obj.requestId) /\ IsOne(obj.requestId)
    BY StoreQueryResponse_fields DEF SameFields, IsStoreQueryResponse
  <2> QED
    BY <2>1, ImplicitRead
<1>2. ReadOptional(w, 10) = obj.statusCode
  <2>1. Values(w, 10) = obj.statusCode /\ IsOptional(obj.statusCode)
    BY StoreQueryResponse_fields DEF SameFields, IsStoreQueryResponse
  <2> QED
    BY <2>1, OptionalRead
<1>3. ReadOptional(w, 11) = obj.statusDesc
  <2>1. Values(w, 11) = obj.statusDesc /\ IsOptional(obj.statusDesc)
    BY StoreQueryResponse_fields DEF SameFields, IsStoreQueryResponse
  <2> QED
    BY <2>1, OptionalRead
<1>4. Each(ReadRepeated(w, 20), WakuMessageKeyValue_decode) = obj.messages
  <2>1. /\ Values(w, 20) = Each(obj.messages, WakuMessageKeyValue_encode)
        /\ IsList(obj.messages)
        /\ \A i \in DOMAIN obj.messages : IsWakuMessageKeyValue(obj.messages[i])
    BY StoreQueryResponse_fields DEF SameFields, IsStoreQueryResponse, AllAre
  <2>2. /\ IsList(obj.messages) /\ Len(obj.messages) \in Nat
        /\ DOMAIN obj.messages = 1 .. Len(obj.messages)
        /\ obj.messages = [i \in 1 .. Len(obj.messages) |-> obj.messages[i]]
    BY <2>1, ListFacts
  <2>3. \A i \in DOMAIN obj.messages :
          WakuMessageKeyValue_decode(WakuMessageKeyValue_encode(obj.messages[i]))
            = obj.messages[i]
    BY <2>1, WakuMessageKeyValue_read DEF SameFields
  <2> DEFINE each == Each(obj.messages, WakuMessageKeyValue_encode)
  <2>4. /\ each = [i \in 1 .. Len(obj.messages)
                   |-> WakuMessageKeyValue_encode(obj.messages[i])]
        /\ DOMAIN each = 1 .. Len(obj.messages) /\ IsList(each)
        /\ Len(each) = Len(obj.messages)
    BY <2>2, ListOf DEF Each
  <2> HIDE DEF each
  <2>6. ReadRepeated(w, 20) = each
    BY <2>1 DEF ReadRepeated, each
  <2>7. Each(each, WakuMessageKeyValue_decode)
          = [i \in 1 .. Len(obj.messages) |-> obj.messages[i]]
    BY <2>2, <2>3, <2>4 DEF Each
  <2> QED
    BY <2>2, <2>6, <2>7
<1>5. ReadOptional(w, 51) = obj.paginationCursor
  <2>1. Values(w, 51) = obj.paginationCursor /\ IsOptional(obj.paginationCursor)
    BY StoreQueryResponse_fields DEF SameFields, IsStoreQueryResponse
  <2> QED
    BY <2>1, OptionalRead
<1>r. obj = [requestId |-> obj.requestId, statusCode |-> obj.statusCode,
             statusDesc |-> obj.statusDesc, messages |-> obj.messages,
             paginationCursor |-> obj.paginationCursor]
  BY DEF IsStoreQueryResponse
<1> QED
  BY <1>1, <1>2, <1>3, <1>4, <1>5, <1>r DEF StoreQueryResponse_decode

\* The fields of the wire of PeerInfo.
LEMMA PeerInfo_fields ==
    ASSUME NEW obj, IsPeerInfo(obj)
    PROVE  /\ IsList(PeerInfo_encode(obj))
           /\ Values(PeerInfo_encode(obj), 1) = obj.enr
           /\ \A n : n \notin {1} => Values(PeerInfo_encode(obj), n) = <<>>
<1> DEFINE f1 == Optional(1, obj.enr)
           s1 == obj.enr
<1> DEFINE w1 == f1
<1>a. PeerInfo_encode(obj) = w1
  BY DEF PeerInfo_encode
<1>f1. f1 = Entries(1, s1) /\ IsList(s1)
  BY OptionalValue DEF IsPeerInfo, Optional
<1> HIDE DEF f1, s1
<1>1. IsList(w1) /\ \A n : Values(w1, n) = IF n = 1 THEN s1 ELSE <<>>
  BY <1>f1, FirstField
<1> HIDE DEF w1
<1>b. /\ IsList(w1)
      /\ Values(w1, 1) = s1
      /\ \A n : n \notin {1} => Values(w1, n) = <<>>
  BY <1>1 DEF Adds
<1> QED
  BY <1>a, <1>b DEF s1

\* PeerInfo is read as it was written.
LEMMA PeerInfo_read ==
    ASSUME NEW obj, IsPeerInfo(obj), NEW w, SameFields(w, PeerInfo_encode(obj))
    PROVE  PeerInfo_decode(w) = obj
<1>1. ReadOptional(w, 1) = obj.enr
  <2>1. Values(w, 1) = obj.enr /\ IsOptional(obj.enr)
    BY PeerInfo_fields DEF SameFields, IsPeerInfo
  <2> QED
    BY <2>1, OptionalRead
<1>r. obj = [enr |-> obj.enr]
  BY DEF IsPeerInfo
<1> QED
  BY <1>1, <1>r DEF PeerInfo_decode

\* The fields of the wire of PeerExchangeQuery.
LEMMA PeerExchangeQuery_fields ==
    ASSUME NEW obj, IsPeerExchangeQuery(obj)
    PROVE  /\ IsList(PeerExchangeQuery_encode(obj))
           /\ Values(PeerExchangeQuery_encode(obj), 1) = obj.numPeers
           /\ \A n : n \notin {1} => Values(PeerExchangeQuery_encode(obj), n) = <<>>
<1> DEFINE f1 == Optional(1, obj.numPeers)
           s1 == obj.numPeers
<1> DEFINE w1 == f1
<1>a. PeerExchangeQuery_encode(obj) = w1
  BY DEF PeerExchangeQuery_encode
<1>f1. f1 = Entries(1, s1) /\ IsList(s1)
  BY OptionalValue DEF IsPeerExchangeQuery, Optional
<1> HIDE DEF f1, s1
<1>1. IsList(w1) /\ \A n : Values(w1, n) = IF n = 1 THEN s1 ELSE <<>>
  BY <1>f1, FirstField
<1> HIDE DEF w1
<1>b. /\ IsList(w1)
      /\ Values(w1, 1) = s1
      /\ \A n : n \notin {1} => Values(w1, n) = <<>>
  BY <1>1 DEF Adds
<1> QED
  BY <1>a, <1>b DEF s1

\* PeerExchangeQuery is read as it was written.
LEMMA PeerExchangeQuery_read ==
    ASSUME NEW obj, IsPeerExchangeQuery(obj), NEW w,
           SameFields(w, PeerExchangeQuery_encode(obj))
    PROVE  PeerExchangeQuery_decode(w) = obj
<1>1. ReadOptional(w, 1) = obj.numPeers
  <2>1. Values(w, 1) = obj.numPeers /\ IsOptional(obj.numPeers)
    BY PeerExchangeQuery_fields DEF SameFields, IsPeerExchangeQuery
  <2> QED
    BY <2>1, OptionalRead
<1>r. obj = [numPeers |-> obj.numPeers]
  BY DEF IsPeerExchangeQuery
<1> QED
  BY <1>1, <1>r DEF PeerExchangeQuery_decode

\* The fields of the wire of PeerExchangeResponse.
LEMMA PeerExchangeResponse_fields ==
    ASSUME NEW obj, IsPeerExchangeResponse(obj)
    PROVE  /\ IsList(PeerExchangeResponse_encode(obj))
           /\ Values(PeerExchangeResponse_encode(obj), 1)
                = Each(obj.peerInfos, PeerInfo_encode)
           /\ \A n : n \notin {1}
                => Values(PeerExchangeResponse_encode(obj), n) = <<>>
<1> DEFINE f1 == Repeated(1, Each(obj.peerInfos, PeerInfo_encode))
           s1 == Each(obj.peerInfos, PeerInfo_encode)
<1> DEFINE w1 == f1
<1>a. PeerExchangeResponse_encode(obj) = w1
  BY DEF PeerExchangeResponse_encode
<1>f1. f1 = Entries(1, s1) /\ IsList(s1)
  <2>1. IsList(obj.peerInfos)
    BY OptionalValue DEF IsPeerExchangeResponse
  <2> QED
    BY <2>1, ListFacts, ListOf DEF Each, Repeated
<1> HIDE DEF f1, s1
<1>1. IsList(w1) /\ \A n : Values(w1, n) = IF n = 1 THEN s1 ELSE <<>>
  BY <1>f1, FirstField
<1> HIDE DEF w1
<1>b. /\ IsList(w1)
      /\ Values(w1, 1) = s1
      /\ \A n : n \notin {1} => Values(w1, n) = <<>>
  BY <1>1 DEF Adds
<1> QED
  BY <1>a, <1>b DEF s1

\* PeerExchangeResponse is read as it was written.
LEMMA PeerExchangeResponse_read ==
    ASSUME NEW obj, IsPeerExchangeResponse(obj), NEW w,
           SameFields(w, PeerExchangeResponse_encode(obj))
    PROVE  PeerExchangeResponse_decode(w) = obj
<1>1. Each(ReadRepeated(w, 1), PeerInfo_decode) = obj.peerInfos
  <2>1. /\ Values(w, 1) = Each(obj.peerInfos, PeerInfo_encode)
        /\ IsList(obj.peerInfos)
        /\ \A i \in DOMAIN obj.peerInfos : IsPeerInfo(obj.peerInfos[i])
    BY PeerExchangeResponse_fields DEF SameFields, IsPeerExchangeResponse,
       AllAre
  <2>2. /\ IsList(obj.peerInfos) /\ Len(obj.peerInfos) \in Nat
        /\ DOMAIN obj.peerInfos = 1 .. Len(obj.peerInfos)
        /\ obj.peerInfos = [i \in 1 .. Len(obj.peerInfos) |-> obj.peerInfos[i]]
    BY <2>1, ListFacts
  <2>3. \A i \in DOMAIN obj.peerInfos :
          PeerInfo_decode(PeerInfo_encode(obj.peerInfos[i])) = obj.peerInfos[i]
    BY <2>1, PeerInfo_read DEF SameFields
  <2> DEFINE each == Each(obj.peerInfos, PeerInfo_encode)
  <2>4. /\ each = [i \in 1 .. Len(obj.peerInfos)
                   |-> PeerInfo_encode(obj.peerInfos[i])]
        /\ DOMAIN each = 1 .. Len(obj.peerInfos) /\ IsList(each)
        /\ Len(each) = Len(obj.peerInfos)
    BY <2>2, ListOf DEF Each
  <2> HIDE DEF each
  <2>6. ReadRepeated(w, 1) = each
    BY <2>1 DEF ReadRepeated, each
  <2>7. Each(each, PeerInfo_decode)
          = [i \in 1 .. Len(obj.peerInfos) |-> obj.peerInfos[i]]
    BY <2>2, <2>3, <2>4 DEF Each
  <2> QED
    BY <2>2, <2>6, <2>7
<1>r. obj = [peerInfos |-> obj.peerInfos]
  BY DEF IsPeerExchangeResponse
<1> QED
  BY <1>1, <1>r DEF PeerExchangeResponse_decode

\* The fields of the wire of PeerExchangeRPC.
LEMMA PeerExchangeRPC_fields ==
    ASSUME NEW obj, IsPeerExchangeRPC(obj)
    PROVE  /\ IsList(PeerExchangeRPC_encode(obj))
           /\ Values(PeerExchangeRPC_encode(obj), 1)
                = Each(obj.query, PeerExchangeQuery_encode)
           /\ Values(PeerExchangeRPC_encode(obj), 2)
                = Each(obj.response, PeerExchangeResponse_encode)
           /\ \A n : n \notin {1, 2} => Values(PeerExchangeRPC_encode(obj), n) = <<>>
<1> DEFINE f1 == Optional(1, Each(obj.query, PeerExchangeQuery_encode))
           s1 == Each(obj.query, PeerExchangeQuery_encode)
<1> DEFINE f2 == Optional(2, Each(obj.response, PeerExchangeResponse_encode))
           s2 == Each(obj.response, PeerExchangeResponse_encode)
<1> DEFINE w1 == f1
           w2 == w1 \o f2
<1>a. PeerExchangeRPC_encode(obj) = w2
  BY DEF PeerExchangeRPC_encode
<1>f1. f1 = Entries(1, s1) /\ IsList(s1)
  <2>1. IsList(obj.query)
    BY OptionalValue DEF IsPeerExchangeRPC
  <2> QED
    BY <2>1, ListFacts, ListOf DEF Each, Optional
<1>f2. f2 = Entries(2, s2) /\ IsList(s2)
  <2>1. IsList(obj.response)
    BY OptionalValue DEF IsPeerExchangeRPC
  <2> QED
    BY <2>1, ListFacts, ListOf DEF Each, Optional
<1> HIDE DEF f1, s1, f2, s2
<1>1. IsList(w1) /\ \A n : Values(w1, n) = IF n = 1 THEN s1 ELSE <<>>
  BY <1>f1, FirstField
<1> HIDE DEF w1
<1>2. Adds(w2, w1, 2, s2)
  <2>1. Values(w1, 2) = <<>> /\ IsList(w1)
    BY <1>1 DEF Adds
  <2> QED
    BY <1>f2, <2>1, FieldAdds
<1> HIDE DEF w2
<1>b. /\ IsList(w2)
      /\ Values(w2, 1) = s1
      /\ Values(w2, 2) = s2
      /\ \A n : n \notin {1, 2} => Values(w2, n) = <<>>
  BY <1>1, <1>2 DEF Adds
<1> QED
  BY <1>a, <1>b DEF s1, s2

\* PeerExchangeRPC is read as it was written.
LEMMA PeerExchangeRPC_read ==
    ASSUME NEW obj, IsPeerExchangeRPC(obj), NEW w,
           SameFields(w, PeerExchangeRPC_encode(obj))
    PROVE  PeerExchangeRPC_decode(w) = obj
<1>1. Each(ReadOptional(w, 1), PeerExchangeQuery_decode) = obj.query
  <2>1. /\ Values(w, 1) = Each(obj.query, PeerExchangeQuery_encode)
        /\ IsOptional(obj.query)
        /\ \A i \in DOMAIN obj.query : IsPeerExchangeQuery(obj.query[i])
    BY PeerExchangeRPC_fields DEF SameFields, IsPeerExchangeRPC, AllAre
  <2>2. /\ IsList(obj.query) /\ Len(obj.query) \in Nat
        /\ DOMAIN obj.query = 1 .. Len(obj.query)
        /\ obj.query = [i \in 1 .. Len(obj.query) |-> obj.query[i]]
    BY <2>1, OptionalValue, ListFacts
  <2>3. \A i \in DOMAIN obj.query :
          PeerExchangeQuery_decode(PeerExchangeQuery_encode(obj.query[i]))
            = obj.query[i]
    BY <2>1, PeerExchangeQuery_read DEF SameFields
  <2> DEFINE each == Each(obj.query, PeerExchangeQuery_encode)
  <2>4. /\ each = [i \in 1 .. Len(obj.query)
                   |-> PeerExchangeQuery_encode(obj.query[i])]
        /\ DOMAIN each = 1 .. Len(obj.query) /\ IsList(each)
        /\ Len(each) = Len(obj.query)
    BY <2>2, ListOf DEF Each
  <2> HIDE DEF each
  <2>5. IsOptional(each)
    BY <2>1, <2>4 DEF IsOptional
  <2>6. ReadOptional(w, 1) = each
    BY <2>1, <2>5, OptionalRead DEF each
  <2>7. Each(each, PeerExchangeQuery_decode)
          = [i \in 1 .. Len(obj.query) |-> obj.query[i]]
    BY <2>2, <2>3, <2>4 DEF Each
  <2> QED
    BY <2>2, <2>6, <2>7
<1>2. Each(ReadOptional(w, 2), PeerExchangeResponse_decode) = obj.response
  <2>1. /\ Values(w, 2) = Each(obj.response, PeerExchangeResponse_encode)
        /\ IsOptional(obj.response)
        /\ \A i \in DOMAIN obj.response : IsPeerExchangeResponse(obj.response[i])
    BY PeerExchangeRPC_fields DEF SameFields, IsPeerExchangeRPC, AllAre
  <2>2. /\ IsList(obj.response) /\ Len(obj.response) \in Nat
        /\ DOMAIN obj.response = 1 .. Len(obj.response)
        /\ obj.response = [i \in 1 .. Len(obj.response) |-> obj.response[i]]
    BY <2>1, OptionalValue, ListFacts
  <2>3. \A i \in DOMAIN obj.response :
          PeerExchangeResponse_decode(PeerExchangeResponse_encode(obj.response[i]))
            = obj.response[i]
    BY <2>1, PeerExchangeResponse_read DEF SameFields
  <2> DEFINE each == Each(obj.response, PeerExchangeResponse_encode)
  <2>4. /\ each = [i \in 1 .. Len(obj.response)
                   |-> PeerExchangeResponse_encode(obj.response[i])]
        /\ DOMAIN each = 1 .. Len(obj.response) /\ IsList(each)
        /\ Len(each) = Len(obj.response)
    BY <2>2, ListOf DEF Each
  <2> HIDE DEF each
  <2>5. IsOptional(each)
    BY <2>1, <2>4 DEF IsOptional
  <2>6. ReadOptional(w, 2) = each
    BY <2>1, <2>5, OptionalRead DEF each
  <2>7. Each(each, PeerExchangeResponse_decode)
          = [i \in 1 .. Len(obj.response) |-> obj.response[i]]
    BY <2>2, <2>3, <2>4 DEF Each
  <2> QED
    BY <2>2, <2>6, <2>7
<1>r. obj = [query |-> obj.query, response |-> obj.response]
  BY DEF IsPeerExchangeRPC
<1> QED
  BY <1>1, <1>2, <1>r DEF PeerExchangeRPC_decode

\* One value, and none.
LEMMA AlwaysOne ==
    ASSUME NEW x
    PROVE  IsOne(<<x>>) /\ IsOptional(<<x>>) /\ IsList(<<x>>) /\ Range(<<x>>) = {x}
<1>1. Range(<<x>>) = {x}
  BY DEF Range
<1> QED
  BY <1>1 DEF IsOne, IsOptional, IsList

\* The empty list.
LEMMA NothingIsAList == IsList(<<>>) /\ IsOptional(<<>>) /\ Range(<<>>) = {}
<1>1. Range(<<>>) = {}
  BY DEF Range
<1> QED
  BY <1>1 DEF IsOptional, IsList

-----------------------------------------------------------------------------
(* A request and its response (RpcExchange). *)

\* What a service node reads of a call is the request that was made.
LEMMA FilterRequestRead ==
    ASSUME NEW type, NEW topic, NEW topics, IsList(topics)
    PROVE  LET r == FilterRequest(type, topic, topics)
           IN  FilterSubscribeRequest_decode(FilterSubscribeRequest_encode(r)) = r
<1> DEFINE r == FilterRequest(type, topic, topics)
<1>1. PICK id : id = <<"id">>
  OBVIOUS
<1>2. r = [requestId |-> id, filterSubscribeType |-> <<type>>,
           pubsubTopic |-> <<topic>>, contentTopics |-> topics]
  BY <1>1 DEF FilterRequest
<1>3. IsOne(id) /\ IsOne(<<type>>) /\ IsOptional(<<topic>>)
  BY <1>1, AlwaysOne
<1> HIDE DEF r
<1>4. IsFilterSubscribeRequest(r)
  BY <1>2, <1>3 DEF IsFilterSubscribeRequest
<1> QED
  BY <1>4, FilterSubscribeRequest_read DEF SameFields, r

\* A store request is read as createStoreRequest made it.
LEMMA StoreRequestRead ==
    ASSUME NEW c \in Calls, c.kind = "query"
    PROVE  StoreQueryRequest_decode(StoreQueryRequest_encode(createStoreRequest(c)))
             = createStoreRequest(c)
<1> DEFINE r == createStoreRequest(c)
<1>1. /\ IsOptional(c.pubsubTopic)
      /\ IsOptional(c.contentTopics) /\ AllAre(c.contentTopics, IsList)
      /\ IsOptional(c.timeStart) /\ IsOptional(c.timeEnd)
      /\ IsOptional(c.messageHashes) /\ AllAre(c.messageHashes, IsList)
      /\ IsOptional(c.paginationCursor) /\ IsOptional(c.paginationLimit)
  BY RpcAssumption
<1>2. ASSUME NEW v, IsOptional(v), AllAre(v, IsList) PROVE IsList(OrElse(v, <<>>))
  <2>1. v = <<>> \/ v = <<v[1]>>
    BY <1>2, OptionalValue
  <2>2. v = <<v[1]>> => IsList(v[1])
    BY <1>2 DEF AllAre
  <2> QED
    BY <2>1, <2>2, NothingIsAList DEF OrElse
<1>3. ASSUME NEW v, IsOptional(v) PROVE IsOptional(InNs(v))
  <2>1. CASE v = <<>>
    <3>1. InNs(v) = <<>>
      BY <2>1 DEF InNs
    <3> QED
      BY <3>1, NothingIsAList
  <2>2. CASE v = <<v[1]>>
    <3>1. InNs(v) = <<v[1] * NsPerMs>>
      BY <2>2 DEF InNs
    <3> QED
      BY <3>1, AlwaysOne
  <2> QED
    BY <1>3, <2>1, <2>2, OptionalValue
<1>4. PICK id : id = <<"id">>
  OBVIOUS
<1> DEFINE limit == IF c.paginationLimit = <<0>> THEN <<>> ELSE c.paginationLimit
<1>5. IsOptional(limit)
  BY <1>1, NothingIsAList
<1> DEFINE cts == OrElse(c.contentTopics, <<>>)
           hashes == OrElse(c.messageHashes, <<>>)
           start == InNs(c.timeStart)
           end == InNs(c.timeEnd)
<1>6. IsList(cts) /\ IsList(hashes) /\ IsOptional(start) /\ IsOptional(end)
  BY <1>1, <1>2, <1>3
<1>7. r = [requestId |-> id, includeData |-> <<c.includeData>>,
           pubsubTopic |-> c.pubsubTopic, contentTopics |-> cts,
           timeStart |-> start, timeEnd |-> end, messageHashes |-> hashes,
           paginationCursor |-> c.paginationCursor,
           paginationForward |-> <<c.paginationForward>>,
           paginationLimit |-> limit]
  BY <1>4 DEF createStoreRequest
<1>8. IsOne(id) /\ IsOne(<<c.includeData>>) /\ IsOne(<<c.paginationForward>>)
  BY <1>4, AlwaysOne
<1> HIDE DEF r, limit, cts, hashes, start, end
<1>9. IsStoreQueryRequest(r)
  BY <1>1, <1>5, <1>6, <1>7, <1>8 DEF IsStoreQueryRequest
<1> QED
  BY <1>9, StoreQueryRequest_read DEF SameFields, r

\* A peer exchange request is read as it was made.
LEMMA PeersRequestRead ==
    ASSUME NEW c
    PROVE  PeerExchangeRPC_decode(PeerExchangeRPC_encode(createPeersRequest(c)))
             = createPeersRequest(c)
<1> DEFINE r == createPeersRequest(c)
           q == [numPeers |-> <<c.numPeers>>]
<1>1. IsPeerExchangeQuery(q)
  BY AlwaysOne DEF IsPeerExchangeQuery
<1> HIDE DEF q
<1>2. r = [query |-> <<q>>, response |-> <<>>]
  BY DEF createPeersRequest, q
<1> HIDE DEF r
<1>3. IsPeerExchangeRPC(r)
  <2>1. AllAre(<<q>>, IsPeerExchangeQuery) /\ AllAre(<<>>, IsPeerExchangeResponse)
    BY <1>1 DEF AllAre
  <2>2. IsOptional(<<q>>) /\ IsOptional(<<>>)
    BY AlwaysOne, NothingIsAList
  <2>3. r.query = <<q>> /\ r.response = <<>>
        /\ r = [query |-> r.query, response |-> r.response]
    BY <1>2
  <2> QED
    BY <2>1, <2>2, <2>3 DEF IsPeerExchangeRPC
<1> QED
  BY <1>3, PeerExchangeRPC_read DEF SameFields, r

\* Every request is read as it was made.
LEMMA RequestRead ==
    ASSUME NEW c \in Calls
    PROVE  DecodeRequest(c.kind, EncodeRequest(c.kind, Request(c))) = Request(c)
<1>1. c.kind \in Kinds
  BY RpcAssumption
<1>2. CASE c.kind = "query"
  BY <1>2, StoreRequestRead DEF DecodeRequest, EncodeRequest, Request,
     FilterKinds
<1>3. CASE c.kind = "peers"
  BY <1>3, PeersRequestRead DEF DecodeRequest, EncodeRequest, Request,
     FilterKinds
<1>4. CASE c.kind \in FilterKinds
  <2>1. /\ Request(c) = createFilterRequest(c)
        /\ DecodeRequest(c.kind, EncodeRequest(c.kind, Request(c)))
             = FilterSubscribeRequest_decode(
                 FilterSubscribeRequest_encode(createFilterRequest(c)))
    BY <1>4 DEF DecodeRequest, EncodeRequest, Request, FilterKinds
  <2>2. \E type, topic, topics :
           IsList(topics)
           /\ createFilterRequest(c) = FilterRequest(type, topic, topics)
    <3>1. c.kind \in {"subscribe", "unsubscribe"} => IsList(c.contentTopics)
      BY RpcAssumption
    <3> QED
      BY <1>4, <3>1, NothingIsAList DEF createFilterRequest, FilterKinds
  <2> QED
    BY <2>1, <2>2, FilterRequestRead
<1> QED
  BY <1>1, <1>2, <1>3, <1>4 DEF Kinds

\* What the library reads of an answer is the answer, in whatever order its
\* fields come.
LEMMA ResponseRead ==
    ASSUME NEW kind \in Kinds, NEW a \in Answers[kind]
    PROVE  /\ IsList(EncodeResponse(kind, a))
           /\ \A w : SameFields(w, EncodeResponse(kind, a))
                        => DecodeResponse(kind, w) = a
<1>1. CASE kind \in FilterKinds
  <2>1. IsFilterSubscribeResponse(a)
    BY <1>1, RpcAssumption DEF Kinds, FilterKinds
  <2>2. /\ EncodeResponse(kind, a) = FilterSubscribeResponse_encode(a)
        /\ \A w : DecodeResponse(kind, w) = FilterSubscribeResponse_decode(w)
    BY <1>1 DEF EncodeResponse, DecodeResponse, FilterKinds
  <2> QED
    BY <2>1, <2>2, FilterSubscribeResponse_fields, FilterSubscribeResponse_read
<1>2. CASE kind = "query"
  <2>1. IsStoreQueryResponse(a)
    BY <1>2, RpcAssumption DEF Kinds, FilterKinds
  <2>2. /\ EncodeResponse(kind, a) = StoreQueryResponse_encode(a)
        /\ \A w : DecodeResponse(kind, w) = StoreQueryResponse_decode(w)
    BY <1>2 DEF EncodeResponse, DecodeResponse, FilterKinds
  <2> QED
    BY <2>1, <2>2, StoreQueryResponse_fields, StoreQueryResponse_read
<1>3. CASE kind = "peers"
  <2>1. IsPeerExchangeRPC(a)
    BY <1>3, RpcAssumption DEF Kinds, FilterKinds
  <2>2. /\ EncodeResponse(kind, a) = PeerExchangeRPC_encode(a)
        /\ \A w : DecodeResponse(kind, w) = PeerExchangeRPC_decode(w)
    BY <1>3 DEF EncodeResponse, DecodeResponse, FilterKinds
  <2> QED
    BY <2>1, <2>2, PeerExchangeRPC_fields, PeerExchangeRPC_read
<1> QED
  BY <1>1, <1>2, <1>3 DEF Kinds

\* Where an exchange stands: nothing is read before the request is accepted,
\* the service node has read the request made, and the bytes under way have
\* the fields of its answer.
Whole(kind, w, ans) ==
    \E a \in Answers[kind] : ans = <<a>> /\ SameFields(w, EncodeResponse(kind, a))
Accepted(c) == c.kind = "query" => ~RefusesQuery(c)
RpcInv ==
    /\ call \in Calls
    /\ exchange \in {"called", "refused", "asked", "answered", "returned"}
    /\ exchange \in {"called", "refused", "asked"} => served = <<>>
    /\ exchange # "returned" => returned = <<>>
    /\ exchange = "asked" =>
          Accepted(call) /\ onWire = EncodeRequest(call.kind, Request(call))
    /\ exchange \in {"answered", "returned"} =>
          Accepted(call) /\ served = <<Request(call)>>
    /\ exchange = "answered" => Whole(call.kind, onWire, answer)
    /\ exchange = "returned" => returned = answer

\* The first three steps of the exchange keep the invariant.
LEMMA RpcInductive == RpcInv /\ [RpcNext]_rpcVars => RpcInv'
<1> SUFFICES ASSUME RpcInv, [RpcNext]_rpcVars PROVE RpcInv'
  OBVIOUS
<1>1. CASE Ask
  <2>1. ~(call.kind = "query" /\ RefusesQuery(call)) => Accepted(call)
    BY DEF Accepted
  <2> QED
    BY <1>1, <2>1 DEF Ask, RpcInv
<1>2. ASSUME NEW a \in Answers[call.kind],
             NEW at \in 0 .. Len(EncodeResponse(call.kind, a)), Serve(a, at)
      PROVE  RpcInv'
  <2> DEFINE w == EncodeResponse(call.kind, a)
  <2>1. call \in Calls /\ call.kind \in Kinds
    BY RpcAssumption DEF RpcInv
  <2>2. IsList(w)
    BY <2>1, ResponseRead
  <2>3. at \in Between(w) /\ onWire' = Rotated(w, at)
    BY <1>2 DEF Serve
  <2> HIDE DEF w
  <2>4. SameFields(onWire', w)
    BY <2>2, <2>3, RotatedFields
  <2>5. Whole(call.kind, onWire', <<a>>)
    BY <2>4 DEF Whole, w
  <2>6. /\ exchange = "asked" /\ exchange' = "answered"
        /\ served' = <<DecodeRequest(call.kind, onWire)>>
        /\ answer' = <<a>> /\ call' = call /\ returned' = returned
    BY <1>2 DEF Serve
  <2>7. served' = <<Request(call)>>
    BY <2>1, <2>6, RequestRead DEF RpcInv
  <2> QED
    BY <2>5, <2>6, <2>7 DEF RpcInv
<1>3. CASE Return
  <2>1. PICK a \in Answers[call.kind] :
           answer = <<a>> /\ SameFields(onWire, EncodeResponse(call.kind, a))
    BY <1>3 DEF Return, RpcInv, Whole
  <2>2. call \in Calls /\ call.kind \in Kinds
    BY RpcAssumption DEF RpcInv
  <2>3. DecodeResponse(call.kind, onWire) = a
    BY <2>1, <2>2, ResponseRead
  <2> QED
    BY <1>3, <2>1, <2>3 DEF Return, RpcInv
<1>4. CASE UNCHANGED rpcVars
  BY <1>4 DEF rpcVars, RpcInv
<1> QED
  BY <1>1, <1>2, <1>3, <1>4 DEF RpcNext

\* A query the library does not refuse gives hashes alone or a filter alone.
LEMMA AcceptedQueries ==
    ASSUME NEW c \in Calls, c.kind = "query", Accepted(c),
           createStoreRequest(c).messageHashes # <<>>
    PROVE  /\ c.pubsubTopic \in {<<>>, <<"">>}
           /\ OrElse(c.contentTopics, <<>>) = <<>>
           /\ InNs(c.timeStart) = <<>> /\ InNs(c.timeEnd) = <<>>
<1>1. c.messageHashes # <<>>
  BY DEF createStoreRequest, OrElse
<1>2. ~Given(c.pubsubTopic) /\ c.contentTopics = <<>>
      /\ c.timeStart = <<>> /\ c.timeEnd = <<>>
  BY <1>1 DEF Accepted, RefusesQuery
<1>3. IsOptional(c.pubsubTopic)
  BY RpcAssumption
<1>4. c.pubsubTopic = <<>> \/ c.pubsubTopic = <<c.pubsubTopic[1]>>
  BY <1>3, OptionalValue
<1>5. c.pubsubTopic = <<>> \/ c.pubsubTopic[1] = ""
  BY <1>2 DEF Given, OrElse
<1>6. c.pubsubTopic \in {<<>>, <<"">>}
  BY <1>4, <1>5, Zenon
<1>7. OrElse(c.contentTopics, <<>>) = <<>>
  BY <1>2 DEF OrElse
<1>8. InNs(c.timeStart) = <<>> /\ InNs(c.timeEnd) = <<>>
  BY <1>2 DEF InNs
<1> QED
  BY <1>6, <1>7, <1>8, Zenon

\* Both sides of an exchange mean the same: the service node reads what the
\* application asked for, with the times in nanoseconds and every restriction
\* there is, no query gives both hashes and a filter, and the library reads
\* what was answered, in whatever order its fields come (filter_rpc.ts,
\* store/rpc.ts, peer-exchange/rpc.ts with the generated codecs).
THEOREM ExchangesAreExact == RpcSpec => []RequestExact
<1>1. RpcInit => RpcInv
  BY DEF RpcInit, RpcInv
<1>2. RpcInv => RequestExact
  <2> SUFFICES ASSUME RpcInv PROVE RequestExact
    OBVIOUS
  <2>1. call \in Calls /\ call.kind \in Kinds
    BY RpcAssumption DEF RpcInv
  <2>2. \A r \in Range(served) : r = Request(call) /\ Accepted(call)
    <3>1. CASE exchange \in {"called", "refused", "asked"}
      BY <3>1, NothingIsAList DEF RpcInv
    <3>2. CASE exchange \in {"answered", "returned"}
      BY <3>2, AlwaysOne DEF RpcInv
    <3> QED
      BY <3>1, <3>2 DEF RpcInv
  <2>3. RequestUnderstood
    <3> SUFFICES ASSUME NEW r \in Range(served) PROVE RequestUnderstood!(r)
      BY DEF RequestUnderstood
    <3>1. r = Request(call)
      BY <2>2
    <3>2. CASE call.kind \in FilterKinds
      BY <3>1, <3>2 DEF Request, createFilterRequest, FilterRequest, FilterKinds
    <3>3. CASE call.kind = "peers"
      BY <3>1, <3>3 DEF Request, createPeersRequest
    <3>4. CASE call.kind = "query"
      <4>1. r = createStoreRequest(call)
        BY <3>1, <3>4 DEF Request
      <4>2. \A n \in Range(call.paginationLimit) \ {0} : r.paginationLimit = <<n>>
        <5> SUFFICES ASSUME NEW n \in Range(call.paginationLimit), n # 0
                     PROVE  r.paginationLimit = <<n>>
          OBVIOUS
        <5>1. IsOptional(call.paginationLimit)
          BY <2>1, <3>4, RpcAssumption
        <5>2. call.paginationLimit = <<n>>
          BY <5>1, OptionalValue, NothingIsAList, AlwaysOne
        <5>3. call.paginationLimit # <<0>>
          BY <5>2
        <5> QED
          BY <4>1, <5>2, <5>3 DEF createStoreRequest
      <4> QED
        BY <3>4, <4>1, <4>2 DEF createStoreRequest
    <3> QED
      BY <2>1, <3>2, <3>3, <3>4 DEF Kinds
  <2>4. HashesOrFilter
    <3> SUFFICES ASSUME NEW r \in Range(served), call.kind = "query",
                        r.messageHashes # <<>>
                 PROVE  /\ r.pubsubTopic \in {<<>>, <<"">>} /\ r.contentTopics = <<>>
                        /\ r.timeStart = <<>> /\ r.timeEnd = <<>>
      BY DEF HashesOrFilter
    <3>1. r = createStoreRequest(call) /\ Accepted(call)
      BY <2>2 DEF Request
    <3>2. /\ call.pubsubTopic \in {<<>>, <<"">>}
          /\ OrElse(call.contentTopics, <<>>) = <<>>
          /\ InNs(call.timeStart) = <<>> /\ InNs(call.timeEnd) = <<>>
      BY <2>1, <3>1, AcceptedQueries
    <3> QED
      BY <3>1, <3>2 DEF createStoreRequest
  <2>5. AnswerUnderstood
    BY DEF RpcInv, AnswerUnderstood
  <2> QED
    BY <2>3, <2>4, <2>5 DEF RequestExact
<1> QED
  BY <1>1, <1>2, RpcInductive, PTL DEF RpcSpec

-----------------------------------------------------------------------------
(* Lists, their elements at some places, and without duplicates. *)

\* The elements of a list at some of its places, in their order.
LEMMA ElementsFacts ==
    ASSUME NEW list, NEW S, Places(S)
    PROVE  /\ IsList(ElementsAt(list, S))
           /\ Range(ElementsAt(list, S)) = {list[i] : i \in S}
<1> DEFINE n == Cardinality(S)
           e == ElementsAt(list, S)
<1>1. n \in Nat
  BY Enumeration
<1>2. PICK at : Through(at, S, n) /\ e = On(list, at, n)
  BY Enumeration
<1>3. at \in [1 .. n -> S] /\ \A i \in S : \E k \in 1 .. n : at[k] = i
  BY <1>2 DEF Through
<1>4. e = [k \in 1 .. n |-> list[at[k]]]
  BY <1>2 DEF On
<1> HIDE DEF e, n
<1>5. DOMAIN e = 1 .. n /\ e = [k \in 1 .. n |-> e[k]]
      /\ \A k \in 1 .. n : e[k] = list[at[k]]
  BY <1>4
<1>6. IsList(e)
  BY <1>1, <1>5, ListOf
<1>7. Range(e) = {list[i] : i \in S}
  BY <1>3, <1>5 DEF Range
<1> QED
  BY <1>6, <1>7 DEF e

\* Deduplicated keeps the elements of a list.
LEMMA NoDuplicates ==
    ASSUME NEW list, IsList(list)
    PROVE  IsList(Deduplicated(list)) /\ Range(Deduplicated(list)) = Range(list)
<1> DEFINE First(i) == \A j \in 1 .. i - 1 : list[j] # list[i]
           S == {i \in DOMAIN list : First(i)}
<1>1. Len(list) \in Nat /\ DOMAIN list = 1 .. Len(list)
  BY ListFacts
<1>2. Places(S)
  <2>1. IsFiniteSet(1 .. Len(list)) /\ S \subseteq 1 .. Len(list)
    BY <1>1, FS_Interval
  <2>2. IsFiniteSet(S)
    BY <2>1, FS_Subset
  <2> QED
    BY <1>1, <2>2 DEF Places
<1>3. IsList(Deduplicated(list)) /\ Range(Deduplicated(list)) = {list[i] : i \in S}
  BY <1>2, ElementsFacts DEF Deduplicated
<1>4. ASSUME NEW i \in DOMAIN list PROVE \E k \in S : list[k] = list[i]
  <2> DEFINE T == {j \in DOMAIN list : list[j] = list[i]}
             n == Cardinality(T)
  <2>1. Places(T)
    <3>1. IsFiniteSet(1 .. Len(list)) /\ T \subseteq 1 .. Len(list)
      BY <1>1, FS_Interval
    <3>2. IsFiniteSet(T)
      BY <3>1, FS_Subset
    <3> QED
      BY <1>1, <3>2 DEF Places
  <2>2. n \in Nat
    BY <2>1, Enumeration
  <2>3. PICK at : Through(at, T, n)
    BY <2>1, Enumeration
  <2>4. /\ at \in [1 .. n -> T]
        /\ \A k, l \in 1 .. n : k < l => at[k] < at[l]
        /\ \A j \in T : \E k \in 1 .. n : at[k] = j
    BY <2>3 DEF Through
  <2>5. i \in T
    OBVIOUS
  <2> HIDE DEF n, S
  <2>6. 1 \in 1 .. n
    BY <2>2, <2>4, <2>5
  <2> DEFINE first == at[1]
  <2>7. first \in DOMAIN list /\ list[first] = list[i]
    BY <2>4, <2>6
  <2>8. ASSUME NEW j \in 1 .. first - 1, list[j] = list[first] PROVE FALSE
    <3>1. j \in DOMAIN list /\ j < first /\ first \in Int
      BY <1>1, <2>7
    <3>2. j \in T
      BY <2>7, <2>8, <3>1
    <3>3. PICK k \in 1 .. n : at[k] = j
      BY <2>4, <3>2
    <3>4. k # 1
      BY <3>1, <3>3
    <3>5. 1 < k
      BY <2>2, <3>4
    <3>6. first < j
      BY <2>4, <2>6, <3>3, <3>5
    <3> QED
      BY <1>1, <3>1, <3>6
  <2> QED
    BY <2>7, <2>8 DEF S
<1>5. {list[i] : i \in S} = Range(list)
  BY <1>4 DEF Range
<1> QED
  BY <1>3, <1>5

-----------------------------------------------------------------------------
(* The topics of a node (NodeTopics). *)

\* A shard survives its two bytes, and its bit.
LEMMA WordRead ==
    ASSUME NEW n \in Indices
    PROVE  /\ DOMAIN Word(n) = 1 .. 2 /\ Len(Word(n)) = 2 /\ IsList(Word(n))
           /\ 256 * Word(n)[1] + Word(n)[2] = n
<1>1. n \in Int /\ 0 <= n /\ n <= 65535
  <2>1. n \in Int /\ 0 <= n /\ n <= MaxIndex
    <3>1. MaxIndex \in Int
      BY DEF MaxIndex
    <3> QED
      BY <3>1 DEF Indices
  <2> QED
    BY <2>1 DEF MaxIndex
<1>2. PICK q : q = n \div 256
  OBVIOUS
<1>3. PICK r : r = n % 256
  OBVIOUS
<1>4. /\ q \in Int /\ r \in Int /\ n = 256 * q + r
      /\ 0 <= q /\ q <= 255
  BY <1>1, <1>2, <1>3
<1>5. q % 256 = q
  BY <1>4
<1>6. Word(n) = <<q, r>>
  BY <1>2, <1>3, <1>5 DEF Word
<1> DEFINE w == Word(n)
<1>6a. <<q, r>> \in Seq(Int) /\ Len(<<q, r>>) = 2 /\ <<q, r>>[1] = q
       /\ <<q, r>>[2] = r
  <2>1. q \in Int /\ r \in Int
    BY <1>4
  <2> QED
    BY <2>1
<1>7. w \in Seq(Int) /\ Len(w) = 2 /\ w[1] = q /\ w[2] = r
  <2> HIDE DEF w
  <2>1. w = <<q, r>>
    BY <1>6 DEF w
  <2> QED
    BY <1>6a, <2>1
<1> HIDE DEF w
<1>8. IsList(w) /\ DOMAIN w = 1 .. 2
  BY <1>7, IsAList
<1>9. 256 * w[1] + w[2] = n
  BY <1>4, <1>7
<1> QED
  BY <1>7, <1>8, <1>9 DEF w

\* The value of each bit of a byte, the first bit highest.
LEMMA BitTable ==
    /\ BitOf(0) = 128 /\ BitOf(1) = 64 /\ BitOf(2) = 32 /\ BitOf(3) = 16
    /\ BitOf(4) = 8 /\ BitOf(5) = 4 /\ BitOf(6) = 2 /\ BitOf(7) = 1
BY DEF BitOf

\* A bit of the vector is set exactly when its shard is in the list.
LEMMA VectorRead ==
    ASSUME NEW S, NEW i \in Int, 0 <= i, i < VectorShards
    PROVE  HasBit(Vector(S)[(i \div 8) + 1], i) <=> i \in S
<1> DEFINE q == i \div 8
           k == i % 8
           B(m, b) == IF 8 * q + m \in S THEN b ELSE 0
<1>1. /\ q \in Int /\ 0 <= q /\ q <= 127
      /\ k \in 0 .. 7 /\ i = 8 * q + k
  BY DEF VectorShards
<1>2. Vector(S)[q + 1] = B(0, 128) + B(1, 64) + B(2, 32) + B(3, 16)
                         + B(4, 8) + B(5, 4) + B(6, 2) + B(7, 1)
  <2>1. q + 1 \in 1 .. VectorLength - 2 /\ 8 * (q + 1 - 1) = 8 * q
    <3>1. VectorLength - 2 \in Int /\ q + 1 <= VectorLength - 2
      BY <1>1 DEF VectorLength
    <3> QED
      BY <1>1, <3>1
  <2> HIDE DEF q
  <2> DEFINE r == q + 1
             C(m) == IF 8 * (r - 1) + m \in S THEN BitOf(m) ELSE 0
  <2>2. Vector(S)[r] = C(0) + C(1) + C(2) + C(3) + C(4) + C(5) + C(6) + C(7)
    BY <2>1 DEF Vector
  <2>3. /\ C(0) = B(0, 128) /\ C(1) = B(1, 64) /\ C(2) = B(2, 32)
        /\ C(3) = B(3, 16) /\ C(4) = B(4, 8) /\ C(5) = B(5, 4)
        /\ C(6) = B(6, 2) /\ C(7) = B(7, 1)
    BY <1>1, <2>1, BitTable
  <2> HIDE DEF C, B
  <2> QED
    BY <2>2, <2>3
<1>3. BitOf(i) = BitOf(k)
  <2>1. k % 8 = i % 8
    BY <1>1
  <2> QED
    BY <2>1 DEF BitOf
<1> DEFINE x0 == IF 8 * q + 0 \in S THEN 1 ELSE 0
           x1 == IF 8 * q + 1 \in S THEN 1 ELSE 0
           x2 == IF 8 * q + 2 \in S THEN 1 ELSE 0
           x3 == IF 8 * q + 3 \in S THEN 1 ELSE 0
           x4 == IF 8 * q + 4 \in S THEN 1 ELSE 0
           x5 == IF 8 * q + 5 \in S THEN 1 ELSE 0
           x6 == IF 8 * q + 6 \in S THEN 1 ELSE 0
           x7 == IF 8 * q + 7 \in S THEN 1 ELSE 0
           byte == 128 * x0 + 64 * x1 + 32 * x2 + 16 * x3
                    + 8 * x4 + 4 * x5 + 2 * x6 + x7
<1>4. /\ x0 \in 0 .. 1 /\ x1 \in 0 .. 1 /\ x2 \in 0 .. 1 /\ x3 \in 0 .. 1
      /\ x4 \in 0 .. 1 /\ x5 \in 0 .. 1 /\ x6 \in 0 .. 1 /\ x7 \in 0 .. 1
  OBVIOUS
<1>5. Vector(S)[q + 1] = byte
  BY <1>2
<1>6. /\ k = 0 => (i \in S <=> x0 = 1)
      /\ k = 1 => (i \in S <=> x1 = 1)
      /\ k = 2 => (i \in S <=> x2 = 1)
      /\ k = 3 => (i \in S <=> x3 = 1)
      /\ k = 4 => (i \in S <=> x4 = 1)
      /\ k = 5 => (i \in S <=> x5 = 1)
      /\ k = 6 => (i \in S <=> x6 = 1)
      /\ k = 7 => (i \in S <=> x7 = 1)
  BY <1>1
<1> HIDE DEF q, k, x0, x1, x2, x3, x4, x5, x6, x7
<1>7. /\ (byte \div 128) % 2 = x0
      /\ (byte \div 64) % 2 = x1
      /\ (byte \div 32) % 2 = x2
      /\ (byte \div 16) % 2 = x3
  BY <1>4
<1>8. /\ (byte \div 8) % 2 = x4
      /\ (byte \div 4) % 2 = x5
      /\ (byte \div 2) % 2 = x6
      /\ (byte \div 1) % 2 = x7
  BY <1>4
<1> HIDE DEF byte
<1>9. k = 0 \/ k = 1 \/ k = 2 \/ k = 3 \/ k = 4 \/ k = 5 \/ k = 6 \/ k = 7
  BY <1>1
<1>10. HasBit(Vector(S)[q + 1], i) <=> (byte \div BitOf(k)) % 2 = 1
  BY <1>3, <1>5 DEF HasBit
<1>11. HasBit(Vector(S)[q + 1], i) <=> i \in S
  BY <1>6, <1>7, <1>8, <1>9, <1>10, BitTable
<1> QED
  BY <1>11 DEF q

\* What follows the two bytes of the cluster.
LEMMA AfterWord ==
    ASSUME NEW w, IsList(w), NEW L, IsList(L)
    PROVE  Len(w) = 2 =>
              /\ Len(w \o L) = 2 + Len(L)
              /\ (w \o L)[1] = w[1] /\ (w \o L)[2] = w[2]
              /\ \A i \in 1 .. Len(L) : (w \o L)[i + 2] = L[i]
<1>1. 1 \in 1 .. 2 /\ 2 \in 1 .. 2
  OBVIOUS
<1>2. /\ IsList(w \o L) /\ Len(w \o L) = Len(w) + Len(L)
      /\ \A i \in 1 .. Len(w) : (w \o L)[i] = w[i]
      /\ \A i \in 1 .. Len(L) : (w \o L)[i + Len(w)] = L[i]
  BY JoinFacts
<1> QED
  BY <1>1, <1>2

\* A node's cluster and shards are read from the bytes in the peer store, be
\* they a list or a bit vector.
LEMMA ListedShardsRead ==
    ASSUME NEW c \in Indices, NEW S, IsList(S), \A i \in DOMAIN S : S[i] \in Indices,
           Len(S) < VectorFrom,
           NEW bytes, bytes = Word(c) \o ShardList(S)
    PROVE  decodeRelayShard(bytes) = << [clusterId |-> c, shards |-> S] >>
<1> DEFINE n == Len(S)
           L == ShardList(S)
<1>1. n \in Nat /\ n < 64 /\ DOMAIN S = 1 .. n /\ S = [i \in 1 .. n |-> S[i]]
  BY ListFacts DEF VectorFrom
<1>2. L = [at \in 1 .. 1 + 2 * n |->
             IF at = 1 THEN n ELSE Word(S[at \div 2])[(at % 2) + 1]]
  BY DEF ShardList
<1>3. 1 + 2 * n \in Nat
  BY <1>1
<1> HIDE DEF L, n
<1>4. DOMAIN L = 1 .. 1 + 2 * n /\ L = [at \in 1 .. 1 + 2 * n |-> L[at]]
  BY <1>2
<1>5. IsList(L) /\ Len(L) = 1 + 2 * n
  BY <1>3, <1>4, ListOf
<1>6. /\ IsList(Word(c)) /\ Len(Word(c)) = 2
      /\ 256 * Word(c)[1] + Word(c)[2] = c
  BY WordRead
<1>7. /\ Len(bytes) = 2 + (1 + 2 * n)
      /\ bytes[1] = Word(c)[1] /\ bytes[2] = Word(c)[2]
      /\ \A i \in 1 .. 1 + 2 * n : bytes[i + 2] = L[i]
  <2>1. PICK w : w = Word(c)
    OBVIOUS
  <2>2. IsList(w) /\ Len(w) = 2 /\ IsList(L)
    BY <1>5, <1>6, <2>1
  <2>3. /\ Len(w \o L) = 2 + Len(L)
        /\ (w \o L)[1] = w[1] /\ (w \o L)[2] = w[2]
        /\ \A i \in 1 .. Len(L) : (w \o L)[i + 2] = L[i]
    BY <2>2, AfterWord
  <2>4. bytes = w \o L
    BY <2>1 DEF L
  <2> QED
    BY <1>5, <2>1, <2>3, <2>4
<1>8. bytes[3] = n
  <2>1. 1 \in 1 .. 1 + 2 * n /\ 1 + 2 = 3
    BY <1>1
  <2>2. L[1] = n
    BY <1>2, <2>1
  <2> QED
    BY <1>7, <2>1, <2>2
<1>9. ReadWord(bytes, 1) = c
  <2>1. 1 + 1 = 2
    OBVIOUS
  <2> QED
    BY <1>6, <1>7, <2>1 DEF ReadWord
<1>10. ASSUME NEW i \in 1 .. n PROVE ReadWord(bytes, 2 + 2 * i) = S[i]
  <2>1. /\ 2 * i \in 1 .. 1 + 2 * n /\ 2 * i + 1 \in 1 .. 1 + 2 * n
        /\ 2 * i # 1 /\ 2 * i + 1 # 1
    BY <1>1
  <2>2. /\ (2 * i) \div 2 = i /\ (2 * i + 1) \div 2 = i
        /\ (2 * i) % 2 = 0 /\ (2 * i + 1) % 2 = 1
    <3>1. i \in Int
      BY <1>1
    <3> QED
      BY <3>1
  <2>3. L[2 * i] = Word(S[(2 * i) \div 2])[((2 * i) % 2) + 1]
    BY <1>2, <2>1
  <2>4. L[2 * i + 1] = Word(S[(2 * i + 1) \div 2])[((2 * i + 1) % 2) + 1]
    BY <1>2, <2>1
  <2>a. ((2 * i) % 2) + 1 = 1 /\ ((2 * i + 1) % 2) + 1 = 2
    BY <2>2
  <2>5. L[2 * i] = Word(S[i])[1] /\ L[2 * i + 1] = Word(S[i])[2]
    BY <2>2, <2>3, <2>4, <2>a, Zenon
  <2>6. bytes[2 * i + 2] = L[2 * i] /\ bytes[2 * i + 1 + 2] = L[2 * i + 1]
    BY <1>7, <2>1
  <2>7. 2 * i + 2 = 2 + 2 * i /\ 2 * i + 1 + 2 = 2 + 2 * i + 1
    BY <1>1
  <2>8. S[i] \in Indices
    BY <1>1
  <2>9. 256 * Word(S[i])[1] + Word(S[i])[2] = S[i]
    BY <2>8, WordRead
  <2>10. bytes[2 + 2 * i] = Word(S[i])[1] /\ bytes[2 + 2 * i + 1] = Word(S[i])[2]
    BY <2>5, <2>6, <2>7
  <2> QED
    BY <2>9, <2>10 DEF ReadWord
<1>11. [i \in 1 .. bytes[3] |-> ReadWord(bytes, 2 + 2 * i)] = S
  BY <1>1, <1>8, <1>10
<1>12. /\ Len(bytes) # VectorLength /\ Len(bytes) >= 3
       /\ Len(bytes) >= 3 + 2 * bytes[3]
  <2>1. n \in Int /\ n >= 0 /\ Len(bytes) = 3 + 2 * n
    BY <1>1, <1>7
  <2>2. 3 + 2 * n # 130
    BY <2>1
  <2> QED
    BY <1>8, <2>1, <2>2 DEF VectorLength
<1> QED
  BY <1>9, <1>11, <1>12 DEF decodeRelayShard

\* The shards of a bit vector are read as they were written.
LEMMA VectorShardsRead ==
    ASSUME NEW c \in Indices, NEW T, \A s \in T : s \in Nat /\ s < VectorShards,
           NEW bytes, bytes = Word(c) \o Vector(T)
    PROVE  \E list : /\ decodeRelayShard(bytes) = << [clusterId |-> c, shards |-> list] >>
                     /\ IsList(list) /\ Range(list) = T
<1> DEFINE V == Vector(T)
           m == VectorLength - 2
<1>0. m \in Nat /\ m = 128 /\ m + 2 = VectorLength
  BY DEF VectorLength
<1>1. DOMAIN V = 1 .. m /\ V = [i \in 1 .. m |-> V[i]]
  BY DEF Vector
<1> HIDE DEF V, m
<1>2. IsList(V) /\ Len(V) = m
  BY <1>0, <1>1, ListOf
<1>3. /\ IsList(Word(c)) /\ Len(Word(c)) = 2
      /\ 256 * Word(c)[1] + Word(c)[2] = c
  BY WordRead
<1>4. /\ Len(bytes) = VectorLength
      /\ bytes[1] = Word(c)[1] /\ bytes[2] = Word(c)[2]
      /\ \A i \in 1 .. m : bytes[i + 2] = V[i]
  <2>1. PICK w : w = Word(c)
    OBVIOUS
  <2>2. IsList(w) /\ Len(w) = 2 /\ IsList(V)
    BY <1>2, <1>3, <2>1
  <2>3. /\ Len(w \o V) = 2 + Len(V)
        /\ (w \o V)[1] = w[1] /\ (w \o V)[2] = w[2]
        /\ \A i \in 1 .. Len(V) : (w \o V)[i + 2] = V[i]
    BY <2>2, AfterWord
  <2>4. bytes = w \o V
    BY <2>1 DEF V
  <2>5. 2 + m = VectorLength
    BY <1>0
  <2> QED
    BY <1>2, <2>1, <2>3, <2>4, <2>5
<1>5. ReadWord(bytes, 1) = c
  <2>1. 1 + 1 = 2
    OBVIOUS
  <2> QED
    BY <1>3, <1>4, <2>1 DEF ReadWord
<1> DEFINE Set == {i \in 1 .. VectorShards : HasBit(bytes[(i - 1) \div 8 + 3], i - 1)}
           numbers == [i \in 1 .. VectorShards |-> i - 1]
<1>6. ASSUME NEW i \in 1 .. VectorShards PROVE i \in Set <=> i - 1 \in T
  <2> DEFINE s == i - 1
             p == s \div 8
  <2>1. s \in Int /\ 0 <= s /\ s < VectorShards
    BY DEF VectorShards
  <2>2. p \in Int /\ 0 <= p /\ p <= 127
    BY <2>1 DEF VectorShards
  <2> HIDE DEF s
  <2>3. HasBit(V[p + 1], s) <=> s \in T
    BY <2>1, VectorRead DEF V
  <2> HIDE DEF p
  <2>4. p + 1 \in 1 .. m /\ p + 1 + 2 = p + 3
    BY <1>0, <2>2
  <2>5. bytes[p + 3] = V[p + 1]
    BY <1>4, <2>4
  <2>6. i \in Set <=> HasBit(bytes[p + 3], s)
    BY DEF p, s
  <2> QED
    BY <2>3, <2>5, <2>6 DEF s
<1>7. Places(Set)
  <2>1. IsFiniteSet(1 .. VectorShards) /\ Set \subseteq 1 .. VectorShards
    <3>1. VectorShards \in Int
      BY DEF VectorShards
    <3>2. IsFiniteSet(1 .. VectorShards)
      BY <3>1, FS_Interval
    <3> QED
      BY <3>2
  <2>2. IsFiniteSet(Set)
    BY <2>1, FS_Subset
  <2>3. \A i \in Set : i \in Int
    BY <2>1
  <2> QED
    BY <2>2, <2>3 DEF Places
<1> DEFINE list == ElementsAt(numbers, Set)
<1>8. IsList(list) /\ Range(list) = {numbers[i] : i \in Set}
  BY <1>7, ElementsFacts
<1>9. {numbers[i] : i \in Set} = T
  <2>1. \A i \in Set : numbers[i] = i - 1 /\ i \in 1 .. VectorShards
    OBVIOUS
  <2>2. \A i \in Set : i - 1 \in T
    BY <1>6, <2>1
  <2>0. VectorShards \in Int
    BY DEF VectorShards
  <2>3. \A s \in T : s + 1 \in 1 .. VectorShards /\ s + 1 - 1 = s
    BY <2>0
  <2>4. ASSUME NEW s \in T PROVE s + 1 \in Set /\ numbers[s + 1] = s
    <3>1. s + 1 \in 1 .. VectorShards /\ s + 1 - 1 = s
      BY <2>3
    <3> HIDE DEF Set
    <3>2. s + 1 \in Set
      BY <1>6, <3>1
    <3>3. numbers[s + 1] = s
      BY <3>1
    <3> QED
      BY <3>2, <3>3
  <2> HIDE DEF Set, numbers
  <2> QED
    BY <2>1, <2>2, <2>4
<1>10. decodeRelayShard(bytes) = << [clusterId |-> c, shards |-> list] >>
  BY <1>4, <1>5 DEF decodeRelayShard
<1> HIDE DEF list, Set, numbers
<1> QED
  BY <1>8, <1>9, <1>10

\* What is stored is read: the same cluster, and the same shards.
Stored(bytes, c, some) ==
    \E list : /\ decodeRelayShard(bytes) = << [clusterId |-> c, shards |-> list] >>
              /\ IsList(list) /\ Range(list) = some

\* encodeRelayShard and decodeRelayShard, in either form.
LEMMA ShardsRead ==
    ASSUME NEW c \in Indices, NEW S, IsList(S), \A i \in DOMAIN S : S[i] \in Indices,
           NEW stored, stored = encodeRelayShard([clusterId |-> c, shards |-> S]),
           stored # <<>>
    PROVE  Stored(stored[1], c, Range(S))
<1> DEFINE info == [clusterId |-> c, shards |-> S]
<1>1. Len(S) \in Nat /\ info.clusterId = c /\ info.shards = S
  BY ListFacts
<1>2. stored = encodeRelayShard(info)
  OBVIOUS
<1> HIDE DEF info
<1>3. CASE Len(S) < VectorFrom
  <2>1. stored = <<Word(c) \o ShardList(S)>>
    BY <1>1, <1>2, <1>3 DEF encodeRelayShard, VectorFrom
  <2>2. stored[1] = Word(c) \o ShardList(S)
    BY <2>1
  <2>3. decodeRelayShard(stored[1]) = << [clusterId |-> c, shards |-> S] >>
    BY <1>3, <2>2, ListedShardsRead
  <2> QED
    BY <2>3 DEF Stored
<1>4. CASE Len(S) >= VectorFrom
  <2>0. ~(Len(S) < VectorFrom)
    BY <1>1, <1>4 DEF VectorFrom
  <2>1. /\ \A i \in DOMAIN S : S[i] < VectorShards
        /\ stored = <<Word(c) \o Vector(ToSet(S))>>
    BY <1>1, <1>2, <2>0 DEF encodeRelayShard
  <2>2. ToSet(S) = Range(S)
    BY DEF ToSet, Range
  <2>3. \A s \in Range(S) : s \in Nat /\ s < VectorShards
    <3>1. MaxIndex \in Int
      BY DEF MaxIndex
    <3>2. \A i \in DOMAIN S : S[i] \in Nat
      BY <3>1 DEF Indices
    <3> QED
      BY <2>1, <3>2 DEF Range
  <2>4. stored[1] = Word(c) \o Vector(Range(S))
    BY <2>1, <2>2
  <2> QED
    BY <2>3, <2>4, VectorShardsRead DEF Stored
<1> QED
  BY <1>1, <1>3, <1>4 DEF VectorFrom

\* The metadata message of a node is read as it was written.
LEMMA MetadataRead ==
    ASSUME NEW c, NEW S, IsList(S)
    PROVE  WakuMetadataResponse_decode(
               WakuMetadataRequest_encode([clusterId |-> <<c>>, shards |-> S]))
             = [clusterId |-> <<c>>, shards |-> S]
<1> DEFINE f1 == Optional(1, <<c>>)
           f2 == Repeated(2, S)
           w == f1 \o f2
<1>1. f1 = Entries(1, <<c>>) /\ f2 = Entries(2, S) /\ IsList(<<c>>)
  BY AlwaysOne DEF Optional, Repeated
<1>2. WakuMetadataRequest_encode([clusterId |-> <<c>>, shards |-> S]) = w
  BY DEF WakuMetadataRequest_encode
<1> HIDE DEF f1, f2
<1>3. IsList(f1) /\ \A n : Values(f1, n) = IF n = 1 THEN <<c>> ELSE <<>>
  BY <1>1, FirstField
<1>4. Adds(w, f1, 2, S)
  BY <1>1, <1>3, FieldAdds
<1> HIDE DEF w
<1>5. Values(w, 1) = <<c>> /\ Values(w, 2) = S
  BY <1>3, <1>4 DEF Adds
<1>6. ReadOptional(w, 1) = <<c>>
  BY <1>5, AlwaysOne, OptionalRead
<1> QED
  BY <1>2, <1>5, <1>6 DEF WakuMetadataResponse_decode, ReadRepeated

\* The pubsub topics of a node are on one cluster.
OnCluster(list, c) ==
    /\ IsList(list) /\ list # <<>> /\ c \in Indices
    /\ \A i \in DOMAIN list : list[i] = <<c, list[i][2]>> /\ list[i][2] \in Indices

\* The cluster of a configuration.
LEMMA ClusterConfigured ==
    ASSUME NEW c \in Configs
    PROVE  OrDefault(c.clusterId) \in Indices
<1>1. 0 \in Int /\ 1 \in Int /\ MaxIndex \in Int /\ 1 <= MaxIndex
  BY DEF MaxIndex
<1>2. 1 \in Indices
  BY <1>1 DEF Indices
<1>3. IsOptional(c.clusterId)
      /\ \A i \in DOMAIN c.clusterId : c.clusterId[i] \in Indices
  BY TopicAssumption
<1>4. c.clusterId = <<>> \/ c.clusterId = <<c.clusterId[1]>>
  BY <1>3, OptionalValue
<1>5. c.clusterId = <<c.clusterId[1]>> => c.clusterId[1] \in Indices
  BY <1>3
<1> QED
  BY <1>2, <1>4, <1>5 DEF OrDefault, DEFAULT_CLUSTER_ID

\* The topics of the shards of a list, and of content topics.
LEMMA ShardTopics ==
    ASSUME NEW shards, IsList(shards), NEW clusterId
    PROVE  LET topics == TopicsOfShards(shards, clusterId)
           IN  /\ IsList(topics)
               /\ Range(topics) = {<<OrDefault(clusterId), s>> : s \in Range(shards)}
<1> DEFINE c == OrDefault(clusterId)
           n == Len(shards)
           all == [i \in DOMAIN shards |-> <<c, shards[i]>>]
<1>1. n \in Nat /\ DOMAIN shards = 1 .. n
  BY ListFacts
<1> HIDE DEF c, n
<1>2. DOMAIN all = 1 .. n /\ all = [i \in 1 .. n |-> all[i]]
  BY <1>1
<1>3. Range(all) = {<<c, s>> : s \in Range(shards)}
  BY DEF Range
<1> HIDE DEF all
<1>4. IsList(all)
  BY <1>1, <1>2, ListOf
<1>5. IsList(Deduplicated(all)) /\ Range(Deduplicated(all)) = Range(all)
  BY <1>4, NoDuplicates
<1>6. TopicsOfShards(shards, clusterId) = Deduplicated(all)
  BY DEF TopicsOfShards, all, c
<1> QED
  BY <1>3, <1>5, <1>6 DEF c

\* The topics of content topics.
LEMMA ContentTopicTopics ==
    ASSUME NEW cts, IsList(cts), NEW clusterId
    PROVE  LET topics == TopicsOf(cts, clusterId)
           IN  /\ IsList(topics) /\ DOMAIN topics = DOMAIN cts
               /\ \A i \in DOMAIN cts :
                     topics[i]
                       = <<OrDefault(clusterId), contentTopicToShardIndex(cts[i])>>
<1> DEFINE topics == TopicsOf(cts, clusterId)
           n == Len(cts)
<1>1. n \in Nat /\ DOMAIN cts = 1 .. n
  BY ListFacts
<1> HIDE DEF n
<1>2. /\ topics = [i \in 1 .. n |-> contentTopicToPubsubTopic(cts[i], clusterId)]
  BY <1>1 DEF TopicsOf
<1> HIDE DEF topics
<1>3. DOMAIN topics = 1 .. n /\ topics = [i \in 1 .. n |-> topics[i]]
  BY <1>2
<1>4. IsList(topics)
  BY <1>1, <1>3, ListOf
<1>5. \A i \in DOMAIN cts :
         topics[i] = <<OrDefault(clusterId), contentTopicToShardIndex(cts[i])>>
  BY <1>1, <1>2 DEF contentTopicToPubsubTopic
<1> QED
  BY <1>1, <1>3, <1>4, <1>5 DEF topics

\* The shard info of topics on one cluster: the cluster, and each shard.
LEMMA ShardInfoOf ==
    ASSUME NEW list, NEW c, OnCluster(list, c)
    PROVE  LET info == pubsubTopicsToShardInfo(list)[1]
           IN  /\ info = [clusterId |-> c, shards |-> info.shards]
               /\ IsList(info.shards)
               /\ \A i \in DOMAIN info.shards : info.shards[i] \in Indices
               /\ Range(info.shards) = {list[i][2] : i \in DOMAIN list}
<1> DEFINE unique == Deduplicated(list)
           n == Len(unique)
           shards == [i \in DOMAIN unique |-> unique[i][2]]
           info == [clusterId |-> c, shards |-> shards]
<1>1. /\ IsList(list) /\ list # <<>> /\ c \in Indices
      /\ \A i \in DOMAIN list : list[i] = <<c, list[i][2]>> /\ list[i][2] \in Indices
  BY DEF OnCluster
<1>2. IsList(unique) /\ Range(unique) = Range(list)
  BY <1>1, NoDuplicates
<1>3. n \in Nat /\ DOMAIN unique = 1 .. n
  BY <1>2, ListFacts
<1>4. 1 \in DOMAIN list
  BY <1>1, ListFacts
<1> HIDE DEF unique, n
<1>5. \A i \in DOMAIN unique : \E j \in DOMAIN list : unique[i] = list[j]
  BY <1>2 DEF Range
<1>6. \A j \in DOMAIN list : \E i \in DOMAIN unique : unique[i] = list[j]
  BY <1>2 DEF Range
<1>7. 1 \in DOMAIN unique
  BY <1>3, <1>4, <1>6
<1>8. unique[1][1] = c
  BY <1>1, <1>5, <1>7
<1>9. {list[i][1] : i \in DOMAIN list} = {c}
  BY <1>1, <1>4
<1>10. pubsubTopicsToShardInfo(list) = <<info>>
  BY <1>8, <1>9 DEF pubsubTopicsToShardInfo, unique
<1>11. DOMAIN shards = 1 .. n /\ shards = [i \in 1 .. n |-> shards[i]]
       /\ \A i \in DOMAIN unique : shards[i] = unique[i][2]
  BY <1>3
<1> HIDE DEF shards
<1>12. IsList(shards)
  BY <1>3, <1>11, ListOf
<1>13. \A i \in DOMAIN shards : shards[i] \in Indices
  BY <1>1, <1>3, <1>5, <1>11
<1>14. Range(shards) = {list[i][2] : i \in DOMAIN list}
  <2>1. \A i \in DOMAIN shards : \E j \in DOMAIN list : shards[i] = list[j][2]
    BY <1>3, <1>5, <1>11
  <2>2. \A j \in DOMAIN list : \E i \in DOMAIN shards : shards[i] = list[j][2]
    BY <1>3, <1>6, <1>11
  <2> QED
    BY <2>1, <2>2 DEF Range
<1> QED
  BY <1>10, <1>12, <1>13, <1>14

\* What a configuration is, and the topics a node gets from it.
LEMMA ConfigurationRead ==
    ASSUME NEW c \in Configs
    PROVE  /\ c.shards # <<>> =>
                 /\ IsList(c.shards[1])
                 /\ \A j \in DOMAIN c.shards[1] : c.shards[1][j] \in Indices
           /\ c.contentTopics # <<>> =>
                 /\ IsList(c.contentTopics[1])
                 /\ \A j \in DOMAIN c.contentTopics[1] :
                       contentTopicToShardIndex(c.contentTopics[1][j]) \in 0 .. 7
<1>1. /\ IsOptional(c.shards) /\ AllAre(c.shards, IsList)
      /\ \A i \in DOMAIN c.shards :
            \A j \in DOMAIN c.shards[i] : c.shards[i][j] \in Indices
      /\ IsOptional(c.contentTopics) /\ AllAre(c.contentTopics, IsList)
      /\ \A i \in DOMAIN c.contentTopics : \A j \in DOMAIN c.contentTopics[i] :
            LET ct == c.contentTopics[i][j]
            IN  Digest[ct.application \o ct.version] \in Nat
  BY TopicAssumption
<1>2. c.shards # <<>> => 1 \in DOMAIN c.shards
  BY <1>1, OptionalValue
<1>3. c.contentTopics # <<>> => 1 \in DOMAIN c.contentTopics
  BY <1>1, OptionalValue
<1>4. c.shards # <<>> => /\ IsList(c.shards[1])
                         /\ \A j \in DOMAIN c.shards[1] : c.shards[1][j] \in Indices
  BY <1>1, <1>2 DEF AllAre
<1>5. c.contentTopics # <<>> => IsList(c.contentTopics[1])
  BY <1>1, <1>3 DEF AllAre
<1>6. ASSUME NEW ct, Digest[ct.application \o ct.version] \in Nat
      PROVE  contentTopicToShardIndex(ct) \in 0 .. 7
  BY <1>6 DEF contentTopicToShardIndex, NetworkShards
<1>7. c.contentTopics # <<>> =>
         \A j \in DOMAIN c.contentTopics[1] :
            contentTopicToShardIndex(c.contentTopics[1][j]) \in 0 .. 7
  BY <1>1, <1>3, <1>6
<1> QED
  BY <1>4, <1>5, <1>7

\* The topics of a configuration, by which of its fields are given.
LEMMA TopicsDerived ==
    ASSUME NEW c \in Configs, NEW topics,
           derivePubsubTopicsFromNetworkConfig(c) = <<topics>>
    PROVE  /\ OnCluster(topics, OrDefault(c.clusterId))
           /\ isAutoSharding(c) =>
                 /\ c.contentTopics[1] # <<>> /\ IsList(c.contentTopics[1])
                 /\ topics = TopicsOf(c.contentTopics[1], c.clusterId)
           /\ ~isAutoSharding(c) =>
                 /\ c.clusterId # <<>> /\ c.shards # <<>> /\ c.shards[1] # <<>>
                 /\ IsList(c.shards[1])
                 /\ topics = TopicsOfShards(c.shards[1], c.clusterId)
<1> DEFINE d == OrDefault(c.clusterId)
<1>0. d \in Indices
  BY ClusterConfigured
<1> HIDE DEF d
<1>1. CASE isAutoSharding(c)
  <2> DEFINE cts == c.contentTopics[1]
  <2>1. /\ ~isStaticSharding(c)
        /\ cts # <<>> /\ topics = TopicsOf(cts, c.clusterId)
    BY <1>1 DEF derivePubsubTopicsFromNetworkConfig, isStaticSharding
  <2>2. /\ IsList(cts)
        /\ \A j \in DOMAIN cts : contentTopicToShardIndex(cts[j]) \in 0 .. 7
    BY <1>1, ConfigurationRead DEF isAutoSharding
  <2>3. /\ IsList(topics) /\ DOMAIN topics = DOMAIN cts
        /\ \A i \in DOMAIN cts : topics[i] = <<d, contentTopicToShardIndex(cts[i])>>
    BY <2>1, <2>2, ContentTopicTopics DEF d
  <2>4. \A s \in 0 .. 7 : s \in Indices
    <3>1. MaxIndex \in Int /\ 7 <= MaxIndex
      BY DEF MaxIndex
    <3> QED
      BY <3>1 DEF Indices
  <2>5. topics # <<>>
    BY <2>1, <2>2, <2>3, ListFacts
  <2>6. \A i \in DOMAIN topics :
           topics[i] = <<d, topics[i][2]>> /\ topics[i][2] \in Indices
    BY <2>2, <2>3, <2>4
  <2>7. OnCluster(topics, d)
    BY <1>0, <2>3, <2>5, <2>6 DEF OnCluster
  <2> QED
    BY <1>1, <2>1, <2>2, <2>7 DEF d
<1>2. CASE ~isAutoSharding(c)
  <2> DEFINE shards == c.shards[1]
  <2>1. /\ c.clusterId # <<>> /\ c.shards # <<>> /\ shards # <<>>
        /\ topics = TopicsOfShards(shards, c.clusterId)
    BY <1>2 DEF derivePubsubTopicsFromNetworkConfig, isStaticSharding
  <2>2. IsList(shards) /\ \A j \in DOMAIN shards : shards[j] \in Indices
    BY <2>1, ConfigurationRead
  <2>3. IsList(topics) /\ Range(topics) = {<<d, s>> : s \in Range(shards)}
    BY <2>1, <2>2, ShardTopics DEF d
  <2> HIDE DEF shards
  <2>4. \A i \in DOMAIN topics : \E j \in DOMAIN shards : topics[i] = <<d, shards[j]>>
    BY <2>3 DEF Range
  <2>5. topics # <<>>
    <3>1. 1 \in DOMAIN shards
      BY <2>1, <2>2, ListFacts
    <3>2. <<d, shards[1]>> \in Range(topics)
      BY <2>3, <3>1 DEF Range
    <3> QED
      BY <3>2 DEF Range
  <2>6. \A i \in DOMAIN topics :
           topics[i] = <<d, topics[i][2]>> /\ topics[i][2] \in Indices
    BY <2>2, <2>4
  <2>7. OnCluster(topics, d)
    BY <1>0, <2>3, <2>5, <2>6 DEF OnCluster
  <2> QED
    BY <1>2, <2>1, <2>2, <2>7 DEF d, shards
<1> QED
  BY <1>1, <1>2

\* The node's shard info, and where its peer is with it: nothing is told before
\* the node has its topics, and what the peer stores is what it was told.
nodeShardInfo == pubsubTopicsToShardInfo(pubsubTopics)[1]
TopicInv ==
    /\ config \in Configs
    /\ node \in {"new", "refused", "created"}
    /\ node = "created"
         => derivePubsubTopicsFromNetworkConfig(config) = <<pubsubTopics>>
    /\ node # "created" => told = <<>>
    /\ told # <<>> =>
          told = <<WakuMetadataRequest_encode([clusterId
                                               |-> <<nodeShardInfo.clusterId>>,
                                               shards |-> nodeShardInfo.shards])>>
    /\ shardInfoBytes # <<>>
         => told # <<>> /\ shardInfoBytes = encodeRelayShard(nodeShardInfo)
    /\ \A c \in codecs : c.pubsubTopic = determinePubsubTopic(c.contentTopic, c.info)

\* A step of a node keeps the invariant.
LEMMA TopicInductive == TopicInv /\ [TopicNext]_topicVars => TopicInv'
<1> SUFFICES ASSUME TopicInv, [TopicNext]_topicVars PROVE TopicInv'
  OBVIOUS
<1>1. CASE CreateNode
  <2> DEFINE topics == derivePubsubTopicsFromNetworkConfig(config)
  <2>1. topics = <<>> \/ topics = <<topics[1]>>
    BY DEF derivePubsubTopicsFromNetworkConfig
  <2>2. topics # <<>> => node' = "created" /\ pubsubTopics' = topics[1]
    BY <1>1 DEF CreateNode
  <2>3. topics = <<>> => node' = "refused"
    BY <1>1 DEF CreateNode
  <2>4. /\ node = "new" /\ config' = config /\ told' = told
        /\ shardInfoBytes' = shardInfoBytes /\ codecs' = codecs
    BY <1>1 DEF CreateNode
  <2>5. told = <<>> /\ shardInfoBytes = <<>>
    BY <2>4 DEF TopicInv
  <2> HIDE DEF topics
  <2>6. node' \in {"new", "refused", "created"}
        /\ (node' = "created" => topics = <<pubsubTopics'>>)
    BY <2>1, <2>2, <2>3
  <2> QED
    BY <2>4, <2>5, <2>6 DEF TopicInv, topics
<1>2. CASE TellShards
  BY <1>2 DEF TellShards, TopicInv, nodeShardInfo
<1>3. CASE SaveShards
  <2>1. /\ told # <<>> /\ config' = config /\ node' = node
        /\ pubsubTopics' = pubsubTopics
        /\ told' = told /\ codecs' = codecs
        /\ shardInfoBytes' =
             LET read == WakuMetadataResponse_decode(told[1])
             IN  encodeRelayShard([clusterId |-> read.clusterId[1],
                                   shards |-> read.shards])
    BY <1>3 DEF SaveShards
  <2>2. node = "created"
        /\ derivePubsubTopicsFromNetworkConfig(config) = <<pubsubTopics>>
    BY <2>1 DEF TopicInv
  <2>3. OnCluster(pubsubTopics, OrDefault(config.clusterId))
    BY <2>2, TopicsDerived DEF TopicInv
  <2>4. PICK d : d = OrDefault(config.clusterId)
    OBVIOUS
  <2>5. /\ nodeShardInfo = [clusterId |-> d, shards |-> nodeShardInfo.shards]
        /\ IsList(nodeShardInfo.shards)
    BY <2>3, <2>4, ShardInfoOf DEF nodeShardInfo
  <2>6. told[1] = WakuMetadataRequest_encode([clusterId
                                              |-> <<nodeShardInfo.clusterId>>,
                                              shards |-> nodeShardInfo.shards])
    BY <2>1 DEF TopicInv
  <2>7. WakuMetadataResponse_decode(told[1])
          = [clusterId |-> <<nodeShardInfo.clusterId>>,
             shards |-> nodeShardInfo.shards]
    BY <2>5, <2>6, MetadataRead
  <2>8. [clusterId |-> nodeShardInfo.clusterId, shards |-> nodeShardInfo.shards]
          = nodeShardInfo
    BY <2>5
  <2>9. shardInfoBytes' = encodeRelayShard(nodeShardInfo)
    BY <2>1, <2>7, <2>8
  <2>10. nodeShardInfo' = nodeShardInfo
    BY <2>1 DEF nodeShardInfo
  <2> QED
    BY <2>1, <2>9, <2>10 DEF TopicInv
<1>4. ASSUME NEW ct \in ContentTopics, NEW info \in Infos, CreateCodec(ct, info)
      PROVE  TopicInv'
  <2>1. /\ config' = config /\ node' = node /\ pubsubTopics' = pubsubTopics
        /\ told' = told /\ shardInfoBytes' = shardInfoBytes
        /\ codecs' = codecs \cup {[contentTopic |-> ct, info |-> info,
                                   pubsubTopic |-> determinePubsubTopic(ct, info)]}
    BY <1>4 DEF CreateCodec
  <2>2. nodeShardInfo' = nodeShardInfo
    BY <2>1 DEF nodeShardInfo
  <2>3. \A c \in codecs' :
          c.pubsubTopic = determinePubsubTopic(c.contentTopic, c.info)
    BY <2>1 DEF TopicInv
  <2> QED
    BY <2>1, <2>2, <2>3 DEF TopicInv
<1>5. CASE UNCHANGED topicVars
  BY <1>5 DEF topicVars, TopicInv, nodeShardInfo
<1> QED
  BY <1>1, <1>2, <1>3, <1>4, <1>5 DEF TopicNext

\* Two names of the set of elements.
LEMMA ToSetIsRange == \A s : ToSet(s) = Range(s)
BY DEF ToSet, Range

\* Membership of a list.
LEMMA ContainsIsRange ==
    ASSUME NEW s, IsList(s), NEW x
    PROVE  Contains(s, x) <=> x \in Range(s)
BY ListFacts DEF Contains, Range

\* A peer reads the shards the node has.
LEMMA PeerKnowsShards == TopicInv => ShardsKnown
<1> SUFFICES ASSUME TopicInv, shardInfoBytes # <<>>
             PROVE  ToSet(peerTopics) = ToSet(pubsubTopics)
  BY DEF ShardsKnown
<1>1. PICK d : d = OrDefault(config.clusterId)
  OBVIOUS
<1>2. /\ config \in Configs
      /\ derivePubsubTopicsFromNetworkConfig(config) = <<pubsubTopics>>
      /\ shardInfoBytes = encodeRelayShard(nodeShardInfo)
  BY DEF TopicInv
<1>3. OnCluster(pubsubTopics, d)
  BY <1>1, <1>2, TopicsDerived
<1>4. /\ d \in Indices
      /\ \A i \in DOMAIN pubsubTopics : pubsubTopics[i] = <<d, pubsubTopics[i][2]>>
  BY <1>3 DEF OnCluster
<1> DEFINE S == nodeShardInfo.shards
<1>5. /\ nodeShardInfo = [clusterId |-> d, shards |-> S]
      /\ IsList(S) /\ \A i \in DOMAIN S : S[i] \in Indices
      /\ Range(S) = {pubsubTopics[i][2] : i \in DOMAIN pubsubTopics}
  BY <1>3, ShardInfoOf DEF nodeShardInfo
<1> HIDE DEF S
<1>6. Stored(shardInfoBytes[1], d, Range(S))
  <2>1. shardInfoBytes = encodeRelayShard([clusterId |-> d, shards |-> S])
    BY <1>2, <1>5
  <2> QED
    BY <1>4, <1>5, <2>1, ShardsRead
<1>7. PICK list : /\ decodeRelayShard(shardInfoBytes[1])
                       = << [clusterId |-> d, shards |-> list] >>
                  /\ IsList(list) /\ Range(list) = Range(S)
  BY <1>6 DEF Stored
<1>8. peerTopics = TopicsOfShards(list, <<d>>)
  BY <1>7 DEF peerTopics, shardInfoToPubsubTopics
<1>9. OrDefault(<<d>>) = d
  BY DEF OrDefault
<1>10. Range(peerTopics) = {<<d, s>> : s \in Range(list)}
  BY <1>7, <1>8, <1>9, ShardTopics
<1>11. {<<d, s>> : s \in Range(S)} = Range(pubsubTopics)
  <2>1. \A i \in DOMAIN pubsubTopics : pubsubTopics[i][2] \in Range(S)
    BY <1>5
  <2>2. \A s \in Range(S) : \E i \in DOMAIN pubsubTopics : s = pubsubTopics[i][2]
    BY <1>5
  <2> QED
    BY <1>4, <2>1, <2>2 DEF Range
<1> QED
  BY <1>7, <1>10, <1>11, ToSetIsRange

\* A codec is on the topics its shard or its content topic gives it.
LEMMA CodecsOnNode == TopicInv => CodecOnNode
<1> SUFFICES ASSUME TopicInv, node = "created", NEW c \in codecs,
                    OrDefault(c.info.clusterId) = OrDefault(config.clusterId),
                    IF isAutoSharding(config)
                    THEN /\ c.info.shard = <<>>
                         /\ Contains(config.contentTopics[1], c.contentTopic)
                    ELSE /\ c.info.shard # <<>>
                         /\ Contains(config.shards[1], c.info.shard[1])
             PROVE  Contains(pubsubTopics, c.pubsubTopic)
  BY DEF CodecOnNode
<1>1. PICK d : d = OrDefault(config.clusterId)
  OBVIOUS
<1>2. /\ config \in Configs
      /\ derivePubsubTopicsFromNetworkConfig(config) = <<pubsubTopics>>
      /\ c.pubsubTopic = determinePubsubTopic(c.contentTopic, c.info)
  BY DEF TopicInv
<1>3. IsList(pubsubTopics)
  BY <1>2, TopicsDerived DEF OnCluster
<1>4. CASE isAutoSharding(config)
  <2> DEFINE cts == config.contentTopics[1]
  <2>1. IsList(cts) /\ pubsubTopics = TopicsOf(cts, config.clusterId)
    BY <1>2, <1>4, TopicsDerived
  <2>2. c.pubsubTopic = <<d, contentTopicToShardIndex(c.contentTopic)>>
    BY <1>1, <1>2, <1>4 DEF determinePubsubTopic, contentTopicToPubsubTopic
  <2>3. PICK i \in DOMAIN cts : cts[i] = c.contentTopic
    <3>1. c.contentTopic \in Range(cts)
      BY <1>4, <2>1, ContainsIsRange
    <3> QED
      BY <3>1 DEF Range
  <2>4. pubsubTopics[i] = c.pubsubTopic /\ i \in DOMAIN pubsubTopics
    BY <1>1, <2>1, <2>2, <2>3, ContentTopicTopics
  <2>5. c.pubsubTopic \in Range(pubsubTopics)
    BY <2>4 DEF Range
  <2> QED
    BY <1>3, <2>5, ContainsIsRange
<1>5. CASE ~isAutoSharding(config)
  <2> DEFINE shards == config.shards[1]
  <2>1. IsList(shards) /\ pubsubTopics = TopicsOfShards(shards, config.clusterId)
    BY <1>2, <1>5, TopicsDerived
  <2>2. c.pubsubTopic = <<d, c.info.shard[1]>>
    BY <1>1, <1>2, <1>5 DEF determinePubsubTopic
  <2>3. c.info.shard[1] \in Range(shards)
    BY <1>5, <2>1, ContainsIsRange
  <2>4. Range(pubsubTopics) = {<<d, s>> : s \in Range(shards)}
    BY <1>1, <2>1, ShardTopics
  <2>5. c.pubsubTopic \in Range(pubsubTopics)
    BY <2>2, <2>3, <2>4
  <2> QED
    BY <1>3, <2>5, ContainsIsRange
<1> QED
  BY <1>4, <1>5

\* Content topics of one application and version have one shard.
LEMMA ApplicationsGrouped == TopicInv => ApplicationOnOneTopic
<1> SUFFICES ASSUME TopicInv, node = "created", isAutoSharding(config)
             PROVE  LET groups == contentTopicsByPubsubTopic(config.contentTopics[1],
                                                             config.clusterId)
                    IN  /\ DOMAIN groups = ToSet(pubsubTopics)
                        /\ \A t, u \in DOMAIN groups :
                             (\E a \in ToSet(groups[t]), b \in ToSet(groups[u]) :
                                 a.application = b.application
                                 /\ a.version = b.version)
                             => t = u
  BY DEF ApplicationOnOneTopic
<1> DEFINE cts == config.contentTopics[1]
           cluster == config.clusterId
           topic(ct) == contentTopicToPubsubTopic(ct, cluster)
           places(t) == {i \in DOMAIN cts : topic(cts[i]) = t}
           groups == contentTopicsByPubsubTopic(cts, cluster)
<1>1. /\ config \in Configs
      /\ derivePubsubTopicsFromNetworkConfig(config) = <<pubsubTopics>>
  BY DEF TopicInv
<1>2. IsList(cts) /\ pubsubTopics = TopicsOf(cts, cluster)
  BY <1>1, TopicsDerived
<1>3. groups = [t \in ToSet(pubsubTopics) |-> ElementsAt(cts, places(t))]
  BY <1>2 DEF contentTopicsByPubsubTopic
<1>4. ASSUME NEW t PROVE Places(places(t))
  <2>1. Len(cts) \in Nat /\ DOMAIN cts = 1 .. Len(cts)
    BY <1>2, ListFacts
  <2>2. IsFiniteSet(1 .. Len(cts)) /\ places(t) \subseteq 1 .. Len(cts)
    BY <2>1, FS_Interval
  <2>3. IsFiniteSet(places(t))
    BY <2>2, FS_Subset
  <2>4. \A i \in places(t) : i \in Int
    BY <2>1
  <2> HIDE DEF places
  <2> QED
    BY <2>3, <2>4 DEF Places
<1>5. ASSUME NEW t \in DOMAIN groups, NEW a \in ToSet(groups[t])
      PROVE  topic(a) = t
  <2>1. groups[t] = ElementsAt(cts, places(t))
    BY <1>3, <1>5
  <2>2. Range(groups[t]) = {cts[i] : i \in places(t)}
    BY <1>4, <2>1, ElementsFacts
  <2>3. \A i \in places(t) : topic(cts[i]) = t
    OBVIOUS
  <2>4. a \in Range(groups[t])
    BY ToSetIsRange
  <2> HIDE DEF groups, places, topic
  <2> QED
    BY <2>2, <2>3, <2>4
<1>6. ASSUME NEW a, NEW b, a.application = b.application, a.version = b.version
      PROVE  topic(a) = topic(b)
  BY <1>6 DEF contentTopicToPubsubTopic, contentTopicToShardIndex
<1>7. DOMAIN groups = ToSet(pubsubTopics)
  BY <1>3
<1> HIDE DEF groups, topic
<1>8. ASSUME NEW t \in DOMAIN groups, NEW u \in DOMAIN groups,
             NEW a \in ToSet(groups[t]), NEW b \in ToSet(groups[u]),
             a.application = b.application, a.version = b.version
      PROVE  t = u
  BY <1>5, <1>6, <1>8
<1> QED
  BY <1>7, <1>8 DEF groups

\* The other reading of a configuration finds the topics of the node.
LEMMA ReadingsSame == TopicInv => ReadingsAgree
<1> SUFFICES ASSUME TopicInv, node = "created",
                    config.shards = <<>> \/ ~isAutoSharding(config),
                    NEW read \in ToSet(ensureShardingConfigured(config))
             PROVE  /\ ToSet(read.pubsubTopics) = ToSet(pubsubTopics)
                    /\ read.shardInfo.clusterId = nodeShardInfo.clusterId
                    /\ ToSet(read.shardInfo.shards) = ToSet(nodeShardInfo.shards)
  BY DEF ReadingsAgree, nodeShardInfo
<1>1. PICK d : d = OrDefault(config.clusterId)
  OBVIOUS
<1>2. /\ config \in Configs
      /\ derivePubsubTopicsFromNetworkConfig(config) = <<pubsubTopics>>
  BY DEF TopicInv
<1>3. OnCluster(pubsubTopics, d)
  BY <1>1, <1>2, TopicsDerived
<1> DEFINE S == nodeShardInfo.shards
<1>4. /\ nodeShardInfo = [clusterId |-> d, shards |-> S]
      /\ Range(S) = {pubsubTopics[i][2] : i \in DOMAIN pubsubTopics}
  BY <1>3, ShardInfoOf DEF nodeShardInfo
<1> HIDE DEF S
<1>5. OrDefault(<<d>>) = d /\ ConfiguredCluster(config) = d
  BY <1>1 DEF OrDefault, ConfiguredCluster
<1>6. CASE isAutoSharding(config)
  <2> DEFINE cts == config.contentTopics[1]
             index == [i \in DOMAIN cts |-> contentTopicToShardIndex(cts[i])]
             n == Len(cts)
  <2>1. /\ config.shards = <<>> /\ config.contentTopics # <<>> /\ cts # <<>>
        /\ IsList(cts)
        /\ pubsubTopics = TopicsOf(cts, config.clusterId)
    BY <1>2, <1>6, TopicsDerived DEF isAutoSharding
  <2>2. read = [shardInfo |-> [clusterId |-> d, shards |-> Deduplicated(index)],
                pubsubTopics |-> Deduplicated(TopicsOf(cts, <<d>>))]
    <3>1. ensureShardingConfigured(config) \in
            {<<>>, << [shardInfo
                       |-> [clusterId |-> d, shards |-> Deduplicated(index)],
                       pubsubTopics |-> Deduplicated(TopicsOf(cts, <<d>>))] >>}
      BY <1>5, <2>1 DEF ensureShardingConfigured
    <3> QED
      BY <3>1, ToSetIsRange, AlwaysOne, NothingIsAList
  <2>3. n \in Nat /\ DOMAIN cts = 1 .. n
    BY <2>1, ListFacts
  <2> HIDE DEF n
  <2>4. DOMAIN index = 1 .. n /\ index = [i \in 1 .. n |-> index[i]]
        /\ \A i \in 1 .. n : index[i] = contentTopicToShardIndex(cts[i])
    BY <2>3
  <2> HIDE DEF index
  <2>5. IsList(index)
    BY <2>3, <2>4, ListOf
  <2>6. Range(Deduplicated(index)) = Range(index)
    BY <2>5, NoDuplicates
  <2>7. /\ DOMAIN pubsubTopics = 1 .. n
        /\ \A i \in 1 .. n : pubsubTopics[i] = <<d, contentTopicToShardIndex(cts[i])>>
    BY <1>1, <2>1, <2>3, ContentTopicTopics
  <2>8. Range(index) = Range(S)
    BY <1>4, <2>4, <2>7 DEF Range
  <2>9. TopicsOf(cts, <<d>>) = pubsubTopics
    BY <1>1, <1>5, <2>1 DEF TopicsOf, contentTopicToPubsubTopic
  <2>10. IsList(pubsubTopics)
    BY <1>3 DEF OnCluster
  <2>11. Range(Deduplicated(pubsubTopics)) = Range(pubsubTopics)
    BY <2>10, NoDuplicates
  <2> HIDE DEF cts
  <2> QED
    BY <1>4, <2>2, <2>6, <2>8, <2>9, <2>11, ToSetIsRange
<1>7. CASE ~isAutoSharding(config)
  <2> DEFINE shards == config.shards[1]
  <2>1. /\ config.shards # <<>> /\ shards # <<>> /\ IsList(shards)
        /\ pubsubTopics = TopicsOfShards(shards, config.clusterId)
    BY <1>2, <1>7, TopicsDerived
  <2>2. read = [shardInfo |-> [clusterId |-> d, shards |-> shards],
                pubsubTopics |-> TopicsOfShards(shards, <<d>>)]
    <3>1. ensureShardingConfigured(config)
            = << [shardInfo |-> [clusterId |-> d, shards |-> shards],
                  pubsubTopics |-> TopicsOfShards(shards, <<d>>)] >>
      BY <1>5, <2>1 DEF ensureShardingConfigured
    <3> QED
      BY <3>1, ToSetIsRange, AlwaysOne
  <2>3. TopicsOfShards(shards, <<d>>) = pubsubTopics
    BY <1>1, <1>5, <2>1 DEF TopicsOfShards
  <2>4. Range(pubsubTopics) = {<<d, s>> : s \in Range(shards)}
    BY <1>1, <2>1, ShardTopics
  <2> HIDE DEF shards
  <2>5. Range(S) = Range(shards)
    <3>1. \A i \in DOMAIN pubsubTopics : \E s \in Range(shards) :
            pubsubTopics[i] = <<d, s>>
      BY <2>4 DEF Range
    <3>2. \A s \in Range(shards) : \E i \in DOMAIN pubsubTopics :
            pubsubTopics[i] = <<d, s>>
      BY <2>4 DEF Range
    <3>3. \A x \in Range(S) : x \in Range(shards)
      BY <1>4, <3>1
    <3>4. \A x \in Range(shards) : x \in Range(S)
      BY <1>4, <3>2
    <3> QED
      BY <3>3, <3>4
  <2> QED
    BY <1>4, <2>2, <2>3, <2>5, ToSetIsRange
<1> QED
  BY <1>6, <1>7

\* A node, its encoders and decoders, and its peers agree on its topics: what a
\* peer reads in its peer store is what the node was configured with, through
\* the metadata message and both forms of the bytes; codecs are on the node's
\* topics, an application in one version is on one, and both functions that
\* read a configuration find the same (utils/src/common/sharding,
\* relay_shard_codec.ts, create/libp2p.ts, metadata/index.ts).
THEOREM TopicsAlwaysAgree == TopicSpec => []TopicsAgree
<1>1. TopicInit => TopicInv
  BY DEF TopicInit, TopicInv
<1>2. TopicInv => TopicsAgree
  BY PeerKnowsShards, CodecsOnNode, ApplicationsGrouped, ReadingsSame DEF
     TopicsAgree
<1> QED
  BY <1>1, <1>2, TopicInductive, PTL DEF TopicSpec

-----------------------------------------------------------------------------
(* A message on its way (MessagePath, Messages, PayloadCipher). *)

\* The width of the size field, below the size where it is lost in the flags.
LEMMA SizeFieldFacts ==
    ASSUME NEW n \in Nat
    PROVE  LET w == computeSizeOfPayloadSizeField(n)
           IN  /\ w \in Int /\ 1 <= w /\ w <= 4
               /\ n < 16777216 => w <= 3 /\ addPayloadSizeField(n)
                                              = [flags |-> w, width |-> w, size |-> n]
               /\ addPayloadSizeField(n).flags = w /\ addPayloadSizeField(n).width = w
<1> DEFINE w == computeSizeOfPayloadSizeField(n)
           table == <<256, 65536, 16777216>>
           size == IF w = 4 THEN n ELSE n % table[w]
<1>1. \/ n < 256 /\ w = 1
      \/ n >= 256 /\ n < 65536 /\ w = 2
      \/ n >= 65536 /\ n < 16777216 /\ w = 3
      \/ n >= 16777216 /\ w = 4
  BY DEF computeSizeOfPayloadSizeField
<1>2. addPayloadSizeField(n) = [flags |-> w, width |-> w, size |-> size]
  BY DEF addPayloadSizeField
<1>3. table[1] = 256 /\ table[2] = 65536 /\ table[3] = 16777216
  OBVIOUS
<1> HIDE DEF w, table
<1>4. n < 16777216 => size = n
  <2>1. n < 256 => n % 256 = n
    OBVIOUS
  <2>2. n < 65536 => n % 65536 = n
    OBVIOUS
  <2>3. n < 16777216 => n % 16777216 = n
    OBVIOUS
  <2> QED
    BY <1>1, <1>3, <2>1, <2>2, <2>3
<1> HIDE DEF size
<1>5. w \in Int /\ 1 <= w /\ w <= 4 /\ (n < 16777216 => w <= 3)
  BY <1>1
<1> QED
  BY <1>2, <1>4, <1>5 DEF w

\* The envelope of a payload: its size field, its flags and its padding.
LEMMA EnvelopeFacts ==
    ASSUME NEW payload, DataSize(payload) \in Nat, NEW signer, IsOptional(signer)
    PROVE  LET n == DataSize(payload)
               w == computeSizeOfPayloadSizeField(n)
               e == preCipher(payload, signer)
           IN  /\ w \in Int /\ 1 <= w /\ w <= 4
               /\ e.width = w /\ e.payload = payload
               /\ e.padding = Padding(addPayloadSizeField(n), n, signer # <<>>)
               /\ n < 16777216 => w <= 3 /\ e.size = n
               /\ signer = <<>> => e.flags = w /\ e.sig = <<>>
               /\ signer # <<>> => /\ e.flags = WithSignedFlag(w)
                                   /\ e.sig # <<>> /\ e.sig[2] = Unsigned(e)
                                   /\ signer = <<e.sig[1]>>
<1> DEFINE n == DataSize(payload)
           w == computeSizeOfPayloadSizeField(n)
           field == addPayloadSizeField(n)
           pad == Padding(field, n, signer # <<>>)
           base == [flags |-> field.flags, width |-> field.width,
                    size |-> field.size, payload |-> payload,
                    padding |-> pad, sig |-> <<>>]
           signed == [base EXCEPT !.flags = WithSignedFlag(base.flags)]
           e == preCipher(payload, signer)
<1>1. /\ w \in Int /\ 1 <= w /\ w <= 4 /\ field.flags = w /\ field.width = w
      /\ n < 16777216 => w <= 3 /\ field = [flags |-> w, width |-> w, size |-> n]
  BY SizeFieldFacts
<1>2. n < 16777216 => field.size = n
  BY <1>1
<1>3. e = IF signer = <<>> THEN base ELSE sign(signed, signer[1])
  BY DEF preCipher
<1> HIDE DEF w, n, field, pad
<1>4. /\ base.width = w /\ base.payload = payload /\ base.padding = pad
      /\ base.flags = w /\ base.sig = <<>> /\ base.size = field.size
  BY <1>1
<1>5. signed = [flags |-> WithSignedFlag(w), width |-> w, size |-> field.size,
                payload |-> payload, padding |-> pad, sig |-> <<>>]
  BY <1>1
<1> HIDE DEF base, signed
<1>6. CASE signer = <<>>
  BY <1>1, <1>2, <1>3, <1>4, <1>6 DEF w, n, pad, field
<1>7. CASE signer # <<>>
  <2>1. signer = <<signer[1]>>
    BY <1>7, OptionalValue
  <2>2. e = [signed EXCEPT !.sig = <<signer[1], [signed EXCEPT !.sig = <<>>]>>]
    BY <1>3, <1>7 DEF sign, Unsigned
  <2>3. [signed EXCEPT !.sig = <<>>] = signed
    BY <1>5
  <2>4. e = [flags |-> WithSignedFlag(w), width |-> w, size |-> field.size,
             payload |-> payload, padding |-> pad, sig |-> <<signer[1], signed>>]
    BY <1>5, <2>2, <2>3
  <2>5. Unsigned(e) = signed
    BY <1>5, <2>4 DEF Unsigned
  <2>6. e.sig # <<>> /\ e.sig[2] = Unsigned(e) /\ signer = <<e.sig[1]>>
    BY <2>1, <2>4, <2>5
  <2>7. /\ e.width = w /\ e.payload = payload /\ e.padding = pad
        /\ e.flags = WithSignedFlag(w) /\ e.size = field.size
    BY <2>4
  <2> QED
    BY <1>1, <1>2, <1>7, <2>6, <2>7 DEF w, n, pad, field
<1> QED
  BY <1>6, <1>7

\* The flags of an envelope give back the width and the signed bit.
LEMMA FlagFacts ==
    ASSUME NEW w \in Int, 1 <= w, w <= 3
    PROVE  /\ w % (FlagMask + 1) = w /\ ~HasSignedFlag(w)
           /\ WithSignedFlag(w) % (FlagMask + 1) = w
           /\ HasSignedFlag(WithSignedFlag(w))
<1>1. FlagMask + 1 = 4 /\ IsSignedMask = 4
  BY DEF FlagMask, IsSignedMask
<1>2. w = 1 \/ w = 2 \/ w = 3
  OBVIOUS
<1>3. (w \div 4) % 2 = 0 /\ w % 4 = w
  BY <1>2
<1>4. (w + 4) % 4 = w /\ ((w + 4) \div 4) % 2 = 1
  BY <1>2
<1>5. WithSignedFlag(w) = w + 4
  BY <1>1, <1>3 DEF WithSignedFlag
<1> QED
  BY <1>1, <1>3, <1>4, <1>5 DEF HasSignedFlag

\* What was put into an envelope comes out of it, with its signer.
LEMMA EnvelopeOpened ==
    ASSUME NEW payload, DataSize(payload) \in Nat, DataSize(payload) < 16777216,
           NEW signer, IsOptional(signer)
    PROVE  postCipher(preCipher(payload, signer))
             = << [payload |-> payload, signaturePublicKey |-> signer] >>
<1> DEFINE n == DataSize(payload)
           w == computeSizeOfPayloadSizeField(n)
           e == preCipher(payload, signer)
<1>1. /\ w \in Int /\ 1 <= w /\ w <= 3
      /\ e.width = w /\ e.payload = payload /\ e.size = n
      /\ signer = <<>> => e.flags = w /\ e.sig = <<>>
      /\ signer # <<>> => /\ e.flags = WithSignedFlag(w)
                          /\ e.sig # <<>> /\ e.sig[2] = Unsigned(e)
                          /\ signer = <<e.sig[1]>>
  BY EnvelopeFacts
<1> HIDE DEF w, e
<1>2. getSizeOfPayloadSizeField(e) = w
  BY <1>1, FlagFacts DEF getSizeOfPayloadSizeField
<1>3. isMessageSigned(e) <=> signer # <<>>
  BY <1>1, FlagFacts DEF isMessageSigned
<1>4. Slice(e, FlagsLength + w, e.size) = payload
  BY <1>1 DEF Slice
<1>5. signer = IF isMessageSigned(e) THEN <<ecRecoverPubKey(e)>> ELSE <<>>
  BY <1>1, <1>3 DEF ecRecoverPubKey
<1>6. w # 0
  BY <1>1
<1>7. postCipher(e) = << [payload |-> payload, signaturePublicKey |-> signer] >>
  BY <1>2, <1>4, <1>5, <1>6 DEF postCipher
<1> QED
  BY <1>7 DEF e

\* The envelope is padded up to a multiple of PaddingTarget, never by nothing.
LEMMA EnvelopePadded ==
    ASSUME NEW payload, DataSize(payload) \in Nat, NEW signer, IsOptional(signer)
    PROVE  LET e == preCipher(payload, signer)
           IN  /\ EnvelopeSize(e) \in Int /\ EnvelopeSize(e) % PaddingTarget = 0
               /\ e.padding > 0 /\ EnvelopeSize(e) > DataSize(payload)
<1> DEFINE n == DataSize(payload)
           w == computeSizeOfPayloadSizeField(n)
           e == preCipher(payload, signer)
           s == IF signer # <<>> THEN SignatureLength ELSE 0
           raw == FlagsLength + w + n + s
<1>1. /\ w \in Int /\ 1 <= w /\ w <= 4
      /\ e.width = w /\ e.payload = payload
      /\ e.padding = Padding(addPayloadSizeField(n), n, signer # <<>>)
      /\ signer = <<>> <=> e.sig = <<>>
  BY EnvelopeFacts
<1>2. s \in Int /\ s >= 0
  BY DEF SignatureLength
<1>3. raw \in Int /\ raw > n
  BY <1>1, <1>2 DEF FlagsLength
<1>4. e.padding = PaddingTarget - (raw % PaddingTarget)
  BY <1>1 DEF Padding
<1>5. EnvelopeSize(e) = FlagsLength + w + n + e.padding + s
  BY <1>1 DEF EnvelopeSize
<1> HIDE DEF s, w, e
<1>6. e.padding \in Int /\ e.padding > 0
  BY <1>3, <1>4 DEF PaddingTarget
<1>7. EnvelopeSize(e) = raw + e.padding
  BY <1>1, <1>2, <1>5, <1>6 DEF FlagsLength
<1> HIDE DEF raw
<1>8. (raw + e.padding) % 256 = 0
  <2>1. PICK r : r = raw % 256
    OBVIOUS
  <2>2. PICK q : q = raw \div 256
    OBVIOUS
  <2>3. q \in Int /\ r \in Int /\ raw = 256 * q + r
    BY <1>3, <2>1, <2>2
  <2>4. e.padding = 256 - r
    BY <1>4, <2>1 DEF PaddingTarget
  <2>5. raw + e.padding = 256 * (q + 1)
    BY <2>3, <2>4
  <2>6. (256 * (q + 1)) % 256 = 0
    BY <2>3
  <2> QED
    BY <2>5, <2>6
<1> QED
  BY <1>3, <1>6, <1>7, <1>8 DEF PaddingTarget, e

\* What a node may make of the message of an encoder: the message itself, and
\* the message without its fields that are at their default.
Written(enc, msg) == {toProtoObj(enc, msg), Short(toProtoObj(enc, msg))}

\* A field that may be left out at its default.
LEMMA UnlessFacts ==
    ASSUME NEW d, NEW v, IsOptional(v)
    PROVE  IsOptional(Unless(d, v)) /\ OrElse(Unless(d, v), d) = OrElse(v, d)
<1>1. IsOptional(<<>>)
  BY NothingIsAList
<1>2. CASE v = <<d>>
  BY <1>1, <1>2 DEF Unless, OrElse
<1>3. CASE v # <<d>>
  BY <1>3 DEF Unless
<1> QED
  BY <1>2, <1>3

\* What the encoder makes is a message, in full or without its defaults.
LEMMA ProtoFacts ==
    ASSUME NEW enc \in Encoders, NEW msg \in Outgoing
    PROVE  /\ IsWakuMessage(toProtoObj(enc, msg))
           /\ IsWakuMessage(Short(toProtoObj(enc, msg)))
<1> DEFINE p == toProtoObj(enc, msg)
           bytes == Cipher(enc, msg.payload)
           ns == msg.timestamp * OneMillion
<1>1. p = [payload |-> <<bytes>>, version |-> <<Version(enc.kind)>>,
           contentTopic |-> <<enc.contentTopic>>, timestamp |-> <<ns>>,
           meta |-> enc.meta, rateLimitProof |-> msg.rateLimitProof,
           ephemeral |-> <<enc.ephemeral>>]
  BY DEF toProtoObj
<1> HIDE DEF bytes, ns
<1>2. /\ IsOne(<<bytes>>) /\ IsOne(<<enc.contentTopic>>)
      /\ IsOptional(<<Version(enc.kind)>>) /\ IsOptional(<<ns>>)
      /\ IsOptional(<<enc.ephemeral>>)
  BY AlwaysOne
<1>3. /\ IsOptional(enc.meta) /\ IsOptional(msg.rateLimitProof)
      /\ AllAre(msg.rateLimitProof, IsRateLimitProof)
  BY MessageAssumption
<1> HIDE DEF p
<1>4. /\ p.payload = <<bytes>> /\ p.version = <<Version(enc.kind)>>
      /\ p.contentTopic = <<enc.contentTopic>> /\ p.timestamp = <<ns>>
      /\ p.meta = enc.meta /\ p.rateLimitProof = msg.rateLimitProof
      /\ p.ephemeral = <<enc.ephemeral>>
      /\ p = [payload |-> p.payload, contentTopic |-> p.contentTopic,
              version |-> p.version, timestamp |-> p.timestamp, meta |-> p.meta,
              rateLimitProof |-> p.rateLimitProof, ephemeral |-> p.ephemeral]
  BY <1>1
<1>5. IsWakuMessage(p)
  BY <1>2, <1>3, <1>4 DEF IsWakuMessage
<1> DEFINE version == Unless(0, p.version)
           meta == Unless(EmptyBytes, p.meta)
           ephemeral == Unless(FALSE, p.ephemeral)
           s == Short(p)
<1>6. IsOptional(version) /\ IsOptional(meta) /\ IsOptional(ephemeral)
  <2>1. IsOptional(p.version) /\ IsOptional(p.meta) /\ IsOptional(p.ephemeral)
    BY <1>2, <1>3, <1>4
  <2> QED
    BY <2>1, UnlessFacts
<1>7. s = [p EXCEPT !.version = version, !.meta = meta, !.ephemeral = ephemeral]
  BY DEF Short
<1> HIDE DEF version, meta, ephemeral, s
<1>8. s = [payload |-> p.payload, contentTopic |-> p.contentTopic,
           version |-> version, timestamp |-> p.timestamp, meta |-> meta,
           rateLimitProof |-> p.rateLimitProof, ephemeral |-> ephemeral]
  BY <1>4, <1>7
<1>9. /\ s.payload = p.payload /\ s.contentTopic = p.contentTopic
      /\ s.version = version /\ s.timestamp = p.timestamp /\ s.meta = meta
      /\ s.rateLimitProof = p.rateLimitProof /\ s.ephemeral = ephemeral
  BY <1>8
<1>10. s = [payload |-> s.payload, contentTopic |-> s.contentTopic,
            version |-> s.version, timestamp |-> s.timestamp, meta |-> s.meta,
            rateLimitProof |-> s.rateLimitProof, ephemeral |-> s.ephemeral]
  BY <1>8, <1>9
<1>11. IsWakuMessage(s)
  BY <1>5, <1>6, <1>9, <1>10 DEF IsWakuMessage
<1> QED
  BY <1>5, <1>11 DEF p, s

\* What the two have in common.
LEMMA WrittenFacts ==
    ASSUME NEW enc \in Encoders, NEW msg \in Outgoing, NEW p \in Written(enc, msg)
    PROVE  /\ IsWakuMessage(p)
           /\ p.payload = <<Cipher(enc, msg.payload)>>
           /\ p.contentTopic = <<enc.contentTopic>>
           /\ p.timestamp = <<msg.timestamp * OneMillion>>
           /\ p.rateLimitProof = msg.rateLimitProof
           /\ OrElse(p.version, 0) = Version(enc.kind)
           /\ enc.kind # "plain" => p.version = <<1>>
           /\ enc.kind = "plain" => p.version # <<1>>
           /\ OrElse(p.ephemeral, FALSE) = enc.ephemeral
           /\ OrElse(p.meta, EmptyBytes) = OrElse(enc.meta, EmptyBytes)
           /\ Range(p.meta) \ {EmptyBytes} = Range(enc.meta) \ {EmptyBytes}
<1> DEFINE o == toProtoObj(enc, msg)
           s == Short(o)
           bytes == Cipher(enc, msg.payload)
           ns == msg.timestamp * OneMillion
<1>1. IsWakuMessage(p) /\ (p = o \/ p = s) /\ IsOptional(enc.meta)
  BY ProtoFacts, MessageAssumption DEF Written
<1>2. /\ o.payload = <<bytes>> /\ o.version = <<Version(enc.kind)>>
      /\ o.contentTopic = <<enc.contentTopic>> /\ o.timestamp = <<ns>>
      /\ o.meta = enc.meta /\ o.rateLimitProof = msg.rateLimitProof
      /\ o.ephemeral = <<enc.ephemeral>>
  BY DEF toProtoObj
<1>3. /\ s.payload = o.payload /\ s.version = Unless(0, o.version)
      /\ s.contentTopic = o.contentTopic /\ s.timestamp = o.timestamp
      /\ s.meta = Unless(EmptyBytes, o.meta)
      /\ s.rateLimitProof = o.rateLimitProof
      /\ s.ephemeral = Unless(FALSE, o.ephemeral)
  <2> DEFINE version == Unless(0, o.version)
             meta == Unless(EmptyBytes, o.meta)
             ephemeral == Unless(FALSE, o.ephemeral)
  <2>1. s = [o EXCEPT !.version = version, !.meta = meta, !.ephemeral = ephemeral]
    BY DEF Short
  <2>2. o = [payload |-> <<bytes>>, version |-> <<Version(enc.kind)>>,
             contentTopic |-> <<enc.contentTopic>>, timestamp |-> <<ns>>,
             meta |-> enc.meta, rateLimitProof |-> msg.rateLimitProof,
             ephemeral |-> <<enc.ephemeral>>]
    BY DEF toProtoObj
  <2> HIDE DEF version, meta, ephemeral, s, o, bytes, ns
  <2>3. /\ s.payload = o.payload /\ s.version = version
        /\ s.contentTopic = o.contentTopic /\ s.timestamp = o.timestamp
        /\ s.meta = meta /\ s.rateLimitProof = o.rateLimitProof
        /\ s.ephemeral = ephemeral
    BY <2>1, <2>2
  <2> QED
    BY <2>3 DEF version, meta, ephemeral
<1> HIDE DEF o, s, bytes, ns
<1>4. /\ p.payload = <<bytes>> /\ p.contentTopic = <<enc.contentTopic>>
      /\ p.timestamp = <<ns>> /\ p.rateLimitProof = msg.rateLimitProof
  BY <1>1, <1>2, <1>3
<1>5. Version(enc.kind) = (IF enc.kind = "plain" THEN 0 ELSE 1)
  BY DEF Version
<1>6. /\ OrElse(p.version, 0) = Version(enc.kind)
      /\ enc.kind # "plain" => p.version = <<1>>
      /\ enc.kind = "plain" => p.version # <<1>>
  <2>1. p.version = <<Version(enc.kind)>>
        \/ p.version = Unless(0, <<Version(enc.kind)>>)
    BY <1>1, <1>2, <1>3
  <2> QED
    BY <1>5, <2>1 DEF Unless, OrElse
<1>7. OrElse(p.ephemeral, FALSE) = enc.ephemeral
  <2>1. p.ephemeral = <<enc.ephemeral>>
        \/ p.ephemeral = Unless(FALSE, <<enc.ephemeral>>)
    BY <1>1, <1>2, <1>3
  <2>2. OrElse(<<enc.ephemeral>>, FALSE) = enc.ephemeral
    BY DEF OrElse
  <2>3. OrElse(Unless(FALSE, <<enc.ephemeral>>), FALSE)
          = OrElse(<<enc.ephemeral>>, FALSE)
    BY AlwaysOne, UnlessFacts
  <2> QED
    BY <2>1, <2>2, <2>3
<1>8. p.meta = enc.meta \/ p.meta = Unless(EmptyBytes, enc.meta)
  BY <1>1, <1>2, <1>3
<1>9. OrElse(p.meta, EmptyBytes) = OrElse(enc.meta, EmptyBytes)
  <2>1. OrElse(Unless(EmptyBytes, enc.meta), EmptyBytes)
          = OrElse(enc.meta, EmptyBytes)
    BY <1>1, UnlessFacts
  <2> QED
    BY <1>8, <2>1
<1>10. Range(p.meta) \ {EmptyBytes} = Range(enc.meta) \ {EmptyBytes}
  <2>1. CASE p.meta = enc.meta
    BY <2>1
  <2>2. CASE p.meta # enc.meta
    <3>1. p.meta = <<>> /\ enc.meta = <<EmptyBytes>>
      BY <1>8, <2>2 DEF Unless
    <3>2. Range(<<>>) = {} /\ Range(<<EmptyBytes>>) = {EmptyBytes}
      BY AlwaysOne, NothingIsAList
    <3> QED
      BY <3>1, <3>2
  <2> QED
    BY <2>1, <2>2
<1> QED
  BY <1>1, <1>4, <1>6, <1>7, <1>9, <1>10 DEF bytes, ns

\* However a node writes the message, what is read of it is one of the two.
LEMMA RewrittenRead ==
    ASSUME NEW enc \in Encoders, NEW msg \in Outgoing, NEW how \in Writings
    PROVE  /\ WakuMessage_decode(toWire(enc, msg)) = toProtoObj(enc, msg)
           /\ WakuMessage_decode(Rewritten(toWire(enc, msg), how))
                \in Written(enc, msg)
<1> DEFINE p == toProtoObj(enc, msg)
           w == WakuMessage_encode(p)
<1>1. IsWakuMessage(p) /\ IsWakuMessage(Short(p))
  BY ProtoFacts
<1>2. toWire(enc, msg) = w
  BY DEF toWire
<1> HIDE DEF p
<1>3. WakuMessage_decode(w) = p
  BY <1>1, WakuMessage_read DEF SameFields
<1>4. CASE how = "same"
  <2>1. Rewritten(w, how) = w
    BY <1>4 DEF Rewritten
  <2> QED
    BY <1>2, <1>3, <2>1 DEF Written, p
<1>5. CASE how = "reversed"
  <2>1. IsList(w)
    BY <1>1, WakuMessage_fields
  <2>2. ASSUME NEW no PROVE IsOptional(Values(w, no))
    <3>1. /\ Values(w, 1) = Said(EmptyBytes, p.payload)
          /\ Values(w, 2) = Said("", p.contentTopic)
          /\ Values(w, 3) = p.version
          /\ Values(w, 10) = p.timestamp
          /\ Values(w, 11) = p.meta
          /\ Values(w, 21) = Each(p.rateLimitProof, RateLimitProof_encode)
          /\ Values(w, 31) = p.ephemeral
          /\ \A n : n \notin {1, 2, 3, 10, 11, 21, 31} => Values(w, n) = <<>>
      BY <1>1, WakuMessage_fields
    <3>2. /\ IsOptional(p.version) /\ IsOptional(p.timestamp) /\ IsOptional(p.meta)
          /\ IsOptional(p.ephemeral) /\ IsOptional(p.rateLimitProof)
          /\ IsOptional(p.payload) /\ IsOptional(p.contentTopic)
      BY <1>1 DEF IsWakuMessage, IsOne, IsOptional
    <3>3. /\ IsOptional(Said(EmptyBytes, p.payload))
          /\ IsOptional(Said("", p.contentTopic)) /\ IsOptional(<<>>)
      BY <3>2, NothingIsAList DEF Said
    <3>4. IsOptional(Each(p.rateLimitProof, RateLimitProof_encode))
      <4> DEFINE v == p.rateLimitProof
                 each == Each(v, RateLimitProof_encode)
      <4>1. Len(v) \in Nat /\ DOMAIN v = 1 .. Len(v) /\ Len(v) <= 1
        BY <3>2, ListFacts DEF IsOptional
      <4>2. each = [i \in 1 .. Len(v) |-> RateLimitProof_encode(v[i])]
        BY <4>1 DEF Each
      <4>3. IsList(each) /\ Len(each) = Len(v)
        BY <4>1, <4>2, ListOf
      <4> QED
        BY <4>1, <4>3 DEF IsOptional
    <3> HIDE DEF w
    <3> QED
      BY <3>1, <3>2, <3>3, <3>4
  <2>3. SameFields(Reverse(w), w)
    BY <2>1, <2>2, ReversedFields
  <2>4. WakuMessage_decode(Reverse(w)) = p
    BY <1>1, <2>3, WakuMessage_read
  <2>5. Rewritten(w, how) = Reverse(w)
    BY <1>5 DEF Rewritten
  <2> QED
    BY <1>2, <1>3, <2>4, <2>5 DEF Written, p
<1>6. CASE how = "short"
  <2>1. Rewritten(w, how) = WakuMessage_encode(Short(p))
    BY <1>3, <1>6 DEF Rewritten
  <2>2. WakuMessage_decode(WakuMessage_encode(Short(p))) = Short(p)
    BY <1>1, WakuMessage_read DEF SameFields
  <2> QED
    BY <1>2, <1>3, <2>1, <2>2 DEF Written, p
<1> QED
  BY <1>2, <1>3, <1>4, <1>5, <1>6 DEF Writings, Written, p

\* What a decoded message names as its signer.
Signer(enc) == IF enc.kind = "plain" THEN <<>> ELSE enc.signer

\* A message of a size that was accepted has its payload size in its envelope.
LEMMA AcceptedFits ==
    ASSUME NEW enc \in Encoders, NEW msg \in Outgoing,
           isMessageSizeUnderCap(enc, msg), enc.kind # "plain"
    PROVE  DataSize(msg.payload) < 16777216
<1> DEFINE e == preCipher(msg.payload, enc.signer)
<1>1. /\ enc.kind = "ecies" \/ enc.kind = "symmetric"
      /\ IsOptional(enc.signer) /\ DataSize(msg.payload) \in Nat
      /\ FieldBytes \in Nat
  BY MessageAssumption
<1>2. EnvelopeSize(e) \in Int /\ EnvelopeSize(e) > DataSize(msg.payload)
  BY <1>1, EnvelopePadded
<1> HIDE DEF e
<1>3. CASE enc.kind = "ecies"
  <2>1. Cipher(enc, msg.payload) = <<"ecies", enc.key, e>>
    BY <1>3 DEF Cipher, encryptAsymmetric, e
  <2>2. ByteLength(<<"ecies", enc.key, e>>) = EnvelopeSize(e) + EciesOverhead
    BY DEF ByteLength, EmptyBytes
  <2>3. EnvelopeSize(e) + EciesOverhead + FieldBytes <= SizeCap
    BY <2>1, <2>2 DEF isMessageSizeUnderCap, WireSize
  <2> QED
    BY <1>1, <1>2, <2>3 DEF EciesOverhead, SizeCap
<1>4. CASE enc.kind = "symmetric"
  <2>1. Cipher(enc, msg.payload) = <<"symmetric", enc.key, e>>
    BY <1>4 DEF Cipher, encryptSymmetric, e
  <2>2. ByteLength(<<"symmetric", enc.key, e>>) = EnvelopeSize(e) + SymmetricOverhead
    BY DEF ByteLength, EmptyBytes
  <2>3. EnvelopeSize(e) + SymmetricOverhead + FieldBytes <= SizeCap
    BY <2>1, <2>2 DEF isMessageSizeUnderCap, WireSize
  <2> QED
    BY <1>1, <1>2, <2>3 DEF SymmetricOverhead, SizeCap
<1> QED
  BY <1>1, <1>3, <1>4

\* A decoder of the kind and with the key of the encoder makes the message of
\* what the encoder wrote, any other decoder makes nothing of it.
LEMMA DecoderReads ==
    ASSUME NEW enc \in Encoders, NEW msg \in Outgoing,
           isMessageSizeUnderCap(enc, msg),
           NEW p \in Written(enc, msg), NEW dec \in Decoders, NEW topic
    PROVE  fromProtoObj(dec, topic, p)
             = IF dec.kind = enc.kind /\ dec.key = enc.key
               THEN <<DecodedMessage(topic, p, msg.payload, Signer(enc))>>
               ELSE <<>>
<1> DEFINE bytes == p.payload[1]
           e == preCipher(msg.payload, enc.signer)
           plain == DecodedMessage(topic, p, bytes, <<>>)
           message == DecodedMessage(topic, p, msg.payload, Signer(enc))
<1>1. /\ enc.kind \in {"plain", "ecies", "symmetric"}
      /\ dec.kind \in {"plain", "ecies", "symmetric"}
      /\ enc.kind = "plain" => enc.key = "none"
      /\ dec.kind = "plain" => dec.key = "none"
  BY MessageAssumption
<1>2. /\ IsOptional(enc.signer) /\ DataSize(msg.payload) \in Nat
  BY MessageAssumption
<1>3. /\ bytes = Cipher(enc, msg.payload)
      /\ OrElse(p.version, 0) = Version(enc.kind)
      /\ enc.kind # "plain" => p.version = <<1>>
      /\ enc.kind = "plain" => p.version # <<1>>
  <2>1. /\ p.payload = <<Cipher(enc, msg.payload)>>
        /\ OrElse(p.version, 0) = Version(enc.kind)
        /\ enc.kind # "plain" => p.version = <<1>>
        /\ enc.kind = "plain" => p.version # <<1>>
    BY WrittenFacts
  <2>2. bytes = Cipher(enc, msg.payload)
    BY <2>1
  <2> QED
    BY <2>1, <2>2
<1>4. Version(enc.kind) = (IF enc.kind = "plain" THEN 0 ELSE 1)
  BY DEF Version
<1>5. enc.kind = "ecies" => bytes = <<"ecies", enc.key, e>>
  BY <1>3 DEF Cipher, encryptAsymmetric
<1>6. enc.kind = "symmetric" => bytes = <<"symmetric", enc.key, e>>
  BY <1>3 DEF Cipher, encryptSymmetric
<1>7. enc.kind # "plain" =>
        postCipher(e)
          = << [payload |-> msg.payload, signaturePublicKey |-> enc.signer] >>
  BY <1>2, AcceptedFits, EnvelopeOpened
<1>8. CASE dec.kind = "plain"
  <2>1. fromProtoObj(dec, topic, p)
          = IF OrElse(p.version, 0) # 0 THEN <<>> ELSE <<plain>>
    BY <1>8 DEF fromProtoObj, fromProtoObjV0
  <2>2. enc.kind = "plain" => bytes = msg.payload
    BY <1>3 DEF Cipher
  <2>3. enc.kind = "plain" => plain = message
    BY <2>2 DEF Signer
  <2> HIDE DEF plain, message
  <2>4. fromProtoObj(dec, topic, p)
          = IF dec.kind = enc.kind /\ dec.key = enc.key THEN <<message>> ELSE <<>>
    BY <1>1, <1>3, <1>4, <1>8, <2>1, <2>3
  <2> QED
    BY <2>4 DEF message
<1>9. CASE dec.kind = "ecies"
  <2> DEFINE clear == OpenedWith("ecies", bytes, dec.key)
  <2>1. fromProtoObj(dec, topic, p) = fromProtoObjV1(topic, p, clear)
    BY <1>9 DEF fromProtoObj, decryptAsymmetric
  <2>2. enc.kind = "ecies" =>
          clear = IF dec.key = enc.key THEN <<e>> ELSE <<>>
    BY <1>5 DEF OpenedWith, EmptyBytes
  <2>3. enc.kind = "symmetric" => clear = <<>>
    BY <1>6 DEF OpenedWith, EmptyBytes
  <2> HIDE DEF clear, bytes, e
  <2>4. fromProtoObjV1(topic, p, clear)
          = LET res == IF clear = <<>> THEN <<>> ELSE postCipher(clear[1])
            IN  IF p.version # <<1>> \/ res = <<>> THEN <<>>
                ELSE <<DecodedMessage(topic, p, res[1].payload,
                                      res[1].signaturePublicKey)>>
    BY DEF fromProtoObjV1
  <2>5. CASE enc.kind = "plain"
    BY <1>3, <1>9, <2>1, <2>4, <2>5
  <2>6. CASE enc.kind = "symmetric"
    BY <1>9, <2>1, <2>3, <2>4, <2>6
  <2>7. CASE enc.kind = "ecies" /\ dec.key # enc.key
    BY <2>1, <2>2, <2>4, <2>7
  <2>8. CASE enc.kind = "ecies" /\ dec.key = enc.key
    <3>0. clear = <<e>>
      BY <2>2, <2>8
    <3>1. clear # <<>> /\ clear[1] = e
      BY <3>0
    <3>2. PICK res : res = postCipher(e)
      OBVIOUS
    <3>a. enc.kind # "plain"
      BY <2>8
    <3>b. res = << [payload |-> msg.payload, signaturePublicKey |-> enc.signer] >>
      BY <1>7, <3>2, <3>a
    <3>3. /\ res # <<>> /\ res[1].payload = msg.payload
          /\ res[1].signaturePublicKey = enc.signer
      BY <3>b
    <3>4. p.version = <<1>> /\ Signer(enc) = enc.signer
      BY <1>3, <2>8 DEF Signer
    <3>5. fromProtoObjV1(topic, p, clear)
            = <<DecodedMessage(topic, p, res[1].payload, res[1].signaturePublicKey)>>
      BY <2>4, <3>1, <3>2, <3>3, <3>4
    <3> QED
      BY <1>9, <2>1, <2>8, <3>3, <3>4, <3>5
  <2> QED
    BY <1>1, <2>5, <2>6, <2>7, <2>8
<1>10. CASE dec.kind = "symmetric"
  <2> DEFINE clear == OpenedWith("symmetric", bytes, dec.key)
  <2>1. fromProtoObj(dec, topic, p) = fromProtoObjV1(topic, p, clear)
    BY <1>10 DEF fromProtoObj, decryptSymmetric
  <2>2. enc.kind = "symmetric" =>
          clear = IF dec.key = enc.key THEN <<e>> ELSE <<>>
    BY <1>6 DEF OpenedWith, EmptyBytes
  <2>3. enc.kind = "ecies" => clear = <<>>
    BY <1>5 DEF OpenedWith, EmptyBytes
  <2> HIDE DEF clear, bytes, e
  <2>4. fromProtoObjV1(topic, p, clear)
          = LET res == IF clear = <<>> THEN <<>> ELSE postCipher(clear[1])
            IN  IF p.version # <<1>> \/ res = <<>> THEN <<>>
                ELSE <<DecodedMessage(topic, p, res[1].payload,
                                      res[1].signaturePublicKey)>>
    BY DEF fromProtoObjV1
  <2>5. CASE enc.kind = "plain"
    BY <1>3, <1>10, <2>1, <2>4, <2>5
  <2>6. CASE enc.kind = "ecies"
    BY <1>10, <2>1, <2>3, <2>4, <2>6
  <2>7. CASE enc.kind = "symmetric" /\ dec.key # enc.key
    BY <2>1, <2>2, <2>4, <2>7
  <2>8. CASE enc.kind = "symmetric" /\ dec.key = enc.key
    <3>0. clear = <<e>>
      BY <2>2, <2>8
    <3>1. clear # <<>> /\ clear[1] = e
      BY <3>0
    <3>2. PICK res : res = postCipher(e)
      OBVIOUS
    <3>a. enc.kind # "plain"
      BY <2>8
    <3>b. res = << [payload |-> msg.payload, signaturePublicKey |-> enc.signer] >>
      BY <1>7, <3>2, <3>a
    <3>3. /\ res # <<>> /\ res[1].payload = msg.payload
          /\ res[1].signaturePublicKey = enc.signer
      BY <3>b
    <3>4. p.version = <<1>> /\ Signer(enc) = enc.signer
      BY <1>3, <2>8 DEF Signer
    <3>5. fromProtoObjV1(topic, p, clear)
            = <<DecodedMessage(topic, p, res[1].payload, res[1].signaturePublicKey)>>
      BY <2>4, <3>1, <3>2, <3>3, <3>4
    <3> QED
      BY <1>10, <2>1, <2>8, <3>3, <3>4, <3>5
  <2> QED
    BY <1>1, <2>5, <2>6, <2>7, <2>8
<1> QED
  BY <1>1, <1>8, <1>9, <1>10

\* A reading of the message: by a decoder of its encoder's kind and key, of
\* one of the two things written.
Faithful(enc, msg, r) ==
    /\ r.decoder.kind = enc.kind /\ r.decoder.key = enc.key
    /\ \E p \in Written(enc, msg) :
          r.message = DecodedMessage(enc.pubsubTopic, p, msg.payload, Signer(enc))

\* Every reading of it is one, and the receiver has the decoder.
LEMMA AllReadingsFaithful ==
    ASSUME NEW enc \in Encoders, NEW msg \in Outgoing,
           isMessageSizeUnderCap(enc, msg), enc.pubsubTopic \in SenderTopics,
           NEW p \in Written(enc, msg)
    PROVE  /\ Readings(enc.pubsubTopic, p) # {}
           /\ \A r \in Readings(enc.pubsubTopic, p) : Faithful(enc, msg, r)
<1> DEFINE topic == enc.pubsubTopic
           message == DecodedMessage(topic, p, msg.payload, Signer(enc))
           Read(d) == {[decoder |-> d, message |-> m] :
                         m \in Range(fromProtoObj(d, topic, p))}
           asked == Asked(topic, p.contentTopic[1])
<1>1. Readings(topic, p) = UNION {Read(d) : d \in asked}
  BY DEF Readings
<1>2. asked = {d \in Decoders :
                 d.pubsubTopic = topic /\ d.contentTopic = enc.contentTopic}
  <2>0. p.contentTopic = <<enc.contentTopic>>
    BY WrittenFacts
  <2>1. p.contentTopic[1] = enc.contentTopic
    BY <2>0
  <2> QED
    BY <2>1 DEF Asked
<1>3. ASSUME NEW d \in asked
      PROVE  Read(d) = IF d.kind = enc.kind /\ d.key = enc.key
                       THEN {[decoder |-> d, message |-> message]} ELSE {}
  <2>1. d \in Decoders
    BY <1>2
  <2>2. fromProtoObj(d, topic, p) = IF d.kind = enc.kind /\ d.key = enc.key
                                    THEN <<message>> ELSE <<>>
    BY <2>1, DecoderReads
  <2> HIDE DEF message
  <2>3. Range(<<message>>) = {message} /\ Range(<<>>) = {}
    BY AlwaysOne, NothingIsAList
  <2>4. CASE d.kind = enc.kind /\ d.key = enc.key
    <3>1. Range(fromProtoObj(d, topic, p)) = {message}
      BY <2>2, <2>3, <2>4
    <3> QED
      BY <2>4, <3>1
  <2>5. CASE ~(d.kind = enc.kind /\ d.key = enc.key)
    <3>1. Range(fromProtoObj(d, topic, p)) = {}
      BY <2>2, <2>3, <2>5
    <3> QED
      BY <2>5, <3>1
  <2> QED
    BY <2>4, <2>5 DEF message
<1> HIDE DEF Read, asked
<1>4. PICK d \in asked : d.kind = enc.kind /\ d.key = enc.key
  BY <1>2, MessageAssumption
<1>5. [decoder |-> d, message |-> message] \in Readings(topic, p)
  <2> HIDE DEF message
  <2>1. [decoder |-> d, message |-> message] \in Read(d)
    BY <1>3, <1>4 DEF message
  <2> QED
    BY <1>1, <2>1
<1>6. ASSUME NEW r \in Readings(topic, p) PROVE Faithful(enc, msg, r)
  <2>1. PICK c \in asked : r \in Read(c)
    BY <1>1
  <2>2. c.kind = enc.kind /\ c.key = enc.key
        /\ r = [decoder |-> c, message |-> message]
    <3> HIDE DEF message
    <3> QED
      BY <1>3, <2>1 DEF message
  <2>3. r.decoder = c /\ r.message = message
    BY <2>2
  <2> QED
    BY <2>2, <2>3 DEF Faithful
<1> QED
  BY <1>5, <1>6

\* The fields of the wires other programs write.
LEMMA OneEntry ==
    ASSUME NEW no, NEW a
    PROVE  Entries(no, <<a>>) = << <<no, a>> >> /\ IsList(<<a>>)
<1>1. Entries(no, <<a>>) = [i \in DOMAIN <<a>> |-> <<no, <<a>>[i]>>]
  BY DEF Entries
<1>2. DOMAIN <<a>> = 1 .. 1 /\ <<a>>[1] = a
  OBVIOUS
<1>3. Entries(no, <<a>>) = [i \in 1 .. 1 |-> <<no, a>>]
  BY <1>1, <1>2
<1> QED
  BY <1>3, AlwaysOne

\* A wire with two fields.
LEMMA TwoFields ==
    ASSUME NEW n1, NEW a, NEW n2, NEW b, n1 # n2
    PROVE  LET w == << <<n1, a>>, <<n2, b>> >>
           IN  /\ IsList(w) /\ Values(w, n1) = <<a>> /\ Values(w, n2) = <<b>>
               /\ \A n : n # n1 /\ n # n2 => Values(w, n) = <<>>
<1> DEFINE f == Entries(n1, <<a>>)
           g == Entries(n2, <<b>>)
<1>1. f = << <<n1, a>> >> /\ g = << <<n2, b>> >> /\ IsList(<<a>>) /\ IsList(<<b>>)
  BY OneEntry
<1>2. << <<n1, a>>, <<n2, b>> >> = f \o g
  BY <1>1
<1>3. IsList(f) /\ \A n : Values(f, n) = IF n = n1 THEN <<a>> ELSE <<>>
  BY <1>1, FirstField
<1> HIDE DEF f
<1>4. Values(f, n2) = <<>>
  BY <1>3
<1>5. /\ IsList(f \o g)
      /\ \A n : Values(f \o g, n) = IF n = n2 THEN <<b>> ELSE Values(f, n)
  BY <1>1, <1>3, <1>4, FieldAdded
<1> QED
  BY <1>2, <1>3, <1>5

\* A wire with three fields.
LEMMA ThreeFields ==
    ASSUME NEW n1, NEW a, NEW n2, NEW b, NEW n3, NEW c, n1 # n2, n1 # n3, n2 # n3
    PROVE  LET w == << <<n1, a>>, <<n2, b>>, <<n3, c>> >>
           IN  /\ Values(w, n1) = <<a>> /\ Values(w, n2) = <<b>>
               /\ Values(w, n3) = <<c>>
<1> DEFINE f == << <<n1, a>>, <<n2, b>> >>
           g == Entries(n3, <<c>>)
<1>1. g = << <<n3, c>> >> /\ IsList(<<c>>)
  BY OneEntry
<1>2. << <<n1, a>>, <<n2, b>>, <<n3, c>> >> = f \o g
  BY <1>1
<1>3. /\ IsList(f) /\ Values(f, n1) = <<a>> /\ Values(f, n2) = <<b>>
      /\ Values(f, n3) = <<>>
  BY TwoFields
<1> HIDE DEF f
<1>4. \A n : Values(f \o g, n) = IF n = n3 THEN <<c>> ELSE Values(f, n)
  BY <1>1, <1>3, FieldAdded
<1> QED
  BY <1>2, <1>3, <1>4

\* A field that has a value.
LEMMA ValueRead ==
    ASSUME NEW w, NEW no, NEW a, Values(w, no) = <<a>>
    PROVE  /\ ReadOptional(w, no) = <<a>> /\ ReadRepeated(w, no) = <<a>>
           /\ \A d : ReadImplicit(w, no, d) = <<a>>
<1>1. Last(<<a>>) = a
  BY DEF Last
<1> QED
  BY <1>1 DEF ReadOptional, ReadRepeated, ReadImplicit

\* A push of a filter service node.
LEMMA PushRead ==
    ASSUME NEW bytes, NEW topic
    PROVE  LET push == MessagePush_decode(<< <<1, bytes>>, <<2, topic>> >>)
           IN  push.pubsubTopic[1] = topic
               /\ push.wakuMessage[1] = WakuMessage_decode(bytes)
<1> DEFINE w == << <<1, bytes>>, <<2, topic>> >>
           push == MessagePush_decode(w)
           each == Each(<<bytes>>, WakuMessage_decode)
<1>1. Values(w, 1) = <<bytes>> /\ Values(w, 2) = <<topic>>
  BY TwoFields
<1> HIDE DEF w
<1>2. ReadOptional(w, 1) = <<bytes>> /\ ReadOptional(w, 2) = <<topic>>
  BY <1>1, ValueRead
<1>3. push.pubsubTopic = <<topic>> /\ push.wakuMessage = each
  BY <1>2 DEF MessagePush_decode
<1>4. each[1] = WakuMessage_decode(bytes)
  BY DEF Each
<1> HIDE DEF push, each
<1>5. push.pubsubTopic[1] = topic /\ push.wakuMessage[1] = WakuMessage_decode(bytes)
  BY <1>3, <1>4
<1> QED
  BY <1>5 DEF push, w

\* The page of a store, with one message.
PageOf(bytes, topic) ==
    << <<1, "id">>, <<10, 200>>,
       <<20, << <<1, <<"hash">>>>, <<2, bytes>>, <<3, topic>> >> >> >>

\* The page of a store, with one message.
LEMMA PageRead ==
    ASSUME NEW bytes, NEW topic
    PROVE  LET kv == StoreQueryResponse_decode(PageOf(bytes, topic)).messages[1]
           IN  kv.pubsubTopic = <<topic>> /\ kv.message[1] = WakuMessage_decode(bytes)
<1> DEFINE v == << <<1, <<"hash">>>>, <<2, bytes>>, <<3, topic>> >>
           w == << <<1, "id">>, <<10, 200>>, <<20, v>> >>
           listed == StoreQueryResponse_decode(w)
           kv == WakuMessageKeyValue_decode(v)
<1>1. Values(v, 2) = <<bytes>> /\ Values(v, 3) = <<topic>>
  <2>1. PICK h : h = <<"hash">>
    OBVIOUS
  <2> QED
    BY <2>1, ThreeFields
<1> HIDE DEF v
<1>2. Values(w, 20) = <<v>>
  <2>1. PICK id : id = "id"
    OBVIOUS
  <2> QED
    BY <2>1, ThreeFields
<1> HIDE DEF w
<1>3. ReadOptional(v, 2) = <<bytes>> /\ ReadOptional(v, 3) = <<topic>>
  BY <1>1, ValueRead
<1>4. ReadRepeated(w, 20) = <<v>>
  BY <1>2, ValueRead
<1>5. kv.pubsubTopic = <<topic>> /\ kv.message = Each(<<bytes>>, WakuMessage_decode)
  BY <1>3 DEF WakuMessageKeyValue_decode
<1>6. Each(<<bytes>>, WakuMessage_decode)[1] = WakuMessage_decode(bytes)
  BY DEF Each
<1>7. listed.messages = Each(<<v>>, WakuMessageKeyValue_decode)
  BY <1>4 DEF StoreQueryResponse_decode
<1> HIDE DEF listed
<1>8. listed.messages[1] = kv
  BY <1>7 DEF Each
<1> HIDE DEF kv
<1>9. /\ listed.messages[1].pubsubTopic = <<topic>>
      /\ listed.messages[1].message[1] = WakuMessage_decode(bytes)
  BY <1>5, <1>6, <1>8
<1>10. listed = StoreQueryResponse_decode(PageOf(bytes, topic))
  BY DEF listed, w, v, PageOf
<1> QED
  BY <1>9, <1>10

\* A light push request.
LEMMA PushRequestAsked ==
    ASSUME NEW enc \in Encoders, NEW msg \in Outgoing
    PROVE  LET p == toProtoObj(enc, msg)
               rpc == PushRpc_encode(createPushRequest(p, enc.pubsubTopic))
               asked == PushRpc_decode(rpc).request[1]
           IN  /\ asked.pubsubTopic[1] = enc.pubsubTopic /\ asked.message[1] = p
               /\ rpc # <<>>
<1> DEFINE p == toProtoObj(enc, msg)
           one == [message |-> <<p>>, pubsubTopic |-> <<enc.pubsubTopic>>]
           id == <<"id">>
           obj == [requestId |-> id, request |-> <<one>>, response |-> <<>>]
           rpc == PushRpc_encode(obj)
<1>1. IsWakuMessage(p)
  BY ProtoFacts
<1> HIDE DEF p
<1>2. one.message = <<p>> /\ one.pubsubTopic = <<enc.pubsubTopic>>
      /\ one = [pubsubTopic |-> one.pubsubTopic, message |-> one.message]
  OBVIOUS
<1> HIDE DEF one
<1>3. IsPushRequest(one)
  <2>1. /\ IsOne(<<enc.pubsubTopic>>) /\ IsOptional(<<p>>)
    BY AlwaysOne
  <2>2. AllAre(<<p>>, IsWakuMessage)
    BY <1>1 DEF AllAre
  <2> QED
    BY <1>2, <2>1, <2>2 DEF IsPushRequest
<1> HIDE DEF id
<1>4. obj.requestId = id /\ obj.request = <<one>> /\ obj.response = <<>>
      /\ obj = [requestId |-> obj.requestId, request |-> obj.request,
                response |-> obj.response]
  OBVIOUS
<1> HIDE DEF obj
<1>5. IsPushRpc(obj)
  <2>1. IsOne(id)
    BY AlwaysOne DEF id
  <2>2. IsOptional(<<one>>) /\ IsOptional(<<>>)
    BY AlwaysOne, NothingIsAList
  <2>3. AllAre(<<one>>, IsPushRequest) /\ AllAre(<<>>, IsPushResponse)
    BY <1>3 DEF AllAre
  <2> QED
    BY <1>4, <2>1, <2>2, <2>3 DEF IsPushRpc
<1>6. PushRpc_decode(rpc) = obj
  BY <1>5, PushRpc_read DEF SameFields
<1>7. rpc # <<>>
  <2>1. Values(rpc, 2) = Each(<<one>>, PushRequest_encode)
    BY <1>4, <1>5, PushRpc_fields
  <2>2. Each(<<one>>, PushRequest_encode) # <<>>
    BY DEF Each
  <2>3. Values(<<>>, 2) = <<>>
    BY EmptyWire
  <2> QED
    BY <2>1, <2>2, <2>3
<1>8. createPushRequest(p, enc.pubsubTopic) = obj
  BY DEF createPushRequest, obj, one, id
<1> HIDE DEF rpc
<1>9. PushRpc_decode(rpc).request[1] = one
  BY <1>4, <1>6
<1>10. one.pubsubTopic[1] = enc.pubsubTopic /\ one.message[1] = p
  BY <1>2
<1>11. rpc = PushRpc_encode(createPushRequest(p, enc.pubsubTopic))
  BY <1>8 DEF rpc
<1> QED
  BY <1>7, <1>9, <1>10, <1>11 DEF p

\* The two things written have the same hash.
LEMMA WrittenHash ==
    ASSUME NEW enc \in Encoders, NEW msg \in Outgoing, NEW p \in Written(enc, msg),
           NEW topic
    PROVE  messageHash(topic, p)
             = HashOf(topic, enc.contentTopic, Cipher(enc, msg.payload), enc.meta,
                      <<msg.timestamp * OneMillion>>)
<1> DEFINE bytes == Cipher(enc, msg.payload)
           ns == <<msg.timestamp * OneMillion>>
<1>1. /\ p.payload = <<bytes>> /\ p.contentTopic = <<enc.contentTopic>>
      /\ p.timestamp = ns
      /\ OrElse(p.meta, EmptyBytes) = OrElse(enc.meta, EmptyBytes)
  BY WrittenFacts
<1> HIDE DEF bytes, ns
<1>2. p.payload[1] = bytes /\ p.contentTopic[1] = enc.contentTopic
  BY <1>1
<1>3. messageHash(topic, p) = HashOf(topic, enc.contentTopic, bytes, p.meta, ns)
  BY <1>1, <1>2 DEF messageHash
<1>4. HashOf(topic, enc.contentTopic, bytes, p.meta, ns)
        = HashOf(topic, enc.contentTopic, bytes, enc.meta, ns)
  BY <1>1, Zenon DEF HashOf
<1> QED
  BY <1>3, <1>4 DEF bytes, ns

\* What the encoder wrote is one of the ways to write it.
LEMMA OriginalIsWritten ==
    ASSUME NEW enc, NEW msg
    PROVE  toProtoObj(enc, msg) \in Written(enc, msg)
BY DEF Written

\* What is shown of a message that was sent.
Shows(enc, msg, m) ==
    /\ m.payload = msg.payload
    /\ m.pubsubTopic = enc.pubsubTopic
    /\ m.contentTopic = enc.contentTopic
    /\ m.timestamp = IF msg.timestamp = 0 THEN <<>> ELSE <<msg.timestamp>>
    /\ OrElse(m.meta, EmptyBytes) = OrElse(enc.meta, EmptyBytes)
    /\ Range(m.meta) \ {EmptyBytes} = Range(enc.meta) \ {EmptyBytes}
    /\ m.rateLimitProof = msg.rateLimitProof
    /\ m.ephemeral = enc.ephemeral
    /\ m.signaturePublicKey = Signer(enc)

\* A faithful reading shows what was sent.
LEMMA FaithfulShows ==
    ASSUME NEW enc \in Encoders, NEW msg \in Outgoing, NEW r, Faithful(enc, msg, r)
    PROVE  Shows(enc, msg, r.message)
<1> DEFINE m == r.message
           t == msg.timestamp
<1>1. PICK p \in Written(enc, msg) :
        m = DecodedMessage(enc.pubsubTopic, p, msg.payload, Signer(enc))
  BY DEF Faithful
<1>2. /\ p.contentTopic = <<enc.contentTopic>>
      /\ p.timestamp = <<t * OneMillion>>
      /\ p.rateLimitProof = msg.rateLimitProof
      /\ OrElse(p.ephemeral, FALSE) = enc.ephemeral
      /\ OrElse(p.meta, EmptyBytes) = OrElse(enc.meta, EmptyBytes)
      /\ Range(p.meta) \ {EmptyBytes} = Range(enc.meta) \ {EmptyBytes}
  BY WrittenFacts
<1> DEFINE date == IF OrElse(p.timestamp, 0) = 0 THEN <<>>
                   ELSE <<p.timestamp[1] \div OneMillion>>
           eph == OrElse(p.ephemeral, FALSE)
<1>3. m = [pubsubTopic |-> enc.pubsubTopic, contentTopic |-> p.contentTopic[1],
           payload |-> msg.payload, timestamp |-> date, meta |-> p.meta,
           version |-> OrElse(p.version, 0), rateLimitProof |-> p.rateLimitProof,
           ephemeral |-> eph, signaturePublicKey |-> Signer(enc)]
  BY <1>1 DEF DecodedMessage
<1>4. date = IF t = 0 THEN <<>> ELSE <<t>>
  <2>1. t \in Nat
    BY MessageAssumption
  <2>2. OrElse(p.timestamp, 0) = t * OneMillion /\ p.timestamp[1] = t * OneMillion
    BY <1>2 DEF OrElse
  <2>3. (t * OneMillion = 0) <=> (t = 0)
    BY <2>1 DEF OneMillion
  <2>4. (t * OneMillion) \div OneMillion = t
    BY <2>1 DEF OneMillion
  <2> QED
    BY <2>2, <2>3, <2>4
<1> HIDE DEF date, eph, m
<1>5. /\ m.payload = msg.payload /\ m.pubsubTopic = enc.pubsubTopic
      /\ m.contentTopic = p.contentTopic[1] /\ m.timestamp = date
      /\ m.meta = p.meta /\ m.rateLimitProof = p.rateLimitProof
      /\ m.ephemeral = eph /\ m.signaturePublicKey = Signer(enc)
  BY <1>3
<1>6. p.contentTopic[1] = enc.contentTopic
  BY <1>2
<1>7. eph = enc.ephemeral
  BY <1>2 DEF eph
<1>8. m.timestamp = IF msg.timestamp = 0 THEN <<>> ELSE <<msg.timestamp>>
  BY <1>4, <1>5
<1>9. Shows(enc, msg, m)
  BY <1>2, <1>5, <1>6, <1>7, <1>8 DEF Shows
<1> QED
  BY <1>9 DEF m

\* The hash of a plain message that was read is the hash of what was sent.
LEMMA CursorFaithful ==
    ASSUME NEW enc \in Encoders, NEW msg \in Outgoing, NEW r, Faithful(enc, msg, r),
           enc.kind = "plain"
    PROVE  decodedMessageHash(r.message)
             = messageHash(enc.pubsubTopic, toProtoObj(enc, msg))
<1> DEFINE m == r.message
           t == msg.timestamp
           ns == t * OneMillion
           date == IF m.timestamp = <<>>
                   THEN <<>> ELSE <<m.timestamp[1] * OneMillion>>
<1>1. /\ m.payload = msg.payload /\ m.pubsubTopic = enc.pubsubTopic
      /\ m.contentTopic = enc.contentTopic
      /\ m.timestamp = IF t = 0 THEN <<>> ELSE <<t>>
      /\ OrElse(m.meta, EmptyBytes) = OrElse(enc.meta, EmptyBytes)
  <2>1. Shows(enc, msg, m)
    BY FaithfulShows
  <2> HIDE DEF m
  <2> QED
    BY <2>1 DEF Shows
<1>2. Cipher(enc, msg.payload) = msg.payload
  BY DEF Cipher
<1>3. t \in Nat
  BY MessageAssumption
<1>4. date = IF t = 0 THEN <<>> ELSE <<ns>>
  BY <1>1, <1>3
<1>5. ns = 0 <=> t = 0
  BY <1>3 DEF OneMillion
<1>6. messageHash(enc.pubsubTopic, toProtoObj(enc, msg))
        = HashOf(enc.pubsubTopic, enc.contentTopic, msg.payload, enc.meta, <<ns>>)
  BY <1>2, OriginalIsWritten, WrittenHash
<1>7. decodedMessageHash(m)
        = HashOf(enc.pubsubTopic, enc.contentTopic, msg.payload, m.meta, date)
  <2>1. decodedMessageHash(m)
          = HashOf(m.pubsubTopic, m.contentTopic, m.payload, m.meta, date)
    BY DEF decodedMessageHash
  <2> HIDE DEF m, date
  <2> QED
    BY <1>1, <2>1
<1> HIDE DEF m, date, ns
<1>8. (OrElse(date, 0) = 0) <=> (OrElse(<<ns>>, 0) = 0)
  BY <1>4, <1>5 DEF OrElse
<1>9. OrElse(date, 0) # 0 => date = <<ns>>
  BY <1>4 DEF OrElse
<1>10. HashOf(enc.pubsubTopic, enc.contentTopic, msg.payload, m.meta, date)
         = HashOf(enc.pubsubTopic, enc.contentTopic, msg.payload, enc.meta, <<ns>>)
  <2> DEFINE start == << <<"text", enc.pubsubTopic>> >> \o Piece(msg.payload)
                      \o << <<"text", enc.contentTopic>> >>
             End(ts) == IF OrElse(ts, 0) = 0 THEN <<>> ELSE << <<"number", ts[1]>> >>
  <2>1. HashOf(enc.pubsubTopic, enc.contentTopic, msg.payload, m.meta, date)
          = start \o Piece(OrElse(m.meta, EmptyBytes)) \o End(date)
    BY Zenon DEF HashOf
  <2>2. HashOf(enc.pubsubTopic, enc.contentTopic, msg.payload, enc.meta, <<ns>>)
          = start \o Piece(OrElse(enc.meta, EmptyBytes)) \o End(<<ns>>)
    BY Zenon DEF HashOf
  <2>3. End(date) = End(<<ns>>)
    BY <1>8, <1>9, Zenon
  <2> HIDE DEF start, End
  <2> QED
    BY <1>1, <2>1, <2>2, <2>3, Zenon DEF m
<1> QED
  BY <1>6, <1>7, <1>10 DEF m

\* The bytes that are published fit, and tell little of the payload's size.
LEMMA PublishedBytes ==
    ASSUME NEW enc \in Encoders, NEW msg \in Outgoing
    PROVE  LET bytes == WakuMessage_decode(toWire(enc, msg)).payload[1]
           IN  /\ bytes = Cipher(enc, msg.payload)
               /\ enc.kind # "plain" => /\ EnvelopeSize(bytes[3]) % PaddingTarget = 0
                                        /\ bytes[3].padding > 0
<1> DEFINE e == preCipher(msg.payload, enc.signer)
           bytes == Cipher(enc, msg.payload)
<1>1. WakuMessage_decode(toWire(enc, msg)) = toProtoObj(enc, msg)
  <2>1. "same" \in Writings
    BY DEF Writings
  <2> QED
    BY <2>1, RewrittenRead
<1>2. toProtoObj(enc, msg).payload[1] = bytes
  BY DEF toProtoObj
<1>3. WakuMessage_decode(toWire(enc, msg)).payload[1] = bytes
  BY <1>1, <1>2
<1>4. /\ enc.kind \in {"plain", "ecies", "symmetric"}
      /\ IsOptional(enc.signer) /\ DataSize(msg.payload) \in Nat
  BY MessageAssumption
<1>5. EnvelopeSize(e) % PaddingTarget = 0 /\ e.padding > 0
  BY <1>4, EnvelopePadded
<1>6. enc.kind # "plain" => bytes[3] = e
  <2>1. enc.kind = "ecies" => bytes = <<"ecies", enc.key, e>>
    BY DEF Cipher, encryptAsymmetric
  <2>2. enc.kind = "symmetric" => bytes = <<"symmetric", enc.key, e>>
    BY DEF Cipher, encryptSymmetric
  <2> HIDE DEF bytes, e
  <2> QED
    BY <1>4, <2>1, <2>2
<1> HIDE DEF e
<1>7. enc.kind # "plain"
        => EnvelopeSize(bytes[3]) % PaddingTarget = 0 /\ bytes[3].padding > 0
  BY <1>5, <1>6
<1> QED
  BY <1>3, <1>7

\* Relay fills in the flag that may be missing, the store every field: neither
\* changes the message.
LEMMA RelayProto ==
    ASSUME NEW enc \in Encoders, NEW msg \in Outgoing
    PROVE  LET p == toProtoObj(enc, msg)
           IN  [p EXCEPT !.ephemeral = <<OrElse(p.ephemeral, FALSE)>>] = p
<1> DEFINE p == toProtoObj(enc, msg)
<1>1. <<OrElse(p.ephemeral, FALSE)>> = p.ephemeral
  <2>1. OrElse(<<enc.ephemeral>>, FALSE) = enc.ephemeral
    BY DEF OrElse
  <2>2. p.ephemeral = <<enc.ephemeral>>
    BY DEF toProtoObj
  <2> QED
    BY <2>1, <2>2
<1>2. p = [payload |-> p.payload, contentTopic |-> p.contentTopic,
           version |-> p.version, timestamp |-> p.timestamp, meta |-> p.meta,
           rateLimitProof |-> p.rateLimitProof, ephemeral |-> p.ephemeral]
  BY ProtoFacts DEF IsWakuMessage
<1> HIDE DEF p
<1>3. PICK one : one = <<OrElse(p.ephemeral, FALSE)>>
  OBVIOUS
<1>4. [p EXCEPT !.ephemeral = one] = p
  BY <1>1, <1>2, <1>3
<1> QED
  BY <1>3, <1>4 DEF p

\* The message of a page, as the store path reads it.
LEMMA StoreProto ==
    ASSUME NEW enc \in Encoders, NEW msg \in Outgoing, NEW p \in Written(enc, msg)
    PROVE  toProtoMessage(p) = p
<1>1. p = [payload |-> p.payload, contentTopic |-> p.contentTopic,
           version |-> p.version, timestamp |-> p.timestamp, meta |-> p.meta,
           rateLimitProof |-> p.rateLimitProof, ephemeral |-> p.ephemeral]
  BY WrittenFacts DEF IsWakuMessage
<1>2. DOMAIN p = DOMAIN EmptyMessage
  BY <1>1 DEF EmptyMessage
<1>3. toProtoMessage(p) = [x \in DOMAIN p |-> p[x]]
  BY <1>2 DEF toProtoMessage
<1>4. p = [x \in DOMAIN p |-> p[x]]
  BY <1>1
<1> QED
  BY <1>3, <1>4

\* What is under way and what was handed out: the light push request is that
\* of the message; what is published is the message, and it was accepted; the
\* page of a store holds it, rewritten; the reliability monitor knows its hash
\* from the first push on; all that reached a callback is a faithful reading.
TheMessage == toProtoObj(encoder, outgoing)
MayBeSent ==
    encoder.pubsubTopic \in SenderTopics /\ isMessageSizeUnderCap(encoder, outgoing)
TheHash == messageHash(encoder.pubsubTopic, TheMessage)
FaithfulBatch(batch) == batch # {} /\ \A r \in batch : Faithful(encoder, outgoing, r)
PushStates == Writings \cup {"none", "done"}

OnTheWire ==
    /\ sender \in {"pushing", "sent"} => MayBeSent
    /\ sender = "pushing" =>
          request = PushRpc_encode(createPushRequest(TheMessage, encoder.pubsubTopic))
    /\ sender = "sent" =>
          published = << [topic |-> encoder.pubsubTopic,
                          wire |-> toWire(encoder, outgoing)] >>
    /\ page # <<>> =>
          \E how \in Writings :
             page = PageOf(Rewritten(toWire(encoder, outgoing), how),
                           encoder.pubsubTopic)
NothingYet ==
    sender # "sent" =>
        /\ page = <<>>
        /\ \A p \in FilterPeers : pushes[p] = "none"
        /\ seen = {} /\ \A path \in Paths : received[path] = <<>>
AtReceiver ==
    /\ pushes \in [FilterPeers -> PushStates]
    /\ \/ seen = {} /\ received["filter"] = <<>>
          /\ \A p \in FilterPeers : pushes[p] # "done"
       \/ seen = {TheHash} /\ received["filter"] # <<>>
    /\ \A path \in Paths :
          \/ received[path] = <<>>
          \/ \E batch : received[path] = <<batch>> /\ FaithfulBatch(batch)
MessageInv == MessageTypeOK /\ OnTheWire /\ NothingYet /\ AtReceiver

\* A step of a message keeps the invariant.
LEMMA MessageInductive == MessageInv /\ [MessageNext]_messageVars => MessageInv'
<1> SUFFICES ASSUME MessageInv, [MessageNext]_messageVars PROVE MessageInv'
  OBVIOUS
<1> DEFINE P == TheMessage
           W == toWire(encoder, outgoing)
           topic == encoder.pubsubTopic
<1>t. encoder \in Encoders /\ outgoing \in Outgoing
  BY DEF MessageInv, MessageTypeOK
<1>p. /\ P \in Written(encoder, outgoing)
      /\ \A p \in Written(encoder, outgoing) : messageHash(topic, p) = TheHash
  <2>1. P \in Written(encoder, outgoing)
    BY OriginalIsWritten DEF TheMessage
  <2> DEFINE hash == HashOf(topic, encoder.contentTopic,
                            Cipher(encoder, outgoing.payload), encoder.meta,
                            <<outgoing.timestamp * OneMillion>>)
  <2>2. \A p \in Written(encoder, outgoing) : messageHash(topic, p) = hash
    BY <1>t, WrittenHash
  <2> HIDE DEF hash
  <2> QED
    BY <2>1, <2>2 DEF TheHash
<1>r. MayBeSent =>
        \A p \in Written(encoder, outgoing) : FaithfulBatch(Readings(topic, p))
  BY <1>t, AllReadingsFaithful DEF MayBeSent, FaithfulBatch
<1>w. \A how \in Writings :
        WakuMessage_decode(Rewritten(W, how)) \in Written(encoder, outgoing)
  BY <1>t, RewrittenRead
<1>d. WakuMessage_decode(W) = P
  <2>1. "same" \in Writings
    BY DEF Writings
  <2> QED
    BY <1>t, <2>1, RewrittenRead DEF TheMessage
\* As long as the message and how it is sent stay the same.
<1>s. ASSUME UNCHANGED <<encoder, outgoing>>
      PROVE  /\ TheMessage' = TheMessage /\ (MayBeSent <=> MayBeSent')
             /\ TheHash' = TheHash
             /\ toWire(encoder, outgoing)' = W /\ topic' = topic
             /\ \A batch : FaithfulBatch(batch)' <=> FaithfulBatch(batch)
  BY <1>s DEF TheMessage, MayBeSent, TheHash, FaithfulBatch
<1>c. published # <<>> =>
        /\ sender = "sent" /\ MayBeSent
        /\ published[1].topic = topic /\ published[1].wire = W
  <2>1. published # <<>> => sender = "sent"
    BY DEF MessageInv, MessageTypeOK
  <2>2. sender = "sent" =>
          MayBeSent /\ published = << [topic |-> topic, wire |-> W] >>
    BY DEF MessageInv, OnTheWire
  <2> HIDE DEF W
  <2> QED
    BY <2>1, <2>2
<1> HIDE DEF P, W
<1>1. CASE SendRelay
  <2>1. /\ sender = "ready" /\ UNCHANGED <<encoder, outgoing>>
        /\ UNCHANGED <<request, pushes, page, seen, received>>
    BY <1>1 DEF SendRelay
  <2>2. \/ /\ MayBeSent /\ sender' = "sent"
           /\ published' = << [topic |-> topic, wire |-> W] >>
        \/ sender' = "refused" /\ published' = published
    BY <1>1 DEF SendRelay, MayBeSent, Publish, W
  <2>3. MessageTypeOK'
    BY <2>1, <2>2 DEF MessageInv, MessageTypeOK
  <2>4. OnTheWire'
    BY <1>s, <2>1, <2>2 DEF MessageInv, OnTheWire, W
  <2>5. NothingYet' /\ AtReceiver'
    BY <1>s, <2>1, <2>2 DEF MessageInv, NothingYet, AtReceiver
  <2> QED
    BY <2>3, <2>4, <2>5 DEF MessageInv
<1>2. CASE SendLightPush
  <2>1. /\ sender = "ready" /\ UNCHANGED <<encoder, outgoing>>
        /\ UNCHANGED <<published, pushes, page, seen, received>>
    BY <1>2 DEF SendLightPush
  <2> DEFINE rpc == PushRpc_encode(createPushRequest(P, topic))
  <2>2. \/ MayBeSent /\ sender' = "pushing" /\ request' = rpc
        \/ sender' = "refused" /\ request' = request
    BY <1>2 DEF SendLightPush, MayBeSent, P, TheMessage
  <2>3. rpc # <<>>
    BY <1>t, PushRequestAsked DEF P, TheMessage
  <2>4. rpc' = rpc
    BY <1>s, <2>1 DEF P
  <2>5. MessageTypeOK'
    <3> HIDE DEF rpc
    <3> QED
      BY <2>1, <2>2, <2>3 DEF MessageInv, MessageTypeOK
  <2>6. OnTheWire'
    <3>1. MayBeSent' <=> MayBeSent
      BY <1>s, <2>1
    <3>2. page = <<>>
      BY <2>1 DEF MessageInv, NothingYet
    <3>3. (sender = "pushing" => request = rpc)'
      BY <2>2, <2>4
    <3> QED
      BY <2>1, <2>2, <3>1, <3>2, <3>3 DEF OnTheWire, P
  <2>7. NothingYet' /\ AtReceiver'
    BY <1>s, <2>1, <2>2 DEF MessageInv, NothingYet, AtReceiver
  <2> QED
    BY <2>5, <2>6, <2>7 DEF MessageInv
<1>3. CASE ServicePublishes
  <2>1. /\ sender = "pushing" /\ sender' = "sent" /\ request' = <<>>
        /\ UNCHANGED <<encoder, outgoing, pushes, page, seen, received>>
    BY <1>3 DEF ServicePublishes
  <2> DEFINE rpc == PushRpc_encode(createPushRequest(P, topic))
             asked == PushRpc_decode(request).request[1]
  <2>2. MayBeSent /\ request = rpc
    BY <2>1 DEF MessageInv, OnTheWire, P
  <2>3. asked.pubsubTopic[1] = topic /\ asked.message[1] = P
    BY <1>t, <2>2, PushRequestAsked DEF P, TheMessage
  <2>4. published' = << [topic |-> asked.pubsubTopic[1],
                         wire |-> WakuMessage_encode(asked.message[1])] >>
    BY <1>3 DEF ServicePublishes, Publish
  <2>5. WakuMessage_encode(P) = W
    BY DEF W, P, toWire, TheMessage
  <2> HIDE DEF asked
  <2>6. published' = << [topic |-> topic, wire |-> W] >>
    BY <2>3, <2>4, <2>5
  <2>7. MessageTypeOK'
    BY <2>1, <2>6 DEF MessageInv, MessageTypeOK
  <2>8. page = <<>>
    BY <2>1 DEF MessageInv, NothingYet
  <2>9. OnTheWire'
    BY <1>s, <2>1, <2>2, <2>6, <2>8 DEF OnTheWire, W
  <2>10. NothingYet' /\ AtReceiver'
    BY <1>s, <2>1 DEF MessageInv, NothingYet, AtReceiver
  <2> QED
    BY <2>7, <2>9, <2>10 DEF MessageInv
<1>4. CASE ReceiveByRelay
  <2> DEFINE batch == Readings(topic, P)
             proto == fromWireToProtoObj(W)
             contentTopic == TopicOnlyMessage_decode(W).contentTopic[1]
  <2>1. /\ published # <<>> /\ received["relay"] = <<>>
        /\ UNCHANGED <<encoder, outgoing, sender, request, published, pushes, page,
                       seen>>
    BY <1>4 DEF ReceiveByRelay
  <2>2. sender = "sent" /\ MayBeSent /\ published[1].topic = topic
        /\ published[1].wire = W
    BY <1>c, <2>1
  <2>3. proto = P
    BY <1>t, <1>d, RelayProto DEF fromWireToProtoObj, P, TheMessage
  <2>4. contentTopic = P.contentTopic[1]
    <3>1. contentTopic = WakuMessage_decode(W).contentTopic[1]
      BY DEF TopicOnlyMessage_decode, WakuMessage_decode
    <3> QED
      BY <1>d, <3>1
  <2>5. received' = [received EXCEPT !["relay"] = <<batch>>]
    <3> DEFINE Read(t, obj, ct) ==
                 UNION {{[decoder |-> d, message |-> m] :
                           m \in Range(fromProtoObj(d, t, obj))} : d \in Asked(t, ct)}
    <3>1. received' =
            [received EXCEPT !["relay"] =
               << Read(published[1].topic, fromWireToProtoObj(published[1].wire),
                       TopicOnlyMessage_decode(published[1].wire).contentTopic[1]) >>]
      BY <1>4 DEF ReceiveByRelay
    <3>2. batch = Read(topic, P, P.contentTopic[1])
      BY DEF Readings
    <3> HIDE DEF Read, batch
    <3>3. received'
            = [received EXCEPT !["relay"] = << Read(topic, proto, contentTopic) >>]
      BY <2>2, <3>1
    <3> QED
      BY <2>3, <2>4, <3>2, <3>3
  <2>6. FaithfulBatch(batch)
    BY <1>p, <1>r, <2>2
  <2> HIDE DEF batch
  <2>7. /\ DOMAIN received' = Paths /\ received'["relay"] = <<batch>>
        /\ \A path \in Paths : path # "relay" => received'[path] = received[path]
    BY <2>5 DEF MessageInv, MessageTypeOK, Paths
  <2>8. MessageTypeOK'
    BY <2>1, <2>7 DEF MessageInv, MessageTypeOK
  <2>9. OnTheWire' /\ NothingYet'
    BY <1>s, <2>1, <2>2 DEF MessageInv, OnTheWire, NothingYet, W
  <2>10. AtReceiver'
    BY <1>s, <2>1, <2>6, <2>7 DEF MessageInv, AtReceiver, Paths
  <2> QED
    BY <2>8, <2>9, <2>10 DEF MessageInv
<1>5. ASSUME NEW p \in FilterPeers, NEW how \in Writings, PushByFilter(p, how)
      PROVE  MessageInv'
  <2>1. /\ published # <<>> /\ pushes[p] = "none"
        /\ pushes' = [pushes EXCEPT ![p] = how]
        /\ UNCHANGED <<encoder, outgoing, sender, request, published, page, seen,
                       received>>
    BY <1>5 DEF PushByFilter
  <2>2. sender = "sent"
    BY <1>c, <2>1
  <2>3. pushes \in [FilterPeers -> PushStates] /\ how \in PushStates /\ how # "done"
    BY DEF MessageInv, AtReceiver, PushStates, Writings
  <2>4. /\ pushes' \in [FilterPeers -> PushStates] /\ DOMAIN pushes' = FilterPeers
        /\ \A q \in FilterPeers : pushes'[q] = "done" => pushes[q] = "done"
    BY <2>1, <2>3
  <2>5. MessageTypeOK'
    BY <2>1, <2>4 DEF MessageInv, MessageTypeOK
  <2>6. OnTheWire' /\ NothingYet'
    BY <1>s, <2>1, <2>2 DEF MessageInv, OnTheWire, NothingYet, W
  <2>7. AtReceiver'
    BY <1>s, <2>1, <2>4 DEF MessageInv, AtReceiver
  <2> QED
    BY <2>5, <2>6, <2>7 DEF MessageInv
<1>6. ASSUME NEW p \in FilterPeers, ReceiveByFilter(p)
      PROVE  MessageInv'
  <2> DEFINE how == pushes[p]
             push == MessagePush_decode(MessagePushOf(how))
             proto == push.wakuMessage[1]
             readings == Readings(topic, proto)
  <2>1. /\ how \in Writings /\ pushes' = [pushes EXCEPT ![p] = "done"]
        /\ UNCHANGED <<encoder, outgoing, sender, request, published, page>>
    BY <1>6 DEF ReceiveByFilter
  <2>2. sender = "sent"
    <3>1. how # "none"
      BY <2>1 DEF Writings
    <3> QED
      BY <3>1 DEF MessageInv, NothingYet
  <2>3. MayBeSent /\ published[1].topic = topic /\ published[1].wire = W
    <3>1. published # <<>>
      BY <2>2 DEF MessageInv, MessageTypeOK
    <3> QED
      BY <1>c, <3>1
  <2>4. push.pubsubTopic[1] = topic /\ proto = WakuMessage_decode(Rewritten(W, how))
    BY <2>3, PushRead DEF MessagePushOf
  <2>5. proto \in Written(encoder, outgoing)
    BY <1>w, <2>1, <2>4 DEF W
  <2>6. messageHash(topic, proto) = TheHash /\ FaithfulBatch(readings)
    BY <1>p, <1>r, <2>3, <2>5
  <2>7. /\ seen' = seen \cup {TheHash}
        /\ IF TheHash \in seen \/ readings = {} THEN UNCHANGED received
           ELSE \E r \in readings :
                   received' = [received EXCEPT !["filter"] = Append(@, {r})]
    <3>1. LET hash == messageHash(push.pubsubTopic[1], proto)
              read == Readings(push.pubsubTopic[1], proto)
          IN  /\ seen' = seen \cup {hash}
              /\ IF hash \in seen \/ read = {} THEN UNCHANGED received
                 ELSE \E r \in read :
                         received' = [received EXCEPT !["filter"] = Append(@, {r})]
      BY <1>6 DEF ReceiveByFilter
    <3> HIDE DEF push
    <3> QED
      BY <2>4, <2>6, <3>1
  <2> HIDE DEF readings, how
  <2>8. pushes \in [FilterPeers -> PushStates]
    BY DEF MessageInv, AtReceiver
  <2>9. pushes' \in [FilterPeers -> PushStates] /\ DOMAIN pushes' = FilterPeers
    BY <2>1, <2>8 DEF PushStates
  <2>10. OnTheWire' /\ NothingYet'
    BY <1>s, <2>1, <2>2 DEF MessageInv, OnTheWire, NothingYet, W
  <2>11. CASE seen = {}
    <3>1. readings # {} /\ TheHash \notin seen /\ seen' = {TheHash}
      BY <2>6, <2>7, <2>11 DEF FaithfulBatch
    <3>2. received["filter"] = <<>>
      BY <2>11 DEF MessageInv, AtReceiver
    <3>3. PICK r \in readings :
            received' = [received EXCEPT !["filter"] = Append(@, {r})]
      BY <2>7, <3>1
    <3>4. FaithfulBatch({r})
      BY <2>6 DEF FaithfulBatch
    <3>5. Append(<<>>, {r}) = << {r} >>
      OBVIOUS
    <3>6. /\ DOMAIN received' = Paths /\ received'["filter"] = << {r} >>
          /\ \A path \in Paths : path # "filter" => received'[path] = received[path]
      BY <3>2, <3>3, <3>5 DEF MessageInv, MessageTypeOK, Paths
    <3>7. MessageTypeOK'
      BY <2>1, <2>9, <3>6 DEF MessageInv, MessageTypeOK
    <3>8. AtReceiver'
      <4>1. TheHash' = TheHash /\ \A batch : FaithfulBatch(batch)'
              <=> FaithfulBatch(batch)
        BY <1>s, <2>1
      <4>2. seen' = {TheHash}' /\ received'["filter"] # <<>>
        BY <3>1, <3>6, <4>1
      <4>3. ASSUME NEW path \in Paths
            PROVE  \/ received'[path] = <<>>
                   \/ \E batch : received'[path] = <<batch>> /\ FaithfulBatch(batch)'
        <5>1. CASE path = "filter"
          BY <3>4, <3>6, <4>1, <5>1
        <5>2. CASE path # "filter"
          <6>1. \/ received[path] = <<>>
                \/ \E batch : received[path] = <<batch>> /\ FaithfulBatch(batch)
            BY DEF MessageInv, AtReceiver
          <6> QED
            BY <3>6, <4>1, <5>2, <6>1
        <5> QED
          BY <5>1, <5>2
      <4> QED
        BY <2>9, <4>2, <4>3 DEF AtReceiver
    <3> QED
      BY <2>10, <3>7, <3>8 DEF MessageInv
  <2>12. CASE seen # {}
    <3>1. seen = {TheHash} /\ received["filter"] # <<>>
      BY <2>12 DEF MessageInv, AtReceiver
    <3>2. seen' = seen /\ received' = received
      BY <2>7, <3>1
    <3>3. MessageTypeOK'
      BY <2>1, <2>9, <3>2 DEF MessageInv, MessageTypeOK
    <3>4. AtReceiver'
      BY <1>s, <2>1, <2>9, <3>1, <3>2 DEF MessageInv, AtReceiver
    <3> QED
      BY <2>10, <3>3, <3>4 DEF MessageInv
  <2> QED
    BY <2>11, <2>12
<1>7. ASSUME NEW how \in Writings, AnswerQuery(how)
      PROVE  MessageInv'
  <2>1. /\ published # <<>>
        /\ UNCHANGED <<encoder, outgoing, sender, request, published, pushes, seen,
                       received>>
    BY <1>7 DEF AnswerQuery
  <2>2. sender = "sent" /\ published[1].topic = topic /\ published[1].wire = W
    BY <1>c, <2>1
  <2>3. page' = PageOf(Rewritten(W, how), topic)
    BY <1>7, <2>2 DEF AnswerQuery, PageOf
  <2>4. MessageTypeOK'
    BY <2>1 DEF MessageInv, MessageTypeOK
  <2>5. OnTheWire'
    BY <1>s, <2>1, <2>2, <2>3 DEF MessageInv, OnTheWire, W
  <2>6. NothingYet' /\ AtReceiver'
    BY <1>s, <2>1, <2>2 DEF MessageInv, NothingYet, AtReceiver
  <2> QED
    BY <2>4, <2>5, <2>6 DEF MessageInv
<1>8. CASE ReceiveFromStore
  <2> DEFINE kv == StoreQueryResponse_decode(page).messages[1]
             proto == kv.message[1]
             batch == Readings(topic, proto)
  <2>1. /\ page # <<>> /\ page' = <<>>
        /\ UNCHANGED <<encoder, outgoing, sender, request, published, pushes, seen>>
    BY <1>8 DEF ReceiveFromStore
  <2>2. sender = "sent" /\ MayBeSent
    BY <2>1 DEF MessageInv, NothingYet, OnTheWire
  <2>3. PICK how \in Writings : page = PageOf(Rewritten(W, how), topic)
    BY <2>1 DEF MessageInv, OnTheWire, W
  <2>4. kv.pubsubTopic = <<topic>> /\ proto = WakuMessage_decode(Rewritten(W, how))
    BY <2>3, PageRead
  <2>5. proto \in Written(encoder, outgoing)
    BY <1>w, <2>4 DEF W
  <2>6. toProtoMessage(proto) = proto
    BY <1>t, <2>5, StoreProto
  <2>7. OrElse(kv.pubsubTopic, "") = topic
    BY <2>4 DEF OrElse
  <2>8. received' = [received EXCEPT !["store"] = <<batch>>]
    BY <1>8, <2>6, <2>7 DEF ReceiveFromStore
  <2>9. FaithfulBatch(batch)
    BY <1>r, <2>2, <2>5
  <2> HIDE DEF batch
  <2>10. /\ DOMAIN received' = Paths /\ received'["store"] = <<batch>>
         /\ \A path \in Paths : path # "store" => received'[path] = received[path]
    BY <2>8 DEF MessageInv, MessageTypeOK, Paths
  <2>11. MessageTypeOK'
    BY <2>1, <2>10 DEF MessageInv, MessageTypeOK
  <2>12. OnTheWire' /\ NothingYet'
    BY <1>s, <2>1, <2>2 DEF MessageInv, OnTheWire, NothingYet, W
  <2>13. AtReceiver'
    BY <1>s, <2>1, <2>9, <2>10 DEF MessageInv, AtReceiver, Paths
  <2> QED
    BY <2>11, <2>12, <2>13 DEF MessageInv
<1>9. CASE UNCHANGED messageVars
  <2>1. /\ UNCHANGED <<encoder, outgoing>>
        /\ UNCHANGED <<sender, request, published, pushes, page, seen, received>>
    BY <1>9 DEF messageVars
  <2>2. MessageTypeOK'
    BY <2>1 DEF MessageInv, MessageTypeOK
  <2>3. OnTheWire' /\ NothingYet'
    BY <1>s, <2>1 DEF MessageInv, OnTheWire, NothingYet, W
  <2>4. AtReceiver'
    BY <1>s, <2>1 DEF MessageInv, AtReceiver
  <2> QED
    BY <2>2, <2>3, <2>4 DEF MessageInv
<1> QED
  BY <1>1, <1>2, <1>3, <1>4, <1>5, <1>6, <1>7, <1>8, <1>9 DEF MessageNext

\* All that reached a callback is a faithful reading of what was published.
LEMMA ReadersFaithful ==
    MessageInv => \A r \in Readers : Faithful(encoder, outgoing, r)
<1> SUFFICES ASSUME MessageInv, NEW r \in Readers
             PROVE  Faithful(encoder, outgoing, r)
  OBVIOUS
<1>1. PICK path \in Paths : r \in UNION Range(received[path])
  BY DEF Readers
<1>2. CASE received[path] = <<>>
  <2>1. Range(received[path]) = {}
    BY <1>2, NothingIsAList
  <2> QED
    BY <1>1, <2>1
<1>3. CASE \E batch : received[path] = <<batch>> /\ FaithfulBatch(batch)
  <2>1. PICK batch : received[path] = <<batch>> /\ FaithfulBatch(batch)
    BY <1>3
  <2>2. Range(received[path]) = {batch}
    BY <2>1, AlwaysOne
  <2>3. r \in batch
    BY <1>1, <2>2
  <2> QED
    BY <2>1, <2>3 DEF FaithfulBatch
<1> QED
  BY <1>2, <1>3 DEF MessageInv, AtReceiver

\* The conjuncts of MessageExact, from the invariant.
LEMMA ReadAsSent == MessageInv => ReceivedAsSent /\ ReadByItsDecoder
<1> SUFFICES ASSUME MessageInv PROVE ReceivedAsSent /\ ReadByItsDecoder
  OBVIOUS
<1>1. encoder \in Encoders /\ outgoing \in Outgoing
  BY DEF MessageInv, MessageTypeOK
<1>2. ASSUME NEW r \in Readers
      PROVE  /\ r.message.payload = outgoing.payload
             /\ r.message.pubsubTopic = encoder.pubsubTopic
             /\ r.message.contentTopic = encoder.contentTopic
             /\ outgoing.timestamp # 0 => r.message.timestamp = <<outgoing.timestamp>>
             /\ Range(r.message.meta) \ {EmptyBytes}
                  = Range(encoder.meta) \ {EmptyBytes}
             /\ r.message.rateLimitProof = outgoing.rateLimitProof
             /\ r.message.ephemeral = encoder.ephemeral
  <2>1. Faithful(encoder, outgoing, r)
    BY ReadersFaithful
  <2>2. PICK m : m = r.message
    OBVIOUS
  <2>3. Shows(encoder, outgoing, m)
    BY <1>1, <2>1, <2>2, FaithfulShows
  <2>4. outgoing.timestamp # 0 => m.timestamp = <<outgoing.timestamp>>
    BY <2>3 DEF Shows
  <2>5. /\ m.payload = outgoing.payload
        /\ m.pubsubTopic = encoder.pubsubTopic
        /\ m.contentTopic = encoder.contentTopic
        /\ Range(m.meta) \ {EmptyBytes} = Range(encoder.meta) \ {EmptyBytes}
        /\ m.rateLimitProof = outgoing.rateLimitProof
        /\ m.ephemeral = encoder.ephemeral
    BY <2>3 DEF Shows
  <2> QED
    BY <2>2, <2>4, <2>5
<1>3. ReceivedAsSent
  <2> SUFFICES ASSUME NEW m \in {r.message : r \in Readers}
               PROVE  /\ m.payload = outgoing.payload
                      /\ m.pubsubTopic = encoder.pubsubTopic
                      /\ m.contentTopic = encoder.contentTopic
                      /\ outgoing.timestamp # 0
                           => m.timestamp = <<outgoing.timestamp>>
                      /\ Range(m.meta) \ {EmptyBytes}
                           = Range(encoder.meta) \ {EmptyBytes}
                      /\ m.rateLimitProof = outgoing.rateLimitProof
                      /\ m.ephemeral = encoder.ephemeral
    BY Zenon DEF ReceivedAsSent
  <2>1. PICK r \in Readers : m = r.message
    OBVIOUS
  <2> QED
    BY <1>2, <2>1
<1>4. ReadByItsDecoder
  BY ReadersFaithful DEF ReadByItsDecoder, Faithful
<1> QED
  BY <1>3, <1>4

LEMMA SignerIsVerified == MessageInv => SignerVerified
<1> SUFFICES ASSUME MessageInv, NEW r \in Readers, NEW k
             PROVE  verifySignature(r.message, k)
                      <=> encoder.kind # "plain" /\ encoder.signer = <<k>>
  BY DEF SignerVerified
<1>1. encoder \in Encoders /\ outgoing \in Outgoing
  BY DEF MessageInv, MessageTypeOK
<1>2. Faithful(encoder, outgoing, r)
  BY ReadersFaithful
<1>3. r.message.signaturePublicKey = Signer(encoder)
  <2>1. PICK m : m = r.message
    OBVIOUS
  <2>2. Shows(encoder, outgoing, m)
    BY <1>1, <1>2, <2>1, FaithfulShows
  <2> QED
    BY <2>1, <2>2 DEF Shows
<1>4. <<k>> # <<>>
  OBVIOUS
<1> QED
  BY <1>3, <1>4 DEF verifySignature, Signer

LEMMA AcceptedWasRead == MessageInv => AcceptedIsReadable
<1> SUFFICES ASSUME MessageInv PROVE AcceptedIsReadable
  OBVIOUS
<1>1. ASSUME NEW p \in Paths, received[p] # <<>>
      PROVE  UNION Range(received[p]) # {}
  <2>1. PICK batch : received[p] = <<batch>> /\ FaithfulBatch(batch)
    BY <1>1 DEF MessageInv, AtReceiver
  <2>2. Range(received[p]) = {batch} /\ batch # {}
    BY <2>1, AlwaysOne DEF FaithfulBatch
  <2> QED
    BY <2>2
<1>2. (\E p \in FilterPeers : pushes[p] = "done") => received["filter"] # <<>>
  BY DEF MessageInv, AtReceiver
<1> QED
  BY <1>1, <1>2 DEF AcceptedIsReadable

LEMMA FilterDeliversOnce == MessageInv => FilteredOnce
<1> SUFFICES ASSUME MessageInv PROVE FilteredOnce
  OBVIOUS
<1>1. Len(received["filter"]) <= 1
  <2>1. \/ received["filter"] = <<>>
        \/ \E batch : received["filter"] = <<batch>>
    BY DEF MessageInv, AtReceiver, Paths
  <2>2. CASE received["filter"] = <<>>
    <3> DEFINE list == received["filter"]
    <3>1. list = <<>>
      BY <2>2
    <3> HIDE DEF list
    <3>2. Len(list) <= 1
      BY <3>1
    <3> QED
      BY <3>2 DEF list
  <2>3. CASE \E batch : received["filter"] = <<batch>>
    <3> DEFINE list == received["filter"]
    <3>1. PICK batch : list = <<batch>>
      BY <2>3
    <3> HIDE DEF list
    <3>2. Len(list) <= 1
      BY <3>1
    <3> QED
      BY <3>2 DEF list
  <2> QED
    BY <2>1, <2>2, <2>3
<1>2. seen \subseteq {TheHash}
  BY DEF MessageInv, AtReceiver
<1> QED
  BY <1>1, <1>2 DEF FilteredOnce, TheHash, TheMessage

LEMMA CursorsName == MessageInv => CursorNamesMessage
<1> SUFFICES ASSUME MessageInv, NEW r \in Readers, encoder.kind = "plain"
             PROVE  decodedMessageHash(r.message)
                      = messageHash(encoder.pubsubTopic,
                                    toProtoObj(encoder, outgoing))
  BY DEF CursorNamesMessage
<1>1. encoder \in Encoders /\ outgoing \in Outgoing
  BY DEF MessageInv, MessageTypeOK
<1>2. Faithful(encoder, outgoing, r)
  BY ReadersFaithful
<1> QED
  BY <1>1, <1>2, CursorFaithful

LEMMA PublishedIsFit == MessageInv => PublishedFits /\ LengthHidden
<1> SUFFICES ASSUME MessageInv, published # <<>> PROVE PublishedFits /\ LengthHidden
  BY DEF PublishedFits, LengthHidden
<1>1. encoder \in Encoders /\ outgoing \in Outgoing
  BY DEF MessageInv, MessageTypeOK
<1> DEFINE W == toWire(encoder, outgoing)
           bytes == WakuMessage_decode(W).payload[1]
<1>2. sender = "sent"
  BY DEF MessageInv, MessageTypeOK
<1>3. published = << [topic |-> encoder.pubsubTopic, wire |-> W] >> /\ MayBeSent
  BY <1>2 DEF MessageInv, OnTheWire
<1>4. /\ bytes = Cipher(encoder, outgoing.payload)
      /\ encoder.kind # "plain" => /\ EnvelopeSize(bytes[3]) % PaddingTarget = 0
                                   /\ bytes[3].padding > 0
  BY <1>1, PublishedBytes
<1> HIDE DEF W
<1>5. published[1].wire = W
  BY <1>3
<1>6. PublishedFits
  <2>1. WireSize(bytes) <= SizeCap
    BY <1>3, <1>4 DEF MayBeSent, isMessageSizeUnderCap
  <2> QED
    BY <1>5, <2>1 DEF PublishedFits
<1>7. LengthHidden
  BY <1>4, <1>5 DEF LengthHidden
<1> QED
  BY <1>6, <1>7

\* Whatever path a message takes, and however the nodes on it write it, what
\* the application gets is what was sent, read by a decoder of its kind and
\* key, with its signer; filter hands it out once; the cursor made of it names
\* it; and its size stays within the limit and tells little of the payload
\* (the encoders, ciphers and decoders of @waku/core, @waku/message-encryption
\* and @waku/proto, for every encoder, message, decoder and service node).
THEOREM MessagesArriveExact == MessageSpec => []MessageExact
<1>1. MessageInit => MessageInv
  <2> SUFFICES ASSUME MessageInit PROVE MessageInv
    OBVIOUS
  <2>1. MessageTypeOK
    BY DEF MessageInit, MessageTypeOK
  <2>2. OnTheWire /\ NothingYet
    BY DEF MessageInit, OnTheWire, NothingYet
  <2>3. AtReceiver
    BY DEF MessageInit, AtReceiver, PushStates, Paths
  <2> QED
    BY <2>1, <2>2, <2>3 DEF MessageInv
<1>2. MessageInv /\ [MessageNext]_messageVars => MessageInv'
  BY MessageInductive
<1>3. MessageInv => MessageExact
  <2>1. MessageInv => MessageTypeOK
    BY DEF MessageInv
  <2> QED
    BY <2>1, ReadAsSent, SignerIsVerified, AcceptedWasRead, FilterDeliversOnce,
       CursorsName, PublishedIsFit DEF MessageExact
<1> QED
  BY <1>1, <1>2, <1>3, PTL DEF MessageSpec

=============================================================================
