---------------------------- MODULE StreamManager ----------------------------
(***************************************************************************)
(* The stream manager of @waku/core (core/src/lib/stream_manager/), which  *)
(* every protocol of the node uses to get a stream to a peer.  It keeps    *)
(* its state by peer and no operation touches two peers, so this module is *)
(* one instance of it seen from one remote peer.                           *)
(*                                                                         *)
(* A step is the code between two awaits.  getStream() calls are members   *)
(* of Gets, createStreamWithLock() calls (the promises of streamPool) of   *)
(* Promises.  Their states:                                                *)
(*   scheduled  getStream waits for the promise it took from the pool      *)
(*   creating   connection.newStream is running                            *)
(*   created    newStream has resolved, its caller is still to be resumed; *)
(*              libp2p already lists the stream on the connection          *)
(*   rejected   newStream has rejected, its caller is still to be resumed  *)
(*   found, made, failed   how getStream ended                             *)
(*   settled    createStreamWithLock has returned                          *)
(*                                                                         *)
(* Connections and streams are numbered in the order in which they open,   *)
(* which is the order libp2p lists them in.  Two connections opened within *)
(* one millisecond are not told apart from that order.                     *)
(***************************************************************************)
EXTENDS Integers, FiniteSets

CONSTANTS
    None,
    Gets, Promises,              \* ids of the calls (bounds)
    MaxConnections, MaxStreams,  \* bounds on what libp2p opens
    Served   \* the node also serves the codec: the peer opens streams too

ASSUME StreamManagerAssumption ==
    /\ None \notin Promises
    /\ None \notin Nat
    /\ MaxConnections \in Nat
    /\ MaxStreams \in Nat
    /\ Served \in BOOLEAN

Connections == 1 .. MaxConnections
Streams == 1 .. MaxStreams

VARIABLES
    get,              \* the getStream() calls
    promise,          \* the createStreamWithLock() calls
    streamPool,       \* the promise in the pool, or None
    ongoingCreation,  \* the peer is in the set of that name
    opened,           \* libp2p: how many connections were opened
    open,             \* libp2p: those that are open
    stream,           \* libp2p: the streams of the codec
    created           \* libp2p: how many of them there are

managerVars == <<get, promise, streamPool, ongoingCreation>>
vars == <<managerVars, opened, open, stream, created>>

Ended == {"found", "made", "failed"}

Get == [at : {"idle", "scheduled", "creating", "created", "rejected"} \cup Ended,
        promise : Promises \cup {None},
        on : Connections \cup {None},
        stream : Streams \cup {None}]
Creation == [at : {"idle", "creating", "created", "rejected", "settled"},
             on : Connections \cup {None}]
Stream == [on : Connections \cup {None},
           status : {"none", "usable", "unusable", "removed"},
           locked : BOOLEAN]

IdleGet == [at |-> "idle", promise |-> None, on |-> None, stream |-> None]
IdleCreation == [at |-> "idle", on |-> None]
NoStream == [on |-> None, status |-> "none", locked |-> FALSE]

TypeOK ==
    /\ get \in [Gets -> Get]
    /\ promise \in [Promises -> Creation]
    /\ streamPool \in Promises \cup {None}
    /\ ongoingCreation \in BOOLEAN
    /\ opened \in 0 .. MaxConnections
    /\ open \subseteq 1 .. opened
    /\ stream \in [Streams -> Stream]
    /\ created \in 0 .. MaxStreams
    /\ \A g \in Gets : get[g].at = "creating" => get[g].on # None
    /\ \A r \in Promises : promise[r].at = "creating" => promise[r].on # None

Init ==
    /\ get = [g \in Gets |-> IdleGet]
    /\ promise = [r \in Promises |-> IdleCreation]
    /\ streamPool = None
    /\ ongoingCreation = FALSE
    /\ opened = 0
    /\ open = {}
    /\ stream = [s \in Streams |-> NoStream]
    /\ created = 0

-----------------------------------------------------------------------------
\* The open connection that was opened last.
selectOpenConnection ==
    LET newest == {c \in open : \A d \in open : d <= c}
    IN  IF newest = {} THEN None ELSE CHOOSE c \in newest : TRUE

\* The streams connection c lists.
ListedOn(c) ==
    {s \in Streams : stream[s].on = c /\ stream[s].status \in {"usable", "unusable"}}

\* A stream a caller may take.  The mutant does not look at the lock.
FreeUnlessUnusable(s) == stream[s].status = "usable"
Free(s) == stream[s].status = "usable" /\ ~stream[s].locked

\* getOpenStreamForCodec looks only at the first stream of the connection.
getOpenStreamForCodec ==
    LET listed == ListedOn(selectOpenConnection)
        free == {s \in listed : Free(s) /\ \A t \in listed : s <= t}
    IN  IF selectOpenConnection = None \/ free = {}
        THEN None ELSE CHOOSE s \in free : TRUE

\* createStream throws at once without a connection.  The mutant goes on.
ConnectionUnchecked(c) == TRUE
CanCreate(c) == c # None

lockStream(s) == stream' = [stream EXCEPT ![s].locked = TRUE]

-----------------------------------------------------------------------------
(* getStream *)

\* From the lookup on: take an open stream, or start createStream.
Lookup(g) ==
    LET s == getOpenStreamForCodec
        c == selectOpenConnection
    IN  /\ get' = [get EXCEPT ![g] =
                     IF s # None
                     THEN [IdleGet EXCEPT !.at = "found", !.stream = s]
                     ELSE IF CanCreate(c)
                     THEN [IdleGet EXCEPT !.at = "creating", !.on = c]
                     ELSE [IdleGet EXCEPT !.at = "failed"]]
        /\ IF s # None THEN lockStream(s) ELSE UNCHANGED stream

\* A caller takes the scheduled promise out of the pool and waits for it.
GetStream(g) ==
    /\ get[g].at = "idle"
    /\ IF streamPool = None
       THEN Lookup(g) /\ UNCHANGED streamPool
       ELSE /\ get' = [get EXCEPT ![g] = [IdleGet EXCEPT !.at = "scheduled",
                                                         !.promise = streamPool]]
            /\ streamPool' = None
            /\ UNCHANGED stream
    /\ UNCHANGED <<promise, ongoingCreation, opened, open, created>>

Settled(r) == promise[r].at = "settled"

AfterScheduled(g) ==
    /\ get[g].at = "scheduled"
    /\ Settled(get[g].promise)
    /\ Lookup(g)
    /\ UNCHANGED <<promise, streamPool, ongoingCreation, opened, open, created>>

\* createStream returns to getStream, which locks the new stream, or throws.
AfterCreate(g) ==
    /\ \/ /\ get[g].at = "created"
          /\ get' = [get EXCEPT ![g].at = "made"]
          /\ lockStream(get[g].stream)
       \/ /\ get[g].at = "rejected"
          /\ get' = [get EXCEPT ![g].at = "failed"]
          /\ UNCHANGED stream
    /\ UNCHANGED <<promise, streamPool, ongoingCreation, opened, open, created>>

-----------------------------------------------------------------------------
(* peer:update and createStreamWithLock *)

\* What createStreamWithLock does up to its first await.  With a creation
\* under way it returns at once, outside the try block whose finally clause
\* releases the lock; the mutant returns inside it.
SkipReleasesLock == FALSE
SkipKeepsLock == ongoingCreation

createStreamWithLock(r) ==
    LET c == selectOpenConnection IN
    IF ongoingCreation
    THEN /\ promise' = [promise EXCEPT ![r].at = "settled"]
         /\ ongoingCreation' = SkipKeepsLock
    ELSE IF CanCreate(c)
    THEN /\ promise' = [promise EXCEPT ![r] = [at |-> "creating", on |-> c]]
         /\ ongoingCreation' = TRUE
    ELSE /\ promise' = [promise EXCEPT ![r].at = "settled"]
         /\ UNCHANGED ongoingCreation

\* handlePeerUpdateStreamPool for a peer that speaks the codec: schedule a
\* stream unless there is a free one; the promise before is abandoned.
PeerUpdate(r) ==
    /\ promise[r].at = "idle"
    /\ getOpenStreamForCodec = None
    /\ createStreamWithLock(r)
    /\ streamPool' = r
    /\ UNCHANGED <<get, opened, open, stream, created>>

\* createStream returns or throws; the finally clause releases the lock.
Released(r) == FALSE

AfterScheduledCreate(r) ==
    /\ promise[r].at \in {"created", "rejected"}
    /\ promise' = [promise EXCEPT ![r].at = "settled"]
    /\ ongoingCreation' = Released(r)
    /\ UNCHANGED <<get, streamPool, opened, open, stream, created>>

-----------------------------------------------------------------------------
(* libp2p *)

\* A new stream of the codec on connection c.
Opened(c) ==
    /\ created < MaxStreams
    /\ created' = created + 1
    /\ stream' = [stream EXCEPT ![created + 1] =
                    [on |-> c, status |-> "usable", locked |-> FALSE]]

\* The loop of createStream makes one attempt: retries is 0 for every caller.
\* The mutant tries again whenever newStream rejects.
RetriesForEver == "creating"
AfterRejection == "rejected"

\* newStream resolves on an open connection, or rejects.
NewStreamForGet(g) ==
    /\ get[g].at = "creating"
    /\ \/ /\ get[g].on \in open
          /\ Opened(get[g].on)
          /\ get' = [get EXCEPT ![g].at = "created", ![g].stream = created']
       \/ /\ get' = [get EXCEPT ![g].at = AfterRejection]
          /\ UNCHANGED <<created, stream>>
    /\ UNCHANGED <<promise, streamPool, ongoingCreation, opened, open>>

NewStreamForPool(r) ==
    /\ promise[r].at = "creating"
    /\ \/ /\ promise[r].on \in open
          /\ Opened(promise[r].on)
          /\ promise' = [promise EXCEPT ![r].at = "created"]
       \/ /\ promise' = [promise EXCEPT ![r].at = AfterRejection]
          /\ UNCHANGED <<created, stream>>
    /\ UNCHANGED <<get, streamPool, ongoingCreation, opened, open>>

\* The remote peer opens a stream of the codec, which the node serves.
InboundStream(c) ==
    /\ Served
    /\ c \in open
    /\ Opened(c)
    /\ UNCHANGED <<managerVars, opened, open>>

\* A stream is closed (by its user, or reset), later it leaves the list.
StreamEnds(s) ==
    /\ stream[s].status \in {"usable", "unusable"}
    /\ stream' = [stream EXCEPT ![s].status =
                    IF @ = "usable" THEN "unusable" ELSE "removed"]
    /\ UNCHANGED <<managerVars, opened, open, created>>

ConnectionOpens ==
    /\ opened < MaxConnections
    /\ opened' = opened + 1
    /\ open' = open \cup {opened + 1}
    /\ UNCHANGED <<managerVars, stream, created>>

\* A connection closes with its streams.
ConnectionCloses(c) ==
    /\ c \in open
    /\ open' = open \ {c}
    /\ stream' = [s \in Streams |->
                    IF stream[s].on = c
                    THEN [stream[s] EXCEPT !.status = "removed"] ELSE stream[s]]
    /\ UNCHANGED <<managerVars, opened, created>>

-----------------------------------------------------------------------------
GetStep(g) ==
    GetStream(g) \/ AfterScheduled(g) \/ NewStreamForGet(g) \/ AfterCreate(g)

PromiseStep(r) == NewStreamForPool(r) \/ AfterScheduledCreate(r)

Next ==
    \/ \E g \in Gets : GetStep(g)
    \/ \E r \in Promises : PeerUpdate(r) \/ PromiseStep(r)
    \/ \E c \in Connections : InboundStream(c) \/ ConnectionCloses(c)
    \/ \E s \in Streams : StreamEnds(s)
    \/ ConnectionOpens

Spec == Init /\ [][Next]_vars

\* newStream settles one way or the other, and the event loop resumes who
\* waits for it.  A getStream that was never called need not be.
Fairness ==
    /\ \A g \in Gets : WF_vars(GetStep(g) /\ get[g].at # "idle")
    /\ \A r \in Promises : WF_vars(PromiseStep(r))

FairSpec == Spec /\ Fairness

-----------------------------------------------------------------------------
(* What holds. *)

Creating == {r \in Promises : promise[r].at \in {"creating", "created", "rejected"}}

\* The lock of createStreamWithLock: it is held exactly while a scheduled
\* creation runs, and so no two run at once, whichever peer:update comes in
\* between and however creations fail.
OneScheduledCreation ==
    /\ Cardinality(Creating) <= 1
    /\ ongoingCreation <=> Creating # {}

\* A stream that waits on a connection is handed out at most once: two calls
\* that both find a stream get different ones.
FoundByOne ==
    \A g, h \in Gets :
        (/\ get[g].at = "found" /\ get[h].at = "found"
         /\ get[g].stream = get[h].stream) => g = h

\* Every getStream() ends: neither the pool nor the lock makes it wait for
\* ever, with connections closing and creations failing under it.
GetStreamEnds ==
    \A g \in Gets : get[g].at # "idle" ~> get[g].at \in Ended

-----------------------------------------------------------------------------
(* What the repository says and the code does not keep. *)

\* "should return different streams if requested simultaniously"
\* (stream_manager.spec.ts).
DifferentStreams ==
    \A g, h \in Gets :
        (/\ get[g].at \in {"found", "made"} /\ get[h].at \in {"found", "made"}
         /\ get[g].stream = get[h].stream) => g = h
=============================================================================
