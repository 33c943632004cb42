------------------------------ MODULE StoreQuery ------------------------------
(***************************************************************************)
(* A query of the history a service node keeps: Store of @waku/sdk         *)
(* (sdk/src/protocols/store/index.ts), which hands messages to a callback, *)
(* over StoreCore.queryPerPage of @waku/core (core/src/lib/store/), which  *)
(* fetches them page by page.  Queries share nothing, so this is one of    *)
(* them, from the first request on.  It begins at an end of the history or *)
(* next to a message whose cursor the caller gives.                        *)
(*                                                                         *)
(* Messages are numbered in the order the service node stored them, and    *)
(* the history is the interval first .. last.  A page is an interval too,  *)
(* lo .. hi, in ascending order whatever the direction, and the hash that  *)
(* the cursor names is the number of its message.  Where a query is:       *)
(*   stream    getStream is running                                        *)
(*   request   the request is sent                                         *)
(*   page      a page is with the callbacks or with the caller             *)
(*   done, failed: the query has returned, or thrown                       *)
(***************************************************************************)
EXTENDS Integers, FiniteSets, Sequences, SequencesExt

CONSTANTS
    MaxMessages,     \* bound on the messages the node ever stores: the code
                     \* has none, and a node may store for ever
    Unreadable,      \* those no decoder of the query decodes
    Modes,           \* a subset of AllModes
    paginationLimit,
    MAX_PAGE_SIZE    \* of a service node, scaled down

AllModes == {"generator", "ordered", "promise"}

\* What is assumed of the constants, where this module is instantiated.
StoreQueryAssumption ==
    /\ MaxMessages \in Nat
    /\ Unreadable \subseteq 1 .. MaxMessages
    /\ Modes \subseteq AllModes
    /\ paginationLimit \in Nat \ {0}
    /\ MAX_PAGE_SIZE \in Nat \ {0}

VARIABLES
    first, last,  \* service node: its history
    query,        \* the query
    aborted       \* some callback has returned true

vars == <<first, last, query, aborted>>

NoMessage == 0
Numbers == 1 .. MaxMessages

NoQuery == [at |-> "idle", mode |-> "generator", forward |-> TRUE,
            cursor |-> NoMessage, lo |-> 1, hi |-> 0, from |-> 1, to |-> 0,
            delivered |-> <<>>, pending |-> {}, abort |-> FALSE,
            broken |-> FALSE]

TypeOK ==
    /\ first \in 1 .. MaxMessages + 1 /\ last \in 0 .. MaxMessages
    /\ DOMAIN query = DOMAIN NoQuery
    /\ query.at \in {"idle", "stream", "request", "page", "done", "failed"}
    /\ query.mode \in AllModes
    /\ {query.forward, query.abort, query.broken, aborted} \subseteq BOOLEAN
    /\ query.cursor \in {NoMessage} \cup Numbers
    /\ query.at = "page" => query.lo \in Numbers /\ query.hi \in query.lo .. MaxMessages
    /\ query.delivered \in Seq(Numbers)
    /\ query.pending \subseteq Numbers
    /\ query.at \in {"idle", "stream", "request", "done"} => query.pending = {}

Init ==
    /\ first = 1
    /\ last \in 0 .. MaxMessages
    /\ query = NoQuery
    /\ aborted = FALSE

-----------------------------------------------------------------------------
(* The service node. *)

Least(a, b) == IF a < b THEN a ELSE b
Greatest(a, b) == IF a < b THEN b ELSE a

\* The ends of what is asked for: after the cursor, or before it, or the whole
\* history.
FirstAsked(q) ==
    IF q.forward /\ q.cursor # NoMessage THEN q.cursor + 1 ELSE first
LastAsked(q) ==
    IF ~q.forward /\ q.cursor # NoMessage THEN q.cursor - 1 ELSE last

\* The page next to the cursor, in the direction of the query: never more than
\* the limit asked for, or than the node allows.
PageSize == Least(paginationLimit, MAX_PAGE_SIZE)

PageOf(q) ==
    IF q.forward
    THEN [lo |-> FirstAsked(q), hi |-> Least(FirstAsked(q) + PageSize - 1, last)]
    ELSE [lo |-> Greatest(LastAsked(q) - PageSize + 1, first), hi |-> LastAsked(q)]

\* A cursor that names a message the node has dropped, or does not have yet, is
\* refused.
KnowsCursor == query.cursor = NoMessage \/ query.cursor \in first .. last

\* A message arrives at the node, up to the bound; the node drops its oldest one.
Store ==
    /\ last < MaxMessages
    /\ last' = last + 1
    /\ UNCHANGED <<first, query, aborted>>

Drop ==
    /\ first <= last
    /\ first' = first + 1
    /\ UNCHANGED <<last, query, aborted>>

-----------------------------------------------------------------------------
(* The query. *)

\* A query with decoders of one configured pubsub topic; others are refused
\* before anything is asked of a peer.  Without a peer it throws.
Query(mode, forward, cursor) ==
    /\ query.at = "idle"
    /\ \E at \in {"stream", "failed"} :
         query' = [NoQuery EXCEPT !.at = at, !.mode = mode, !.forward = forward,
                                  !.cursor = cursor]
    /\ UNCHANGED <<first, last, aborted>>

\* A stream that cannot be opened ends the loop, and so the query, like the
\* last page does.
GetStream ==
    /\ query.at = "stream"
    /\ \/ query' = [query EXCEPT !.at = "request"]
       \/ query' = [query EXCEPT !.at = "done", !.broken = TRUE]
    /\ UNCHANGED <<first, last, aborted>>

\* The stream breaks, the reply cannot be decoded, or its status is an error.
RequestFails ==
    /\ query.at = "request"
    /\ query' = [query EXCEPT !.at = "failed"]
    /\ UNCHANGED <<first, last, aborted>>

Ascending(s) == \A i, j \in DOMAIN s : i < j => s[i] < s[j]

\* The messages of a page that get a decoder and come out of it, in its order.
Readable(lo, hi) ==
    LET readable == (lo .. hi) \ Unreadable IN
    CHOOSE s \in [1 .. Cardinality(readable) -> readable] :
        Ascending(s) /\ Range(s) = readable

\* Who gets a page: the callbacks, all called before any of them is waited
\* for, with each message (ordered) or each promise (promise); the generator
\* hands it to the caller.
Callbacks(mode, lo, hi) ==
    CASE mode = "generator" -> {}
      [] mode = "ordered" -> (lo .. hi) \ Unreadable
      [] mode = "promise" -> lo .. hi

\* The reply arrives.  from and to are what the query asked for of the history
\* that the first reply saw.
Reply ==
    LET page == PageOf(query)
        firstReply == query.hi = 0
    IN  /\ query.at = "request"
        /\ KnowsCursor
        /\ query' =
             IF page.lo > page.hi
             THEN [query EXCEPT !.at = "done",
                                !.from = IF firstReply THEN FirstAsked(query) ELSE @,
                                !.to = IF firstReply THEN LastAsked(query) ELSE @]
             ELSE [query EXCEPT
                     !.at = "page", !.lo = page.lo, !.hi = page.hi,
                     !.from = IF firstReply THEN FirstAsked(query) ELSE @,
                     !.to = IF firstReply THEN LastAsked(query) ELSE @,
                     !.delivered = @ \o Readable(page.lo, page.hi),
                     !.pending = Callbacks(query.mode, page.lo, page.hi)]
        /\ UNCHANGED <<first, last, aborted>>

\* A callback returns.  Its result overwrites the one before.
CallbackReturns(m, result) ==
    /\ query.at = "page"
    /\ m \in query.pending
    /\ query' = [query EXCEPT !.pending = @ \ {m}, !.abort = result]
    /\ aborted' = (aborted \/ result)
    /\ UNCHANGED <<first, last>>

\* A callback throws: the query does too, and the other callbacks go on.
CallbackThrows(m) ==
    /\ query.at = "page"
    /\ m \in query.pending
    /\ query' = [query EXCEPT !.at = "failed", !.pending = @ \ {m}]
    /\ UNCHANGED <<first, last, aborted>>

\* The message the next page comes after.  The mutants take the wrong end of
\* the page when the query goes backward, and leave the cursor where it was.
AlwaysLast(q) == q.hi
CursorStays(q) == q.cursor
CursorAfter(q) == IF q.forward THEN q.hi ELSE q.lo

\* The loop stops at a page above MAX_PAGE_SIZE and below the limit, which no
\* service node sends; the mutant stops at any page below the limit.
StopsBelowMax(n) == n < MAX_PAGE_SIZE
StopsAfterPage(n) == n > MAX_PAGE_SIZE /\ n < paginationLimit

\* A page is over when all its callbacks have returned.
PageIsOver == query.pending = {}

\* The page is over, or the caller of the generator asks for the next.
NextPage ==
    /\ query.at = "page"
    /\ PageIsOver
    /\ ~query.abort
    /\ query' = IF StopsAfterPage(query.hi - query.lo + 1)
                THEN [query EXCEPT !.at = "done"]
                ELSE [query EXCEPT !.at = "stream", !.cursor = CursorAfter(query)]
    /\ UNCHANGED <<first, last, aborted>>

\* The callback or the caller of the generator wants no more.
Abort ==
    /\ query.at = "page"
    /\ PageIsOver
    /\ query.abort \/ query.mode = "generator"
    /\ query' = [query EXCEPT !.at = "done", !.broken = TRUE]
    /\ UNCHANGED <<first, last, aborted>>

-----------------------------------------------------------------------------
QueryStep ==
    \/ GetStream \/ RequestFails \/ Reply \/ NextPage \/ Abort
    \/ \E m \in query.pending :
         CallbackThrows(m) \/ \E result \in BOOLEAN : CallbackReturns(m, result)

Next ==
    \/ Store \/ Drop
    \/ \E mode \in Modes, forward \in BOOLEAN, cursor \in {NoMessage} \cup Numbers :
         Query(mode, forward, cursor)
    \/ QueryStep

Spec == Init /\ [][Next]_vars

\* The event loop resumes the query, a request is answered or breaks, and
\* callbacks and callers return.
FairSpec == Spec /\ WF_vars(QueryStep)

-----------------------------------------------------------------------------
(* What holds. *)

\* Pages join without a gap, an overlap or a repetition while the node stores
\* and drops messages: what was delivered is all that is readable from where
\* the first page began to where the query has come, each message once, and in
\* order when the query goes forward.
PagesJoin ==
    query.delivered # <<>> =>
        LET covered == IF query.forward THEN query.from .. query.hi
                       ELSE query.lo .. query.to
        IN  /\ IsInjective(query.delivered)
            /\ Range(query.delivered) = covered \ Unreadable
            /\ query.forward => Ascending(query.delivered)

\* A query that returns and was neither aborted nor left without a stream has
\* delivered every readable message asked for that the node had at the first
\* reply and has not dropped since.
Expected == (Greatest(first, query.from) .. query.to) \ Unreadable
QueryIsComplete ==
    query.at = "done" /\ ~query.broken => Expected \subseteq Range(query.delivered)

\* A query that goes backward ends, whatever the node stores meanwhile: its
\* cursor only falls.  A query in either direction ends once the node stores
\* nothing more.  Nothing ends a forward query at a node that stores a message
\* between any two pages.
QueryEnds ==
    LET ended == query.at \in {"done", "failed"} IN
    /\ query.at = "stream" /\ ~query.forward ~> ended
    /\ <>[][last' = last]_last => (query.at = "stream" ~> ended)

-----------------------------------------------------------------------------
(* What the repository says, or one might expect, and the code does not keep. *)

\* "aborts when callback returns true" (tests/tests/store/index.node.spec.ts).
AbortStops == aborted => query.at \notin {"stream", "request"}

\* queryGenerator "throws ... if an error occurs during the query" (sdk store).
EndIsComplete ==
    query.at = "done" /\ ~aborted /\ query.mode # "generator" =>
        Expected \subseteq Range(query.delivered)

\* A query is over with the history that its first reply saw: not so for one that
\* goes forward, which follows what the node stores meanwhile.
EndsWithHistory == query.at = "page" => query.hi <= query.to
=============================================================================
