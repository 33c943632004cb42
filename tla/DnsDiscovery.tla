------------------------------ MODULE DnsDiscovery ------------------------------
(***************************************************************************)
(* DNS discovery of @waku/discovery (discovery/src/dns/): findPeers takes  *)
(* node records out of a DNS tree until it has the capabilities it wants,  *)
(* and tags their peers as bootstrap peers.                                *)
(*                                                                         *)
(* One search descends from the domain to one record by random branches.   *)
(* The subdomains it passes are marked as visited for all searches of the  *)
(* same findPeers, and a branch only goes to subdomains not marked yet, so *)
(* what is under a visited branch is out of reach for the next search.     *)
(*                                                                         *)
(* Where findPeers is:                                                     *)
(*   search   _search waits for the TXT record of subdomain "next"         *)
(*   has, get, merge, save: that operation of the peer store is running    *)
(***************************************************************************)
EXTENDS PeerStore

CONSTANTS
    Subdomains,    \* of the tree, the domain itself included
    Domain,
    EntryType,     \* "root", "branch", "record" or "other", by subdomain; "other"
                   \* is also an entry that does not verify or parse
    Children,      \* where a branch leads, and the one place a root leads to
    NodeOf,        \* the peer of a record, by subdomain
    Capabilities,  \* those the node of a peer has, by peer
    Wanted,        \* how many nodes are wanted, by capability
    errorTolerance

Protocols == {"relay", "store", "filter", "lightPush"}

\* What is assumed of the constants, where this module is instantiated.
DnsDiscoveryAssumption ==
    /\ Domain \in Subdomains
    /\ EntryType \in [Subdomains -> {"root", "branch", "record", "other"}]
    /\ Children \in [Subdomains -> SUBSET Subdomains]
    /\ \A s \in Subdomains : EntryType[s] = "root" =>
         \E next \in Subdomains : Children[s] = {next}
    /\ NodeOf \in [Subdomains -> Peers]
    /\ Capabilities \in [Peers -> SUBSET Protocols]
    /\ Wanted \in [Protocols -> Nat]
    /\ errorTolerance \in Nat

VARIABLES
    _started,
    find,    \* the call of findPeers
    cached   \* _DNSTreeCache: the subdomains whose record is known

dnsVars == <<_started, find, cached>>

NothingFound == [c \in Protocols |-> 0]
NotFinding == [at |-> "idle", next |-> Domain, visits |-> {}, searches |-> 0,
               actual |-> NothingFound, nodes |-> {}, taken |-> {},
               peer |-> None]

TypeOK ==
    /\ _started \in BOOLEAN
    /\ DOMAIN find = DOMAIN NotFinding
    /\ find.at \in {"idle", "search", "has", "get", "merge", "save"}
    /\ find.next \in Subdomains
    /\ find.visits \subseteq Subdomains
    /\ find.searches \in Nat
    /\ find.actual \in [Protocols -> Nat]
    /\ find.nodes \subseteq Peers /\ find.taken \subseteq find.nodes
    /\ find.at \in {"has", "get", "merge", "save"} => find.peer \in Peers
    /\ cached \subseteq Subdomains

Init ==
    /\ _started = FALSE
    /\ find = NotFinding
    /\ cached = {}

-----------------------------------------------------------------------------
(* yieldNodesUntilCapabilitiesFulfilled. *)

isSatisfied(actual) == \A c \in Protocols : actual[c] >= Wanted[c]

maxSearches ==
    Wanted["relay"] + Wanted["store"] + Wanted["filter"] + Wanted["lightPush"]

SearchesOn(actual, searches) ==
    ~isSatisfied(actual) /\ searches < maxSearches + errorTolerance

\* The mutant takes any peer.
AnyPeerHelps(peer, actual) == TRUE
helpsSatisfyCapabilities(peer, actual) ==
    \E c \in Capabilities[peer] : actual[c] < Wanted[c]
addCapabilities(peer, actual) ==
    [c \in Protocols |-> actual[c] + IF c \in Capabilities[peer] THEN 1 ELSE 0]

\* The loop goes on with f: a new search from the domain, or the end.
Loop(f) ==
    IF SearchesOn(f.actual, f.searches)
    THEN [f EXCEPT !.at = "search", !.next = Domain, !.peer = None]
    ELSE NotFinding

\* A search of f has ended with a record of a peer, or with nothing (None): a
\* peer that is new and helps counts and is taken, unless its record does not
\* describe it (it has no address).
Searched(f, peer, described) ==
    LET g == [f EXCEPT !.searches = @ + 1, !.nodes = (@ \cup {peer}) \ {None}] IN
    IF \/ peer \in f.nodes \cup {None}
       \/ ~helpsSatisfyCapabilities(peer, f.actual)
    THEN Loop(g)
    ELSE IF ~_started THEN NotFinding
    ELSE IF ~described THEN Loop([g EXCEPT !.actual = addCapabilities(peer, @)])
    ELSE [g EXCEPT !.actual = addCapabilities(peer, @), !.at = "has",
                   !.taken = @ \cup {peer}, !.peer = peer]

-----------------------------------------------------------------------------
(* start, stop, findPeers *)

\* start begins a search of its own; a findPeers of an earlier start that is
\* still running is not modelled.
start ==
    /\ ~_started
    /\ find.at = "idle"
    /\ _started' = TRUE
    /\ find' = Loop(NotFinding)
    /\ UNCHANGED <<cached, store, announced>>

\* The loop notices at its next peer.
stop ==
    /\ _started
    /\ _started' = FALSE
    /\ UNCHANGED <<find, cached, store, announced>>

\* resolveTXT throws, or its answer is empty: the search ends with nothing, every
\* level of it catches the error, and the subdomain is neither cached nor visited.
SearchFails ==
    /\ find.at = "search"
    /\ find.next \notin cached
    /\ find' = Searched(find, None, FALSE)
    /\ UNCHANGED <<_started, cached, store, announced>>

\* selectRandomPath; the mutant forgets which were visited.
AnyPath(branches, visits) == branches
Viable(branches, visits) == branches \ visits

\* The TXT record of the subdomain is there, fetched or out of the cache.
Resolved ==
    LET s == find.next
        f == [find EXCEPT !.visits = @ \cup {s}]
        branches == Viable(Children[s], f.visits)
    IN  /\ find.at = "search"
        /\ cached' = cached \cup {s}
        /\ \/ /\ EntryType[s] = "root"
              /\ \E next \in Children[s] : find' = [f EXCEPT !.next = next]
           \/ /\ EntryType[s] = "branch"
              /\ branches # {}
              /\ \E next \in branches : find' = [f EXCEPT !.next = next]
           \/ /\ \/ EntryType[s] = "other"
                 \/ EntryType[s] = "branch" /\ branches = {}
              /\ find' = Searched(f, None, FALSE)
           \/ /\ EntryType[s] = "record"
              /\ \E described \in BOOLEAN :
                   find' = Searched(f, NodeOf[s], described)
        /\ UNCHANGED <<_started, store, announced>>

-----------------------------------------------------------------------------
(* What findPeers does with a peer. *)

Has ==
    /\ find.at = "has"
    /\ find' = [find EXCEPT !.at = IF store[find.peer].known THEN "get" ELSE "save"]
    /\ UNCHANGED <<_started, cached, store, announced>>

\* A known peer is only tagged, unless it is already.
Get ==
    /\ find.at = "get"
    /\ find' = IF "bootstrap" \in store[find.peer].tags THEN Loop(find)
               ELSE [find EXCEPT !.at = "merge"]
    /\ UNCHANGED <<_started, cached, store, announced>>

Merge ==
    /\ find.at = "merge"
    /\ store' = MergedTag(find.peer, "bootstrap")
    /\ announced' = announced \cup {find.peer}
    /\ find' = Loop(find)
    /\ UNCHANGED <<_started, cached>>

\* A new peer is saved without its addresses, which go with the event.
Save ==
    /\ find.at = "save"
    /\ \E shards \in Versions \cup {None} :
         store' = Saved(find.peer, "bootstrap", None, shards)
    /\ announced' = announced \cup {find.peer}
    /\ find' = Loop(find)
    /\ UNCHANGED <<_started, cached>>

\* That operation rejects, and findPeers with it.
StoreFails ==
    /\ find.at \in {"has", "get", "merge", "save"}
    /\ find' = NotFinding
    /\ UNCHANGED <<_started, cached, store, announced>>

FindStep == SearchFails \/ Resolved \/ Has \/ Get \/ Merge \/ Save \/ StoreFails

StartStep == start \/ stop

-----------------------------------------------------------------------------
\* Roots that lead only to roots, for ever.
EndlessRoots ==
    UNION {R \in SUBSET {s \in Subdomains : EntryType[s] = "root"} :
             \A s \in R : Children[s] \subseteq R}

\* findPeers ends, whatever circles and dead ends its branches make, unless it
\* comes to a root from which roots lead only to roots: the visited subdomains
\* are tested at a branch (dns.ts:119-122), but not at a root (dns.ts:116-118).
SearchEnds ==
    find.at # "idle" ~>
      \/ find.at = "idle"
      \/ find.at = "search" /\ find.next \in EndlessRoots

\* No search comes to a record that an earlier one has returned, except to one
\* that is the tree or all of it, and hangs under no branch.
UnderNoBranch ==
    {Domain} \cup UNION {Children[s] : s \in {r \in Subdomains : EntryType[r] = "root"}}
RecordsDiffer ==
    find.at = "search" /\ EntryType[find.next] = "record"
      /\ find.next \notin UnderNoBranch => find.next \notin find.visits

\* No more peers become bootstrap peers than capabilities are wanted, though
\* one peer may have several and a capability many peers.
NoPeerTooMany == Cardinality(find.taken) <= maxSearches

-----------------------------------------------------------------------------
\* findPeers ends in every tree, as the client "must track subdomains which are
\* already resolved to avoid going into an infinite loop" (dns.ts:189-191): not
\* so when a root leads to itself, or to another root that leads back.
EverySearchEnds == find.at # "idle" ~> find.at = "idle"
=============================================================================
