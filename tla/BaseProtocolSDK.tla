--------------------------- MODULE BaseProtocolSDK ---------------------------
(***************************************************************************)
(* The peers a protocol of the SDK uses: PeerManager                       *)
(* (sdk/src/protocols/peer_manager.ts) and BaseProtocolSDK                 *)
(* (sdk/src/protocols/base_protocol.ts), which keeps the list at           *)
(* numPeersToUse and replaces peers.  This is the instance of one protocol,*)
(* Filter; light push reports its health to the same health manager.       *)
(*                                                                         *)
(* Calls in flight are members of Tasks, of three kinds: maintain (a tick  *)
(* of the interval), hasPeers and renewPeer.  Their "at" is the await they *)
(* are suspended in:                                                       *)
(*   count    getPeerCount, before the read mutex runs it                  *)
(*   counted  getPeerCount, with the result                                *)
(*   peers    core.getPeers, in findPeers                                  *)
(*   find     findPeers, before the read mutex runs it                     *)
(*   write    between two calls of addPeer or removePeer                   *)
(*   mutex    the write mutex, or attemptDial while holding it             *)
(*   check    maintainPeers, in hasPeers                                   *)
(* The read mutex guards synchronous code only and is always granted; the  *)
(* write mutex is first come, first served.  writeLockHolder is only for   *)
(* debugging and is left out.                                              *)
(***************************************************************************)
EXTENDS HealthManager, Integers, FiniteSets, Sequences, SequencesExt

CONSTANTS
    Peers,           \* remote peers that support the protocol
    Bootstrap,       \* those of them tagged "bootstrap"
    Tasks,           \* ids of the calls in flight (bound)
    Asking,          \* those that hasPeers may have (bound)
    numPeersToUse,
    maxAttempts,     \* of hasPeers
    Renewals,        \* how many renewPeer calls there may be (bound)
    LightPushCounts  \* the peer counts light push may report (bound)

ASSUME BaseProtocolAssumption ==
    /\ IsFiniteSet(Peers)
    /\ Bootstrap \subseteq Peers
    /\ Asking \subseteq Tasks
    /\ numPeersToUse \in Nat \ {0}
    /\ maxAttempts \in Nat \ {0}
    /\ Renewals \in Nat
    /\ LightPushCounts \subseteq Nat

VARIABLES
    peers,        \* PeerManager.peers, in the order of the Map
    writeMutex,   \* the holder of the write mutex and those who wait for it
    task,         \* the calls in flight
    maintaining,  \* the maintain interval runs
    renewed,      \* how many renewPeer calls were made
    connected     \* libp2p: the peers with an open connection

vars == <<peers, writeMutex, task, maintaining, renewed, connected, healthVars>>

Kinds == {"none", "maintain", "hasPeers", "renew"}
TaskStates == {"idle", "count", "counted", "peers", "find", "write", "mutex",
               "check", "true", "false", "undefined", "renewed", "rejected"}

\* The states in which a call has returned.
Ended == {"idle", "true", "false", "undefined", "renewed", "rejected"}

IdleTask == [kind |-> "none", at |-> "idle", number |-> 0, found |-> <<>>,
             toRemove |-> <<>>, toAdd |-> <<>>, attempt |-> 0, force |-> FALSE]

ListOfPeers(s) == s \in Seq(Peers) /\ IsInjective(s)

TypeOK ==
    /\ ListOfPeers(peers)
    /\ writeMutex \in Seq(Tasks) /\ IsInjective(writeMutex)
    /\ \A t \in Tasks :
         /\ DOMAIN task[t] = DOMAIN IdleTask
         /\ task[t].kind \in Kinds /\ task[t].at \in TaskStates
         /\ task[t].number \in Int
         /\ \A l \in {"found", "toRemove", "toAdd"} : ListOfPeers(task[t][l])
         /\ task[t].attempt \in 0 .. maxAttempts - 1
         /\ task[t].force \in BOOLEAN
         /\ task[t].at = "mutex" <=> t \in Range(writeMutex)
    /\ maintaining \in BOOLEAN
    /\ renewed \in 0 .. Renewals
    /\ connected \subseteq Peers
    /\ HealthTypeOK

\* The constructors: Filter reports no peers, light push reports nothing before
\* its first send; the interval is started.
Init ==
    /\ peers = <<>>
    /\ writeMutex = <<>>
    /\ task = [t \in Tasks |-> IdleTask]
    /\ maintaining = TRUE
    /\ renewed = 0
    /\ connected \in SUBSET Peers
    /\ protocolStatuses = [p \in Protocols |->
                             IF p = "Filter" THEN StatusOf(0) ELSE "undefined"]
    /\ overallStatus = "Unhealthy"

-----------------------------------------------------------------------------
FirstOf(s, n) == SubSeq(s, 1, IF n < Len(s) THEN n ELSE Len(s))

\* The peers a protocol hands to its user.
connectedPeers == FirstOf(peers, numPeersToUse)

\* core.getPeers() with its defaults: connected peers without the bootstrap
\* ones, by latency, which may be any order.
getPeers == SetToSeqs(connected \ Bootstrap)

\* removeExcessPeers: the peers that have been in use longest.  The mutant is
\* off by one.
OneExcessPeerKept(n) == FirstOf(peers, n - 1)
ExcessPeers(n) == FirstOf(peers, n)

\* The elements of a list at some of its places, in order.
Sublist(list, places) ==
    LET rank(i) == Cardinality({j \in places : j <= i})
    IN  [k \in 1 .. Cardinality(places) |->
           list[CHOOSE i \in places : rank(i) = k]]

\* findPeers: the first n of a list that are not in use.
NewPeers(list, n) ==
    FirstOf(Sublist(list, {i \in DOMAIN list : ~Contains(peers, list[i])}), n)

Goes(t, to) == task' = [task EXCEPT ![t].at = to]

\* maintainPeers returns: to the interval, which forgets it, or to hasPeers.
MaintainReturns(t) ==
    task' = [task EXCEPT ![t] =
               IF task[t].kind = "hasPeers"
               THEN [task[t] EXCEPT !.at = "check", !.number = 0,
                                    !.toRemove = <<>>, !.toAdd = <<>>]
               ELSE IdleTask]

-----------------------------------------------------------------------------
(* Calls. *)

\* A tick of the maintain interval.  A tick does not wait for the one before.
Tick(t) ==
    /\ maintaining
    /\ task[t].at \in Ended
    /\ task' = [task EXCEPT ![t] = [IdleTask EXCEPT !.kind = "maintain",
                                                    !.at = "count"]]
    /\ UNCHANGED <<peers, writeMutex, maintaining, renewed, connected, healthVars>>

\* hasPeers starts with maintainPeers.
HasPeers(t, force) ==
    /\ t \in Asking
    /\ task[t].at \in Ended
    /\ task' = [task EXCEPT ![t] = [IdleTask EXCEPT !.kind = "hasPeers",
                                                    !.at = "count",
                                                    !.force = force]]
    /\ UNCHANGED <<peers, writeMutex, maintaining, renewed, connected, healthVars>>

\* renewPeer starts with findPeers(1).
RenewPeer(t, p) ==
    /\ renewed < Renewals
    /\ renewed' = renewed + 1
    /\ task[t].at \in Ended
    /\ task' = [task EXCEPT ![t] = [IdleTask EXCEPT !.kind = "renew",
                                                    !.at = "peers",
                                                    !.number = 1,
                                                    !.toRemove = <<p>>]]
    /\ UNCHANGED <<peers, writeMutex, maintaining, connected, healthVars>>

stopMaintainPeersInterval ==
    /\ maintaining
    /\ maintaining' = FALSE
    /\ UNCHANGED <<peers, writeMutex, task, renewed, connected, healthVars>>

-----------------------------------------------------------------------------
(* maintainPeers and findPeers. *)

\* getPeerCount reads the size of the list; the caller subtracts it.
ReadCount(t) ==
    /\ task[t].at = "count"
    /\ task' = [task EXCEPT ![t].at = "counted",
                            ![t].number = numPeersToUse - Len(peers)]
    /\ UNCHANGED <<peers, writeMutex, maintaining, renewed, connected, healthVars>>

\* maintainPeers decides: nothing to do, peers to find, peers to remove.
Maintain(t) ==
    LET n == task[t].number IN
    /\ task[t].at = "counted"
    /\ \/ n = 0 /\ MaintainReturns(t)
       \/ n > 0 /\ Goes(t, "peers")
       \/ /\ n < 0
          /\ task' = [task EXCEPT ![t].at = "write",
                                  ![t].toRemove = ExcessPeers(-n)]
    /\ UNCHANGED <<peers, writeMutex, maintaining, renewed, connected, healthVars>>

\* core.getPeers resolves.
GetPeers(t) ==
    /\ task[t].at = "peers"
    /\ \E list \in getPeers :
         task' = [task EXCEPT ![t].at = "find", ![t].found = list]
    /\ UNCHANGED <<peers, writeMutex, maintaining, renewed, connected, healthVars>>

\* The rest of findPeers, and what its caller does with the result: renewPeer
\* gives up without a new peer, maintainPeers has nothing to add then.
FindPeers(t) ==
    LET new == NewPeers(task[t].found, task[t].number) IN
    /\ task[t].at = "find"
    /\ task' = [task EXCEPT ![t] =
                  IF task[t].kind = "renew" /\ new = <<>>
                  THEN [task[t] EXCEPT !.at = "undefined", !.found = <<>>]
                  ELSE [task[t] EXCEPT !.at = "write", !.found = <<>>,
                                       !.toAdd = new]]
    /\ UNCHANGED <<peers, writeMutex, maintaining, renewed, connected, healthVars>>

-----------------------------------------------------------------------------
(* removePeer and addPeer, one after the other, each under the mutex. *)

\* The next removePeer or addPeer asks for the mutex, or none is left.
Write(t) ==
    /\ task[t].at = "write"
    /\ IF task[t].toRemove = <<>> /\ task[t].toAdd = <<>>
       THEN /\ IF task[t].kind = "renew" THEN Goes(t, "renewed")
               ELSE MaintainReturns(t)
            /\ UNCHANGED writeMutex
       ELSE /\ Goes(t, "mutex")
            /\ writeMutex' = Append(writeMutex, t)
    /\ UNCHANGED <<peers, maintaining, renewed, connected, healthVars>>

\* The body of addPeer and of removePeer ends with the report of the size of
\* the list; the mutant of what is reported counts before the change.
CountBefore(list) == Len(peers)
CountAfter(list) == Len(list)

SetPeers(list) ==
    /\ peers' = list
    /\ updateProtocolHealth("Filter", CountAfter(list))

\* removePeer, which is synchronous under the mutex.
RemovePeer(t) ==
    /\ writeMutex # <<>> /\ Head(writeMutex) = t
    /\ task[t].toRemove # <<>>
    /\ SetPeers(RemoveFirst(peers, Head(task[t].toRemove)))
    /\ writeMutex' = Tail(writeMutex)
    /\ task' = [task EXCEPT ![t].at = "write", ![t].toRemove = Tail(@)]
    /\ UNCHANGED <<maintaining, renewed, connected>>

\* addPeer, once attemptDial has returned: whether or not it dialled, and
\* whether or not the peer is still connected.
AddPeer(t) ==
    LET p == Head(task[t].toAdd) IN
    /\ writeMutex # <<>> /\ Head(writeMutex) = t
    /\ task[t].toRemove = <<>>
    /\ SetPeers(IF Contains(peers, p) THEN peers ELSE Append(peers, p))
    /\ writeMutex' = Tail(writeMutex)
    /\ task' = [task EXCEPT ![t].at = "write", ![t].toAdd = Tail(@)]
    /\ UNCHANGED <<maintaining, renewed, connected>>

\* attemptDial throws (the peer left, and the peer store forgot it): the mutex
\* is released, maintainPeers only logs the error, renewPeer rejects.
AddPeerFails(t) ==
    /\ writeMutex # <<>> /\ Head(writeMutex) = t
    /\ task[t].toRemove = <<>>
    /\ Head(task[t].toAdd) \notin connected
    /\ writeMutex' = Tail(writeMutex)
    /\ IF task[t].kind = "renew" THEN Goes(t, "rejected") ELSE MaintainReturns(t)
    /\ UNCHANGED <<peers, maintaining, renewed, connected, healthVars>>

-----------------------------------------------------------------------------
\* hasPeers after maintainPeers: enough peers, another attempt, or none left.
EnoughPeers(t) ==
    \/ ~task[t].force /\ Len(connectedPeers) > 0
    \/ Len(connectedPeers) >= numPeersToUse

\* The loop of hasPeers.  The mutants never count an attempt, and make one
\* too many.
AttemptNotCounted(t) == task[t].attempt
NextAttempt(t) == task[t].attempt + 1

OneAttemptTooMany(attempt) == attempt <= maxAttempts
AttemptsLeft(attempt) == attempt < maxAttempts

CheckPeers(t) ==
    /\ task[t].at = "check"
    /\ task' = [task EXCEPT ![t] =
                  IF EnoughPeers(t) THEN [task[t] EXCEPT !.at = "true"]
                  ELSE IF AttemptsLeft(NextAttempt(t))
                  THEN [task[t] EXCEPT !.at = "count", !.attempt = NextAttempt(t)]
                  ELSE [task[t] EXCEPT !.at = "false"]]
    /\ UNCHANGED <<peers, writeMutex, maintaining, renewed, connected, healthVars>>

-----------------------------------------------------------------------------
(* The rest of the node. *)

Connect(p) ==
    /\ p \notin connected
    /\ connected' = connected \cup {p}
    /\ UNCHANGED <<peers, writeMutex, task, maintaining, renewed, healthVars>>

\* The peer stays in the list: nothing listens for that here.
Disconnect(p) ==
    /\ p \in connected
    /\ connected' = connected \ {p}
    /\ UNCHANGED <<peers, writeMutex, task, maintaining, renewed, healthVars>>

\* A send of light push ends, with n successes (none if it had peers at all).
LightPushHealth(n) ==
    /\ StatusOf(n) # protocolStatuses["LightPush"]
    /\ updateProtocolHealth("LightPush", n)
    /\ UNCHANGED <<peers, writeMutex, task, maintaining, renewed, connected>>

-----------------------------------------------------------------------------
TaskStep(t) ==
    \/ ReadCount(t) \/ Maintain(t) \/ GetPeers(t) \/ FindPeers(t) \/ Write(t)
    \/ RemovePeer(t) \/ AddPeer(t) \/ AddPeerFails(t) \/ CheckPeers(t)

Next ==
    \/ \E t \in Tasks :
         \/ Tick(t) \/ TaskStep(t)
         \/ \E force \in BOOLEAN : HasPeers(t, force)
         \/ \E p \in Peers : RenewPeer(t, p)
    \/ stopMaintainPeersInterval
    \/ \E p \in Peers : Connect(p) \/ Disconnect(p)
    \/ \E n \in LightPushCounts : LightPushHealth(n)

Spec == Init /\ [][Next]_vars

\* The event loop resumes every suspended call, libp2p answers, and the
\* interval ticks when no other call keeps it from it.
Fairness == \A t \in Tasks : WF_vars(TaskStep(t))

FairSpec == Spec /\ Fairness
TickingSpec == FairSpec /\ \A t \in Tasks : SF_vars(Tick(t))

-----------------------------------------------------------------------------
(* What holds. *)

\* The health that Filter has reported is that of the list, whichever calls
\* add and remove peers, fail half way or overlap.
HealthReported == protocolStatuses["Filter"] = StatusOf(Len(peers))

\* The overall status is the worst that light push and filter have reported.
OverallIsWorst ==
    LET is(s) == \E p \in relevantProtocols : protocolStatuses[p] = s IN
    /\ overallStatus = "Unhealthy" <=> is("Unhealthy")
    /\ overallStatus = "SufficientlyHealthy" <=>
           ~is("Unhealthy") /\ ~is("MinimallyHealthy")

\* Every call returns: a failing addPeer gives the mutex back, nobody waits
\* for it for ever, and hasPeers stops trying.
CallsReturn == \A t \in Tasks : task[t].at \notin Ended ~> task[t].at \in Ended

OneCallAtMost ==
    \A t, u \in Tasks : task[t].at \notin Ended /\ task[u].at \notin Ended => t = u

\* Once all peers are connected and calls no longer overlap, the interval
\* brings the list to numPeersToUse and it stays there, from whatever
\* overlapping calls, renewals and lost peers have left behind.
Converges ==
    <>[](maintaining /\ connected = Peers /\ OneCallAtMost)
        => <>[](Len(peers) = numPeersToUse)

-----------------------------------------------------------------------------
(* What the repository says and the code does not keep. *)

\* Without light push peers a node is unhealthy (getExpectedNodeHealth in
\* tests/health-manager/node.spec.ts), also before any message was sent.
NoLightPushUnhealthy ==
    protocolStatuses["LightPush"] = "undefined" => overallStatus = "Unhealthy"

\* renewPeer "Disconnects from a peer and tries to find a new one to replace
\* it" (base_protocol.ts): the peer that renewPeer adds is a further one.
RenewalReplaces ==
    [][\A t \in Tasks :
         (/\ task[t].kind = "renew" /\ task[t].toRemove = <<>>
          /\ task[t].at = "mutex" /\ task'[t].at = "write") => peers' # peers]_vars
=============================================================================
