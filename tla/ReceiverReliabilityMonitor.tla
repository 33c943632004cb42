---------------------- MODULE ReceiverReliabilityMonitor ----------------------
(***************************************************************************)
(* The reliability monitor of one pubsub topic of Filter                   *)
(* (sdk/src/reliability_monitor/receiver.ts) with the part of the          *)
(* subscription manager that probes a peer (sendLightPushCheckMessage):    *)
(* peers whose pings fail, that disconnect, or that do not return a probe  *)
(* message are renewed, one renewal per peer at a time by a lock.          *)
(*                                                                         *)
(* Calls in flight are members of Tasks.  A call is a ping of a peer, the  *)
(* handling of a disconnect, a verification that failed, or the            *)
(* subscription to a peer by the user's subscribe.  Its "at" is the await  *)
(* it is suspended in:                                                     *)
(*   ping       the answer of the ping                                     *)
(*   find       renewPeer, before it has a new peer                        *)
(*   remove     renewPeer, in removePeer                                   *)
(*   add        renewPeer, in addPeer                                      *)
(*   subscribe  the answer of the subscribe request                        *)
(*   encode     the encoding of the probe message                          *)
(*   end        sendLightPushMessage, which sent nothing                   *)
(*   resume     handlePingResult, resumed after the renewal                *)
(*                                                                         *)
(* Which message is received matters only to the subscription manager:     *)
(* whoever received the probe has received some message, so verifiedPeers  *)
(* stands for receivedMessagesFormPeer too.                                *)
(***************************************************************************)
EXTENDS Naturals, FiniteSets

CONSTANTS
    Peers,      \* remote peers that support filter
    Tasks,      \* ids of the calls in flight (bound)
    NoPeer,
    Limits,     \* the values of pingsBeforePeerRenewed
    MaxProbes   \* probes per peer with which no further call starts (bound)

ASSUME MonitorAssumption ==
    /\ NoPeer \notin Peers
    /\ Limits \subseteq Nat \ {0} /\ Limits # {}
    /\ MaxProbes \in Nat \ {0}

VARIABLES
    peers,                 \* the peers the protocol uses
    task,                  \* the calls in flight
    peerFailures,          \* failed pings in a row; 0 stands for no entry
    maxPingFailures,
    peerRenewalLocks,
    verifiedPeers,
    scheduledVerification, \* the peers with an entry in that map
    timers,                \* the verification timers that run, per peer
    probes                 \* the probes on their way, per peer

vars == <<peers, task, peerFailures, maxPingFailures, peerRenewalLocks,
          verifiedPeers, scheduledVerification, timers, probes>>
verification == <<verifiedPeers, scheduledVerification, timers>>

Kinds == {"none", "ping", "disconnect", "verify", "subscribe"}
RenewalStates == {"find", "remove", "add", "subscribe", "encode", "end"}
TaskStates == RenewalStates \cup {"idle", "ping", "resume"}

IdleTask == [kind |-> "none", at |-> "idle", peer |-> NoPeer, new |-> NoPeer]

TaskOK(c) ==
    /\ c \in [kind : Kinds, at : TaskStates, peer : Peers \cup {NoPeer},
             new : Peers \cup {NoPeer}]
    /\ c.at = "idle" => c = IdleTask
    /\ c.kind = "none" => c = IdleTask
    /\ c.at \in {"ping", "resume"} => c.kind = "ping"
    /\ c.kind = "subscribe" => c.at \in {"subscribe", "encode", "end"}
    /\ c.kind \in {"ping", "disconnect", "verify"} => c.peer \in Peers
    /\ c.at \in {"remove", "add", "subscribe", "encode", "end"} => c.new \in Peers

TypeOK ==
    /\ peers \subseteq Peers
    /\ DOMAIN task = Tasks /\ \A t \in Tasks : TaskOK(task[t])
    /\ peerFailures \in [Peers -> Nat]
    /\ maxPingFailures \in Limits
    /\ peerRenewalLocks \subseteq Peers
    /\ verifiedPeers \subseteq Peers
    /\ scheduledVerification \subseteq Peers
    /\ timers \in [Peers -> Nat]
    /\ probes \in [Peers -> Nat]

Init ==
    /\ peers \in SUBSET Peers
    /\ task = [t \in Tasks |-> IdleTask]
    /\ peerFailures = [p \in Peers |-> 0]
    /\ maxPingFailures \in Limits
    /\ peerRenewalLocks = {}
    /\ verifiedPeers = {}
    /\ scheduledVerification = {}
    /\ timers = [p \in Peers |-> 0]
    /\ probes = [p \in Peers |-> 0]

-----------------------------------------------------------------------------
Idle(t) == task[t].at = "idle"
Goes(t, to) == task' = [task EXCEPT ![t].at = to]
Called(t, kind, p, to) ==
    task' = [task EXCEPT ![t] = [IdleTask EXCEPT !.kind = kind, !.at = to,
                                                 !.peer = p]]

\* Calls that nobody has to make wait until few probes are on their way.
Room == \A p \in Peers : probes[p] < MaxProbes

\* The state in which renewAndSubscribePeer leaves its caller: only
\* handlePingResult goes on.
After(kind) == IF kind = "ping" THEN "resume" ELSE "idle"
RenewalReturns(t) ==
    task' = [task EXCEPT ![t] =
               IF After(@.kind) = "idle" THEN IdleTask
               ELSE [@ EXCEPT !.at = "resume", !.new = NoPeer]]

\* renewAndSubscribePeer up to its first await.  A call that finds the lock
\* taken returns, and its finally clause deletes the lock.
Renew(t, kind, p) ==
    IF p \in peerRenewalLocks
    THEN /\ peerRenewalLocks' = peerRenewalLocks \ {p}
         /\ IF After(kind) = "idle" THEN task' = [task EXCEPT ![t] = IdleTask]
            ELSE Called(t, kind, p, "resume")
    ELSE /\ peerRenewalLocks' = peerRenewalLocks \cup {p}
         /\ Called(t, kind, p, "find")

-----------------------------------------------------------------------------
(* Pings. *)

\* pingSpecificPeer, by the keep-alive interval or by the user.
Ping(t, p) ==
    /\ Room /\ Idle(t)
    /\ p \in peers
    /\ Called(t, "ping", p, "ping")
    /\ UNCHANGED <<peers, peerFailures, maxPingFailures, peerRenewalLocks,
                   verification, probes>>

\* handlePingResult.
PingSucceeds(t) ==
    /\ task[t].at = "ping"
    /\ peerFailures' = [peerFailures EXCEPT ![task[t].peer] = 0]
    /\ task' = [task EXCEPT ![t] = IdleTask]
    /\ UNCHANGED <<peers, maxPingFailures, peerRenewalLocks, verification, probes>>

PingFails(t) ==
    LET p == task[t].peer IN
    /\ task[t].at = "ping"
    /\ peerFailures' = [peerFailures EXCEPT ![p] = @ + 1]
    /\ IF peerFailures'[p] >= maxPingFailures
       THEN Renew(t, "ping", p)
       ELSE /\ task' = [task EXCEPT ![t] = IdleTask]
            /\ UNCHANGED peerRenewalLocks
    /\ UNCHANGED <<peers, maxPingFailures, verification, probes>>

\* handlePingResult after the renewal, whatever came of it.  The mutant
\* forgets to clear the failures.
FailuresKept(p) == peerFailures
FailuresCleared(p) == [peerFailures EXCEPT ![p] = 0]

PingResumes(t) ==
    /\ task[t].at = "resume"
    /\ peerFailures' = FailuresCleared(task[t].peer)
    /\ task' = [task EXCEPT ![t] = IdleTask]
    /\ UNCHANGED <<peers, maxPingFailures, peerRenewalLocks, verification, probes>>

setMaxPingFailures(n) ==
    /\ maxPingFailures # n
    /\ maxPingFailures' = n
    /\ UNCHANGED <<peers, task, peerFailures, peerRenewalLocks, verification,
                   probes>>

\* The listener for peer:disconnect; the peer may come back right away.
PeerDisconnects(t, p) ==
    /\ Room /\ Idle(t)
    /\ p \in peers
    /\ Renew(t, "disconnect", p)
    /\ UNCHANGED <<peers, peerFailures, maxPingFailures, verification, probes>>

-----------------------------------------------------------------------------
(* The awaits of renewAndSubscribePeer.  The steps of renewPeer are those of *)
(* BaseProtocolSDK, without the waits for its mutex.                          *)

\* The finally clause of a renewal; the mutant lacks it.
LockKept(p) == peerRenewalLocks
LockReleased(p) == peerRenewalLocks \ {p}

\* A renewal ends in any of the ways that do not reach the end of the try.
RenewalStops(t) ==
    /\ peerRenewalLocks' = LockReleased(task[t].peer)
    /\ RenewalReturns(t)

\* The check of the result of renewPeer; the mutant lacks it.
NeverNone(q) == FALSE
NoneFound(q) == q = NoPeer

RenewPeer(t, q) ==
    /\ task[t].at = "find"
    /\ q \notin peers
    /\ IF NoneFound(q) THEN RenewalStops(t)
       ELSE /\ task' = [task EXCEPT ![t].at = "remove", ![t].new = q]
            /\ UNCHANGED peerRenewalLocks
    /\ UNCHANGED <<peers, peerFailures, maxPingFailures, verification, probes>>

RemovePeer(t) ==
    /\ task[t].at = "remove"
    /\ peers' = peers \ {task[t].peer}
    /\ Goes(t, "add")
    /\ UNCHANGED <<peerFailures, maxPingFailures, peerRenewalLocks, verification,
                   probes>>

AddPeer(t) ==
    /\ task[t].at = "add"
    /\ peers' = peers \cup {task[t].new}
    /\ Goes(t, "subscribe")
    /\ UNCHANGED <<peerFailures, maxPingFailures, peerRenewalLocks, verification,
                   probes>>

\* attemptDial rejects.
AddPeerFails(t) ==
    /\ task[t].at = "add"
    /\ RenewalStops(t)
    /\ UNCHANGED <<peers, peerFailures, maxPingFailures, verification, probes>>

\* The subscribe request was answered; whether the remote peer accepted it is
\* not looked at.
shouldVerifyPeer(p) == p \notin verifiedPeers \cup scheduledVerification

Subscribed(t) ==
    /\ task[t].at = "subscribe"
    /\ Goes(t, IF shouldVerifyPeer(task[t].new) THEN "encode" ELSE "end")
    /\ UNCHANGED <<peers, peerFailures, maxPingFailures, peerRenewalLocks,
                   verification, probes>>

\* There was no stream to send the request.
SubscribeThrows(t) ==
    /\ task[t].at = "subscribe"
    /\ IF task[t].kind = "subscribe"
       THEN /\ task' = [task EXCEPT ![t] = IdleTask]
            /\ UNCHANGED peerRenewalLocks
       ELSE RenewalStops(t)
    /\ UNCHANGED <<peers, peerFailures, maxPingFailures, verification, probes>>

\* The probe, if any, is scheduled, and the renewal ends.
Finish(t) ==
    LET this == task[t] IN
    /\ this.at \in {"encode", "end"}
    /\ probes' = IF this.at = "encode" THEN [probes EXCEPT ![this.new] = @ + 1]
                 ELSE probes
    /\ IF this.kind = "subscribe"
       THEN /\ task' = [task EXCEPT ![t] = IdleTask]
            /\ UNCHANGED <<peerFailures, peerRenewalLocks>>
       ELSE /\ RenewalStops(t)
            /\ peerFailures' = [peerFailures EXCEPT ![this.peer] = 0]
    /\ UNCHANGED <<peers, maxPingFailures, verification>>

-----------------------------------------------------------------------------
(* Verification of peers. *)

\* subscribeWithPeerVerification, by the user's subscribe.
SubscribePeer(t, p) ==
    /\ Room /\ Idle(t)
    /\ p \in peers
    /\ task' = [task EXCEPT ![t] = [IdleTask EXCEPT !.kind = "subscribe",
                                                    !.at = "subscribe",
                                                    !.new = p]]
    /\ UNCHANGED <<peers, peerFailures, maxPingFailures, peerRenewalLocks,
                   verification, probes>>

\* notifyMessageSent, when the probe was sent, with or without success.  The
\* mutant schedules a second verification of a peer.
AlwaysSchedules(p) == TRUE
Schedules(p) == p \notin scheduledVerification

ProbeSent(p) ==
    /\ probes[p] > 0
    /\ probes' = [probes EXCEPT ![p] = @ - 1]
    /\ IF Schedules(p)
       THEN /\ timers' = [timers EXCEPT ![p] = @ + 1]
            /\ scheduledVerification' = scheduledVerification \cup {p}
       ELSE UNCHANGED <<timers, scheduledVerification>>
    /\ UNCHANGED <<peers, task, peerFailures, maxPingFailures, peerRenewalLocks,
                   verifiedPeers>>

\* What the verification timer looks at; the mutant asks shouldVerifyPeer.
VerifiedOrPending(p) == ~shouldVerifyPeer(p)
PushesMessages(p) == p \in verifiedPeers

\* The verification timer of a peer that pushes messages: the entry stays.
Verified(p) ==
    /\ timers[p] > 0
    /\ PushesMessages(p)
    /\ timers' = [timers EXCEPT ![p] = @ - 1]
    /\ UNCHANGED <<peers, task, peerFailures, maxPingFailures, peerRenewalLocks,
                   verifiedPeers, scheduledVerification, probes>>

\* The verification timer of a peer that has pushed nothing.
NotVerified(t, p) ==
    /\ Idle(t)
    /\ timers[p] > 0
    /\ ~PushesMessages(p)
    /\ timers' = [timers EXCEPT ![p] = @ - 1]
    /\ scheduledVerification' = scheduledVerification \ {p}
    /\ Renew(t, "verify", p)
    /\ UNCHANGED <<peers, peerFailures, maxPingFailures, verifiedPeers, probes>>

notifyMessageReceived(p) ==
    /\ verifiedPeers' = verifiedPeers \cup {p}
    /\ UNCHANGED <<peers, task, peerFailures, maxPingFailures, peerRenewalLocks,
                   scheduledVerification, timers, probes>>

\* maintainPeers of the protocol adds and removes peers.
MaintainPeers ==
    /\ \/ \E p \in Peers \ peers : peers' = peers \cup {p}
       \/ \E p \in peers : peers' = peers \ {p}
    /\ UNCHANGED <<task, peerFailures, maxPingFailures, peerRenewalLocks,
                   verification, probes>>

-----------------------------------------------------------------------------
Progress(t) ==
    \/ PingSucceeds(t) \/ PingFails(t) \/ PingResumes(t)
    \/ \E q \in Peers \cup {NoPeer} : RenewPeer(t, q)
    \/ RemovePeer(t) \/ AddPeer(t) \/ AddPeerFails(t)
    \/ Subscribed(t) \/ SubscribeThrows(t) \/ Finish(t)

TimerFires(p) == Verified(p) \/ \E t \in Tasks : NotVerified(t, p)

Next ==
    \/ \E t \in Tasks :
         \/ Progress(t)
         \/ \E p \in Peers : Ping(t, p) \/ PeerDisconnects(t, p)
                             \/ SubscribePeer(t, p)
    \/ \E p \in Peers : ProbeSent(p) \/ TimerFires(p) \/ notifyMessageReceived(p)
    \/ \E n \in Limits : setMaxPingFailures(n)
    \/ MaintainPeers

Spec == Init /\ [][Next]_vars

\* The event loop resumes every suspended call, requests are answered or fail,
\* timers fire.  Strong fairness for the timers: a timer does not depend on a
\* free id.
Fairness ==
    /\ \A t \in Tasks : WF_vars(Progress(t))
    /\ \A p \in Peers : WF_vars(ProbeSent(p)) /\ SF_vars(TimerFires(p))

FairSpec == Spec /\ Fairness

-----------------------------------------------------------------------------
(* What holds. *)

Renewing(t) == task[t].kind # "subscribe" /\ task[t].at \in RenewalStates

\* No exit of a renewal leaves its lock behind: a locked peer is being renewed
\* (or it could never be renewed again).
LockHasRenewal ==
    \A p \in peerRenewalLocks : \E t \in Tasks : Renewing(t) /\ task[t].peer = p

\* A peer whose count is at or above every limit, and so above the one in
\* force, is being handled by a call that clears its count: no count stays
\* there, where each further ping would renew, whatever limits were set between
\* the pings.  A count between two limits is not spoken of: nobody looks at it
\* when the limit is lowered, before the next ping.
FailuresAreHandled ==
    \A p \in Peers :
        (\A n \in Limits : peerFailures[p] >= n) =>
            \E t \in Tasks : /\ task[t].kind = "ping" /\ task[t].peer = p
                             /\ Renewing(t) \/ task[t].at = "resume"

\* A peer has at most one verification timer, and an entry without a timer,
\* which keeps the peer from being probed, only when it is verified: no peer
\* escapes verification by an old entry.
PendingIsPending ==
    \A p \in Peers :
        /\ timers[p] <= 1
        /\ timers[p] = 1 => p \in scheduledVerification
        /\ p \in scheduledVerification => timers[p] = 1 \/ p \in verifiedPeers

\* A probed peer turns out to push messages or is renewed.
ProbesConclude ==
    \A p \in Peers :
        timers[p] > 0 ~> p \in verifiedPeers \cup peerRenewalLocks

\* A renewal ends and its peer may be renewed again.
LocksReleased ==
    \A p \in Peers : p \in peerRenewalLocks ~> p \notin peerRenewalLocks

\* Neither a probe nor a renewal is left hanging.
MonitorConcludes == ProbesConclude /\ LocksReleased

-----------------------------------------------------------------------------
(* What the repository says and the code does not keep. *)

\* "Peer ... is already being renewed." (receiver.ts): no second renewal of a
\* peer starts while one runs.
OneRenewalPerPeer ==
    \A t, u \in Tasks :
        Renewing(t) /\ Renewing(u) /\ task[t].peer = task[u].peer => t = u
=============================================================================
