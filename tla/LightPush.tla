------------------------------ MODULE LightPush ------------------------------
(***************************************************************************)
(* Light push: LightPush.send and its retries of @waku/sdk                 *)
(* (sdk/src/protocols/light_push/light_push.ts) over LightPushCore.send of *)
(* @waku/core (core/src/lib/light_push/), which pushes a message to one    *)
(* service node.                                                           *)
(*                                                                         *)
(* Sends are the calls of send, each with a message of its own.  A push    *)
(* (one call of LightPushCore.send) is the await it is in:                 *)
(*   stream    getStream is running                                        *)
(*   request   the request is sent, the reply is not there                 *)
(*   a kind of answer: the service node has answered with it               *)
(* or its outcome, success or failure.  Which error a failure carries only *)
(* the caller sees; here each cause is a step of its own.                  *)
(* preparePushMessage reads nothing that changes and is part of the start  *)
(* of a push.  Core catches every error itself, so Promise.allSettled never*)
(* sees a rejection.  No timeout ends a push: a service node that keeps    *)
(* the stream open and never answers holds its send for ever.              *)
(***************************************************************************)
EXTENDS HealthManager, Integers, FiniteSets, Sequences, SequencesExt

CONSTANTS
    Peers,          \* service nodes
    Sends,          \* ids of the calls of send (bound)
    Retrying,       \* those with the option autoRetry
    numPeersToUse,
    maxAttempts,    \* the option of that name
    Messages,       \* the kinds of messages each call may send
    Answers         \* the kinds of answers given

MessageKinds == {"good", "empty", "big", "unencodable", "throws"}
AnswerKinds == {"accepted", "rejected", "rln", "noResponse", "garbage"}

ASSUME LightPushAssumption ==
    /\ IsFiniteSet(Peers)
    /\ Retrying \subseteq Sends
    /\ numPeersToUse \in Nat \ {0}
    /\ maxAttempts \in Nat
    /\ Messages \in [Sends -> SUBSET MessageKinds]
    /\ Answers \subseteq AnswerKinds

VARIABLES
    connected,  \* libp2p.getPeers(): connected service nodes, in its order
    send,       \* the calls of send
    push,       \* their pushes, by peer
    retry,      \* attemptRetries of the push that failed at that peer
    accepted,   \* service nodes: those that have taken the message
    pushes      \* how many pushes were started for the message

vars == <<connected, send, push, retry, accepted, pushes, healthVars>>

Outcomes == {"success", "failure"}
PushStates == {"none", "stream", "request"} \cup AnswerKinds \cup Outcomes

NoRetry == [at |-> "none", peers |-> <<>>, i |-> 0, push |-> "none"]
NoSend == [at |-> "idle", message |-> "good", peers |-> <<>>, successes |-> {},
           failures |-> 0]

ListOfPeers(s) == /\ s \in Seq(Peers) /\ IsInjective(s)
                  /\ Len(s) <= numPeersToUse

TypeOK ==
    /\ connected \in Seq(Peers) /\ IsInjective(connected)
    /\ \A s \in Sends :
         /\ DOMAIN send[s] = DOMAIN NoSend
         /\ send[s].at \in {"idle", "pushing", "returned"}
         /\ send[s].message \in MessageKinds
         /\ ListOfPeers(send[s].peers)
         /\ send[s].successes \subseteq Peers
         /\ send[s].failures \in Nat
         /\ accepted[s] \subseteq Peers
         /\ pushes[s] \in Nat
         /\ \A p \in Peers :
              /\ push[s][p] \in PushStates
              /\ DOMAIN retry[s][p] = DOMAIN NoRetry
              /\ retry[s][p].at \in {"none", "pushing", "over"}
              /\ ListOfPeers(retry[s][p].peers)
              /\ retry[s][p].at = "pushing" =>
                   retry[s][p].peers # <<>> /\ retry[s][p].push # "none"
              /\ retry[s][p].i \in Nat
              /\ retry[s][p].push \in PushStates
    /\ HealthTypeOK

\* Light push reports no health before its first send.
Init ==
    /\ connected \in UNION {SetToSeqs(c) : c \in SUBSET Peers}
    /\ send = [s \in Sends |-> NoSend]
    /\ push = [s \in Sends |-> [p \in Peers |-> "none"]]
    /\ retry = [s \in Sends |-> [p \in Peers |-> NoRetry]]
    /\ accepted = [s \in Sends |-> {}]
    /\ pushes = [s \in Sends |-> 0]
    /\ protocolStatuses = [p \in Protocols |-> "undefined"]
    /\ overallStatus = "Unhealthy"

-----------------------------------------------------------------------------
(* One push. *)

\* LightPushCore.send up to getStream: preparePushMessage refuses a message
\* without payload, one over the size cap, one the encoder has nothing for or
\* throws at.
StartPush(message) == IF message = "good" THEN "stream" ELSE "failure"

\* What a reply makes of a push: only a response that says isSuccess counts,
\* not one without a response, with an RLN error, or that cannot be decoded.
\* The mutant takes any reply for a success.
AnyReply(answer) == "success"
OutcomeOf(answer) == IF answer = "accepted" THEN "success" ELSE "failure"

\* The next states of a push to p other than an answer: the stream opens or
\* cannot be opened, it breaks, the reply is read or breaks off.
PushSteps(x, p) ==
    CASE x = "stream" -> {"failure"} \cup
           (IF Contains(connected, p) THEN {"request"} ELSE {})
      [] x = "request" -> {"failure"}
      [] x \in AnswerKinds -> {OutcomeOf(x), "failure"}
      [] OTHER -> {}

\* Promise.allSettled waits for every push; the mutant never sees one fail.
OnlySuccess(x) == x = "success"
IsOver(x) == x \in Outcomes

\* The service node p handles the request of a push of send s.
Answer(s, p, x, answer) ==
    /\ x = "request"
    /\ Contains(connected, p)
    /\ accepted' = IF answer = "accepted"
                   THEN [accepted EXCEPT ![s] = @ \cup {p}] ELSE accepted

\* getConnectedPeers reads libp2p.getPeers() before its first await; the peer
\* store it then asks is not a shared state of this module, so a send and a
\* retry go on to their pushes in the same step.
getConnectedPeers ==
    SubSeq(connected, 1,
           IF Len(connected) < numPeersToUse THEN Len(connected)
           ELSE numPeersToUse)

-----------------------------------------------------------------------------
(* send. *)

\* A call whose pubsub topic is configured (otherwise it returns at once and
\* touches nothing).  Without peers it fails with NO_PEER_AVAILABLE and reports
\* no health.
Send(s, message) ==
    LET peers == getConnectedPeers IN
    /\ send[s].at = "idle"
    /\ send' = [send EXCEPT ![s] =
                  IF peers = <<>>
                  THEN [@ EXCEPT !.at = "returned", !.failures = 1]
                  ELSE [@ EXCEPT !.at = "pushing", !.message = message,
                                 !.peers = peers]]
    /\ push' = [push EXCEPT ![s] = [p \in Peers |->
                  IF Contains(peers, p) THEN StartPush(message) ELSE "none"]]
    /\ pushes' = [pushes EXCEPT ![s] = Len(peers)]
    /\ UNCHANGED <<connected, retry, accepted, healthVars>>

Push(s, p) ==
    /\ \E x \in PushSteps(push[s][p], p) : push' = [push EXCEPT ![s][p] = x]
    /\ UNCHANGED <<connected, send, retry, accepted, pushes, healthVars>>

PushAnswered(s, p, answer) ==
    /\ Answer(s, p, push[s][p], answer)
    /\ push' = [push EXCEPT ![s][p] = answer]
    /\ UNCHANGED <<connected, send, retry, pushes, healthVars>>

\* What is reported to the health manager; the mutant reports the peers used.
PeersUsed(s, successes) == Len(send[s].peers)
HealthCount(s, successes) == Cardinality(successes)

\* attemptRetries up to its first push; without peers it gives up, which the
\* mutant forgets.
RetryWithoutPeers(message) ==
    [NoRetry EXCEPT !.at = "pushing", !.peers = getConnectedPeers,
                    !.push = StartPush(message)]
StartRetry(message) ==
    IF connected = <<>> THEN [NoRetry EXCEPT !.at = "over"]
    ELSE [NoRetry EXCEPT !.at = "pushing", !.peers = getConnectedPeers,
                         !.push = StartPush(message)]

\* All pushes are over: a retry is started for each that failed, and not
\* waited for.
SendReturns(s) ==
    LET used == Range(send[s].peers)
        successes == {p \in used : push[s][p] = "success"}
    IN  /\ send[s].at = "pushing"
        /\ \A p \in used : IsOver(push[s][p])
        /\ send' = [send EXCEPT ![s].at = "returned", ![s].peers = <<>>,
                                ![s].successes = successes,
                                ![s].failures = Cardinality(used \ successes)]
        /\ push' = [push EXCEPT ![s] = [p \in Peers |-> "none"]]
        /\ LET started == IF s \in Retrying THEN used \ successes ELSE {} IN
           /\ retry' = [retry EXCEPT ![s] = [p \in Peers |->
                          IF p \in started THEN StartRetry(send[s].message)
                          ELSE NoRetry]]
           /\ pushes' = [pushes EXCEPT ![s] =
                           IF connected = <<>> THEN @
                           ELSE @ + Cardinality(started)]
        /\ updateProtocolHealth("LightPush", HealthCount(s, successes))
        /\ UNCHANGED <<connected, accepted>>

-----------------------------------------------------------------------------
(* attemptRetries: one push after the other, over the peers in turn. *)

\* A maxAttempts of 0 means the default, as undefined does.
DEFAULT_MAX_ATTEMPTS == 3
AttemptLimit == IF maxAttempts = 0 THEN DEFAULT_MAX_ATTEMPTS ELSE maxAttempts

RetryTo(r) == r.peers[(r.i % Len(r.peers)) + 1]

\* Whether the loop goes on; the mutant makes one attempt too many.
OneAttemptTooMany(i) == i <= AttemptLimit
AttemptsLeft(i) == i < AttemptLimit

RetryPush(s, q) ==
    LET r == retry[s][q] IN
    /\ r.at = "pushing"
    /\ \E x \in PushSteps(r.push, RetryTo(r)) :
         retry' = [retry EXCEPT ![s][q].push = x]
    /\ UNCHANGED <<connected, send, push, accepted, pushes, healthVars>>

RetryAnswered(s, q, answer) ==
    LET r == retry[s][q] IN
    /\ r.at = "pushing"
    /\ Answer(s, RetryTo(r), r.push, answer)
    /\ retry' = [retry EXCEPT ![s][q].push = answer]
    /\ UNCHANGED <<connected, send, push, pushes, healthVars>>

\* The push of an attempt is over: the retry ends with a success or with the
\* last attempt.
RetryNext(s, q) ==
    LET r == retry[s][q] IN
    /\ r.at = "pushing"
    /\ IsOver(r.push)
    /\ IF r.push = "success" \/ ~AttemptsLeft(r.i + 1)
       THEN /\ retry' = [retry EXCEPT ![s][q] = [NoRetry EXCEPT !.at = "over"]]
            /\ UNCHANGED pushes
       ELSE /\ retry' = [retry EXCEPT ![s][q].i = @ + 1,
                                      ![s][q].push = StartPush(send[s].message)]
            /\ pushes' = [pushes EXCEPT ![s] = @ + 1]
    /\ UNCHANGED <<connected, send, push, accepted, healthVars>>

-----------------------------------------------------------------------------
\* libp2p.  A new connection comes last.
Connect(p) ==
    /\ ~Contains(connected, p)
    /\ connected' = Append(connected, p)
    /\ UNCHANGED <<send, push, retry, accepted, pushes, healthVars>>

Disconnect(p) ==
    /\ \E i \in DOMAIN connected :
         connected[i] = p /\ connected' = RemoveAt(connected, i)
    /\ UNCHANGED <<send, push, retry, accepted, pushes, healthVars>>

SendStep(s) ==
    \/ SendReturns(s)
    \/ \E p \in Peers : Push(s, p) \/ RetryPush(s, p) \/ RetryNext(s, p)

Next ==
    \/ \E s \in Sends :
         \/ SendStep(s)
         \/ \E message \in Messages[s] : Send(s, message)
         \/ \E p \in Peers, answer \in Answers :
              PushAnswered(s, p, answer) \/ RetryAnswered(s, p, answer)
    \/ \E p \in Peers : Connect(p) \/ Disconnect(p)

Spec == Init /\ [][Next]_vars

\* The event loop resumes what is suspended; a request is answered or its
\* stream breaks.
Fairness == \A s \in Sends : WF_vars(SendStep(s))

FairSpec == Spec /\ Fairness

-----------------------------------------------------------------------------
(* What holds. *)

Returned(s) == send[s].at = "returned"

\* A send reports as a success only a service node that has taken the message,
\* whatever breaks after the node has answered.
SuccessIsTrue ==
    \A s \in Sends : send[s].successes \subseteq accepted[s]

\* Light push is reported healthy only if some message was taken by as many
\* service nodes as that takes, however sends overlap and lose peers.
HealthIsEarned ==
    protocolStatuses["LightPush"] = "SufficientlyHealthy" =>
        \E s \in Sends :
            Returned(s) /\ Cardinality(accepted[s]) >= 2

\* What LightPush.send tells its caller and the health manager is true of what
\* the service nodes have taken.
ReportsAreTrue == TypeOK /\ SuccessIsTrue /\ HealthIsEarned

\* A message is pushed at most once per peer used and maxAttempts times per
\* failure, and not again once its send succeeded everywhere: however peers
\* come and go, retries do not multiply.
RetriesAreBounded ==
    \A s \in Sends :
        LET used == Len(send[s].peers) + Cardinality(send[s].successes)
                      + send[s].failures
            retried == IF s \in Retrying THEN send[s].failures ELSE 0
        IN  pushes[s] <= used + retried * AttemptLimit

\* Every send returns, and every retry it left behind ends: again and again
\* nothing is under way.
EverySendEnds ==
    []<>(\A s \in Sends :
           /\ send[s].at # "pushing"
           /\ \A p \in Peers : retry[s][p].at # "pushing")
=============================================================================
