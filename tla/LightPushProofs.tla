---------------------------- MODULE LightPushProofs ----------------------------
(***************************************************************************)
(* Proofs about light push, for every number of service nodes, sends and   *)
(* attempts: what a send reports is true, and retries do not multiply.     *)
(***************************************************************************)
EXTENDS LightPush, FiniteSetTheorems, TLAPS

(* Types. *)

SendType == [at : {"idle", "pushing", "returned"}, message : MessageKinds,
             peers : Seq(Peers), successes : SUBSET Peers, failures : Nat]
RetryType == [at : {"none", "pushing", "over"}, peers : Seq(Peers), i : Nat,
              push : PushStates]

Types ==
    /\ connected \in Seq(Peers) /\ IsInjective(connected)
    /\ send \in [Sends -> SendType]
    /\ push \in [Sends -> [Peers -> PushStates]]
    /\ retry \in [Sends -> [Peers -> RetryType]]
    /\ accepted \in [Sends -> SUBSET Peers]
    /\ pushes \in [Sends -> Nat]
    /\ HealthTypeOK

\* What the types do not say of a send and of a retry.
Lists ==
    \A s \in Sends :
        /\ ListOfPeers(send[s].peers)
        /\ \A p \in Peers :
             /\ ListOfPeers(retry[s][p].peers)
             /\ retry[s][p].at = "pushing" =>
                  retry[s][p].peers # <<>> /\ retry[s][p].push # "none"

(* What a push has seen of its service node is true. *)
PushesAreTrue ==
    \A s \in Sends, p \in Peers :
        push[s][p] \in {"accepted", "success"} => p \in accepted[s]

(* The pushes that the retries of a send may still start: the numbers of   *)
(* the attempts after the one they are at.                                 *)
Budget(s) ==
    {x \in Peers \X (1 .. AttemptLimit - 1) :
        retry[s][x[1]].at = "pushing" /\ retry[s][x[1]].i < x[2]}

Retried(s) == IF s \in Retrying THEN send[s].failures ELSE 0

\* No retry runs before its send has returned; then the pushes started and
\* those still to come are within the bound.
BudgetKept ==
    \A s \in Sends :
        /\ send[s].at = "idle" => pushes[s] = 0
        /\ send[s].at = "pushing" => pushes[s] = Len(send[s].peers)
        /\ send[s].at # "returned" =>
             /\ send[s].successes = {} /\ send[s].failures = 0
             /\ \A p \in Peers : retry[s][p].at # "pushing"
        /\ send[s].at # "pushing" => send[s].peers = <<>>
        /\ send[s].at = "returned" =>
             pushes[s] + Cardinality(Budget(s))
               <= Cardinality(send[s].successes) + send[s].failures
                    + Retried(s) * AttemptLimit

LightPushInv ==
    Types /\ Lists /\ PushesAreTrue /\ SuccessIsTrue /\ HealthIsEarned /\ BudgetKept

-----------------------------------------------------------------------------
(* The operators of the model. *)

LEMMA LimitPositive == AttemptLimit \in Nat /\ AttemptLimit > 0
BY LightPushAssumption DEF AttemptLimit, DEFAULT_MAX_ATTEMPTS

\* The peers that a send or a retry uses are a list without repetition.
LEMMA PeersUsedAreAList ==
    ASSUME connected \in Seq(Peers), IsInjective(connected)
    PROVE  ListOfPeers(getConnectedPeers) /\
           (getConnectedPeers = <<>> <=> connected = <<>>)
<1> DEFINE n == IF Len(connected) < numPeersToUse THEN Len(connected)
                ELSE numPeersToUse
<1>1. n \in Nat /\ n <= Len(connected) /\ n <= numPeersToUse
      /\ (n = 0 <=> connected = <<>>)
  BY LightPushAssumption
<1>2. getConnectedPeers = SubSeq(connected, 1, n)
  BY DEF getConnectedPeers
<1> HIDE DEF n
<1>3. SubSeq(connected, 1, n) \in Seq(Peers) /\ Len(SubSeq(connected, 1, n)) = n
      /\ \A i \in 1 .. n : SubSeq(connected, 1, n)[i] = connected[i]
  BY <1>1
<1> QED
  BY <1>1, <1>2, <1>3 DEF ListOfPeers, IsInjective

\* An element taken out of a list without repetition leaves one.
LEMMA RemovedFromList ==
    ASSUME NEW l \in Seq(Peers), IsInjective(l), NEW i \in DOMAIN l
    PROVE  RemoveAt(l, i) \in Seq(Peers) /\ IsInjective(RemoveAt(l, i))
<1> DEFINE a == SubSeq(l, 1, i - 1)
           b == SubSeq(l, i + 1, Len(l))
<1>1. a \in Seq(Peers) /\ Len(a) = i - 1 /\ \A j \in 1 .. i - 1 : a[j] = l[j]
  OBVIOUS
<1>2. b \in Seq(Peers) /\ Len(b) = Len(l) - i
      /\ \A j \in 1 .. Len(l) - i : b[j] = l[i + j]
  OBVIOUS
<1>3. RemoveAt(l, i) = a \o b
  BY DEF RemoveAt
<1> HIDE DEF a, b
<1>4. /\ a \o b \in Seq(Peers) /\ Len(a \o b) = Len(l) - 1
      /\ \A j \in 1 .. Len(l) - 1 :
           (a \o b)[j] = l[IF j < i THEN j ELSE j + 1]
  BY <1>1, <1>2
<1>5. ASSUME NEW j \in 1 .. Len(l) - 1, NEW k \in 1 .. Len(l) - 1,
             (a \o b)[j] = (a \o b)[k]
      PROVE  j = k
  <2> DEFINE at(m) == IF m < i THEN m ELSE m + 1
  <2>1. at(j) \in DOMAIN l /\ at(k) \in DOMAIN l /\ l[at(j)] = l[at(k)]
    BY <1>4, <1>5
  <2>2. at(j) = at(k)
    BY <2>1 DEF IsInjective
  <2> QED
    BY <2>2
<1>6. DOMAIN (a \o b) = 1 .. Len(l) - 1
  BY <1>4
<1> QED
  BY <1>3, <1>4, <1>5, <1>6 DEF IsInjective

\* A list without repetition has as many elements as places.
LEMMA ListLength ==
    ASSUME NEW l \in Seq(Peers), IsInjective(l)
    PROVE  /\ IsFiniteSet(Range(l)) /\ Range(l) \subseteq Peers
           /\ Cardinality(Range(l)) = Len(l)
<1>1. l \in Bijection(1 .. Len(l), Range(l))
  BY DEF Bijection, Injection, Surjection, IsInjective, Range
<1>2. ExistsBijection(1 .. Len(l), Range(l))
  BY <1>1 DEF ExistsBijection
<1>3. IsFiniteSet(1 .. Len(l)) /\ Cardinality(1 .. Len(l)) = Len(l)
  <2>1. Len(l) \in Nat
    OBVIOUS
  <2> QED
    BY <2>1, FS_Interval, SMT
<1>4. Range(l) \subseteq Peers
  BY DEF Range
<1> QED
  BY <1>2, <1>3, <1>4, FS_Bijection

\* A push stays one of the states of a push, and succeeds only when the
\* service node has accepted.
LEMMA PushStepsAreTrue ==
    ASSUME NEW x, NEW p, NEW y \in PushSteps(x, p)
    PROVE  /\ y \in PushStates \ {"none", "accepted"}
           /\ y = "success" => x = "accepted"
BY DEF PushSteps, OutcomeOf, AnswerKinds, PushStates, Outcomes

LEMMA StartedPush ==
    ASSUME NEW message
    PROVE  StartPush(message) \in PushStates \ {"none", "accepted", "success"}
BY DEF StartPush, PushStates, Outcomes

\* Service nodes only ever take messages.
LEMMA AnswerAccepts ==
    ASSUME accepted \in [Sends -> SUBSET Peers],
           NEW s \in Sends, NEW p \in Peers, NEW x, NEW answer \in Answers,
           Answer(s, p, x, answer)
    PROVE  /\ accepted' \in [Sends -> SUBSET Peers]
           /\ \A t \in Sends : accepted[t] \subseteq accepted'[t]
           /\ answer = "accepted" => p \in accepted'[s]
           /\ answer \in AnswerKinds
BY LightPushAssumption DEF Answer

LEMMA BudgetFinite ==
    ASSUME NEW s \in Sends
    PROVE  IsFiniteSet(Budget(s)) /\ Budget(s) \subseteq Peers \X (1 .. AttemptLimit - 1)
<1>1. IsFiniteSet(1 .. AttemptLimit - 1)
  BY LimitPositive, FS_Interval
<1>2. IsFiniteSet(Peers \X (1 .. AttemptLimit - 1))
  BY <1>1, LightPushAssumption, FS_Product
<1> QED
  BY <1>2, FS_Subset DEF Budget

-----------------------------------------------------------------------------
(* Steps that leave the reports alone. *)

\* The health stays earned when no report is made, and no send that has
\* returned comes back.
LEMMA HealthStaysEarned ==
    ASSUME Types, Types', HealthIsEarned, UNCHANGED healthVars,
           \A s \in Sends : Returned(s) => Returned(s)',
           \A s \in Sends : accepted[s] \subseteq accepted'[s]
    PROVE  HealthIsEarned'
<1>1. \A s \in Sends :
        IsFiniteSet(accepted'[s]) /\ Cardinality(accepted[s]) <= Cardinality(accepted'[s])
        /\ Cardinality(accepted[s]) \in Nat /\ Cardinality(accepted'[s]) \in Nat
  <2> TAKE s \in Sends
  <2>1. IsFiniteSet(accepted'[s])
    BY LightPushAssumption, FS_Subset DEF Types
  <2> QED
    BY <2>1, FS_Subset, FS_CardinalityType
<1> QED
  BY <1>1 DEF HealthIsEarned, healthVars, Returned

\* A step that neither sends nor starts a retry keeps the bound when the
\* budgets do not grow.
LEMMA BoundStays ==
    ASSUME Types, BudgetKept, UNCHANGED <<send, pushes>>,
           \A s \in Sends, p \in Peers :
               retry'[s][p].at = "pushing" =>
                   retry[s][p].at = "pushing" /\ retry'[s][p].i = retry[s][p].i
    PROVE  BudgetKept'
<1>1. ASSUME NEW s \in Sends
      PROVE  Cardinality(Budget(s)') <= Cardinality(Budget(s))
             /\ Cardinality(Budget(s)') \in Nat /\ Cardinality(Budget(s)) \in Nat
  <2>1. Budget(s)' \subseteq Budget(s)
    BY DEF Budget, AttemptLimit
  <2> QED
    BY <2>1, BudgetFinite, FS_Subset, FS_CardinalityType
<1>2. ASSUME NEW s \in Sends
      PROVE  /\ pushes[s] \in Nat /\ Retried(s)' = Retried(s)
             /\ AttemptLimit' = AttemptLimit
  BY DEF Types, Retried, AttemptLimit
<1>3. ASSUME NEW s \in Sends, send[s].at = "returned"
      PROVE  Cardinality(send[s].successes) + send[s].failures
                    + Retried(s) * AttemptLimit \in Int
  <2>1. IsFiniteSet(send[s].successes) /\ send[s].failures \in Nat
    BY LightPushAssumption, FS_Subset DEF Types, SendType
  <2>2. Retried(s) \in Nat
    BY <2>1 DEF Retried
  <2> QED
    BY <2>1, <2>2, LimitPositive, FS_CardinalityType
<1> QED
  BY <1>1, <1>2, <1>3 DEF BudgetKept

-----------------------------------------------------------------------------
(* Every step keeps the invariant. *)

LEMMA SendKeeps ==
    ASSUME LightPushInv, NEW s \in Sends, NEW message \in Messages[s],
           Send(s, message)
    PROVE  LightPushInv'
<1> DEFINE peers == getConnectedPeers
<1>1. /\ ListOfPeers(peers) /\ peers \in Seq(Peers)
      /\ message \in MessageKinds /\ send[s].at = "idle"
      /\ send \in [Sends -> SendType]
  BY PeersUsedAreAList, LightPushAssumption
     DEF LightPushInv, Types, Send, ListOfPeers
<1> HIDE DEF peers
<1>2. send' = [send EXCEPT ![s] =
                  IF peers = <<>>
                  THEN [@ EXCEPT !.at = "returned", !.failures = 1]
                  ELSE [@ EXCEPT !.at = "pushing", !.message = message,
                                 !.peers = peers]]
      /\ pushes' = [pushes EXCEPT ![s] = Len(peers)]
      /\ UNCHANGED <<connected, retry, accepted, healthVars>>
  BY DEF Send, peers
<1>3. /\ send' \in [Sends -> SendType]
      /\ \A t \in Sends \ {s} : send'[t] = send[t]
      /\ send'[s].successes = send[s].successes
      /\ peers = <<>> => /\ send'[s].at = "returned" /\ send'[s].failures = 1
                         /\ send'[s].peers = send[s].peers
      /\ peers # <<>> => /\ send'[s].at = "pushing" /\ send'[s].peers = peers
                         /\ send'[s].failures = send[s].failures
  BY <1>1, <1>2 DEF SendType
<1>4. Types'
  <2>1. pushes' \in [Sends -> Nat]
    BY <1>1, <1>2 DEF LightPushInv, Types
  <2>2. push' \in [Sends -> [Peers -> PushStates]]
    BY StartedPush DEF LightPushInv, Types, Send, PushStates
  <2> QED
    BY <1>2, <1>3, <2>1, <2>2
       DEF LightPushInv, Types, healthVars, HealthTypeOK
<1>5. Lists'
  BY <1>1, <1>2, <1>3 DEF LightPushInv, Lists, ListOfPeers
<1>6. PushesAreTrue'
  <2> SUFFICES ASSUME NEW t \in Sends, NEW p \in Peers,
                      push'[t][p] \in {"accepted", "success"}
               PROVE  p \in accepted'[t]
    BY DEF PushesAreTrue
  <2>1. t # s
    BY StartedPush DEF LightPushInv, Types, Send
  <2> QED
    BY <2>1, <1>2 DEF LightPushInv, Types, PushesAreTrue, Send
<1>7. SuccessIsTrue'
  BY <1>2, <1>3 DEF LightPushInv, SuccessIsTrue
<1>8. HealthIsEarned'
  BY <1>1, <1>2, <1>3, <1>4, HealthStaysEarned DEF LightPushInv, Returned
<1>9. BudgetKept'
  <2>1. \A t \in Sends : Budget(t)' = Budget(t)
    BY <1>2 DEF Budget, AttemptLimit
  <2>2. Budget(s) = {}
    BY <1>1 DEF LightPushInv, BudgetKept, Budget
  <2>3. /\ send[s].successes = {} /\ send[s].failures = 0 /\ send[s].peers = <<>>
        /\ \A p \in Peers : retry'[s][p].at # "pushing"
        /\ pushes'[s] = Len(peers)
        /\ \A t \in Sends \ {s} : pushes'[t] = pushes[t]
    BY <1>1, <1>2 DEF LightPushInv, BudgetKept, Types
  <2>4. \A t \in Sends \ {s} : Retried(t)' = Retried(t)
    BY <1>3 DEF Retried
  <2>5. Retried(s)' \in {0, send'[s].failures}
    BY DEF Retried
  <2>6. AttemptLimit' = AttemptLimit /\ AttemptLimit \in Nat
    BY LimitPositive DEF AttemptLimit
  <2>7. Cardinality({}) = 0
    BY FS_EmptySet
  <2>8. peers = <<>> => Len(peers) = 0
    OBVIOUS
  <2>9. ASSUME peers = <<>>
        PROVE  pushes'[s] + Cardinality(Budget(s)')
                 <= Cardinality(send'[s].successes) + send'[s].failures
                      + Retried(s)' * AttemptLimit'
    <3>1. /\ pushes'[s] = 0 /\ Budget(s)' = {} /\ send'[s].successes = {}
          /\ send'[s].failures = 1
      BY <1>3, <2>1, <2>2, <2>3, <2>8, <2>9
    <3>2. Retried(s)' \in {0, 1}
      BY <2>5, <3>1
    <3>3. Retried(s)' * AttemptLimit' \in Nat
      <4> DEFINE l == AttemptLimit'
                 r == Retried(s)'
      <4>1. l \in Nat /\ r \in {0, 1}
        BY <2>6, <3>2
      <4> HIDE DEF l, r
      <4>2. r * l \in Nat
        BY <4>1
      <4> QED
        BY <4>2 DEF l, r
    <3> QED
      BY <2>7, <3>1, <3>3
  <2> QED
    BY <1>2, <1>3, <2>1, <2>3, <2>4, <2>6, <2>9
       DEF LightPushInv, BudgetKept
<1> QED
  BY <1>4, <1>5, <1>6, <1>7, <1>8, <1>9 DEF LightPushInv

\* A step of one push leaves the sends and the retries alone.
LEMMA PushKeeps ==
    ASSUME LightPushInv, NEW s \in Sends, NEW p \in Peers,
           \/ Push(s, p)
           \/ \E answer \in Answers : PushAnswered(s, p, answer)
    PROVE  LightPushInv'
<1>1. PICK x : /\ push' = [push EXCEPT ![s][p] = x] /\ x \in PushStates
               /\ x \in {"accepted", "success"} => p \in accepted'[s]
  <2>1. CASE Push(s, p)
    <3>1. PICK x \in PushSteps(push[s][p], p) :
            push' = [push EXCEPT ![s][p] = x]
      BY <2>1 DEF Push
    <3>2. x \in PushStates /\ x # "accepted"
          /\ (x = "success" => push[s][p] = "accepted")
      BY PushStepsAreTrue
    <3> QED
      BY <2>1, <3>1, <3>2 DEF LightPushInv, PushesAreTrue, Push
  <2>2. CASE \E answer \in Answers : PushAnswered(s, p, answer)
    BY <2>2, AnswerAccepts
       DEF LightPushInv, Types, PushAnswered, PushStates, AnswerKinds
  <2> QED
    BY <2>1, <2>2
<1>2. UNCHANGED <<connected, send, retry, pushes, healthVars>>
  BY DEF Push, PushAnswered
<1>3. /\ accepted' \in [Sends -> SUBSET Peers]
      /\ \A t \in Sends : accepted[t] \subseteq accepted'[t]
  BY AnswerAccepts DEF LightPushInv, Types, Push, PushAnswered
<1>4. Types'
  BY <1>1, <1>2, <1>3 DEF LightPushInv, Types, healthVars, HealthTypeOK
<1>5. Lists'
  BY <1>2 DEF LightPushInv, Lists, ListOfPeers
<1>6. PushesAreTrue'
  <2> SUFFICES ASSUME NEW t \in Sends, NEW q \in Peers,
                      push'[t][q] \in {"accepted", "success"}
               PROVE  q \in accepted'[t]
    BY DEF PushesAreTrue
  <2>1. push'[t][q] = IF t = s /\ q = p THEN x ELSE push[t][q]
    BY <1>1 DEF LightPushInv, Types
  <2> QED
    BY <2>1, <1>1, <1>3 DEF LightPushInv, PushesAreTrue
<1>7. SuccessIsTrue'
  BY <1>2, <1>3 DEF LightPushInv, SuccessIsTrue
<1>8. HealthIsEarned'
  BY <1>2, <1>3, <1>4, HealthStaysEarned DEF LightPushInv, Returned
<1>9. BudgetKept'
  BY <1>2, BoundStays DEF LightPushInv
<1> QED
  BY <1>4, <1>5, <1>6, <1>7, <1>8, <1>9 DEF LightPushInv

\* So does a connection made or lost.
LEMMA ConnectionKeeps ==
    ASSUME LightPushInv, NEW p \in Peers, Connect(p) \/ Disconnect(p)
    PROVE  LightPushInv'
<1>1. UNCHANGED <<send, push, retry, accepted, pushes, healthVars>>
  BY DEF Connect, Disconnect
<1>2. connected' \in Seq(Peers) /\ IsInjective(connected')
  <2>1. CASE Connect(p)
    <3>1. connected \in Seq(Peers) /\ connected' = Append(connected, p)
          /\ \A i \in 1 .. Len(connected) : connected[i] # p
      BY <2>1 DEF Connect, Contains, LightPushInv, Types
    <3>2. connected' \in Seq(Peers) /\ Len(connected') = Len(connected) + 1
          /\ \A i \in 1 .. Len(connected) : connected'[i] = connected[i]
          /\ connected'[Len(connected) + 1] = p
      BY <3>1
    <3> QED
      BY <3>1, <3>2 DEF LightPushInv, Types, IsInjective
  <2>2. CASE Disconnect(p)
    BY <2>2, RemovedFromList DEF Disconnect, LightPushInv, Types
  <2> QED
    BY <2>1, <2>2
<1>3. Types'
  BY <1>1, <1>2 DEF LightPushInv, Types, healthVars, HealthTypeOK
<1>4. Lists' /\ PushesAreTrue' /\ SuccessIsTrue'
  BY <1>1 DEF LightPushInv, Lists, PushesAreTrue, SuccessIsTrue, ListOfPeers
<1>5. HealthIsEarned'
  BY <1>1, <1>3, HealthStaysEarned DEF LightPushInv, Returned
<1>6. BudgetKept'
  BY <1>1, BoundStays DEF LightPushInv
<1> QED
  BY <1>3, <1>4, <1>5, <1>6 DEF LightPushInv

(* The return of a send: the pushes that failed are what it may retry.     *)

\* What a send that returns has counted.
LEMMA SendCounts ==
    ASSUME LightPushInv, NEW s \in Sends, send[s].at = "pushing",
           NEW successes \in SUBSET Range(send[s].peers)
    PROVE  LET used == Range(send[s].peers) IN
           /\ IsFiniteSet(used) /\ used \subseteq Peers
           /\ IsFiniteSet(successes) /\ IsFiniteSet(used \ successes)
           /\ Cardinality(successes) \in Nat
           /\ Cardinality(used \ successes) \in Nat
           /\ pushes[s] = Cardinality(successes) + Cardinality(used \ successes)
<1> DEFINE used == Range(send[s].peers)
<1>1. /\ send[s].peers \in Seq(Peers) /\ IsInjective(send[s].peers)
      /\ pushes[s] = Len(send[s].peers)
  BY DEF LightPushInv, Lists, ListOfPeers, BudgetKept
<1>2. /\ IsFiniteSet(used) /\ used \subseteq Peers
      /\ Cardinality(used) = pushes[s]
  BY <1>1, ListLength
<1> HIDE DEF used
<1>3. successes \subseteq used
  BY DEF used
<1>4. IsFiniteSet(successes) /\ IsFiniteSet(used \ successes)
      /\ Cardinality(used \ successes) =
           Cardinality(used) - Cardinality(used \cap successes)
  BY <1>2, <1>3, FS_Subset, FS_Difference
<1>5. used \cap successes = successes
  BY <1>3
<1>6. /\ Cardinality(successes) \in Nat /\ Cardinality(used \ successes) \in Nat
      /\ Cardinality(used) \in Nat
  BY <1>2, <1>4, FS_CardinalityType
<1> QED
  BY <1>2, <1>4, <1>5, <1>6 DEF used

\* A retry begins at its first push, with the attempts left that the limit says.
LEMMA StartedRetry ==
    ASSUME Types, NEW message
    PROVE  /\ StartRetry(message) \in RetryType /\ NoRetry \in RetryType
           /\ ListOfPeers(StartRetry(message).peers) /\ ListOfPeers(NoRetry.peers)
           /\ NoRetry.at = "none"
           /\ StartRetry(message).at = "pushing" =>
                connected # <<>> /\ StartRetry(message).peers # <<>>
                /\ StartRetry(message).push # "none"
<1>1. NoRetry \in RetryType /\ ListOfPeers(NoRetry.peers)
  BY LightPushAssumption DEF NoRetry, RetryType, ListOfPeers, IsInjective, PushStates
<1>2. ListOfPeers(getConnectedPeers) /\ (getConnectedPeers = <<>> <=> connected = <<>>)
  BY PeersUsedAreAList DEF Types
<1> QED
  BY <1>1, <1>2, StartedPush DEF StartRetry, NoRetry, RetryType, ListOfPeers

\* Retries that start within the bound: one push each now, and no more than the
\* attempts that remain.
LEMMA StartedBudget ==
    ASSUME Types, NEW s \in Sends, NEW message,
           NEW started \in SUBSET Peers, IsFiniteSet(started),
           retry' = [retry EXCEPT ![s] = [p \in Peers |->
                       IF p \in started THEN StartRetry(message) ELSE NoRetry]]
    PROVE  /\ Cardinality(Budget(s)') \in Nat
           /\ connected = <<>> => Cardinality(Budget(s)') = 0
           /\ Cardinality(started) + Cardinality(Budget(s)')
                <= Cardinality(started) * AttemptLimit
<1> DEFINE more == 1 .. AttemptLimit - 1
           n == Cardinality(started)
           l == AttemptLimit
<1>1. \A p \in Peers : retry'[s][p] =
        IF p \in started THEN StartRetry(message) ELSE NoRetry
  BY DEF Types
<1>2. AttemptLimit' = AttemptLimit
  BY DEF AttemptLimit
<1>3. Budget(s)' \subseteq started \X more
  BY <1>1, <1>2, StartedRetry DEF Budget
<1>4. n \in Nat /\ l \in Nat /\ l > 0
  BY LimitPositive, FS_CardinalityType
<1>5. IsFiniteSet(more) /\ Cardinality(more) = l - 1
  BY <1>4, FS_Interval
<1>6. IsFiniteSet(started \X more) /\ Cardinality(started \X more) = n * (l - 1)
  BY <1>5, FS_Product
<1>7. /\ IsFiniteSet(Budget(s)') /\ Cardinality(Budget(s)') <= n * (l - 1)
      /\ Cardinality(Budget(s)') \in Nat
  BY <1>3, <1>6, FS_Subset, FS_CardinalityType
<1>8. connected = <<>> => Budget(s)' = {}
  BY <1>1, StartedRetry DEF Budget
<1> HIDE DEF n, l
<1>9. n + n * (l - 1) = n * l
  BY <1>4
<1>10. n * (l - 1) \in Nat /\ n * l \in Nat
  BY <1>4
<1>11. n + Cardinality(Budget(s)') <= n * l
  BY <1>4, <1>7, <1>9, <1>10
<1> QED
  BY <1>7, <1>8, <1>11, FS_EmptySet DEF n, l

LEMMA SendReturnsKeeps ==
    ASSUME LightPushInv, NEW s \in Sends, SendReturns(s)
    PROVE  LightPushInv'
<1> DEFINE used == Range(send[s].peers)
           successes == {p \in used : push[s][p] = "success"}
           failed == used \ successes
           started == IF s \in Retrying THEN failed ELSE {}
<1>1. /\ send[s].at = "pushing"
      /\ send' = [send EXCEPT ![s].at = "returned", ![s].peers = <<>>,
                              ![s].successes = successes,
                              ![s].failures = Cardinality(failed)]
      /\ push' = [push EXCEPT ![s] = [p \in Peers |-> "none"]]
      /\ retry' = [retry EXCEPT ![s] = [p \in Peers |->
                     IF p \in started THEN StartRetry(send[s].message)
                     ELSE NoRetry]]
      /\ pushes' = [pushes EXCEPT ![s] =
                      IF connected = <<>> THEN @ ELSE @ + Cardinality(started)]
      /\ protocolStatuses' =
           [protocolStatuses EXCEPT !["LightPush"] = StatusOf(Cardinality(successes))]
      /\ overallStatus' = Overall({protocolStatuses'[q] : q \in relevantProtocols})
      /\ UNCHANGED <<connected, accepted>>
  BY DEF SendReturns, updateProtocolHealth, HealthCount
<1>2. /\ IsFiniteSet(used) /\ used \subseteq Peers
      /\ IsFiniteSet(successes) /\ IsFiniteSet(failed)
      /\ Cardinality(successes) \in Nat /\ Cardinality(failed) \in Nat
      /\ pushes[s] = Cardinality(successes) + Cardinality(failed)
  BY <1>1, SendCounts
<1>3. successes \subseteq accepted[s]
  BY <1>2 DEF LightPushInv, PushesAreTrue
<1>4. /\ successes \subseteq Peers /\ started \subseteq Peers
      /\ IsFiniteSet(started) /\ Cardinality(started) \in Nat
      /\ started = failed \/ (started = {} /\ s \notin Retrying)
      /\ s \in Retrying => started = failed
  BY <1>2, FS_EmptySet
<1> HIDE DEF used, successes, failed, started
<1>5. /\ send' \in [Sends -> SendType]
      /\ \A t \in Sends \ {s} : send'[t] = send[t]
      /\ send'[s].at = "returned" /\ send'[s].peers = <<>>
      /\ send'[s].successes = successes
      /\ send'[s].failures = Cardinality(failed)
  <2>1. send \in [Sends -> SendType] /\ successes \in SUBSET Peers
    BY <1>4 DEF LightPushInv, Types
  <2>2. <<>> \in Seq(Peers)
    OBVIOUS
  <2>3. send' = [send EXCEPT ![s] =
                   [@ EXCEPT !.at = "returned", !.peers = <<>>,
                             !.successes = successes,
                             !.failures = Cardinality(failed)]]
    BY <1>1
  <2>4. [send[s] EXCEPT !.at = "returned", !.peers = <<>>,
                        !.successes = successes,
                        !.failures = Cardinality(failed)] \in SendType
    BY <1>2, <2>1, <2>2 DEF SendType
  <2> QED
    BY <2>1, <2>3, <2>4 DEF SendType
<1>6. \A t \in Sends, p \in Peers : retry'[t][p] =
        IF t # s THEN retry[t][p]
        ELSE IF p \in started THEN StartRetry(send[s].message) ELSE NoRetry
  BY <1>1 DEF LightPushInv, Types
<1>7. Types'
  <2>1. retry' \in [Sends -> [Peers -> RetryType]]
    BY <1>1, StartedRetry DEF LightPushInv, Types
  <2>2. push' \in [Sends -> [Peers -> PushStates]]
    BY <1>1 DEF LightPushInv, Types, PushStates
  <2>3. pushes' \in [Sends -> Nat]
    BY <1>1, <1>4 DEF LightPushInv, Types
  <2>4. HealthTypeOK'
    BY <1>1 DEF LightPushInv, Types, HealthTypeOK, StatusOf, Overall,
                HealthStatus
  <2> QED
    BY <1>1, <1>5, <2>1, <2>2, <2>3, <2>4 DEF LightPushInv, Types
<1>8. Lists'
  <2>1. ListOfPeers(<<>>)
    BY LightPushAssumption DEF ListOfPeers, IsInjective
  <2>2. ASSUME NEW t \in Sends
        PROVE  ListOfPeers(send'[t].peers)
    BY <1>5, <2>1 DEF LightPushInv, Lists
  <2>3. ASSUME NEW t \in Sends, NEW p \in Peers
        PROVE  /\ ListOfPeers(retry'[t][p].peers)
               /\ retry'[t][p].at = "pushing" =>
                    retry'[t][p].peers # <<>> /\ retry'[t][p].push # "none"
    BY <1>6, StartedRetry DEF LightPushInv, Lists
  <2> QED
    BY <2>2, <2>3 DEF Lists, ListOfPeers
<1>9. PushesAreTrue'
  BY <1>1 DEF LightPushInv, Types, PushesAreTrue
<1>10. SuccessIsTrue'
  BY <1>1, <1>3, <1>5 DEF LightPushInv, SuccessIsTrue
<1>11. HealthIsEarned'
  <2> SUFFICES ASSUME protocolStatuses'["LightPush"] = "SufficientlyHealthy"
               PROVE  \E t \in Sends : Returned(t)' /\ Cardinality(accepted'[t]) >= 2
    BY DEF HealthIsEarned
  <2>1. Cardinality(successes) >= 2
    BY <1>1, <1>2 DEF LightPushInv, Types, HealthTypeOK, Protocols, StatusOf
  <2>2. IsFiniteSet(accepted[s]) /\ Cardinality(accepted[s]) \in Nat
        /\ Cardinality(successes) <= Cardinality(accepted[s])
    <3>1. accepted[s] \subseteq Peers
      BY DEF LightPushInv, Types
    <3> QED
      BY <3>1, <1>3, LightPushAssumption, FS_Subset, FS_CardinalityType
  <2> QED
    BY <1>1, <1>2, <1>5, <2>1, <2>2 DEF Returned
<1>12. BudgetKept'
  <2>1. AttemptLimit' = AttemptLimit /\ AttemptLimit \in Nat
    BY LimitPositive DEF AttemptLimit
  <2>2. \A t \in Sends \ {s} : /\ Budget(t)' = Budget(t)
                               /\ Retried(t)' = Retried(t)
                               /\ pushes'[t] = pushes[t]
    BY <1>1, <1>5, <1>6, <2>1 DEF Budget, Retried, LightPushInv, Types
  <2>3. /\ Cardinality(Budget(s)') \in Nat
        /\ connected = <<>> => Cardinality(Budget(s)') = 0
        /\ Cardinality(started) + Cardinality(Budget(s)')
                <= Cardinality(started) * AttemptLimit
    BY <1>1, <1>4, StartedBudget DEF LightPushInv
  <2>4. pushes'[s] = IF connected = <<>> THEN pushes[s]
                     ELSE pushes[s] + Cardinality(started)
    BY <1>1 DEF LightPushInv, Types
  <2>5. Cardinality(started) * AttemptLimit = Retried(s)' * AttemptLimit
        \/ Cardinality(started) = 0
    <3>1. CASE s \in Retrying
      BY <3>1, <1>4, <1>5 DEF Retried
    <3>2. CASE s \notin Retrying
      BY <3>2, <1>4, FS_EmptySet DEF started
    <3> QED
      BY <3>1, <3>2
  <2>6. Retried(s)' \in Nat
    BY <1>2, <1>5 DEF Retried
  <2>7. pushes'[s] + Cardinality(Budget(s)')
          <= Cardinality(successes) + Cardinality(failed)
               + Retried(s)' * AttemptLimit
    <3> DEFINE l == AttemptLimit
               r == Retried(s)'
               n == Cardinality(started)
               b == Cardinality(Budget(s)')
               c == Cardinality(successes)
               f == Cardinality(failed)
               now == pushes'[s]
    <3>1. /\ l \in Nat /\ r \in Nat /\ n \in Nat /\ b \in Nat /\ c \in Nat /\ f \in Nat
          /\ n + b <= n * l /\ (n * l = r * l \/ n = 0)
          /\ now = c + f \/ now = c + f + n
          /\ connected = <<>> => b = 0 /\ now = c + f
      BY <1>2, <1>4, <2>1, <2>3, <2>4, <2>5, <2>6
    <3>2. connected # <<>> => now = c + f + n
      BY <1>2, <2>4
    <3> HIDE DEF l, r, n, b, c, f, now
    <3>3. r * l \in Nat /\ n * l \in Nat /\ (n = 0 => n * l = 0)
      BY <3>1
    <3>4. now + b <= c + f + r * l
      BY <3>1, <3>2, <3>3
    <3> QED
      BY <3>4 DEF l, r, n, b, c, f, now
  <2> QED
    BY <1>1, <1>5, <1>6, <2>1, <2>2, <2>7 DEF LightPushInv, BudgetKept
<1> QED
  BY <1>7, <1>8, <1>9, <1>10, <1>11, <1>12 DEF LightPushInv

(* The retries. *)

\* A retry pushes to one of its peers.
LEMMA RetryToAPeer ==
    ASSUME NEW r \in RetryType, r.peers # <<>>
    PROVE  RetryTo(r) \in Peers
<1>1. r.peers \in Seq(Peers) /\ Len(r.peers) \in Nat /\ Len(r.peers) > 0
      /\ r.i \in Nat
  BY DEF RetryType
<1>2. r.i % Len(r.peers) \in 0 .. Len(r.peers) - 1
  BY <1>1
<1> QED
  BY <1>1, <1>2 DEF RetryTo

LEMMA RetryPushKeeps ==
    ASSUME LightPushInv, NEW s \in Sends, NEW q \in Peers,
           \/ RetryPush(s, q)
           \/ \E answer \in Answers : RetryAnswered(s, q, answer)
    PROVE  LightPushInv'
<1> DEFINE r == retry[s][q]
<1>1. /\ r \in RetryType /\ r.at = "pushing" /\ r.peers # <<>>
      /\ ListOfPeers(r.peers)
      /\ UNCHANGED <<connected, send, push, pushes, healthVars>>
  BY DEF LightPushInv, Types, Lists, RetryPush, RetryAnswered
<1>2. PICK x \in PushStates \ {"none"} : retry' = [retry EXCEPT ![s][q].push = x]
  <2>1. CASE RetryPush(s, q)
    <3>1. PICK x \in PushSteps(r.push, RetryTo(r)) :
            retry' = [retry EXCEPT ![s][q].push = x]
      BY <2>1 DEF RetryPush
    <3>2. x \in PushStates \ {"none"}
      BY PushStepsAreTrue
    <3> QED
      BY <3>1, <3>2
  <2>2. CASE \E answer \in Answers : RetryAnswered(s, q, answer)
    BY <2>2, LightPushAssumption DEF RetryAnswered, PushStates, AnswerKinds
  <2> QED
    BY <2>1, <2>2
<1>3. /\ accepted' \in [Sends -> SUBSET Peers]
      /\ \A t \in Sends : accepted[t] \subseteq accepted'[t]
  <2>1. CASE RetryPush(s, q)
    BY <2>1 DEF RetryPush, LightPushInv, Types
  <2>2. CASE \E answer \in Answers : RetryAnswered(s, q, answer)
    <3>1. PICK answer \in Answers : Answer(s, RetryTo(r), r.push, answer)
      BY <2>2 DEF RetryAnswered
    <3> QED
      BY <1>1, <3>1, RetryToAPeer, AnswerAccepts DEF LightPushInv, Types
  <2> QED
    BY <2>1, <2>2
<1>4. /\ retry' \in [Sends -> [Peers -> RetryType]]
      /\ \A t \in Sends, p \in Peers :
           /\ retry'[t][p].at = retry[t][p].at
           /\ retry'[t][p].i = retry[t][p].i
           /\ retry'[t][p].peers = retry[t][p].peers
           /\ retry'[t][p].push = IF t = s /\ p = q THEN x ELSE retry[t][p].push
  <2>1. retry \in [Sends -> [Peers -> RetryType]]
    BY DEF LightPushInv, Types
  <2>2. retry' = [retry EXCEPT ![s] =
                   [retry[s] EXCEPT ![q] = [retry[s][q] EXCEPT !.push = x]]]
    BY <1>2
  <2>3. /\ [r EXCEPT !.push = x] \in RetryType
        /\ [r EXCEPT !.push = x].at = r.at /\ [r EXCEPT !.push = x].i = r.i
        /\ [r EXCEPT !.push = x].peers = r.peers
        /\ [r EXCEPT !.push = x].push = x
    BY <1>1 DEF RetryType
  <2> QED
    BY <2>1, <2>2, <2>3
<1>5. Types'
  BY <1>1, <1>3, <1>4 DEF LightPushInv, Types, healthVars, HealthTypeOK
<1>6. Lists'
  BY <1>1, <1>2, <1>4 DEF LightPushInv, Lists, ListOfPeers
<1>7. PushesAreTrue' /\ SuccessIsTrue'
  BY <1>1, <1>3 DEF LightPushInv, PushesAreTrue, SuccessIsTrue
<1>8. HealthIsEarned'
  BY <1>1, <1>3, <1>5, HealthStaysEarned DEF LightPushInv, Returned
<1>9. BudgetKept'
  BY <1>1, <1>4, BoundStays DEF LightPushInv
<1> QED
  BY <1>5, <1>6, <1>7, <1>8, <1>9 DEF LightPushInv

\* The last attempt, or one that succeeded.
LEMMA RetryEndsKeeps ==
    ASSUME LightPushInv, NEW s \in Sends, NEW q \in Peers,
           retry' = [retry EXCEPT ![s][q] = [NoRetry EXCEPT !.at = "over"]],
           UNCHANGED <<connected, send, push, accepted, pushes, healthVars>>
    PROVE  LightPushInv'
<1>1. /\ [NoRetry EXCEPT !.at = "over"] \in RetryType
      /\ [NoRetry EXCEPT !.at = "over"].at = "over"
      /\ ListOfPeers([NoRetry EXCEPT !.at = "over"].peers)
  <2>1. NoRetry \in RetryType /\ ListOfPeers(NoRetry.peers)
    BY StartedRetry DEF LightPushInv
  <2> QED
    BY <2>1 DEF NoRetry, RetryType
<1>2. /\ retry' \in [Sends -> [Peers -> RetryType]]
      /\ \A t \in Sends, p \in Peers : retry'[t][p] =
           IF t = s /\ p = q THEN [NoRetry EXCEPT !.at = "over"] ELSE retry[t][p]
  BY <1>1 DEF LightPushInv, Types
<1>3. Types'
  BY <1>2 DEF LightPushInv, Types, healthVars, HealthTypeOK
<1>4. Lists'
  BY <1>1, <1>2 DEF LightPushInv, Lists, ListOfPeers
<1>5. PushesAreTrue' /\ SuccessIsTrue'
  BY DEF LightPushInv, PushesAreTrue, SuccessIsTrue
<1>6. HealthIsEarned'
  BY <1>3, HealthStaysEarned DEF LightPushInv, Returned
<1>7. BudgetKept'
  BY <1>1, <1>2, BoundStays DEF LightPushInv
<1> QED
  BY <1>3, <1>4, <1>5, <1>6, <1>7 DEF LightPushInv

\* The next attempt pushes once, out of the budget.
LEMMA RetryGoesOnKeeps ==
    ASSUME LightPushInv, NEW s \in Sends, NEW q \in Peers,
           retry[s][q].at = "pushing", retry[s][q].i + 1 < AttemptLimit,
           retry' = [retry EXCEPT ![s][q].i = @ + 1,
                                  ![s][q].push = StartPush(send[s].message)],
           pushes' = [pushes EXCEPT ![s] = @ + 1],
           UNCHANGED <<connected, send, push, accepted, healthVars>>
    PROVE  LightPushInv'
<1> DEFINE r == retry[s][q]
           new == [r EXCEPT !.i = r.i + 1, !.push = StartPush(send[s].message)]
<1>1. /\ r \in RetryType /\ r.at = "pushing" /\ r.peers # <<>>
      /\ ListOfPeers(r.peers) /\ r.i \in Nat
  BY DEF LightPushInv, Types, Lists, RetryType
<1>2. /\ new \in RetryType /\ new.at = "pushing" /\ new.i = r.i + 1
      /\ new.peers = r.peers /\ new.push # "none"
  <2> DEFINE y == StartPush(send[s].message)
  <2>1. y \in PushStates \ {"none"}
    BY StartedPush
  <2> HIDE DEF y
  <2>2. new = [r EXCEPT !.i = r.i + 1, !.push = y]
    BY DEF y
  <2> HIDE DEF new, r
  <2>3. PICK i \in Nat : i = r.i + 1
    BY <1>1
  <2>4. new = [r EXCEPT !.i = i, !.push = y]
    BY <2>2, <2>3
  <2>5. new = [at |-> r.at, peers |-> r.peers, i |-> i, push |-> y]
    BY <1>1, <2>4 DEF RetryType
  <2> QED
    BY <1>1, <2>1, <2>3, <2>5 DEF RetryType
<1>3. /\ retry' \in [Sends -> [Peers -> RetryType]]
      /\ \A t \in Sends, p \in Peers : retry'[t][p] =
           IF t = s /\ p = q THEN new ELSE retry[t][p]
  <2>1. retry \in [Sends -> [Peers -> RetryType]]
    BY DEF LightPushInv, Types
  <2>2. retry' = [retry EXCEPT ![s] = [retry[s] EXCEPT ![q] = new]]
    OBVIOUS
  <2> HIDE DEF new
  <2> QED
    BY SMTT(30), <1>2, <2>1, <2>2
<1> HIDE DEF new
<1>4. Types'
  BY <1>3 DEF LightPushInv, Types, healthVars, HealthTypeOK
<1>5. Lists'
  <2>1. ASSUME NEW t \in Sends
        PROVE  ListOfPeers(send'[t].peers)
    BY DEF LightPushInv, Lists
  <2>2. ASSUME NEW t \in Sends, NEW p \in Peers
        PROVE  /\ ListOfPeers(retry'[t][p].peers)
               /\ retry'[t][p].at = "pushing" =>
                    retry'[t][p].peers # <<>> /\ retry'[t][p].push # "none"
    <3>1. CASE t = s /\ p = q
      BY <1>1, <1>2, <1>3, <3>1
    <3>2. CASE ~(t = s /\ p = q)
      BY <1>3, <3>2 DEF LightPushInv, Lists
    <3> QED
      BY <3>1, <3>2
  <2> QED
    BY <2>1, <2>2 DEF Lists, ListOfPeers
<1>6. PushesAreTrue' /\ SuccessIsTrue'
  BY DEF LightPushInv, PushesAreTrue, SuccessIsTrue
<1>7. HealthIsEarned'
  BY <1>4, HealthStaysEarned DEF LightPushInv, Returned
<1>8. BudgetKept'
  <2>1. send[s].at = "returned"
    BY <1>1 DEF LightPushInv, BudgetKept, Types, SendType
  <2>2. AttemptLimit' = AttemptLimit /\ AttemptLimit \in Nat
    BY LimitPositive DEF AttemptLimit
  <2>3. Budget(s)' = Budget(s) \ {<<q, r.i + 1>>}
    <3>1. ASSUME NEW p \in Peers, NEW k \in 1 .. AttemptLimit - 1
          PROVE  /\ retry'[s][p].at = "pushing" <=> retry[s][p].at = "pushing"
                 /\ retry'[s][p].i < k <=>
                      retry[s][p].i < k /\ <<p, k>> # <<q, r.i + 1>>
      <4>1. CASE p = q
        BY <1>1, <1>2, <1>3, <2>2, <4>1
      <4>2. CASE p # q
        BY <1>3, <4>2
      <4> QED
        BY <4>1, <4>2
    <3> DEFINE k == 1 .. AttemptLimit - 1
    <3>2. Budget(s)' = {x \in Peers \X k :
            retry'[s][x[1]].at = "pushing" /\ retry'[s][x[1]].i < x[2]}
      BY <2>2 DEF Budget
    <3>3. Budget(s) = {x \in Peers \X k :
            retry[s][x[1]].at = "pushing" /\ retry[s][x[1]].i < x[2]}
      BY DEF Budget
    <3> HIDE DEF k
    <3>4. ASSUME NEW x \in Peers \X k
          PROVE  x \in Budget(s)' <=> x \in Budget(s) /\ x # <<q, r.i + 1>>
      <4>1. x[1] \in Peers /\ x[2] \in k /\ x = <<x[1], x[2]>>
        OBVIOUS
      <4> QED
        BY <3>1, <3>2, <3>3, <4>1 DEF k
    <3> QED
      BY <3>2, <3>3, <3>4
  <2>4. <<q, r.i + 1>> \in Budget(s)
    BY <1>1, <2>2 DEF Budget
  <2>5. Cardinality(Budget(s)') = Cardinality(Budget(s)) - 1
        /\ Cardinality(Budget(s)) \in Nat
    <3>1. IsFiniteSet(Budget(s)) /\ Cardinality(Budget(s)) \in Nat
      BY BudgetFinite, FS_CardinalityType
    <3>2. Cardinality(Budget(s) \ {<<q, r.i + 1>>}) = Cardinality(Budget(s)) - 1
      BY <2>4, <3>1, FS_RemoveElement
    <3> QED
      BY <2>3, <3>1, <3>2
  <2>6. \A t \in Sends \ {s} : Budget(t)' = Budget(t) /\ pushes'[t] = pushes[t]
    BY <1>3, <2>2 DEF Budget, LightPushInv, Types
  <2>7. \A t \in Sends : Retried(t)' = Retried(t)
    BY DEF Retried
  <2>8. pushes'[s] = pushes[s] + 1 /\ pushes[s] \in Nat
    BY DEF LightPushInv, Types
  <2>9. pushes'[s] + Cardinality(Budget(s)') = pushes[s] + Cardinality(Budget(s))
    BY <2>5, <2>8
  <2>10. \A p \in Peers, t \in Sends : retry'[t][p].at = retry[t][p].at
    BY <1>1, <1>2, <1>3
  <2>11. pushes'[s] + Cardinality(Budget(s)')
           <= Cardinality(send[s].successes) + send[s].failures
                + Retried(s)' * AttemptLimit'
    BY <2>1, <2>2, <2>7, <2>9 DEF LightPushInv, BudgetKept
  <2> DEFINE Kept(t) ==
        /\ send[t].at = "idle" => pushes[t] = 0
        /\ send[t].at = "pushing" => pushes[t] = Len(send[t].peers)
        /\ send[t].at # "returned" =>
             /\ send[t].successes = {} /\ send[t].failures = 0
             /\ \A p \in Peers : retry[t][p].at # "pushing"
        /\ send[t].at # "pushing" => send[t].peers = <<>>
        /\ send[t].at = "returned" =>
             pushes[t] + Cardinality(Budget(t))
               <= Cardinality(send[t].successes) + send[t].failures
                    + Retried(t) * AttemptLimit
  <2>12. ASSUME NEW t \in Sends \ {s} PROVE Kept(t)'
    <3>1. Kept(t)
      BY DEF LightPushInv, BudgetKept
    <3>2. /\ Budget(t)' = Budget(t) /\ pushes'[t] = pushes[t]
          /\ Retried(t)' = Retried(t) /\ AttemptLimit' = AttemptLimit
          /\ \A p \in Peers : retry'[t][p].at = retry[t][p].at
      BY <2>2, <2>6, <2>7, <2>10
    <3> QED
      BY <3>1, <3>2
  <2>13. Kept(s)'
    BY <2>1, <2>11 DEF LightPushInv, BudgetKept
  <2> QED
    BY <2>12, <2>13 DEF BudgetKept
<1> QED
  BY <1>4, <1>5, <1>6, <1>7, <1>8 DEF LightPushInv

LEMMA RetryNextKeeps ==
    ASSUME LightPushInv, NEW s \in Sends, NEW q \in Peers, RetryNext(s, q)
    PROVE  LightPushInv'
<1>1. CASE retry[s][q].push = "success" \/ ~AttemptsLeft(retry[s][q].i + 1)
  BY <1>1, RetryEndsKeeps DEF RetryNext
<1>2. CASE ~(retry[s][q].push = "success" \/ ~AttemptsLeft(retry[s][q].i + 1))
  BY <1>2, RetryGoesOnKeeps DEF RetryNext, AttemptsLeft
<1> QED
  BY <1>1, <1>2

-----------------------------------------------------------------------------
(* The theorems. *)

LEMMA InitHolds == Init => LightPushInv
<1> SUFFICES ASSUME Init PROVE LightPushInv
  OBVIOUS
<1>1. connected \in Seq(Peers) /\ IsInjective(connected)
  <2>1. PICK c \in SUBSET Peers : connected \in SetToSeqs(c)
    BY DEF Init
  <2>2. IsFiniteSet(c) /\ Cardinality(c) \in Nat
    BY LightPushAssumption, FS_Subset, FS_CardinalityType
  <2>3. /\ connected \in [1 .. Cardinality(c) -> c]
        /\ \A i, j \in 1 .. Cardinality(c) : i # j => connected[i] # connected[j]
    BY <2>1 DEF SetToSeqs
  <2>4. IsInjective(connected)
    BY <2>3 DEF IsInjective
  <2> QED
    BY <2>2, <2>3, <2>4
<1>2. NoRetry \in RetryType /\ NoSend \in SendType
  BY LightPushAssumption
     DEF NoRetry, NoSend, RetryType, SendType, PushStates, MessageKinds
<1>3. Types
  <2>1. HealthTypeOK
    BY DEF Init, HealthTypeOK, HealthStatus
  <2> QED
    BY <1>1, <1>2, <2>1 DEF Init, Types, PushStates
<1>4. Lists
  <2>1. ListOfPeers(<<>>)
    BY LightPushAssumption DEF ListOfPeers, IsInjective
  <2> QED
    BY <2>1 DEF Init, Lists, NoSend, NoRetry
<1>5. PushesAreTrue /\ SuccessIsTrue
  BY DEF Init, PushesAreTrue, SuccessIsTrue, NoSend
<1>6. HealthIsEarned
  BY DEF Init, HealthIsEarned, Protocols
<1>7. BudgetKept
  BY DEF Init, BudgetKept, NoSend, NoRetry
<1> QED
  BY <1>3, <1>4, <1>5, <1>6, <1>7 DEF LightPushInv

LEMMA StepKeeps == LightPushInv /\ [Next]_vars => LightPushInv'
<1> SUFFICES ASSUME LightPushInv, [Next]_vars PROVE LightPushInv'
  OBVIOUS
<1>1. CASE UNCHANGED vars
  <2>1. UNCHANGED <<connected, send, push, retry, accepted, pushes, healthVars>>
    BY <1>1 DEF vars
  <2>2. Types' /\ Lists' /\ PushesAreTrue' /\ SuccessIsTrue'
    BY <2>1 DEF LightPushInv, Types, Lists, PushesAreTrue, SuccessIsTrue,
                ListOfPeers, healthVars, HealthTypeOK
  <2>3. HealthIsEarned'
    BY <2>1, <2>2, HealthStaysEarned DEF LightPushInv, Returned
  <2>4. BudgetKept'
    BY <2>1, BoundStays DEF LightPushInv
  <2> QED
    BY <2>2, <2>3, <2>4 DEF LightPushInv
<1>2. ASSUME NEW s \in Sends, SendStep(s) PROVE LightPushInv'
  BY <1>2, SendReturnsKeeps, PushKeeps, RetryPushKeeps, RetryNextKeeps
     DEF SendStep
<1>3. ASSUME NEW s \in Sends, NEW message \in Messages[s], Send(s, message)
      PROVE  LightPushInv'
  BY <1>3, SendKeeps
<1>4. ASSUME NEW s \in Sends, NEW p \in Peers, NEW answer \in Answers,
             PushAnswered(s, p, answer) \/ RetryAnswered(s, p, answer)
      PROVE  LightPushInv'
  BY <1>4, PushKeeps, RetryPushKeeps
<1>5. ASSUME NEW p \in Peers, Connect(p) \/ Disconnect(p)
      PROVE  LightPushInv'
  BY <1>5, ConnectionKeeps
<1> QED
  BY <1>1, <1>2, <1>3, <1>4, <1>5 DEF Next

LEMMA InvariantHolds == Spec => []LightPushInv
BY InitHolds, StepKeeps, PTL DEF Spec

\* What light push tells its caller and the health manager of a message is true
\* of what the service nodes have taken.
THEOREM ReportsTrue == Spec => []ReportsAreTrue
<1>1. LightPushInv => ReportsAreTrue
  <2> SUFFICES ASSUME LightPushInv PROVE TypeOK
    BY DEF LightPushInv, ReportsAreTrue
  <2>1. DOMAIN NoSend = {"at", "message", "peers", "successes", "failures"}
        /\ DOMAIN NoRetry = {"at", "peers", "i", "push"}
    BY DEF NoSend, NoRetry
  <2> QED
    BY <2>1 DEF LightPushInv, Types, Lists, TypeOK, SendType, RetryType
<1> QED
  BY <1>1, InvariantHolds, PTL

\* A message is pushed at most once per peer and maxAttempts times per failure:
\* for any number of peers, sends and attempts, retries do not multiply.
THEOREM RetriesBounded == Spec => []RetriesAreBounded
<1>1. ASSUME LightPushInv PROVE RetriesAreBounded
  <2>1. SUFFICES ASSUME NEW s \in Sends
        PROVE  pushes[s] <= Len(send[s].peers) + Cardinality(send[s].successes)
                              + send[s].failures + Retried(s) * AttemptLimit
    BY DEF RetriesAreBounded, Retried
  <2>2. /\ send[s] \in SendType /\ pushes[s] \in Nat
        /\ Cardinality(send[s].successes) \in Nat
        /\ Cardinality(Budget(s)) \in Nat
    <3>1. send[s].successes \subseteq Peers
      BY <1>1 DEF LightPushInv, Types, SendType
    <3> QED
      BY <1>1, <3>1, LightPushAssumption, BudgetFinite, FS_Subset,
         FS_CardinalityType DEF LightPushInv, Types
  <2>3. Retried(s) * AttemptLimit \in Nat
    <3>1. Retried(s) \in Nat
      BY <2>2 DEF Retried, SendType
    <3> QED
      BY <3>1, LimitPositive
  <2>4. Len(send[s].peers) \in Nat /\ send[s].failures \in Nat
    BY <2>2 DEF SendType
  <2>5. CASE send[s].at = "idle"
    BY <1>1, <2>2, <2>3, <2>4, <2>5 DEF LightPushInv, BudgetKept
  <2>6. CASE send[s].at = "pushing"
    BY <1>1, <2>2, <2>3, <2>4, <2>6 DEF LightPushInv, BudgetKept
  <2>7. CASE send[s].at = "returned"
    <3>1. pushes[s] + Cardinality(Budget(s))
               <= Cardinality(send[s].successes) + send[s].failures
                    + Retried(s) * AttemptLimit
      BY <1>1, <2>7 DEF LightPushInv, BudgetKept
    <3> QED
      BY SMTT(30), <2>2, <2>3, <2>4, <3>1
  <2> QED
    BY <2>2, <2>5, <2>6, <2>7 DEF SendType
<1> QED
  BY <1>1, InvariantHolds, PTL
=============================================================================
