------------------------- MODULE BaseProtocolProofs -------------------------
(***************************************************************************)
(* Proofs about the calls in flight of BaseProtocolSDK, their lists and    *)
(* mutex, and about the health that it and HealthManager report, for every *)
(* finite set of peers and every set of calls.                             *)
(***************************************************************************)
EXTENDS BaseProtocolSDK, FiniteSetTheorems, TLAPS

\* The overall status is computed from what the protocols have reported.
OverallComputed ==
    overallStatus = Overall({protocolStatuses[q] : q \in relevantProtocols})

HealthInv == HealthTypeOK /\ HealthReported /\ OverallComputed

\* One report keeps the types and the relation of the overall status.
LEMMA ReportKeeps ==
    ASSUME HealthTypeOK, NEW p \in Protocols, NEW n, updateProtocolHealth(p, n)
    PROVE  /\ HealthTypeOK'
           /\ OverallComputed'
           /\ protocolStatuses'[p] = StatusOf(n)
           /\ \A q \in Protocols \ {p} : protocolStatuses'[q] = protocolStatuses[q]
<1>1. StatusOf(n) \in HealthStatus
  BY DEF StatusOf, HealthStatus
<1>2. \A s : Overall(s) \in HealthStatus
  BY DEF Overall, HealthStatus
<1>3. protocolStatuses' = [protocolStatuses EXCEPT ![p] = StatusOf(n)]
      /\ OverallComputed'
  BY DEF updateProtocolHealth, OverallComputed
<1>4. overallStatus' \in HealthStatus
  BY <1>2, <1>3 DEF OverallComputed
<1> QED
  BY <1>1, <1>3, <1>4 DEF HealthTypeOK

\* A list of peers that changes is reported with it.
LEMMA ListReported ==
    ASSUME HealthInv, NEW list, SetPeers(list)
    PROVE  HealthInv'
<1>1. peers' = list /\ updateProtocolHealth("Filter", Len(list))
  BY DEF SetPeers, CountAfter
<1>2. HealthTypeOK /\ "Filter" \in Protocols
  BY DEF HealthInv, Protocols
<1> QED
  BY <1>1, <1>2, ReportKeeps DEF HealthInv, HealthReported

\* Every step reports the new list, is a report of light push, or changes
\* neither the list nor the statuses.
LEMMA StepReports ==
    ASSUME [Next]_vars
    PROVE  \/ \E list : SetPeers(list)
           \/ UNCHANGED peers /\ \E n : updateProtocolHealth("LightPush", n)
           \/ UNCHANGED <<peers, healthVars>>
<1>1. ASSUME NEW t \in Tasks, TaskStep(t)
      PROVE  (\E list : SetPeers(list)) \/ UNCHANGED <<peers, healthVars>>
  BY <1>1 DEF TaskStep, ReadCount, Maintain, GetPeers, FindPeers, Write, RemovePeer,
     AddPeer, AddPeerFails, CheckPeers
<1>2. ASSUME NEW n \in LightPushCounts, LightPushHealth(n)
      PROVE  UNCHANGED peers /\ updateProtocolHealth("LightPush", n)
  BY <1>2 DEF LightPushHealth
<1>3. CASE UNCHANGED vars
  BY <1>3 DEF vars
<1> QED
  BY <1>1, <1>2, <1>3 DEF Next, Tick, HasPeers, RenewPeer,
     stopMaintainPeersInterval, Connect, Disconnect

LEMMA HealthInvariant == Spec => []HealthInv
<1>1. Init => HealthInv
  <2> SUFFICES ASSUME Init PROVE HealthInv
    OBVIOUS
  <2>1. protocolStatuses["Filter"] = "Unhealthy" /\ Len(peers) = 0
    BY DEF Init, Protocols, StatusOf
  <2>2. "Unhealthy" \in {protocolStatuses[q] : q \in relevantProtocols}
    BY <2>1 DEF relevantProtocols
  <2>3. OverallComputed
    BY <2>2 DEF Init, OverallComputed, Overall
  <2>4. HealthTypeOK
    BY DEF Init, HealthTypeOK, HealthStatus, StatusOf
  <2> QED
    BY <2>1, <2>3, <2>4 DEF HealthInv, HealthReported, StatusOf
<1>2. HealthInv /\ [Next]_vars => HealthInv'
  <2> SUFFICES ASSUME HealthInv, [Next]_vars PROVE HealthInv'
    OBVIOUS
  <2>1. CASE \E list : SetPeers(list)
    BY <2>1, ListReported
  <2>2. ASSUME UNCHANGED peers, NEW n, updateProtocolHealth("LightPush", n)
        PROVE  HealthInv'
    <3>1. "LightPush" \in Protocols /\ "Filter" \in Protocols \ {"LightPush"}
      BY DEF Protocols
    <3> QED
      BY <2>2, <3>1, ReportKeeps DEF HealthInv, HealthReported
  <2>3. CASE UNCHANGED <<peers, healthVars>>
    BY <2>3 DEF healthVars, HealthInv, HealthTypeOK, HealthReported, OverallComputed
  <2> QED
    BY <2>1, <2>2, <2>3, StepReports
<1> QED
  BY <1>1, <1>2, PTL DEF Spec

-----------------------------------------------------------------------------
(* Whichever calls add and remove peers, fail half way or overlap, the       *)
(* health that Filter has reported is that of the list of peers in use.      *)
THEOREM HealthAlwaysReported == Spec => []HealthReported
BY HealthInvariant, PTL DEF HealthInv

(* The overall status is the worst that light push and filter have reported. *)
THEOREM OverallAlwaysWorst == Spec => []OverallIsWorst
<1>1. HealthInv => OverallIsWorst
  <2> SUFFICES ASSUME HealthInv PROVE OverallIsWorst
    OBVIOUS
  <2> DEFINE reported == {protocolStatuses[q] : q \in relevantProtocols}
  <2>1. \A s : s \in reported <=> \E p \in relevantProtocols : protocolStatuses[p] = s
    OBVIOUS
  <2>2. overallStatus = Overall(reported)
    BY DEF HealthInv, OverallComputed
  <2> HIDE DEF reported
  <2> QED
    BY <2>1, <2>2 DEF OverallIsWorst, Overall
<1> QED
  BY <1>1, HealthInvariant, PTL

-----------------------------------------------------------------------------
(* The lists of peers, the calls in flight and the write mutex. *)

TaskType ==
    [kind : Kinds, at : TaskStates, number : Int, found : Seq(Peers),
     toRemove : Seq(Peers), toAdd : Seq(Peers), attempt : 0 .. maxAttempts - 1,
     force : BOOLEAN]

\* A call that waits for the mutex has a peer to remove or to add.
GoodTask(k) ==
    /\ k \in TaskType
    /\ IsInjective(k.found) /\ IsInjective(k.toRemove) /\ IsInjective(k.toAdd)
    /\ k.at = "mutex" => k.toRemove # <<>> \/ k.toAdd # <<>>

TasksGood == /\ task \in [Tasks -> TaskType]
             /\ \A t \in Tasks : GoodTask(task[t])

\* The calls at the mutex are those that wait for it, each once.
MutexExact ==
    /\ writeMutex \in Seq(Tasks) /\ IsInjective(writeMutex)
    /\ \A t \in Tasks : task[t].at = "mutex" <=> t \in Range(writeMutex)

CallsInv ==
    /\ ListOfPeers(peers)
    /\ TasksGood
    /\ MutexExact
    /\ maintaining \in BOOLEAN
    /\ renewed \in 0 .. Renewals
    /\ connected \subseteq Peers

LEMMA BoundsAreNumbers ==
    /\ numPeersToUse \in Nat /\ maxAttempts \in Nat /\ maxAttempts > 0
    /\ Renewals \in Nat /\ IsFiniteSet(Peers)
BY BaseProtocolAssumption

LEMMA EmptyList == ListOfPeers(<<>>)
<1>1. <<>> \in Seq(Peers) /\ DOMAIN <<>> = {}
  OBVIOUS
<1> QED
  BY <1>1 DEF ListOfPeers, IsInjective

\* The first peers of a list are one.
LEMMA FirstAreAList ==
    ASSUME NEW s, ListOfPeers(s), NEW n \in Int
    PROVE  ListOfPeers(FirstOf(s, n))
<1> DEFINE m == IF n < Len(s) THEN n ELSE Len(s)
<1>1. s \in Seq(Peers) /\ Len(s) \in Nat /\ m \in Int /\ m <= Len(s)
  BY DEF ListOfPeers
<1>2. FirstOf(s, n) = SubSeq(s, 1, m)
  BY DEF FirstOf
<1> HIDE DEF m
<1>3. CASE m < 1
  <2>1. SubSeq(s, 1, m) = <<>>
    BY <1>1, <1>3
  <2> QED
    BY <1>2, <2>1, EmptyList
<1>4. CASE m >= 1
  <2>1. SubSeq(s, 1, m) \in Seq(Peers) /\ Len(SubSeq(s, 1, m)) = m
        /\ \A i \in 1 .. m : SubSeq(s, 1, m)[i] = s[i]
    BY <1>1, <1>4
  <2> QED
    BY <1>1, <1>2, <1>4, <2>1 DEF ListOfPeers, IsInjective
<1> QED
  BY <1>1, <1>3, <1>4

\* What is left of a list at some of its places is one.
LEMMA SublistIsAList ==
    ASSUME NEW s, ListOfPeers(s), NEW places \in SUBSET DOMAIN s
    PROVE  ListOfPeers(Sublist(s, places))
<1> DEFINE upTo(i) == {j \in places : j <= i}
           rank(i) == Cardinality(upTo(i))
           n == Cardinality(places)
           at(k) == CHOOSE i \in places : rank(i) = k
<1>1. s \in Seq(Peers) /\ DOMAIN s = 1 .. Len(s) /\ Len(s) \in Nat /\ places \subseteq Int
  BY DEF ListOfPeers
<1>2. IsFiniteSet(places) /\ n \in Nat
  <2>1. IsFiniteSet(1 .. Len(s))
    BY <1>1, FS_Interval
  <2>2. IsFiniteSet(places)
    BY <1>1, <2>1, FS_Subset
  <2> QED
    BY <2>2, FS_CardinalityType
<1>3. \A i \in places : rank(i) \in 1 .. n
  <2> SUFFICES ASSUME NEW i \in places PROVE rank(i) \in 1 .. n
    OBVIOUS
  <2>1. upTo(i) \subseteq places /\ i \in upTo(i)
    BY <1>1
  <2> HIDE DEF upTo
  <2>2. IsFiniteSet(upTo(i)) /\ rank(i) <= n
    BY <1>2, <2>1, FS_Subset
  <2>3. rank(i) \in Nat /\ rank(i) # 0
    BY <2>1, <2>2, FS_CardinalityType, FS_EmptySet
  <2> QED
    BY <1>2, <2>2, <2>3
<1>4. \A i, j \in places : i < j => rank(i) # rank(j)
  <2> SUFFICES ASSUME NEW i \in places, NEW j \in places, i < j
               PROVE  rank(i) # rank(j)
    OBVIOUS
  <2>1. upTo(i) \subseteq upTo(j) /\ j \in upTo(j) /\ j \notin upTo(i)
        /\ upTo(j) \subseteq places
    BY <1>1
  <2> HIDE DEF upTo
  <2>2. IsFiniteSet(upTo(j))
    BY <1>2, <2>1, FS_Subset
  <2>3. rank(i) = rank(j) => upTo(i) = upTo(j)
    BY <2>1, <2>2, FS_Subset
  <2> QED
    BY <2>1, <2>3
<1> DEFINE f == [i \in places |-> rank(i)]
<1>5. f \in Injection(places, 1 .. n)
  <2>1. \A i, j \in places : rank(i) = rank(j) => i = j
    <3> HIDE DEF rank
    <3>1. \A i, j \in places : i = j \/ i < j \/ j < i
      BY <1>1
    <3> QED
      BY <1>4, <3>1
  <2>2. f \in [places -> 1 .. n]
    <3> HIDE DEF rank, n
    <3> QED
      BY <1>3
  <2> HIDE DEF rank, n
  <2> QED
    BY <2>1, <2>2 DEF Injection, IsInjective
<1>6. f \in Surjection(places, 1 .. n)
  <2>1. IsFiniteSet(1 .. n) /\ Cardinality(1 .. n) = n
    BY <1>2, FS_Interval
  <2> HIDE DEF f
  <2> QED
    BY <1>5, <2>1, FS_Injection
<1>7. \A k \in 1 .. n : at(k) \in places /\ rank(at(k)) = k
  <2> HIDE DEF rank, n
  <2>1. \A k \in 1 .. n : \E i \in places : rank(i) = k
    BY <1>6 DEF Surjection
  <2> QED
    BY <2>1
<1>8. Sublist(s, places) = [k \in 1 .. n |-> s[at(k)]]
  BY DEF Sublist
<1> HIDE DEF rank, at, n
<1>9. Sublist(s, places) \in Seq(Peers)
  <2>1. \A k \in 1 .. n : s[at(k)] \in Peers
    BY <1>1, <1>7
  <2> QED
    BY <1>2, <1>8, <2>1
<1>10. IsInjective(Sublist(s, places))
  <2> SUFFICES ASSUME NEW k \in 1 .. n, NEW l \in 1 .. n, s[at(k)] = s[at(l)]
               PROVE  k = l
    BY <1>8 DEF IsInjective
  <2>1. at(k) = at(l)
    BY <1>7 DEF ListOfPeers, IsInjective
  <2> QED
    BY <1>7, <2>1
<1> QED
  BY <1>9, <1>10 DEF ListOfPeers

LEMMA NewPeersAreAList ==
    ASSUME NEW s, ListOfPeers(s), NEW n \in Int
    PROVE  ListOfPeers(NewPeers(s, n))
<1> DEFINE places == {i \in DOMAIN s : ~Contains(peers, s[i])}
<1>1. places \in SUBSET DOMAIN s /\ NewPeers(s, n) = FirstOf(Sublist(s, places), n)
  BY DEF NewPeers
<1> HIDE DEF places
<1> QED
  BY <1>1, SublistIsAList, FirstAreAList

\* A list without one of its places.
LEMMA WithoutPlace ==
    ASSUME NEW l, ListOfPeers(l), NEW i \in DOMAIN l
    PROVE  ListOfPeers(RemoveAt(l, i))
<1> DEFINE a == SubSeq(l, 1, i - 1)
           b == SubSeq(l, i + 1, Len(l))
<1>0. l \in Seq(Peers)
  BY DEF ListOfPeers
<1>1. a \in Seq(Peers) /\ Len(a) = i - 1 /\ \A j \in 1 .. i - 1 : a[j] = l[j]
  BY <1>0
<1>2. b \in Seq(Peers) /\ Len(b) = Len(l) - i
      /\ \A j \in 1 .. Len(l) - i : b[j] = l[i + j]
  BY <1>0
<1>3. RemoveAt(l, i) = a \o b
  BY DEF RemoveAt
<1> HIDE DEF a, b
<1>4. /\ a \o b \in Seq(Peers) /\ Len(a \o b) = Len(l) - 1
      /\ \A j \in 1 .. Len(l) - 1 :
           (a \o b)[j] = l[IF j < i THEN j ELSE j + 1]
  BY <1>0, <1>1, <1>2
<1>5. ASSUME NEW j \in 1 .. Len(l) - 1, NEW k \in 1 .. Len(l) - 1,
             (a \o b)[j] = (a \o b)[k]
      PROVE  j = k
  <2> DEFINE at(m) == IF m < i THEN m ELSE m + 1
  <2>1. at(j) \in DOMAIN l /\ at(k) \in DOMAIN l /\ l[at(j)] = l[at(k)]
    BY <1>0, <1>4, <1>5
  <2>2. at(j) = at(k)
    BY <2>1 DEF ListOfPeers, IsInjective
  <2> QED
    BY <1>0, <2>2
<1>6. DOMAIN (a \o b) = 1 .. Len(l) - 1
  BY <1>0, <1>4
<1> QED
  BY <1>3, <1>4, <1>5, <1>6 DEF ListOfPeers, IsInjective

LEMMA RemovedLeavesAList ==
    ASSUME NEW l, ListOfPeers(l), NEW p
    PROVE  ListOfPeers(RemoveFirst(l, p))
<1>0. l \in Seq(Peers) /\ DOMAIN l = 1 .. Len(l)
  BY DEF ListOfPeers
<1>1. CASE \E i \in 1 .. Len(l) : l[i] = p
  <2>1. PICK i \in 1 .. Len(l) : l[i] = p
    BY <1>1
  <2> DEFINE I == {j \in 1 .. Len(l) : l[j] = p}
  <2>2. I = {i}
    BY <1>0, <2>1 DEF ListOfPeers, IsInjective
  <2>3. RemoveFirst(l, p) = RemoveAt(l, SelectInSeq(l, LAMBDA v : v = p))
    BY <1>1 DEF RemoveFirst
  <2>4. SelectInSeq(l, LAMBDA v : v = p) = Min(I)
    BY <2>2 DEF SelectInSeq
  <2>5. Min(I) = i
    <3> HIDE DEF I
    <3> QED
      BY <2>1, <2>2 DEF Min
  <2> QED
    BY <1>0, <2>3, <2>4, <2>5, WithoutPlace
<1>2. CASE ~\E i \in 1 .. Len(l) : l[i] = p
  BY <1>2 DEF RemoveFirst
<1> QED
  BY <1>1, <1>2

LEMMA AddedMakesAList ==
    ASSUME NEW l, ListOfPeers(l), NEW p \in Peers
    PROVE  ListOfPeers(IF Contains(l, p) THEN l ELSE Append(l, p))
<1>1. CASE Contains(l, p)
  BY <1>1
<1>2. CASE ~Contains(l, p)
  <2>1. l \in Seq(Peers) /\ \A i \in 1 .. Len(l) : l[i] # p
    BY <1>2 DEF Contains, ListOfPeers
  <2>2. Append(l, p) \in Seq(Peers) /\ DOMAIN Append(l, p) = 1 .. Len(l) + 1
        /\ \A i \in 1 .. Len(l) : Append(l, p)[i] = l[i]
        /\ Append(l, p)[Len(l) + 1] = p
    BY <2>1
  <2>3. IsInjective(Append(l, p))
    BY <2>1, <2>2 DEF IsInjective, ListOfPeers
  <2> QED
    BY <1>2, <2>2, <2>3 DEF ListOfPeers
<1> QED
  BY <1>1, <1>2

\* The order in which core.getPeers returns peers.
LEMMA OrderIsAList ==
    ASSUME connected \subseteq Peers, NEW list \in getPeers
    PROVE  ListOfPeers(list)
<1> DEFINE S == connected \ Bootstrap
<1>1. S \subseteq Peers /\ IsFiniteSet(S)
  BY BoundsAreNumbers, FS_Subset
<1>2. list \in [1 .. Cardinality(S) -> S]
      /\ \A i, j \in 1 .. Cardinality(S) : i # j => list[i] # list[j]
  BY DEF getPeers, SetToSeqs
<1> HIDE DEF S
<1>3. Cardinality(S) \in Nat
  BY <1>1, FS_CardinalityType
<1> QED
  BY <1>1, <1>2, <1>3 DEF ListOfPeers, IsInjective

\* The rest of a list.
LEMMA RestIsAList ==
    ASSUME NEW l, ListOfPeers(l), l # <<>>
    PROVE  ListOfPeers(Tail(l)) /\ Head(l) \in Peers
<1>1. l \in Seq(Peers)
  BY DEF ListOfPeers
<1>2. Tail(l) \in Seq(Peers) /\ DOMAIN Tail(l) = 1 .. Len(l) - 1
      /\ \A i \in 1 .. Len(l) - 1 : Tail(l)[i] = l[i + 1]
  BY <1>1
<1> QED
  BY <1>1, <1>2 DEF ListOfPeers, IsInjective

-----------------------------------------------------------------------------
LEMMA IdleTaskIsGood ==
    /\ IdleTask = [kind |-> "none", at |-> "idle", number |-> 0, found |-> <<>>,
                   toRemove |-> <<>>, toAdd |-> <<>>, attempt |-> 0,
                   force |-> FALSE]
    /\ GoodTask(IdleTask)
<1>1. IsInjective(<<>>) /\ <<>> \in Seq(Peers)
  BY EmptyList DEF ListOfPeers
<1>2. 0 \in 0 .. maxAttempts - 1
  BY BoundsAreNumbers
<1>3. IdleTask \in TaskType
  BY <1>1, <1>2 DEF IdleTask, TaskType, Kinds, TaskStates
<1> QED
  BY <1>1, <1>3 DEF IdleTask, GoodTask

\* What the fields of a call are.
LEMMA TaskFields ==
    ASSUME TasksGood, NEW t \in Tasks
    PROVE  /\ GoodTask(task[t]) /\ task[t] \in TaskType /\ task[t].number \in Int
           /\ ListOfPeers(task[t].found) /\ ListOfPeers(task[t].toRemove)
           /\ ListOfPeers(task[t].toAdd)
<1>1. GoodTask(task[t]) /\ task[t] \in TaskType
  BY DEF TasksGood, GoodTask
<1> QED
  BY <1>1 DEF GoodTask, TaskType, ListOfPeers

\* A call that neither comes to the mutex nor leaves it goes on.
LEMMA CallGoesOn ==
    ASSUME TasksGood, MutexExact, NEW t \in Tasks, NEW new, GoodTask(new),
           task[t].at # "mutex", new.at # "mutex",
           task' = [task EXCEPT ![t] = new], writeMutex' = writeMutex
    PROVE  TasksGood' /\ MutexExact'
<1>1. task \in [Tasks -> TaskType] /\ new \in TaskType
  BY DEF TasksGood, GoodTask
<1>2. /\ task' \in [Tasks -> TaskType] /\ task'[t] = new
      /\ \A u \in Tasks \ {t} : task'[u] = task[u]
  BY <1>1
<1>3. TasksGood'
  BY <1>2 DEF TasksGood, GoodTask
<1>4. MutexExact'
  BY <1>2 DEF MutexExact, IsInjective, Range
<1> QED
  BY <1>3, <1>4

\* A call asks for the mutex, behind those that wait for it.
LEMMA CallWaits ==
    ASSUME TasksGood, MutexExact, NEW t \in Tasks, NEW new, GoodTask(new),
           task[t].at # "mutex", new.at = "mutex",
           task' = [task EXCEPT ![t] = new], writeMutex' = Append(writeMutex, t)
    PROVE  TasksGood' /\ MutexExact'
<1>1. task \in [Tasks -> TaskType] /\ new \in TaskType
  BY DEF TasksGood, GoodTask
<1>2. /\ task' \in [Tasks -> TaskType] /\ task'[t] = new
      /\ \A u \in Tasks \ {t} : task'[u] = task[u]
  BY <1>1
<1>3. TasksGood'
  BY <1>2 DEF TasksGood, GoodTask
<1>4. writeMutex \in Seq(Tasks) /\ IsInjective(writeMutex) /\ t \notin Range(writeMutex)
  BY DEF MutexExact
<1>5. /\ writeMutex' \in Seq(Tasks) /\ DOMAIN writeMutex' = 1 .. Len(writeMutex) + 1
      /\ \A i \in 1 .. Len(writeMutex) : writeMutex'[i] = writeMutex[i]
      /\ writeMutex'[Len(writeMutex) + 1] = t
  BY <1>4
<1>6. IsInjective(writeMutex')
  BY <1>4, <1>5 DEF IsInjective, Range
<1>7. Range(writeMutex') = Range(writeMutex) \cup {t}
  BY <1>4, <1>5 DEF Range
<1>8. MutexExact'
  BY <1>2, <1>5, <1>6, <1>7 DEF MutexExact
<1> QED
  BY <1>3, <1>8

\* The holder gives the mutex to the next.
LEMMA CallReleases ==
    ASSUME TasksGood, MutexExact, NEW t \in Tasks, NEW new, GoodTask(new),
           writeMutex # <<>>, Head(writeMutex) = t, new.at # "mutex",
           task' = [task EXCEPT ![t] = new], writeMutex' = Tail(writeMutex)
    PROVE  TasksGood' /\ MutexExact'
<1>1. task \in [Tasks -> TaskType] /\ new \in TaskType
  BY DEF TasksGood, GoodTask
<1>2. /\ task' \in [Tasks -> TaskType] /\ task'[t] = new
      /\ \A u \in Tasks \ {t} : task'[u] = task[u]
  BY <1>1
<1>3. TasksGood'
  BY <1>2 DEF TasksGood, GoodTask
<1>4. writeMutex \in Seq(Tasks) /\ IsInjective(writeMutex)
  BY DEF MutexExact
<1>5. /\ writeMutex' \in Seq(Tasks) /\ DOMAIN writeMutex' = 1 .. Len(writeMutex) - 1
      /\ \A i \in 1 .. Len(writeMutex) - 1 : writeMutex'[i] = writeMutex[i + 1]
      /\ DOMAIN writeMutex = 1 .. Len(writeMutex) /\ Len(writeMutex) \in Nat
      /\ writeMutex[1] = t /\ Len(writeMutex) >= 1
  BY <1>4
<1>6. IsInjective(writeMutex')
  BY <1>4, <1>5 DEF IsInjective
<1>7. \A u \in Range(writeMutex') : u \in Range(writeMutex) /\ u # t
  BY <1>4, <1>5 DEF IsInjective, Range
<1>8. \A u \in Range(writeMutex) \ {t} : u \in Range(writeMutex')
  <2> SUFFICES ASSUME NEW i \in DOMAIN writeMutex, writeMutex[i] # t
               PROVE  writeMutex[i] \in Range(writeMutex')
    BY DEF Range
  <2>1. i - 1 \in DOMAIN writeMutex' /\ writeMutex'[i - 1] = writeMutex[i]
    BY <1>5
  <2> QED
    BY <2>1 DEF Range
<1>9. MutexExact'
  BY <1>2, <1>5, <1>6, <1>7, <1>8 DEF MutexExact
<1> QED
  BY <1>3, <1>9

\* maintainPeers returns with a good call, which waits for nothing.
LEMMA ReturnIsGood ==
    ASSUME TasksGood, NEW t \in Tasks, MaintainReturns(t)
    PROVE  \E new : GoodTask(new) /\ new.at # "mutex" /\ task' = [task EXCEPT ![t] = new]
<1>1. CASE task[t].kind = "hasPeers"
  <2> DEFINE new == [task[t] EXCEPT !.at = "check", !.number = 0,
                                    !.toRemove = <<>>, !.toAdd = <<>>]
  <2>1. task' = [task EXCEPT ![t] = new]
    BY <1>1 DEF MaintainReturns
  <2>2. new \in TaskType /\ new.at = "check" /\ new.found = task[t].found
        /\ new.toRemove = <<>> /\ new.toAdd = <<>>
    <3>1. PICK k : k = task[t]
      OBVIOUS
    <3>2. PICK e : e = <<>>
      OBVIOUS
    <3>3. k \in TaskType /\ e \in Seq(Peers)
      BY <3>1, <3>2, TaskFields, EmptyList DEF ListOfPeers
    <3>4. new = [k EXCEPT !.at = "check", !.number = 0, !.toRemove = e, !.toAdd = e]
      BY <3>1, <3>2
    <3> HIDE DEF new
    <3>5. /\ new \in TaskType /\ new.at = "check" /\ new.found = k.found
          /\ new.toRemove = e /\ new.toAdd = e
      <4>1. "check" \in TaskStates /\ 0 \in Int
        BY DEF TaskStates
      <4>2. /\ new.at = "check" /\ new.found = k.found
            /\ new.toRemove = e /\ new.toAdd = e
        BY <3>3, <3>4 DEF TaskType
      <4>3. new \in TaskType
        BY <3>3, <3>4, <4>1 DEF TaskType
      <4> QED
        BY <4>2, <4>3
    <3> QED
      BY <3>1, <3>2, <3>5
  <2> HIDE DEF new
  <2>3. GoodTask(new)
    BY <2>2, TaskFields, EmptyList DEF GoodTask, ListOfPeers
  <2> QED
    BY <2>1, <2>2, <2>3
<1>2. CASE task[t].kind # "hasPeers"
  BY <1>2, IdleTaskIsGood DEF MaintainReturns
<1> QED
  BY <1>1, <1>2

\* A call that only changes where it is, to a state other than the mutex.
LEMMA GoesIsGood ==
    ASSUME TasksGood, NEW t \in Tasks, NEW to \in TaskStates \ {"mutex"}, Goes(t, to)
    PROVE  \E new : GoodTask(new) /\ new.at # "mutex" /\ task' = [task EXCEPT ![t] = new]
<1> DEFINE new == [task[t] EXCEPT !.at = to]
<1>1. task' = [task EXCEPT ![t] = new]
  BY TaskFields DEF Goes, TasksGood
<1>2. new \in TaskType /\ new.at = to /\ new.found = task[t].found
      /\ new.toRemove = task[t].toRemove /\ new.toAdd = task[t].toAdd
  BY TaskFields DEF TaskType
<1> HIDE DEF new
<1>3. GoodTask(new)
  BY <1>2, TaskFields DEF GoodTask
<1> QED
  BY <1>1, <1>2, <1>3

\* A new call.
LEMMA NewTaskIsGood ==
    ASSUME NEW new, new \in TaskType, new.at \in {"count", "peers"},
           new.found = <<>>, new.toAdd = <<>>, ListOfPeers(new.toRemove)
    PROVE  GoodTask(new) /\ new.at # "mutex"
BY EmptyList DEF GoodTask, ListOfPeers

LEMMA CallsBegin ==
    ASSUME CallsInv, NEW t \in Tasks,
           \/ Tick(t)
           \/ \E force \in BOOLEAN : HasPeers(t, force)
           \/ \E p \in Peers : RenewPeer(t, p)
    PROVE  CallsInv'
<1>1. TasksGood /\ MutexExact
  BY DEF CallsInv
<1>2. "mutex" \notin Ended
  BY DEF Ended
<1>3. IdleTask \in TaskType /\ IsInjective(<<>>) /\ <<>> \in Seq(Peers)
  BY IdleTaskIsGood, EmptyList DEF GoodTask, ListOfPeers
<1>4. ASSUME NEW new, GoodTask(new), new.at # "mutex", task[t].at \in Ended,
             task' = [task EXCEPT ![t] = new], renewed' \in 0 .. Renewals,
             UNCHANGED <<peers, writeMutex, maintaining, connected>>
      PROVE  CallsInv'
  BY <1>1, <1>2, <1>4, CallGoesOn DEF CallsInv, ListOfPeers, IsInjective
<1>5. CASE Tick(t)
  <2> DEFINE new == [IdleTask EXCEPT !.kind = "maintain", !.at = "count"]
  <2>1. /\ new \in TaskType /\ new.at = "count" /\ new.found = <<>>
        /\ new.toAdd = <<>> /\ new.toRemove = <<>>
    BY <1>3, IdleTaskIsGood DEF TaskType, Kinds, TaskStates
  <2>2. /\ task[t].at \in Ended /\ task' = [task EXCEPT ![t] = new]
        /\ UNCHANGED <<peers, writeMutex, maintaining, connected, renewed>>
    BY <1>5 DEF Tick
  <2> HIDE DEF new
  <2> QED
    BY <1>4, <2>1, <2>2, NewTaskIsGood, EmptyList DEF CallsInv
<1>6. ASSUME NEW force \in BOOLEAN, HasPeers(t, force)
      PROVE  CallsInv'
  <2> DEFINE new == [IdleTask EXCEPT !.kind = "hasPeers", !.at = "count",
                                     !.force = force]
  <2>1. /\ new \in TaskType /\ new.at = "count" /\ new.found = <<>>
        /\ new.toAdd = <<>> /\ new.toRemove = <<>>
    BY <1>3, IdleTaskIsGood DEF TaskType, Kinds, TaskStates
  <2>2. /\ task[t].at \in Ended /\ task' = [task EXCEPT ![t] = new]
        /\ UNCHANGED <<peers, writeMutex, maintaining, connected, renewed>>
    BY <1>6 DEF HasPeers
  <2> HIDE DEF new
  <2> QED
    BY <1>4, <2>1, <2>2, NewTaskIsGood, EmptyList DEF CallsInv
<1>7. ASSUME NEW p \in Peers, RenewPeer(t, p)
      PROVE  CallsInv'
  <2> DEFINE new == [IdleTask EXCEPT !.kind = "renew", !.at = "peers",
                                     !.number = 1, !.toRemove = <<p>>]
  <2>0. ListOfPeers(<<p>>)
    <3>1. <<p>> \in Seq(Peers) /\ DOMAIN <<p>> = {1}
      OBVIOUS
    <3> QED
      BY <3>1 DEF ListOfPeers, IsInjective
  <2>1. /\ new \in TaskType /\ new.at = "peers" /\ new.found = <<>>
        /\ new.toAdd = <<>> /\ new.toRemove = <<p>>
    <3>1. <<p>> \in Seq(Peers) /\ 1 \in Int
      OBVIOUS
    <3> QED
      BY <1>3, <3>1, IdleTaskIsGood DEF TaskType, Kinds, TaskStates
  <2>2. /\ task[t].at \in Ended /\ task' = [task EXCEPT ![t] = new]
        /\ UNCHANGED <<peers, writeMutex, maintaining, connected>>
        /\ renewed < Renewals /\ renewed' = renewed + 1
    BY <1>7 DEF RenewPeer
  <2>3. renewed' \in 0 .. Renewals
    BY <2>2, BoundsAreNumbers DEF CallsInv
  <2> HIDE DEF new
  <2> QED
    BY <1>4, <2>0, <2>1, <2>2, <2>3, NewTaskIsGood
<1> QED
  BY <1>5, <1>6, <1>7

-----------------------------------------------------------------------------
\* A call outside the mutex with lists of peers is good.
LEMMA OutsideIsGood ==
    ASSUME NEW k, k \in TaskType, k.at # "mutex", ListOfPeers(k.found),
           ListOfPeers(k.toRemove), ListOfPeers(k.toAdd)
    PROVE  GoodTask(k)
BY DEF GoodTask, ListOfPeers

\* A call goes on outside the mutex.
LEMMA GoesOn ==
    ASSUME CallsInv, NEW t \in Tasks, NEW new, GoodTask(new),
           task[t].at # "mutex", new.at # "mutex",
           task' = [task EXCEPT ![t] = new],
           UNCHANGED <<peers, writeMutex, maintaining, renewed, connected>>
    PROVE  CallsInv'
<1>1. TasksGood' /\ MutexExact'
  BY CallGoesOn DEF CallsInv
<1> QED
  BY <1>1 DEF CallsInv, ListOfPeers, IsInjective

\* A call gives the mutex back.
LEMMA Releases ==
    ASSUME CallsInv, NEW t \in Tasks, NEW new, GoodTask(new),
           writeMutex # <<>>, Head(writeMutex) = t, new.at # "mutex",
           task' = [task EXCEPT ![t] = new], writeMutex' = Tail(writeMutex),
           NEW list, ListOfPeers(list), peers' = list,
           UNCHANGED <<maintaining, renewed, connected>>
    PROVE  CallsInv'
<1>1. TasksGood' /\ MutexExact'
  BY CallReleases DEF CallsInv
<1> QED
  BY <1>1 DEF CallsInv, ListOfPeers, IsInjective

\* The holder of the mutex has a peer to remove or to add.
LEMMA HolderHasWork ==
    ASSUME CallsInv, NEW t \in Tasks, writeMutex # <<>>, Head(writeMutex) = t
    PROVE  /\ task[t].at = "mutex"
           /\ task[t].toRemove # <<>> \/ task[t].toAdd # <<>>
<1>1. t \in Range(writeMutex)
  <2>1. writeMutex \in Seq(Tasks)
    BY DEF CallsInv, MutexExact
  <2>2. 1 \in DOMAIN writeMutex /\ writeMutex[1] = t
    BY <2>1
  <2> QED
    BY <2>2 DEF Range
<1>2. task[t].at = "mutex"
  BY <1>1 DEF CallsInv, MutexExact
<1> QED
  BY <1>2 DEF CallsInv, TasksGood, GoodTask

LEMMA CountIsRead ==
    ASSUME CallsInv, NEW t \in Tasks, ReadCount(t)
    PROVE  CallsInv'
<1> DEFINE n == numPeersToUse - Len(peers)
           new == [task[t] EXCEPT !.at = "counted", !.number = n]
<1>1. TasksGood /\ n \in Int
  BY BoundsAreNumbers DEF CallsInv, ListOfPeers
<1>2. /\ task[t].at # "mutex" /\ task' = [task EXCEPT ![t] = new]
      /\ UNCHANGED <<peers, writeMutex, maintaining, renewed, connected>>
  BY <1>1 DEF ReadCount, TasksGood
<1> HIDE DEF n
<1>3. /\ new \in TaskType /\ new.at = "counted" /\ new.found = task[t].found
      /\ new.toRemove = task[t].toRemove /\ new.toAdd = task[t].toAdd
  BY <1>1, TaskFields DEF TaskType, TaskStates
<1> HIDE DEF new
<1> QED
  BY <1>1, <1>2, <1>3, TaskFields, OutsideIsGood, GoesOn

LEMMA MaintainGoesOn ==
    ASSUME CallsInv, NEW t \in Tasks, Maintain(t)
    PROVE  CallsInv'
<1>1. TasksGood /\ task[t].at # "mutex"
      /\ UNCHANGED <<peers, writeMutex, maintaining, renewed, connected>>
  BY DEF Maintain, CallsInv
<1>2. CASE MaintainReturns(t)
  BY <1>1, <1>2, ReturnIsGood, GoesOn
<1>3. CASE Goes(t, "peers")
  <2>1. "peers" \in TaskStates \ {"mutex"}
    BY DEF TaskStates
  <2> QED
    BY <1>1, <1>3, <2>1, GoesIsGood, GoesOn
<1>4. ASSUME task' = [task EXCEPT ![t].at = "write",
                                  ![t].toRemove = ExcessPeers(-task[t].number)]
      PROVE  CallsInv'
  <2>1. PICK r : r = ExcessPeers(-task[t].number)
    OBVIOUS
  <2>2. ListOfPeers(r)
    <3>1. task[t].number \in Int
      BY <1>1, TaskFields
    <3>2. -task[t].number \in Int
      BY <3>1
    <3> QED
      BY <2>1, <3>2, FirstAreAList DEF ExcessPeers, CallsInv
  <2> DEFINE new == [task[t] EXCEPT !.at = "write", !.toRemove = r]
  <2>3. task' = [task EXCEPT ![t] = new]
    BY <1>1, <1>4, <2>1 DEF TasksGood
  <2>4. /\ new \in TaskType /\ new.at = "write" /\ new.found = task[t].found
        /\ new.toRemove = r /\ new.toAdd = task[t].toAdd
    <3>1. task[t] \in TaskType /\ r \in Seq(Peers)
      BY <1>1, <2>2, TaskFields DEF ListOfPeers
    <3> QED
      BY <3>1 DEF TaskType, TaskStates
  <2> HIDE DEF new
  <2> QED
    BY <1>1, <2>2, <2>3, <2>4, TaskFields, OutsideIsGood, GoesOn
<1> QED
  BY <1>2, <1>3, <1>4 DEF Maintain

LEMMA PeersAreFetched ==
    ASSUME CallsInv, NEW t \in Tasks, GetPeers(t)
    PROVE  CallsInv'
<1>1. TasksGood /\ task[t].at # "mutex"
      /\ UNCHANGED <<peers, writeMutex, maintaining, renewed, connected>>
  BY DEF GetPeers, CallsInv
<1>2. PICK list \in getPeers :
        task' = [task EXCEPT ![t].at = "find", ![t].found = list]
  BY DEF GetPeers
<1>3. ListOfPeers(list)
  BY OrderIsAList DEF CallsInv
<1> DEFINE new == [task[t] EXCEPT !.at = "find", !.found = list]
<1>4. task' = [task EXCEPT ![t] = new]
  BY <1>1, <1>2 DEF TasksGood
<1>5. /\ new \in TaskType /\ new.at = "find" /\ new.found = list
      /\ new.toRemove = task[t].toRemove /\ new.toAdd = task[t].toAdd
  <2>1. task[t] \in TaskType /\ list \in Seq(Peers)
    BY <1>1, <1>3, TaskFields DEF ListOfPeers
  <2> QED
    BY <2>1 DEF TaskType, TaskStates
<1> HIDE DEF new
<1> QED
  BY <1>1, <1>3, <1>4, <1>5, TaskFields, OutsideIsGood, GoesOn

LEMMA PeersAreFound ==
    ASSUME CallsInv, NEW t \in Tasks, FindPeers(t)
    PROVE  CallsInv'
<1>1. TasksGood /\ task[t].at # "mutex"
      /\ UNCHANGED <<peers, writeMutex, maintaining, renewed, connected>>
  BY DEF FindPeers, CallsInv
<1>2. PICK k : k = task[t]
  OBVIOUS
<1>3. PICK a : a = NewPeers(k.found, k.number)
  OBVIOUS
<1>4. PICK e : e = <<>>
  OBVIOUS
<1>5. /\ k \in TaskType /\ ListOfPeers(k.found) /\ ListOfPeers(k.toRemove)
      /\ ListOfPeers(k.toAdd) /\ ListOfPeers(a) /\ ListOfPeers(e)
  BY <1>1, <1>2, <1>3, <1>4, TaskFields, NewPeersAreAList, EmptyList
<1>6. a \in Seq(Peers) /\ e \in Seq(Peers)
  BY <1>5 DEF ListOfPeers
<1>7. CASE task' = [task EXCEPT ![t] = [k EXCEPT !.at = "undefined", !.found = e]]
  <2> DEFINE new == [k EXCEPT !.at = "undefined", !.found = e]
  <2>1. /\ new \in TaskType /\ new.at = "undefined" /\ new.found = e
        /\ new.toRemove = k.toRemove /\ new.toAdd = k.toAdd
    BY <1>5, <1>6 DEF TaskType, TaskStates
  <2>2. task' = [task EXCEPT ![t] = new]
    BY <1>7
  <2> HIDE DEF new
  <2> QED
    BY <1>1, <1>5, <2>1, <2>2, OutsideIsGood, GoesOn
<1>8. CASE task' = [task EXCEPT ![t] =
                      [k EXCEPT !.at = "write", !.found = e, !.toAdd = a]]
  <2> DEFINE new == [k EXCEPT !.at = "write", !.found = e, !.toAdd = a]
  <2>1. /\ new \in TaskType /\ new.at = "write" /\ new.found = e
        /\ new.toRemove = k.toRemove /\ new.toAdd = a
    BY <1>5, <1>6 DEF TaskType, TaskStates
  <2>2. task' = [task EXCEPT ![t] = new]
    BY <1>8
  <2> HIDE DEF new
  <2> QED
    BY <1>1, <1>5, <2>1, <2>2, OutsideIsGood, GoesOn
<1> QED
  BY <1>2, <1>3, <1>4, <1>7, <1>8 DEF FindPeers

LEMMA WriteGoesOn ==
    ASSUME CallsInv, NEW t \in Tasks, Write(t)
    PROVE  CallsInv'
<1>1. TasksGood /\ MutexExact /\ task[t].at # "mutex"
      /\ UNCHANGED <<peers, maintaining, renewed, connected>>
  BY DEF Write, CallsInv
<1>2. CASE Goes(t, "renewed") /\ UNCHANGED writeMutex
  <2>1. "renewed" \in TaskStates \ {"mutex"}
    BY DEF TaskStates
  <2> QED
    BY <1>1, <1>2, <2>1, GoesIsGood, GoesOn
<1>3. CASE MaintainReturns(t) /\ UNCHANGED writeMutex
  BY <1>1, <1>3, ReturnIsGood, GoesOn
<1>4. ASSUME task[t].toRemove # <<>> \/ task[t].toAdd # <<>>,
             Goes(t, "mutex"), writeMutex' = Append(writeMutex, t)
      PROVE  CallsInv'
  <2> DEFINE new == [task[t] EXCEPT !.at = "mutex"]
  <2>1. task' = [task EXCEPT ![t] = new]
    BY <1>1, <1>4 DEF Goes, TasksGood
  <2>2. /\ new \in TaskType /\ new.at = "mutex" /\ new.found = task[t].found
        /\ new.toRemove = task[t].toRemove /\ new.toAdd = task[t].toAdd
    BY <1>1, TaskFields DEF TaskType, TaskStates
  <2> HIDE DEF new
  <2>3. GoodTask(new)
    BY <1>1, <1>4, <2>2, TaskFields DEF GoodTask
  <2>4. TasksGood' /\ MutexExact'
    BY <1>1, <1>4, <2>1, <2>2, <2>3, CallWaits
  <2> QED
    BY <1>1, <2>4 DEF CallsInv, ListOfPeers, IsInjective
<1> QED
  BY <1>2, <1>3, <1>4 DEF Write

LEMMA RemovalKeeps ==
    ASSUME CallsInv, NEW t \in Tasks, RemovePeer(t)
    PROVE  CallsInv'
<1>1. /\ TasksGood /\ ListOfPeers(peers) /\ writeMutex # <<>> /\ Head(writeMutex) = t
      /\ task[t].toRemove # <<>> /\ writeMutex' = Tail(writeMutex)
      /\ UNCHANGED <<maintaining, renewed, connected>>
  BY DEF RemovePeer, CallsInv
<1>2. PICK list : list = RemoveFirst(peers, Head(task[t].toRemove))
  OBVIOUS
<1>3. ListOfPeers(list) /\ peers' = list
  BY <1>1, <1>2, RemovedLeavesAList DEF RemovePeer, SetPeers
<1>4. PICK r : r = Tail(task[t].toRemove)
  OBVIOUS
<1>5. ListOfPeers(r)
  BY <1>1, <1>4, TaskFields, RestIsAList
<1> DEFINE new == [task[t] EXCEPT !.at = "write", !.toRemove = r]
<1>6. task' = [task EXCEPT ![t] = new]
  BY <1>1, <1>4 DEF RemovePeer, TasksGood
<1>7. /\ new \in TaskType /\ new.at = "write" /\ new.found = task[t].found
      /\ new.toRemove = r /\ new.toAdd = task[t].toAdd
  <2>1. task[t] \in TaskType /\ r \in Seq(Peers)
    BY <1>1, <1>5, TaskFields DEF ListOfPeers
  <2> QED
    BY <2>1 DEF TaskType, TaskStates
<1> HIDE DEF new
<1>8. GoodTask(new)
  BY <1>1, <1>5, <1>7, TaskFields, OutsideIsGood
<1> QED
  BY <1>1, <1>3, <1>6, <1>7, <1>8, Releases

LEMMA AdditionKeeps ==
    ASSUME CallsInv, NEW t \in Tasks, AddPeer(t)
    PROVE  CallsInv'
<1>1. /\ TasksGood /\ ListOfPeers(peers) /\ writeMutex # <<>> /\ Head(writeMutex) = t
      /\ task[t].toRemove = <<>> /\ writeMutex' = Tail(writeMutex)
      /\ UNCHANGED <<maintaining, renewed, connected>>
  BY DEF AddPeer, CallsInv
<1>2. task[t].toAdd # <<>> /\ ListOfPeers(task[t].toAdd)
  BY <1>1, HolderHasWork, TaskFields
<1>3. PICK p : p = Head(task[t].toAdd)
  OBVIOUS
<1>4. p \in Peers
  BY <1>2, <1>3, RestIsAList
<1>5. PICK list : list = IF Contains(peers, p) THEN peers ELSE Append(peers, p)
  OBVIOUS
<1>6. ListOfPeers(list)
  BY <1>1, <1>4, <1>5, AddedMakesAList
<1>7. peers' = list
  BY <1>3, <1>5 DEF AddPeer, SetPeers
<1>8. PICK r : r = Tail(task[t].toAdd)
  OBVIOUS
<1>9. ListOfPeers(r)
  BY <1>2, <1>8, RestIsAList
<1> DEFINE new == [task[t] EXCEPT !.at = "write", !.toAdd = r]
<1>10. task' = [task EXCEPT ![t] = new]
  BY <1>1, <1>8 DEF AddPeer, TasksGood
<1>11. /\ new \in TaskType /\ new.at = "write" /\ new.found = task[t].found
       /\ new.toRemove = task[t].toRemove /\ new.toAdd = r
  <2>1. task[t] \in TaskType /\ r \in Seq(Peers)
    BY <1>1, <1>9, TaskFields DEF ListOfPeers
  <2> QED
    BY <2>1 DEF TaskType, TaskStates
<1> HIDE DEF new
<1>12. GoodTask(new)
  BY <1>1, <1>9, <1>11, TaskFields, OutsideIsGood
<1> QED
  BY <1>1, <1>6, <1>7, <1>10, <1>11, <1>12, Releases

LEMMA FailureKeeps ==
    ASSUME CallsInv, NEW t \in Tasks, AddPeerFails(t)
    PROVE  CallsInv'
<1>1. /\ TasksGood /\ ListOfPeers(peers) /\ writeMutex # <<>> /\ Head(writeMutex) = t
      /\ writeMutex' = Tail(writeMutex)
      /\ UNCHANGED <<peers, maintaining, renewed, connected>>
  BY DEF AddPeerFails, CallsInv
<1>2. "rejected" \in TaskStates \ {"mutex"}
  BY DEF TaskStates
<1>3. Goes(t, "rejected") \/ MaintainReturns(t)
  BY DEF AddPeerFails
<1>4. PICK new : GoodTask(new) /\ new.at # "mutex" /\ task' = [task EXCEPT ![t] = new]
  BY <1>1, <1>2, <1>3, GoesIsGood, ReturnIsGood
<1> QED
  BY <1>1, <1>4, Releases

LEMMA CheckGoesOn ==
    ASSUME CallsInv, NEW t \in Tasks, CheckPeers(t)
    PROVE  CallsInv'
<1>1. TasksGood /\ task[t].at # "mutex"
      /\ UNCHANGED <<peers, writeMutex, maintaining, renewed, connected>>
  BY DEF CheckPeers, CallsInv
<1>2. PICK k : k = task[t]
  OBVIOUS
<1>3. PICK a : a = k.attempt + 1
  OBVIOUS
<1>4. /\ k \in TaskType /\ ListOfPeers(k.found) /\ ListOfPeers(k.toRemove)
      /\ ListOfPeers(k.toAdd)
  BY <1>1, <1>2, TaskFields
<1>5. ASSUME NEW to \in {"true", "false"}, task' = [task EXCEPT ![t] = [k EXCEPT !.at = to]]
      PROVE  CallsInv'
  <2> DEFINE new == [k EXCEPT !.at = to]
  <2>1. /\ new \in TaskType /\ new.at = to /\ new.found = k.found
        /\ new.toRemove = k.toRemove /\ new.toAdd = k.toAdd
    BY <1>4 DEF TaskType, TaskStates
  <2>2. task' = [task EXCEPT ![t] = new]
    BY <1>5
  <2> HIDE DEF new
  <2>3. new.at # "mutex"
    BY <2>1
  <2> QED
    BY <1>1, <1>4, <2>1, <2>2, <2>3, OutsideIsGood, GoesOn
<1>6. ASSUME a < maxAttempts,
             task' = [task EXCEPT ![t] = [k EXCEPT !.at = "count", !.attempt = a]]
      PROVE  CallsInv'
  <2>1. a \in 0 .. maxAttempts - 1
    BY <1>3, <1>4, <1>6, BoundsAreNumbers DEF TaskType
  <2> DEFINE new == [k EXCEPT !.at = "count", !.attempt = a]
  <2>2. /\ new \in TaskType /\ new.at = "count" /\ new.found = k.found
        /\ new.toRemove = k.toRemove /\ new.toAdd = k.toAdd
    BY <1>4, <2>1 DEF TaskType, TaskStates
  <2>3. task' = [task EXCEPT ![t] = new]
    BY <1>6
  <2> HIDE DEF new
  <2> QED
    BY <1>1, <1>4, <2>2, <2>3, OutsideIsGood, GoesOn
<1> QED
  BY <1>2, <1>3, <1>5, <1>6 DEF CheckPeers, AttemptsLeft, NextAttempt

\* Every step of the program keeps the lists, the calls and the mutex.
LEMMA CallsInvariant == Spec => []CallsInv
<1>1. Init => CallsInv
  <2> SUFFICES ASSUME Init PROVE CallsInv
    OBVIOUS
  <2>1. ListOfPeers(peers)
    BY EmptyList DEF Init
  <2>2. TasksGood
    BY IdleTaskIsGood DEF Init, TasksGood, GoodTask
  <2>3. MutexExact
    <3>1. \A t \in Tasks : task[t].at = "idle"
      BY IdleTaskIsGood DEF Init
    <3>2. writeMutex \in Seq(Tasks) /\ DOMAIN writeMutex = {}
      BY DEF Init
    <3> QED
      BY <3>1, <3>2 DEF MutexExact, IsInjective, Range
  <2>4. maintaining \in BOOLEAN /\ renewed \in 0 .. Renewals /\ connected \subseteq Peers
    BY BoundsAreNumbers DEF Init
  <2> QED
    BY <2>1, <2>2, <2>3, <2>4 DEF CallsInv
<1>2. CallsInv /\ [Next]_vars => CallsInv'
  <2> SUFFICES ASSUME CallsInv, [Next]_vars PROVE CallsInv'
    OBVIOUS
  <2>1. ASSUME NEW t \in Tasks, TaskStep(t) PROVE CallsInv'
    BY <2>1, CountIsRead, MaintainGoesOn, PeersAreFetched, PeersAreFound, WriteGoesOn,
       RemovalKeeps, AdditionKeeps, FailureKeeps, CheckGoesOn DEF TaskStep
  <2>2. ASSUME NEW t \in Tasks,
               \/ Tick(t)
               \/ \E force \in BOOLEAN : HasPeers(t, force)
               \/ \E p \in Peers : RenewPeer(t, p)
        PROVE  CallsInv'
    BY <2>2, CallsBegin
  <2>3. ASSUME UNCHANGED <<peers, writeMutex, task, renewed>>,
               maintaining' \in BOOLEAN, connected' \subseteq Peers
        PROVE  CallsInv'
    <3>1. TasksGood' /\ MutexExact' /\ ListOfPeers(peers)'
      BY <2>3 DEF CallsInv, TasksGood, GoodTask, MutexExact, ListOfPeers, IsInjective,
         Range
    <3> QED
      BY <2>3, <3>1 DEF CallsInv
  <2>4. CASE stopMaintainPeersInterval
    BY <2>3, <2>4 DEF stopMaintainPeersInterval, CallsInv
  <2>5. ASSUME NEW p \in Peers, Connect(p) \/ Disconnect(p) PROVE CallsInv'
    BY <2>3, <2>5 DEF Connect, Disconnect, CallsInv
  <2>6. ASSUME NEW n \in LightPushCounts, LightPushHealth(n) PROVE CallsInv'
    BY <2>3, <2>6 DEF LightPushHealth, CallsInv
  <2>7. CASE UNCHANGED vars
    BY <2>3, <2>7 DEF vars, CallsInv
  <2> QED
    BY <2>1, <2>2, <2>4, <2>5, <2>6, <2>7 DEF Next
<1> QED
  BY <1>1, <1>2, PTL DEF Spec

-----------------------------------------------------------------------------
(* However the calls of the interval, of hasPeers and of renewPeer overlap,  *)
(* fail or are repeated, the list of peers in use and the lists each call    *)
(* works through hold a peer at most once, the calls at the write mutex are  *)
(* those that wait for it, each once, and hasPeers never counts an attempt   *)
(* beyond maxAttempts.                                                       *)
THEOREM CallsAreWellFormed == Spec => []TypeOK
<1>1. CallsInv /\ HealthInv => TypeOK
  <2> SUFFICES ASSUME CallsInv, HealthInv PROVE TypeOK
    OBVIOUS
  <2>1. ASSUME NEW t \in Tasks
        PROVE  /\ DOMAIN task[t] = DOMAIN IdleTask
               /\ task[t].kind \in Kinds /\ task[t].at \in TaskStates
               /\ task[t].number \in Int
               /\ task[t].attempt \in 0 .. maxAttempts - 1
               /\ task[t].force \in BOOLEAN
    BY TaskFields DEF CallsInv, TaskType, IdleTask
  <2>2. ASSUME NEW t \in Tasks, NEW l \in {"found", "toRemove", "toAdd"}
        PROVE  ListOfPeers(task[t][l])
    BY TaskFields DEF CallsInv
  <2>3. /\ writeMutex \in Seq(Tasks) /\ IsInjective(writeMutex)
        /\ \A t \in Tasks : task[t].at = "mutex" <=> t \in Range(writeMutex)
    BY DEF CallsInv, MutexExact
  <2> QED
    BY <2>1, <2>2, <2>3 DEF TypeOK, CallsInv, HealthInv
<1> QED
  BY <1>1, CallsInvariant, HealthInvariant, PTL
=============================================================================
