----------------------- MODULE ReliabilityMonitorProofs -----------------------
(***************************************************************************)
(* Theorems about ReceiverReliabilityMonitor for any set of peers, calls   *)
(* in flight and limits.  Three lemmas say what the two helpers that most  *)
(* actions share, Renew and RenewalStops, do to the calls and to the locks.*)
(***************************************************************************)
EXTENDS ReceiverReliabilityMonitor, TLAPS

Triggers == {"ping", "disconnect", "verify"}
TasksOK == DOMAIN task = Tasks /\ \A t \in Tasks : TaskOK(task[t])

(* A step that sets the record of one call. *)
LEMMA OneTask ==
  ASSUME TasksOK, NEW t \in Tasks, NEW c, TaskOK(c), task' = [task EXCEPT ![t] = c]
  PROVE  /\ TasksOK'
         /\ task'[t] = c
         /\ \A u \in Tasks \ {t} : task'[u] = task[u]
BY DEF TasksOK, TaskOK, IdleTask, Kinds, TaskStates, RenewalStates

(* Renew gives the call the shape of a renewal, or of one that has returned. *)
LEMMA RenewStarts ==
  ASSUME TasksOK, peerRenewalLocks \subseteq Peers,
         NEW t \in Tasks, NEW kind \in Triggers, NEW p \in Peers, Renew(t, kind, p)
  PROVE  /\ TasksOK' /\ peerRenewalLocks' \subseteq Peers
         /\ \A u \in Tasks \ {t} : task'[u] = task[u]
         /\ p \notin peerRenewalLocks =>
              /\ peerRenewalLocks' = peerRenewalLocks \cup {p}
              /\ task'[t].at = "find"
              /\ task'[t].kind = kind /\ task'[t].peer = p
         /\ p \in peerRenewalLocks => peerRenewalLocks' = peerRenewalLocks \ {p}
         /\ (p \in peerRenewalLocks /\ kind = "ping") =>
              /\ task'[t].at = "resume"
              /\ task'[t].kind = "ping" /\ task'[t].peer = p
<1> DEFINE called(to) == [IdleTask EXCEPT !.kind = kind, !.at = to, !.peer = p]
<1>1. TaskOK(IdleTask) /\ TaskOK(called("find"))
  BY DEF TaskOK, IdleTask, Kinds, TaskStates, RenewalStates, Triggers
<1>2. kind = "ping" => TaskOK(called("resume"))
  BY DEF TaskOK, IdleTask, Kinds, TaskStates, RenewalStates
<1>3. CASE p \notin peerRenewalLocks
  <2>1. task' = [task EXCEPT ![t] = called("find")]
    BY <1>3 DEF Renew, Called
  <2>2. called("find").at = "find" /\ called("find").kind = kind
        /\ called("find").peer = p
    BY DEF IdleTask
  <2>3. peerRenewalLocks' = peerRenewalLocks \cup {p}
    BY <1>3 DEF Renew
  <2> HIDE DEF called
  <2> QED
    BY <1>1, <1>3, <2>1, <2>2, <2>3, OneTask
<1>4. CASE p \in peerRenewalLocks /\ kind = "ping"
  <2>1. task' = [task EXCEPT ![t] = called("resume")]
    BY <1>4 DEF Renew, Called, After
  <2>2. called("resume").at = "resume" /\ called("resume").kind = kind
        /\ called("resume").peer = p
    BY DEF IdleTask
  <2>3. peerRenewalLocks' = peerRenewalLocks \ {p}
    BY <1>4 DEF Renew
  <2> HIDE DEF called
  <2> QED
    BY <1>2, <1>4, <2>1, <2>2, <2>3, OneTask
<1>5. CASE p \in peerRenewalLocks /\ kind # "ping"
  <2>1. task' = [task EXCEPT ![t] = IdleTask]
    BY <1>5 DEF Renew, After
  <2> QED
    BY <1>1, <1>5, <2>1, OneTask DEF Renew
<1> QED
  BY <1>3, <1>4, <1>5

(* RenewalStops gives the lock back and leaves a ping to be resumed. *)
LEMMA RenewalEnds ==
  ASSUME TasksOK, peerRenewalLocks \subseteq Peers,
         NEW t \in Tasks, task[t].kind \in Triggers, RenewalStops(t)
  PROVE  /\ TasksOK' /\ peerRenewalLocks' \subseteq Peers
         /\ peerRenewalLocks' = peerRenewalLocks \ {task[t].peer}
         /\ \A u \in Tasks \ {t} : task'[u] = task[u]
         /\ task[t].kind = "ping" =>
              /\ task'[t].at = "resume"
              /\ task'[t].kind = "ping" /\ task'[t].peer = task[t].peer
<1> DEFINE resumed == [task[t] EXCEPT !.at = "resume", !.new = NoPeer]
<1>1. TaskOK(IdleTask)
  BY DEF TaskOK, IdleTask, Kinds, TaskStates, RenewalStates
<1>2. task[t].kind = "ping" => /\ TaskOK(resumed)
                               /\ resumed.at = "resume" /\ resumed.kind = "ping"
                               /\ resumed.peer = task[t].peer
  BY DEF TasksOK, TaskOK, IdleTask, Kinds, TaskStates, RenewalStates
<1>3. CASE task[t].kind = "ping"
  <2>1. task' = [task EXCEPT ![t] = resumed]
    BY <1>3 DEF RenewalStops, RenewalReturns, After, TasksOK
  <2> QED
    BY <1>2, <1>3, <2>1, OneTask DEF RenewalStops, LockReleased
<1>4. CASE task[t].kind # "ping"
  <2>1. task' = [task EXCEPT ![t] = IdleTask]
    BY <1>4 DEF RenewalStops, RenewalReturns, After, TasksOK
  <2> QED
    BY <1>1, <1>4, <2>1, OneTask DEF RenewalStops, LockReleased
<1> QED
  BY <1>3, <1>4

(* Every variable keeps its type, and no renewal goes on without a new peer  *)
(* once it has found none.                                                   *)
THEOREM TypeCorrectness == Spec => []TypeOK
<1>1. Init => TypeOK
  BY MonitorAssumption
     DEF Init, TypeOK, TaskOK, IdleTask, Kinds, TaskStates, RenewalStates
<1>2. TypeOK /\ [Next]_vars => TypeOK'
  <2> SUFFICES ASSUME TypeOK, [Next]_vars PROVE TypeOK'
    OBVIOUS
  <2> USE MonitorAssumption
  <2>1. ASSUME NEW t \in Tasks, NEW p \in Peers, Ping(t, p)
        PROVE  TypeOK'
      <3>1. TaskOK([IdleTask EXCEPT !.kind = "ping", !.at = "ping", !.peer = p])
        BY DEF TaskOK, IdleTask, Kinds, TaskStates, RenewalStates
      <3>2. TasksOK'
        BY <2>1, <3>1, OneTask DEF Ping, Called, TypeOK, TasksOK
      <3> QED
        BY <2>1, <3>2 DEF Ping, TypeOK, TasksOK, verification
  <2>2. ASSUME NEW t \in Tasks, PingSucceeds(t)
        PROVE  TypeOK'
      <3>1. TaskOK(IdleTask)
        BY DEF TaskOK, IdleTask, Kinds, TaskStates
      <3>2. TasksOK'
        BY <2>2, <3>1, OneTask DEF PingSucceeds, TypeOK, TasksOK
      <3>3. peerFailures' \in [Peers -> Nat]
        BY <2>2 DEF PingSucceeds, FailuresCleared, TypeOK
      <3> QED
        BY <2>2, <3>2, <3>3 DEF PingSucceeds, TypeOK, TasksOK, verification
  <2>3. ASSUME NEW t \in Tasks, PingFails(t)
        PROVE  TypeOK'
      <3>1. task[t].peer \in Peers
        BY <2>3 DEF PingFails, TypeOK, TaskOK
      <3>2. TasksOK' /\ peerRenewalLocks' \subseteq Peers
        <4>1. CASE Renew(t, "ping", task[t].peer)
          BY <3>1, <4>1, RenewStarts DEF TypeOK, TasksOK, Triggers
        <4>2. CASE task' = [task EXCEPT ![t] = IdleTask] /\ UNCHANGED peerRenewalLocks
          BY <4>2 DEF TypeOK, TasksOK, TaskOK, IdleTask, Kinds, TaskStates
        <4> QED
          BY <2>3, <4>1, <4>2 DEF PingFails
      <3>3. peerFailures' = [peerFailures EXCEPT ![task[t].peer] = peerFailures[task[t].peer] + 1]
        BY <2>3 DEF PingFails
      <3>4. peerFailures' \in [Peers -> Nat]
        BY <3>1, <3>3 DEF TypeOK
      <3>5. UNCHANGED <<peers, maxPingFailures, verification, probes>>
        BY <2>3 DEF PingFails
      <3> QED
        BY <3>2, <3>4, <3>5 DEF TypeOK, TasksOK, verification
  <2>4. ASSUME NEW t \in Tasks, PingResumes(t)
        PROVE  TypeOK'
      <3>1. TaskOK(IdleTask)
        BY DEF TaskOK, IdleTask, Kinds, TaskStates
      <3>2. TasksOK'
        BY <2>4, <3>1, OneTask DEF PingResumes, TypeOK, TasksOK
      <3>3. peerFailures' \in [Peers -> Nat]
        BY <2>4 DEF PingResumes, FailuresCleared, TypeOK
      <3> QED
        BY <2>4, <3>2, <3>3 DEF PingResumes, TypeOK, TasksOK, verification
  <2>5. ASSUME NEW t \in Tasks, NEW p \in Peers, PeerDisconnects(t, p)
        PROVE  TypeOK'
      BY <2>5, RenewStarts DEF PeerDisconnects, Idle, TypeOK, TasksOK, TaskOK,
          Triggers, Kinds, RenewalStates, verification
  <2>6. ASSUME NEW t \in Tasks, NEW q \in Peers \cup {NoPeer}, RenewPeer(t, q)
        PROVE  TypeOK'
      <3>1. TasksOK' /\ peerRenewalLocks' \subseteq Peers
        <4>1. CASE q = NoPeer
          <5>1. task[t].kind \in Triggers
            BY <2>6 DEF RenewPeer, TypeOK, TaskOK, IdleTask, Kinds, Triggers
          <5> QED
            BY <2>6, <4>1, <5>1, RenewalEnds DEF RenewPeer, NoneFound, TypeOK, TasksOK
        <4>2. CASE q # NoPeer
          BY <2>6, <4>2 DEF RenewPeer, NoneFound, TypeOK, TasksOK, TaskOK, IdleTask,
                         Kinds, TaskStates, RenewalStates
        <4> QED
          BY <4>1, <4>2
      <3> QED
        BY <2>6, <3>1 DEF RenewPeer, TypeOK, TasksOK, verification
  <2>7. ASSUME NEW t \in Tasks, RemovePeer(t)
        PROVE  TypeOK'
      BY <2>7 DEF RemovePeer, Goes, TypeOK, TaskOK, IdleTask, Kinds,
          TaskStates, RenewalStates, verification
  <2>8. ASSUME NEW t \in Tasks, AddPeer(t)
        PROVE  TypeOK'
      BY <2>8 DEF AddPeer, Goes, TypeOK, TaskOK, IdleTask, Kinds, TaskStates,
          RenewalStates, verification
  <2>9. ASSUME NEW t \in Tasks, AddPeerFails(t)
        PROVE  TypeOK'
      <3>1. task[t].kind \in Triggers
        BY <2>9 DEF AddPeerFails, TypeOK, TaskOK, IdleTask, Kinds, Triggers
      <3>2. TasksOK' /\ peerRenewalLocks' \subseteq Peers
        BY <2>9, <3>1, RenewalEnds DEF AddPeerFails, TypeOK, TasksOK
      <3> QED
        BY <2>9, <3>2 DEF AddPeerFails, TypeOK, TasksOK, verification
  <2>10. ASSUME NEW t \in Tasks, Subscribed(t)
        PROVE  TypeOK'
      BY <2>10 DEF Subscribed, Goes, TypeOK, TaskOK, IdleTask, Kinds,
          TaskStates, RenewalStates, verification
  <2>11. ASSUME NEW t \in Tasks, SubscribeThrows(t)
        PROVE  TypeOK'
      <3>1. TasksOK' /\ peerRenewalLocks' \subseteq Peers
        <4>1. CASE task[t].kind = "subscribe"
          BY <2>11, <4>1 DEF SubscribeThrows, TypeOK, TasksOK, TaskOK, IdleTask, Kinds, TaskStates
        <4>2. CASE task[t].kind # "subscribe"
          <5>1. task[t].kind \in Triggers
            BY <2>11, <4>2 DEF SubscribeThrows, TypeOK, TaskOK, IdleTask, Kinds, Triggers
          <5> QED
            BY <2>11, <4>2, <5>1, RenewalEnds DEF SubscribeThrows, TypeOK, TasksOK
        <4> QED
          BY <4>1, <4>2
      <3> QED
        BY <2>11, <3>1 DEF SubscribeThrows, TypeOK, TasksOK, TaskOK, verification
  <2>12. ASSUME NEW t \in Tasks, Finish(t)
        PROVE  TypeOK'
      <3>1. TasksOK' /\ peerRenewalLocks' \subseteq Peers
        <4>1. CASE task[t].kind = "subscribe"
          BY <2>12, <4>1 DEF Finish, TypeOK, TasksOK, TaskOK, IdleTask, Kinds, TaskStates
        <4>2. CASE task[t].kind # "subscribe"
          <5>1. task[t].kind \in Triggers
            BY <2>12, <4>2 DEF Finish, TypeOK, TaskOK, IdleTask, Kinds, Triggers
          <5> QED
            BY <2>12, <4>2, <5>1, RenewalEnds DEF Finish, TypeOK, TasksOK
        <4> QED
          BY <4>1, <4>2
      <3> QED
        BY <2>12, <3>1 DEF Finish, TypeOK, TasksOK, TaskOK, verification
  <2>13. ASSUME NEW t \in Tasks, NEW p \in Peers, SubscribePeer(t, p)
        PROVE  TypeOK'
      <3>1. TaskOK([IdleTask EXCEPT !.kind = "subscribe", !.at = "subscribe", !.new = p])
        BY DEF TaskOK, IdleTask, Kinds, TaskStates, RenewalStates
      <3>2. TasksOK'
        BY <2>13, <3>1, OneTask DEF SubscribePeer, Called, TypeOK, TasksOK
      <3> QED
        BY <2>13, <3>2 DEF SubscribePeer, TypeOK, TasksOK, verification
  <2>14. ASSUME NEW t \in Tasks, NEW p \in Peers, NotVerified(t, p)
        PROVE  TypeOK'
      BY <2>14, RenewStarts DEF NotVerified, Idle, TypeOK, TasksOK, TaskOK,
          Triggers, Kinds, RenewalStates, verification
  <2>15. ASSUME NEW p \in Peers, ProbeSent(p)
        PROVE  TypeOK'
      BY <2>15 DEF ProbeSent, Schedules, TypeOK, verification
  <2>16. ASSUME NEW p \in Peers, Verified(p)
        PROVE  TypeOK'
      BY <2>16 DEF Verified, TypeOK, verification
  <2>17. ASSUME NEW p \in Peers, notifyMessageReceived(p)
        PROVE  TypeOK'
      BY <2>17 DEF notifyMessageReceived, TypeOK, verification
  <2>18. ASSUME NEW n \in Limits, setMaxPingFailures(n)
        PROVE  TypeOK'
      BY <2>18 DEF setMaxPingFailures, TypeOK, verification
  <2>19. ASSUME MaintainPeers PROVE TypeOK'
      BY <2>19 DEF MaintainPeers, TypeOK, verification
  <2>20. CASE UNCHANGED vars
      BY <2>20 DEF vars, verification, TypeOK
  <2>21. QED
      BY <2>1, <2>2, <2>3, <2>4, <2>5, <2>6, <2>7, <2>8, <2>9, <2>10, <2>11,
          <2>12, <2>13, <2>14, <2>15, <2>16, <2>17, <2>18, <2>19, <2>20 DEF Next, Progress, TimerFires
<1>3. QED
  BY <1>1, <1>2, PTL DEF Spec

(* No exit of a renewal leaves its lock behind: a locked peer is being       *)
(* renewed.                                                                  *)
THEOREM LockNotLeaked == Spec => []LockHasRenewal
<1>1. Init => LockHasRenewal
  BY DEF Init, LockHasRenewal
<1>2. TypeOK /\ LockHasRenewal /\ [Next]_vars => LockHasRenewal'
  <2> SUFFICES ASSUME TypeOK, LockHasRenewal, [Next]_vars PROVE LockHasRenewal'
    OBVIOUS
  <2>1. ASSUME NEW t \in Tasks, NEW p \in Peers, Ping(t, p)
        PROVE  LockHasRenewal'
      BY <2>1 DEF Ping, Called, Idle, TypeOK, TasksOK, TaskOK, IdleTask,
          Triggers, Kinds, LockHasRenewal, Renewing, RenewalStates,
          verification
  <2>2. ASSUME NEW t \in Tasks, PingSucceeds(t)
        PROVE  LockHasRenewal'
      BY <2>2 DEF PingSucceeds, TypeOK, TasksOK, TaskOK, IdleTask, Triggers,
          Kinds, LockHasRenewal, Renewing, RenewalStates, verification
  <2>3. ASSUME NEW t \in Tasks, PingFails(t)
        PROVE  LockHasRenewal'
      BY <2>3, RenewStarts DEF PingFails, TypeOK, TasksOK, TaskOK, IdleTask,
          Triggers, Kinds, LockHasRenewal, Renewing, RenewalStates,
          verification
  <2>4. ASSUME NEW t \in Tasks, PingResumes(t)
        PROVE  LockHasRenewal'
      BY <2>4 DEF PingResumes, FailuresCleared, TypeOK, TasksOK, TaskOK,
          IdleTask, Triggers, Kinds, LockHasRenewal, Renewing, RenewalStates,
          verification
  <2>5. ASSUME NEW t \in Tasks, NEW p \in Peers, PeerDisconnects(t, p)
        PROVE  LockHasRenewal'
      BY <2>5, RenewStarts DEF PeerDisconnects, Idle, TypeOK, TasksOK, TaskOK,
          IdleTask, Triggers, Kinds, LockHasRenewal, Renewing, RenewalStates,
          verification
  <2>6. ASSUME NEW t \in Tasks, NEW q \in Peers \cup {NoPeer}, RenewPeer(t, q)
        PROVE  LockHasRenewal'
      <3>1. CASE q = NoPeer
        <4>1. task[t].kind \in Triggers
          BY <2>6 DEF RenewPeer, TypeOK, TaskOK, IdleTask, Kinds, Triggers
        <4>2. RenewalStops(t)
          BY <2>6, <3>1 DEF RenewPeer, NoneFound
        <4> QED
          BY <2>6, <4>1, <4>2, RenewalEnds
             DEF RenewPeer, TypeOK, TasksOK, LockHasRenewal, Renewing, RenewalStates
      <3>2. CASE q # NoPeer
        BY <2>6, <3>2 DEF RenewPeer, NoneFound, TypeOK, TasksOK, TaskOK, LockHasRenewal,
                       Renewing, RenewalStates
      <3> QED
        BY <3>1, <3>2
  <2>7. ASSUME NEW t \in Tasks, RemovePeer(t)
        PROVE  LockHasRenewal'
      BY <2>7 DEF RemovePeer, Goes, TypeOK, TasksOK, TaskOK, IdleTask,
          Triggers, Kinds, LockHasRenewal, Renewing, RenewalStates,
          verification
  <2>8. ASSUME NEW t \in Tasks, AddPeer(t)
        PROVE  LockHasRenewal'
      BY <2>8 DEF AddPeer, Goes, TypeOK, TasksOK, TaskOK, IdleTask, Triggers,
          Kinds, LockHasRenewal, Renewing, RenewalStates, verification
  <2>9. ASSUME NEW t \in Tasks, AddPeerFails(t)
        PROVE  LockHasRenewal'
      <3>1. task[t].kind \in Triggers
        BY <2>9 DEF AddPeerFails, TypeOK, TaskOK, IdleTask, Kinds, Triggers
      <3> QED
        BY <2>9, <3>1, RenewalEnds
           DEF AddPeerFails, TypeOK, TasksOK, LockHasRenewal, Renewing, RenewalStates
  <2>10. ASSUME NEW t \in Tasks, Subscribed(t)
        PROVE  LockHasRenewal'
      BY <2>10 DEF Subscribed, Goes, TypeOK, TasksOK, TaskOK, IdleTask,
          Triggers, Kinds, LockHasRenewal, Renewing, RenewalStates,
          verification
  <2>11. ASSUME NEW t \in Tasks, SubscribeThrows(t)
        PROVE  LockHasRenewal'
      BY <2>11, RenewalEnds DEF SubscribeThrows, TypeOK, TasksOK, TaskOK,
          IdleTask, Triggers, Kinds, LockHasRenewal, Renewing, RenewalStates,
          verification
  <2>12. ASSUME NEW t \in Tasks, Finish(t)
        PROVE  LockHasRenewal'
      BY <2>12, RenewalEnds DEF Finish, TypeOK, TasksOK, TaskOK, IdleTask,
          Triggers, Kinds, LockHasRenewal, Renewing, RenewalStates,
          verification
  <2>13. ASSUME NEW t \in Tasks, NEW p \in Peers, SubscribePeer(t, p)
        PROVE  LockHasRenewal'
      BY <2>13 DEF SubscribePeer, Idle, TypeOK, TasksOK, TaskOK, IdleTask,
          Triggers, Kinds, LockHasRenewal, Renewing, RenewalStates,
          verification
  <2>14. ASSUME NEW t \in Tasks, NEW p \in Peers, NotVerified(t, p)
        PROVE  LockHasRenewal'
      BY <2>14, RenewStarts DEF NotVerified, Idle, TypeOK, TasksOK, TaskOK,
          IdleTask, Triggers, Kinds, LockHasRenewal, Renewing, RenewalStates,
          verification
  <2>15. ASSUME NEW p \in Peers, ProbeSent(p)
        PROVE  LockHasRenewal'
      BY <2>15 DEF ProbeSent, Schedules, LockHasRenewal, Renewing,
          RenewalStates, verification
  <2>16. ASSUME NEW p \in Peers, Verified(p)
        PROVE  LockHasRenewal'
      BY <2>16 DEF Verified, LockHasRenewal, Renewing, RenewalStates,
          verification
  <2>17. ASSUME NEW p \in Peers, notifyMessageReceived(p)
        PROVE  LockHasRenewal'
      BY <2>17 DEF notifyMessageReceived, LockHasRenewal, Renewing,
          RenewalStates, verification
  <2>18. ASSUME NEW n \in Limits, setMaxPingFailures(n)
        PROVE  LockHasRenewal'
      BY <2>18 DEF setMaxPingFailures, LockHasRenewal, Renewing, RenewalStates,
          verification
  <2>19. ASSUME MaintainPeers PROVE LockHasRenewal'
      BY <2>19 DEF MaintainPeers, LockHasRenewal, Renewing, RenewalStates,
          verification
  <2>20. CASE UNCHANGED vars
      BY <2>20 DEF vars, verification, LockHasRenewal, Renewing, RenewalStates
  <2>21. QED
      BY <2>1, <2>2, <2>3, <2>4, <2>5, <2>6, <2>7, <2>8, <2>9, <2>10, <2>11,
          <2>12, <2>13, <2>14, <2>15, <2>16, <2>17, <2>18, <2>19, <2>20 DEF Next, Progress, TimerFires
<1>3. QED
  BY <1>1, <1>2, TypeCorrectness, PTL DEF Spec

(* A peer whose failures reached the limit is being handled by a call that   *)
(* clears the count, whatever becomes of its renewal and of the limit.       *)
THEOREM FailuresHandled == Spec => []FailuresAreHandled
<1>1. Init => FailuresAreHandled
  BY MonitorAssumption DEF Init, FailuresAreHandled
<1>2. TypeOK /\ FailuresAreHandled /\ [Next]_vars => FailuresAreHandled'
  <2> SUFFICES ASSUME TypeOK, FailuresAreHandled, [Next]_vars
               PROVE  FailuresAreHandled'
    OBVIOUS
  <2>1. ASSUME NEW t \in Tasks, NEW p \in Peers, Ping(t, p)
        PROVE  FailuresAreHandled'
      BY <2>1 DEF Ping, Called, Idle, TypeOK, TasksOK, TaskOK, IdleTask,
          Triggers, Kinds, FailuresAreHandled, Renewing, RenewalStates,
          verification
  <2>2. ASSUME NEW t \in Tasks, PingSucceeds(t)
        PROVE  FailuresAreHandled'
      BY <2>2, MonitorAssumption DEF PingSucceeds, TypeOK, TasksOK, TaskOK,
          IdleTask, Triggers, Kinds, FailuresAreHandled, Renewing,
          RenewalStates, verification
  <2>3. ASSUME NEW t \in Tasks, PingFails(t)
        PROVE  FailuresAreHandled'
      <3>1. task[t].peer \in Peers
        BY <2>3 DEF PingFails, TypeOK, TaskOK
      <3>2. CASE peerFailures'[task[t].peer] >= maxPingFailures
        <4>1. task'[t].kind = "ping" /\ task'[t].peer = task[t].peer
              /\ task'[t].at \in {"find", "resume"}
          BY <2>3, <3>1, <3>2, RenewStarts DEF PingFails, TypeOK, TasksOK, Triggers
        <4>2. \A u \in Tasks \ {t} : task'[u] = task[u]
          BY <2>3, <3>1, <3>2, RenewStarts DEF PingFails, TypeOK, TasksOK, Triggers
        <4> QED
          BY <2>3, <4>1, <4>2 DEF PingFails, TypeOK, FailuresAreHandled, Renewing,
                               RenewalStates
      <3>3. CASE ~(peerFailures'[task[t].peer] >= maxPingFailures)
        BY <2>3, <3>1, <3>3 DEF PingFails, TypeOK, TaskOK, FailuresAreHandled, Renewing,
                             RenewalStates
      <3> QED
        BY <3>2, <3>3
  <2>4. ASSUME NEW t \in Tasks, PingResumes(t)
        PROVE  FailuresAreHandled'
      BY <2>4, MonitorAssumption DEF PingResumes, FailuresCleared, TypeOK,
          TasksOK, TaskOK, IdleTask, Triggers, Kinds, FailuresAreHandled,
          Renewing, RenewalStates, verification
  <2>5. ASSUME NEW t \in Tasks, NEW p \in Peers, PeerDisconnects(t, p)
        PROVE  FailuresAreHandled'
      BY <2>5, RenewStarts DEF PeerDisconnects, Idle, TypeOK, TasksOK, TaskOK,
          IdleTask, Triggers, Kinds, FailuresAreHandled, Renewing,
          RenewalStates, verification
  <2>6. ASSUME NEW t \in Tasks, NEW q \in Peers \cup {NoPeer}, RenewPeer(t, q)
        PROVE  FailuresAreHandled'
      <3>1. CASE q = NoPeer
        <4>1. task[t].kind \in Triggers
          BY <2>6 DEF RenewPeer, TypeOK, TaskOK, IdleTask, Kinds, Triggers
        <4>2. RenewalStops(t)
          BY <2>6, <3>1 DEF RenewPeer, NoneFound
        <4> QED
          BY <2>6, <4>1, <4>2, RenewalEnds
             DEF RenewPeer, TypeOK, TasksOK, FailuresAreHandled, Renewing, RenewalStates
      <3>2. CASE q # NoPeer
        BY <2>6, <3>2 DEF RenewPeer, NoneFound, TypeOK, TasksOK, TaskOK, FailuresAreHandled,
                       Renewing, RenewalStates
      <3> QED
        BY <3>1, <3>2
  <2>7. ASSUME NEW t \in Tasks, RemovePeer(t)
        PROVE  FailuresAreHandled'
      BY <2>7 DEF RemovePeer, Goes, TypeOK, TasksOK, TaskOK, IdleTask,
          Triggers, Kinds, FailuresAreHandled, Renewing, RenewalStates,
          verification
  <2>8. ASSUME NEW t \in Tasks, AddPeer(t)
        PROVE  FailuresAreHandled'
      BY <2>8 DEF AddPeer, Goes, TypeOK, TasksOK, TaskOK, IdleTask, Triggers,
          Kinds, FailuresAreHandled, Renewing, RenewalStates, verification
  <2>9. ASSUME NEW t \in Tasks, AddPeerFails(t)
        PROVE  FailuresAreHandled'
      <3>1. task[t].kind \in Triggers
        BY <2>9 DEF AddPeerFails, TypeOK, TaskOK, IdleTask, Kinds, Triggers
      <3> QED
        BY <2>9, <3>1, RenewalEnds
           DEF AddPeerFails, TypeOK, TasksOK, FailuresAreHandled, Renewing, RenewalStates
  <2>10. ASSUME NEW t \in Tasks, Subscribed(t)
        PROVE  FailuresAreHandled'
      BY <2>10 DEF Subscribed, Goes, TypeOK, TasksOK, TaskOK, IdleTask,
          Triggers, Kinds, FailuresAreHandled, Renewing, RenewalStates,
          verification
  <2>11. ASSUME NEW t \in Tasks, SubscribeThrows(t)
        PROVE  FailuresAreHandled'
      BY <2>11, RenewalEnds DEF SubscribeThrows, TypeOK, TasksOK, TaskOK,
          IdleTask, Triggers, Kinds, FailuresAreHandled, Renewing,
          RenewalStates, verification
  <2>12. ASSUME NEW t \in Tasks, Finish(t)
        PROVE  FailuresAreHandled'
      BY <2>12, RenewalEnds, MonitorAssumption DEF Finish, TypeOK, TasksOK,
          TaskOK, IdleTask, Triggers, Kinds, FailuresAreHandled, Renewing,
          RenewalStates, verification
  <2>13. ASSUME NEW t \in Tasks, NEW p \in Peers, SubscribePeer(t, p)
        PROVE  FailuresAreHandled'
      BY <2>13 DEF SubscribePeer, Idle, TypeOK, TasksOK, TaskOK, IdleTask,
          Triggers, Kinds, FailuresAreHandled, Renewing, RenewalStates,
          verification
  <2>14. ASSUME NEW t \in Tasks, NEW p \in Peers, NotVerified(t, p)
        PROVE  FailuresAreHandled'
      BY <2>14, RenewStarts DEF NotVerified, Idle, TypeOK, TasksOK, TaskOK,
          IdleTask, Triggers, Kinds, FailuresAreHandled, Renewing,
          RenewalStates, verification
  <2>15. ASSUME NEW p \in Peers, ProbeSent(p)
        PROVE  FailuresAreHandled'
      BY <2>15 DEF ProbeSent, Schedules, FailuresAreHandled, Renewing,
          RenewalStates, verification
  <2>16. ASSUME NEW p \in Peers, Verified(p)
        PROVE  FailuresAreHandled'
      BY <2>16 DEF Verified, FailuresAreHandled, Renewing, RenewalStates,
          verification
  <2>17. ASSUME NEW p \in Peers, notifyMessageReceived(p)
        PROVE  FailuresAreHandled'
      BY <2>17 DEF notifyMessageReceived, FailuresAreHandled, Renewing,
          RenewalStates, verification
  <2>18. ASSUME NEW n \in Limits, setMaxPingFailures(n)
        PROVE  FailuresAreHandled'
      BY <2>18 DEF setMaxPingFailures, FailuresAreHandled, Renewing,
          RenewalStates, verification
  <2>19. ASSUME MaintainPeers PROVE FailuresAreHandled'
      BY <2>19 DEF MaintainPeers, FailuresAreHandled, Renewing, RenewalStates,
          verification
  <2>20. CASE UNCHANGED vars
      BY <2>20 DEF vars, verification, FailuresAreHandled, Renewing,
          RenewalStates
  <2>21. QED
      BY <2>1, <2>2, <2>3, <2>4, <2>5, <2>6, <2>7, <2>8, <2>9, <2>10, <2>11,
          <2>12, <2>13, <2>14, <2>15, <2>16, <2>17, <2>18, <2>19, <2>20 DEF Next, Progress, TimerFires
<1>3. QED
  BY <1>1, <1>2, TypeCorrectness, PTL DEF Spec

(* A peer has at most one verification timer, and an entry without a timer   *)
(* only when it is verified.                                                 *)
THEOREM PendingExact == Spec => []PendingIsPending
<1>1. Init => PendingIsPending
  BY DEF Init, PendingIsPending
<1>2. TypeOK /\ PendingIsPending /\ [Next]_vars => PendingIsPending'
  <2> SUFFICES ASSUME TypeOK, PendingIsPending, [Next]_vars
               PROVE  PendingIsPending'
    OBVIOUS
  <2>1. ASSUME NEW t \in Tasks, NEW p \in Peers, Ping(t, p)
        PROVE  PendingIsPending'
      BY <2>1 DEF Ping, Called, Idle, TypeOK, PendingIsPending, verification
  <2>2. ASSUME NEW t \in Tasks, PingSucceeds(t)
        PROVE  PendingIsPending'
      BY <2>2 DEF PingSucceeds, TypeOK, PendingIsPending, verification
  <2>3. ASSUME NEW t \in Tasks, PingFails(t)
        PROVE  PendingIsPending'
      BY <2>3 DEF PingFails, TypeOK, PendingIsPending, verification
  <2>4. ASSUME NEW t \in Tasks, PingResumes(t)
        PROVE  PendingIsPending'
      BY <2>4 DEF PingResumes, FailuresCleared, TypeOK, PendingIsPending,
          verification
  <2>5. ASSUME NEW t \in Tasks, NEW p \in Peers, PeerDisconnects(t, p)
        PROVE  PendingIsPending'
      BY <2>5 DEF PeerDisconnects, Idle, TypeOK, PendingIsPending, verification
  <2>6. ASSUME NEW t \in Tasks, NEW q \in Peers \cup {NoPeer}, RenewPeer(t, q)
        PROVE  PendingIsPending'
      BY <2>6 DEF RenewPeer, NoneFound, TypeOK, PendingIsPending, verification
  <2>7. ASSUME NEW t \in Tasks, RemovePeer(t)
        PROVE  PendingIsPending'
      BY <2>7 DEF RemovePeer, Goes, TypeOK, PendingIsPending, verification
  <2>8. ASSUME NEW t \in Tasks, AddPeer(t)
        PROVE  PendingIsPending'
      BY <2>8 DEF AddPeer, Goes, TypeOK, PendingIsPending, verification
  <2>9. ASSUME NEW t \in Tasks, AddPeerFails(t)
        PROVE  PendingIsPending'
      BY <2>9 DEF AddPeerFails, TypeOK, PendingIsPending, verification
  <2>10. ASSUME NEW t \in Tasks, Subscribed(t)
        PROVE  PendingIsPending'
      BY <2>10 DEF Subscribed, Goes, TypeOK, PendingIsPending, verification
  <2>11. ASSUME NEW t \in Tasks, SubscribeThrows(t)
        PROVE  PendingIsPending'
      BY <2>11 DEF SubscribeThrows, TypeOK, PendingIsPending, verification
  <2>12. ASSUME NEW t \in Tasks, Finish(t)
        PROVE  PendingIsPending'
      BY <2>12 DEF Finish, TypeOK, PendingIsPending, verification
  <2>13. ASSUME NEW t \in Tasks, NEW p \in Peers, SubscribePeer(t, p)
        PROVE  PendingIsPending'
      BY <2>13 DEF SubscribePeer, Idle, TypeOK, PendingIsPending, verification
  <2>14. ASSUME NEW t \in Tasks, NEW p \in Peers, NotVerified(t, p)
        PROVE  PendingIsPending'
      BY <2>14 DEF NotVerified, Idle, TypeOK, PendingIsPending, verification,
          PushesMessages
  <2>15. ASSUME NEW p \in Peers, ProbeSent(p)
        PROVE  PendingIsPending'
      BY <2>15 DEF ProbeSent, Schedules, TypeOK, PendingIsPending, verification
  <2>16. ASSUME NEW p \in Peers, Verified(p)
        PROVE  PendingIsPending'
      BY <2>16 DEF Verified, TypeOK, PendingIsPending, verification,
          PushesMessages
  <2>17. ASSUME NEW p \in Peers, notifyMessageReceived(p)
        PROVE  PendingIsPending'
      BY <2>17 DEF notifyMessageReceived, TypeOK, PendingIsPending,
          verification
  <2>18. ASSUME NEW n \in Limits, setMaxPingFailures(n)
        PROVE  PendingIsPending'
      BY <2>18 DEF setMaxPingFailures, TypeOK, PendingIsPending, verification
  <2>19. ASSUME MaintainPeers PROVE PendingIsPending'
      BY <2>19 DEF MaintainPeers, TypeOK, PendingIsPending, verification
  <2>20. CASE UNCHANGED vars
      BY <2>20 DEF vars, verification, TypeOK, PendingIsPending
  <2>21. QED
      BY <2>1, <2>2, <2>3, <2>4, <2>5, <2>6, <2>7, <2>8, <2>9, <2>10, <2>11,
          <2>12, <2>13, <2>14, <2>15, <2>16, <2>17, <2>18, <2>19, <2>20 DEF Next, Progress, TimerFires
<1>3. QED
  BY <1>1, <1>2, TypeCorrectness, PTL DEF Spec
=============================================================================
