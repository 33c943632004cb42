----------------------- MODULE ConnectionManagerProofs -----------------------
(***************************************************************************)
(* Proofs about ConnectionManager, for every number of peers, calls and    *)
(* handlers and every value of the options.                                *)
(***************************************************************************)
EXTENDS ConnectionManager, FiniteSetTheorems, TLAPS

\* A table of calls of which every one that is not idle is about a peer.
CallTable == {calls \in [Calls -> Call] :
                \A c \in Calls : calls[c].at # "idle" => calls[c].peer \in Peers}

\* A call or handler that is not idle is about a peer.
Targeted ==
    /\ call \in CallTable
    /\ \A h \in Handlers : handler[h].at # "idle" => handler[h].peer \in Peers

\* Every map entry stands for an interval that runs.
EntriesRun ==
    \A p \in Peers :
        /\ ClearedPings(p) <= pingIntervals[p]
        /\ ClearedRelays(p, "discovered") + ClearedRelays(p, "connection")
              <= relayIntervals[p]

TypeInv == TypeOK /\ Targeted /\ EntriesRun

USE ConnectionManagerAssumption

-----------------------------------------------------------------------------
(* The keep-alive operations. *)

\* What an operation clears runs, so no interval count drops below zero.
LEMMA ClearedRun ==
    ASSUME KeepAliveTypeOK, EntriesRun, NEW p \in Peers
    PROVE  /\ pingIntervals[p] \in Nat
           /\ ClearedPings(p) \in {0, 1}
           /\ ClearedPings(p) <= pingIntervals[p]
           /\ relayIntervals[p] \in Nat
           /\ \A h \in Handles : /\ ClearedRelays(p, h) \in {0, 1}
                                /\ ClearedRelays(p, h) <= relayIntervals[p]
           /\ ClearedRelays(p, "discovered") + ClearedRelays(p, "connection")
                 <= relayIntervals[p]
<1>1. pingIntervals[p] \in Nat /\ relayIntervals[p] \in Nat
  BY DEF KeepAliveTypeOK
<1>2. ClearedPings(p) \in {0, 1} /\ ClearedPings(p) <= pingIntervals[p]
  BY DEF EntriesRun, ClearedPings
<1>3. \A h \in Handles : ClearedRelays(p, h) \in {0, 1}
  BY DEF ClearedRelays
<1>4. ClearedRelays(p, "discovered") + ClearedRelays(p, "connection")
         <= relayIntervals[p]
  BY DEF EntriesRun
<1>5. \A h \in Handles : ClearedRelays(p, h) <= relayIntervals[p]
  BY <1>1, <1>3, <1>4 DEF Handles
<1> QED
  BY <1>1, <1>2, <1>3, <1>4, <1>5

\* stop() clears no interval that no longer runs.
LEMMA StopKeeps ==
    ASSUME KeepAliveTypeOK, EntriesRun,
           NEW p \in Peers, NEW h \in Handles, stop(p, h)
    PROVE  KeepAliveTypeOK' /\ EntriesRun'
<1>1. /\ pingKeepAliveTimers' \subseteq Peers
      /\ relayKeepAliveTimers' \subseteq Peers \X Handles
  BY DEF KeepAliveTypeOK, stop
<1>2. pingIntervals' \in [Peers -> Nat]
  BY ClearedRun DEF KeepAliveTypeOK, stop
<1>3. relayIntervals' \in [Peers -> Nat]
  BY ClearedRun DEF KeepAliveTypeOK, stop
<1>4. ASSUME NEW q \in Peers
      PROVE  ClearedPings(q)' <= pingIntervals'[q]
  <2>1. CASE q = p
    <3>1. ClearedPings(q)' = 0
      BY <2>1 DEF stop, ClearedPings
    <3> QED
      BY <1>2, <3>1
  <2>2. CASE q # p
    <3>1. ClearedPings(q)' = ClearedPings(q) /\ pingIntervals'[q] = pingIntervals[q]
      BY <2>2 DEF stop, ClearedPings, KeepAliveTypeOK
    <3> QED
      BY <3>1, ClearedRun
  <2> QED
    BY <2>1, <2>2
<1>5. ASSUME NEW q \in Peers
      PROVE  ClearedRelays(q, "discovered")' + ClearedRelays(q, "connection")'
                <= relayIntervals'[q]
  <2>1. CASE q = p
    <3>1. relayIntervals'[q] = relayIntervals[q] - ClearedRelays(q, h)
      BY <2>1 DEF stop, KeepAliveTypeOK
    <3>2. ClearedRelays(q, h)' = 0
      BY <2>1 DEF stop, ClearedRelays
    <3>3. \A g \in Handles \ {h} : ClearedRelays(q, g)' = ClearedRelays(q, g)
      BY <2>1 DEF stop, ClearedRelays
    <3> QED
      BY <3>1, <3>2, <3>3, ClearedRun DEF Handles
  <2>2. CASE q # p
    <3>1. /\ \A g \in Handles : ClearedRelays(q, g)' = ClearedRelays(q, g)
          /\ relayIntervals'[q] = relayIntervals[q]
      BY <2>2 DEF stop, ClearedRelays, KeepAliveTypeOK
    <3> QED
      BY <3>1, ClearedRun DEF Handles
  <2> QED
    BY <2>1, <2>2
<1> QED
  BY <1>1, <1>2, <1>3, <1>4, <1>5 DEF KeepAliveTypeOK, EntriesRun

\* start() replaces the intervals it finds and adds at most one of each kind.
LEMMA StartKeeps ==
    ASSUME KeepAliveTypeOK, EntriesRun,
           NEW p \in Peers, NEW h \in Handles, start(p, h)
    PROVE  KeepAliveTypeOK' /\ EntriesRun'
<1>1. /\ pingKeepAliveTimers' \subseteq Peers
      /\ relayKeepAliveTimers' \subseteq Peers \X Handles
  BY DEF KeepAliveTypeOK, start
<1>2. pingIntervals' \in [Peers -> Nat]
  BY ClearedRun DEF KeepAliveTypeOK, start
<1>3. relayIntervals' \in [Peers -> Nat]
  BY ClearedRun DEF KeepAliveTypeOK, start
<1>4. ASSUME NEW q \in Peers
      PROVE  ClearedPings(q)' <= pingIntervals'[q]
  <2>1. CASE q = p
    <3>1. CASE PingEnabled
      <4>1. pingIntervals'[q] = pingIntervals[q] - ClearedPings(q) + 1
        BY <2>1, <3>1 DEF start, KeepAliveTypeOK
      <4>2. ClearedPings(q)' = 1
        BY <2>1, <3>1 DEF start, ClearedPings
      <4> QED
        BY <4>1, <4>2, ClearedRun
    <3>2. CASE ~PingEnabled
      <4>1. ClearedPings(q)' = 0
        BY <2>1, <3>2 DEF start, ClearedPings
      <4> QED
        BY <1>2, <4>1
    <3> QED
      BY <3>1, <3>2
  <2>2. CASE q # p
    <3>1. ClearedPings(q)' = ClearedPings(q) /\ pingIntervals'[q] = pingIntervals[q]
      BY <2>2 DEF start, ClearedPings, KeepAliveTypeOK
    <3> QED
      BY <3>1, ClearedRun
  <2> QED
    BY <2>1, <2>2
<1>5. ASSUME NEW q \in Peers
      PROVE  ClearedRelays(q, "discovered")' + ClearedRelays(q, "connection")'
                <= relayIntervals'[q]
  <2>1. CASE q = p
    <3>1. \/ /\ relayIntervals'[q] = relayIntervals[q] - ClearedRelays(q, h)
             /\ ClearedRelays(q, h)' = 0
          \/ /\ relayIntervals'[q] = relayIntervals[q] - ClearedRelays(q, h) + 1
             /\ ClearedRelays(q, h)' = 1
      BY <2>1 DEF start, ClearedRelays, KeepAliveTypeOK
    <3>2. \A g \in Handles \ {h} : ClearedRelays(q, g)' = ClearedRelays(q, g)
      BY <2>1 DEF start, ClearedRelays
    <3> QED
      BY <3>1, <3>2, ClearedRun DEF Handles
  <2>2. CASE q # p
    <3>1. /\ \A g \in Handles : ClearedRelays(q, g)' = ClearedRelays(q, g)
          /\ relayIntervals'[q] = relayIntervals[q]
      BY <2>2 DEF start, ClearedRelays, KeepAliveTypeOK
    <3> QED
      BY <3>1, ClearedRun DEF Handles
  <2> QED
    BY <2>1, <2>2
<1> QED
  BY <1>1, <1>2, <1>3, <1>4, <1>5 DEF KeepAliveTypeOK, EntriesRun

\* stopAll() leaves the intervals and forgets the entries.
LEMMA StopAllKeeps ==
    ASSUME KeepAliveTypeOK, EntriesRun, stopAll
    PROVE  KeepAliveTypeOK' /\ EntriesRun'
BY DEF KeepAliveTypeOK, EntriesRun, stopAll, ClearedPings, ClearedRelays

\* The same holds when the keep-alive state does not change.
LEMMA UnchangedKeeps ==
    ASSUME KeepAliveTypeOK, EntriesRun, UNCHANGED keepAliveVars
    PROVE  KeepAliveTypeOK' /\ EntriesRun'
BY DEF KeepAliveTypeOK, EntriesRun, keepAliveVars, ClearedPings, ClearedRelays

-----------------------------------------------------------------------------
(* Type correctness. *)

LEMMA RecordTypes ==
    /\ IdleCall \in Call /\ IdleCall.at = "idle"
    /\ IdleHandler \in Handler /\ IdleHandler.at = "idle"
    /\ \A s \in CallStates, p \in Peers :
         CallAt(s, p) \in Call /\ CallAt(s, p).at = s /\ CallAt(s, p).peer = p
    /\ \A s \in HandlerStates, p \in Peers :
         /\ HandlerAt(s, p) \in Handler
         /\ HandlerAt(s, p).at = s /\ HandlerAt(s, p).peer = p
BY DEF IdleCall, IdleHandler, CallAt, HandlerAt, Call, Handler, CallStates,
       HandlerStates

LEMMA AttemptType ==
    ASSUME NEW p \in Peers
    PROVE  /\ AfterConnectedCheck(p) \in Call
           /\ AfterConnectedCheck(p).at # "idle" => AfterConnectedCheck(p).peer = p
           /\ AfterConnectedCheck(p).at \in {"idle", "shard"}
BY RecordTypes DEF AfterConnectedCheck, CallStates

\* Replacing one entry of a call table by a well-formed call.
LEMMA TableUpdate ==
    ASSUME NEW calls \in CallTable, NEW c \in Calls, NEW r \in Call,
           r.at # "idle" => r.peer \in Peers
    PROVE  [calls EXCEPT ![c] = r] \in CallTable
BY DEF CallTable

\* Advance and Return keep the call table well formed.
LEMMA AdvanceKeeps ==
    ASSUME call \in CallTable, NEW c \in Calls, call[c].at # "idle",
           \/ Return(c)
           \/ \E to \in CallStates : Advance(c, to)
    PROVE  call' \in CallTable
<1>1. CASE Return(c)
  BY <1>1, TableUpdate, RecordTypes DEF Return
<1>2. ASSUME NEW to \in CallStates, Advance(c, to)
      PROVE  call' \in CallTable
  <2> DEFINE r == [call[c] EXCEPT !.at = to]
  <2>1. r \in Call /\ r.peer = call[c].peer
    BY DEF CallTable, Call
  <2>2. call' = [call EXCEPT ![c] = r]
    BY <1>2 DEF Advance
  <2>3. r.peer \in Peers
    BY <2>1 DEF CallTable
  <2> HIDE DEF r
  <2> QED
    BY <2>1, <2>2, <2>3, TableUpdate
<1> QED
  BY <1>1, <1>2

LEMMA QueueKeeps ==
    ASSUME pendingPeerDialQueue \in Seq(Peers), NEW calls \in CallTable,
           processDialQueue(calls)
    PROVE  call' \in CallTable /\ pendingPeerDialQueue' \in Seq(Peers)
<1>1. CASE call' = calls /\ UNCHANGED pendingPeerDialQueue
  BY <1>1
<1>2. CASE pendingPeerDialQueue # <<>>
  <2> DEFINE p == Head(pendingPeerDialQueue)
  <2>1. p \in Peers /\ Tail(pendingPeerDialQueue) \in Seq(Peers)
    BY <1>2
  <2>2. pendingPeerDialQueue' \in Seq(Peers)
    BY <2>1 DEF processDialQueue
  <2>3. \/ call' = calls
        \/ \E d \in Calls : call' = [calls EXCEPT ![d] = AfterConnectedCheck(p)]
    BY DEF processDialQueue
  <2>4. \A d \in Calls : [calls EXCEPT ![d] = AfterConnectedCheck(p)] \in CallTable
    BY <2>1, TableUpdate, AttemptType
  <2> QED
    BY <2>2, <2>3, <2>4
<1> QED
  BY <1>1, <1>2 DEF processDialQueue

-----------------------------------------------------------------------------
(* The slots. *)

DialStates == {"dialing", "tagging"}

\* Replacing one call by a call that does not dial takes it out of Dialing.
LEMMA NotDialingAnyMore ==
    ASSUME call \in CallTable, NEW c \in Calls, NEW r \in Call,
           r.at \notin DialStates, call' = [call EXCEPT ![c] = r]
    PROVE  Dialing' = Dialing \ {c}
BY DEF Dialing, DialStates, CallTable

\* Releasing c's slot and handing over to the queue: the call that takes the
\* queued peer up starts with its checks, so exactly c leaves Dialing.
LEMMA HandOver ==
    ASSUME call \in CallTable, NEW c \in Calls, NEW r \in Call,
           pendingPeerDialQueue \in Seq(Peers),
           r.at \notin DialStates, call[c].at \in DialStates,
           processDialQueue([call EXCEPT ![c] = r])
    PROVE  Dialing' = Dialing \ {c}
<1> DEFINE calls == [call EXCEPT ![c] = r]
<1>t. calls \in [Calls -> Call] /\ call \in [Calls -> Call]
  BY DEF CallTable
<1>d. {x \in Calls : calls[x].at \in DialStates} = Dialing \ {c}
  BY DEF Dialing, DialStates, CallTable
<1>1. CASE call' = calls
  BY <1>1, <1>d DEF Dialing, DialStates
<1>2. CASE \E d \in Calls :
             /\ calls[d] = IdleCall
             /\ pendingPeerDialQueue # <<>>
             /\ call' = [calls EXCEPT
                           ![d] = AfterConnectedCheck(Head(pendingPeerDialQueue))]
  <2>1. PICK d \in Calls :
          /\ calls[d] = IdleCall
          /\ pendingPeerDialQueue # <<>>
          /\ call' = [calls EXCEPT
                        ![d] = AfterConnectedCheck(Head(pendingPeerDialQueue))]
    BY <1>2
  <2> DEFINE q == Head(pendingPeerDialQueue)
  <2>2. q \in Peers
    BY <2>1
  <2>3. AfterConnectedCheck(q).at \notin DialStates
    BY <2>2, AttemptType DEF DialStates
  <2>4. calls[d].at \notin DialStates
    BY <2>1, RecordTypes DEF DialStates
  <2> HIDE DEF calls, q
  <2>5. {x \in Calls : call'[x].at \in DialStates}
          = {x \in Calls : calls[x].at \in DialStates}
    BY <1>t, <2>1, <2>3, <2>4 DEF q
  <2> QED
    BY <1>d, <2>5 DEF Dialing, DialStates, calls
<1> QED
  BY <1>1, <1>2 DEF processDialQueue

\* Every step leaves the slots alone, takes one that is free, or returns one.
LEMMA SlotKinds ==
    ASSUME call \in CallTable, pendingPeerDialQueue \in Seq(Peers), [Next]_vars
    PROVE  \/ Dialing' = Dialing /\ UNCHANGED currentActiveParallelDialCount
           \/ \E c \in Calls :
                /\ c \notin Dialing
                /\ currentActiveParallelDialCount < maxParallelDials
                /\ Dialing' = Dialing \cup {c}
                /\ currentActiveParallelDialCount' =
                     currentActiveParallelDialCount + 1
           \/ \E c \in Calls :
                /\ c \in Dialing
                /\ Dialing' = Dialing \ {c}
                /\ currentActiveParallelDialCount' =
                     currentActiveParallelDialCount - 1
<1> DEFINE Quiet == Dialing' = Dialing /\ UNCHANGED currentActiveParallelDialCount
<1> DEFINE Take(c) == /\ c \notin Dialing
                      /\ currentActiveParallelDialCount < maxParallelDials
                      /\ Dialing' = Dialing \cup {c}
                      /\ currentActiveParallelDialCount' =
                           currentActiveParallelDialCount + 1
<1> DEFINE Give(c) == /\ c \in Dialing
                      /\ Dialing' = Dialing \ {c}
                      /\ currentActiveParallelDialCount' =
                           currentActiveParallelDialCount - 1
<1> SUFFICES Quiet \/ \E c \in Calls : Take(c) \/ Give(c)
  OBVIOUS
<1>u. ASSUME UNCHANGED <<call, currentActiveParallelDialCount>> PROVE Quiet
  BY <1>u DEF Dialing
<1>1. CASE DialPeerStorePeers
  <2>1. PICK f \in Injection(peerStore, {c \in Calls : call[c] = IdleCall}) :
          call' = [c \in Calls |->
                    IF \E p \in peerStore : f[p] = c
                    THEN AfterConnectedCheck(CHOOSE p \in peerStore : f[p] = c)
                    ELSE call[c]]
    BY <1>1 DEF DialPeerStorePeers
  <2>2. ASSUME NEW c \in Calls
        PROVE  call'[c].at \in DialStates <=> call[c].at \in DialStates
    <3>1. CASE \E p \in peerStore : f[p] = c
      <4> DEFINE p == CHOOSE p \in peerStore : f[p] = c
      <4>1. call[c].at \notin DialStates
        BY <3>1, RecordTypes DEF Injection, IsInjective, DialStates
      <4>2. call'[c] = AfterConnectedCheck(p)
        BY <2>1, <3>1
      <4>3. AfterConnectedCheck(p).at \in {"idle", "shard"}
        BY DEF AfterConnectedCheck, IdleCall, CallAt
      <4> QED
        BY <4>1, <4>2, <4>3 DEF DialStates
    <3>2. CASE ~\E p \in peerStore : f[p] = c
      BY <2>1, <3>2
    <3> QED
      BY <3>1, <3>2
  <2> QED
    BY <1>1, <2>2 DEF DialPeerStorePeers, managerVars, Dialing, DialStates
<1>2. ASSUME NEW p \in Peers, NEW c \in Calls, Discover(p, c) \/ AttemptDial(p, c)
      PROVE  Quiet
  <2>1. call[c].at \notin DialStates
    BY <1>2, RecordTypes DEF Discover, AttemptDial, DialStates
  <2>2. \/ call' = call
        \/ call' = [call EXCEPT ![c] = CallAt("discovered", p)]
        \/ call' = [call EXCEPT ![c] = AfterConnectedCheck(p)]
    BY <1>2 DEF Discover, AttemptDial
  <2>3. /\ CallAt("discovered", p) \in Call
        /\ CallAt("discovered", p).at \notin DialStates
        /\ AfterConnectedCheck(p) \in Call
        /\ AfterConnectedCheck(p).at \notin DialStates
    BY RecordTypes, AttemptType DEF CallStates, DialStates
  <2>4. Dialing' = Dialing
    BY <2>1, <2>2, <2>3, NotDialingAnyMore DEF Dialing, DialStates
  <2> QED
    BY <1>2, <2>4 DEF Discover, AttemptDial, managerVars
<1>3. ASSUME NEW c \in Calls, CallStep(c)
      PROVE  Quiet \/ Take(c) \/ Give(c)
  <2>t. call \in [Calls -> Call] /\ (call[c].at # "idle" => call[c].peer \in Peers)
    BY DEF CallTable
  <2>a. ASSUME NEW to \in CallStates, Advance(c, to)
        PROVE  /\ call' \in [Calls -> Call]
               /\ call'[c].at = to
               /\ \A d \in Calls \ {c} : call'[d] = call[d]
    BY <2>a, <2>t DEF Advance, Call
  <2>r. ASSUME Return(c), call[c].at \notin DialStates
        PROVE  Dialing' = Dialing
    BY <2>r, RecordTypes, NotDialingAnyMore DEF Return, DialStates, Dialing
  <2>1. CASE AfterDiscovery(c)
    <3>1. /\ AfterConnectedCheck(call[c].peer) \in Call
          /\ AfterConnectedCheck(call[c].peer).at \notin DialStates
      BY <2>1, <2>t, AttemptType DEF AfterDiscovery, DialStates
    <3>2. Dialing' = Dialing
      BY <2>1, <3>1, NotDialingAnyMore DEF AfterDiscovery, Dialing, DialStates
    <3> QED
      BY <2>1, <3>2 DEF AfterDiscovery, managerVars
  <2>2. CASE CheckShard(c) \/ CheckBootstrap(c) \/ CheckAttempts(c)
             \/ DeleteUndialable(c) \/ AttemptDnsDiscovery(c)
             \/ DnsDiscoveryDone(c)
    <3>1. call[c].at \notin DialStates
      BY <2>2 DEF CheckShard, CheckBootstrap, CheckAttempts, DeleteUndialable,
         AttemptDnsDiscovery, DnsDiscoveryDone, DialStates
    <3>2. \/ Return(c)
          \/ \E to \in CallStates \ DialStates : Advance(c, to)
      BY <2>2 DEF CheckShard, CheckBootstrap, CheckAttempts, DeleteUndialable,
         AttemptDnsDiscovery, DnsDiscoveryDone, CallStates, DialStates
    <3>3. Dialing' = Dialing
      <4>1. CASE \E to \in CallStates \ DialStates : Advance(c, to)
        BY <3>1, <4>1, <2>a DEF Dialing, DialStates
      <4> QED
        BY <3>1, <3>2, <2>r, <4>1
    <3> QED
      BY <2>2, <3>3 DEF CheckShard, CheckBootstrap, CheckAttempts,
         DeleteUndialable, AttemptDnsDiscovery, DnsDiscoveryDone, managerVars
  <2>3. CASE Enqueue(c)
    BY <2>3, <2>r DEF Enqueue, DialStates
  <2>4. CASE StartDial(c)
    <3>1. Dialing' = Dialing \cup {c} /\ c \notin Dialing
      BY <2>4, <2>a DEF StartDial, Dialing, CallStates
    <3> QED
      BY <2>4, <3>1 DEF StartDial, SlotFree
  <2>5. CASE DialSucceeds(c)
    <3>1. Dialing' = Dialing
      BY <2>5, <2>a DEF DialSucceeds, Dialing, CallStates
    <3> QED
      BY <2>5, <3>1 DEF DialSucceeds, managerVars
  <2>6. CASE FinishDial(c)
    <3>1. Dialing' = Dialing \ {c} /\ c \in Dialing
      BY <2>6, HandOver, RecordTypes DEF FinishDial, Dialing, DialStates
    <3> QED
      BY <2>6, <3>1 DEF FinishDial
  <2>7. CASE DialFails(c)
    <3>1. CASE call[c].attempt + 1 < maxDialAttemptsForPeer
      <4>1. call' = [call EXCEPT ![c].attempt = call[c].attempt + 1]
        BY <2>7, <3>1 DEF DialFails, RetriesLeft, NextAttempt
      <4>2. Dialing' = Dialing
        BY <2>t, <4>1 DEF Dialing, Call
      <4> QED
        BY <2>7, <3>1, <4>2 DEF DialFails, SlotsAfterFailure, RetriesLeft, NextAttempt
    <3>2. CASE ~(call[c].attempt + 1 < maxDialAttemptsForPeer)
      <4>1. /\ CallAt("deleting", call[c].peer) \in Call
            /\ CallAt("deleting", call[c].peer).at \notin DialStates
        BY <2>7, <2>t, RecordTypes DEF DialFails, CallStates, DialStates
      <4>2. Dialing' = Dialing \ {c} /\ c \in Dialing
        BY <2>7, <3>2, <4>1, HandOver DEF DialFails, RetriesLeft, NextAttempt, Dialing, DialStates
      <4> QED
        BY <2>7, <3>2, <4>2 DEF DialFails, SlotsAfterFailure, RetriesLeft, NextAttempt
    <3> QED
      BY <3>1, <3>2
  <2> QED
    BY <1>3, <2>1, <2>2, <2>3, <2>4, <2>5, <2>6, <2>7 DEF CallStep
<1>4. ASSUME NEW p \in Peers, OtherConnect(p) \/ Disconnect(p)
      PROVE  Quiet
  BY <1>4, <1>u DEF OtherConnect, Disconnect, managerVars
<1>5. ASSUME NEW h \in Handlers, HandlerStep(h)
      PROVE  Quiet
  BY <1>5, <1>u DEF HandlerStep, HandleConnect, HangUpFails, AfterDrop,
     managerVars
<1>6. CASE Stop
  BY <1>6, <1>u DEF Stop, managerVars
<1>7. CASE UNCHANGED vars
  BY <1>7, <1>u DEF vars, managerVars
<1> QED
  BY <1>1, <1>2, <1>3, <1>4, <1>5, <1>6, <1>7 DEF Next

LEMMA DialingFinite == IsFiniteSet(Dialing) /\ Cardinality(Dialing) \in Nat
BY FS_Subset, FS_CardinalityType DEF Dialing

LEMMA SlotStep ==
    ASSUME call \in CallTable, pendingPeerDialQueue \in Seq(Peers),
           SlotAccounting, [Next]_vars
    PROVE  SlotAccounting'
<1>1. CASE Dialing' = Dialing /\ UNCHANGED currentActiveParallelDialCount
  BY <1>1 DEF SlotAccounting
<1>2. ASSUME NEW c \in Calls,
             c \notin Dialing,
             currentActiveParallelDialCount < maxParallelDials,
             Dialing' = Dialing \cup {c},
             currentActiveParallelDialCount' = currentActiveParallelDialCount + 1
      PROVE  SlotAccounting'
  <2>1. Cardinality(Dialing') = Cardinality(Dialing) + 1
    BY <1>2, DialingFinite, FS_AddElement
  <2> QED
    BY <1>2, <2>1, DialingFinite DEF SlotAccounting
<1>3. ASSUME NEW c \in Calls,
             c \in Dialing,
             Dialing' = Dialing \ {c},
             currentActiveParallelDialCount' = currentActiveParallelDialCount - 1
      PROVE  SlotAccounting'
  <2>1. Cardinality(Dialing') = Cardinality(Dialing) - 1
    BY <1>3, DialingFinite, FS_RemoveElement
  <2> QED
    BY <1>3, <2>1, DialingFinite DEF SlotAccounting
<1> QED
  BY <1>1, <1>2, <1>3, SlotKinds

-----------------------------------------------------------------------------
(* Type correctness of the whole state; the slot counter's needs SlotAccounting. *)

LEMMA TypeInit == Init => TypeInv
<1> SUFFICES ASSUME Init PROVE TypeInv
  OBVIOUS
<1>1. call \in CallTable
  BY RecordTypes DEF Init, CallTable
<1>2. handler \in [Handlers -> Handler] /\ \A h \in Handlers : handler[h].at = "idle"
  BY RecordTypes DEF Init
<1>3. KeepAliveTypeOK /\ EntriesRun
  BY DEF Init, KeepAliveInit, KeepAliveTypeOK, EntriesRun, ClearedPings,
         ClearedRelays
<1>4. pendingPeerDialQueue \in Seq(Peers)
  BY DEF Init
<1> QED
  BY <1>1, <1>2, <1>3, <1>4 DEF Init, TypeInv, TypeOK, Targeted, CallTable,
     NotDialed, ConnectionStates

\* One step keeps the type invariant, action by action.
LEMMA TypeStep == TypeInv /\ SlotAccounting /\ [Next]_vars => TypeInv'
<1> SUFFICES ASSUME TypeInv, SlotAccounting, [Next]_vars PROVE TypeInv'
  OBVIOUS
<1> USE DEF TypeInv
<1>t. /\ call \in CallTable
      /\ KeepAliveTypeOK /\ EntriesRun
  BY DEF Targeted, TypeOK
\* The counter stays a natural number because it counts Dialing.
<1>n. currentActiveParallelDialCount' \in Nat
  <2>1. SlotAccounting'
    BY <1>t, SlotStep DEF TypeOK
  <2>2. IsFiniteSet(Dialing') /\ Cardinality(Dialing') \in Nat
    BY FS_Subset, FS_CardinalityType DEF Dialing
  <2> QED
    BY <2>1, <2>2 DEF SlotAccounting
\* The part of TypeInv that a step of a call without other effects keeps.
<1>q. ASSUME call' \in CallTable, UNCHANGED <<handler, keepAliveVars>>,
             pendingPeerDialQueue' \in Seq(Peers),
             dialAttemptsForPeer' \in
               [Peers -> {NotDialed, -1} \cup 1 .. maxDialAttemptsForPeer],
             isP2PNetworkConnected' \in BOOLEAN, starting' \in BOOLEAN,
             stopped' \in BOOLEAN,
             connection' \in [Peers -> ConnectionStates],
             peerStore' \subseteq Peers
      PROVE  TypeInv'
  BY <1>q, <1>t, <1>n, UnchangedKeeps DEF TypeOK, Targeted, CallTable
\* The part that a step keeps which opens a connection.
<1>o. ASSUME NEW p \in Peers, OnConnect(p), call' \in CallTable,
             UNCHANGED <<managerVars, isP2PNetworkConnected, starting, stopped,
                         peerStore>>
      PROVE  TypeInv'
  <2>1. connection' \in [Peers -> ConnectionStates]
    BY <1>o DEF OnConnect, TypeOK, ConnectionStates
  <2>2. KeepAliveTypeOK' /\ EntriesRun'
    BY <1>o, <1>t, StartKeeps, UnchangedKeeps DEF OnConnect, Handles
  <2>3. /\ handler' \in [Handlers -> Handler]
        /\ \A h \in Handlers : handler'[h].at # "idle" => handler'[h].peer \in Peers
    <3>1. CASE UNCHANGED handler
      BY <3>1 DEF TypeOK, Targeted
    <3>2. ASSUME NEW g \in Handlers,
                 handler' = [handler EXCEPT ![g] = HandlerAt("tags", p)]
          PROVE  /\ handler' \in [Handlers -> Handler]
                 /\ \A h \in Handlers :
                      handler'[h].at # "idle" => handler'[h].peer \in Peers
      <4>1. HandlerAt("tags", p) \in Handler /\ HandlerAt("tags", p).peer \in Peers
        BY RecordTypes DEF HandlerStates
      <4> QED
        BY <3>2, <4>1 DEF TypeOK, Targeted
    <3> QED
      BY <1>o, <3>1, <3>2 DEF OnConnect
  <2> QED
    BY <1>n, <1>o, <2>1, <2>2, <2>3 DEF TypeOK, Targeted, CallTable, managerVars
<1>1. CASE DialPeerStorePeers
  <2>1. PICK f \in Injection(peerStore, {c \in Calls : call[c] = IdleCall}) :
          call' = [c \in Calls |->
                    IF \E p \in peerStore : f[p] = c
                    THEN AfterConnectedCheck(CHOOSE p \in peerStore : f[p] = c)
                    ELSE call[c]]
    BY <1>1 DEF DialPeerStorePeers
  <2>2. ASSUME NEW c \in Calls
        PROVE  call'[c] \in Call /\ (call'[c].at # "idle" => call'[c].peer \in Peers)
    <3>1. CASE \E p \in peerStore : f[p] = c
      <4>1. (CHOOSE p \in peerStore : f[p] = c) \in Peers
        BY <3>1 DEF TypeOK
      <4> QED
        BY <2>1, <3>1, <4>1, AttemptType
    <3>2. CASE ~\E p \in peerStore : f[p] = c
      BY <1>t, <2>1, <3>2 DEF CallTable
    <3> QED
      BY <3>1, <3>2
  <2>3. call' \in CallTable
    BY <2>1, <2>2 DEF CallTable
  <2> QED
    BY <1>1, <1>q, <2>3 DEF DialPeerStorePeers, managerVars, TypeOK
<1>2. ASSUME NEW p \in Peers, NEW c \in Calls, Discover(p, c)
      PROVE  TypeInv'
  <2>1. call' \in CallTable
    BY <1>2, <1>t, RecordTypes, TableUpdate DEF Discover, CallStates
  <2> QED
    BY <1>2, <1>q, <2>1 DEF Discover, managerVars, TypeOK
<1>3. ASSUME NEW p \in Peers, NEW c \in Calls, AttemptDial(p, c)
      PROVE  TypeInv'
  <2>1. call' \in CallTable
    BY <1>3, <1>t, AttemptType, TableUpdate DEF AttemptDial
  <2> QED
    BY <1>3, <1>q, <2>1 DEF AttemptDial, managerVars, TypeOK
<1>4. ASSUME NEW c \in Calls, CallStep(c)
      PROVE  TypeInv'
  <2> DEFINE p == call[c].peer
  <2>t. call[c] \in Call /\ (call[c].at # "idle" => p \in Peers)
    BY <1>t DEF CallTable
  <2> HIDE DEF p
  <2>1. CASE AfterDiscovery(c)
    <3>1. call' = [call EXCEPT ![c] = AfterConnectedCheck(p)] /\ p \in Peers
      BY <2>1, <2>t DEF AfterDiscovery, p
    <3>2. call' \in CallTable
      BY <1>t, <3>1, AttemptType, TableUpdate
    <3> QED
      BY <1>q, <2>1, <3>2 DEF AfterDiscovery, managerVars, TypeOK
  <2>2. CASE CheckShard(c) \/ CheckBootstrap(c) \/ CheckAttempts(c)
             \/ AttemptDnsDiscovery(c) \/ DnsDiscoveryDone(c)
    <3>1. call' \in CallTable
      BY <1>t, <2>2, AdvanceKeeps DEF CheckShard, CheckBootstrap, CheckAttempts,
         AttemptDnsDiscovery, DnsDiscoveryDone, CallStates
    <3> QED
      BY <1>q, <2>2, <3>1 DEF CheckShard, CheckBootstrap, CheckAttempts,
         AttemptDnsDiscovery, DnsDiscoveryDone, managerVars, TypeOK
  <2>3. CASE Enqueue(c)
    <3>1. call' \in CallTable
      BY <1>t, <2>3, AdvanceKeeps DEF Enqueue
    <3>2. pendingPeerDialQueue' \in Seq(Peers)
      BY <2>3, <2>t DEF Enqueue, TypeOK, p
    <3> QED
      BY <1>q, <2>3, <3>1, <3>2 DEF Enqueue, TypeOK
  <2>4. CASE StartDial(c)
    <3>1. call' \in CallTable
      BY <1>t, <2>4, AdvanceKeeps DEF StartDial, CallStates
    <3> QED
      BY <1>q, <2>4, <3>1 DEF StartDial, TypeOK
  <2>5. CASE DeleteUndialable(c)
    <3>1. call' \in CallTable
      BY <1>t, <2>5, AdvanceKeeps DEF DeleteUndialable, CallStates
    <3> QED
      BY <1>q, <2>5, <3>1 DEF DeleteUndialable, managerVars, TypeOK
  <2>6. CASE DialSucceeds(c)
    <3>1. call' \in CallTable /\ p \in Peers
      BY <1>t, <2>6, <2>t, AdvanceKeeps DEF DialSucceeds, CallStates
    <3>2. CASE Connected(p)
      BY <1>q, <2>6, <3>1, <3>2 DEF DialSucceeds, managerVars, TypeOK, p
    <3>3. CASE ~Connected(p)
      BY <1>o, <2>6, <3>1, <3>3 DEF DialSucceeds, managerVars, TypeOK, p
    <3> QED
      BY <3>2, <3>3
  <2>7. CASE FinishDial(c)
    <3>1. p \in Peers
      BY <2>7, <2>t DEF FinishDial
    <3>2. [call EXCEPT ![c] = IdleCall] \in CallTable
      BY <1>t, RecordTypes, TableUpdate
    <3>3. call' \in CallTable /\ pendingPeerDialQueue' \in Seq(Peers)
      BY <2>7, <3>2, QueueKeeps DEF FinishDial, TypeOK
    <3>4. KeepAliveTypeOK' /\ EntriesRun'
      BY <1>t, <2>7, <3>1, StartKeeps DEF FinishDial, Handles, p
    <3>5. connection' \in [Peers -> ConnectionStates]
      BY <2>7 DEF FinishDial, TypeOK, ConnectionStates
    <3>6. dialAttemptsForPeer' \in
            [Peers -> {NotDialed, -1} \cup 1 .. maxDialAttemptsForPeer]
      BY <2>7 DEF FinishDial, TypeOK
    <3>7. UNCHANGED <<handler, isP2PNetworkConnected, starting, stopped, peerStore>>
      BY <2>7 DEF FinishDial
    <3> QED
      BY <1>n, <3>3, <3>4, <3>5, <3>6, <3>7 DEF TypeOK, Targeted, CallTable
  <2>8. CASE DialFails(c)
    <3> DEFINE attempt == call[c].attempt + 1
    <3>1. p \in Peers /\ attempt \in 1 .. maxDialAttemptsForPeer
      BY <2>8, <2>t DEF DialFails, Call
    <3>2. dialAttemptsForPeer' \in
            [Peers -> {NotDialed, -1} \cup 1 .. maxDialAttemptsForPeer]
      BY <2>8, <3>1 DEF DialFails, NextAttempt, TypeOK, p
    <3>3. call' \in CallTable /\ pendingPeerDialQueue' \in Seq(Peers)
      <4>1. CASE attempt < maxDialAttemptsForPeer
        <5> DEFINE r == [call[c] EXCEPT !.attempt = attempt]
        <5>1. r \in Call /\ r.peer \in Peers
          BY <2>t, <3>1, <4>1 DEF Call, p
        <5>2. call' = [call EXCEPT ![c] = r] /\ UNCHANGED pendingPeerDialQueue
          BY <2>8, <4>1 DEF DialFails, RetriesLeft, NextAttempt
        <5> HIDE DEF r
        <5> QED
          BY <1>t, <5>1, <5>2, TableUpdate DEF TypeOK
      <4>2. CASE ~(attempt < maxDialAttemptsForPeer)
        <5>1. [call EXCEPT ![c] = CallAt("deleting", p)] \in CallTable
          BY <1>t, <3>1, RecordTypes, TableUpdate DEF CallStates
        <5>2. processDialQueue([call EXCEPT ![c] = CallAt("deleting", p)])
          BY <2>8, <4>2 DEF DialFails, RetriesLeft, NextAttempt, p
        <5> QED
          BY <5>1, <5>2, QueueKeeps DEF TypeOK
      <4> QED
        BY <4>1, <4>2
    <3>4. UNCHANGED <<handler, isP2PNetworkConnected, starting, stopped,
                      connection, peerStore, keepAliveVars>>
      BY <2>8 DEF DialFails
    <3> QED
      BY <1>q, <3>2, <3>3, <3>4 DEF TypeOK
  <2> QED
    BY <1>4, <2>1, <2>2, <2>3, <2>4, <2>5, <2>6, <2>7, <2>8 DEF CallStep
<1>5. ASSUME NEW p \in Peers, OtherConnect(p)
      PROVE  TypeInv'
  BY <1>o, <1>5, <1>t DEF OtherConnect, managerVars, TypeOK
<1>6. ASSUME NEW p \in Peers, Disconnect(p)
      PROVE  TypeInv'
  <2>1. /\ handler' \in [Handlers -> Handler]
        /\ \A h \in Handlers : handler'[h].at # "idle" => handler'[h].peer \in Peers
    <3>1. HandlerAt("hungup", p) \in Handler /\ HandlerAt("hungup", p).peer \in Peers
      BY RecordTypes DEF HandlerStates
    <3> QED
      BY <1>6, <3>1 DEF Disconnect, TypeOK, Targeted
  <2>2. KeepAliveTypeOK' /\ EntriesRun'
    BY <1>t, <1>6, StopKeeps, UnchangedKeeps DEF Disconnect, Handles
  <2>3. isP2PNetworkConnected' \in BOOLEAN
    BY <1>6 DEF Disconnect, TypeOK, setP2PNetworkDisconnected
  <2>4. connection' \in [Peers -> ConnectionStates]
    BY <1>6 DEF Disconnect, TypeOK, ConnectionStates
  <2>5. UNCHANGED <<call, managerVars, starting, stopped, peerStore>>
    BY <1>6 DEF Disconnect
  <2> QED
    BY <1>n, <2>1, <2>2, <2>3, <2>4, <2>5 DEF TypeOK, Targeted, CallTable, managerVars
<1>7. ASSUME NEW h \in Handlers, HandleConnect(h)
      PROVE  TypeInv'
  <2> DEFINE p == handler[h].peer
  <2>1. p \in Peers
    BY <1>7 DEF HandleConnect, Targeted
  <2>2. KeepAliveTypeOK' /\ EntriesRun'
    BY <1>t, <1>7, <2>1, StopKeeps, UnchangedKeeps DEF HandleConnect, Handles
  <2>3. /\ handler' \in [Handlers -> Handler]
        /\ \A g \in Handlers : handler'[g].at # "idle" => handler'[g].peer \in Peers
    <3>1. CASE handler' = [handler EXCEPT ![h] = IdleHandler]
      BY <3>1, RecordTypes DEF TypeOK, Targeted
    <3>2. CASE handler' = [handler EXCEPT ![h].at = DropState(p)]
      BY <2>1, <3>2 DEF TypeOK, Targeted, Handler, HandlerStates, DropState
    <3> QED
      BY <1>7, <3>1, <3>2 DEF HandleConnect
  <2>4. isP2PNetworkConnected' \in BOOLEAN
    BY <1>7 DEF HandleConnect, TypeOK, setP2PNetworkConnected
  <2>5. UNCHANGED <<call, managerVars, starting, stopped, connection, peerStore>>
    BY <1>7 DEF HandleConnect
  <2> QED
    BY <1>n, <2>2, <2>3, <2>4, <2>5 DEF TypeOK, Targeted, CallTable, managerVars
<1>8. ASSUME NEW h \in Handlers, AfterDrop(h)
      PROVE  TypeInv'
  <2>1. /\ handler' \in [Handlers -> Handler]
        /\ \A g \in Handlers : handler'[g].at # "idle" => handler'[g].peer \in Peers
    BY <1>8, RecordTypes DEF AfterDrop, TypeOK, Targeted
  <2>2. KeepAliveTypeOK' /\ EntriesRun'
    BY <1>t, <1>8, UnchangedKeeps DEF AfterDrop
  <2> QED
    BY <1>n, <1>8, <2>1, <2>2 DEF AfterDrop, setP2PNetworkConnected, TypeOK, Targeted, CallTable, managerVars
<1>9. ASSUME NEW h \in Handlers, HangUpFails(h)
      PROVE  TypeInv'
  <2>1. /\ handler' \in [Handlers -> Handler]
        /\ \A g \in Handlers : handler'[g].at # "idle" => handler'[g].peer \in Peers
    BY <1>9, RecordTypes DEF HangUpFails, TypeOK, Targeted
  <2>2. KeepAliveTypeOK' /\ EntriesRun'
    BY <1>t, <1>9, UnchangedKeeps DEF HangUpFails
  <2>3. connection' \in [Peers -> ConnectionStates]
    BY <1>9 DEF HangUpFails, TypeOK, ConnectionStates, Kept
  <2>4. isP2PNetworkConnected' \in BOOLEAN
    BY <1>9 DEF HangUpFails, setP2PNetworkConnected
  <2>5. UNCHANGED <<call, managerVars, starting, stopped, peerStore>>
    BY <1>9 DEF HangUpFails
  <2> QED
    BY <1>n, <2>1, <2>2, <2>3, <2>4, <2>5 DEF TypeOK, Targeted, CallTable, managerVars
<1>10. CASE Stop
  <2>1. KeepAliveTypeOK' /\ EntriesRun'
    BY <1>t, <1>10, StopAllKeeps DEF Stop
  <2> QED
    BY <1>n, <1>10, <2>1 DEF Stop, TypeOK, Targeted, CallTable, managerVars
<1>11. CASE UNCHANGED vars
  BY <1>q, <1>t, <1>11 DEF vars, managerVars, TypeOK
<1> QED
  BY <1>1, <1>2, <1>3, <1>4, <1>5, <1>6, <1>7, <1>8, <1>9, <1>10,
     <1>11
  DEF Next, HandlerStep

-----------------------------------------------------------------------------
(* The theorems. *)

\* The inductive invariant behind every theorem below.
Inv == TypeInv /\ SlotAccounting

LEMMA InvInit == Init => Inv
<1> SUFFICES ASSUME Init PROVE Inv
  OBVIOUS
<1>1. Dialing = {}
  BY RecordTypes DEF Init, Dialing
<1>2. SlotAccounting
  BY <1>1, FS_EmptySet DEF Init, SlotAccounting
<1> QED
  BY <1>2, TypeInit DEF Inv

LEMMA InvStep == Inv /\ [Next]_vars => Inv'
<1> SUFFICES ASSUME Inv, [Next]_vars PROVE Inv'
  OBVIOUS
<1>1. SlotAccounting'
  BY SlotStep DEF Inv, TypeInv, TypeOK, Targeted
<1> QED
  BY <1>1, TypeStep DEF Inv

THEOREM Invariance == Spec => []Inv
BY InvInit, InvStep, PTL DEF Spec

\* Every variable keeps its type in every reachable state.
THEOREM TypeCorrectness == Spec => []TypeOK
<1>1. Inv => TypeOK
  BY DEF Inv, TypeInv
<1> QED
  BY <1>1, Invariance, PTL

\* The slot counter is exact and never exceeds maxParallelDials.
THEOREM SlotsBounded == Spec => []SlotAccounting
<1>1. Inv => SlotAccounting
  BY DEF Inv
<1> QED
  BY <1>1, Invariance, PTL

\* The manager implements the pool of dial slots.
THEOREM SlotsImplemented == Spec => ImplementsDialSlots
<1>1. Init => Slots!Init
  BY RecordTypes DEF Init, Slots!Init, Dialing
<1>2. Inv /\ [Next]_vars => [Slots!Next]_Dialing
  <2> SUFFICES ASSUME Inv, [Next]_vars PROVE [Slots!Next]_Dialing
    OBVIOUS
  <2>1. currentActiveParallelDialCount = Cardinality(Dialing)
    BY DEF Inv, SlotAccounting
  <2>2. \/ Dialing' = Dialing
        \/ \E c \in Calls : /\ c \notin Dialing
                            /\ Cardinality(Dialing) < maxParallelDials
                            /\ Dialing' = Dialing \cup {c}
        \/ \E c \in Calls : c \in Dialing /\ Dialing' = Dialing \ {c}
    BY <2>1, SlotKinds DEF Inv, TypeInv, TypeOK, Targeted
  <2>3. Slots!Cardinality(Dialing) = Cardinality(Dialing)
    BY DEF Cardinality, Slots!Cardinality
  <2> QED
    BY <2>2, <2>3 DEF Slots!Next, Slots!Acquire, Slots!Release
<1> QED
  BY <1>1, <1>2, Invariance, PTL DEF Spec, ImplementsDialSlots, Slots!Spec

-----------------------------------------------------------------------------
(* Connections, their timers and the reported status. *)

networkVars == <<handler, isP2PNetworkConnected, stopped, connection,
                 keepAliveVars>>

\* The steps that touch a connection, a handler, a timer or the status.
LEMMA NetworkKinds ==
    ASSUME Inv, [Next]_vars
    PROVE  \/ UNCHANGED networkVars
           \/ \E p \in Peers : /\ OnConnect(p)
                              /\ UNCHANGED <<isP2PNetworkConnected, stopped>>
           \/ \E c \in Calls : FinishDial(c) /\ call[c].peer \in Peers
           \/ \E p \in Peers : Disconnect(p)
           \/ \E h \in Handlers : HandleConnect(h) /\ handler[h].peer \in Peers
           \/ \E h \in Handlers : HangUpFails(h)
           \/ \E h \in Handlers : AfterDrop(h)
           \/ Stop
<1>t. /\ \A c \in Calls : call[c].at # "idle" => call[c].peer \in Peers
      /\ \A h \in Handlers : handler[h].at # "idle" => handler[h].peer \in Peers
  BY DEF Inv, TypeInv, Targeted, CallTable
<1>1. CASE DialPeerStorePeers
  BY <1>1 DEF DialPeerStorePeers, networkVars
<1>2. ASSUME NEW p \in Peers, NEW c \in Calls, Discover(p, c) \/ AttemptDial(p, c)
      PROVE  UNCHANGED networkVars
  BY <1>2 DEF Discover, AttemptDial, networkVars
<1>3. ASSUME NEW c \in Calls,
             \/ AfterDiscovery(c) \/ CheckShard(c) \/ CheckBootstrap(c)
             \/ CheckAttempts(c) \/ Enqueue(c) \/ StartDial(c) \/ DialFails(c)
             \/ DeleteUndialable(c) \/ AttemptDnsDiscovery(c)
             \/ DnsDiscoveryDone(c)
      PROVE  UNCHANGED networkVars
  BY <1>3 DEF AfterDiscovery, CheckShard, CheckBootstrap, CheckAttempts, Enqueue,
     StartDial, DialFails, DeleteUndialable, AttemptDnsDiscovery,
     DnsDiscoveryDone, networkVars
<1>4. ASSUME NEW c \in Calls, DialSucceeds(c)
      PROVE  \/ UNCHANGED networkVars
             \/ \E p \in Peers : /\ OnConnect(p)
                                /\ UNCHANGED <<isP2PNetworkConnected, stopped>>
  BY <1>4, <1>t DEF DialSucceeds, networkVars
<1>5. ASSUME NEW c \in Calls, FinishDial(c)
      PROVE  call[c].peer \in Peers
  BY <1>5, <1>t DEF FinishDial
<1>6. ASSUME NEW h \in Handlers, HandleConnect(h)
      PROVE  handler[h].peer \in Peers
  BY <1>6, <1>t DEF HandleConnect
<1>7. ASSUME NEW p \in Peers, OtherConnect(p)
      PROVE  OnConnect(p) /\ UNCHANGED <<isP2PNetworkConnected, stopped>>
  BY <1>7 DEF OtherConnect
<1>8. CASE UNCHANGED vars
  BY <1>8 DEF vars, networkVars
<1> QED
  BY <1>1, <1>2, <1>3, <1>4, <1>5, <1>6, <1>7, <1>8
  DEF Next, CallStep, HandlerStep

\* What start() and stop() do to the ping timers, while every interval that
\* runs has its entry.
LEMMA PingsAfterStart ==
    ASSUME KeepAliveTypeOK, NEW p \in Peers, NEW h \in Handles, start(p, h),
           \A q \in Peers : pingIntervals[q] = ClearedPings(q)
    PROVE  /\ \A q \in Peers : pingIntervals'[q] = ClearedPings(q)'
           /\ PingEnabled => p \in pingKeepAliveTimers'
           /\ \A q \in Peers \ {p} : q \in pingKeepAliveTimers
                                      => q \in pingKeepAliveTimers'
<1>1. ASSUME NEW q \in Peers \ {p}
      PROVE  pingIntervals'[q] = ClearedPings(q)'
  BY DEF start, KeepAliveTypeOK, ClearedPings
<1>2. pingIntervals'[p] = ClearedPings(p)'
  <2>1. pingIntervals[p] = ClearedPings(p) /\ ClearedPings(p) \in {0, 1}
    BY DEF ClearedPings
  <2>2. CASE PingEnabled
    <3>1. pingIntervals'[p] = pingIntervals[p] - ClearedPings(p) + 1
      BY <2>2 DEF start, KeepAliveTypeOK
    <3>2. ClearedPings(p)' = 1
      BY <2>2 DEF start, ClearedPings
    <3> QED
      BY <2>1, <3>1, <3>2
  <2>3. CASE ~PingEnabled
    <3>1. pingIntervals'[p] = pingIntervals[p] - ClearedPings(p)
      BY <2>3 DEF start, KeepAliveTypeOK
    <3>2. ClearedPings(p)' = 0
      BY <2>3 DEF start, ClearedPings
    <3> QED
      BY <2>1, <3>1, <3>2
  <2> QED
    BY <2>2, <2>3
<1> QED
  BY <1>1, <1>2 DEF start

LEMMA PingsAfterStop ==
    ASSUME KeepAliveTypeOK, NEW p \in Peers, NEW h \in Handles, stop(p, h),
           \A q \in Peers : pingIntervals[q] = ClearedPings(q)
    PROVE  /\ \A q \in Peers : pingIntervals'[q] = ClearedPings(q)'
           /\ \A q \in Peers \ {p} : q \in pingKeepAliveTimers
                                      => q \in pingKeepAliveTimers'
<1>1. ASSUME NEW q \in Peers \ {p}
      PROVE  pingIntervals'[q] = ClearedPings(q)'
  BY DEF stop, KeepAliveTypeOK, ClearedPings
<1>2. pingIntervals'[p] = ClearedPings(p)'
  <2>1. pingIntervals[p] = ClearedPings(p) /\ ClearedPings(p) \in {0, 1}
    BY DEF ClearedPings
  <2>2. pingIntervals'[p] = pingIntervals[p] - ClearedPings(p)
    BY DEF stop, KeepAliveTypeOK
  <2>3. ClearedPings(p)' = 0
    BY DEF stop, ClearedPings
  <2> QED
    BY <2>1, <2>2, <2>3
<1> QED
  BY <1>1, <1>2 DEF stop

NetworkInv == ConnectSignalled /\ PingIntervalsOwned /\ ConnectedPeersKeptAlive

LEMMA NetworkInit == Init => NetworkInv
<1> SUFFICES ASSUME Init PROVE NetworkInv
  OBVIOUS
<1>1. \A p \in Peers : ~Connected(p)
  BY DEF Init, Connected
<1>2. \A p \in Peers : pingIntervals[p] = ClearedPings(p)
  BY DEF Init, KeepAliveInit, ClearedPings
<1> QED
  BY <1>1, <1>2 DEF NetworkInv, ConnectSignalled, PingIntervalsOwned,
     ClearedPings, ConnectedPeersKeptAlive

LEMMA NetworkStep == Inv /\ NetworkInv /\ [Next]_vars => NetworkInv'
<1> SUFFICES ASSUME Inv, NetworkInv, [Next]_vars PROVE NetworkInv'
  OBVIOUS
<1>t. /\ KeepAliveTypeOK
      /\ connection \in [Peers -> ConnectionStates]
      /\ handler \in [Handlers -> Handler]
      /\ isP2PNetworkConnected \in BOOLEAN
      /\ stopped \in BOOLEAN
  BY DEF Inv, TypeInv, TypeOK
<1>a. /\ IdleHandler.at = "idle"
      /\ \A s \in HandlerStates, p \in Peers :
           HandlerAt(s, p).at = s /\ HandlerAt(s, p).peer = p
  BY RecordTypes
\* After stop() the three invariants ask for nothing.
<1>s. CASE stopped'
  BY <1>s DEF NetworkInv, ConnectSignalled, PingIntervalsOwned,
     ConnectedPeersKeptAlive
<1>1. CASE UNCHANGED networkVars
  BY <1>1 DEF networkVars, keepAliveVars, NetworkInv, ConnectSignalled,
     PingIntervalsOwned, ConnectedPeersKeptAlive, Connected, ClearedPings
<1>2. ASSUME ~stopped', NEW p \in Peers, OnConnect(p),
             UNCHANGED <<isP2PNetworkConnected, stopped>>
      PROVE  NetworkInv'
  <2>1. /\ start(p, "connection")
        /\ \A q \in Peers : pingIntervals[q] = ClearedPings(q)
    BY <1>2 DEF OnConnect, NetworkInv, PingIntervalsOwned, ClearedPings
  <2>2. PICK h \in Handlers :
          handler[h] = IdleHandler /\ handler' = [handler EXCEPT ![h] = HandlerAt("tags", p)]
    BY <1>2 DEF OnConnect
  <2>3. ConnectSignalled'
    BY <1>t, <1>a, <2>2 DEF ConnectSignalled, HandlerStates
  <2>4. /\ \A q \in Peers : pingIntervals'[q] = ClearedPings(q)'
        /\ PingEnabled => p \in pingKeepAliveTimers'
        /\ \A q \in Peers \ {p} : q \in pingKeepAliveTimers
                                   => q \in pingKeepAliveTimers'
    BY <1>t, <2>1, PingsAfterStart DEF Handles
  <2>5. \A q \in Peers \ {p} : /\ Connected(q)' => Connected(q)
                               /\ connection'[q] = connection[q]
    BY <1>2, <1>t DEF OnConnect, Connected
  <2>6. \A q \in Peers : (\E g \in Handlers : handler[g] = HandlerAt("hangup", q))
                        => \E g \in Handlers : handler'[g] = HandlerAt("hangup", q)
    BY <1>t, <1>a, <2>2 DEF HandlerStates
  <2>7. ConnectedPeersKeptAlive'
    BY <1>2, <2>4, <2>5, <2>6 DEF ConnectedPeersKeptAlive, NetworkInv
  <2> QED
    BY <2>3, <2>4, <2>7 DEF NetworkInv, PingIntervalsOwned, ClearedPings
<1>3. ASSUME ~stopped', NEW c \in Calls, FinishDial(c), call[c].peer \in Peers
      PROVE  NetworkInv'
  <2> DEFINE p == call[c].peer
  <2>1. /\ start(p, "discovered")
        /\ \A q \in Peers : pingIntervals[q] = ClearedPings(q)
        /\ UNCHANGED <<handler, isP2PNetworkConnected, stopped>>
    BY <1>3 DEF FinishDial, NetworkInv, PingIntervalsOwned, ClearedPings
  <2>2. /\ \A q \in Peers : pingIntervals'[q] = ClearedPings(q)'
        /\ PingEnabled => p \in pingKeepAliveTimers'
        /\ \A q \in Peers \ {p} : q \in pingKeepAliveTimers
                                   => q \in pingKeepAliveTimers'
    BY <1>t, <1>3, <2>1, PingsAfterStart DEF Handles
  <2>3. /\ \A q \in Peers : Connected(q)' <=> Connected(q)
        /\ \A q \in Peers \ {p} : connection'[q] = connection[q]
    BY <1>3, <1>t DEF FinishDial, Connected
  <2>4. ConnectSignalled'
    BY <2>1, <2>3 DEF ConnectSignalled, NetworkInv
  <2>5. ConnectedPeersKeptAlive'
    BY <2>1, <2>2, <2>3 DEF ConnectedPeersKeptAlive, NetworkInv
  <2> QED
    BY <2>2, <2>4, <2>5 DEF NetworkInv, PingIntervalsOwned, ClearedPings
<1>4. ASSUME ~stopped', NEW p \in Peers, Disconnect(p)
      PROVE  NetworkInv'
  <2>1. /\ ~stopped
        /\ stop(p, "connection")
        /\ \A q \in Peers : pingIntervals[q] = ClearedPings(q)
    BY <1>4 DEF Disconnect, NetworkInv, PingIntervalsOwned, ClearedPings
  <2>2. /\ \A q \in Peers : pingIntervals'[q] = ClearedPings(q)'
        /\ \A q \in Peers \ {p} : q \in pingKeepAliveTimers
                                   => q \in pingKeepAliveTimers'
    BY <1>t, <2>1, PingsAfterStop DEF Handles
  <2>3. /\ ~Connected(p)'
        /\ \A q \in Peers \ {p} : /\ Connected(q)' = Connected(q)
                                  /\ connection'[q] = connection[q]
    BY <1>4, <1>t DEF Disconnect, Connected
  <2>4. \A h \in Handlers : handler[h].at # "idle" => handler'[h].at # "idle"
    BY <1>4, <1>a DEF Disconnect, HandlerStates
  <2>5. ConnectSignalled'
    <3> SUFFICES ASSUME ~isP2PNetworkConnected', NEW q \in Peers, Connected(q)'
                 PROVE  \E h \in Handlers : handler'[h].at # "idle"
      BY DEF ConnectSignalled, Connected
    <3>1. q # p /\ Connected(q)
      BY <2>3
    <3>2. ~isP2PNetworkConnected
      BY <1>4, <2>1, <3>1 DEF Disconnect, setP2PNetworkDisconnected
    <3> QED
      BY <2>1, <2>4, <3>1, <3>2 DEF NetworkInv, ConnectSignalled
  <2>6. \A q \in Peers \ {p}, h \in Handlers :
          handler[h] = HandlerAt("hangup", q) => handler'[h] = HandlerAt("hangup", q)
    BY <1>4, <1>a DEF Disconnect, HandlerStates
  <2>7. ConnectedPeersKeptAlive'
    BY <2>1, <2>2, <2>3, <2>6 DEF ConnectedPeersKeptAlive, NetworkInv
  <2> QED
    BY <2>2, <2>5, <2>7 DEF NetworkInv, PingIntervalsOwned, ClearedPings
<1>5. ASSUME ~stopped', NEW h \in Handlers, HandleConnect(h), handler[h].peer \in Peers
      PROVE  NetworkInv'
  <2> DEFINE p == handler[h].peer
  <2>1. /\ ~stopped
        /\ UNCHANGED connection
        /\ \A q \in Peers : pingIntervals[q] = ClearedPings(q)
        /\ \A q \in Peers : Connected(q)' = Connected(q)
    BY <1>5 DEF HandleConnect, NetworkInv, PingIntervalsOwned, ClearedPings, Connected
  <2>2. \A g \in Handlers : handler[g].at = "hangup" => handler'[g] = handler[g]
    BY <1>5, <1>t DEF HandleConnect
  <2>3. CASE isP2PNetworkConnected' = TRUE /\ UNCHANGED keepAliveVars
    <3>1. PingIntervalsOwned' /\ ConnectSignalled'
      BY <2>1, <2>3 DEF PingIntervalsOwned, ConnectSignalled, keepAliveVars,
         ClearedPings
    <3>2. \A q \in Peers, g \in Handlers :
            handler[g] = HandlerAt("hangup", q) => handler'[g] = HandlerAt("hangup", q)
      BY <1>a, <2>2 DEF HandlerStates
    <3>3. ConnectedPeersKeptAlive'
      BY <2>1, <2>3, <3>2 DEF ConnectedPeersKeptAlive, NetworkInv, keepAliveVars
    <3> QED
      BY <3>1, <3>3 DEF NetworkInv
  <2>4. CASE /\ stop(p, "connection")
             /\ handler' = [handler EXCEPT ![h].at = DropState(p)]
    <3>1. /\ \A q \in Peers : pingIntervals'[q] = ClearedPings(q)'
          /\ \A q \in Peers \ {p} : q \in pingKeepAliveTimers
                                     => q \in pingKeepAliveTimers'
      BY <1>t, <1>5, <2>1, <2>4, PingsAfterStop DEF Handles
    <3>2. handler'[h].at # "idle"
      BY <1>t, <2>4 DEF DropState
    <3>3. Connected(p) => handler'[h] = HandlerAt("hangup", p)
      BY <1>t, <2>4 DEF Handler, HandlerAt, DropState
    <3>4. \A q \in Peers, g \in Handlers :
            handler[g] = HandlerAt("hangup", q) => handler'[g] = HandlerAt("hangup", q)
      BY <1>a, <2>2 DEF HandlerStates
    <3>5. ConnectedPeersKeptAlive'
      BY <2>1, <3>1, <3>3, <3>4 DEF ConnectedPeersKeptAlive, NetworkInv
    <3>6. ConnectSignalled'
      BY <3>2 DEF ConnectSignalled
    <3> QED
      BY <3>1, <3>5, <3>6 DEF NetworkInv, PingIntervalsOwned, ClearedPings
  <2> QED
    BY <1>5, <2>3, <2>4 DEF HandleConnect, setP2PNetworkConnected
<1>6. ASSUME ~stopped', NEW h \in Handlers, AfterDrop(h)
      PROVE  NetworkInv'
  <2>1. /\ ~stopped /\ isP2PNetworkConnected' = TRUE
        /\ UNCHANGED <<connection, keepAliveVars>>
        /\ handler[h].at = "hungup" /\ handler' = [handler EXCEPT ![h] = IdleHandler]
    BY <1>6 DEF AfterDrop, setP2PNetworkConnected
  <2>2. \A q \in Peers, g \in Handlers :
          handler[g] = HandlerAt("hangup", q) => handler'[g] = HandlerAt("hangup", q)
    BY <1>t, <1>a, <2>1 DEF HandlerStates
  <2> QED
    BY <2>1, <2>2 DEF NetworkInv, ConnectSignalled, PingIntervalsOwned,
       ConnectedPeersKeptAlive, Connected, keepAliveVars, ClearedPings
<1>7. ASSUME ~stopped', NEW h \in Handlers, HangUpFails(h)
      PROVE  NetworkInv'
  <2> DEFINE p == handler[h].peer
  <2>1. /\ ~stopped /\ isP2PNetworkConnected' = TRUE
        /\ UNCHANGED keepAliveVars
        /\ handler[h].at = "hangup" /\ handler' = [handler EXCEPT ![h] = IdleHandler]
    BY <1>7 DEF HangUpFails, setP2PNetworkConnected
  <2>2. PingIntervalsOwned' /\ ConnectSignalled'
    BY <2>1 DEF NetworkInv, ConnectSignalled, PingIntervalsOwned, keepAliveVars,
       ClearedPings
  <2>3. ASSUME PingEnabled, NEW q \in Peers, Connected(q)'
        PROVE  \/ q \in pingKeepAliveTimers'
               \/ connection'[q] \in Kept
               \/ \E g \in Handlers : handler'[g] = HandlerAt("hangup", q)
    <3>1. CASE q = p
      BY <1>7, <1>t, <3>1 DEF HangUpFails, Kept
    <3>2. CASE q # p
      <4>1. connection'[q] = connection[q] /\ Connected(q)
        BY <1>7, <1>t, <2>3, <3>2 DEF HangUpFails, Connected
      <4>2. \A g \in Handlers :
              handler[g] = HandlerAt("hangup", q) => handler'[g] = handler[g]
        BY <1>t, <1>a, <2>1, <3>2 DEF HandlerStates
      <4> QED
        BY <2>1, <2>3, <4>1, <4>2 DEF NetworkInv, ConnectedPeersKeptAlive,
           keepAliveVars
    <3> QED
      BY <3>1, <3>2
  <2> QED
    BY <2>2, <2>3 DEF NetworkInv, ConnectedPeersKeptAlive
<1>8. CASE Stop
  BY <1>8, <1>s DEF Stop
<1>9. ASSUME ~stopped' PROVE NetworkInv'
  BY <1>1, <1>2, <1>3, <1>4, <1>5, <1>6, <1>7, <1>8, <1>9, NetworkKinds
<1> QED
  BY <1>s, <1>9, <1>t DEF Stop

THEOREM NetworkInvariance == Spec => []NetworkInv
BY NetworkInit, NetworkStep, Invariance, PTL DEF Spec

\* No connect event is lost: "not connected" is reported beside an open
\* connection only while a connect handler is on its way.
THEOREM ConnectNotLost == Spec => []ConnectSignalled
<1>1. NetworkInv => ConnectSignalled
  BY DEF NetworkInv
<1> QED
  BY <1>1, NetworkInvariance, PTL

\* No ping interval is leaked before stop().
THEOREM NoPingLeak == Spec => []PingIntervalsOwned
<1>1. NetworkInv => PingIntervalsOwned
  BY DEF NetworkInv
<1> QED
  BY <1>1, NetworkInvariance, PTL

\* An open connection keeps its ping timer unless it is being dropped, or was
\* to be dropped and hangUp failed.
THEOREM ConnectionsPinged == Spec => []ConnectedPeersKeptAlive
<1>1. NetworkInv => ConnectedPeersKeptAlive
  BY DEF NetworkInv
<1> QED
  BY <1>1, NetworkInvariance, PTL
=============================================================================
