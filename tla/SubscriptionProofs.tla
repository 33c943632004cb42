------------------------ MODULE SubscriptionProofs ------------------------
(***************************************************************************)
(* Proofs about SubscriptionManager, for every set of peers, topics,       *)
(* messages and calls in flight.                                           *)
(***************************************************************************)
EXTENDS SubscriptionManager, TLAPS

(* Every variable keeps its type, and no request is both under way and       *)
(* answered.                                                                 *)
THEOREM TypeCorrectness == Spec => []TypeOK
<1>1. Init => TypeOK
  <2> SUFFICES ASSUME Init PROVE TypeOK
    OBVIOUS
  <2>1. \A c \in Calls : call[c] = NoCall
    BY DEF Init
  <2>2. \A c \in Calls : call[c].toPeers \cap call[c].answered = {}
    BY <2>1 DEF NoCall
  <2>3. call = [c \in Calls |-> NoCall]
    BY DEF Init
  <2> HIDE DEF NoCall
  <2> QED
    BY <2>2, <2>3 DEF Init, TypeOK
<1>2. TypeOK /\ [Next]_vars => TypeOK'
  <2> SUFFICES ASSUME TypeOK, [Next]_vars PROVE TypeOK'
    OBVIOUS
  <2>1. ASSUME NEW c \in Calls, NEW topics \in SUBSET Topics \ {{}}, Subscribe(c, topics)
       PROVE  TypeOK'
    BY <2>1 DEF Subscribe, TypeOK, Kinds, NoCall, Start, environment,
       maintenance, incoming
  <2>2. ASSUME NEW c \in Calls, NEW topics \in SUBSET Topics \ {{}}, Unsubscribe(c, topics)
       PROVE  TypeOK'
    BY <2>2 DEF Unsubscribe, TypeOK, Kinds, NoCall, Start, environment,
       maintenance, incoming
  <2>3. ASSUME NEW c \in Calls, UnsubscribeAll(c)
       PROVE  TypeOK'
    BY <2>3 DEF UnsubscribeAll, TypeOK, Kinds, NoCall, Start, environment,
       maintenance, incoming
  <2>4. ASSUME NEW c \in Calls, GoOnline(c)
       PROVE  TypeOK'
    BY <2>4 DEF GoOnline, TypeOK, Kinds, NoCall, Start, environment,
       maintenance, incoming
  <2>5. ASSUME NEW c \in Calls, NEW p \in Peers, Request(c, p)
       PROVE  TypeOK'
    BY <2>5 DEF Request, TypeOK, Kinds, NoCall, Answered, environment,
       maintenance, incoming
  <2>6. ASSUME NEW c \in Calls, NEW p \in Peers, RequestFails(c, p)
       PROVE  TypeOK'
    BY <2>6 DEF RequestFails, TypeOK, Kinds, NoCall, Answered, environment,
       maintenance, incoming
  <2>7. ASSUME NEW c \in Calls, NEW p \in Peers, UnsubscribeAnswer(c, p)
       PROVE  TypeOK'
    BY <2>7 DEF UnsubscribeAnswer, TypeOK, Kinds, NoCall, environment,
       maintenance, incoming
  <2>8. ASSUME NEW c \in Calls, SubscribeReturns(c)
       PROVE  TypeOK'
    BY <2>8 DEF SubscribeReturns, TypeOK, Kinds, NoCall, Ends, environment,
       maintenance, incoming
  <2>9. ASSUME NEW c \in Calls, UnsubscribeReturns(c)
       PROVE  TypeOK'
    BY <2>9 DEF UnsubscribeReturns, TypeOK, Kinds, NoCall, Ends,
       stopSubscriptionsMaintenance, environment, maintenance, incoming
  <2>10. ASSUME NEW c \in Calls, UnsubscribeAllReturns(c)
       PROVE  TypeOK'
    BY <2>10 DEF UnsubscribeAllReturns, TypeOK, Kinds, NoCall, Ends,
       stopSubscriptionsMaintenance, environment, maintenance, incoming
  <2>11. ASSUME NEW c \in Calls, ListenerReturns(c)
       PROVE  TypeOK'
    BY <2>11 DEF ListenerReturns, TypeOK, Kinds, NoCall, Ends,
       startKeepAlivePings, environment, maintenance, incoming
  <2>12. ASSUME GoOffline
       PROVE  TypeOK'
    BY <2>12 DEF GoOffline, TypeOK, Kinds, NoCall, environment,
       maintenance, incoming
  <2>13. ASSUME NEW p \in Peers, NEW m \in Messages, Push(p, m)
       PROVE  TypeOK'
    BY <2>13 DEF Push, TypeOK, Kinds, NoCall, Noted, environment,
       maintenance, incoming
  <2>14. ASSUME PeersChange
       PROVE  TypeOK'
    BY <2>14 DEF PeersChange, TypeOK, Kinds, NoCall, environment,
       maintenance, incoming
  <2>15. CASE UNCHANGED vars
    BY <2>15 DEF vars, TypeOK, Kinds, NoCall, environment, maintenance,
       incoming
  <2>16. ASSUME NEW c \in Calls, NEW p \in Peers, Renew(c, p)
       PROVE  TypeOK'
    BY <2>16 DEF Renew, TypeOK, Kinds, NoCall, environment, maintenance,
       incoming
  <2>17. ASSUME NEW c \in Calls, RenewalReturns(c)
       PROVE  TypeOK'
    BY <2>17 DEF RenewalReturns, TypeOK, Kinds, NoCall, Ends, environment,
       maintenance, incoming
  <2> QED
    BY <2>1, <2>2, <2>3, <2>4, <2>5, <2>6, <2>7, <2>8, <2>9, <2>10,
       <2>11, <2>12, <2>13, <2>14, <2>15, <2>16, <2>17 DEF Next, CallStep
<1> QED
  BY <1>1, <1>2, PTL DEF Spec

-----------------------------------------------------------------------------
(* A message that was given to the callback is a message received.           *)
DeliveredInv ==
    \A m \in Messages :
      /\ delivered[m] <= 1
      /\ delivered[m] > 0 => m \in receivedMessages

(* However many service nodes push a message, before, during and after       *)
(* subscribe and unsubscribe, it is given to the callback at most once.      *)
THEOREM DeliveredAtMostOnce == Spec => []DeliveredOnce
<1>1. Init => DeliveredInv
  BY DEF Init, DeliveredInv
<1>2. TypeOK /\ DeliveredInv /\ [Next]_vars => DeliveredInv'
  <2> SUFFICES ASSUME TypeOK, DeliveredInv, [Next]_vars PROVE DeliveredInv'
    OBVIOUS
  <2>1. ASSUME NEW p \in Peers, NEW m \in Messages, Push(p, m)
        PROVE  DeliveredInv'
    <3> SUFFICES ASSUME NEW n \in Messages
                 PROVE  /\ delivered'[n] <= 1
                        /\ delivered'[n] > 0 => n \in receivedMessages'
      BY DEF DeliveredInv
    <3>1. delivered[n] \in Nat /\ delivered[n] <= 1
          /\ (delivered[n] > 0 => n \in receivedMessages)
      BY DEF TypeOK, DeliveredInv
    <3>2. CASE n = m
      BY <2>1, <3>1, <3>2 DEF Push, Noted, TypeOK
    <3>3. CASE n # m
      BY <2>1, <3>1, <3>3 DEF Push, Noted, TypeOK
    <3> QED
      BY <3>2, <3>3
  <2>2. CASE UNCHANGED <<delivered, receivedMessages>>
    BY <2>2 DEF DeliveredInv
  <2>3. ASSUME NEW c \in Calls, CallStep(c)
        PROVE  UNCHANGED <<delivered, receivedMessages>>
    BY <2>3 DEF CallStep, Request, RequestFails, UnsubscribeAnswer,
       SubscribeReturns, UnsubscribeReturns, UnsubscribeAllReturns,
       ListenerReturns, RenewalReturns, incoming
  <2>4. CASE UNCHANGED vars
    BY <2>2, <2>4 DEF vars
  <2> QED
    BY <2>1, <2>2, <2>3, <2>4 DEF Next, Subscribe, Unsubscribe, UnsubscribeAll,
       GoOnline, GoOffline, PeersChange, Renew, incoming
<1>3. TypeOK /\ DeliveredInv => DeliveredOnce
  BY DEF DeliveredInv, DeliveredOnce
<1> QED
  BY <1>1, <1>2, <1>3, TypeCorrectness, PTL DEF Spec

-----------------------------------------------------------------------------
(* A callback implies a listener, and where the pings of an online node with *)
(* a callback do not run, a listener is about to start them.                 *)
KeptInv ==
    /\ subscriptionCallbacks # {} => listening
    /\ online /\ subscriptionCallbacks # {} /\ ~keepAliveInterval
         => \E c \in Calls : call[c].kind = "online"

(* However subscribe, unsubscribe and connection events are interleaved, an  *)
(* online node with a callback pings its peers once no call is in flight.    *)
THEOREM SubscriptionKept == Spec => []SubscriptionIsKept
<1>1. Init => KeptInv
  BY DEF Init, KeptInv
<1>2. TypeOK /\ KeptInv /\ [Next]_vars => KeptInv'
  <2> SUFFICES ASSUME TypeOK, KeptInv, [Next]_vars PROVE KeptInv'
    OBVIOUS
  <2>1. ASSUME NEW c \in Calls, NEW topics \in SUBSET Topics \ {{}}, Subscribe(c, topics)
       PROVE  KeptInv'
    BY <2>1 DEF Subscribe, KeptInv, TypeOK, Kinds, NoCall, Start,
       maintenance, incoming, Idle, environment
  <2>2. ASSUME NEW c \in Calls, NEW topics \in SUBSET Topics \ {{}}, Unsubscribe(c, topics)
       PROVE  KeptInv'
    BY <2>2 DEF Unsubscribe, KeptInv, TypeOK, Kinds, NoCall, Start,
       maintenance, incoming, Idle, environment
  <2>3. ASSUME NEW c \in Calls, UnsubscribeAll(c)
       PROVE  KeptInv'
    BY <2>3 DEF UnsubscribeAll, KeptInv, TypeOK, Kinds, NoCall, Start,
       maintenance, incoming, Idle, environment
  <2>4. ASSUME NEW c \in Calls, GoOnline(c)
       PROVE  KeptInv'
    BY <2>4 DEF GoOnline, KeptInv, TypeOK, Kinds, NoCall, Start,
       maintenance, incoming, Idle, environment
  <2>5. ASSUME NEW c \in Calls, NEW p \in Peers, Request(c, p)
       PROVE  KeptInv'
    BY <2>5 DEF Request, KeptInv, TypeOK, Kinds, NoCall, Answered,
       maintenance, incoming, environment
  <2>6. ASSUME NEW c \in Calls, NEW p \in Peers, RequestFails(c, p)
       PROVE  KeptInv'
    BY <2>6 DEF RequestFails, KeptInv, TypeOK, Kinds, NoCall, Answered,
       maintenance, incoming, environment
  <2>7. ASSUME NEW c \in Calls, NEW p \in Peers, UnsubscribeAnswer(c, p)
       PROVE  KeptInv'
    BY <2>7 DEF UnsubscribeAnswer, KeptInv, TypeOK, Kinds, NoCall,
       maintenance, incoming, environment
  <2>8. ASSUME NEW c \in Calls, SubscribeReturns(c)
       PROVE  KeptInv'
    BY <2>8 DEF SubscribeReturns, KeptInv, TypeOK, Kinds, NoCall, Ends,
       maintenance, incoming, environment
  <2>9. ASSUME NEW c \in Calls, UnsubscribeReturns(c)
       PROVE  KeptInv'
    BY <2>9 DEF UnsubscribeReturns, KeptInv, TypeOK, Kinds, NoCall, Ends,
       stopSubscriptionsMaintenance, maintenance, incoming, NothingLeft,
       environment
  <2>10. ASSUME NEW c \in Calls, UnsubscribeAllReturns(c)
       PROVE  KeptInv'
    BY <2>10 DEF UnsubscribeAllReturns, KeptInv, TypeOK, Kinds, NoCall,
       Ends, stopSubscriptionsMaintenance, maintenance, incoming,
       environment
  <2>11. ASSUME NEW c \in Calls, ListenerReturns(c)
       PROVE  KeptInv'
    BY <2>11 DEF ListenerReturns, KeptInv, TypeOK, Kinds, NoCall, Ends,
       startKeepAlivePings, maintenance, incoming, environment
  <2>12. ASSUME GoOffline
       PROVE  KeptInv'
    BY <2>12 DEF GoOffline, KeptInv, TypeOK, Kinds, NoCall, maintenance,
       incoming, environment
  <2>13. ASSUME NEW p \in Peers, NEW m \in Messages, Push(p, m)
       PROVE  KeptInv'
    BY <2>13 DEF Push, KeptInv, TypeOK, Kinds, NoCall, Noted, maintenance,
       incoming, environment
  <2>14. ASSUME PeersChange
       PROVE  KeptInv'
    BY <2>14 DEF PeersChange, KeptInv, TypeOK, Kinds, NoCall, maintenance,
       incoming, environment
  <2>15. CASE UNCHANGED vars
    BY <2>15 DEF vars, KeptInv, TypeOK, Kinds, NoCall, maintenance,
       incoming, environment
  <2>16. ASSUME NEW c \in Calls, NEW p \in Peers, Renew(c, p)
       PROVE  KeptInv'
    BY <2>16 DEF Renew, KeptInv, TypeOK, Kinds, NoCall, Idle, maintenance,
       incoming, environment
  <2>17. ASSUME NEW c \in Calls, RenewalReturns(c)
       PROVE  KeptInv'
    BY <2>17 DEF RenewalReturns, KeptInv, TypeOK, Kinds, NoCall, Ends,
       maintenance, incoming, environment
  <2> QED
    BY <2>1, <2>2, <2>3, <2>4, <2>5, <2>6, <2>7, <2>8, <2>9, <2>10,
       <2>11, <2>12, <2>13, <2>14, <2>15, <2>16, <2>17 DEF Next, CallStep
<1>3. KeptInv => SubscriptionIsKept
  BY DEF KeptInv, SubscriptionIsKept, Quiet
<1> QED
  BY <1>1, <1>2, <1>3, TypeCorrectness, PTL DEF Spec
=============================================================================
