--------------------------- MODULE ShellyRPCProofs ---------------------------
(***************************************************************************)
(* Proofs about calls to a Shelly device, for any number of concurrent     *)
(* calls and of connections.                                               *)
(***************************************************************************)
EXTENDS ShellyRPC, TLAPS

\* A request leaves shellyRPCRespAny only after it began, so whatever is on its
\* way belongs to a call whose start is fixed, and the device has not gone back
\* since.
OnlyBegunCalls ==
  /\ \A c \in Call : pc[c] = "idle" => c \notin stored /\ c \notin requests
  /\ \A c \in Call : start[c] <= version

\* A reply is on the topic of the call it answers and carries a state the device
\* had after the call began.
GoodReply(m) ==
  /\ pc[m.to] # "idle"
  /\ m.topic = ReplyTopic(m.to)
  /\ m.version >= start[m.to]
  /\ executed[m.to] >= 1

\* So are the replies the broker holds, those a handler has put into recv, and
\* those calls have returned; the latter two are also the caller's own.
GoodReplies ==
  /\ \A m \in replies : GoodReply(m)
  /\ \A c \in Call : \A m \in recv[c] \cup result[c] : m.to = c /\ GoodReply(m)

\* paho has not sent a request on a connection that does not exist yet, and a
\* lost connection is followed by another one.
SentOnPast ==
  /\ \A c \in Call : sentOn[c] <= connection
  /\ ~up => connection < MaxConnections

IInv ==
  /\ TypeOK
  /\ OnlyBegunCalls
  /\ GoodReplies
  /\ SentOnPast
  /\ ExecutedOncePerConnection

\* No call has begun.
LEMMA InitIInv == Init => IInv
  BY RPCAssumption DEF Init, IInv, TypeOK, Location, Method, OnlyBegunCalls, GoodReplies,
     SentOnPast, ExecutedOncePerConnection

\* Every step of a call, of paho, of the broker and of the device preserves the
\* inductive invariant.
LEMMA NextIInv == IInv /\ [Next]_vars => IInv'
  <1> SUFFICES ASSUME IInv, [Next]_vars
               PROVE  IInv'
    OBVIOUS
  <1> USE RPCAssumption
      DEF IInv, TypeOK, Location, Method, Reply, ReplyTopic, OnlyBegunCalls, GoodReplies,
          GoodReply, SentOnPast, ExecutedOncePerConnection, callVars, connVars, pahoVars,
          deviceVars
  <1>1. ASSUME NEW c \in Call, StartCall(c)
        PROVE  IInv'
    BY <1>1 DEF StartCall
  <1>2. ASSUME NEW c \in Call, Subscribe(c)
        PROVE  IInv'
    BY <1>2 DEF Subscribe
  <1>3. ASSUME NEW c \in Call, SubscribeFails(c)
        PROVE  IInv'
    BY <1>3 DEF SubscribeFails, CallReturns
  <1>4. ASSUME NEW c \in Call, Publish(c)
        PROVE  IInv'
    BY <1>4 DEF Publish
  <1>5. ASSUME NEW c \in Call, CallFails(c)
        PROVE  IInv'
    BY <1>5 DEF CallFails
  <1>6. ASSUME NEW c \in Call, ReceiveReply(c)
        PROVE  IInv'
    BY <1>6 DEF ReceiveReply
  <1>7. ASSUME NEW c \in Call, Cleanup(c)
        PROVE  IInv'
    BY <1>7 DEF Cleanup, CallReturns
  <1>8. ASSUME NEW c \in Call, Acknowledged(c)
        PROVE  IInv'
    BY <1>8 DEF Acknowledged
  <1>9. ASSUME NEW c \in Call, BrokerTakes(c)
        PROVE  IInv'
    BY <1>9 DEF BrokerTakes
  <1>10. ASSUME NEW c \in Call, DeviceExecutes(c)
        PROVE  IInv'
    BY <1>10 DEF DeviceExecutes
  <1>11. ASSUME NEW c \in Call, RequestLost(c)
        PROVE  IInv'
    BY <1>11 DEF RequestLost
  <1>12. ASSUME NEW m \in replies, DeliverReply(m)
        PROVE  IInv'
    BY <1>12 DEF DeliverReply
  <1>13. CASE ConnectionLost
    BY <1>13 DEF ConnectionLost
  <1>14. CASE Reconnect
    BY <1>14 DEF Reconnect
  <1>15. CASE UNCHANGED vars
    BY <1>15 DEF vars
  <1> QED
    BY <1>1, <1>2, <1>3, <1>4, <1>5, <1>6, <1>7, <1>8, <1>9, <1>10, <1>11, <1>12,
       <1>13, <1>14, <1>15
    DEF Next, CallStep

\* The inductive invariant holds in every reachable state.
LEMMA Invariance == Spec => []IInv
  BY InitIInv, NextIInv, PTL DEF Spec

\* Every variable of shellyRPCRespAny, paho, the broker and the device keeps its
\* type: at most one reply is buffered in recv, and handlers belong to connections
\* that exist.
THEOREM RPCTypeCorrect == Spec => []TypeOK
  <1>1. IInv => TypeOK
    BY DEF IInv
  <1> QED
    BY <1>1, Invariance, PTL

\* However many calls overlap and whatever is delayed, repeated or sent again
\* after a reconnection, a call that succeeds returns the reply to its own
\* request, with a state the device had after the call began.
THEOREM AnswerIsOwnAndFreshAlways == Spec => []AnswerIsOwnAndFresh
  <1>1. IInv => AnswerIsOwnAndFresh
    BY DEF IInv, GoodReplies, GoodReply, AnswerIsOwnAndFresh
  <1> QED
    BY <1>1, Invariance, PTL

\* The device executes a request at most once per connection it was sent on.
THEOREM ExecutedOncePerConnectionAlways == Spec => []ExecutedOncePerConnection
  <1>1. IInv => ExecutedOncePerConnection
    BY DEF IInv
  <1> QED
    BY <1>1, Invariance, PTL
=============================================================================
