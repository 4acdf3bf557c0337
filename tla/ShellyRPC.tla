------------------------------ MODULE ShellyRPC ------------------------------
(***************************************************************************)
(* Calls to a Shelly device over MQTT: shellyRPCRespAny of                 *)
(* services/s-rpc-mqtt/mqtt.go and the light operations built on it.       *)
(*                                                                         *)
(* Calls run concurrently on one connection.  A call registers a handler   *)
(* for its reply topic, subscribes to it, publishes its request with QoS 1 *)
(* and waits for the reply or its 10 s deadline.  autopaho registers the   *)
(* handler with the current connection only, and paho keeps a request that *)
(* was not acknowledged and sends it again after a reconnection.  The      *)
(* broker and the device are external.                                     *)
(***************************************************************************)
EXTENDS Naturals

CONSTANTS
  Call,           \* calls, each made once
  MaxConnections  \* BOUND: connections the manager makes, one after another

ASSUME RPCAssumption == MaxConnections \in Nat \ {0}

VARIABLES
  pc,         \* where each call is
  method,     \* "Toggle" or "GetStatus"
  start,      \* the device's version when the call started
  handler,    \* the connection each call's handler is registered with, 0: none
  recv,       \* what is buffered in each call's recv channel (at most one)
  result,     \* what each call returned: {} is an error, {reply} the reply
  up,         \* the connection is up
  connection, \* its number
  stored,     \* requests paho keeps because they are not acknowledged
  sentOn,     \* the connection a request was last sent on, 0: none
  subs,       \* the reply topics the broker has for this client
  requests,   \* requests the broker holds for the device
  replies,    \* replies the broker holds for this client
  version,    \* the number of toggles the device has executed
  executed    \* how often the device has executed each request

callVars == <<pc, method, start, handler, recv, result>>
connVars == <<up, connection>>
pahoVars == <<stored, sentOn>>
deviceVars == <<requests, version, executed>>
vars == <<callVars, connVars, pahoVars, subs, replies, deviceVars>>

Method == {"Toggle", "GetStatus"}

\* Mutant: one reply topic per device and client.
ReplyTopicShared(c) == "reply"

\* The reply topic of a call: its device's topic, the client id and the time
\* of the call in nanoseconds, taken to differ between calls to one device.
ReplyTopic(c) == c

Reply == [topic : {ReplyTopic(c) : c \in Call}, to : Call, version : Nat]

Location == {"idle", "subscribing", "publishing", "acking", "waiting",
             "cleanup", "returned"}

TypeOK ==
  /\ pc \in [Call -> Location]
  /\ method \in [Call -> Method]
  /\ start \in [Call -> Nat]
  /\ handler \in [Call -> 0..MaxConnections]
  /\ \A c \in Call : recv[c] \subseteq Reply /\ \A m, n \in recv[c] : m = n
  /\ \A c \in Call : result[c] \subseteq Reply
  /\ up \in BOOLEAN
  /\ connection \in 1..MaxConnections
  /\ stored \subseteq Call
  /\ sentOn \in [Call -> 0..MaxConnections]
  /\ subs \subseteq {ReplyTopic(c) : c \in Call}
  /\ requests \subseteq Call
  /\ replies \subseteq Reply
  /\ version \in Nat
  /\ executed \in [Call -> Nat]

Init ==
  /\ pc = [c \in Call |-> "idle"]
  /\ method \in [Call -> Method]
  /\ start = [c \in Call |-> 0]
  /\ handler = [c \in Call |-> 0]
  /\ recv = [c \in Call |-> {}]
  /\ result = [c \in Call |-> {}]
  /\ up = TRUE
  /\ connection = 1
  /\ stored = {}
  /\ sentOn = [c \in Call |-> 0]
  /\ subs = {}
  /\ requests = {}
  /\ replies = {}
  /\ version = 0
  /\ executed = [c \in Call |-> 0]

-----------------------------------------------------------------------------
(* shellyRPCRespAny.                                                       *)

\* AddOnPublishReceived: while the connection is down there is no client to
\* register the handler with.
StartCall(c) ==
  /\ pc[c] = "idle"
  /\ pc' = [pc EXCEPT ![c] = "subscribing"]
  /\ start' = [start EXCEPT ![c] = version]
  /\ handler' = [handler EXCEPT ![c] = IF up THEN connection ELSE 0]
  /\ UNCHANGED <<method, recv, result, connVars, pahoVars, subs, replies, deviceVars>>

Subscribe(c) ==
  /\ pc[c] = "subscribing"
  /\ up
  /\ subs' = subs \cup {ReplyTopic(c)}
  /\ pc' = [pc EXCEPT ![c] = "publishing"]
  /\ UNCHANGED <<method, start, handler, recv, result, connVars, pahoVars, replies,
                 deviceVars>>

\* The call returns: removeHandler is always deferred.
CallReturns(c, answer) ==
  /\ pc' = [pc EXCEPT ![c] = "returned"]
  /\ result' = [result EXCEPT ![c] = answer]
  /\ handler' = [handler EXCEPT ![c] = 0]
  /\ UNCHANGED <<method, start, recv>>

\* The connection is down, the deadline passes or the SUBACK is lost: an error.
\* The broker may have the subscription, and Unsubscribe is not deferred yet.
SubscribeFails(c) ==
  /\ pc[c] = "subscribing"
  /\ \/ UNCHANGED subs
     \/ up /\ subs' = subs \cup {ReplyTopic(c)}
  /\ CallReturns(c, {})
  /\ UNCHANGED <<connVars, pahoVars, replies, deviceVars>>

\* Mutant: a request that is not acknowledged yet is published anew.
PublishAgain(c) ==
  /\ pc[c] \in {"publishing", "acking"}
  /\ up
  /\ stored' = stored \cup {c}
  /\ sentOn' = [sentOn EXCEPT ![c] = 0]
  /\ pc' = [pc EXCEPT ![c] = "acking"]
  /\ UNCHANGED <<method, start, handler, recv, result, connVars, subs, replies,
                 deviceVars>>

\* cm.Publish, QoS 1: paho stores the request and writes it.
Publish(c) ==
  /\ pc[c] = "publishing"
  /\ up
  /\ stored' = stored \cup {c}
  /\ pc' = [pc EXCEPT ![c] = "acking"]
  /\ UNCHANGED <<method, start, handler, recv, result, connVars, sentOn, subs, replies,
                 deviceVars>>

\* The PUBACK of a request arrives, while Publish waits for it or later.
Acknowledged(c) ==
  /\ c \in stored
  /\ up
  /\ sentOn[c] = connection
  /\ stored' = stored \ {c}
  /\ pc' = [pc EXCEPT ![c] = IF @ = "acking" THEN "waiting" ELSE @]
  /\ UNCHANGED <<method, start, handler, recv, result, connVars, sentOn, subs, replies,
                 deviceVars>>

\* Mutant: no deadline once the request is acknowledged.
CallFailsNoDeadline(c) ==
  /\ \/ pc[c] = "publishing" /\ ~up
     \/ pc[c] = "acking"
  /\ result' = [result EXCEPT ![c] = {}]
  /\ pc' = [pc EXCEPT ![c] = "cleanup"]
  /\ UNCHANGED <<method, start, handler, recv, connVars, pahoVars, subs, replies,
                 deviceVars>>

\* Publish fails (the connection is down, or was lost before the PUBACK, or the
\* deadline passes), or the deadline passes before a reply: an error.
CallFails(c) ==
  /\ \/ pc[c] = "publishing" /\ ~up
     \/ pc[c] \in {"acking", "waiting"}
  /\ result' = [result EXCEPT ![c] = {}]
  /\ pc' = [pc EXCEPT ![c] = "cleanup"]
  /\ UNCHANGED <<method, start, handler, recv, connVars, pahoVars, subs, replies,
                 deviceVars>>

\* recv is ready.  If the deadline has passed as well, CallFails may win.
ReceiveReply(c) ==
  /\ pc[c] = "waiting"
  /\ recv[c] # {}
  /\ result' = [result EXCEPT ![c] = recv[c]]
  /\ recv' = [recv EXCEPT ![c] = {}]
  /\ pc' = [pc EXCEPT ![c] = "cleanup"]
  /\ UNCHANGED <<method, start, handler, connVars, pahoVars, subs, replies, deviceVars>>

\* The deferred Unsubscribe and removeHandler.  Unsubscribe is written even if
\* the deadline has passed; without a connection, or if it is lost with the
\* connection, the broker keeps the subscription.
Cleanup(c) ==
  /\ pc[c] = "cleanup"
  /\ subs' \in IF up THEN {subs, subs \ {ReplyTopic(c)}} ELSE {subs}
  /\ CallReturns(c, result[c])
  /\ UNCHANGED <<connVars, pahoVars, replies, deviceVars>>

-----------------------------------------------------------------------------
(* autopaho, the broker and the device (external).                         *)

\* The broker takes a stored request; paho sends one once per connection.
BrokerTakes(c) ==
  /\ c \in stored
  /\ up
  /\ sentOn[c] # connection
  /\ sentOn' = [sentOn EXCEPT ![c] = connection]
  /\ requests' = requests \cup {c}
  /\ UNCHANGED <<callVars, connVars, stored, subs, replies, version, executed>>

\* The device executes a request and replies; the broker keeps the reply if the
\* client is subscribed to its topic.
DeviceExecutes(c) ==
  /\ c \in requests
  /\ requests' = requests \ {c}
  /\ executed' = [executed EXCEPT ![c] = @ + 1]
  /\ version' = IF method[c] = "Toggle" THEN version + 1 ELSE version
  /\ replies' = IF ReplyTopic(c) \in subs
                  THEN replies \cup {[topic |-> ReplyTopic(c), to |-> c, version |-> version']}
                  ELSE replies
  /\ UNCHANGED <<callVars, connVars, pahoVars, subs>>

\* A request, or the device, is lost.
RequestLost(c) ==
  /\ c \in requests
  /\ requests' = requests \ {c}
  /\ UNCHANGED <<callVars, connVars, pahoVars, subs, replies, version, executed>>

\* The handlers of the current connection get a message; the one whose reply
\* topic it is keeps it, unless it has a reply already.  QoS 1: it may come
\* again.
DeliverReply(m) ==
  /\ m \in replies
  /\ up
  /\ recv' = [c \in Call |-> IF /\ handler[c] = connection
                                /\ ReplyTopic(c) = m.topic
                                /\ recv[c] = {}
                             THEN {m} ELSE recv[c]]
  /\ replies' \in {replies, replies \ {m}}
  /\ UNCHANGED <<pc, method, start, handler, result, connVars, pahoVars, subs, deviceVars>>

ConnectionLost ==
  /\ up
  /\ connection < MaxConnections
  /\ up' = FALSE
  /\ UNCHANGED <<callVars, connection, pahoVars, subs, replies, deviceVars>>

\* The manager connects again, within SessionExpiryInterval or after it: then
\* the broker has forgotten subscriptions and replies, and paho its requests.
Reconnect ==
  /\ ~up
  /\ up' = TRUE
  /\ connection' = connection + 1
  /\ \/ UNCHANGED <<stored, subs, replies>>
     \/ stored' = {} /\ subs' = {} /\ replies' = {}
  /\ UNCHANGED <<callVars, sentOn, deviceVars>>

CallStep(c) ==
  \/ Subscribe(c) \/ SubscribeFails(c) \/ Publish(c) \/ CallFails(c)
  \/ ReceiveReply(c) \/ Cleanup(c)

Next ==
  \/ \E c \in Call : \/ StartCall(c) \/ CallStep(c) \/ Acknowledged(c)
                     \/ BrokerTakes(c) \/ DeviceExecutes(c) \/ RequestLost(c)
  \/ \E m \in replies : DeliverReply(m)
  \/ ConnectionLost \/ Reconnect

Spec == Init /\ [][Next]_vars

\* Only the caller's own goroutine and its deadline are relied upon: the
\* broker, the device and the connection may stop for good.
FairSpec == Spec /\ \A c \in Call : WF_vars(CallStep(c))

-----------------------------------------------------------------------------
(* Properties.                                                             *)

\* A call that succeeds returns the reply to its own request, and the state in
\* it is one the device had after the call began: a late reply to an earlier,
\* timed out call on the same device is never taken for it.
AnswerIsOwnAndFresh ==
  \A c \in Call : \A m \in result[c] :
    m.to = c /\ m.version >= start[c] /\ executed[c] >= 1

\* A request reaches the device at most once per connection that was used: a
\* toggle is undone by a repetition only if the connection was lost meanwhile.
ExecutedOncePerConnection ==
  \A c \in Call : executed[c] + (IF c \in requests THEN 1 ELSE 0) <= sentOn[c]

\* Every call returns, whatever the broker, the device and the connection do,
\* and leaves no handler behind on any connection.
EveryCallReturns ==
  \A c \in Call : pc[c] = "subscribing" ~> pc[c] = "returned" /\ handler[c] = 0
=============================================================================
