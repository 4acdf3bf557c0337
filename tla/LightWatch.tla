----------------------------- MODULE LightWatch -----------------------------
(***************************************************************************)
(* How a change of a light reaches the clients of WatchLights in one       *)
(* replica of s-rpc-mqtt: the notification of the device, the lightChanged *)
(* queue, the goroutine broadcastLightChanges that reads the light's       *)
(* status and publishes it, the lightBroadcaster with one buffered channel *)
(* per subscriber, and the WatchLights handlers that forward to streams.   *)
(*                                                                         *)
(* A light's state is the number of times it has changed: a version.       *)
(***************************************************************************)
EXTENDS Naturals, Sequences

CONSTANTS
  Light,             \* the lights of mqtt_lights.go
  Watcher,           \* slots for concurrent calls of WatchLights
  Healthy,           \* watchers whose client keeps reading its stream
  None,              \* broadcastLightChanges is in its select
  Faults,            \* a subset of {"read", "outage"}
  lightChangedBuffer,\* capacity of lightChanged (32 in the code)
  subscriberBuffer,  \* capacity of a subscriber's channel (16 in the code)
  MaxChanges,        \* BOUND: changes of one light
  MaxInFlight        \* BOUND: notifications the broker holds for the replica

ASSUME WatchAssumption ==
  /\ None \notin Light
  /\ Healthy \subseteq Watcher
  /\ Faults \subseteq {"read", "outage"}
  /\ lightChangedBuffer \in Nat \ {0}
  /\ subscriberBuffer \in Nat \ {0}
  /\ MaxChanges \in Nat
  /\ MaxInFlight \in Nat

VARIABLES
  light,         \* the version of each light, at the device
  notifications, \* messages on lightEventsTopic on their way to the replica
  lightChanged,  \* the channel of changed ids
  reading,       \* the id broadcastLightChanges reads, or None
  answer,        \* the statuses read for it (none yet, or one)
  published,     \* the last version published of each light
  subscribers,   \* the broadcaster's map: watchers whose channel is in it
  updates,       \* what is buffered in each watcher's channel
  closedChans,   \* watchers whose channel is closed
  closed,        \* lightBroadcaster.closed
  ctxDone,       \* the module's context is cancelled
  call,          \* where each WatchLights call is
  known,         \* what each client knows: statuses at subscription or streamed
  missed         \* lights a change of which was given up on

deviceVars == <<light, notifications>>
readerVars == <<lightChanged, reading, answer, published, missed>>
watcherVars == <<subscribers, updates, closedChans, call, known>>
vars == <<deviceVars, readerVars, watcherVars, closed, ctxDone>>

Version == 0..MaxChanges
Status == [id : Light, version : Version]
\* A message on lightEventsTopic: "changed" stands for a notification with the
\* output or the brightness of the light's own component.
Notification == [id : Light, changed : BOOLEAN]

TypeOK ==
  /\ light \in [Light -> Version]
  /\ notifications \in Seq(Notification)
  /\ lightChanged \in Seq(Light)
  /\ Len(lightChanged) <= lightChangedBuffer
  /\ reading \in Light \cup {None}
  /\ answer \subseteq Version
  /\ published \in [Light -> Version]
  /\ subscribers \subseteq Watcher
  /\ updates \in [Watcher -> Seq(Status)]
  /\ \A w \in Watcher : Len(updates[w]) <= subscriberBuffer
  /\ closedChans \subseteq Watcher
  /\ closed \in BOOLEAN
  /\ ctxDone \in BOOLEAN
  /\ call \in [Watcher -> {"idle", "subscribed", "streaming"}]
  /\ known \in [Watcher -> [Light -> Version]]
  /\ missed \subseteq Light

Init ==
  /\ light = [l \in Light |-> 0]
  /\ notifications = <<>>
  /\ lightChanged = <<>>
  /\ reading = None
  /\ answer = {}
  /\ published = [l \in Light |-> 0]
  /\ subscribers = {}
  /\ updates = [w \in Watcher |-> <<>>]
  /\ closedChans = {}
  /\ closed = FALSE
  /\ ctxDone = FALSE
  /\ call = [w \in Watcher |-> "idle"]
  /\ known = [w \in Watcher |-> light]
  /\ missed = {}

-----------------------------------------------------------------------------
(* Lights and the broker (external).                                       *)

\* A light is switched or dimmed, by whatever means, and notifies it.
LightChanges(l) ==
  /\ light[l] < MaxChanges
  /\ Len(notifications) < MaxInFlight
  /\ light' = [light EXCEPT ![l] = @ + 1]
  /\ notifications' = Append(notifications, [id |-> l, changed |-> TRUE])
  /\ UNCHANGED <<readerVars, watcherVars, closed, ctxDone>>

\* A power reading, a full status after a reconnection, or another message:
\* the state of the light is as before.
LightReports(l) ==
  /\ Len(notifications) < MaxInFlight
  /\ \E c \in BOOLEAN :
       notifications' = Append(notifications, [id |-> l, changed |-> c])
  /\ UNCHANGED <<light, readerVars, watcherVars, closed, ctxDone>>

-----------------------------------------------------------------------------
(* The mqtt receive loop.                                                  *)

Pending(l) ==
  \/ \E i \in 1..Len(notifications) : notifications[i] = [id |-> l, changed |-> TRUE]
  \/ \E i \in 1..Len(lightChanged) : lightChanged[i] = l
  \/ reading = l /\ (answer = {} \/ light[l] \in answer)

\* changedLight: only a switched or dimmed light counts.
changedLight(n) == n.changed

\* notifyLightChanged: a full channel drops the id.
notifyLightChanged(l) ==
  IF Len(lightChanged) < lightChangedBuffer
    THEN lightChanged' = Append(lightChanged, l) /\ UNCHANGED missed
    ELSE UNCHANGED lightChanged /\ missed' = missed \cup {l}

\* OnPublishReceived, on the oldest message.  The delivery is QoS 1: it may be
\* repeated.
Receive(n) ==
  /\ IF changedLight(n) THEN notifyLightChanged(n.id)
                        ELSE UNCHANGED <<lightChanged, missed>>
  /\ UNCHANGED <<light, reading, answer, published, watcherVars, closed, ctxDone>>

Deliver ==
  /\ notifications # <<>>
  /\ notifications' = Tail(notifications)
  /\ Receive(Head(notifications))

Redeliver ==
  /\ notifications # <<>>
  /\ UNCHANGED notifications
  /\ Receive(Head(notifications))

\* The connection is down for longer than SessionExpiryInterval: the broker
\* drops what it held.
Outage ==
  /\ "outage" \in Faults
  /\ notifications # <<>>
  /\ notifications' = <<>>
  /\ missed' = missed \cup {notifications[i].id : i \in 1..Len(notifications)}
  /\ UNCHANGED <<light, lightChanged, reading, answer, published, watcherVars,
                 closed, ctxDone>>

-----------------------------------------------------------------------------
(* broadcastLightChanges.                                                  *)

\* The select takes an id.  It may still do so once the context is done: both
\* cases are then ready.
TakeChanged ==
  /\ ~closed
  /\ reading = None
  /\ lightChanged # <<>>
  /\ reading' = Head(lightChanged)
  /\ lightChanged' = Tail(lightChanged)
  /\ UNCHANGED <<deviceVars, answer, published, missed, watcherVars, closed, ctxDone>>

\* Mutant: the answer to an earlier, timed out read is taken for this one's.
LightAnswersStale ==
  /\ reading # None
  /\ answer = {}
  /\ \E v \in 0..light[reading] : answer' = {v}
  /\ missed' = missed \ {reading}
  /\ UNCHANGED <<deviceVars, lightChanged, reading, published, watcherVars,
                 closed, ctxDone>>

\* The device answers getLight with its state at that moment.  From here the
\* light is up to date again for whoever gets the answer.
LightAnswers ==
  /\ reading # None
  /\ answer = {}
  /\ answer' = {light[reading]}
  /\ missed' = missed \ {reading}
  /\ UNCHANGED <<deviceVars, lightChanged, reading, published, watcherVars,
                 closed, ctxDone>>

\* getLight fails (no answer within the deadline, a Shelly error, a cancelled
\* context): the change is logged and given up on.
ReadFails ==
  /\ "read" \in Faults \/ ctxDone
  /\ reading # None
  /\ reading' = None
  /\ answer' = {}
  /\ missed' = missed \cup {reading}
  /\ UNCHANGED <<deviceVars, lightChanged, published, watcherVars, closed, ctxDone>>

\* The subscribers publish cannot send to: their channel is full.
Behind == {w \in subscribers : Len(updates[w]) = subscriberBuffer}

\* getLight returned a status: it is sent to the subscribers that have room,
\* and broadcastLightChanges goes back to its select.
PublishSends ==
  /\ reading # None
  /\ \E v \in answer :
       /\ updates' = [w \in Watcher |->
                        IF w \in subscribers \ Behind
                          THEN Append(updates[w], [id |-> reading, version |-> v])
                          ELSE updates[w]]
       /\ published' = [published EXCEPT ![reading] = v]
  /\ reading' = None
  /\ answer' = {}
  /\ UNCHANGED <<deviceVars, lightChanged, missed, call, known, closed, ctxDone>>

\* Mutants: a channel is closed but stays in the map, and a full channel is
\* skipped instead of being ended.
PublishKeepsClosed ==
  /\ PublishSends
  /\ closedChans' = closedChans \cup Behind
  /\ UNCHANGED subscribers
PublishSkipsFull == PublishSends /\ UNCHANGED <<subscribers, closedChans>>

\* publish: a non-blocking send to every subscriber; one that is behind is
\* removed and its channel closed.
Publish ==
  /\ PublishSends
  /\ subscribers' = subscribers \ Behind
  /\ closedChans' = closedChans \cup Behind

\* The select sees the cancelled context; the deferred close ends everyone.
CloseBroadcaster ==
  /\ ctxDone
  /\ ~closed
  /\ reading = None
  /\ closed' = TRUE
  /\ subscribers' = {}
  /\ closedChans' = closedChans \cup subscribers
  /\ UNCHANGED <<deviceVars, readerVars, updates, call, known, ctxDone>>

Shutdown ==
  /\ ~ctxDone
  /\ ctxDone' = TRUE
  /\ UNCHANGED <<deviceVars, readerVars, watcherVars, closed>>

-----------------------------------------------------------------------------
(* WatchLights.                                                            *)

\* Mutant: a closed broadcaster still takes subscribers.
SubscribeToClosed(w) ==
  /\ call[w] = "idle"
  /\ call' = [call EXCEPT ![w] = "subscribed"]
  /\ subscribers' = subscribers \cup {w}
  /\ known' = [known EXCEPT ![w] = light]
  /\ UNCHANGED <<deviceVars, readerVars, updates, closedChans, closed, ctxDone>>

\* subscribe: a new channel, in the map unless the broadcaster is closed, in
\* which case the channel is closed.  From now on the client must not miss a
\* change: whatever it reads later is at least as new as the lights are now.
Subscribe(w) ==
  /\ call[w] = "idle"
  /\ call' = [call EXCEPT ![w] = "subscribed"]
  /\ subscribers' = IF closed THEN subscribers ELSE subscribers \cup {w}
  /\ closedChans' = IF closed THEN closedChans \cup {w} ELSE closedChans
  /\ known' = [known EXCEPT ![w] = light]
  /\ UNCHANGED <<deviceVars, readerVars, updates, closed, ctxDone>>

\* The handler returns; the deferred unsubscribe removes the channel from the
\* map without closing it, and the slot is free for another call, of a client
\* that knows nothing.
HandlerReturns(w) ==
  /\ call' = [call EXCEPT ![w] = "idle"]
  /\ subscribers' = subscribers \ {w}
  /\ closedChans' = closedChans \ {w}
  /\ updates' = [updates EXCEPT ![w] = <<>>]
  /\ known' = [known EXCEPT ![w] = [l \in Light |-> 0]]
  /\ UNCHANGED <<deviceVars, readerVars, closed, ctxDone>>

SendHeader(w) ==
  /\ call[w] = "subscribed"
  /\ call' = [call EXCEPT ![w] = "streaming"]
  /\ UNCHANGED <<deviceVars, readerVars, subscribers, updates, closedChans, known,
                 closed, ctxDone>>

\* A buffered status is sent to the client.
Send(w) ==
  /\ call[w] = "streaming"
  /\ updates[w] # <<>>
  /\ LET status == Head(updates[w])
     IN  known' = [known EXCEPT ![w][status.id] = status.version]
  /\ updates' = [updates EXCEPT ![w] = Tail(@)]
  /\ UNCHANGED <<deviceVars, readerVars, subscribers, closedChans, call, closed,
                 ctxDone>>

\* The channel is drained and closed: the call ends with watch_ended.
WatchEnded(w) ==
  /\ call[w] = "streaming"
  /\ updates[w] = <<>>
  /\ w \in closedChans
  /\ HandlerReturns(w)

\* The client is gone: SendHeader or Send fails, or the context is done.
ClientLeaves(w) ==
  /\ call[w] \in {"subscribed", "streaming"}
  /\ HandlerReturns(w)

BroadcastStep == TakeChanged \/ LightAnswers \/ Publish \/ CloseBroadcaster

HandlerStep(w) == SendHeader(w) \/ Send(w) \/ WatchEnded(w)

Next ==
  \/ \E l \in Light : LightChanges(l) \/ LightReports(l)
  \/ Deliver \/ Redeliver \/ Outage
  \/ BroadcastStep \/ ReadFails \/ Shutdown
  \/ \E w \in Watcher : Subscribe(w) \/ HandlerStep(w) \/ ClientLeaves(w)

Spec == Init /\ [][Next]_vars

\* The broker delivers, devices answer, goroutines run; a healthy client takes
\* what is sent to it.  select chooses at random among the cases that are ready,
\* so a cancelled context is noticed however many ids are waiting (SF).  Nothing
\* makes the other clients read, and nobody has to leave, subscribe or shut down.
Fairness ==
  /\ WF_vars(Deliver)
  /\ WF_vars(BroadcastStep)
  /\ SF_vars(CloseBroadcaster)
  /\ \A w \in Healthy : WF_vars(HandlerStep(w))

FairSpec == Spec /\ Fairness

-----------------------------------------------------------------------------
(* Properties.                                                             *)

\* Channels in the broadcaster's map are open: neither publish nor close can
\* send on, or close, a closed channel, which would panic the whole process.
SubscribersOpen ==
  /\ subscribers \cap closedChans = {}
  /\ closed => subscribers = {}

\* The newest version of l that w has been sent or will be sent from its buffer.
Latest(w, l) ==
  LET mine == {i \in 1..Len(updates[w]) : updates[w][i].id = l}
  IN  IF mine = {} THEN known[w][l]
      ELSE updates[w][CHOOSE i \in mine : \A j \in mine : j <= i].version

UpToDate(w, l) == Latest(w, l) = light[l] \/ Pending(l)

\* A subscriber either has the state of a light in its channel or will get it,
\* unless a change of that light was given up on: it was dropped by a full
\* lightChanged, lost by the broker, or could not be read.
MissesAccountedFor ==
  \A w \in subscribers, l \in Light : UpToDate(w, l) \/ l \in missed

\* What def.proto promises of WatchLights, and the comments of its handler and
\* of lightEvents rely on: a subscriber never misses a change.
NeverMissesAChange == \A w \in subscribers, l \in Light : UpToDate(w, l)

\* Statuses of one light are published in the order in which the light had
\* them: a slow read never overtakes, or is overtaken by, another.
PublishedInOrder == [][\A l \in Light : published'[l] >= published[l]]_vars

\* After a shutdown every healthy client's call ends, also one that subscribes
\* while the broadcaster is closing or after it has closed.
ShutdownEndsWatches ==
  \A w \in Healthy : ctxDone /\ call[w] = "streaming" ~> call[w] = "idle"
=============================================================================
