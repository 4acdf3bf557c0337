-------------------------- MODULE LightWatchProofs --------------------------
(***************************************************************************)
(* Proofs about LightWatch and, on top of it, HomeEvents, for any number   *)
(* of lights, watchers and pages and any capacity of the channels.         *)
(***************************************************************************)
EXTENDS HomeEvents, TLAPS, WellFoundedInduction

-----------------------------------------------------------------------------
(* Sequences.                                                              *)

\* Numbers have a least one: the induction that the proofs about channels need.
LEMMA Least ==
  ASSUME NEW T \in SUBSET Nat, T # {}
  PROVE  \E x \in T : \A y \in T : x <= y
  <1> DEFINE R == {ss \in Nat \X Nat : ss[1] < ss[2]}
  <1>1. IsWellFoundedOn(R, Nat)
    BY NatLessThanWellFounded DEF OpToRel
  <1>2. \A x, y \in Nat : y < x => <<y, x>> \in R
    OBVIOUS
  <1> HIDE DEF R
  <1>3. PICK x \in T : \A y \in T : ~ (<<y, x>> \in R)
    BY <1>1, WFMin
  <1>4. \A y \in T : ~ (y < x)
    BY <1>2, <1>3
  <1> QED
    BY <1>4

\* Numbers up to n have a greatest one.
LEMMA Greatest ==
  ASSUME NEW n \in Nat, NEW T \in SUBSET (0..n), T # {}
  PROVE  \E x \in T : \A y \in T : y <= x
  <1> DEFINE U == {n - i : i \in T}
  <1>1. U \in SUBSET Nat /\ U # {}
    <2>1. PICK i \in T : TRUE
      OBVIOUS
    <2>2. n - i \in U
      OBVIOUS
    <2>3. \A j \in T : n - j \in Nat
      OBVIOUS
    <2> QED
      BY <2>2, <2>3
  <1>2. PICK x \in U : \A y \in U : x <= y
    BY <1>1, Least
  <1>3. PICK i \in T : x = n - i
    BY <1>2
  <1>4. \A y \in T : n - i <= n - y
    BY <1>2, <1>3
  <1> QED
    BY <1>4

\* Whether x is queued in a channel.
IsIn(x, s) == \E i \in 1..Len(s) : s[i] = x

\* A send adds its element to what is queued.
LEMMA IsInAppend ==
  ASSUME NEW S, NEW s \in Seq(S), NEW e \in S, NEW x
  PROVE  IsIn(x, Append(s, e)) <=> IsIn(x, s) \/ x = e
  <1>1. Len(Append(s, e)) = Len(s) + 1 /\ Append(s, e)[Len(s) + 1] = e
    OBVIOUS
  <1>2. \A i \in 1..Len(s) : Append(s, e)[i] = s[i]
    OBVIOUS
  <1> QED
    BY <1>1, <1>2 DEF IsIn

\* A receive removes the head from what is queued.
LEMMA IsInTail ==
  ASSUME NEW S, NEW s \in Seq(S), s # <<>>, NEW x
  PROVE  IsIn(x, s) <=> x = Head(s) \/ IsIn(x, Tail(s))
  <1>1. Len(Tail(s)) = Len(s) - 1 /\ Len(s) \in Nat \ {0} /\ Head(s) = s[1]
    OBVIOUS
  <1>2. \A i \in 1..Len(Tail(s)) : Tail(s)[i] = s[i + 1]
    OBVIOUS
  <1>3. \A i \in 2..Len(s) : i - 1 \in 1..Len(Tail(s)) /\ Tail(s)[i - 1] = s[i]
    BY <1>1, <1>2
  <1> QED
    BY <1>1, <1>2, <1>3 DEF IsIn

\* A channel with a status of l has a last one.
LEMMA LastExists ==
  ASSUME NEW S, NEW s \in Seq(S), NEW l, LastOf(s, l) = {}
  PROVE  \A i \in 1..Len(s) : s[i].id # l
  <1> DEFINE T == {i \in 1..Len(s) : s[i].id = l}
  <1> SUFFICES ASSUME T # {} PROVE FALSE
    OBVIOUS
  <1>1. Len(s) \in Nat /\ T \in SUBSET (0..Len(s))
    OBVIOUS
  <1> HIDE DEF T
  <1>2. PICK x \in T : \A y \in T : y <= x
    BY <1>1, Greatest
  <1>3. x \in 1..Len(s) /\ s[x].id = l
    BY <1>2 DEF T
  <1>4. \A k \in (x + 1)..Len(s) : s[k].id # l
    BY <1>1, <1>2, <1>3 DEF T
  <1>5. s[x].version \in LastOf(s, l)
    BY <1>3, <1>4 DEF LastOf
  <1> QED
    BY <1>5

\* What is sent last is the last.
LEMMA LastAppend ==
  ASSUME NEW s \in Seq(Status), NEW e \in Status, NEW l
  PROVE  /\ e.id = l => LastOf(Append(s, e), l) = {e.version}
         /\ e.id # l => LastOf(Append(s, e), l) = LastOf(s, l)
  <1> DEFINE t == Append(s, e)
             n == Len(s)
  <1>1. n \in Nat /\ Len(t) = n + 1 /\ t[n + 1] = e
    OBVIOUS
  <1>2. \A i \in 1..n : t[i] = s[i]
    OBVIOUS
  <1> HIDE DEF t
  <1>3. CASE e.id = l
    <2>1. {j \in 1..Len(t) : t[j].id = l /\ \A k \in (j + 1)..Len(t) : t[k].id # l} = {n + 1}
      BY <1>1, <1>3
    <2> QED
      BY <2>1, <1>1, <1>3 DEF LastOf, t
  <1>4. CASE e.id # l
    <2>1. ASSUME NEW j \in 1..(n + 1)
          PROVE  (t[j].id = l /\ \A k \in (j + 1)..(n + 1) : t[k].id # l)
                 <=> (j \in 1..n /\ s[j].id = l /\ \A k \in (j + 1)..n : s[k].id # l)
      BY <1>1, <1>2, <1>4
    <2>2. {j \in 1..Len(t) : t[j].id = l /\ \A k \in (j + 1)..Len(t) : t[k].id # l}
            = {j \in 1..n : s[j].id = l /\ \A k \in (j + 1)..n : s[k].id # l}
      BY <2>1, <1>1
    <2> DEFINE D == {j \in 1..n : s[j].id = l /\ \A k \in (j + 1)..n : s[k].id # l}
    <2>3. LastOf(t, l) = LastOf(s, l)
      <3>1. LastOf(t, l) = {t[i].version : i \in D} /\ LastOf(s, l) = {s[i].version : i \in D}
        BY <2>2 DEF LastOf
      <3>2. \A i \in D : t[i] = s[i]
        BY <1>2
      <3> HIDE DEF D, n
      <3> QED
        BY <3>1, <3>2
    <2> QED
      BY <2>3, <1>4 DEF t
  <1> QED
    BY <1>3, <1>4

\* The first element is the last one of its light if no other follows.
LEMMA LastTail ==
  ASSUME NEW S, NEW s \in Seq(S), s # <<>>, NEW l
  PROVE  LastOf(s, l) = IF LastOf(Tail(s), l) # {} THEN LastOf(Tail(s), l)
                        ELSE IF Head(s).id = l THEN {Head(s).version} ELSE {}
  <1> DEFINE t == Tail(s)
             n == Len(s)
             LastAt(j) == s[j].id = l /\ \A k \in (j + 1)..n : s[k].id # l
             TLastAt(j) == t[j].id = l /\ \A k \in (j + 1)..(n - 1) : t[k].id # l
  <1>1. n \in Nat \ {0} /\ Len(t) = n - 1 /\ Head(s) = s[1] /\ t \in Seq(S)
    OBVIOUS
  <1>2. \A i \in 1..(n - 1) : t[i] = s[i + 1]
    OBVIOUS
  <1>3. \A i \in 2..n : i - 1 \in 1..(n - 1) /\ t[i - 1] = s[i]
    BY <1>1, <1>2
  <1> HIDE DEF t
  <1>4. \A j \in 1..(n - 1) : TLastAt(j) <=> LastAt(j + 1)
    <2> TAKE j \in 1..(n - 1)
    <2>1. t[j].id = s[j + 1].id
      BY <1>2
    <2>2. ASSUME \A k \in (j + 1)..(n - 1) : t[k].id # l, NEW k \in (j + 2)..n
          PROVE  s[k].id # l
      <3>1. k - 1 \in (j + 1)..(n - 1) /\ t[k - 1] = s[k]
        BY <1>1, <1>3
      <3> QED
        BY <3>1, <2>2
    <2>3. ASSUME \A k \in (j + 2)..n : s[k].id # l, NEW k \in (j + 1)..(n - 1)
          PROVE  t[k].id # l
      <3>1. k + 1 \in (j + 2)..n /\ t[k] = s[k + 1]
        BY <1>1, <1>2
      <3> QED
        BY <3>1, <2>3
    <2>4. j + 1 + 1 = j + 2
      OBVIOUS
    <2> QED
      BY <2>1, <2>2, <2>3, <2>4
  <1>5. LastOf(s, l) = {s[j].version : j \in {j \in 1..n : LastAt(j)}}
    BY DEF LastOf
  <1>6. LastOf(t, l) = {t[j].version : j \in {j \in 1..(n - 1) : TLastAt(j)}}
    BY <1>1 DEF LastOf
  <1>7. CASE LastOf(t, l) # {}
    <2>1. PICK j0 \in 1..(n - 1) : TLastAt(j0)
      BY <1>6, <1>7
    <2>2. ~ LastAt(1)
      <3>1. s[j0 + 1].id = l /\ j0 + 1 \in 2..n
        BY <2>1, <1>1, <1>2
      <3> QED
        BY <3>1
    <2>3. ASSUME NEW v \in LastOf(s, l) PROVE v \in LastOf(t, l)
      <3>1. PICK j \in 1..n : LastAt(j) /\ v = s[j].version
        BY <1>5
      <3>2. j \in 2..n
        BY <3>1, <2>2, <1>1
      <3>3. j - 1 \in 1..(n - 1) /\ t[j - 1] = s[j] /\ (j - 1) + 1 = j
        BY <3>2, <1>1, <1>3
      <3>4. TLastAt(j - 1)
        BY <3>1, <3>3, <1>4
      <3> QED
        BY <3>1, <3>3, <3>4, <1>6
    <2>4. ASSUME NEW v \in LastOf(t, l) PROVE v \in LastOf(s, l)
      <3>1. PICK j \in 1..(n - 1) : TLastAt(j) /\ v = t[j].version
        BY <1>6
      <3>2. j + 1 \in 1..n /\ t[j] = s[j + 1]
        BY <1>1, <1>2
      <3>3. LastAt(j + 1)
        BY <3>1, <1>4
      <3> QED
        BY <3>1, <3>2, <3>3, <1>5
    <2> QED
      BY <2>3, <2>4, <1>7 DEF t
  <1>8. CASE LastOf(t, l) = {}
    <2>1. \A i \in 1..(n - 1) : t[i].id # l
      BY <1>1, <1>8, LastExists
    <2>2. \A i \in 2..n : s[i].id # l
      BY <2>1, <1>3
    <2>3. {j \in 1..n : LastAt(j)} = IF s[1].id = l THEN {1} ELSE {}
      BY <2>2, <1>1
    <2>4. LastOf(s, l) = IF s[1].id = l THEN {s[1].version} ELSE {}
      BY <2>3, <1>5
    <2> QED
      BY <2>4, <1>1, <1>8 DEF t
  <1> QED
    BY <1>7, <1>8

\* An empty channel has no last status.
LEMMA LastEmpty == \A l : LastOf(<<>>, l) = {}
  BY DEF LastOf

-----------------------------------------------------------------------------
(* LightWatch.                                                             *)

\* A change of l that broadcastLightChanges has yet to take.
Queued(l) == IsIn([id |-> l, changed |-> TRUE], notifications) \/ IsIn(l, lightChanged)

\* getLight's answer is the light's state, or a newer one is announced.
AnswerIsFollowed ==
  \A l \in Light : \A v \in answer :
    reading = l => v = light[l] \/ Queued(l) \/ l \in missed

\* Nothing is read between two reads, and a read has one answer.
OneAnswer ==
  /\ reading = None => answer = {}
  /\ \A u, v \in answer : u = v

\* A slot without a call has no channel.
IdleHasNoChannel ==
  \A w \in Watcher : call[w] = "idle" =>
    w \notin subscribers /\ w \notin closedChans /\ updates[w] = <<>>

\* Versions pass from the device to the answer to what is published.
VersionsInOrder ==
  /\ \A l \in Light : published[l] <= light[l]
  /\ \A v \in answer : reading \in Light => published[reading] <= v /\ v <= light[reading]

\* The state of l that w has or will have once its buffer is drained.
Newest(w, l) == IF LastOf(updates[w], l) = {} THEN {known[w][l]} ELSE LastOf(updates[w], l)

Excused(l) == Pending(l) \/ l \in missed

SubscribersGetAll ==
  \A w \in subscribers, l \in Light : Newest(w, l) = {light[l]} \/ Excused(l)

IInv ==
  /\ TypeOK
  /\ OneAnswer
  /\ AnswerIsFollowed
  /\ IdleHasNoChannel
  /\ VersionsInOrder
  /\ SubscribersOpen
  /\ SubscribersGetAll

\* WatchLights touches only the broadcaster's map, channels and calls.
WatcherStep ==
  \E w \in Watcher : Subscribe(w) \/ HandlerStep(w) \/ ClientLeaves(w)

\* What WatchLights does leaves the lights, the queue and the reader alone.
LEMMA WatcherStepKeeps ==
  WatcherStep => UNCHANGED <<deviceVars, readerVars, closed, ctxDone>>
  BY DEF WatcherStep, Subscribe, HandlerStep, SendHeader, Send, WatchEnded, ClientLeaves,
         HandlerReturns

\* The steps of the service, with those of WatchLights taken together.
LEMMA Steps ==
  ASSUME Next
  PROVE  \/ \E l \in Light : LightChanges(l) \/ LightReports(l)
         \/ Deliver \/ Redeliver \/ Outage
         \/ TakeChanged \/ LightAnswers \/ Publish \/ CloseBroadcaster
         \/ ReadFails \/ Shutdown
         \/ WatcherStep
  BY DEF Next, BroadcastStep, WatcherStep

\* What a send, a receive and a new channel do to the type and the length.
LEMMA Channels ==
  ASSUME NEW S, NEW s \in Seq(S)
  PROVE  /\ Len(s) \in Nat
         /\ \A e \in S : Append(s, e) \in Seq(S) /\ Len(Append(s, e)) = Len(s) + 1
         /\ s # <<>> => /\ Head(s) \in S
                        /\ Tail(s) \in Seq(S)
                        /\ Len(Tail(s)) = Len(s) - 1
         /\ <<>> \in Seq(S) /\ Len(<<>>) = 0
         /\ \A i \in 1..Len(s) : s[i] \in S
  OBVIOUS

\* Notifications and statuses have their fields.
LEMMA Messages ==
  /\ \A l \in Light, c \in BOOLEAN : [id |-> l, changed |-> c] \in Notification
  /\ \A n \in Notification : n.id \in Light
  /\ \A l \in Light, v \in Version : [id |-> l, version |-> v] \in Status
  /\ \A st \in Status : st.id \in Light /\ st.version \in Version
  BY DEF Notification, Status

\* Every step keeps the types, and no channel gets longer than its capacity.
LEMMA TypeStep ==
  ASSUME TypeOK, Next
  PROVE  TypeOK'
  <1> USE WatchAssumption DEF TypeOK
  <1>a. /\ \A l \in Light, c \in BOOLEAN :
             Append(notifications, [id |-> l, changed |-> c]) \in Seq(Notification)
        /\ notifications # <<>> => /\ Head(notifications).id \in Light
                                   /\ Tail(notifications) \in Seq(Notification)
        /\ \A i \in 1..Len(notifications) : notifications[i].id \in Light
        /\ <<>> \in Seq(Notification)
    BY Messages, Channels
  <1>b. /\ \A l \in Light : /\ Append(lightChanged, l) \in Seq(Light)
                             /\ Len(Append(lightChanged, l)) = Len(lightChanged) + 1
        /\ lightChanged # <<>> => /\ Head(lightChanged) \in Light
                                  /\ Tail(lightChanged) \in Seq(Light)
                                  /\ Len(Tail(lightChanged)) = Len(lightChanged) - 1
        /\ Len(lightChanged) \in Nat
    BY Channels
  <1>c. ASSUME NEW w \in Watcher
        PROVE  /\ Len(updates[w]) \in Nat
               /\ \A st \in Status :
                    /\ Append(updates[w], st) \in Seq(Status)
                    /\ Len(Append(updates[w], st)) = Len(updates[w]) + 1
               /\ updates[w] # <<>> =>
                    /\ Head(updates[w]) \in Status
                    /\ Head(updates[w]).id \in Light /\ Head(updates[w]).version \in Version
                    /\ Tail(updates[w]) \in Seq(Status)
                    /\ Len(Tail(updates[w])) = Len(updates[w]) - 1
               /\ <<>> \in Seq(Status) /\ Len(<<>>) = 0
    BY Messages, Channels
  <1>1. ASSUME NEW l \in Light, LightChanges(l) PROVE TypeOK'
    <2>1. light' \in [Light -> Version]
      BY <1>1 DEF LightChanges, Version
    <2>2. notifications' \in Seq(Notification)
      BY <1>1, <1>a DEF LightChanges
    <2> QED
      BY <1>1, <2>1, <2>2 DEF LightChanges, readerVars, watcherVars
  <1>2. ASSUME NEW l \in Light, LightReports(l) PROVE TypeOK'
    BY <1>2, <1>a DEF LightReports, readerVars, watcherVars
  <1>3. ASSUME notifications # <<>>, Receive(Head(notifications)),
               notifications' \in Seq(Notification)
        PROVE  TypeOK'
    <2>1. /\ lightChanged' \in Seq(Light)
          /\ Len(lightChanged') <= lightChangedBuffer
          /\ missed' \subseteq Light
      <3>1. CASE changedLight(Head(notifications))
        <4>1. notifyLightChanged(Head(notifications).id)
          BY <1>3, <3>1 DEF Receive
        <4>2. Head(notifications).id \in Light
          BY <1>3, <1>a
        <4>3. CASE Len(lightChanged) < lightChangedBuffer
          <5>1. /\ lightChanged' = Append(lightChanged, Head(notifications).id)
                /\ missed' = missed
            BY <4>1, <4>3 DEF notifyLightChanged
          <5>2. /\ lightChanged' \in Seq(Light)
                /\ Len(lightChanged') = Len(lightChanged) + 1
            BY <5>1, <4>2, <1>b
          <5> QED
            BY <5>1, <5>2, <4>3, <1>b
        <4>4. CASE ~ (Len(lightChanged) < lightChangedBuffer)
          BY <4>1, <4>2, <4>4 DEF notifyLightChanged
        <4> QED
          BY <4>3, <4>4
      <3>2. CASE ~ changedLight(Head(notifications))
        BY <1>3, <3>2 DEF Receive
      <3> QED
        BY <3>1, <3>2
    <2> QED
      BY <1>3, <2>1 DEF Receive, watcherVars
  <1>4. CASE Deliver
    BY <1>3, <1>4, <1>a DEF Deliver
  <1>5. CASE Redeliver
    BY <1>3, <1>5 DEF Redeliver
  <1>6. CASE Outage
    <2>1. {notifications[i].id : i \in 1..Len(notifications)} \subseteq Light
      BY <1>a
    <2> QED
      BY <1>6, <2>1, <1>a DEF Outage, watcherVars
  <1>7. CASE TakeChanged
    BY <1>7, <1>b DEF TakeChanged, deviceVars, watcherVars
  <1>8. CASE LightAnswers
    BY <1>8 DEF LightAnswers, deviceVars, watcherVars
  <1>9. CASE ReadFails
    BY <1>9 DEF ReadFails, deviceVars, watcherVars
  <1>10. CASE Publish
    <2> USE <1>10 DEF Publish, PublishSends, Behind, deviceVars
    <2>1. PICK v \in answer :
            /\ updates' = [w \in Watcher |->
                 IF w \in subscribers \ Behind
                   THEN Append(updates[w], [id |-> reading, version |-> v])
                   ELSE updates[w]]
            /\ published' = [published EXCEPT ![reading] = v]
      OBVIOUS
    <2>2. ASSUME NEW w \in Watcher
          PROVE  updates'[w] \in Seq(Status) /\ Len(updates'[w]) <= subscriberBuffer
      <3>1. CASE w \in subscribers \ Behind
        <4>1. updates'[w] = Append(updates[w], [id |-> reading, version |-> v])
          BY <2>1, <3>1
        <4>2. Len(updates[w]) < subscriberBuffer
          BY <3>1, <1>c
        <4> QED
          BY <4>1, <4>2, <1>c, Messages
      <3>2. CASE w \notin subscribers \ Behind
        BY <2>1, <3>2
      <3> QED
        BY <3>1, <3>2
    <2>3. updates' \in [Watcher -> Seq(Status)]
      BY <2>1, <2>2
    <2>4. published' \in [Light -> Version]
      BY <2>1
    <2> QED
      BY <2>2, <2>3, <2>4
  <1>11. CASE CloseBroadcaster
    BY <1>11 DEF CloseBroadcaster, deviceVars, readerVars
  <1>12. CASE Shutdown
    BY <1>12 DEF Shutdown, deviceVars, readerVars, watcherVars
  <1>13. CASE WatcherStep
    <2> USE DEF deviceVars, readerVars
    <2>1. ASSUME NEW w \in Watcher, Subscribe(w) PROVE TypeOK'
      BY <2>1, <1>c DEF Subscribe
    <2>2. ASSUME NEW w \in Watcher, SendHeader(w) PROVE TypeOK'
      BY <2>2 DEF SendHeader
    <2>3. ASSUME NEW w \in Watcher, Send(w) PROVE TypeOK'
      BY <2>3, <1>c DEF Send
    <2>4. ASSUME NEW w \in Watcher, HandlerReturns(w) PROVE TypeOK'
      BY <2>4, <1>c DEF HandlerReturns, Version
    <2> QED
      BY <1>13, <2>1, <2>2, <2>3, <2>4 DEF WatcherStep, HandlerStep, WatchEnded, ClientLeaves
  <1> QED
    BY Steps, <1>1, <1>2, <1>4, <1>5, <1>6, <1>7, <1>8, <1>9, <1>10, <1>11, <1>12, <1>13

\* A light that changes is announced, and an announced change stays announced,
\* or counts as missed, until broadcastLightChanges begins to read the light or
\* has its state.
LEMMA QueueStep ==
  ASSUME TypeOK, OneAnswer, Next, NEW l \in Light
  PROVE  /\ light'[l] # light[l] => Queued(l)'
         /\ Queued(l) \/ l \in missed =>
              \/ Queued(l)' \/ l \in missed'
              \/ reading' = l /\ reading = None /\ answer' = {}
              \/ reading' = l /\ answer = {} /\ light'[l] \in answer'
  <1> DEFINE n == [id |-> l, changed |-> TRUE]
             Goal == /\ light'[l] # light[l] => Queued(l)'
                     /\ Queued(l) \/ l \in missed =>
                          \/ Queued(l)' \/ l \in missed'
                          \/ reading' = l /\ reading = None /\ answer' = {}
                          \/ reading' = l /\ answer = {} /\ light'[l] \in answer'
  <1>a. notifications \in Seq(Notification) /\ lightChanged \in Seq(Light)
    BY DEF TypeOK
  <1>b. ASSUME UNCHANGED <<light, notifications, lightChanged, missed>> PROVE Goal
    BY <1>b DEF Queued
  <1>1. ASSUME NEW m \in Light, NEW c \in BOOLEAN,
               notifications' = Append(notifications, [id |-> m, changed |-> c]),
               light' = light \/ (light' = [light EXCEPT ![m] = @ + 1] /\ c = TRUE),
               UNCHANGED <<lightChanged, missed>>
        PROVE  Goal
    <2>1. IsIn(n, notifications') <=> IsIn(n, notifications) \/ n = [id |-> m, changed |-> c]
      BY <1>1, <1>a, Messages, IsInAppend
    <2>2. m # l => light'[l] = light[l]
      BY <1>1 DEF TypeOK
    <2> QED
      BY <1>1, <2>1, <2>2 DEF Queued
  <1>2. ASSUME notifications # <<>>, Receive(Head(notifications)),
               notifications' = notifications \/ notifications' = Tail(notifications)
        PROVE  Goal
    <2>1. IsIn(n, notifications) => n = Head(notifications) \/ IsIn(n, notifications')
      <3>1. IsIn(n, notifications) <=> n = Head(notifications) \/ IsIn(n, Tail(notifications))
        BY <1>2, <1>a, IsInTail
      <3> QED
        BY <1>2, <3>1
    <2>2. Head(notifications).id \in Light
      BY <1>2, <1>a, Messages, Channels
    <2>3. CASE changedLight(Head(notifications))
      <3>1. notifyLightChanged(Head(notifications).id) /\ light' = light
        BY <1>2, <2>3 DEF Receive
      <3>2. CASE Len(lightChanged) < lightChangedBuffer
        <4>1. lightChanged' = Append(lightChanged, Head(notifications).id) /\ missed' = missed
          BY <3>1, <3>2 DEF notifyLightChanged
        <4>2. IsIn(l, lightChanged') <=> IsIn(l, lightChanged) \/ l = Head(notifications).id
          BY <4>1, <2>2, <1>a, IsInAppend
        <4> QED
          BY <2>1, <3>1, <4>1, <4>2 DEF Queued
      <3>3. CASE ~ (Len(lightChanged) < lightChangedBuffer)
        <4>1. lightChanged' = lightChanged /\ missed' = missed \cup {Head(notifications).id}
          BY <3>1, <3>3 DEF notifyLightChanged
        <4> QED
          BY <2>1, <3>1, <4>1 DEF Queued
      <3> QED
        BY <3>2, <3>3
    <2>4. CASE ~ changedLight(Head(notifications))
      <3>1. UNCHANGED <<light, lightChanged, missed>>
        BY <1>2, <2>4 DEF Receive
      <3>2. n # Head(notifications)
        BY <2>4 DEF changedLight
      <3> QED
        BY <2>1, <3>1, <3>2 DEF Queued
    <2> QED
      BY <2>3, <2>4
  <1>3. CASE Outage
    <2>1. IsIn(n, notifications) => l \in {notifications[i].id : i \in 1..Len(notifications)}
      BY DEF IsIn
    <2> QED
      BY <1>3, <2>1 DEF Outage, Queued
  <1>4. CASE TakeChanged
    <2>1. IsIn(l, lightChanged) => l = Head(lightChanged) \/ IsIn(l, lightChanged')
      BY <1>4, <1>a, IsInTail DEF TakeChanged
    <2> QED
      BY <1>4, <2>1 DEF TakeChanged, Queued, OneAnswer, deviceVars
  <1>5. CASE LightAnswers
    BY <1>5 DEF LightAnswers, Queued, deviceVars
  <1>6. CASE ReadFails
    BY <1>6 DEF ReadFails, Queued, deviceVars
  <1>7. CASE Publish \/ CloseBroadcaster \/ Shutdown
    BY <1>7, <1>b DEF Publish, PublishSends, CloseBroadcaster, Shutdown, deviceVars, readerVars
  <1>8. CASE WatcherStep
    BY <1>8, <1>b, WatcherStepKeeps DEF deviceVars, readerVars
  <1>9. ASSUME NEW m \in Light, LightChanges(m) \/ LightReports(m) PROVE Goal
    <2>1. CASE LightChanges(m)
      BY <2>1, <1>1 DEF LightChanges, readerVars
    <2>2. CASE LightReports(m)
      BY <2>2, <1>1 DEF LightReports, readerVars
    <2> QED
      BY <1>9, <2>1, <2>2
  <1>10. CASE Deliver \/ Redeliver
    BY <1>10, <1>2 DEF Deliver, Redeliver
  <1> QED
    BY Steps, <1>3, <1>4, <1>5, <1>6, <1>7, <1>8, <1>9, <1>10

\* A change is pending if it is queued, or being read before the light moved on.
LEMMA PendingIs ==
  \A l : Pending(l) <=> Queued(l) \/ (reading = l /\ (answer = {} \/ light[l] \in answer))
  BY DEF Pending, Queued, IsIn

\* Whoever waits for a change of l may go on waiting for it, but for the step
\* that publishes the light's state.
LEMMA ExcusedStep ==
  ASSUME TypeOK, OneAnswer, Next, NEW l \in Light
  PROVE  /\ light'[l] # light[l] => Excused(l)'
         /\ Excused(l) => \/ Excused(l)'
                          \/ Publish /\ reading = l /\ light[l] \in answer
  <1>a. Pending(l)' <=> Queued(l)' \/ (reading' = l /\ (answer' = {} \/ light'[l] \in answer'))
    BY DEF Pending, Queued, IsIn
  <1>b. light'[l] # light[l] => Excused(l)'
    BY QueueStep, <1>a DEF Excused
  <1>c. Queued(l) \/ l \in missed => Excused(l)'
    BY QueueStep, <1>a DEF Excused
  <1> DEFINE Read == reading = l /\ (answer = {} \/ light[l] \in answer)
  <1>d. ASSUME Read
        PROVE  Excused(l)' \/ (Publish /\ reading = l /\ light[l] \in answer)
    <2>1. ASSUME UNCHANGED <<reading, answer>> PROVE Excused(l)'
      BY <1>a, <1>b, <1>d, <2>1 DEF Excused
    <2>2. CASE LightAnswers
      BY <1>a, <1>d, <2>2 DEF LightAnswers, Excused, deviceVars
    <2>3. CASE ReadFails
      BY <1>d, <2>3 DEF ReadFails, Excused
    <2>4. CASE Publish
      BY <1>d, <2>4 DEF Publish, PublishSends
    <2>5. ~ TakeChanged
      BY <1>d, WatchAssumption DEF TakeChanged
    <2>6. CASE Outage \/ Deliver \/ Redeliver \/ CloseBroadcaster \/ Shutdown
      BY <2>1, <2>6 DEF Outage, Deliver, Redeliver, Receive, CloseBroadcaster, Shutdown,
                        readerVars
    <2>7. ASSUME NEW m \in Light, LightChanges(m) \/ LightReports(m) PROVE Excused(l)'
      BY <2>1, <2>7 DEF LightChanges, LightReports, readerVars
    <2>8. CASE WatcherStep
      BY <2>1, <2>8, WatcherStepKeeps DEF readerVars
    <2> QED
      BY Steps, <2>2, <2>3, <2>4, <2>5, <2>6, <2>7, <2>8
  <1> QED
    BY <1>b, <1>c, <1>d, PendingIs DEF Excused

\* What broadcastLightChanges reads and publishes.
LEMMA ReaderStep ==
  ASSUME TypeOK, OneAnswer, AnswerIsFollowed, VersionsInOrder, Next
  PROVE  OneAnswer' /\ AnswerIsFollowed' /\ VersionsInOrder'
  <1> USE WatchAssumption
  <1>a. ASSUME UNCHANGED <<reading, answer>> PROVE AnswerIsFollowed'
    <2> SUFFICES ASSUME NEW l \in Light, NEW v \in answer, reading = l
                 PROVE  v = light'[l] \/ Queued(l)' \/ l \in missed'
      BY <1>a DEF AnswerIsFollowed
    <2>1. v = light[l] \/ Queued(l) \/ l \in missed
      BY DEF AnswerIsFollowed
    <2>2. answer # {} /\ reading # None
      OBVIOUS
    <2> QED
      BY <2>1, <2>2, QueueStep
  <1>b. ASSUME UNCHANGED <<reading, answer, published>>,
               \A l \in Light : light'[l] \in Nat /\ light'[l] >= light[l]
        PROVE  OneAnswer' /\ VersionsInOrder'
    <2>1. OneAnswer'
      BY <1>b DEF OneAnswer
    <2>2. light \in [Light -> Nat] /\ published \in [Light -> Nat] /\ answer \subseteq Nat
      BY DEF TypeOK, Version
    <2>3. VersionsInOrder'
      BY <1>b, <2>2 DEF VersionsInOrder
    <2> QED
      BY <2>1, <2>3
  <1>c. light \in [Light -> Nat] /\ published \in [Light -> Nat] /\ answer \subseteq Nat
    BY DEF TypeOK, Version
  <1>d. ASSUME UNCHANGED <<reading, answer, published, light>>
        PROVE  OneAnswer' /\ AnswerIsFollowed' /\ VersionsInOrder'
    BY <1>a, <1>b, <1>c, <1>d
  <1>1. ASSUME NEW m \in Light, LightChanges(m)
        PROVE  OneAnswer' /\ AnswerIsFollowed' /\ VersionsInOrder'
    <2>1. UNCHANGED <<reading, answer, published>> /\ light' = [light EXCEPT ![m] = @ + 1]
      BY <1>1 DEF LightChanges, readerVars
    <2>2. \A l \in Light : light'[l] \in Nat /\ light'[l] >= light[l]
      BY <2>1, <1>c
    <2> QED
      BY <2>1, <2>2, <1>a, <1>b
  <1>2. CASE \/ \E m \in Light : LightReports(m)
             \/ Deliver \/ Redeliver \/ Outage \/ CloseBroadcaster \/ Shutdown
    BY <1>2, <1>d DEF LightReports, Deliver, Redeliver, Receive, Outage, CloseBroadcaster,
                      Shutdown, readerVars, deviceVars
  <1>3. CASE WatcherStep
    BY <1>3, <1>d, WatcherStepKeeps DEF readerVars, deviceVars
  <1>4. CASE TakeChanged
    <2>1. answer' = {} /\ published' = published /\ light' = light
      BY <1>4 DEF TakeChanged, OneAnswer, deviceVars
    <2> QED
      BY <2>1 DEF OneAnswer, AnswerIsFollowed, VersionsInOrder
  <1>5. CASE LightAnswers
    <2>1. /\ answer' = {light[reading]} /\ reading' = reading /\ reading \in Light
          /\ published' = published /\ light' = light
      BY <1>5 DEF LightAnswers, TypeOK, deviceVars
    <2> QED
      BY <2>1, <1>c DEF OneAnswer, AnswerIsFollowed, VersionsInOrder
  <1>6. CASE ReadFails
    BY <1>6 DEF ReadFails, OneAnswer, AnswerIsFollowed, VersionsInOrder, deviceVars
  <1>7. CASE Publish
    <2>1. PICK v \in answer : published' = [published EXCEPT ![reading] = v]
      BY <1>7 DEF Publish, PublishSends
    <2>2. reading \in Light /\ reading' = None /\ answer' = {} /\ light' = light
      BY <1>7 DEF Publish, PublishSends, TypeOK, deviceVars
    <2> QED
      BY <2>1, <2>2, <1>c DEF OneAnswer, AnswerIsFollowed, VersionsInOrder
  <1> QED
    BY Steps, <1>1, <1>2, <1>3, <1>4, <1>5, <1>6, <1>7

\* Steps that leave the calls and their channels alone.
LEMMA ElsewhereKeeps ==
  ASSUME Next
  PROVE  UNCHANGED watcherVars \/ Publish \/ CloseBroadcaster \/ WatcherStep
  <1>1. ASSUME NEW l \in Light, LightChanges(l) \/ LightReports(l) PROVE UNCHANGED watcherVars
    BY <1>1 DEF LightChanges, LightReports
  <1>2. CASE Deliver \/ Redeliver \/ Outage \/ TakeChanged \/ LightAnswers \/ ReadFails \/ Shutdown
    BY <1>2 DEF Deliver, Redeliver, Receive, Outage, TakeChanged, LightAnswers, ReadFails, Shutdown
  <1> QED
    BY Steps, <1>1, <1>2

\* Who has a channel, and that channels in the map are open.
LEMMA ChannelStep ==
  ASSUME TypeOK, IdleHasNoChannel, SubscribersOpen, Next
  PROVE  IdleHasNoChannel' /\ SubscribersOpen'
  <1> USE DEF IdleHasNoChannel, SubscribersOpen
  <1>1. CASE UNCHANGED watcherVars
    <2>1. closed' = closed \/ CloseBroadcaster
      <3>1. ASSUME NEW l \in Light, LightChanges(l) \/ LightReports(l) PROVE closed' = closed
        BY <3>1 DEF LightChanges, LightReports
      <3>2. CASE \/ Deliver \/ Redeliver \/ Outage \/ TakeChanged \/ LightAnswers
                 \/ ReadFails \/ Shutdown \/ Publish
        BY <3>2 DEF Deliver, Redeliver, Receive, Outage, TakeChanged, LightAnswers, ReadFails,
                    Shutdown, Publish, PublishSends
      <3> QED
        BY Steps, <3>1, <3>2, WatcherStepKeeps
    <2> QED
      BY <1>1, <2>1 DEF watcherVars, CloseBroadcaster
  <1>2. CASE Publish
    <2>1. ASSUME NEW w \in Watcher, call[w] = "idle" PROVE updates'[w] = updates[w]
      BY <1>2, <2>1 DEF Publish, PublishSends
    <2>2. /\ call' = call /\ closed' = closed /\ Behind \subseteq subscribers
          /\ subscribers' = subscribers \ Behind /\ closedChans' = closedChans \cup Behind
      BY <1>2 DEF Publish, PublishSends, Behind
    <2> QED
      BY <2>1, <2>2
  <1>3. CASE CloseBroadcaster
    BY <1>3 DEF CloseBroadcaster
  <1>4. CASE WatcherStep
    <2>1. ASSUME NEW w \in Watcher, Subscribe(w) PROVE IdleHasNoChannel' /\ SubscribersOpen'
      BY <2>1 DEF Subscribe, TypeOK
    <2>2. ASSUME NEW w \in Watcher, SendHeader(w) PROVE IdleHasNoChannel' /\ SubscribersOpen'
      BY <2>2 DEF SendHeader, TypeOK
    <2>3. ASSUME NEW w \in Watcher, Send(w) PROVE IdleHasNoChannel' /\ SubscribersOpen'
      BY <2>3 DEF Send, TypeOK
    <2>4. ASSUME NEW w \in Watcher, HandlerReturns(w)
          PROVE  IdleHasNoChannel' /\ SubscribersOpen'
      BY <2>4 DEF HandlerReturns, TypeOK
    <2> QED
      BY <1>4, <2>1, <2>2, <2>3, <2>4 DEF WatcherStep, HandlerStep, WatchEnded, ClientLeaves
  <1> QED
    BY ElsewhereKeeps, <1>1, <1>2, <1>3, <1>4

\* What publish puts into the channel of a subscriber that is not behind.
LEMMA PublishAppends ==
  ASSUME TypeOK, OneAnswer, Publish, NEW v \in answer, NEW w \in subscribers'
  PROVE  /\ reading \in Light
         /\ updates'[w] = Append(updates[w], [id |-> reading, version |-> v])
         /\ \A l : LastOf(updates'[w], l) = IF l = reading THEN {v} ELSE LastOf(updates[w], l)
  <1>1. PICK u \in answer :
            updates' = [x \in Watcher |->
                 IF x \in subscribers \ Behind
                   THEN Append(updates[x], [id |-> reading, version |-> u])
                   ELSE updates[x]]
    BY DEF Publish, PublishSends
  <1>2. u = v
    BY DEF OneAnswer
  <1>3. w \in subscribers \ Behind /\ w \in Watcher /\ reading \in Light
    BY DEF Publish, PublishSends, TypeOK
  <1>4. updates'[w] = Append(updates[w], [id |-> reading, version |-> v])
    BY <1>1, <1>2, <1>3
  <1>5. updates[w] \in Seq(Status) /\ [id |-> reading, version |-> v] \in Status
    BY <1>3, Messages DEF TypeOK
  <1>6. ASSUME NEW l
        PROVE  LastOf(updates'[w], l) = IF l = reading THEN {v} ELSE LastOf(updates[w], l)
    <2> DEFINE e == [id |-> reading, version |-> v]
    <2>1. e.id = reading /\ e.version = v
      OBVIOUS
    <2>2. ASSUME NEW x \in Status
          PROVE  /\ x.id = l => LastOf(Append(updates[w], x), l) = {x.version}
                 /\ x.id # l => LastOf(Append(updates[w], x), l) = LastOf(updates[w], l)
      <3>1. updates[w] \in Seq(Status)
        BY <1>5
      <3> QED
        BY <3>1, LastAppend
    <2>3. e \in Status
      BY <1>5
    <2> HIDE DEF e
    <2>4. LastOf(Append(updates[w], e), l) = IF e.id = l THEN {e.version} ELSE LastOf(updates[w], l)
      BY <2>2, <2>3
    <2> QED
      BY <1>4, <2>1, <2>4 DEF e
  <1> QED
    BY <1>3, <1>4, <1>6

\* A subscriber keeps the claim to every state of a light: what is not in its
\* channel is announced or was given up on.
LEMMA SubscribersStep ==
  ASSUME IInv, Next
  PROVE  SubscribersGetAll'
  <1> SUFFICES ASSUME NEW w \in subscribers', NEW l \in Light
               PROVE  Newest(w, l)' = {light'[l]} \/ Excused(l)'
    BY DEF SubscribersGetAll
  <1> USE DEF IInv
  <1>a. w \in Watcher
    BY TypeStep DEF TypeOK
  <1>b. ASSUME w \in subscribers, Newest(w, l)' = Newest(w, l), ~ Publish
        PROVE  Newest(w, l)' = {light'[l]} \/ Excused(l)'
    BY <1>b, ExcusedStep DEF SubscribersGetAll
  <1>1. CASE UNCHANGED watcherVars /\ ~ Publish
    BY <1>1, <1>b DEF watcherVars, Newest
  <1>2. CASE CloseBroadcaster
    BY <1>2 DEF CloseBroadcaster
  <1>3. CASE Publish
    <2>1. /\ w \in subscribers /\ answer # {} /\ light' = light /\ known' = known
          /\ lightChanged' = lightChanged /\ notifications' = notifications
          /\ missed' = missed /\ reading # None
      BY <1>3 DEF Publish, PublishSends, deviceVars
    <2>2. PICK v \in answer : TRUE
      BY <2>1
    <2>3. LastOf(updates'[w], l) = IF l = reading THEN {v} ELSE LastOf(updates[w], l)
      BY <1>3, <2>2, PublishAppends
    <2>4. CASE l = reading
      <3>1. Newest(w, l)' = {v}
        BY <2>3, <2>4 DEF Newest
      <3>2. v = light[l] \/ Queued(l) \/ l \in missed
        BY <2>4 DEF AnswerIsFollowed
      <3>3. Queued(l) => Excused(l)'
        BY <2>1 DEF Queued, Excused, Pending, IsIn
      <3> QED
        BY <2>1, <3>1, <3>2, <3>3 DEF Excused
    <2>5. CASE l # reading
      <3>1. Newest(w, l)' = Newest(w, l)
        BY <2>1, <2>3, <2>5 DEF Newest
      <3>2. Excused(l) => Excused(l)'
        BY <2>5, ExcusedStep
      <3> QED
        BY <2>1, <3>1, <3>2 DEF SubscribersGetAll
    <2> QED
      BY <2>4, <2>5
  <1>4. CASE WatcherStep /\ ~ Publish
    <2>1. PICK x \in Watcher : Subscribe(x) \/ SendHeader(x) \/ Send(x) \/ HandlerReturns(x)
      BY <1>4 DEF WatcherStep, HandlerStep, WatchEnded, ClientLeaves
    <2>2. light' = light
      BY <1>4, WatcherStepKeeps DEF deviceVars
    <2>3. CASE x # w
      <3>1. w \in subscribers /\ updates'[w] = updates[w] /\ known'[w] = known[w]
        BY <2>1, <2>3, <1>a DEF Subscribe, SendHeader, Send, HandlerReturns, TypeOK
      <3> QED
        BY <3>1, <1>4, <1>b DEF Newest
    <2>4. CASE x = w /\ Subscribe(x)
      <3>1. updates'[w] = <<>> /\ known'[w] = light
        BY <2>4, <1>a DEF Subscribe, IdleHasNoChannel, TypeOK
      <3> QED
        BY <2>2, <3>1, LastEmpty DEF Newest
    <2>5. CASE SendHeader(x)
      BY <2>5, <1>4, <1>b DEF SendHeader, Newest
    <2>6. CASE x = w /\ Send(x)
      <3> DEFINE h == Head(updates[w])
      <3>1. /\ updates[w] \in Seq(Status) /\ updates[w] # <<>>
            /\ updates'[w] = Tail(updates[w]) /\ w \in subscribers
            /\ known'[w] = [known[w] EXCEPT ![h.id] = h.version]
        BY <2>6, <1>a DEF Send, TypeOK
      <3>2. known[w] \in [Light -> Version]
        BY <1>a DEF TypeOK
      <3>3. known'[w][l] = IF l = h.id THEN h.version ELSE known[w][l]
        BY <3>1, <3>2
      <3>4. LastOf(updates[w], l) = IF LastOf(updates'[w], l) # {} THEN LastOf(updates'[w], l)
                                    ELSE IF h.id = l THEN {h.version} ELSE {}
        BY <3>1, LastTail
      <3>5. Newest(w, l)' = Newest(w, l)
        BY <3>3, <3>4 DEF Newest
      <3> QED
        BY <3>1, <3>5, <1>4, <1>b
    <2>7. CASE x = w /\ HandlerReturns(x)
      BY <2>7 DEF HandlerReturns
    <2> QED
      BY <2>1, <2>3, <2>4, <2>5, <2>6, <2>7
  <1> QED
    BY ElsewhereKeeps, <1>1, <1>2, <1>3, <1>4

\* There are no subscribers in the initial state.
LEMMA InitIInv == Init => IInv
  <1> SUFFICES ASSUME Init PROVE IInv
    OBVIOUS
  <1>1. TypeOK
    <2>1. 0 \in Version
      BY WatchAssumption DEF Version
    <2>2. light \in [Light -> Version] /\ published \in [Light -> Version]
      BY <2>1 DEF Init
    <2>3. known \in [Watcher -> [Light -> Version]]
      BY <2>2 DEF Init
    <2>4. updates \in [Watcher -> Seq(Status)] /\ \A w \in Watcher : Len(updates[w]) = 0
      BY DEF Init
    <2>5. /\ notifications \in Seq(Notification) /\ lightChanged \in Seq(Light)
          /\ Len(lightChanged) = 0
      BY DEF Init
    <2>6. /\ reading = None /\ answer = {} /\ subscribers = {} /\ closedChans = {}
          /\ closed \in BOOLEAN /\ ctxDone \in BOOLEAN /\ missed = {}
          /\ call \in [Watcher -> {"idle", "subscribed", "streaming"}]
      BY DEF Init
    <2>7. /\ Len(lightChanged) <= lightChangedBuffer
          /\ \A w \in Watcher : Len(updates[w]) <= subscriberBuffer
      BY <2>4, <2>5, WatchAssumption
    <2> QED
      BY <2>2, <2>3, <2>4, <2>5, <2>6, <2>7 DEF TypeOK
  <1>2. OneAnswer /\ AnswerIsFollowed /\ IdleHasNoChannel /\ VersionsInOrder
    BY DEF Init, OneAnswer, AnswerIsFollowed, IdleHasNoChannel, VersionsInOrder
  <1>3. SubscribersOpen /\ SubscribersGetAll
    BY DEF Init, SubscribersOpen, SubscribersGetAll
  <1> QED
    BY <1>1, <1>2, <1>3 DEF IInv

\* Every step of the service keeps the invariant.
LEMMA NextIInv == IInv /\ [Next]_vars => IInv'
  <1>1. ASSUME IInv, Next PROVE IInv'
    BY <1>1, TypeStep, ReaderStep, ChannelStep, SubscribersStep DEF IInv
  <1>2. ASSUME IInv, UNCHANGED vars PROVE IInv'
    <2> USE <1>2 DEF IInv, vars, deviceVars, readerVars, watcherVars
    <2>1. TypeOK'
      BY DEF TypeOK
    <2>2. OneAnswer' /\ IdleHasNoChannel' /\ VersionsInOrder' /\ SubscribersOpen'
      BY DEF OneAnswer, IdleHasNoChannel, VersionsInOrder, SubscribersOpen
    <2>3. AnswerIsFollowed'
      BY DEF AnswerIsFollowed, Queued, IsIn
    <2>4. \A l \in Light : Excused(l)' <=> Excused(l)
      BY DEF Excused, Pending
    <2>5. \A w \in subscribers, l \in Light : Newest(w, l)' = Newest(w, l)
      BY DEF Newest
    <2>6. SubscribersGetAll'
      BY <2>4, <2>5 DEF SubscribersGetAll
    <2> QED
      BY <2>1, <2>2, <2>3, <2>6
  <1> QED
    BY <1>1, <1>2

\* Latest is the version Newest has.
LEMMA LatestIsNewest ==
  ASSUME TypeOK, NEW w \in Watcher, NEW l, NEW v, Newest(w, l) = {v}
  PROVE  Latest(w, l) = v
  <1> DEFINE u == updates[w]
             mine == {i \in 1..Len(u) : u[i].id = l}
  <1>1. u \in Seq(Status) /\ Len(u) \in Nat
    BY DEF TypeOK
  <1>2. CASE LastOf(u, l) = {}
    <2>1. mine = {}
      BY <1>1, <1>2, LastExists
    <2>2. known[w][l] = v
      BY <1>2 DEF Newest
    <2> QED
      BY <2>1, <2>2 DEF Latest
  <1>3. CASE LastOf(u, l) # {}
    <2>1. v \in LastOf(u, l)
      BY <1>3 DEF Newest
    <2>2. PICK i \in 1..Len(u) : /\ v = u[i].version /\ u[i].id = l
                                 /\ \A k \in (i + 1)..Len(u) : u[k].id # l
      BY <2>1 DEF LastOf
    <2>3. i \in mine /\ \A j \in mine : j <= i
      BY <1>1, <2>2
    <2>4. \A j \in mine : (\A k \in mine : k <= j) => j = i
      BY <1>1, <2>3
    <2>5. (CHOOSE j \in mine : \A k \in mine : k <= j) = i
      <3> HIDE DEF mine
      <3> QED
        BY <2>3, <2>4
    <2>6. mine # {}
      BY <2>3
    <2> QED
      BY <2>2, <2>5, <2>6 DEF Latest
  <1> QED
    BY <1>2, <1>3

\* The invariant of the watch.
LEMMA IInvAlways == Spec => []IInv
  BY InitIInv, NextIInv, PTL DEF Spec

\* In every reachable state of LightWatch the queues respect the capacities of
\* their channels, and what is read, published and known is a state of a light.
THEOREM WatchTypeCorrect == Spec => []TypeOK
  <1>1. IInv => TypeOK
    BY DEF IInv
  <1> QED
    BY <1>1, IInvAlways, PTL

\* The broadcaster never sends on or closes a closed channel, however many
\* watchers subscribe, fall behind and leave while it publishes and closes.
THEOREM SubscribersOpenAlways == Spec => []SubscribersOpen
  <1>1. IInv => SubscribersOpen
    BY DEF IInv
  <1> QED
    BY <1>1, IInvAlways, PTL

\* A subscriber has, or will get, the state of every light but those a change of
\* which was given up on, whatever the sizes of the channels.
THEOREM MissesAccountedForAlways == Spec => []MissesAccountedFor
  <1>1. ASSUME IInv, NEW w \in subscribers, NEW l \in Light
        PROVE  UpToDate(w, l) \/ l \in missed
    <2>1. w \in Watcher /\ TypeOK
      BY <1>1 DEF IInv, TypeOK
    <2>2. Newest(w, l) = {light[l]} => Latest(w, l) = light[l]
      BY <2>1, LatestIsNewest
    <2>3. Newest(w, l) = {light[l]} \/ Excused(l)
      BY <1>1 DEF IInv, SubscribersGetAll
    <2> QED
      BY <2>2, <2>3 DEF UpToDate, Excused
  <1>2. IInv => MissesAccountedFor
    BY <1>1 DEF MissesAccountedFor
  <1> QED
    BY <1>2, IInvAlways, PTL

\* Statuses of a light are published in the order in which the light had them.
THEOREM PublishedInOrderAlways == Spec => PublishedInOrder
  <1>1. ASSUME IInv, [Next]_vars
        PROVE  [\A l \in Light : published'[l] >= published[l]]_vars
    <2>1. published \in [Light -> Nat] /\ answer \subseteq Nat
      BY <1>1 DEF IInv, TypeOK, Version
    <2>2. CASE Publish
      <3>1. PICK v \in answer : published' = [published EXCEPT ![reading] = v]
        BY <2>2 DEF Publish, PublishSends
      <3>2. reading \in Light => published[reading] <= v
        BY <1>1 DEF IInv, VersionsInOrder
      <3> QED
        BY <2>1, <3>1, <3>2
    <2>3. CASE published' = published
      BY <2>1, <2>3
    <2>4. ASSUME Next PROVE published' = published \/ Publish
      <3>1. ASSUME NEW l \in Light, LightChanges(l) \/ LightReports(l)
            PROVE  published' = published
        BY <3>1 DEF LightChanges, LightReports, readerVars
      <3>2. CASE \/ Deliver \/ Redeliver \/ Outage \/ TakeChanged \/ LightAnswers
                 \/ ReadFails \/ Shutdown \/ CloseBroadcaster
        BY <3>2 DEF Deliver, Redeliver, Receive, Outage, TakeChanged, LightAnswers, ReadFails,
                    Shutdown, CloseBroadcaster, readerVars
      <3> QED
        BY Steps, <2>4, <3>1, <3>2, WatcherStepKeeps DEF readerVars
    <2> QED
      BY <1>1, <2>2, <2>3, <2>4
  <1>2. IInv /\ [Next]_vars => [\A l \in Light : published'[l] >= published[l]]_vars
    BY <1>1
  <1> QED
    BY <1>2, IInvAlways, PTL DEF Spec, PublishedInOrder

-----------------------------------------------------------------------------
(* HomeEvents.                                                             *)

\* lightEvents and the WatchLights call it made agree on where the call is, and
\* an open call has a channel.
CallMatchesStream(p) ==
  /\ call[p] = "streaming" <=> stream[p] = "open"
  /\ call[p] = "subscribed" => stream[p] = "none"
  /\ call[p] = "idle" \/ p \in subscribers \/ p \in closedChans

\* The receiver starts once the header is there and holds one status, while it
\* offers it; got is the snapshot's.
ReceiverMatchesStream(p) ==
  /\ stream[p] = "none" => receiver[p] = "off" /\ wire[p] = <<>>
  /\ receiver[p] # "select" => held[p] = {}
  /\ \A r, s \in held[p] : r = s
  /\ at[p] = "watching" => receiver[p] = "off"
  /\ at[p] \in {"snapshot", "sending", "loop"} => stream[p] # "none"
  /\ at[p] \in {"closed", "watching", "loop"} => \A l \in Light : got[p][l] = None

\* What an open stream carries last of a light is what the service sent last.
OnTheWayIsKnown(p) ==
  ~gone[p] /\ stream[p] = "open" =>
    \A l \in Light :
      /\ LastOf(wire[p], l) \subseteq {known[p][l]}
      /\ LastOf(wire[p], l) = {} =>
           \A s \in held[p] : s.id = l => s.version = known[p][l]

\* Nothing about l is on its way from the service to lightEvents' loop.
NothingOnTheWay(p, l) ==
  /\ LastOf(updates[p], l) = {}
  /\ LastOf(wire[p], l) = {}
  /\ \A s \in held[p] : s.id # l

Serving(p) == p \notin closedChans /\ ~gone[p] /\ stream[p] # "ended"

SnapshotIsCurrent(p, l) ==
  Serving(p) /\ got[p][l] # None /\ NothingOnTheWay(p, l)
    => got[p][l] \in {light[l], Unknown} \/ Excused(l)

\* The rows the page has, once the snapshot's have been sent.
RowIsCurrent(p, l) ==
  /\ Serving(p) /\ got[p][l] = None /\ at[p] \in {"sending", "loop"}
  /\ NothingOnTheWay(p, l)
  => RowOf(p, l) \in {light[l], Unknown, None} \/ Excused(l) \/ l \in overtaken[p]

\* A row waits only while its slider is dragged, and a response has a light.
RowsWaitForDrag(p) ==
  /\ \A r, s \in pendingRow[p] : r = s
  /\ \A r \in pendingRow[p] : r.id = drag[p]
  /\ post[p].row # {} => post[p].id \in Light

PageInv(p) ==
  /\ CallMatchesStream(p)
  /\ ReceiverMatchesStream(p)
  /\ OnTheWayIsKnown(p)
  /\ \A l \in Light : SnapshotIsCurrent(p, l) /\ RowIsCurrent(p, l)
  /\ RowsWaitForDrag(p)

HomeInv == IInv /\ HomeTypeOK /\ \A p \in Watcher : PageInv(p)

\* Seen by the service, a step of a page is a step of a watcher or none.
LEMMA HomeIsWatch ==
  ASSUME HomeNext
  PROVE  Next \/ UNCHANGED vars
  <1>1. CASE ServiceStep
    BY <1>1 DEF ServiceStep, Next
  <1>2. ASSUME NEW p \in Watcher, HandlerSteps(p) PROVE Next \/ UNCHANGED vars
    BY <1>2 DEF HandlerSteps, CallArrives, HeaderSent, StatusSent, CallEnds, HeaderReceived,
       UpdatesClosed, Return, SnapshotReads, SendSnapshot, Next, HandlerStep
  <1>3. ASSUME NEW p \in Watcher, ReceiverSteps(p) \/ Update(p) \/ GivesUp(p)
        PROVE  UNCHANGED vars
    BY <1>3 DEF ReceiverSteps, Recv, ReceiverEnds, Update, GivesUp, Return
  <1>4. ASSUME NEW p \in Watcher, PageSteps(p) PROVE Next \/ UNCHANGED vars
    BY <1>4 DEF PageSteps, LoadPage, OpenEvents, PageLeaves, PostReads, PostShown, PostFails,
       EndDrag, PostSets, StartDrag, Next
  <1> QED
    BY <1>1, <1>2, <1>3, <1>4 DEF HomeNext

\* The pages' view of the service is a run of it: what is proved of LightWatch
\* holds of HomeEvents.
THEOREM HomeRunsWatch == HomeSpec => Spec
  <1>1. HomeInit => Init
    BY DEF HomeInit
  <1>2. [HomeNext]_homeVars => [Next]_vars
    BY HomeIsWatch DEF homeVars
  <1> QED
    BY <1>1, <1>2, PTL DEF HomeSpec, Spec
\* The steps of HomeEvents one by one.
LEMMA HomeStepKinds ==
  ASSUME HomeNext
  PROVE  \/ ServiceStep
         \/ \E p \in Watcher :
              \/ CallArrives(p) \/ HeaderSent(p) \/ StatusSent(p) \/ CallEnds(p)
              \/ HeaderReceived(p) \/ Return(p)
              \/ \E l \in Light : SnapshotReads(p, l) \/ SendSnapshot(p, l)
              \/ Recv(p) \/ ReceiverEnds(p) \/ Update(p)
              \/ LoadPage(p) \/ OpenEvents(p) \/ PageLeaves(p)
              \/ PostReads(p) \/ PostShown(p) \/ PostFails(p) \/ EndDrag(p)
              \/ \E l \in Light : PostSets(p, l) \/ StartDrag(p, l)
  BY DEF HomeNext, HandlerSteps, ReceiverSteps, PageSteps, GivesUp, UpdatesClosed

HandlerTypes ==
  /\ at \in [Watcher -> {"closed", "watching", "snapshot", "sending", "loop"}]
  /\ gone \in [Watcher -> BOOLEAN]
  /\ stream \in [Watcher -> {"none", "open", "ended"}]
  /\ wire \in [Watcher -> Seq(Status)]
  /\ receiver \in [Watcher -> {"off", "recv", "select", "done"}]
  /\ held \in [Watcher -> SUBSET Status]
  /\ got \in [Watcher -> [Light -> Row \cup {None}]]

PageTypes ==
  /\ shown \in [Watcher -> [Light -> Row \cup {None}]]
  /\ drag \in [Watcher -> Light \cup {None}]
  /\ pendingRow \in [Watcher -> SUBSET [id : Light, version : Row]]
  /\ post \in [Watcher -> [id : Light \cup {None}, row : SUBSET Version]]
  /\ posts \in [Watcher -> 0..MaxPosts]
  /\ overtaken \in [Watcher -> SUBSET Light]

\* The types of the service, of lightEvents with its receiver, and of the page.
LEMMA HomeTypes == HomeTypeOK <=> TypeOK /\ HandlerTypes /\ PageTypes
  BY DEF HomeTypeOK, HandlerTypes, PageTypes

\* Every step keeps the types of lightEvents and its receiver.
LEMMA HandlerTypeStep ==
  ASSUME TypeOK, HandlerTypes, HomeNext
  PROVE  HandlerTypes'
  <1> USE DEF HandlerTypes
  <1>a. ASSUME UNCHANGED handlerVars PROVE HandlerTypes'
    BY <1>a DEF handlerVars
  <1>b. light \in [Light -> Row]
    BY DEF TypeOK, Row
  <1>1. CASE ServiceStep
    BY <1>1, <1>a DEF ServiceStep
  <1>2. ASSUME NEW p \in Watcher, CallArrives(p) PROVE HandlerTypes'
    BY <1>2, <1>a DEF CallArrives
  <1>3. ASSUME NEW p \in Watcher, HeaderSent(p) \/ CallEnds(p) PROVE HandlerTypes'
    BY <1>3 DEF HeaderSent, CallEnds
  <1>4. ASSUME NEW p \in Watcher, StatusSent(p) PROVE HandlerTypes'
    <2>1. updates[p] # <<>> /\ updates[p] \in Seq(Status)
      BY <1>4 DEF StatusSent, Send, TypeOK
    <2>2. Head(updates[p]) \in Status
      BY <2>1, Channels
    <2>3. Append(wire[p], Head(updates[p])) \in Seq(Status)
      BY <2>2, Channels
    <2>4. wire' \in [Watcher -> Seq(Status)]
      BY <1>4, <2>3 DEF StatusSent
    <2> QED
      BY <1>4, <2>4 DEF StatusSent
  <1>5. ASSUME NEW p \in Watcher, HeaderReceived(p) \/ Return(p) \/ PageLeaves(p)
        PROVE  HandlerTypes'
    <2>1. CASE HeaderReceived(p)
      BY <2>1 DEF HeaderReceived
    <2>2. CASE Return(p)
      <3>1. got' \in [Watcher -> [Light -> Row \cup {None}]]
        BY <2>2 DEF Return
      <3> QED
        BY <2>2, <3>1 DEF Return
    <2>3. CASE PageLeaves(p)
      BY <2>3 DEF PageLeaves
    <2> QED
      BY <1>5, <2>1, <2>2, <2>3
  <1>6. ASSUME NEW p \in Watcher, NEW l \in Light, SnapshotReads(p, l) PROVE HandlerTypes'
    <2>1. PICK row \in {light[l], Unknown} : got' = [got EXCEPT ![p][l] = row]
      BY <1>6 DEF SnapshotReads, fetchLight
    <2>2. row \in Row
      BY <1>b DEF Row
    <2>3. got' \in [Watcher -> [Light -> Row \cup {None}]]
      BY <2>1, <2>2
    <2>4. at' \in [Watcher -> {"closed", "watching", "snapshot", "sending", "loop"}]
      BY <1>6 DEF SnapshotReads
    <2> QED
      BY <1>6, <2>3, <2>4 DEF SnapshotReads
  <1>7. ASSUME NEW p \in Watcher, NEW l \in Light, SendSnapshot(p, l) PROVE HandlerTypes'
    <2>1. got' \in [Watcher -> [Light -> Row \cup {None}]]
      BY <1>7 DEF SendSnapshot
    <2>2. at' \in [Watcher -> {"closed", "watching", "snapshot", "sending", "loop"}]
      BY <1>7 DEF SendSnapshot
    <2> QED
      BY <1>7, <2>1, <2>2 DEF SendSnapshot
  <1>8. ASSUME NEW p \in Watcher, Recv(p) PROVE HandlerTypes'
    <2>1. wire[p] # <<>> /\ wire[p] \in Seq(Status)
      BY <1>8 DEF Recv
    <2>2. Head(wire[p]) \in Status /\ Tail(wire[p]) \in Seq(Status)
      BY <2>1, Channels
    <2>3. held' \in [Watcher -> SUBSET Status] /\ wire' \in [Watcher -> Seq(Status)]
      BY <1>8, <2>2 DEF Recv
    <2> QED
      BY <1>8, <2>3 DEF Recv
  <1>9. ASSUME NEW p \in Watcher, ReceiverEnds(p) \/ OpenEvents(p) PROVE HandlerTypes'
    <2>1. <<>> \in Seq(Status)
      OBVIOUS
    <2>2. wire' \in [Watcher -> Seq(Status)] /\ held' \in [Watcher -> SUBSET Status]
      <3>1. /\ wire' = [wire EXCEPT ![p] = <<>>]
            /\ held' = held \/ held' = [held EXCEPT ![p] = {}]
        BY <1>9 DEF ReceiverEnds, OpenEvents
      <3> QED
        BY <2>1, <3>1
    <2>3. CASE ReceiverEnds(p)
      <3>1. /\ receiver' = [receiver EXCEPT ![p] = "done"]
            /\ UNCHANGED <<at, gone, stream, got>>
        BY <2>3 DEF ReceiverEnds
      <3>2. receiver' \in [Watcher -> {"off", "recv", "select", "done"}]
        BY <3>1
      <3> QED
        BY <2>2, <3>1, <3>2
    <2>4. CASE OpenEvents(p)
      <3>1. /\ at' \in [Watcher -> {"closed", "watching", "snapshot", "sending", "loop"}]
            /\ gone' \in [Watcher -> BOOLEAN]
        BY <2>4 DEF OpenEvents
      <3>2. /\ stream' \in [Watcher -> {"none", "open", "ended"}]
            /\ receiver' \in [Watcher -> {"off", "recv", "select", "done"}]
        BY <2>4 DEF OpenEvents
      <3> QED
        BY <2>2, <2>4, <3>1, <3>2 DEF OpenEvents
    <2> QED
      BY <1>9, <2>3, <2>4
  <1>10. ASSUME NEW p \in Watcher, Update(p) PROVE HandlerTypes'
    BY <1>10 DEF Update
  <1>11. ASSUME NEW p \in Watcher,
                \/ LoadPage(p) \/ PostReads(p) \/ PostShown(p) \/ PostFails(p) \/ EndDrag(p)
                \/ \E l \in Light : PostSets(p, l) \/ StartDrag(p, l)
         PROVE  HandlerTypes'
    BY <1>11, <1>a DEF LoadPage, PostReads, PostShown, PostFails, EndDrag, PostSets, StartDrag
  <1> QED
    BY HomeStepKinds, <1>1, <1>2, <1>3, <1>4, <1>5, <1>6, <1>7, <1>8, <1>9, <1>10, <1>11

\* What showRow does to the rows of the pages.
LEMMA ShowRowTypes ==
  ASSUME PageTypes, NEW p \in Watcher, NEW l \in Light, NEW row \in Row, showRow(p, l, row)
  PROVE  /\ shown' \in [Watcher -> [Light -> Row \cup {None}]]
         /\ pendingRow' \in [Watcher -> SUBSET [id : Light, version : Row]]
         /\ \A q \in Watcher \ {p} : shown'[q] = shown[q] /\ pendingRow'[q] = pendingRow[q]
  <1>1. CASE drag[p] = l
    <2>1. /\ pendingRow' = [pendingRow EXCEPT ![p] = {[id |-> l, version |-> row]}]
          /\ shown' = shown
      BY <1>1 DEF showRow
    <2>2. {[id |-> l, version |-> row]} \in SUBSET [id : Light, version : Row]
      OBVIOUS
    <2> HIDE DEF showRow
    <2>3. pendingRow' \in [Watcher -> SUBSET [id : Light, version : Row]]
      BY <2>1, <2>2 DEF PageTypes
    <2> QED
      BY <2>1, <2>3 DEF PageTypes
  <1>2. CASE drag[p] # l
    <2>1. pendingRow' = pendingRow
      BY <1>2 DEF showRow
    <2>2. CASE shown' = shown
      BY <2>1, <2>2 DEF PageTypes
    <2>3. CASE shown' = [shown EXCEPT ![p][l] = row]
      BY <2>1, <2>3 DEF PageTypes
    <2> QED
      BY <1>2, <2>2, <2>3 DEF showRow
  <1> QED
    BY <1>1, <1>2

\* Every step keeps the types of the page, its form and its slider.
LEMMA PageTypeStep ==
  ASSUME TypeOK, HandlerTypes, PageTypes, HomeNext, \A p \in Watcher : PageInv(p)
  PROVE  PageTypes'
  <1>a. ASSUME UNCHANGED pageVars PROVE PageTypes'
    BY <1>a DEF pageVars, PageTypes
  <1>b. light \in [Light -> Version] /\ Version \subseteq Row
    BY DEF TypeOK, Row
  <1>c. ASSUME NEW p \in Watcher, NEW l \in Light, NEW row \in Row, Event(p, l, row)
        PROVE  PageTypes'
    <2>1. /\ shown' \in [Watcher -> [Light -> Row \cup {None}]]
          /\ pendingRow' \in [Watcher -> SUBSET [id : Light, version : Row]]
      BY <1>c, ShowRowTypes DEF Event
    <2> QED
      BY <1>c, <2>1 DEF Event, PageTypes
  <1>1. CASE ServiceStep
    BY <1>1, <1>a DEF ServiceStep
  <1>2. ASSUME NEW p \in Watcher,
               \/ CallArrives(p) \/ HeaderSent(p) \/ StatusSent(p) \/ CallEnds(p)
               \/ HeaderReceived(p) \/ Return(p) \/ Recv(p) \/ ReceiverEnds(p)
               \/ OpenEvents(p) \/ PageLeaves(p)
               \/ \E l \in Light : SnapshotReads(p, l)
        PROVE  PageTypes'
    BY <1>2, <1>a DEF CallArrives, HeaderSent, StatusSent, CallEnds, HeaderReceived, Return,
       Recv, ReceiverEnds, OpenEvents, PageLeaves, SnapshotReads
  <1>3. ASSUME NEW p \in Watcher, NEW l \in Light, SendSnapshot(p, l) PROVE PageTypes'
    <2>1. got[p][l] \in Row
      BY <1>3 DEF SendSnapshot, HandlerTypes
    <2> QED
      BY <1>3, <1>c, <2>1 DEF SendSnapshot
  <1>4. ASSUME NEW p \in Watcher, Update(p) PROVE PageTypes'
    <2>1. PICK status \in held[p] : Event(p, status.id, status.version)
      BY <1>4 DEF Update
    <2>2. status.id \in Light /\ status.version \in Row
      BY <1>b, Messages DEF HandlerTypes
    <2> QED
      BY <1>c, <2>1, <2>2
  <1>d. NoPost \in [id : Light \cup {None}, row : SUBSET Version]
    BY DEF NoPost
  <1>5. ASSUME NEW p \in Watcher, LoadPage(p) PROVE PageTypes'
    <2>1. shown' \in [Watcher -> [Light -> Row \cup {None}]]
      BY <1>5 DEF LoadPage, PageTypes
    <2>2. post' \in [Watcher -> [id : Light \cup {None}, row : SUBSET Version]]
      BY <1>5, <1>d DEF LoadPage, PageTypes
    <2>3. /\ drag' \in [Watcher -> Light \cup {None}]
          /\ pendingRow' \in [Watcher -> SUBSET [id : Light, version : Row]]
          /\ overtaken' \in [Watcher -> SUBSET Light] /\ posts' = posts
      BY <1>5 DEF LoadPage, PageTypes
    <2> QED
      BY <2>1, <2>2, <2>3 DEF PageTypes
  <1>6. ASSUME NEW p \in Watcher, PostReads(p) PROVE PageTypes'
    <2>1. post[p].id \in Light
      BY <1>6 DEF PostReads, PageTypes
    <2>2. post' \in [Watcher -> [id : Light \cup {None}, row : SUBSET Version]]
      BY <1>6, <1>b, <2>1 DEF PostReads, PageTypes
    <2> QED
      BY <1>6, <2>2 DEF PostReads, PageTypes
  <1>7. ASSUME NEW p \in Watcher, PostShown(p) PROVE PageTypes'
    <2>1. PICK row \in post[p].row :
            /\ showRow(p, post[p].id, row)
            /\ overtaken' = IF row # light[post[p].id]
                              THEN [overtaken EXCEPT ![p] = @ \cup {post[p].id}]
                              ELSE overtaken
      BY <1>7 DEF PostShown
    <2>2. post[p].id \in Light /\ row \in Row
      BY <1>b DEF PageTypes, PageInv, RowsWaitForDrag
    <2>3. /\ shown' \in [Watcher -> [Light -> Row \cup {None}]]
          /\ pendingRow' \in [Watcher -> SUBSET [id : Light, version : Row]]
      BY <2>1, <2>2, ShowRowTypes
    <2>4. overtaken' \in [Watcher -> SUBSET Light]
      BY <2>1, <2>2 DEF PageTypes
    <2>5. post' \in [Watcher -> [id : Light \cup {None}, row : SUBSET Version]]
      BY <1>7, <1>d DEF PostShown, PageTypes
    <2> QED
      BY <1>7, <2>3, <2>4, <2>5 DEF PostShown, PageTypes
  <1>8. ASSUME NEW p \in Watcher, PostFails(p) PROVE PageTypes'
    BY <1>8, <1>d DEF PostFails, PageTypes
  <1>9. ASSUME NEW p \in Watcher, EndDrag(p) PROVE PageTypes'
    <2>1. ASSUME NEW l \in Light PROVE RowOf(p, l) \in Row \cup {None}
      <3>1. CASE \E row \in pendingRow[p] : row.id = l
        <4>1. (CHOOSE row \in pendingRow[p] : row.id = l) \in pendingRow[p]
          BY <3>1
        <4>2. \A row \in pendingRow[p] : row.version \in Row
          BY DEF PageTypes
        <4> QED
          BY <3>1, <4>1, <4>2 DEF RowOf
      <3>2. CASE ~ \E row \in pendingRow[p] : row.id = l
        BY <3>2 DEF RowOf, PageTypes
      <3> QED
        BY <3>1, <3>2
    <2>2. shown' \in [Watcher -> [Light -> Row \cup {None}]]
      BY <1>9, <2>1 DEF EndDrag, PageTypes
    <2>3. /\ pendingRow' \in [Watcher -> SUBSET [id : Light, version : Row]]
          /\ drag' \in [Watcher -> Light \cup {None}]
      BY <1>9 DEF EndDrag, PageTypes
    <2> QED
      BY <1>9, <2>2, <2>3 DEF EndDrag, PageTypes
  <1>10. ASSUME NEW p \in Watcher, NEW l \in Light, PostSets(p, l) PROVE PageTypes'
    <2>1. posts' \in [Watcher -> 0..MaxPosts]
      BY <1>10, HomeAssumption DEF PostSets, PageTypes
    <2>2. post' \in [Watcher -> [id : Light \cup {None}, row : SUBSET Version]]
      BY <1>10 DEF PostSets, PageTypes
    <2> QED
      BY <1>10, <2>1, <2>2 DEF PostSets, PageTypes
  <1>11. ASSUME NEW p \in Watcher, NEW l \in Light, StartDrag(p, l) PROVE PageTypes'
    BY <1>11 DEF StartDrag, PageTypes
  <1> QED
    BY HomeStepKinds, <1>1, <1>2, <1>3, <1>4, <1>5, <1>6, <1>7, <1>8, <1>9, <1>10, <1>11
-----------------------------------------------------------------------------
(* What a step does to one page.                                           *)

Connected == {"snapshot", "sending", "loop"}

SameHandler(p) ==
  /\ at'[p] = at[p] /\ gone'[p] = gone[p] /\ stream'[p] = stream[p]
  /\ wire'[p] = wire[p] /\ receiver'[p] = receiver[p] /\ held'[p] = held[p]
  /\ got'[p] = got[p]

SameRows(p) ==
  /\ shown'[p] = shown[p] /\ pendingRow'[p] = pendingRow[p]
  /\ overtaken'[p] = overtaken[p]

SamePage(p) == SameRows(p) /\ drag'[p] = drag[p] /\ post'[p] = post[p]

SameCall(p) ==
  /\ call'[p] = call[p] /\ known'[p] = known[p] /\ updates'[p] = updates[p]
  /\ p \in subscribers' <=> p \in subscribers
  /\ p \in closedChans' <=> p \in closedChans

\* A row that is current, or that a pending or missed change excuses, stays so
\* for a page that is served, unless a newer status comes into its channel.
LEMMA CurrentStep ==
  ASSUME IInv, NEW p \in Watcher, PageInv(p), HandlerTypes, HomeNext,
         at[p] \in Connected, Serving(p), p \notin closedChans',
         NEW l \in Light, LastOf(updates'[p], l) = {},
         NEW row, row \in {light[l], Unknown} \/ Excused(l)
  PROVE  row \in {light'[l], Unknown} \/ Excused(l)'
  <1>1. CASE UNCHANGED vars
    <2>1. light' = light /\ (Excused(l)' <=> Excused(l))
      BY <1>1 DEF vars, deviceVars, readerVars, Excused, Pending
    <2> QED
      BY <2>1
  <1>2. CASE Next
    <2>1. TypeOK /\ OneAnswer
      BY DEF IInv
    <2>2. CASE Publish /\ reading = l /\ light[l] \in answer
      <3>1. p \in subscribers
        BY DEF PageInv, CallMatchesStream, ReceiverMatchesStream, Serving, HandlerTypes, Connected
      <3>2. p \in subscribers'
        BY <2>2, <3>1 DEF Publish
      <3>3. LastOf(updates'[p], l) = {light[l]}
        BY <2>1, <2>2, <3>2, PublishAppends
      <3> QED
        BY <3>3
    <2> QED
      BY <1>2, <2>1, <2>2, ExcusedStep
  <1> QED
    BY <1>1, <1>2, HomeIsWatch

\* The page's channel, seen from a step that is not the page's own.
LEMMA ChannelSeen ==
  ASSUME IInv, NEW p \in Watcher, SameCall(p) \/ Publish \/ CloseBroadcaster
  PROVE  /\ call'[p] = call[p] /\ known'[p] = known[p]
         /\ p \in subscribers \/ p \in closedChans => p \in subscribers' \/ p \in closedChans'
         /\ p \notin closedChans' => p \notin closedChans
         /\ p \notin closedChans' =>
              \A l \in Light : LastOf(updates'[p], l) = {} => LastOf(updates[p], l) = {}
  <1>1. CASE SameCall(p)
    BY <1>1 DEF SameCall
  <1>2. CASE CloseBroadcaster
    BY <1>2 DEF CloseBroadcaster
  <1>3. CASE Publish
    <2>1. TypeOK /\ OneAnswer
      BY DEF IInv
    <2>2. /\ call' = call /\ known' = known /\ subscribers' = subscribers \ Behind
          /\ closedChans' = closedChans \cup Behind
      BY <1>3 DEF Publish, PublishSends
    <2>3. CASE p \in subscribers'
      <3>1. PICK v \in answer : TRUE
        BY <1>3 DEF Publish, PublishSends
      <3>2. \A l : LastOf(updates'[p], l) = IF l = reading THEN {v} ELSE LastOf(updates[p], l)
        BY <1>3, <2>1, <2>3, <3>1, PublishAppends
      <3> QED
        BY <2>2, <2>3, <3>2
    <2>4. CASE p \notin subscribers'
      <3>1. updates'[p] = updates[p]
        BY <1>3, <2>2, <2>4 DEF Publish, PublishSends
      <3> QED
        BY <2>2, <3>1
    <2> QED
      BY <2>3, <2>4
  <1> QED
    BY <1>1, <1>2, <1>3

\* The row of a light depends on what is shown and held back, and on nothing else.
LEMMA RowOfSame ==
  ASSUME NEW p, shown'[p] = shown[p], pendingRow'[p] = pendingRow[p], NEW l
  PROVE  RowOf(p, l)' = RowOf(p, l)
  BY DEF RowOf

\* A step that leaves lightEvents and the rows of the page as they are.
LEMMA RowsStand ==
  ASSUME IInv, NEW p \in Watcher, PageInv(p), HandlerTypes, HomeNext, SameHandler(p),
         \A l \in Light : RowOf(p, l)' = RowOf(p, l),
         overtaken'[p] = overtaken[p], RowsWaitForDrag(p)',
         SameCall(p) \/ Publish \/ CloseBroadcaster
  PROVE  PageInv(p)'
  <1>a. /\ call'[p] = call[p] /\ known'[p] = known[p]
        /\ p \in subscribers \/ p \in closedChans => p \in subscribers' \/ p \in closedChans'
        /\ p \notin closedChans' => p \notin closedChans
        /\ p \notin closedChans' =>
             \A l \in Light : LastOf(updates'[p], l) = {} => LastOf(updates[p], l) = {}
    BY ChannelSeen
  <1>1. CallMatchesStream(p)' /\ ReceiverMatchesStream(p)'
    BY <1>a DEF PageInv, CallMatchesStream, ReceiverMatchesStream, SameHandler
  <1>2. OnTheWayIsKnown(p)'
    BY <1>a DEF PageInv, OnTheWayIsKnown, SameHandler
  <1>3. ASSUME NEW l \in Light PROVE SnapshotIsCurrent(p, l)'
    <2> SUFFICES ASSUME Serving(p)', got'[p][l] # None, NothingOnTheWay(p, l)'
                 PROVE  got'[p][l] \in {light'[l], Unknown} \/ Excused(l)'
      BY DEF SnapshotIsCurrent
    <2>1. Serving(p) /\ NothingOnTheWay(p, l) /\ p \notin closedChans'
      BY <1>a DEF Serving, NothingOnTheWay, SameHandler
    <2>2. got'[p][l] = got[p][l] /\ at[p] \in Connected
      BY DEF SameHandler, PageInv, ReceiverMatchesStream, HandlerTypes, Connected
    <2>3. got[p][l] \in {light[l], Unknown} \/ Excused(l)
      BY <2>1, <2>2 DEF PageInv, SnapshotIsCurrent
    <2>4. LastOf(updates'[p], l) = {}
      BY DEF NothingOnTheWay
    <2> QED
      BY <2>1, <2>2, <2>3, <2>4, CurrentStep
  <1>4. ASSUME NEW l \in Light PROVE RowIsCurrent(p, l)'
    <2> SUFFICES ASSUME Serving(p)', got'[p][l] = None, at'[p] \in {"sending", "loop"},
                        NothingOnTheWay(p, l)'
                 PROVE  RowOf(p, l)' \in {light'[l], Unknown, None} \/ Excused(l)' \/ l \in overtaken'[p]
      BY DEF RowIsCurrent
    <2>1. Serving(p) /\ NothingOnTheWay(p, l) /\ p \notin closedChans'
      BY <1>a DEF Serving, NothingOnTheWay, SameHandler
    <2>2. got[p][l] = None /\ at[p] \in {"sending", "loop"} /\ at[p] \in Connected
      BY DEF SameHandler, Connected
    <2>3. RowOf(p, l)' = RowOf(p, l)
      OBVIOUS
    <2>4. RowOf(p, l) \in {light[l], Unknown, None} \/ Excused(l) \/ l \in overtaken[p]
      BY <2>1, <2>2 DEF PageInv, RowIsCurrent
    <2>5. LastOf(updates'[p], l) = {}
      BY DEF NothingOnTheWay
    <2>6. CASE RowOf(p, l) = None
      BY <2>3, <2>6
    <2>7. CASE RowOf(p, l) # None
      BY <2>1, <2>2, <2>3, <2>4, <2>5, <2>7, CurrentStep
    <2> QED
      BY <2>6, <2>7
  <1> QED
    BY <1>1, <1>2, <1>3, <1>4 DEF PageInv
\* A step of the service or of another page.
LEMMA QuietStep ==
  ASSUME IInv, NEW p \in Watcher, PageInv(p), HandlerTypes, HomeNext,
         SameHandler(p), SamePage(p), SameCall(p) \/ Publish \/ CloseBroadcaster
  PROVE  PageInv(p)'
  <1>1. RowsWaitForDrag(p)'
    BY DEF PageInv, RowsWaitForDrag, SamePage, SameRows
  <1>2. \A l \in Light : RowOf(p, l)' = RowOf(p, l)
    BY RowOfSame DEF SamePage, SameRows
  <1>3. overtaken'[p] = overtaken[p]
    BY DEF SamePage, SameRows
  <1> QED
    BY <1>1, <1>2, <1>3, RowsStand

\* A page that is not served, or has not begun to read, has no row to answer for.
LEMMA NotServedNext ==
  ASSUME NEW p, \/ ~Serving(p)'
                \/ at'[p] \notin {"sending", "loop"} /\ \A l \in Light : got'[p][l] = None
  PROVE  \A l \in Light : SnapshotIsCurrent(p, l)' /\ RowIsCurrent(p, l)'
  BY DEF SnapshotIsCurrent, RowIsCurrent

\* The steps of the WatchLights call of a page.
LEMMA CallStep ==
  ASSUME IInv, HandlerTypes, PageTypes, NEW p \in Watcher, PageInv(p), HomeNext,
         CallArrives(p) \/ HeaderSent(p) \/ StatusSent(p) \/ CallEnds(p)
  PROVE  PageInv(p)'
  <1>a. TypeOK
    BY DEF IInv
  <1>b. RowsWaitForDrag(p)' /\ SamePage(p)
    BY DEF PageInv, RowsWaitForDrag, SamePage, SameRows, CallArrives, HeaderSent, StatusSent,
       CallEnds, pageVars
  <1>1. CASE CallArrives(p)
    <2>1. /\ call'[p] = "subscribed" /\ stream[p] = "none" /\ at[p] = "watching"
          /\ p \in subscribers' \/ p \in closedChans'
      BY <1>1, <1>a DEF CallArrives, Subscribe, TypeOK
    <2>2. SameHandler(p)
      BY <1>1 DEF CallArrives, SameHandler, handlerVars
    <2>3. CallMatchesStream(p)' /\ ReceiverMatchesStream(p)' /\ OnTheWayIsKnown(p)'
      BY <2>1, <2>2 DEF PageInv, SameHandler, CallMatchesStream, ReceiverMatchesStream,
         OnTheWayIsKnown
    <2>4. at'[p] \notin {"sending", "loop"} /\ \A l \in Light : got'[p][l] = None
      BY <2>1, <2>2 DEF PageInv, ReceiverMatchesStream, SameHandler
    <2> QED
      BY <1>b, <2>3, <2>4, NotServedNext DEF PageInv
  <1>2. CASE HeaderSent(p)
    <2>1. /\ call[p] = "subscribed" /\ call'[p] = "streaming" /\ stream'[p] = "open"
          /\ p \in subscribers' <=> p \in subscribers
          /\ p \in closedChans' <=> p \in closedChans
          /\ at'[p] = at[p] /\ wire'[p] = wire[p] /\ receiver'[p] = receiver[p]
          /\ held'[p] = held[p] /\ got'[p] = got[p] /\ known' = known
      BY <1>2, <1>a DEF HeaderSent, SendHeader, TypeOK, HandlerTypes
    <2>2. stream[p] = "none" /\ wire[p] = <<>> /\ receiver[p] = "off" /\ held[p] = {}
      BY <2>1 DEF PageInv, CallMatchesStream, ReceiverMatchesStream
    <2>3. at[p] \in {"closed", "watching"} /\ \A l \in Light : got[p][l] = None
      BY <2>2 DEF PageInv, ReceiverMatchesStream, HandlerTypes
    <2>4. CallMatchesStream(p)' /\ ReceiverMatchesStream(p)'
      BY <2>1, <2>2, <2>3 DEF PageInv, CallMatchesStream, ReceiverMatchesStream
    <2>5. OnTheWayIsKnown(p)'
      BY <2>1, <2>2, LastEmpty DEF OnTheWayIsKnown
    <2> QED
      BY <1>b, <2>1, <2>3, <2>4, <2>5, NotServedNext DEF PageInv
  <1>3. CASE StatusSent(p)
    <2> DEFINE h == Head(updates[p])
    <2>1. /\ updates[p] \in Seq(Status) /\ updates[p] # <<>>
          /\ updates'[p] = Tail(updates[p]) /\ SameRows(p)
          /\ known'[p] = [known[p] EXCEPT ![h.id] = h.version]
          /\ known[p] \in [Light -> Version]
          /\ call'[p] = call[p] /\ subscribers' = subscribers /\ closedChans' = closedChans
          /\ call[p] = "streaming"
      BY <1>3, <1>a, <1>b DEF StatusSent, Send, TypeOK, SamePage
    <2>2. /\ at'[p] = at[p] /\ gone'[p] = gone[p] /\ stream'[p] = stream[p]
          /\ receiver'[p] = receiver[p] /\ held'[p] = held[p] /\ got'[p] = got[p]
          /\ wire'[p] = IF gone[p] THEN wire[p] ELSE Append(wire[p], h)
      BY <1>3 DEF StatusSent, HandlerTypes
    <2>3. h \in Status /\ wire[p] \in Seq(Status)
      BY <2>1, Channels DEF HandlerTypes
    <2>4. stream[p] = "open"
      BY <2>1 DEF PageInv, CallMatchesStream
    <2>5. CallMatchesStream(p)' /\ ReceiverMatchesStream(p)'
      BY <2>1, <2>2, <2>4 DEF PageInv, CallMatchesStream, ReceiverMatchesStream
    <2> HIDE DEF h
    <2>6. CASE gone[p]
      <3>1. OnTheWayIsKnown(p)' /\ ~Serving(p)'
        BY <2>2, <2>6 DEF OnTheWayIsKnown, Serving
      <3> QED
        BY <1>b, <2>5, <3>1, NotServedNext DEF PageInv
    <2>7. CASE ~gone[p]
      <3>1. ASSUME NEW l \in Light
            PROVE  /\ h.id = l => LastOf(wire'[p], l) = {h.version} /\ known'[p][l] = h.version
                   /\ h.id # l => /\ LastOf(wire'[p], l) = LastOf(wire[p], l)
                                  /\ known'[p][l] = known[p][l]
        <4>1. wire'[p] = Append(wire[p], h)
          BY <2>2, <2>7
        <4>2. known'[p][l] = IF h.id = l THEN h.version ELSE known[p][l]
          <5>1. known'[p] = [known[p] EXCEPT ![h.id] = h.version]
            BY <2>1 DEF h
          <5> QED
            BY <2>1, <5>1
        <4>3. /\ h.id = l => LastOf(wire'[p], l) = {h.version}
              /\ h.id # l => LastOf(wire'[p], l) = LastOf(wire[p], l)
          <5>1. ASSUME NEW x \in Status
                PROVE  /\ x.id = l => LastOf(Append(wire[p], x), l) = {x.version}
                       /\ x.id # l => LastOf(Append(wire[p], x), l) = LastOf(wire[p], l)
            BY <2>3, LastAppend
          <5> QED
            BY <4>1, <2>3, <5>1
        <4> QED
          BY <4>2, <4>3
      <3>2. OnTheWayIsKnown(p)'
        <4> SUFFICES ASSUME NEW l \in Light
                     PROVE  /\ LastOf(wire'[p], l) \subseteq {known'[p][l]}
                            /\ LastOf(wire'[p], l) = {} =>
                                 \A s \in held'[p] : s.id = l => s.version = known'[p][l]
          BY DEF OnTheWayIsKnown
        <4>1. /\ LastOf(wire[p], l) \subseteq {known[p][l]}
              /\ LastOf(wire[p], l) = {} =>
                   \A s \in held[p] : s.id = l => s.version = known[p][l]
          BY <2>4, <2>7 DEF PageInv, OnTheWayIsKnown
        <4> QED
          BY <2>2, <3>1, <4>1
      <3>3. ASSUME NEW l \in Light, NothingOnTheWay(p, l)'
            PROVE  NothingOnTheWay(p, l) /\ LastOf(updates'[p], l) = {}
        <4>1. LastOf(updates'[p], l) = {} /\ LastOf(wire'[p], l) = {}
          BY <3>3 DEF NothingOnTheWay
        <4>2. h.id # l
          BY <3>1, <4>1
        <4>3. LastOf(updates[p], l) = {}
          BY <2>1, <4>1, <4>2, LastTail DEF h
        <4> QED
          BY <2>2, <3>1, <3>3, <4>1, <4>2, <4>3 DEF NothingOnTheWay
      <3>4. Serving(p)' <=> Serving(p)
        BY <2>1, <2>2 DEF Serving
      <3>5. ASSUME NEW l \in Light PROVE SnapshotIsCurrent(p, l)'
        <4> SUFFICES ASSUME Serving(p)', got'[p][l] # None, NothingOnTheWay(p, l)'
                     PROVE  got'[p][l] \in {light'[l], Unknown} \/ Excused(l)'
          BY DEF SnapshotIsCurrent
        <4>1. Serving(p) /\ NothingOnTheWay(p, l) /\ LastOf(updates'[p], l) = {}
          BY <3>3, <3>4
        <4>2. got'[p][l] = got[p][l] /\ at[p] \in Connected /\ p \notin closedChans'
          BY <2>1, <2>2, <4>1 DEF PageInv, ReceiverMatchesStream, HandlerTypes, Connected, Serving
        <4>3. got[p][l] \in {light[l], Unknown} \/ Excused(l)
          BY <4>1, <4>2 DEF PageInv, SnapshotIsCurrent
        <4> QED
          BY <4>1, <4>2, <4>3, CurrentStep
      <3>6. ASSUME NEW l \in Light PROVE RowIsCurrent(p, l)'
        <4> SUFFICES ASSUME Serving(p)', got'[p][l] = None, at'[p] \in {"sending", "loop"},
                            NothingOnTheWay(p, l)'
                     PROVE  \/ RowOf(p, l)' \in {light'[l], Unknown, None}
                            \/ Excused(l)' \/ l \in overtaken'[p]
          BY DEF RowIsCurrent
        <4>1. Serving(p) /\ NothingOnTheWay(p, l) /\ LastOf(updates'[p], l) = {}
          BY <3>3, <3>4
        <4>2. /\ got[p][l] = None /\ at[p] \in {"sending", "loop"} /\ at[p] \in Connected
              /\ p \notin closedChans' /\ overtaken'[p] = overtaken[p]
          BY <2>1, <2>2, <4>1 DEF Connected, Serving, SameRows
        <4>3. RowOf(p, l)' = RowOf(p, l)
          BY <2>1, RowOfSame DEF SameRows
        <4>4. RowOf(p, l) \in {light[l], Unknown, None} \/ Excused(l) \/ l \in overtaken[p]
          BY <4>1, <4>2 DEF PageInv, RowIsCurrent
        <4> QED
          BY <4>1, <4>2, <4>3, <4>4, CurrentStep
      <3> QED
        BY <1>b, <2>5, <3>2, <3>5, <3>6 DEF PageInv
    <2> QED
      BY <2>6, <2>7
  <1>4. CASE CallEnds(p)
    <2>1. /\ call'[p] = "idle" /\ stream'[p] = "ended" /\ call[p] # "idle"
          /\ at'[p] = at[p] /\ wire'[p] = wire[p] /\ receiver'[p] = receiver[p]
          /\ held'[p] = held[p] /\ got'[p] = got[p]
      BY <1>4, <1>a DEF CallEnds, WatchEnded, ClientLeaves, HandlerReturns, TypeOK, HandlerTypes
    <2>2. CallMatchesStream(p)' /\ ReceiverMatchesStream(p)' /\ OnTheWayIsKnown(p)'
      BY <2>1 DEF PageInv, CallMatchesStream, ReceiverMatchesStream, OnTheWayIsKnown
    <2>3. ~Serving(p)'
      BY <2>1 DEF Serving
    <2> QED
      BY <1>b, <2>2, <2>3, NotServedNext DEF PageInv
  <1> QED
    BY <1>1, <1>2, <1>3, <1>4
\* The steps in which lightEvents begins, ends or reads.
LEMMA EventsStep ==
  ASSUME IInv, HandlerTypes, PageTypes, NEW p \in Watcher, PageInv(p), HomeNext,
         \/ HeaderReceived(p) \/ Return(p) \/ PageLeaves(p) \/ OpenEvents(p)
         \/ ReceiverEnds(p) \/ Recv(p) \/ \E l \in Light : SnapshotReads(p, l)
  PROVE  PageInv(p)'
  <1>a. UNCHANGED vars /\ UNCHANGED pageVars
    BY DEF HeaderReceived, Return, PageLeaves, OpenEvents, ReceiverEnds, Recv, SnapshotReads
  <1>b. /\ call' = call /\ subscribers' = subscribers /\ closedChans' = closedChans
        /\ known' = known /\ updates' = updates /\ light' = light
        /\ \A l : Excused(l)' <=> Excused(l)
    BY <1>a DEF vars, watcherVars, deviceVars, readerVars, Excused, Pending
  <1>c. RowsWaitForDrag(p)' /\ SamePage(p)
    BY <1>a DEF PageInv, RowsWaitForDrag, SamePage, SameRows, pageVars
  <1>d. \A l : RowOf(p, l)' = RowOf(p, l)
    BY <1>c, RowOfSame DEF SamePage, SameRows
  <1>1. CASE HeaderReceived(p)
    <2>1. /\ at[p] = "watching" /\ at'[p] = "snapshot" /\ receiver'[p] = "recv"
          /\ stream[p] # "none" /\ gone'[p] = gone[p] /\ stream'[p] = stream[p]
          /\ wire'[p] = wire[p] /\ held'[p] = held[p] /\ got'[p] = got[p]
      BY <1>1 DEF HeaderReceived, HandlerTypes
    <2>2. CallMatchesStream(p)' /\ OnTheWayIsKnown(p)'
      BY <1>b, <2>1 DEF PageInv, CallMatchesStream, OnTheWayIsKnown
    <2>4. \A l \in Light : got'[p][l] = None
      BY <2>1 DEF PageInv, ReceiverMatchesStream
    <2>5. held[p] = {}
      BY <2>1 DEF PageInv, ReceiverMatchesStream
    <2>6. ReceiverMatchesStream(p)'
      BY <2>1, <2>4, <2>5 DEF ReceiverMatchesStream
    <2> QED
      BY <1>c, <2>1, <2>2, <2>4, <2>6, NotServedNext DEF PageInv
  <1>2. CASE Return(p)
    <2>1. /\ at'[p] = "closed" /\ gone'[p] = TRUE /\ \A l \in Light : got'[p][l] = None
          /\ stream'[p] = stream[p] /\ wire'[p] = wire[p] /\ receiver'[p] = receiver[p]
          /\ held'[p] = held[p]
      BY <1>2 DEF Return, HandlerTypes
    <2>2. CallMatchesStream(p)' /\ OnTheWayIsKnown(p)' /\ ReceiverMatchesStream(p)'
      BY <1>b, <2>1 DEF PageInv, CallMatchesStream, OnTheWayIsKnown, ReceiverMatchesStream
    <2> QED
      BY <1>c, <2>1, <2>2, NotServedNext DEF PageInv
  <1>3. CASE PageLeaves(p)
    <2>1. /\ gone'[p] = TRUE /\ at'[p] = at[p] /\ got'[p] = got[p]
          /\ stream'[p] = stream[p] /\ wire'[p] = wire[p] /\ receiver'[p] = receiver[p]
          /\ held'[p] = held[p]
      BY <1>3 DEF PageLeaves, HandlerTypes
    <2>2. CallMatchesStream(p)' /\ OnTheWayIsKnown(p)' /\ ReceiverMatchesStream(p)'
      BY <1>b, <2>1 DEF PageInv, CallMatchesStream, OnTheWayIsKnown, ReceiverMatchesStream
    <2>3. ~Serving(p)'
      BY <2>1 DEF Serving
    <2> QED
      BY <1>c, <2>2, <2>3, NotServedNext DEF PageInv
  <1>4. CASE OpenEvents(p)
    <2>1. /\ call[p] = "idle" /\ at[p] = "closed" /\ receiver[p] \in {"off", "done"}
          /\ at'[p] = "watching" /\ stream'[p] = "none" /\ wire'[p] = <<>>
          /\ receiver'[p] = "off" /\ held'[p] = held[p] /\ got'[p] = got[p]
      BY <1>4 DEF OpenEvents, HandlerTypes
    <2>2. held[p] = {} /\ \A l \in Light : got[p][l] = None
      BY <2>1 DEF PageInv, ReceiverMatchesStream
    <2>3. CallMatchesStream(p)' /\ OnTheWayIsKnown(p)' /\ ReceiverMatchesStream(p)'
      BY <1>b, <2>1, <2>2 DEF PageInv, CallMatchesStream, OnTheWayIsKnown, ReceiverMatchesStream
    <2> QED
      BY <1>c, <2>1, <2>2, <2>3, NotServedNext DEF PageInv
  <1>5. CASE ReceiverEnds(p)
    <2>1. /\ gone[p] \/ stream[p] = "ended"
          /\ receiver[p] \in {"recv", "select"}
          /\ receiver'[p] = "done" /\ held'[p] = {} /\ wire'[p] = <<>>
          /\ at'[p] = at[p] /\ gone'[p] = gone[p] /\ stream'[p] = stream[p] /\ got'[p] = got[p]
      BY <1>5 DEF ReceiverEnds, HandlerTypes
    <2>2. CallMatchesStream(p)' /\ ReceiverMatchesStream(p)'
      BY <1>b, <2>1 DEF PageInv, CallMatchesStream, ReceiverMatchesStream
    <2>3. OnTheWayIsKnown(p)' /\ ~Serving(p)'
      BY <2>1 DEF OnTheWayIsKnown, Serving
    <2> QED
      BY <1>c, <2>2, <2>3, NotServedNext DEF PageInv
  <1>6. CASE Recv(p)
    <2> DEFINE h == Head(wire[p])
    <2>1. /\ receiver[p] = "recv" /\ wire[p] # <<>> /\ held'[p] = {h}
          /\ wire'[p] = Tail(wire[p]) /\ receiver'[p] = "select"
          /\ at'[p] = at[p] /\ gone'[p] = gone[p] /\ stream'[p] = stream[p] /\ got'[p] = got[p]
          /\ wire[p] \in Seq(Status)
      BY <1>6 DEF Recv, HandlerTypes
    <2>2. held[p] = {} /\ stream[p] # "none"
      BY <2>1 DEF PageInv, ReceiverMatchesStream
    <2>3. \A l : LastOf(wire[p], l) = IF LastOf(wire'[p], l) # {} THEN LastOf(wire'[p], l)
                                      ELSE IF h.id = l THEN {h.version} ELSE {}
      <3>1. ASSUME NEW l
            PROVE  LastOf(wire[p], l) =
                     IF LastOf(Tail(wire[p]), l) # {} THEN LastOf(Tail(wire[p]), l)
                     ELSE IF Head(wire[p]).id = l THEN {Head(wire[p]).version} ELSE {}
        <4>1. wire[p] \in Seq(Status) /\ wire[p] # <<>>
          BY <2>1
        <4> QED
          BY <4>1, LastTail
      <3>2. wire'[p] = Tail(wire[p])
        BY <2>1
      <3> QED
        BY <3>1, <3>2
    <2> HIDE DEF h
    <2>4. CallMatchesStream(p)' /\ ReceiverMatchesStream(p)'
      BY <1>b, <2>1, <2>2 DEF PageInv, CallMatchesStream, ReceiverMatchesStream
    <2>5. OnTheWayIsKnown(p)'
      <3> SUFFICES ASSUME ~gone[p], stream[p] = "open", NEW l \in Light
                   PROVE  /\ LastOf(wire'[p], l) \subseteq {known[p][l]}
                          /\ LastOf(wire'[p], l) = {} => (h.id = l => h.version = known[p][l])
        BY <1>b, <2>1 DEF OnTheWayIsKnown
      <3>1. LastOf(wire[p], l) \subseteq {known[p][l]}
        BY DEF PageInv, OnTheWayIsKnown
      <3> QED
        BY <2>3, <3>1
    <2>6. Serving(p)' <=> Serving(p)
      BY <1>b, <2>1 DEF Serving
    <2>7. \A l \in Light : NothingOnTheWay(p, l)' => NothingOnTheWay(p, l)
      BY <1>b, <2>1, <2>2, <2>3 DEF NothingOnTheWay
    <2>8. ASSUME NEW l \in Light PROVE SnapshotIsCurrent(p, l)' /\ RowIsCurrent(p, l)'
      BY <1>b, <1>c, <1>d, <2>1, <2>6, <2>7 DEF PageInv, SnapshotIsCurrent, RowIsCurrent, SamePage,
         SameRows
    <2> QED
      BY <1>c, <2>4, <2>5, <2>8 DEF PageInv
  <1>7. ASSUME NEW m \in Light, SnapshotReads(p, m) PROVE PageInv(p)'
    <2>1. PICK row \in {light[m], Unknown} : got' = [got EXCEPT ![p][m] = row]
      BY <1>7 DEF SnapshotReads, fetchLight
    <2>2. /\ at[p] = "snapshot" /\ got[p][m] = None
          /\ \/ at'[p] = "snapshot"
             \/ at'[p] = "sending" /\ \A l \in Light \ {m} : got[p][l] # None
          /\ gone'[p] = gone[p] /\ stream'[p] = stream[p] /\ wire'[p] = wire[p]
          /\ receiver'[p] = receiver[p] /\ held'[p] = held[p]
      BY <1>7 DEF SnapshotReads, HandlerTypes
    <2>3. \A l \in Light : got'[p][l] = IF l = m THEN row ELSE got[p][l]
      BY <2>1 DEF HandlerTypes
    <2>4. row # None
      <3>1. light[m] \in Nat
        BY WatchAssumption DEF IInv, TypeOK, Version
      <3> QED
        BY <3>1, HomeAssumption
    <2>5. CallMatchesStream(p)' /\ OnTheWayIsKnown(p)' /\ ReceiverMatchesStream(p)'
      BY <1>b, <2>2 DEF PageInv, CallMatchesStream, OnTheWayIsKnown, ReceiverMatchesStream
    <2>6. ASSUME NEW l \in Light PROVE SnapshotIsCurrent(p, l)' /\ RowIsCurrent(p, l)'
      <3>1. (Serving(p)' <=> Serving(p)) /\ (NothingOnTheWay(p, l)' <=> NothingOnTheWay(p, l))
        BY <1>b, <2>2 DEF Serving, NothingOnTheWay
      <3>2. RowIsCurrent(p, l)'
        BY <2>2, <2>3, <2>4 DEF RowIsCurrent
      <3>3. SnapshotIsCurrent(p, l)'
        BY <1>b, <2>3, <3>1 DEF PageInv, SnapshotIsCurrent
      <3> QED
        BY <3>2, <3>3
    <2> QED
      BY <1>c, <2>5, <2>6 DEF PageInv
  <1> QED
    BY <1>1, <1>2, <1>3, <1>4, <1>5, <1>6, <1>7

\* A row that is shown is the newest row the page has, dragged or not, unless
\* the page has none of the light.
LEMMA ShowRowIs ==
  ASSUME PageTypes, NEW p \in Watcher, RowsWaitForDrag(p),
         NEW l \in Light, NEW row, showRow(p, l, row)
  PROVE  /\ RowOf(p, l)' \in {row, None}
         /\ \A m \in Light \ {l} : RowOf(p, m)' = RowOf(p, m)
         /\ drag'[p] = drag[p] /\ post'[p] \in {post[p], NoPost} => RowsWaitForDrag(p)'
  <1>1. CASE drag[p] = l
    <2> DEFINE r == [id |-> l, version |-> row]
    <2>1. shown'[p] = shown[p] /\ pendingRow'[p] = {r}
      BY <1>1 DEF showRow, PageTypes
    <2>2. r.id = l /\ r.version = row
      OBVIOUS
    <2> HIDE DEF r
    <2>3. (CHOOSE x \in {r} : x.id = l) = r
      BY <2>2
    <2>4. RowOf(p, l)' = row
      BY <2>1, <2>2, <2>3 DEF RowOf
    <2>5. ASSUME NEW m \in Light \ {l} PROVE RowOf(p, m)' = RowOf(p, m)
      <3>1. ~ \E x \in pendingRow[p] : x.id = m
        BY <1>1 DEF RowsWaitForDrag
      <3>2. ~ \E x \in pendingRow'[p] : x.id = m
        BY <2>1, <2>2
      <3> QED
        BY <2>1, <3>1, <3>2 DEF RowOf
    <2>6. drag'[p] = drag[p] /\ post'[p] \in {post[p], NoPost} => RowsWaitForDrag(p)'
      BY <1>1, <2>1, <2>2 DEF RowsWaitForDrag, NoPost
    <2> QED
      BY <2>4, <2>5, <2>6
  <1>2. CASE drag[p] # l
    <2>1. /\ pendingRow'[p] = pendingRow[p]
          /\ \/ shown'[p] = [shown[p] EXCEPT ![l] = row]
             \/ shown'[p] = shown[p] /\ shown[p][l] = None
          /\ shown[p] \in [Light -> Row \cup {None}]
      BY <1>2 DEF showRow, PageTypes
    <2>2. ~ \E x \in pendingRow[p] : x.id = l
      BY <1>2 DEF RowsWaitForDrag
    <2>3. RowOf(p, l)' \in {row, None}
      BY <2>1, <2>2 DEF RowOf
    <2>4. ASSUME NEW m \in Light \ {l} PROVE RowOf(p, m)' = RowOf(p, m)
      <3>1. shown'[p][m] = shown[p][m]
        BY <2>1
      <3> QED
        BY <2>1, <3>1 DEF RowOf
    <2>5. drag'[p] = drag[p] /\ post'[p] \in {post[p], NoPost} => RowsWaitForDrag(p)'
      BY <2>1 DEF RowsWaitForDrag, NoPost
    <2> QED
      BY <2>3, <2>4, <2>5
  <1> QED
    BY <1>1, <1>2
\* The steps in which the page gets the row of an event.
LEMMA RowStep ==
  ASSUME IInv, HandlerTypes, PageTypes, NEW p \in Watcher, PageInv(p), HomeNext,
         Update(p) \/ \E l \in Light : SendSnapshot(p, l)
  PROVE  PageInv(p)'
  <1>a. UNCHANGED vars
    BY DEF Update, SendSnapshot
  <1>b. /\ call' = call /\ subscribers' = subscribers /\ closedChans' = closedChans
        /\ known' = known /\ updates' = updates /\ light' = light
        /\ \A l : Excused(l)' <=> Excused(l)
    BY <1>a DEF vars, watcherVars, deviceVars, readerVars, Excused, Pending
  <1>c. ASSUME NEW m \in Light, NEW row, Event(p, m, row)
        PROVE  /\ RowOf(p, m)' \in {row, None}
               /\ \A l \in Light \ {m} : /\ RowOf(p, l)' = RowOf(p, l)
                                         /\ l \in overtaken'[p] <=> l \in overtaken[p]
               /\ RowsWaitForDrag(p)'
    <2>1. /\ RowOf(p, m)' \in {row, None}
          /\ \A l \in Light \ {m} : RowOf(p, l)' = RowOf(p, l)
          /\ RowsWaitForDrag(p)'
      BY <1>c, ShowRowIs DEF Event, PageInv
    <2>2. \A l \in Light \ {m} : l \in overtaken'[p] <=> l \in overtaken[p]
      BY <1>c DEF Event, PageTypes
    <2> QED
      BY <2>1, <2>2
  <1>1. ASSUME NEW m \in Light, SendSnapshot(p, m) PROVE PageInv(p)'
    <2>1. /\ at[p] = "sending" /\ got[p][m] # None /\ Event(p, m, got[p][m])
          /\ \/ at'[p] = "sending"
             \/ at'[p] = "loop" /\ \A l \in Light \ {m} : got[p][l] = None
          /\ gone'[p] = gone[p] /\ stream'[p] = stream[p] /\ wire'[p] = wire[p]
          /\ receiver'[p] = receiver[p] /\ held'[p] = held[p]
      BY <1>1 DEF SendSnapshot, HandlerTypes
    <2>2. \A l \in Light : got'[p][l] = IF l = m THEN None ELSE got[p][l]
      BY <1>1 DEF SendSnapshot, HandlerTypes
    <2>3. CallMatchesStream(p)' /\ OnTheWayIsKnown(p)' /\ ReceiverMatchesStream(p)'
      BY <1>b, <2>1, <2>2 DEF PageInv, CallMatchesStream, OnTheWayIsKnown, ReceiverMatchesStream
    <2>4. /\ RowOf(p, m)' \in {got[p][m], None}
          /\ \A l \in Light \ {m} : /\ RowOf(p, l)' = RowOf(p, l)
                                    /\ l \in overtaken'[p] <=> l \in overtaken[p]
          /\ RowsWaitForDrag(p)'
      BY <1>c, <2>1
    <2>5. ASSUME NEW l \in Light PROVE SnapshotIsCurrent(p, l)' /\ RowIsCurrent(p, l)'
      <3>1. (Serving(p)' <=> Serving(p)) /\ (NothingOnTheWay(p, l)' <=> NothingOnTheWay(p, l))
        BY <1>b, <2>1 DEF Serving, NothingOnTheWay
      <3>2. SnapshotIsCurrent(p, l) /\ RowIsCurrent(p, l)
        BY DEF PageInv
      <3>3. CASE l = m
        BY <1>b, <2>1, <2>2, <2>4, <3>1, <3>2, <3>3 DEF SnapshotIsCurrent, RowIsCurrent
      <3>4. CASE l # m
        BY <1>b, <2>1, <2>2, <2>4, <3>1, <3>2, <3>4 DEF SnapshotIsCurrent, RowIsCurrent
      <3> QED
        BY <3>3, <3>4
    <2> QED
      BY <2>3, <2>4, <2>5 DEF PageInv
  <1>2. CASE Update(p)
    <2>1. PICK status \in held[p] : Event(p, status.id, status.version)
      BY <1>2 DEF Update
    <2>2. /\ at[p] = "loop" /\ receiver[p] = "select" /\ ~gone[p]
          /\ held'[p] = {} /\ receiver'[p] = "recv"
          /\ at'[p] = at[p] /\ gone'[p] = gone[p] /\ stream'[p] = stream[p]
          /\ wire'[p] = wire[p] /\ got'[p] = got[p]
      BY <1>2 DEF Update, HandlerTypes
    <2>3. status.id \in Light
      BY Messages DEF HandlerTypes
    <2> DEFINE m == status.id
    <2>4. /\ RowOf(p, m)' \in {status.version, None}
          /\ \A l \in Light \ {m} : /\ RowOf(p, l)' = RowOf(p, l)
                                    /\ l \in overtaken'[p] <=> l \in overtaken[p]
          /\ RowsWaitForDrag(p)'
      BY <1>c, <2>1, <2>3
    <2>5. CallMatchesStream(p)' /\ ReceiverMatchesStream(p)'
      BY <1>b, <2>2 DEF PageInv, CallMatchesStream, ReceiverMatchesStream
    <2>6. OnTheWayIsKnown(p)'
      BY <1>b, <2>2 DEF PageInv, OnTheWayIsKnown
    <2>7. \A l \in Light : got'[p][l] = None
      BY <2>2 DEF PageInv, ReceiverMatchesStream
    <2>8. ASSUME NEW l \in Light PROVE RowIsCurrent(p, l)'
      <3> SUFFICES ASSUME Serving(p)', NothingOnTheWay(p, l)'
                   PROVE  \/ RowOf(p, l)' \in {light[l], Unknown, None}
                          \/ Excused(l) \/ l \in overtaken'[p]
        BY <1>b DEF RowIsCurrent
      <3>1. Serving(p) /\ LastOf(updates[p], l) = {} /\ LastOf(wire[p], l) = {}
        BY <1>b, <2>2 DEF Serving, NothingOnTheWay
      <3>2. stream[p] = "open" /\ p \in subscribers
        BY <2>2, <3>1 DEF PageInv, CallMatchesStream, ReceiverMatchesStream, Serving, HandlerTypes
      <3>3. CASE l = m
        <4>1. status.version = known[p][l]
          BY <2>2, <3>1, <3>2, <3>3 DEF PageInv, OnTheWayIsKnown
        <4>2. Newest(p, l) = {light[l]} \/ Excused(l)
          BY <3>2 DEF IInv, SubscribersGetAll
        <4>3. Newest(p, l) = {known[p][l]}
          BY <3>1 DEF Newest
        <4> QED
          BY <2>4, <3>3, <4>1, <4>2, <4>3
      <3>4. CASE l # m
        <4>1. \A r \in held[p] : r.id # l
          BY <3>4 DEF PageInv, ReceiverMatchesStream
        <4>2. NothingOnTheWay(p, l) /\ got[p][l] = None
          BY <2>2, <2>7, <3>1, <4>1 DEF NothingOnTheWay
        <4> QED
          BY <2>2, <2>4, <3>1, <3>4, <4>2 DEF PageInv, RowIsCurrent
      <3> QED
        BY <3>3, <3>4
    <2>9. \A l \in Light : SnapshotIsCurrent(p, l)'
      BY <2>7 DEF SnapshotIsCurrent
    <2> QED
      BY <2>4, <2>5, <2>6, <2>8, <2>9 DEF PageInv
  <1> QED
    BY <1>1, <1>2

\* What the viewer does: load, drag, post.
LEMMA ViewerStep ==
  ASSUME IInv, HandlerTypes, PageTypes, NEW p \in Watcher, PageInv(p), HomeNext,
         \/ LoadPage(p) \/ PostReads(p) \/ PostShown(p) \/ PostFails(p) \/ EndDrag(p)
         \/ \E l \in Light : PostSets(p, l) \/ StartDrag(p, l)
  PROVE  PageInv(p)'
  <1>a. SameHandler(p)
    BY DEF SameHandler, handlerVars, LoadPage, PostReads, PostShown, PostFails, EndDrag, PostSets,
       StartDrag
  <1>b. SameCall(p)
    BY DEF SameCall, vars, watcherVars, LoadPage, PostReads, PostShown, PostFails, EndDrag,
       PostSets, LightChanges, StartDrag
  <1>c. ASSUME SameRows(p), RowsWaitForDrag(p)' PROVE PageInv(p)'
    BY <1>a, <1>b, <1>c, RowOfSame, RowsStand DEF SameRows
  <1>1. CASE LoadPage(p)
    <2>1. at[p] = "closed" /\ pendingRow'[p] = {} /\ post'[p] = NoPost
      BY <1>1 DEF LoadPage, PageTypes
    <2>2. /\ call' = call /\ subscribers' = subscribers /\ closedChans' = closedChans
          /\ known' = known
      BY <1>1 DEF LoadPage, vars, watcherVars
    <2>3. /\ CallMatchesStream(p)' /\ OnTheWayIsKnown(p)' /\ ReceiverMatchesStream(p)'
          /\ RowsWaitForDrag(p)'
      BY <1>a, <2>1, <2>2 DEF PageInv, CallMatchesStream, OnTheWayIsKnown, ReceiverMatchesStream,
         SameHandler, RowsWaitForDrag, NoPost
    <2>4. at'[p] \notin {"sending", "loop"} /\ \A l \in Light : got'[p][l] = None
      BY <1>a, <2>1 DEF PageInv, ReceiverMatchesStream, SameHandler
    <2> QED
      BY <2>3, <2>4, NotServedNext DEF PageInv
  <1>2. CASE PostReads(p)
    <2>1. post'[p].id = post[p].id /\ post[p].id \in Light
      BY <1>2 DEF PostReads, PageTypes
    <2>2. SameRows(p) /\ RowsWaitForDrag(p)'
      BY <1>2, <2>1 DEF PostReads, SameRows, PageInv, RowsWaitForDrag
    <2> QED
      BY <1>c, <2>2
  <1>3. CASE PostFails(p)
    <2>1. post'[p] = NoPost
      BY <1>3 DEF PostFails, PageTypes
    <2>2. SameRows(p) /\ RowsWaitForDrag(p)'
      BY <1>3, <2>1 DEF PostFails, SameRows, PageInv, RowsWaitForDrag, NoPost
    <2> QED
      BY <1>c, <2>2
  <1>4. ASSUME NEW l \in Light, PostSets(p, l) PROVE PageInv(p)'
    <2>1. post'[p].id = l
      BY <1>4 DEF PostSets, PageTypes
    <2>2. SameRows(p) /\ RowsWaitForDrag(p)'
      BY <1>4, <2>1 DEF PostSets, SameRows, PageInv, RowsWaitForDrag
    <2> QED
      BY <1>c, <2>2
  <1>5. ASSUME NEW l \in Light, StartDrag(p, l) PROVE PageInv(p)'
    <2>1. pendingRow[p] = {}
      BY <1>5, WatchAssumption DEF StartDrag, PageInv, RowsWaitForDrag, PageTypes
    <2>2. SameRows(p) /\ RowsWaitForDrag(p)'
      BY <1>5, <2>1 DEF StartDrag, SameRows, PageInv, RowsWaitForDrag
    <2> QED
      BY <1>c, <2>2
  <1>6. CASE EndDrag(p)
    <2>1. /\ pendingRow'[p] = {} /\ overtaken'[p] = overtaken[p] /\ post' = post
          /\ \A l \in Light : shown'[p][l] = RowOf(p, l)
      BY <1>6 DEF EndDrag, PageTypes
    <2>2. \A l \in Light : RowOf(p, l)' = shown'[p][l]
      BY <2>1 DEF RowOf
    <2>3. RowsWaitForDrag(p)'
      BY <2>1 DEF PageInv, RowsWaitForDrag
    <2> QED
      BY <1>a, <1>b, <2>1, <2>2, <2>3, RowsStand
  <1>7. CASE PostShown(p)
    <2>0. post[p].row # {}
      BY <1>7 DEF PostShown
    <2>2. PICK m \in Light : m = post[p].id
      BY <2>0 DEF PageInv, RowsWaitForDrag
    <2>1. PICK row \in post[p].row :
            /\ showRow(p, m, row)
            /\ overtaken' = IF row # light[m] THEN [overtaken EXCEPT ![p] = @ \cup {m}]
                             ELSE overtaken
      BY <1>7, <2>2 DEF PostShown
    <2>3. drag'[p] = drag[p] /\ post'[p] \in {post[p], NoPost}
      BY <1>7 DEF PostShown, PageTypes
    <2>4. /\ RowOf(p, m)' \in {row, None}
          /\ \A l \in Light \ {m} : RowOf(p, l)' = RowOf(p, l)
          /\ RowsWaitForDrag(p)'
      BY <2>1, <2>2, <2>3, ShowRowIs DEF PageInv
    <2>5. /\ row = light[m] \/ m \in overtaken'[p]
          /\ \A l \in Light : l \in overtaken[p] => l \in overtaken'[p]
      <3>1. overtaken \in [Watcher -> SUBSET Light]
        BY DEF PageTypes
      <3>2. CASE row = light[m]
        BY <2>1, <3>2
      <3>3. CASE row # light[m]
        <4>1. overtaken' = [overtaken EXCEPT ![p] = @ \cup {m}]
          BY <2>1, <3>3
        <4>2. overtaken'[p] = overtaken[p] \cup {m}
          BY <3>1, <4>1
        <4> QED
          BY <4>2
      <3> QED
        BY <3>2, <3>3
    <2>6. /\ call' = call /\ subscribers' = subscribers /\ closedChans' = closedChans
          /\ known' = known /\ updates' = updates /\ light' = light
          /\ \A l : Excused(l)' <=> Excused(l)
      BY <1>7 DEF PostShown, vars, watcherVars, deviceVars, readerVars, Excused, Pending
    <2>7. CallMatchesStream(p)' /\ OnTheWayIsKnown(p)' /\ ReceiverMatchesStream(p)'
      BY <1>a, <2>6 DEF PageInv, CallMatchesStream, OnTheWayIsKnown, ReceiverMatchesStream,
         SameHandler
    <2>8. ASSUME NEW l \in Light PROVE SnapshotIsCurrent(p, l)' /\ RowIsCurrent(p, l)'
      <3>1. (Serving(p)' <=> Serving(p)) /\ (NothingOnTheWay(p, l)' <=> NothingOnTheWay(p, l))
        BY <1>a, <2>6 DEF Serving, NothingOnTheWay, SameHandler
      <3>2. SnapshotIsCurrent(p, l) /\ RowIsCurrent(p, l)
        BY DEF PageInv
      <3>3. SnapshotIsCurrent(p, l)'
        BY <1>a, <2>6, <3>1, <3>2 DEF SnapshotIsCurrent, SameHandler
      <3>4. RowIsCurrent(p, l)'
        <4>1. CASE l = m
          BY <2>4, <2>5, <2>6, <4>1 DEF RowIsCurrent
        <4>2. CASE l # m
          <5>1. RowOf(p, l)' = RowOf(p, l) /\ (l \in overtaken[p] => l \in overtaken'[p])
            BY <2>4, <2>5, <4>2
          <5>2. got'[p] = got[p] /\ at'[p] = at[p]
            BY <1>a DEF SameHandler
          <5> QED
            BY <2>6, <3>1, <3>2, <5>1, <5>2 DEF RowIsCurrent
        <4> QED
          BY <4>1, <4>2
      <3> QED
        BY <3>3, <3>4
    <2> QED
      BY <2>4, <2>7, <2>8 DEF PageInv
  <1> QED
    BY <1>1, <1>2, <1>3, <1>4, <1>5, <1>6, <1>7
\* A step of one page is none of another's.
LEMMA OtherPages ==
  ASSUME TypeOK, HandlerTypes, PageTypes, \A x \in Watcher : PageInv(x),
         NEW q \in Watcher, NEW p \in Watcher \ {q},
         \/ CallArrives(q) \/ HeaderSent(q) \/ StatusSent(q) \/ CallEnds(q)
         \/ HeaderReceived(q) \/ Return(q)
         \/ \E l \in Light : SnapshotReads(q, l) \/ SendSnapshot(q, l)
         \/ Recv(q) \/ ReceiverEnds(q) \/ Update(q)
         \/ LoadPage(q) \/ OpenEvents(q) \/ PageLeaves(q)
         \/ PostReads(q) \/ PostShown(q) \/ PostFails(q) \/ EndDrag(q)
         \/ \E l \in Light : PostSets(q, l) \/ StartDrag(q, l)
  PROVE  SameHandler(p) /\ SamePage(p) /\ SameCall(p)
  <1> DEFINE Goal == SameHandler(p) /\ SamePage(p) /\ SameCall(p)
  <1>a. UNCHANGED handlerVars => SameHandler(p)
    BY DEF handlerVars, SameHandler
  <1>b. UNCHANGED pageVars => SamePage(p)
    BY DEF pageVars, SamePage, SameRows
  <1>c. UNCHANGED vars => SameCall(p)
    BY DEF vars, watcherVars, SameCall
  <1>1. CASE CallArrives(q)
    <2>1. SameCall(p)
      BY <1>1 DEF CallArrives, Subscribe, SameCall, TypeOK
    <2> QED
      BY <1>1, <1>a, <1>b, <2>1 DEF CallArrives
  <1>2. CASE HeaderSent(q)
    <2>1. SameCall(p)
      BY <1>2 DEF HeaderSent, SendHeader, SameCall, TypeOK
    <2>2. SameHandler(p)
      BY <1>2 DEF HeaderSent, SameHandler, HandlerTypes
    <2> QED
      BY <1>2, <1>b, <2>1, <2>2 DEF HeaderSent
  <1>3. CASE StatusSent(q)
    <2>1. SameCall(p)
      BY <1>3 DEF StatusSent, Send, SameCall, TypeOK
    <2>2. SameHandler(p)
      BY <1>3 DEF StatusSent, SameHandler, HandlerTypes
    <2> QED
      BY <1>3, <1>b, <2>1, <2>2 DEF StatusSent
  <1>4. CASE CallEnds(q)
    <2>1. HandlerReturns(q)
      BY <1>4 DEF CallEnds, WatchEnded, ClientLeaves
    <2>2. SameCall(p)
      BY <2>1 DEF HandlerReturns, SameCall, TypeOK
    <2>3. SameHandler(p)
      BY <1>4 DEF CallEnds, SameHandler, HandlerTypes
    <2> QED
      BY <1>4, <1>b, <2>2, <2>3 DEF CallEnds
  <1>5. CASE \/ HeaderReceived(q) \/ Return(q) \/ Recv(q) \/ ReceiverEnds(q) \/ OpenEvents(q)
             \/ PageLeaves(q) \/ \E l \in Light : SnapshotReads(q, l)
    <2>1. UNCHANGED vars /\ UNCHANGED pageVars
      BY <1>5 DEF HeaderReceived, Return, Recv, ReceiverEnds, OpenEvents, PageLeaves, SnapshotReads
    <2>2. ASSUME HeaderReceived(q) PROVE SameHandler(p)
      BY <2>2 DEF HeaderReceived, SameHandler, HandlerTypes
    <2>3. ASSUME Return(q) PROVE SameHandler(p)
      BY <2>3 DEF Return, SameHandler, HandlerTypes
    <2>4. ASSUME Recv(q) PROVE SameHandler(p)
      BY <2>4 DEF Recv, SameHandler, HandlerTypes
    <2>5. ASSUME ReceiverEnds(q) PROVE SameHandler(p)
      BY <2>5 DEF ReceiverEnds, SameHandler, HandlerTypes
    <2>6. ASSUME OpenEvents(q) PROVE SameHandler(p)
      BY <2>6 DEF OpenEvents, SameHandler, HandlerTypes
    <2>7. ASSUME PageLeaves(q) PROVE SameHandler(p)
      BY <2>7 DEF PageLeaves, SameHandler, HandlerTypes
    <2>8. ASSUME NEW l \in Light, SnapshotReads(q, l) PROVE SameHandler(p)
      BY <2>8 DEF SnapshotReads, SameHandler, HandlerTypes
    <2>9. SameHandler(p)
      BY <1>5, <2>2, <2>3, <2>4, <2>5, <2>6, <2>7, <2>8
    <2> QED
      BY <1>b, <1>c, <2>1, <2>9
  <1>d. ASSUME NEW l \in Light, NEW row \in Row, Event(q, l, row) PROVE SamePage(p)
    <2>1. shown'[p] = shown[p] /\ pendingRow'[p] = pendingRow[p]
      BY <1>d, ShowRowTypes DEF Event
    <2> QED
      BY <1>d, <2>1 DEF Event, SamePage, SameRows, PageTypes
  <1>e. Version \subseteq Row
    BY DEF Row
  <1>6. ASSUME NEW l \in Light, SendSnapshot(q, l) PROVE Goal
    <2>1. UNCHANGED vars
      BY <1>6 DEF SendSnapshot
    <2>2. SameHandler(p)
      BY <1>6 DEF SendSnapshot, SameHandler, HandlerTypes
    <2>3. got[q][l] \in Row /\ Event(q, l, got[q][l])
      BY <1>6 DEF SendSnapshot, HandlerTypes
    <2> QED
      BY <1>c, <1>d, <2>1, <2>2, <2>3
  <1>7. CASE Update(q)
    <2>1. UNCHANGED vars
      BY <1>7 DEF Update
    <2>2. SameHandler(p)
      BY <1>7 DEF Update, SameHandler, HandlerTypes
    <2>3. PICK status \in held[q] : Event(q, status.id, status.version)
      BY <1>7 DEF Update
    <2>4. status.id \in Light /\ status.version \in Row
      BY <1>e, Messages DEF HandlerTypes
    <2> QED
      BY <1>c, <1>d, <2>1, <2>2, <2>3, <2>4
  <1>8. CASE LoadPage(q)
    <2>1. SamePage(p)
      BY <1>8 DEF LoadPage, SamePage, SameRows, PageTypes
    <2> QED
      BY <1>8, <1>a, <1>c, <2>1 DEF LoadPage
  <1>9. CASE PostReads(q) \/ PostFails(q)
    <2>1. SamePage(p)
      BY <1>9 DEF PostReads, PostFails, SamePage, SameRows, PageTypes
    <2> QED
      BY <1>9, <1>a, <1>c, <2>1 DEF PostReads, PostFails
  <1>10. CASE PostShown(q)
    <2>1. PICK row \in post[q].row :
            /\ showRow(q, post[q].id, row)
            /\ overtaken' = IF row # light[post[q].id]
                              THEN [overtaken EXCEPT ![q] = @ \cup {post[q].id}]
                              ELSE overtaken
      BY <1>10 DEF PostShown
    <2>2. post[q].id \in Light /\ row \in Row
      BY <1>e DEF PageTypes, PageInv, RowsWaitForDrag
    <2>3. shown'[p] = shown[p] /\ pendingRow'[p] = pendingRow[p]
      BY <2>1, <2>2, ShowRowTypes
    <2>4. overtaken'[p] = overtaken[p]
      BY <2>1 DEF PageTypes
    <2>5. SamePage(p)
      BY <1>10, <2>3, <2>4 DEF PostShown, SamePage, SameRows, PageTypes
    <2> QED
      BY <1>10, <1>a, <1>c, <2>5 DEF PostShown
  <1>11. CASE EndDrag(q)
    <2>1. SamePage(p)
      BY <1>11 DEF EndDrag, SamePage, SameRows, PageTypes
    <2> QED
      BY <1>11, <1>a, <1>c, <2>1 DEF EndDrag
  <1>12. ASSUME NEW l \in Light, PostSets(q, l) PROVE Goal
    <2>1. SamePage(p)
      BY <1>12 DEF PostSets, SamePage, SameRows, PageTypes
    <2>2. SameCall(p)
      BY <1>12 DEF PostSets, LightChanges, watcherVars, SameCall
    <2> QED
      BY <1>12, <1>a, <2>1, <2>2 DEF PostSets
  <1>13. ASSUME NEW l \in Light, StartDrag(q, l) PROVE Goal
    <2>1. SamePage(p)
      BY <1>13 DEF StartDrag, SamePage, SameRows, PageTypes
    <2> QED
      BY <1>13, <1>a, <1>c, <2>1 DEF StartDrag
  <1> QED
    BY <1>1, <1>2, <1>3, <1>4, <1>5, <1>6, <1>7, <1>8, <1>9, <1>10, <1>11, <1>12, <1>13

\* No page is open in the initial state.
LEMMA HomeInvInit == HomeInit => HomeInv
  <1> SUFFICES ASSUME HomeInit PROVE HomeInv
    OBVIOUS
  <1>1. IInv
    BY InitIInv DEF HomeInit
  <1>2. HandlerTypes
    <2>1. wire \in [Watcher -> Seq(Status)]
      BY DEF HomeInit
    <2>2. got \in [Watcher -> [Light -> Row \cup {None}]]
      BY DEF HomeInit
    <2> QED
      BY <2>1, <2>2 DEF HomeInit, HandlerTypes
  <1>3. PageTypes
    <2>1. shown \in [Watcher -> [Light -> Row \cup {None}]]
      BY <1>1 DEF HomeInit, IInv, TypeOK, Row
    <2>2. post \in [Watcher -> [id : Light \cup {None}, row : SUBSET Version]]
      BY DEF HomeInit, NoPost
    <2> QED
      BY <2>1, <2>2, HomeAssumption DEF HomeInit, PageTypes
  <1>4. ASSUME NEW p \in Watcher PROVE PageInv(p)
    <2>1. /\ call[p] = "idle" /\ stream[p] = "none" /\ receiver[p] = "off" /\ wire[p] = <<>>
          /\ held[p] = {} /\ at[p] = "closed" /\ gone[p] = TRUE
          /\ \A l \in Light : got[p][l] = None
          /\ pendingRow[p] = {} /\ post[p] = NoPost
      BY DEF HomeInit, Init
    <2>2. \A l \in Light : SnapshotIsCurrent(p, l) /\ RowIsCurrent(p, l)
      BY <2>1 DEF SnapshotIsCurrent, RowIsCurrent, Serving
    <2> QED
      BY <2>1, <2>2 DEF PageInv, CallMatchesStream, ReceiverMatchesStream, OnTheWayIsKnown,
         RowsWaitForDrag, NoPost
  <1> QED
    BY <1>1, <1>2, <1>3, <1>4, HomeTypes DEF HomeInv, IInv

\* Every step keeps the invariant of every page.
LEMMA HomeInvNext == HomeInv /\ [HomeNext]_homeVars => HomeInv'
  <1>1. ASSUME HomeInv, HomeNext PROVE HomeInv'
    <2>1. IInv /\ TypeOK /\ HandlerTypes /\ PageTypes /\ \A p \in Watcher : PageInv(p)
      BY <1>1, HomeTypes DEF HomeInv
    <2>2. IInv'
      BY <1>1, <2>1, HomeIsWatch, NextIInv
    <2>3. HandlerTypes' /\ PageTypes'
      BY <1>1, <2>1, HandlerTypeStep, PageTypeStep
    <2>4. HomeTypeOK'
      BY <2>2, <2>3 DEF HomeTypeOK, HandlerTypes, PageTypes, IInv
    <2>5. ASSUME NEW p \in Watcher PROVE PageInv(p)'
      <3>1. CASE ServiceStep
        <4>1. SameHandler(p) /\ SamePage(p)
          BY <3>1 DEF ServiceStep, handlerVars, pageVars, SameHandler, SamePage, SameRows
        <4>2. SameCall(p) \/ Publish \/ CloseBroadcaster
          <5>1. UNCHANGED watcherVars => SameCall(p)
            BY DEF watcherVars, SameCall
          <5>2. UNCHANGED watcherVars \/ Publish \/ CloseBroadcaster
            BY <3>1 DEF ServiceStep, LightChanges, Deliver, Receive, BroadcastStep, TakeChanged,
               LightAnswers, ReadFails
          <5> QED
            BY <5>1, <5>2
        <4> QED
          BY <1>1, <2>1, <4>1, <4>2, QuietStep
      <3>2. ASSUME NEW q \in Watcher,
                   \/ CallArrives(q) \/ HeaderSent(q) \/ StatusSent(q) \/ CallEnds(q)
                   \/ HeaderReceived(q) \/ Return(q)
                   \/ \E l \in Light : SnapshotReads(q, l) \/ SendSnapshot(q, l)
                   \/ Recv(q) \/ ReceiverEnds(q) \/ Update(q)
                   \/ LoadPage(q) \/ OpenEvents(q) \/ PageLeaves(q)
                   \/ PostReads(q) \/ PostShown(q) \/ PostFails(q) \/ EndDrag(q)
                   \/ \E l \in Light : PostSets(q, l) \/ StartDrag(q, l)
            PROVE  PageInv(p)'
        <4>1. CASE p # q
          <5>1. SameHandler(p) /\ SamePage(p) /\ SameCall(p)
            BY <2>1, <3>2, <4>1, OtherPages
          <5> QED
            BY <1>1, <2>1, <5>1, QuietStep
        <4>2. CASE p = q
          <5>1. \/ CallArrives(p) \/ HeaderSent(p) \/ StatusSent(p) \/ CallEnds(p)
                \/ HeaderReceived(p) \/ Return(p) \/ PageLeaves(p) \/ OpenEvents(p)
                \/ ReceiverEnds(p) \/ Recv(p) \/ \E l \in Light : SnapshotReads(p, l)
                \/ Update(p) \/ \E l \in Light : SendSnapshot(p, l)
                \/ LoadPage(p) \/ PostReads(p) \/ PostShown(p) \/ PostFails(p) \/ EndDrag(p)
                \/ \E l \in Light : PostSets(p, l) \/ StartDrag(p, l)
            BY <3>2, <4>2
          <5> QED
            BY <1>1, <2>1, <5>1, CallStep, EventsStep, RowStep, ViewerStep
        <4> QED
          BY <4>1, <4>2
      <3> QED
        BY <1>1, <3>1, <3>2, HomeStepKinds
    <2> QED
      BY <2>2, <2>4, <2>5 DEF HomeInv
  <1>2. ASSUME HomeInv, UNCHANGED homeVars PROVE HomeInv'
    <2>1. UNCHANGED vars /\ UNCHANGED handlerVars /\ UNCHANGED pageVars
      BY <1>2 DEF homeVars
    <2>2. IInv'
      BY <1>2, <2>1, NextIInv DEF HomeInv
    <2>3. HandlerTypes' /\ PageTypes'
      BY <1>2, <2>1, HomeTypes DEF HomeInv, HandlerTypes, PageTypes, handlerVars, pageVars
    <2>4. HomeTypeOK'
      BY <2>2, <2>3 DEF HomeTypeOK, HandlerTypes, PageTypes, IInv
    <2>5. ASSUME NEW p \in Watcher PROVE PageInv(p)'
      <3>1. /\ call' = call /\ subscribers' = subscribers /\ closedChans' = closedChans
            /\ known' = known /\ updates' = updates /\ light' = light
            /\ \A l : Excused(l)' <=> Excused(l)
        BY <2>1 DEF vars, watcherVars, deviceVars, readerVars, Excused, Pending
      <3>2. SameHandler(p) /\ SamePage(p)
        BY <2>1 DEF handlerVars, pageVars, SameHandler, SamePage, SameRows
      <3>3. \A l : RowOf(p, l)' = RowOf(p, l)
        BY <3>2, RowOfSame DEF SamePage, SameRows
      <3>4. PageInv(p)
        BY <1>2 DEF HomeInv
      <3>5. /\ CallMatchesStream(p)' /\ OnTheWayIsKnown(p)' /\ ReceiverMatchesStream(p)'
            /\ RowsWaitForDrag(p)'
        BY <3>1, <3>2, <3>4 DEF PageInv, CallMatchesStream, OnTheWayIsKnown,
           ReceiverMatchesStream, RowsWaitForDrag, SameHandler, SamePage, SameRows
      <3>6. ASSUME NEW l \in Light PROVE SnapshotIsCurrent(p, l)' /\ RowIsCurrent(p, l)'
        BY <3>1, <3>2, <3>3, <3>4 DEF PageInv, SnapshotIsCurrent, RowIsCurrent, SameHandler,
           SamePage, SameRows, Serving, NothingOnTheWay
      <3> QED
        BY <3>5, <3>6 DEF PageInv
    <2> QED
      BY <2>2, <2>4, <2>5 DEF HomeInv
  <1> QED
    BY <1>1, <1>2

\* The invariant of the pages.
LEMMA HomeInvAlways == HomeSpec => []HomeInv
  BY HomeInvInit, HomeInvNext, PTL DEF HomeSpec

\* Every handler, receiver and page is in one of its states, and forms are posted
\* and rows held back for lights that exist.
THEOREM HomeTypeCorrect == HomeSpec => []HomeTypeOK
  <1>1. HomeInv => HomeTypeOK
    BY DEF HomeInv
  <1> QED
    BY <1>1, HomeInvAlways, PTL

\* Only a light without a row on the page has none to come after a drag.
LEMMA RowOfRow ==
  ASSUME HomeInv, NEW p \in Watcher, NEW l \in Light, shown[p][l] # None
  PROVE  RowOf(p, l) # None
  <1>1. None \notin Row
    BY HomeAssumption DEF Row, Version
  <1>2. CASE \E row \in pendingRow[p] : row.id = l
    <2>1. (CHOOSE row \in pendingRow[p] : row.id = l) \in pendingRow[p]
      BY <1>2
    <2>2. \A row \in pendingRow[p] : row.version \in Row
      BY HomeTypes DEF HomeInv, PageTypes
    <2> QED
      BY <1>1, <1>2, <2>1, <2>2 DEF RowOf
  <1>3. CASE ~ \E row \in pendingRow[p] : row.id = l
    BY <1>3 DEF RowOf
  <1> QED
    BY <1>2, <1>3

\* "so the snapshot below cannot miss a change": for any number of lights, pages,
\* channel capacities and posted forms, once lightEvents has read a light a
\* page with a row for it has its state, will get it, or shows it as unknown, but for a change
\* that was given up on or a form's response that overtook a newer event.
THEOREM SnapshotMissesNothingAlways == HomeSpec => []SnapshotMissesNothing
  <1>1. ASSUME HomeInv, NEW p \in Watcher \ closedChans, NEW l \in Light,
               ~gone[p], stream[p] # "ended", at[p] = "loop" \/ got[p][l] # None,
               shown[p][l] # None
        PROVE  \/ Final(p, l) \subseteq {light[l], Unknown}
               \/ Pending(l)
               \/ l \in missed \cup overtaken[p]
    <2>1. IInv /\ PageInv(p) /\ HandlerTypes
      BY <1>1, HomeTypes DEF HomeInv
    <2>2. at[p] \in Connected
      BY <1>1, <2>1 DEF PageInv, ReceiverMatchesStream, HandlerTypes, Connected
    <2>3. stream[p] = "open" /\ p \in subscribers
      BY <1>1, <2>1, <2>2 DEF PageInv, CallMatchesStream, ReceiverMatchesStream, HandlerTypes,
         Connected
    <2>4. Newest(p, l) = {light[l]} \/ Excused(l)
      BY <2>1, <2>3 DEF IInv, SubscribersGetAll
    <2>5. Excused(l) => Pending(l) \/ l \in missed \cup overtaken[p]
      BY DEF Excused
    <2> SUFFICES ASSUME ~Excused(l), l \notin overtaken[p]
                 PROVE  Final(p, l) \subseteq {light[l], Unknown}
      BY <2>5
    <2> DEFINE offered == {s.version : s \in {s \in held[p] : s.id = l}}
    <2>6. CASE LastOf(updates[p], l) # {}
      BY <2>4, <2>6 DEF Newest, Final
    <2>7. CASE LastOf(updates[p], l) = {}
      <3>1. known[p][l] = light[l]
        BY <2>4, <2>7 DEF Newest
      <3>2. /\ LastOf(wire[p], l) \subseteq {light[l]}
            /\ LastOf(wire[p], l) = {} => \A s \in held[p] : s.id = l => s.version = light[l]
        BY <1>1, <2>1, <2>3, <3>1 DEF PageInv, OnTheWayIsKnown
      <3>3. CASE LastOf(wire[p], l) # {}
        BY <2>7, <3>2, <3>3 DEF Final
      <3>4. CASE LastOf(wire[p], l) = {} /\ offered # {}
        <4>1. offered \subseteq {light[l]}
          BY <3>2, <3>4
        <4>2. Final(p, l) = offered
          BY <2>7, <3>4 DEF Final
        <4> QED
          BY <4>1, <4>2
      <3>5. CASE LastOf(wire[p], l) = {} /\ offered = {}
        <4>1. \A s \in held[p] : s.id # l
          BY <3>5
        <4>2. NothingOnTheWay(p, l) /\ Serving(p)
          BY <1>1, <2>7, <3>5, <4>1 DEF NothingOnTheWay, Serving
        <4>3. Final(p, l) = IF got[p][l] # None THEN {got[p][l]} ELSE {RowOf(p, l)}
          BY <2>7, <3>5 DEF Final
        <4>4. got[p][l] # None => got[p][l] \in {light[l], Unknown}
          BY <2>1, <4>2 DEF PageInv, SnapshotIsCurrent
        <4>5. got[p][l] = None => RowOf(p, l) \in {light[l], Unknown}
          <5>1. RowOf(p, l) # None
            BY <1>1, RowOfRow
          <5> QED
            BY <1>1, <2>1, <4>2, <5>1 DEF PageInv, RowIsCurrent
        <4> QED
          BY <4>3, <4>4, <4>5
      <3> QED
        BY <3>3, <3>4, <3>5
    <2> QED
      BY <2>6, <2>7
  <1>2. HomeInv => SnapshotMissesNothing
    BY <1>1 DEF SnapshotMissesNothing
  <1> QED
    BY <1>2, HomeInvAlways, PTL
=============================================================================
