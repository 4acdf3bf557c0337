---------------------------- MODULE Temperature ----------------------------
(***************************************************************************)
(* The aquarium's temperature on its way to the pages of s-web-home.       *)
(* s-rpc-mqtt polls the pill and sets a gauge, one poller more for every   *)
(* connection to the broker; s-rpc-prometheus answers queries for it; all  *)
(* pages share a cached answer, and whoever finds it older than tempPeriod *)
(* queries again while it holds the mutex.  Time is counted in ticks.      *)
(***************************************************************************)
EXTENDS Naturals

CONSTANTS
  Viewer,        \* the open pages
  Reading,       \* what the pill may report
  NoReading,     \* the gauge has not been set
  tempUnknown,   \* what a page shows after a failed query
  tempPeriod,    \* for how long an answer is cached
  QueryTimeout,  \* the deadline of a query
  MaxTime,       \* bound: the last tick
  MaxPollers,    \* bound: connections to the broker
  MaxPromFaults  \* bound: queries that fail

ASSUME TemperatureAssumption ==
  /\ tempPeriod \in Nat \ {0}
  /\ QueryTimeout \in Nat
  /\ MaxTime \in Nat
  /\ MaxPollers \in Nat
  /\ MaxPromFaults \in Nat
  /\ NoReading \notin Reading
  /\ tempUnknown \notin Reading \cup {NoReading}

VARIABLES
  now,        \* the clock
  pollers,    \* running aquariumTempPollingForever
  gauge,      \* pill_temp, as Prometheus has it
  cachedTemp, \* the answer the pages share, and when it was stored
  viewer,     \* what a page does: "open", "querying", or "gone" during a query
  began,      \* when the running query began
  asked,      \* queries begun
  promFaults  \* queries that failed

tempVars == <<now, pollers, gauge, cachedTemp, viewer, began, asked, promFaults>>

TempInit ==
  /\ now = 0
  /\ pollers = 0
  /\ gauge = NoReading
  /\ cachedTemp = [value |-> NoReading, at |-> MaxTime + 1]
  /\ viewer = [v \in Viewer |-> "open"]
  /\ began = 0
  /\ asked = 0
  /\ promFaults = 0

-----------------------------------------------------------------------------
(* s-rpc-mqtt.                                                             *)

\* OnConnectionUp starts a poller; the earlier ones go on.
aquariumTempPollingForever ==
  /\ pollers < MaxPollers
  /\ pollers' = pollers + 1
  /\ UNCHANGED <<now, gauge, cachedTemp, viewer, began, asked, promFaults>>

\* A poll that fails, or is answered without a result, leaves the gauge alone.
aquariumTempPoll ==
  /\ pollers > 0
  /\ gauge' \in Reading
  /\ UNCHANGED <<now, pollers, cachedTemp, viewer, began, asked, promFaults>>

-----------------------------------------------------------------------------
(* s-web-home.  The mutex is held by whoever queries.                      *)

Stored == cachedTemp.at <= MaxTime
Fresh == Stored /\ now - cachedTemp.at < tempPeriod
Querying == {v \in Viewer : viewer[v] \in {"querying", "gone"}}

\* temperature, when the cached answer is too old.  A fresh one is returned
\* and nothing changes.
BeginQuery(v) ==
  /\ viewer[v] = "open"
  /\ Querying = {}
  /\ ~Fresh
  /\ viewer' = [viewer EXCEPT ![v] = "querying"]
  /\ began' = now
  /\ asked' = asked + 1
  /\ UNCHANGED <<now, pollers, gauge, cachedTemp, promFaults>>

\* The answer is stored, be it tempUnknown, and the mutex released.
Store(v, temp) ==
  /\ cachedTemp' = [value |-> temp, at |-> now]
  /\ viewer' = [viewer EXCEPT ![v] = "open"]
  /\ UNCHANGED <<now, pollers, gauge, began, asked>>

QueryInstant(v) ==
  /\ v \in Querying
  /\ gauge # NoReading
  /\ Store(v, gauge)
  /\ UNCHANGED promFaults

\* Mutant: a failed query is not cached.
QueryInstantFailsUncached(v) ==
  /\ v \in Querying
  /\ promFaults < MaxPromFaults
  /\ promFaults' = promFaults + 1
  /\ viewer' = [viewer EXCEPT ![v] = "open"]
  /\ UNCHANGED <<now, pollers, gauge, cachedTemp, began, asked>>

\* Prometheus is unreachable or slow, or has no sample for the query.
QueryInstantFails(v) ==
  /\ v \in Querying
  /\ promFaults < MaxPromFaults
  /\ promFaults' = promFaults + 1
  /\ Store(v, tempUnknown)

\* The page is closed while it queries.  The query's context is not cancelled.
Leave(v) ==
  /\ viewer[v] = "querying"
  /\ viewer' = [viewer EXCEPT ![v] = "gone"]
  /\ UNCHANGED <<now, pollers, gauge, cachedTemp, began, asked, promFaults>>

\* A query does not outlive its deadline.
Tick ==
  /\ now < MaxTime
  /\ Querying = {} \/ now < began + QueryTimeout
  /\ now' = now + 1
  /\ UNCHANGED <<pollers, gauge, cachedTemp, viewer, began, asked, promFaults>>

TempNext ==
  \/ aquariumTempPollingForever
  \/ aquariumTempPoll
  \/ \E v \in Viewer :
       BeginQuery(v) \/ QueryInstant(v) \/ QueryInstantFails(v) \/ Leave(v)
  \/ Tick

TempSpec == TempInit /\ [][TempNext]_tempVars

-----------------------------------------------------------------------------
(* "cachedTemp is shared by every open page, so viewers do not multiply    *)
(* the queries" (temperature.go:23): however many pages are open, and      *)
(* although queries fail, at most one begins in a period.  "a viewer       *)
(* leaving must not blank the value for the others" (temperature.go:52):   *)
(* what the pages show is unknown only after Prometheus failed.            *)
TemperatureIsShared ==
  /\ asked <= now \div tempPeriod + 1
  /\ cachedTemp.value = tempUnknown => promFaults > 0
=============================================================================
