--------------------------- MODULE ServicesProofs ---------------------------
(***************************************************************************)
(* Proofs about the services of the monolith: the ones of Backends that    *)
(* keep state of their own, for any number of viewers, requests, flights,  *)
(* nodes, calls, readers and jobs, and the start-up of Monolith in every   *)
(* environment.                                                            *)
(*                                                                         *)
(* A service's invariant is preserved by the steps of that service; a step *)
(* of another one leaves its variables alone.  So each is proved once, for *)
(* the service's own next-state relation, and carried over to Backends.    *)
(***************************************************************************)
EXTENDS Backends, Monolith, TLAPS

-----------------------------------------------------------------------------
(* Backends.                                                               *)

\* A step of the composition is a step of one service and a stutter of each
\* other one.
LEMMA OneServiceSteps ==
  [BackendNext]_backendVars =>
    /\ [TempNext]_tempVars
    /\ [PortfolioNext]_portfolioVars
    /\ [FlightsNext]_flightVars
    /\ [VaultNext]_vaultVars
    /\ [ConfigNext]_configVars
    /\ [AutoscalerNext]_autoscalerVars
  BY DEF BackendNext, backendVars

\* Each service begins in its own initial state.
LEMMA EveryServiceStarts ==
  BackendInit => TempInit /\ PortfolioInit /\ FlightsInit /\ VaultInit /\ ConfigInit
                   /\ AutoscalerInit
  BY DEF BackendInit

-----------------------------------------------------------------------------
(* lib/config.                                                             *)

\* The number of the client in use is the number of clients made, nobody was
\* given one before it was made, and a reader that asks Consul has one.
ConfigInv ==
  /\ clients = consulClient
  /\ clients \in {0, 1}
  /\ client \in [Reader -> {0, consulClient}]
  /\ reader \in [Reader -> {"start", "lock", "locked", "get", "default", "done"}]
  /\ intValue \in [Reader -> {"none", "kv", "default"}]
  /\ \A r \in Reader : reader[r] = "get" => client[r] # 0
  /\ \A r \in Reader : intValue[r] = "kv" => reader[r] = "done" /\ client[r] # 0

\* Readers that race to getOrStart keep the invariant.
LEMMA ConfigStep == ConfigInv /\ [ConfigNext]_configVars => ConfigInv'
  <1> SUFFICES ASSUME ConfigInv, [ConfigNext]_configVars
               PROVE  ConfigInv'
    OBVIOUS
  <1> USE DEF ConfigInv
  <1>1. ASSUME NEW r \in Reader, TestUnlocked(r)
        PROVE  ConfigInv'
    BY <1>1 DEF TestUnlocked, Given
  <1>2. ASSUME NEW r \in Reader, LockClient(r)
        PROVE  ConfigInv'
    BY <1>2 DEF LockClient
  <1>3. ASSUME NEW r \in Reader, getOrStart(r)
        PROVE  ConfigInv'
    BY <1>3 DEF getOrStart, MakeClient, Given
  <1>4. ASSUME NEW r \in Reader, Int(r) \/ IntDefault(r)
        PROVE  ConfigInv'
    BY <1>4 DEF Int, IntDefault, Returns
  <1>5. CASE UNCHANGED configVars
    BY <1>5 DEF configVars
  <1> QED
    BY <1>1, <1>2, <1>3, <1>4, <1>5 DEF ConfigNext

\* Whoever races in getOrStart: one client is made and everyone is given it, and
\* Int returns a value of Consul only where there is a client to read it with.
THEOREM OneConsulClientAlways == BackendSpec => []OneConsulClient
  <1>1. BackendInit => ConfigInv
    BY EveryServiceStarts DEF ConfigInit, ConfigInv
  <1>2. ConfigInv /\ [BackendNext]_backendVars => ConfigInv'
    BY OneServiceSteps, ConfigStep
  <1>3. ConfigInv => OneConsulClient
    BY DEF ConfigInv, OneConsulClient
  <1> QED
    BY <1>1, <1>2, <1>3, PTL DEF BackendSpec

-----------------------------------------------------------------------------
(* s-web-portfolio.                                                        *)

\* A goroutine that refreshes the cache belongs to a request that was answered,
\* as does the cached value; the value of one that has ended is not newer than
\* the cache.
PortfolioInv ==
  /\ clock \in Nat
  /\ cachedAt \in Nat
  /\ stamp \in [Visitor -> Nat]
  /\ request \in [Visitor -> {"idle", "waiting", "reading", "querying", "responding", "done"}]
  /\ refreshes \subseteq {v \in Visitor : request[v] \in {"responding", "done"}}
  /\ locking \in refreshes \cup {NoRefresh}
  /\ cachedBy \in Visitor \cup {NoRefresh}
  /\ cachedBy # NoRefresh => /\ request[cachedBy] \in {"responding", "done"}
                             /\ stamp[cachedBy] = cachedAt
  /\ \A v \in Visitor \ refreshes : stamp[v] <= cachedAt

\* Requests and their refreshes keep the invariant.
LEMMA PortfolioStep == PortfolioInv /\ [PortfolioNext]_portfolioVars => PortfolioInv'
  <1> SUFFICES ASSUME PortfolioInv, [PortfolioNext]_portfolioVars
               PROVE  PortfolioInv'
    OBVIOUS
  <1> USE PortfolioAssumption DEF PortfolioInv, To
  <1>1. ASSUME NEW v \in Visitor, Arrive(v) \/ RLock(v) \/ ServeCached(v)
        PROVE  PortfolioInv'
    BY <1>1 DEF Arrive, RLock, ServeCached
  <1>2. ASSUME NEW v \in Visitor, Query(v) \/ QueryErrs(v) \/ Respond(v)
        PROVE  PortfolioInv'
    BY <1>2 DEF Query, QueryErrs, Respond
  <1>3. ASSUME NEW v \in Visitor, GoRefreshCache(v)
        PROVE  PortfolioInv'
    BY <1>3 DEF GoRefreshCache
  <1>4. ASSUME NEW v \in Visitor, Lock(v)
        PROVE  PortfolioInv'
    BY <1>4 DEF Lock
  <1>5. CASE refreshCache
    BY <1>5 DEF refreshCache
  <1>6. CASE ClockTick
    BY <1>6 DEF ClockTick
  <1>7. CASE UNCHANGED portfolioVars
    BY <1>7 DEF portfolioVars
  <1> QED
    BY <1>1, <1>2, <1>3, <1>4, <1>5, <1>6, <1>7 DEF PortfolioNext, HandlerStep

\* In whatever order the goroutines of refreshCache get the lock, the cache ends
\* up with the newest of their values and the stamp that came with it.
THEOREM CacheKeepsNewestAlways == BackendSpec => []CacheKeepsNewest
  <1>1. BackendInit => PortfolioInv
    BY EveryServiceStarts, PortfolioAssumption DEF PortfolioInit, PortfolioInv
  <1>2. PortfolioInv /\ [BackendNext]_backendVars => PortfolioInv'
    BY OneServiceSteps, PortfolioStep
  <1>3. PortfolioInv => CacheKeepsNewest
    BY DEF PortfolioInv, CacheKeepsNewest
  <1> QED
    BY <1>1, <1>2, <1>3, PTL DEF BackendSpec

-----------------------------------------------------------------------------
(* s-rpc-flights.                                                          *)

FlightsInv ==
  /\ brokenSets \in Nat
  /\ list \in [Lister -> {"idle", "next", "lookup", "emissions", "eof", "error"}]
  /\ sent \in [Lister -> SUBSET Flight]
  /\ figure \in [Gauges -> {"unset", "right", "zero", "partial"}]
  /\ row \in [Lister -> Flight \cup {NoRow}]
  /\ \A c \in Lister : list[c] = "lookup" => row[c] \in Flight
  /\ ShownIsComplete

\* Loads of the table, result sets that break off and readers keep the invariant.
LEMMA FlightsStep == FlightsInv /\ [FlightsNext]_flightVars => FlightsInv'
  <1> SUFFICES ASSUME FlightsInv, [FlightsNext]_flightVars
               PROVE  FlightsInv'
    OBVIOUS
  <1> USE DEF FlightsInv, ShownIsComplete, Lister, Gauges
  <1>1. ASSUME NEW g \in Gauges, Refresh(g) \/ RefreshFails(g)
        PROVE  FlightsInv'
    BY <1>1 DEF Refresh, RefreshFails, SetGauge
  <1>2. ASSUME NEW g \in Gauges, RefreshBreaks(g)
        PROVE  FlightsInv'
    BY <1>2 DEF RefreshBreaks, SetGauge
  <1>3. ASSUME NEW c \in Lister, Scan(c) \/ LoadAirports(c)
        PROVE  FlightsInv'
    BY <1>3 DEF Scan, LoadAirports
  <1>4. ASSUME NEW c \in Lister, Send(c)
        PROVE  FlightsInv'
    BY <1>4 DEF Send
  <1>5. ASSUME NEW c \in Lister, LookupFails(c) \/ Abort(c)
        PROVE  FlightsInv'
    BY <1>5 DEF LookupFails, Abort, Fails
  <1>6. ASSUME NEW c \in Lister, Eof(c)
        PROVE  FlightsInv'
    BY <1>6 DEF Eof
  <1>7. ASSUME NEW c \in Lister, RowsBreak(c)
        PROVE  FlightsInv'
    BY <1>7 DEF RowsBreak
  <1>8. ASSUME NEW c \in Lister, ListAll(c)
        PROVE  FlightsInv'
    BY <1>8 DEF ListAll
  <1>9. CASE Loaded \/ LoadFails
    BY <1>9 DEF Loaded, LoadFails
  <1>10. CASE LoadPanics
    BY <1>10 DEF LoadPanics
  <1>11. CASE EmissionsForJourney
    BY <1>11 DEF EmissionsForJourney
  <1>12. CASE refreshYearlyCo2
    BY <1>12 DEF refreshYearlyCo2
  <1>13. CASE UNCHANGED flightVars
    BY <1>13 DEF flightVars
  <1>14. constructGeoMap \/ ListForYears => \E c \in Lister : ListAll(c)
    BY DEF constructGeoMap, ListForYears
  <1> QED
    BY <1>1, <1>2, <1>3, <1>4, <1>5, <1>6, <1>7, <1>8, <1>9, <1>10, <1>11, <1>12, <1>13,
       <1>14
    DEF FlightsNext

\* Unless a result set broke off, a map that is drawn and a gauge that is set
\* count every flight, whatever airports are unknown, whichever fetch failed and
\* whoever gave up.
THEOREM ShownIsCompleteAlways == BackendSpec => []ShownIsComplete
  <1>1. BackendInit => FlightsInv
    BY EveryServiceStarts DEF FlightsInit, FlightsInv, ShownIsComplete
  <1>2. FlightsInv /\ [BackendNext]_backendVars => FlightsInv'
    BY OneServiceSteps, FlightsStep
  <1>3. FlightsInv => ShownIsComplete
    BY DEF FlightsInv
  <1> QED
    BY <1>1, <1>2, <1>3, PTL DEF BackendSpec

-----------------------------------------------------------------------------
(* s-rpc-vault.                                                            *)

\* Half a snapshot is in the buffer of a call only after its error, and the
\* buffer of a call that uploads has a whole one.
VaultInv ==
  /\ snapshot \in [SnapshotCall ->
                     {"idle", "found", "read", "put", "completed", "error"}]
  /\ buffer \in [SnapshotCall -> {"empty", "partial", "whole"}]
  /\ key \in [SnapshotCall -> Millisecond \cup {NoKey}]
  /\ bucket \in [Millisecond -> {"empty", "whole"}]
  /\ \A c \in SnapshotCall :
       /\ snapshot[c] \in {"read", "put", "completed"} => key[c] \in Millisecond
       /\ snapshot[c] = "put" => buffer[c] = "whole"
       /\ snapshot[c] = "completed" => bucket[key[c]] = "whole"

\* Snapshots, failovers and lost answers keep the invariant.
LEMMA VaultStep == VaultInv /\ [VaultNext]_vaultVars => VaultInv'
  <1> SUFFICES ASSUME VaultInv, [VaultNext]_vaultVars
               PROVE  VaultInv'
    OBVIOUS
  <1> USE DEF VaultInv, Advance
  <1>1. ASSUME NEW n \in Node, NodeStops(n) \/ NodeStarts(n) \/ Elect(n)
        PROVE  VaultInv'
    BY <1>1 DEF NodeStops, NodeStarts, Elect
  <1>2. ASSUME NEW c \in SnapshotCall, HAStatus(c) \/ SetAddress(c)
        PROVE  VaultInv'
    BY <1>2 DEF HAStatus, SetAddress
  <1>3. ASSUME NEW c \in SnapshotCall, RaftSnapshot(c) \/ RaftSnapshotFails(c)
        PROVE  VaultInv'
    BY <1>3 DEF RaftSnapshot, RaftSnapshotFails
  <1>4. ASSUME NEW c \in SnapshotCall, PutObject(c) \/ PutObjectFails(c)
        PROVE  VaultInv'
    BY <1>4 DEF PutObject, PutObjectFails
  <1>5. ASSUME NEW c \in SnapshotCall, NextRun(c)
        PROVE  VaultInv'
    BY <1>5 DEF NextRun
  <1>6. CASE UNCHANGED vaultVars
    BY <1>6 DEF vaultVars
  <1> QED
    BY <1>1, <1>2, <1>3, <1>4, <1>5, <1>6 DEF VaultNext

\* A call of Snapshot that completes has stored a whole snapshot under its key,
\* and no object is ever half of one, however nodes stop, calls move the shared
\* client and keys coincide.
THEOREM CompletedMeansStoredAlways == BackendSpec => []CompletedMeansStored
  <1>1. BackendInit => VaultInv
    BY EveryServiceStarts DEF VaultInit, VaultInv
  <1>2. VaultInv /\ [BackendNext]_backendVars => VaultInv'
    BY OneServiceSteps, VaultStep
  <1>3. VaultInv => CompletedMeansStored
    BY DEF VaultInv, CompletedMeansStored
  <1> QED
    BY <1>1, <1>2, <1>3, PTL DEF BackendSpec

-----------------------------------------------------------------------------
(* s-rpc-autoscaler and s-rpc-nomad-api.                                   *)

\* As long as the stream has not failed, a job was received, is on its way or
\* is yet to be sent.
AutoscalerInv ==
  /\ evaluation \in {"idle", "streaming", "ok", "error"}
  /\ stream \in {"none", "open", "eof", "error", "cancelled"}
  /\ evaluation = "idle" <=> stream = "none"
  /\ stream = "eof" => listed = {}
  /\ received \subseteq Job
  /\ \A d \in listed : d.job \in Job
  /\ inStream = Nothing \/ inStream.job \in Job
  /\ stream \in {"open", "eof"} /\ evaluation = "streaming" =>
       \A j \in Job : \/ j \in received
                      \/ inStream # Nothing /\ inStream.job = j
                      \/ \E d \in listed : d.job = j
  /\ evaluation = "ok" => received = Job

\* A job that changes state under the stream keeps the invariant.
LEMMA AutoscalerStep == AutoscalerInv /\ [AutoscalerNext]_autoscalerVars => AutoscalerInv'
  <1> SUFFICES ASSUME AutoscalerInv, [AutoscalerNext]_autoscalerVars
               PROVE  AutoscalerInv'
    OBVIOUS
  <1> USE DEF AutoscalerInv
  <1>1. ASSUME NEW j \in Job, ToggleJob(j)
        PROVE  AutoscalerInv'
    BY <1>1 DEF ToggleJob
  <1>2. CASE ListJobDefinitions
    <2> DEFINE definition(j) == [job |-> j, stopped |-> j \notin running]
    <2>1. listed' = {definition(j) : j \in Job}
      BY <1>2 DEF ListJobDefinitions
    <2>2. \A j \in Job : definition(j).job = j
      OBVIOUS
    <2> HIDE DEF definition
    <2>3. \A j \in Job : \E d \in listed' : d.job = j
      BY <2>1, <2>2
    <2>4. \A d \in listed' : d.job \in Job
      BY <2>1, <2>2
    <2> QED
      BY <1>2, <2>3, <2>4 DEF ListJobDefinitions
  <1>3. CASE SendDefinition
    <2>1. PICK d \in listed : listed' = listed \ {d} /\ inStream' = d
      BY <1>3 DEF SendDefinition
    <2>2. inStream' # Nothing
      BY <2>1, AutoscalerAssumption DEF Nothing
    <2> QED
      BY <1>3, <2>1, <2>2 DEF SendDefinition
  <1>4. CASE EndStream \/ StreamFails
    <2>1. CASE EndStream
      BY <1>4, <2>1 DEF EndStream
    <2>2. CASE StreamFails
      <3>1. inStream' = inStream \/ inStream' = Nothing
        BY <2>2 DEF StreamFails
      <3> QED
        BY <2>2, <3>1 DEF StreamFails
    <2> QED
      BY <1>4, <2>1, <2>2
  <1>5. CASE RecvStopped \/ RecvRunning
    BY <1>5 DEF RecvStopped, RecvRunning, Recv
  <1>6. CASE RecvEnd
    BY <1>6 DEF RecvEnd
  <1>7. CASE UNCHANGED autoscalerVars
    BY <1>7 DEF autoscalerVars
  <1> QED
    BY <1>1, <1>2, <1>3, <1>4, <1>5, <1>6, <1>7 DEF AutoscalerNext

\* EvalAllScalingStatus succeeds only if it received the definition of every job,
\* wherever the stream breaks off and whatever job changes under it.
THEOREM OkMeansAllReceivedAlways == BackendSpec => []OkMeansAllReceived
  <1>1. BackendInit => AutoscalerInv
    BY EveryServiceStarts DEF AutoscalerInit, AutoscalerInv, Nothing
  <1>2. AutoscalerInv /\ [BackendNext]_backendVars => AutoscalerInv'
    BY OneServiceSteps, AutoscalerStep
  <1>3. AutoscalerInv => OkMeansAllReceived
    BY DEF AutoscalerInv, OkMeansAllReceived
  <1> QED
    BY <1>1, <1>2, <1>3, PTL DEF BackendSpec

-----------------------------------------------------------------------------
(* The temperature on the pages of s-web-home.                             *)

\* a periods fit into n ticks.
LEMMA PeriodsFit ==
  ASSUME NEW a \in Nat, NEW n \in Nat, NEW p \in Nat \ {0}, a * p <= n
  PROVE  a <= n \div p
  <1> DEFINE q == n \div p
             m == n % p
  <1>1. q \in Nat /\ m \in Nat /\ n = p * q + m /\ m < p
    OBVIOUS
  <1>2. SUFFICES ASSUME a >= q + 1
                 PROVE  FALSE
    BY <1>1
  <1> HIDE DEF q, m
  <1>3. a * p >= (q + 1) * p
    BY <1>1, <1>2
  <1>4. (q + 1) * p = p * q + p
    BY <1>1
  <1> QED
    BY <1>1, <1>3, <1>4

\* Arithmetic of periods.
LEMMA OnePeriodMore ==
  ASSUME NEW a \in Nat, NEW p \in Nat
  PROVE  a * p \in Nat /\ (a + 1) * p = a * p + p
  OBVIOUS

\* The last of the queries began when as many periods had passed as there were
\* queries before it; its answer, once stored, is not older than that.
TempInv ==
  /\ now \in 0..MaxTime
  /\ began \in 0..now
  /\ asked \in Nat
  /\ promFaults \in Nat
  /\ gauge \in Reading \cup {NoReading}
  /\ viewer \in [Viewer -> {"open", "querying", "gone"}]
  /\ cachedTemp \in [value : Reading \cup {NoReading, tempUnknown}, at : Nat]
  /\ Stored => cachedTemp.at <= now
  /\ ~Stored => cachedTemp.value = NoReading
  /\ asked > 0 => (asked - 1) * tempPeriod <= began
  /\ asked > 0 /\ Querying = {} => Stored /\ began <= cachedTemp.at
  /\ cachedTemp.value = tempUnknown => promFaults > 0

\* Viewers that share the cache, the poller and the clock keep the invariant.
LEMMA TempStep == TempInv /\ [TempNext]_tempVars => TempInv'
  <1> SUFFICES ASSUME TempInv, [TempNext]_tempVars
               PROVE  TempInv'
    OBVIOUS
  <1> USE TemperatureAssumption DEF TempInv, Stored, Querying
  <1>1. CASE aquariumTempPollingForever \/ aquariumTempPoll
    BY <1>1 DEF aquariumTempPollingForever, aquariumTempPoll
  <1>2. ASSUME NEW v \in Viewer, BeginQuery(v)
        PROVE  TempInv'
    <2>1. asked' > 0 => (asked' - 1) * tempPeriod <= began'
      <3>1. CASE asked = 0
        BY <1>2, <3>1 DEF BeginQuery
      <3>2. CASE asked > 0
        <4>1. began + tempPeriod <= now
          BY <1>2, <3>2 DEF BeginQuery, Fresh
        <4>2. PICK before \in Nat : asked = before + 1
          BY <3>2
        <4>3. asked * tempPeriod = before * tempPeriod + tempPeriod
          BY <4>2, OnePeriodMore
        <4>4. before * tempPeriod \in Nat /\ before = asked - 1
          BY <4>2, OnePeriodMore
        <4> QED
          BY <1>2, <3>2, <4>1, <4>3, <4>4 DEF BeginQuery
      <3> QED
        BY <3>1, <3>2
    <2>2. v \in Querying'
      BY <1>2 DEF BeginQuery
    <2> QED
      BY <1>2, <2>1, <2>2 DEF BeginQuery
  <1>3. ASSUME NEW v \in Viewer, QueryInstant(v) \/ QueryInstantFails(v)
        PROVE  TempInv'
    BY <1>3 DEF QueryInstant, QueryInstantFails, Store
  <1>4. ASSUME NEW v \in Viewer, Leave(v)
        PROVE  TempInv'
    <2>1. v \in Querying'
      BY <1>4 DEF Leave
    <2> QED
      BY <1>4, <2>1 DEF Leave
  <1>5. CASE Tick
    BY <1>5 DEF Tick
  <1>6. CASE UNCHANGED tempVars
    BY <1>6 DEF tempVars
  <1> QED
    BY <1>1, <1>2, <1>3, <1>4, <1>5, <1>6 DEF TempNext

\* Pages share one query per period, however many are open, come, leave or find
\* Prometheus down, and show an unknown temperature only after a query failed.
THEOREM TemperatureIsSharedAlways == BackendSpec => []TemperatureIsShared
  <1>1. BackendInit => TempInv
    BY EveryServiceStarts, TemperatureAssumption DEF TempInit, TempInv, Stored, Querying
  <1>2. TempInv /\ [BackendNext]_backendVars => TempInv'
    BY OneServiceSteps, TempStep
  <1>3. TempInv => TemperatureIsShared
    <2> SUFFICES ASSUME TempInv
                 PROVE  asked <= now \div tempPeriod + 1
      BY DEF TempInv, TemperatureIsShared
    <2> USE TemperatureAssumption
    <2>1. now \in Nat /\ now \div tempPeriod \in Nat /\ asked \in Nat
      BY DEF TempInv
    <2>2. CASE asked = 0
      BY <2>1, <2>2
    <2>3. CASE asked > 0
      <3>1. (asked - 1) * tempPeriod <= now
        BY <2>1, <2>3 DEF TempInv
      <3>2. asked - 1 <= now \div tempPeriod
        BY <2>1, <2>3, <3>1, PeriodsFit
      <3> QED
        BY <2>1, <3>2
    <2> QED
      BY <2>1, <2>2, <2>3
  <1> QED
    BY <1>1, <1>2, <1>3, PTL DEF BackendSpec

-----------------------------------------------------------------------------
(* Start-up.                                                               *)

\* The services are registered one after the other, eleven in all.
LEMMA HooksInOrder ==
  /\ Len(servicesHooks) = 11
  /\ \A i \in 1..11 : servicesHooks[i] = "mqtt" <=> i = 3
  /\ \A i \in 1..11 : servicesHooks[i] \in Service
  /\ \A s \in Service : \E i \in 1..11 : servicesHooks[i] = s
  BY DEF servicesHooks, Service

\* Why a service whose hook has returned may be missing.
Excused(s) ==
  \/ s = "nomad-api" /\ ~env.nomad
  \/ s \in {"vault", "prometheus"} /\ ~env.clients
  \/ s = "mqtt" /\ (~env.consul \/ GetBaseConfigFails)

\* Hooks that have returned left their services up or excused; the process has
\* come as far as its environment lets it, and waits for the broker in mqtt's
\* hook only.
StartInv ==
  /\ env \in Environment
  /\ phase \in Phase
  /\ hook \in 1..12
  /\ state \in [Service -> {"off", "up", "missing"}]
  /\ \A i \in 1..11 : i < hook =>
       /\ state[servicesHooks[i]] # "off"
       /\ state[servicesHooks[i]] = "up" \/ Excused(servicesHooks[i])
  /\ mqtt \in {"connecting", "subscribed"} => hook = 3
  /\ mqtt # "none" => env.consul
  /\ mqtt \in {"subscribed", "ready"} => env.broker
  /\ cause = "nilConfig" /\ hook \in 1..3 => env.consul
  /\ phase \notin {"otel", "dead"} => env.otel
  /\ phase \in {"hooks", "listen", "serving"} => env.crdb
  /\ phase \in {"listen", "serving"} => hook = 12
  /\ phase = "serving" => ~GetBaseConfigFails
  /\ phase = "dead" =>
       \/ ~env.otel \/ ~env.crdb \/ ~env.alloc \/ ~env.bigq \/ ~env.ports
       \/ env.httpPort # "set" \/ env.grpcPort = "bad"
       \/ cause = "nilCM" /\ env.consul /\ env.broker
       \/ cause = "ticker" /\ env.consul /\ env.broker /\ ~env.polling

\* A hook that returns, with the service up or excused.
LEMMA HookKeepsStartInv ==
  ASSUME StartInv, NEW s \in Service, NEW ok \in BOOLEAN,
         Running(s), HookReturns(s, ok), ok \/ Excused(s),
         mqtt' \notin {"connecting", "subscribed"},
         mqtt' = mqtt \/ (env.consul /\ env.broker)
  PROVE  StartInv'
  BY HooksInOrder DEF StartInv, Running, HookReturns, Excused, GetBaseConfigFails

\* Every step of start-up keeps the invariant.
LEMMA StartStepInv == StartInv /\ [Next]_vars => StartInv'
  <1> SUFFICES ASSUME StartInv, [Next]_vars
               PROVE  StartInv'
    OBVIOUS
  <1>1. CASE setupOTelSDK \/ migrateDB
    BY <1>1 DEF setupOTelSDK, migrateDB, Goto, Die, StartInv, Excused,
                GetBaseConfigFails, Phase
  <1>2. ASSUME NEW s, NEW ok \in BOOLEAN, s # "mqtt", Hook(s, ok), ok \/ Excused(s)
        PROVE  StartInv'
    <2>1. s \in Service /\ mqtt \notin {"connecting", "subscribed"}
      BY <1>2, HooksInOrder DEF Hook, Running, StartInv
    <2> QED
      BY <1>2, <2>1, HookKeepsStartInv DEF Hook
  <1>3. CASE InitAutoscaler \/ InitFlights \/ InitPortfolioStats
    BY <1>2, <1>3 DEF InitAutoscaler, InitFlights, InitPortfolioStats, OpenDB, StartInv,
                      Hook, Running, Environment
  <1>4. CASE InitNomadApi \/ InitVault \/ InitPrometheus
    <2>1. env.nomad \in BOOLEAN /\ env.clients \in BOOLEAN
      BY DEF StartInv, Environment
    <2>2. /\ env.nomad \/ Excused("nomad-api")
          /\ env.clients \/ (Excused("vault") /\ Excused("prometheus"))
      BY DEF Excused
    <2> QED
      BY <1>2, <1>4, <2>1, <2>2 DEF InitNomadApi, InitVault, InitPrometheus, NewVaultClient
  <1>5. CASE InitWebPortfolio \/ InitWebFlights \/ InitWebHome
    BY <1>2, <1>5 DEF InitWebPortfolio, InitWebFlights, InitWebHome
  <1>6. CASE InitWebhook
    <2>1. CASE NewBigqClient
      BY <1>2, <1>6, <2>1 DEF InitWebhook, Hook
    <2>2. CASE ~NewBigqClient
      BY <1>6, <2>2 DEF InitWebhook, NewBigqClient, Die, StartInv, Excused,
                        GetBaseConfigFails, Phase
    <2> QED
      BY <2>1, <2>2
  <1>7. CASE InitMqtt
    <2>1. Running("mqtt") /\ mqtt = "none"
      BY <1>7 DEF InitMqtt
    <2>2. hook = 3 /\ "mqtt" \in Service
      BY <2>1, HooksInOrder DEF Running, StartInv
    <2>3. CASE HookReturns("mqtt", FALSE) /\ UNCHANGED mqtt /\ Excused("mqtt")
      BY <2>3, <2>1, <2>2, HookKeepsStartInv
    <2>4. CASE Die("nilConfig") /\ ~env.alloc /\ env.consul
      BY <2>4 DEF Die, StartInv, Excused, GetBaseConfigFails, Phase
    <2>5. CASE mqtt' = "connecting" /\ env.consul /\ UNCHANGED <<env, phase, hook, state, cause>>
      BY <2>5, <2>2 DEF StartInv, Excused, GetBaseConfigFails
    <2> QED
      BY <1>7, <2>3, <2>4, <2>5 DEF InitMqtt, GetBaseConfigNil, Excused
  <1>8. CASE ConnectionUp
    BY <1>8 DEF ConnectionUp, StartInv, Excused, GetBaseConfigFails
  <1>9. CASE EarlyPress \/ TickerPanics \/ MetricsFail
    BY <1>9 DEF EarlyPress, TickerPanics, MetricsFail, Die, StartInv, Excused, GetBaseConfigFails, Phase
  <1>10. CASE MqttReady
    <2>1. Running("mqtt") /\ "mqtt" \in Service
      BY <1>10, HooksInOrder DEF MqttReady, Running, StartInv
    <2>2. env.consul /\ env.broker
      BY <1>10 DEF MqttReady, StartInv
    <2> QED
      BY <1>10, <2>1, <2>2, HookKeepsStartInv DEF MqttReady
  <1>11. CASE HooksDone
    BY <1>11, HooksInOrder DEF HooksDone, Goto, StartInv, Excused, GetBaseConfigFails, Phase
  <1>12. CASE Listen
    BY <1>12 DEF Listen, Goto, Die, StartInv, Excused, GetBaseConfigFails,
                 GetBaseConfigNil, Phase
  <1>13. CASE UNCHANGED vars
    BY <1>13 DEF vars, StartInv, Excused, GetBaseConfigFails
  <1> QED
    BY <1>1, <1>3, <1>4, <1>5, <1>6, <1>7, <1>8, <1>9, <1>10, <1>11, <1>12, <1>13
    DEF Next, StartStep, InitHooks

\* In every environment: a service that cannot start takes only itself away, and
\* the process dies only of what all services need, of the webhook's client, of
\* a press that comes before scaffold.cm is assigned, or of a polling period of
\* zero or less; the last two only once the broker was reached.
THEOREM FailuresStayLocalAlways == Spec => []FailuresStayLocal
  <1>1. Init => StartInv
    BY DEF Init, StartInv, Phase
  <1>2. StartInv => FailuresStayLocal
    <2> SUFFICES ASSUME StartInv
                 PROVE  FailuresStayLocal
      OBVIOUS
    <2>1. ASSUME phase = "serving", NEW s \in Service, state[s] # "up"
          PROVE  Excused(s) /\ ~GetBaseConfigFails
      <3>1. PICK i \in 1..11 : servicesHooks[i] = s
        BY HooksInOrder
      <3> QED
        BY <2>1, <3>1 DEF StartInv
    <2>2. state["mqtt"] = "off" /\ cause = "nilConfig" => env.consul
      <3>1. servicesHooks[3] = "mqtt"
        BY HooksInOrder
      <3>2. state[servicesHooks[3]] = "off" => hook \in 1..3
        BY DEF StartInv
      <3> QED
        BY <3>1, <3>2 DEF StartInv
    <2>3. phase = "serving" => ~GetBaseConfigFails
      BY DEF StartInv
    <2> QED
      BY <2>1, <2>2, <2>3 DEF StartInv, FailuresStayLocal, Excused
  <1> QED
    BY <1>1, <1>2, StartStepInv, PTL DEF Spec

=============================================================================
