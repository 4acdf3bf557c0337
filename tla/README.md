# A TLA+ model of cottand/selfhosted

The repository configures a small cluster and holds the Go services that run on
it (`dev-go/`). This directory specifies the parts of those services whose
correctness depends on the order in which things happen: leader election, calls
to devices over MQTT, the fan-out of light changes up to the page in a browser,
presses of a button, schedules of lights, caches shared by requests, the start-up
of all services in one process, and two programs that move files with many
goroutines. Each module is a translation of the Go code named in `PROJECT.json`
under `map`. TLC checks small instances, liveness included; TLAPS proves the type
invariants, the safety properties and the refinement for instances of any size.

## Inventory

| part | state | operations | what is hard |
|---|---|---|---|
| leader election (`s-rpc-mqtt/mqtt.go`, `lib/locks`, Consul's `api.Lock`) | `isLeader`, one Consul session per attempt, the leader key | `leaderState.run`: Grab, wait for Lost or for the context, Release | sessions end at any time; answers get lost; a lock dropped without Unlock; a leader that does not know it no longer leads |
| device calls (`shellyRPCRespAny`) | handler and reply topic per call, paho's unacknowledged requests | subscribe, publish, wait, clean up | late replies, resends after a reconnection, deadlines |
| light watch (`mqtt_lights_watch.go`, `WatchLights`) | `lightChanged` queue, the broadcaster's map of channels | notify, read, publish, subscribe, unsubscribe, close | full buffers, failed reads, closing channels while sending |
| light operations (`mqtt_lights.go`) | none | list, get, set, toggle | a set followed by a read, next to other operations |
| buttons (`mqtt_handle_button.go`) | PIDs seen in the last 10 s, per replica | dispatch a press, double press | duplicates, redelivery after the cache forgot, hand-over of leadership, read-modify-write of brightness |
| schedule, temperature (`handler.go`, `mqtt_handle_temp.go`) | the devices' schedules; one poller per connection | delete and create schedules; poll | stops half way, runs twice at once; pollers pile up |
| s-web-home | one event stream and receiver per page, a cached temperature | load, stream, snapshot, post a form | order of snapshot and updates, two connections to one page, a page rendered without rows, cache shared by viewers |
| s-web-portfolio | one cached temperature | read, refresh in a goroutine | an old value over a newer one, waiting for each other on one lock |
| s-rpc-flights, s-web-flights | airport table loaded once, gauges | ListAll, the map, emissions, gauges | `sync.Once` keeps a failure, result sets that break off |
| s-rpc-nomad-api, s-rpc-autoscaler | none between requests | list definitions, evaluate | jobs change under the stream, which may break off |
| s-rpc-portfolio-stats, s-rpc-prometheus, s-web-github-webhook | none between requests | one request each | little |
| s-rpc-vault, cron-vault-snapshot | the address of the shared Vault client | snapshot | concurrent snapshots, a sticky address, snapshots that break off |
| lib/bedrock, `services/main.go` | registered services, the gRPC server | migrate, register, serve | a service that cannot start, events before a hook has returned |
| lib/config | the Consul client | getOrStart, read a value | double-checked start |
| cmd/recovery | plain counters | walk, restore, mark | goroutines that share counters, errors taken for absence |
| cmd/s3-to-cloudreve | atomic counters, a semaphore | list, copy, upload in chunks | exit under running uploads, half-uploaded files, keys that share a target |

How they interact: the replicas of `s-rpc-mqtt` share only Consul's leader key.
Each one receives every button press and every light notification from the
broker; only the leader acts on a press. A light notification makes the replica
read the light (a device call) and publish its status to the subscribers of
`WatchLights`; `s-web-home` is such a subscriber for every open page. All
services are compiled into one process and call each other through gRPC on
localhost; apart from that they share nothing.

The remaining files are generated code, vendored libraries, and declarative
configuration for Nix, Nomad and Terraform.

## Modules

**`LeaderLock`** follows one goroutine per replica through `leaderState.run`,
`locks.Grab` and the vendored `Lock.Lock` (locations `loop`, `read`, `acquire`,
`held`, `leading`, `stopped`), with two more goroutines that Consul's client
starts: `monitorLock` (variable `lost`) and `RenewPeriodic` (variables `renew`,
`closing`). The Consul server (valid sessions, owner of the key, lock-delay) is
external. Faults: a failed request, applied or not; a failed read of
`monitorLock`; renewals failing for a TTL; a session invalidated by the server; a
crash and restart. `ReadKey` keeps the code's shortcut for a key already owned by
the caller's session, which no caller can meet because every Grab has a new
session.

**`Leadership`** is the abstract election: which replica, if any, owns leadership
and what each believes. `LeaderLock!Abstract` instantiates it.

**`LightWatch`** follows a change from the device to the streams of `WatchLights`.
A light is the number of times it changed. `known` and `missed` record what a
client has and which changes were given up; no guard reads them.

**`ShellyRPC`** follows `shellyRPCRespAny`: the handler registered with the
current paho client only, the subscription to the reply topic, the QoS 1 publish
that paho repeats on the next connection until it is acknowledged, the wait, and
the deferred clean-up. It assumes that two calls never get the same
`time.Now().UnixNano()`, which the reply topic is made of.

**`ButtonEvents`** has the replicas' `OnPublishReceived` and `handleButtonEvent`
over the elections of `Leadership`, the specification that `LeaderLock`
implements. `copies` are messages not yet received, `handling` goroutines that
have not reached `pidSeen`, `age` is the cache of packet ids. `dispatched` and
`believers` only record what happened. The lights that a press switches are
calls of `ShellyRPC`. Messages of one press may be any time apart: the broker
keeps the session of a lost connection for 60 s and then sends again what was not
acknowledged. `silences` counts how often the expiration (10 s) passed at a
replica while messages of the press were still to be handled; no guard reads it.
Two assumptions about the button and the broker: an id comes back only when the
messages of its last press are gone and every cache forgot it, and every replica
that runs through a press gets a message of it.

**`CloudreveCopy`** is `cmd/s3-to-cloudreve`: the listing loop of `copyAll`, one
goroutine per object behind the semaphore, `fileExistsInCloudreve`,
`simpleUpload`, `chunkedUpload`, and `main`, which prints the counters and exits
also under running goroutines when a listing failed. Any request may fail, with
its effect or without. A key is a sequence of characters and `targetURI` makes the
target from it as the code does, with two `TrimPrefix`: keys may share a target,
and a target may be a folder above another. `file` says what is complete under
each target: nothing, an object, or something `Foreign`, which is a folder or a
file that no run brought there and may be there from the start. Cloudreve is
external: it completes a file when it has all bytes, in place of what was there
and with the folders above it; an unfinished upload does not exist for
`/file/info`, which answers alike for files and folders; that it refuses a request
is one of the faults. `--concurrency 0`, which would hang in `Acquire`, is excluded
by `CopyAssumption`.

**`Recovery`** is `cmd/recovery`: `walkAndRecover` per directory, its page loop
and its goroutines, `checkAndRecover`, `tryRestore` and `markMissing`. The filer
lists by name after `lastFileName`, and a rename moves a file in that order while
pages are listed. A failed check includes a 500 for a file that could be read
another time. The printed counters are left out: goroutines add to them without
synchronisation, so a total may be any number up to the true one.

**`HomeEvents`** extends `LightWatch`: every page of s-web-home is one of its
watchers. It follows `lightEvents` (subscribe, send the header, start the
receiver, read and send the snapshot, then pass on updates), the receiver
goroutine with its one-place hand-over, `setLight` for a posted form, and the
page's script, which replaces rows and holds back the row whose slider is being
dragged. A row is the version of the light it was rendered from, `Unknown` where
`GetLight` failed, and `None` on a page that was rendered after `ListLights`
failed: such a page has no rows, and the script drops the ones it is sent.
`overtaken`
records the lights whose row was replaced by the older answer to a form, which
comes over a connection of its own.

**`AquariumLights`** has the operations of s-rpc-mqtt that take several device
calls: `SetAquariumSchedule`, `aquariumLightsDoublePress`, `SetLight`, next to
`toggleLight` and `setLight`. One device call is one step here, its messages are
in `ShellyRPC`; a call that timed out may still have its effect later. A press
reads the two brightnesses from Consul each time, or takes the default where that
fails: they are any members of `aquariumLow` and `aquariumHigh`, and one that is
out of range makes `setLight` refuse. `alone`
and `pressed` record which operations were undisturbed; no guard reads them.

**`Monolith`** is the start-up of the process: telemetry, migrations, one
registration hook per service in the order of `main.go`, gRPC, metrics. What the
environment offers (database, Vault, Consul, BigQuery, the allocation id, the
broker, the polling period) is any combination. Only the webhook's hook is fatal;
the others log their error and the service is missing. `GetBaseConfig` without an
allocation id returns neither a configuration nor an error; the mqtt hook asks
Consul for the broker's address before it looks into that configuration. Two
things can kill the process from inside s-rpc-mqtt once the broker is connected: a
press before `scaffold.cm` is assigned, and `time.NewTicker` with a polling period
of zero or less. Calls over localhost before gRPC is served fail and are redialled
by grpc-go; that is left to the library and not modelled.

**`Temperature`** (the poller, Prometheus, the cache of s-web-home), **`Portfolio`**
(the cache of s-web-portfolio under its read-write lock), **`Flights`** (`ListAll`
and its readers, the airports fetched once), **`VaultSnapshot`**,
**`ConfigClient`** and **`Autoscaler`** are the services with state of their own.
In `VaultSnapshot` an object is named by the millisecond of its call, so two calls
may write the same one. In `Autoscaler` the stream of definitions may break off
with one in it, and decoding into a nil pointer fails as it does in Go.
They share no state, so **`Backends`** runs one of them in a behaviour: the
variable `service` says which, and the others stay in their initial states.

The modules `MCX` give the constants their values for TLC. **`MCButtons`** runs
`ButtonEvents` or `AquariumLights` in a behaviour, and **`MCBackends`** the start-up
of `Monolith` or a service of `Backends` in a process that has started: the parts
share no variable.

A module `XProofs` extends module `X` with its theorems: **`LeaderLockProofs`**,
**`ButtonEventsProofs`**, **`ShellyRPCProofs`**, **`AquariumLightsProofs`**,
**`CloudreveCopyProofs`**, **`RecoveryProofs`**. **`LightWatchProofs`** is about
`LightWatch` and `HomeEvents`, which extends it, and **`ServicesProofs`** about
`Backends` and `Monolith`.

`HomeTypeOK` and the `TypeOK` of `LightWatch`, `ShellyRPC`, `CloudreveCopy`,
`Recovery` and `AquariumLights` are theorems, and no run lists them; the `TypeOK`
of `Monolith` states the types for a reader.

## Runs

| run | instance | what it shows |
|---|---|---|
| `leader` | 2 replicas, 3 session identifiers, 2 faults of any kind | one backed leader, a leaked session is the key's owner, the refinement of `Leadership`; a stale leader steps down, and unless a session leaked leadership is won again |
| `leader_leak` | the same, one failed read in `monitorLock` | violated: nobody leads again |
| `watch` | 1 light that changes twice, a healthy and a stuck watcher, buffers of 1, failed reads, lost and repeated notifications | channels in the map are open, a subscriber is behind only after a change was given up on, order of publication, shutdown ends watches |
| `watch_overflow` | 2 lights, 1 watcher, no fault | violated: the queue overflows and a subscriber misses a change |
| `rpc` | 2 calls, 2 connections | own and fresh answers, one execution per connection, every call returns and gives up its handler |
| `buttons` | presses: 2 replicas, 1 id pressed twice, up to 3 messages per press and replica, 2 restarts; lights: 2 dimmable ones and a plug, 2 concurrent callers, 3 operations, schedules of 2 entries, 1 late command, 2 low and 2 high brightnesses, one of them out of range | a process acts on a press once, and once more only after a silence of 10 s; two replicas only if both believed to lead, a stable leader always does; an undisturbed schedule is installed exactly, presses alternate unless the light changes under them |
| `home` | 1 light that changes twice, 1 page that may be reopened, 1 form, failed reads | the snapshot misses no change, a row comes to show its light or unknown (unless it is dragged, or its change was given up on or overtaken) or the stream ends, a closed stream leaves nothing behind |
| `home_norows` | the same, failed reads only | violated: a page rendered without rows stays without them |
| `backends` | the start-up in every environment, or one of: 2 pages, 3 requests, 2 flights (one from a closed airport), 2 Vault nodes, calls and milliseconds, 3 readers, 2 jobs | a failure stays with the services that need what failed, but for the two defects of s-rpc-mqtt; start-up ends unless the broker is unreachable; one query per period, the newest value is kept, requests are answered, a map is whole, a completed snapshot is stored, one Consul client, an evaluation without an error received every job |
| `autoscaler_nil` | 2 jobs | violated: a running job fails the evaluation |
| `copy` | 2 pages with a folder, two files with one target and one below it, of 1, 2 and 3 bytes, chunks of 1 to 4 bytes or none given, 2 permits, 2 runs, 2 faults | counters add up, a run without errors completes every target that was free and uploads only what is missing, runs end |
| `recovery` | 3 nested directories, 3 files, pages of 2, 2 permits, 2 runs, dry or not, 2 faults | no file falls between pages, is marked twice, restored from the wrong snapshot or changed without damage; runs end |

Bounds. Two faults are enough for the combinations that matter in the election (a
lost answer followed by a crash or an expiry); session identifiers are recycled
once nobody remembers them, so three serve two replicas plus one leaked session.
Instances can be small because the safety properties are proved for every size;
only liveness rests on the bounds.
The channels of the watch are shrunk from 32 and 16 to 1 (2 in `watch_overflow`),
so that being full is a common case. Two connections are one reconnection in the middle of a call.
One id pressed twice is an id that is used again, and three messages are enough
for the last to come after the first was forgotten, with and without one between
them. The semaphores have two
permits, fewer than the goroutines that wait for them.
Two runs are enough for one to meet what another left. One page is enough for
`home` because pages meet only in the broadcaster, which `watch` checks with two
watchers; two changes let one fall before and one after the snapshot. In
`buttons` two lights are those of the code, brightnesses are shrunk to 0..3 and
the schedule to two entries, so that it can be interrupted between any two
commands. In `backends` the cache periods are 3 and 2 ticks and time passes
several of them; two failovers move the leader away and back.

Deadlock is not checked where the system may stop: all replicas shut down, all
calls returned, bounds on faults and changes reached.

Fairness. Goroutines run, timers fire and Consul answers (WF on the steps of each
replica and each session); nothing makes a fault or a shutdown happen. In
`LightWatch` the broker delivers and devices answer, and a healthy client reads;
the close of the broadcaster has strong fairness, because Go's `select` picks at
random among ready cases and cannot avoid `ctx.Done()` for ever. `HomeEvents`
keeps delivery and broadcasting fair, with the handler and the receiver of each
page; the browser never has to do anything. In `Monolith` the goroutine of
`main` runs and a reachable broker is connected to; no event is forced. In
`Portfolio` handlers run, queries return and the lock lets waiters in; the other
modules of `Backends` have safety properties only. In `ShellyRPC`
only the caller's goroutine and its deadline are fair: broker, device and
connection may stop for good. In `ButtonEvents` messages arrive and goroutines
run, but nothing makes the election move. In `CloudreveCopy` and `Recovery` the
goroutines run and servers answer or fail (the programs set no timeout on their
HTTP clients, so this is an assumption); waiting for a permit has strong fairness
because `semaphore.Weighted` serves its waiters in order.

## Findings

- `leader_leak`: Grab sets no `MonitorRetries`, so a single failed read closes
  `Lost` while the session is valid. `run` then loops without `Release`; the old
  session is still renewed, still owns the key, and blocks every Grab.
- `watch_overflow`: a notification dropped by a full queue leaves subscribers with
  an old state, although `def.proto` promises the status of every light whose
  state changes. A failed read does the same; `MissesAccountedFor` lists both as
  the only reasons.
- `home_norows`: a page rendered while `ListLights` failed has no rows. Its script
  opens the event stream, which "starts with all of them, which is what catches a
  page up", but `getElementById(row.id)?.replaceWith(row)` drops every row the page
  does not have: it shows no light until it is loaded again.
- `autoscaler_nil`: `EvalAllScalingStatus` decodes into a nil `*nomad.Job`, which
  `json.Unmarshal` always refuses. The first running job fails the evaluation, and
  `processJob` is never reached.

What properties except, and is therefore documented rather than caught: a press that
comes back after a silence of 10 s is acted on again (`AgainOnlyAfterSilence`); keys
that share a target lose all objects but one, and an object whose target is taken by
something else is skipped without an error (`CleanRunCopiesAll`); a press before `cm` is assigned
and a polling period of zero kill the process (`FailuresStayLocal`); a result set
that breaks off looks complete (`ShownIsComplete`); the Vault client keeps pointing
at a node that is gone (`CompletedMeansStored` holds all the same); `cmd/recovery`
takes any error of `GetObject` for a missing backup (files with a failed request are
excepted from its properties); the totals after a failed listing are not final
(`CountsAddUp` is about complete ones); the answer to a form may overtake a newer
event (`PageCatchesUp`).

## Proofs

Every invariant, every action property and the refinement that a run checks is a
theorem for all values of the constants that satisfy the named assumption of the
module. The bounds on faults, changes, runs and operations are constants too, so
they are arbitrary in the proofs. An assumption says what the code guarantees:
capacities and periods are positive, a value that stands for nothing (`None`,
`Absent`, `NoReading`) is none of the real ones. The exceptions are named below.

All proofs have one shape: an inductive invariant `IInv`, one step per action,
and the property as a consequence.

**`LeaderLockProofs`** (`LockAssumption`; any set of replicas and of sessions). The
safety properties are not inductive. The invariant adds

- `SessionMatchesPc`: a replica has a session exactly while it is inside a lock;
- `SessionsDistinct`: two replicas never use one session;
- `OwnRenewal`: a session in use is renewed, if at all, by the replica using it;
- `HolderLive`: the key's owner is a valid session.

With these, an `Acquire` by one replica cannot coincide with another's valid
ownership, which gives `LiveLeaderHoldsKey`, hence `AtMostOneBackedLeader`;
`LeakedSessionHoldsKey` follows because a lock is dropped without closing
`sessionRenew` only from `leading`. `KeyLeavesOnlyByRelease` and `Refinement` are
proved per action from the same invariant.

**`ButtonEventsProofs`** (`ButtonAssumption`: finitely many replicas, for
`Cardinality`, a positive expiration and a positive number of messages).
`AgainOnlyAfterSilence` is not inductive: that an id was acted on says nothing
of whether the cache still knows it. `RememberedWhileUnderWay` says that an id with
messages under way is forgotten exactly when the last one was handled an expiration
ago, and that a silence is then counted that no dispatch has used up, because every
sight renews the entry; the mutant that renews it only once breaks exactly this.
`FewMessages` bounds the counters for the type invariant: between two silences a
message is handled. `HandledByBelievers` gives
`OneBelieverOneDispatch`.

**`LightWatchProofs`** (`WatchAssumption`, `HomeAssumption`; any lights, watchers,
pages and capacities). `MissesAccountedFor` is about the last status of a light in
a channel, so the lemmas are about that: what `LastOf` and `IsIn` are after a send
(`LastAppend`, `IsInAppend`) and after a receive (`LastTail`, `IsInTail`). They
need that a set of positions has a greatest one; the library's induction theorems
cannot be instantiated here, but `WFMin` (a well-founded order has minimal
elements) takes a set and does as well (`Least`, `Greatest`). The invariant says
that the newest status a subscriber has or will get is the light's, or a change is
announced, being read or was given up on (`SubscribersGetAll`); an answer of
`getLight` that the light has left behind is followed by a notification
(`AnswerIsFollowed`, the reason why one read per notification is enough); versions
do not decrease from publication to answer to device (`VersionsInOrder`).

`HomeRunsWatch` shows that a page's step is a watcher's step or none, so these
theorems hold in `HomeEvents`. `SnapshotMissesNothing` needs an invariant per page
that follows a status along the whole way: what the service sent last is what the
stream carries last (`OnTheWayIsKnown`), and when nothing about a light is on its
way, the row read by the snapshot (`SnapshotIsCurrent`) or shown by the page
(`RowIsCurrent`) is current or excused. That the subscription comes before the
snapshot enters in the step that reads the snapshot, through `CallMatchesStream`:
a handler that reads it has a channel in the broadcaster's map.

**`ShellyRPCProofs`** (at least one connection). The invariant says that whatever is
on its way belongs to a call that has begun (`OnlyBegunCalls`), that every reply
at the broker, in a `recv` channel or returned is on the topic of the call it
answers and newer than its start (`GoodReplies`), and that paho sends on
connections that exist (`SentOnPast`).

**`AquariumLightsProofs`** (`AquariumAssumption`: the two lights and the plug differ,
every low
brightness is below every high one). `ScheduleInstalled` speaks of the end; `Progress` says what both
lights have when the next command is the n-th, and `NoOtherSchedule` that nobody
else is in the middle of a schedule while one is undisturbed. `PressesAlternate`
needs `PressedIsShown`: what a press set is what the light shows until something
else changes it.

**`ServicesProofs`**. A step of `Backends` is a step of one service and leaves the
variables of the others alone (`OneServiceSteps`), so an invariant per service is
proved from that service's steps only. `TemperatureIsShared` is arithmetic: a
query begins when as many periods have passed as there were queries before it
(`TempInv`), and then the quotient bounds them (`PeriodsFit`). `OneConsulClient`
holds because under the mutex there is a client exactly if one was made.
`CacheKeepsNewest` needs that a request outside `refreshCache` is not newer than
the cache. `OkMeansAllReceived` needs that a job is received, in the stream or still
listed unless the stream failed. `CompletedMeansStored` needs that what is uploaded
is whole, whichever call wrote a key last. `FailuresStayLocal` follows a run of the hooks: each one behind has
brought its service up or is excused by the environment. `Monolith` has no
constants, so there the proof adds the reason to what TLC enumerates.

**`CloudreveCopyProofs`** (`CopyAssumption`: a finite bucket). The counters equal
cardinalities: `AllCounted` (a goroutine that returned was counted once) and
`UploadsCounted`, between the objects this run brought to their targets and those
whose target was free, because of two keys with one target the later may replace
the earlier; `ForeignKept` says where something that is no object of the bucket can
be; `PermitsKept` says the free permits and the goroutines that hold
one add up to the size of the semaphore, so a release never exceeds it;
`Goroutine` says how far a file is where its goroutine is, for files sent in
chunks too; `Listing` relates goroutines and pages, and that nothing runs once
`copyAll` has waited for all.

**`RecoveryProofs`** (`RecoveryAssumption`). `WalkInv` is the heart: while a directory
is walked, an entry not yet listed comes after `lastFileName`. A rename moves a
file to a later name, and the file was listed already under its own. `FileInv`
follows `tryRestore` through the snapshots. At the end the walk of `Root` has
returned, hence by `NobodyLeft` every walk. The assumption has finitely many files
and directories, names that get larger when a file is marked, and directories
that form a tree: any set of them without the root has one whose parent is
outside the set. The filer's directories are one; without it a cycle of
directories would never be reached from the root. Pages are sets cut at a name, so
`MaxExists` shows that a nonempty page has a last name.

Only model-checked: liveness, which needs fairness and `ENABLED` and is out of the
prover's reach. These are `StaleLeaderStepsDown`, `LeadershipRecoversUnlessLeaked`,
`ShutdownEndsWatches`, `StableLeaderDispatches`, `EveryCallReturns`, `RunEnds` of
both programs, `PageCatchesUp`, `NothingLeftBehind`, `StartUpEnds` and
`VisitorsAnswered`.

## Not modelled

`PROJECT.json` lists every part with its status and every hazard with the
properties that cover it. Left out:

- `shutdownServices`, `OnShutdown` and the shutdown of telemetry: nothing stops the
  gRPC server, so the process ends by dying and they never run;
- `handlePush` of the webhook: it validates one request and keeps nothing, and its
  reporting is behind `if false`;
- `handleHttpBrowse` of s-web-portfolio and s-rpc-portfolio-stats: they insert rows
  and copy counts, so what they compute is what SQL answers;
- `processJob` of the autoscaler, which no execution reaches (`autoscaler_nil`);
- gRPC calls over localhost before the server listens: grpc-go fails and redials
  them, and no code of the repository takes part;
- distances and emissions (floating point), the geometry of lines, HTML and CSS, the
  stream's ping and temperature events, gRPC interceptors that rename errors and
  log, parsing of secrets and flags, logging;
- the printed counters of `cmd/recovery`, summed without synchronisation;
- the gauges of s-rpc-portfolio-stats, where a URL without visits keeps its last
  value; `Temperature` counts the pollers that every reconnection adds, but they
  only set one gauge to what the pill reports;
- lib/macoskeychain, generated protobuf code and its generator, vendored code
  except the parts of Consul's lock that the election rests on, and the
  declarative configuration (Nix, Nomad, Terraform).

Assumptions that no property can test: two device calls never get one nanosecond
stamp; and what `ButtonEvents` says above about the button and the broker.

## Plan

No safety property of a run is left unproved. What remains worth doing:

1. abstract specifications for the watch (a set of changes, delivered or given up
   on) and for a device call (at most one execution per connection, one answer),
   with the refinements proved as for `Leadership`;
2. action properties that the invariants already give: a permit is released only by
   the goroutine that has it, a stored file never disappears;
3. shorter proofs for the pages of `HomeEvents`, whose actions repeat an argument
   about channels.
