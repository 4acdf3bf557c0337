----------------------------- MODULE Portfolio -----------------------------
(***************************************************************************)
(* GET /api/aquarium_temp of s-web-portfolio: a handler keeps the read     *)
(* lock of the cache while it queries Prometheus, and starts a goroutine   *)
(* that waits for the write lock to refresh the cache.                     *)
(***************************************************************************)
EXTENDS Naturals

CONSTANTS
  Visitor,       \* the requests
  NoRefresh,     \* no goroutine has asked for the write lock
  CacheFor,      \* for how long a cached value is served: 20 s
  LastSecond     \* bound: the clock stops here

ASSUME PortfolioAssumption ==
  /\ CacheFor \in Nat \ {0}
  /\ LastSecond \in Nat
  /\ NoRefresh \notin Visitor

VARIABLES
  clock,     \* time
  cachedAt,  \* when the cached value was stamped, 0 before the first
  cachedBy,  \* the request whose value is cached
  request,   \* how far each request is
  stamp,     \* the time a request took when its query was answered
  refreshes, \* goroutines in refreshCache, by the request that began them
  locking    \* the one that called Lock first and has not unlocked

portfolioVars == <<clock, cachedAt, cachedBy, request, stamp, refreshes, locking>>

PortfolioInit ==
  /\ clock = CacheFor
  /\ cachedAt = 0
  /\ cachedBy = NoRefresh
  /\ request = [v \in Visitor |-> "idle"]
  /\ stamp = [v \in Visitor |-> 0]
  /\ refreshes = {}
  /\ locking = NoRefresh

\* The requests that hold the read lock.
Readers == {v \in Visitor : request[v] \in {"reading", "querying", "responding"}}

To(v, step) == request' = [request EXCEPT ![v] = step]

Arrive(v) ==
  /\ request[v] = "idle"
  /\ To(v, "waiting")
  /\ UNCHANGED <<clock, cachedAt, cachedBy, stamp, refreshes, locking>>

\* A goroutine that waits for the write lock keeps new readers out.
RLock(v) ==
  /\ request[v] = "waiting"
  /\ locking = NoRefresh
  /\ To(v, "reading")
  /\ UNCHANGED <<clock, cachedAt, cachedBy, stamp, refreshes, locking>>

ServeCached(v) ==
  /\ request[v] = "reading"
  /\ clock - cachedAt < CacheFor
  /\ To(v, "done")
  /\ UNCHANGED <<clock, cachedAt, cachedBy, stamp, refreshes, locking>>

Query(v) ==
  /\ request[v] = "reading"
  /\ clock - cachedAt >= CacheFor
  /\ To(v, "querying")
  /\ UNCHANGED <<clock, cachedAt, cachedBy, stamp, refreshes, locking>>

QueryErrs(v) ==
  /\ request[v] = "querying"
  /\ To(v, "done")
  /\ UNCHANGED <<clock, cachedAt, cachedBy, stamp, refreshes, locking>>

\* The answer is stamped and handed to a goroutine.
GoRefreshCache(v) ==
  /\ request[v] = "querying"
  /\ stamp' = [stamp EXCEPT ![v] = clock]
  /\ refreshes' = refreshes \cup {v}
  /\ To(v, "responding")
  /\ UNCHANGED <<clock, cachedAt, cachedBy, locking>>

\* Mutant: refreshCache is called, and not in a goroutine.
RespondAfterRefresh(v) ==
  /\ request[v] = "responding"
  /\ v \notin refreshes
  /\ To(v, "done")
  /\ UNCHANGED <<clock, cachedAt, cachedBy, stamp, refreshes, locking>>

\* The response is written; the deferred RUnlock runs.
Respond(v) ==
  /\ request[v] = "responding"
  /\ To(v, "done")
  /\ UNCHANGED <<clock, cachedAt, cachedBy, stamp, refreshes, locking>>

Lock(v) ==
  /\ v \in refreshes
  /\ locking = NoRefresh
  /\ locking' = v
  /\ UNCHANGED <<clock, cachedAt, cachedBy, request, stamp, refreshes>>

\* Mutant: the stamp is not compared.
refreshCacheAlways ==
  /\ locking # NoRefresh
  /\ Readers = {}
  /\ cachedAt' = stamp[locking]
  /\ cachedBy' = locking
  /\ refreshes' = refreshes \ {locking}
  /\ locking' = NoRefresh
  /\ UNCHANGED <<clock, request, stamp>>

\* With the lock held: a value stamped before the cached one is dropped.
refreshCache ==
  /\ locking # NoRefresh
  /\ Readers = {}
  /\ IF stamp[locking] < cachedAt
       THEN UNCHANGED <<cachedAt, cachedBy>>
       ELSE cachedAt' = stamp[locking] /\ cachedBy' = locking
  /\ refreshes' = refreshes \ {locking}
  /\ locking' = NoRefresh
  /\ UNCHANGED <<clock, request, stamp>>

ClockTick ==
  /\ clock < LastSecond
  /\ clock' = clock + 1
  /\ UNCHANGED <<cachedAt, cachedBy, request, stamp, refreshes, locking>>

HandlerStep(v) ==
  RLock(v) \/ ServeCached(v) \/ Query(v) \/ QueryErrs(v) \/ GoRefreshCache(v) \/ Respond(v)

PortfolioNext ==
  \/ \E v \in Visitor : Arrive(v) \/ HandlerStep(v) \/ Lock(v)
  \/ refreshCache
  \/ ClockTick

\* Handlers and goroutines run on, queries return, RWMutex lets waiters in.
\* Requests need not come and the clock need not be looked at.
PortfolioFairness ==
  /\ \A v \in Visitor : WF_portfolioVars(HandlerStep(v)) /\ WF_portfolioVars(Lock(v))
  /\ WF_portfolioVars(refreshCache)

PortfolioSpec == PortfolioInit /\ [][PortfolioNext]_portfolioVars /\ PortfolioFairness

-----------------------------------------------------------------------------
\* Requests wait for a goroutine that asked for the write lock, the goroutine
\* waits for requests that hold the read lock, and those for Prometheus: nobody
\* waits for himself, and every request is answered.
VisitorsAnswered == \A v \in Visitor : request[v] = "waiting" ~> request[v] = "done"

\* Goroutines get the lock in any order: once those of a set of requests have
\* ended, the cache holds the value of one of them, or of a later one, and the
\* stamp that came with it.
CacheKeepsNewest ==
  /\ \A v \in Visitor :
       request[v] = "done" /\ v \notin refreshes => stamp[v] <= cachedAt
  /\ cachedBy # NoRefresh => stamp[cachedBy] = cachedAt
=============================================================================
