----------------------------- MODULE LeaderLock -----------------------------
(***************************************************************************)
(* Leader election among the replicas of s-rpc-mqtt.                       *)
(*                                                                         *)
(* Every replica runs leaderState.run (services/s-rpc-mqtt/mqtt.go), which *)
(* loops over locks.Grab / locks.Release (lib/locks/locks.go).  Grab makes *)
(* a new Consul api.Lock each time, so a new Consul session each time.     *)
(* The client half of that lock (Lock, Unlock, monitorLock, RenewPeriodic) *)
(* is the vendored consul/api package; the server half (sessions, the      *)
(* key's owner, the lock-delay) is external and is modelled from the calls *)
(* the client makes.                                                       *)
(***************************************************************************)
EXTENDS Naturals

CONSTANTS
  Replica,    \* the allocations of the service (services/job.nix runs three)
  Session,    \* identifiers of Consul sessions; a forgotten one is recycled
  None,       \* "no session" and "no goroutine"
  Faults,     \* the kinds of fault that may happen, a subset of FaultKind
  MaxFaults   \* BOUND: faults in one behaviour

\* call: a Consul request fails; monitor: the key read of monitorLock fails;
\* renew: renewals fail for a whole TTL; invalidate: the server ends a session
\* that is being renewed; crash: a replica dies and Nomad restarts it.
FaultKind == {"call", "monitor", "renew", "invalidate", "crash"}

ASSUME LockAssumption == /\ None \notin Session
                         /\ None \notin Replica
                         /\ Faults \subseteq FaultKind
                         /\ MaxFaults \in Nat

VARIABLES
  pc,           \* where leaderState.run is, per replica
  ctxDone,      \* the module's context is cancelled, per replica
  isLeader,     \* leaderState.isLeader
  lockSession,  \* Lock.lockSession of the lock being taken or held
  lost,         \* the Lost channel of the held lock is closed
  renew,        \* the replica whose RenewPeriodic goroutine renews a session
  closing,      \* sessions whose sessionRenew channel has been closed
  live,         \* sessions the server considers valid
  holder,       \* the session recorded on the leader key
  lockDelay,    \* the server refuses acquisitions (lock-delay)
  faults        \* faults so far

clientVars == <<pc, ctxDone, isLeader, lockSession, lost>>
serverVars == <<live, holder, lockDelay>>
vars == <<clientVars, renew, closing, serverVars, faults>>

\* loop: the top of run's for loop.  read, acquire: inside Lock.Lock, at the
\* WAIT label and before kv.Acquire.  held: Lock has returned, isLeader is not
\* stored yet.  leading: in the select.  stopped: run has returned.
Location == {"loop", "read", "acquire", "held", "leading", "stopped"}

TypeOK ==
  /\ pc \in [Replica -> Location]
  /\ ctxDone \in [Replica -> BOOLEAN]
  /\ isLeader \in [Replica -> BOOLEAN]
  /\ lockSession \in [Replica -> Session \cup {None}]
  /\ lost \in [Replica -> BOOLEAN]
  /\ renew \in [Session -> Replica \cup {None}]
  /\ closing \subseteq Session
  /\ live \subseteq Session
  /\ holder \in Session \cup {None}
  /\ lockDelay \in BOOLEAN
  /\ faults \in 0..MaxFaults

Init ==
  /\ pc = [r \in Replica |-> "loop"]
  /\ ctxDone = [r \in Replica |-> FALSE]
  /\ isLeader = [r \in Replica |-> FALSE]
  /\ lockSession = [r \in Replica |-> None]
  /\ lost = [r \in Replica |-> FALSE]
  /\ renew = [s \in Session |-> None]
  /\ closing = {}
  /\ live = {}
  /\ holder = None
  /\ lockDelay = FALSE
  /\ faults = 0

Fault(kind) ==
  /\ kind \in Faults
  /\ faults < MaxFaults
  /\ faults' = faults + 1

-----------------------------------------------------------------------------
(* The Consul server (external).                                           *)

\* The server forgets session s.  If s owned the key, the key is released and
\* the lock-delay starts.
EndSession(s) ==
  /\ live' = live \ {s}
  /\ holder' = IF holder = s THEN None ELSE holder
  /\ lockDelay' = (lockDelay \/ holder = s)

\* The TTL of a session nobody renews runs out.
ExpireSession(s) ==
  /\ s \in live
  /\ renew[s] = None
  /\ EndSession(s)
  /\ UNCHANGED <<clientVars, renew, closing, faults>>

\* A session that is being renewed is invalidated: a failed health check of
\* the node, an operator, a partition longer than the TTL.
InvalidateSession(s) ==
  /\ Fault("invalidate")
  /\ s \in live
  /\ renew[s] # None
  /\ EndSession(s)
  /\ UNCHANGED <<clientVars, renew, closing>>

LockDelayEnds ==
  /\ lockDelay
  /\ lockDelay' = FALSE
  /\ UNCHANGED <<clientVars, renew, closing, live, holder, faults>>

-----------------------------------------------------------------------------
(* RenewPeriodic, one goroutine per session a Lock created.                *)

\* The goroutine of session s returns.
RenewReturns(s) ==
  /\ renew' = [renew EXCEPT ![s] = None]
  /\ closing' = closing \ {s}

\* Renew answers that the session is gone.
RenewExpired(s) ==
  /\ renew[s] # None
  /\ s \notin live
  /\ RenewReturns(s)
  /\ UNCHANGED <<clientVars, serverVars, faults>>

\* Renewals have failed for longer than the TTL.
RenewGivesUp(s) ==
  /\ Fault("renew")
  /\ renew[s] # None
  /\ s \in live
  /\ RenewReturns(s)
  /\ UNCHANGED <<clientVars, serverVars>>

\* sessionRenew is closed: the session is destroyed.
DestroySession(s) ==
  /\ s \in closing
  /\ s \in live
  /\ RenewReturns(s)
  /\ EndSession(s)
  /\ UNCHANGED <<clientVars, faults>>

\* The destroy request fails, its error is dropped: the TTL has to run out.
DestroyFails(s) ==
  /\ Fault("call")
  /\ s \in closing
  /\ s \in live
  /\ RenewReturns(s)
  /\ UNCHANGED <<clientVars, serverVars>>

-----------------------------------------------------------------------------
(* leaderState.run, locks.Grab, locks.Release, Lock.Lock, Lock.Unlock.     *)

\* An identifier that neither the server nor any client remembers.
Fresh == {s \in Session : /\ s \notin live
                          /\ renew[s] = None
                          /\ \A r \in Replica : lockSession[r] # s}

\* close(l.sessionRenew): only a goroutine that still runs notices.
CloseRenew(s) == closing' = IF renew[s] = None THEN closing ELSE closing \cup {s}

\* run checks ctx and calls Grab; Lock.Lock creates a session and starts to
\* renew it.
CreateSession(r) ==
  /\ pc[r] = "loop"
  /\ ~ctxDone[r]
  /\ \E s \in Fresh :
       /\ live' = live \cup {s}
       /\ renew' = [renew EXCEPT ![s] = r]
       /\ lockSession' = [lockSession EXCEPT ![r] = s]
  /\ pc' = [pc EXCEPT ![r] = "read"]
  /\ UNCHANGED <<ctxDone, isLeader, lost, closing, holder, lockDelay, faults>>

\* Grab fails before it has a session: run continues, with no pause.
CreateSessionFails(r) ==
  /\ Fault("call")
  /\ pc[r] = "loop"
  /\ ~ctxDone[r]
  /\ UNCHANGED <<clientVars, renew, closing, serverVars>>

\* The WAIT label: a blocking read of the key that returns once no other
\* session owns it.  stopCh is nil, so a cancelled context does not end it.
ReadKey(r) ==
  /\ pc[r] = "read"
  /\ holder \in {None, lockSession[r]}
  /\ pc' = [pc EXCEPT ![r] = IF holder = None THEN "acquire" ELSE "held"]
  /\ UNCHANGED <<ctxDone, isLeader, lockSession, lost, renew, closing,
                 serverVars, faults>>

\* Mutant: the cleanup deferred in Lock.Lock is forgotten.
LockErrorsLeaky(r) ==
  /\ lockSession' = [lockSession EXCEPT ![r] = None]
  /\ pc' = [pc EXCEPT ![r] = "loop"]
  /\ UNCHANGED <<ctxDone, isLeader, lost, renew, closing>>

\* Mutant: run returns the error.
LockErrorsReturned(r) ==
  /\ CloseRenew(lockSession[r])
  /\ lockSession' = [lockSession EXCEPT ![r] = None]
  /\ pc' = [pc EXCEPT ![r] = "stopped"]
  /\ UNCHANGED <<ctxDone, isLeader, lost, renew>>

\* Lock.Lock returns an error: its deferred function closes sessionRenew, and
\* run continues.
LockErrors(r) ==
  /\ CloseRenew(lockSession[r])
  /\ lockSession' = [lockSession EXCEPT ![r] = None]
  /\ pc' = [pc EXCEPT ![r] = "loop"]
  /\ UNCHANGED <<ctxDone, isLeader, lost, renew>>

ReadKeyFails(r) ==
  /\ Fault("call")
  /\ pc[r] = "read"
  /\ LockErrors(r)
  /\ UNCHANGED serverVars

\* kv.Acquire gets the key: monitorLock starts, with an open Lost channel.
Acquire(r) ==
  /\ pc[r] = "acquire"
  /\ lockSession[r] \in live
  /\ holder = None
  /\ ~lockDelay
  /\ holder' = lockSession[r]
  /\ pc' = [pc EXCEPT ![r] = "held"]
  /\ UNCHANGED <<ctxDone, isLeader, lockSession, lost, renew, closing, live,
                 lockDelay, faults>>

\* kv.Acquire answers false: the key was taken since the read, or a lock-delay
\* is in effect.  Back to WAIT.
AcquireRefused(r) ==
  /\ pc[r] = "acquire"
  /\ lockSession[r] \in live
  /\ holder # None \/ lockDelay
  /\ pc' = [pc EXCEPT ![r] = "read"]
  /\ UNCHANGED <<ctxDone, isLeader, lockSession, lost, renew, closing,
                 serverVars, faults>>

\* kv.Acquire is an error on a session the server has forgotten.
AcquireInvalid(r) ==
  /\ pc[r] = "acquire"
  /\ lockSession[r] \notin live
  /\ LockErrors(r)
  /\ UNCHANGED <<serverVars, faults>>

\* The answer to kv.Acquire is lost; the server may have applied it.
AcquireFails(r) ==
  /\ Fault("call")
  /\ pc[r] = "acquire"
  /\ \/ UNCHANGED holder
     \/ /\ lockSession[r] \in live
        /\ holder = None
        /\ ~lockDelay
        /\ holder' = lockSession[r]
  /\ LockErrors(r)
  /\ UNCHANGED <<live, lockDelay>>

BecomeLeader(r) ==
  /\ pc[r] = "held"
  /\ isLeader' = [isLeader EXCEPT ![r] = TRUE]
  /\ pc' = [pc EXCEPT ![r] = "leading"]
  /\ UNCHANGED <<ctxDone, lockSession, lost, renew, closing, serverVars, faults>>

\* monitorLock runs from the acquisition until it closes Lost.
Monitoring(r) == pc[r] \in {"held", "leading"} /\ ~lost[r]

CloseLost(r) ==
  /\ lost' = [lost EXCEPT ![r] = TRUE]
  /\ UNCHANGED <<pc, ctxDone, isLeader, lockSession, renew, closing, serverVars>>

\* Mutant: only a key without an owner counts as a loss.
MonitorSeesLossFreeOnly(r) ==
  /\ Monitoring(r)
  /\ holder = None
  /\ CloseLost(r)
  /\ UNCHANGED faults

\* monitorLock reads that another session, or none, owns the key.
MonitorSeesLoss(r) ==
  /\ Monitoring(r)
  /\ holder # lockSession[r]
  /\ CloseLost(r)
  /\ UNCHANGED faults

\* monitorLock cannot read the key.  Grab leaves MonitorRetries at 0, so the
\* first error closes Lost, whoever owns the key.
MonitorFails(r) ==
  /\ Fault("monitor")
  /\ Monitoring(r)
  /\ CloseLost(r)

\* Mutant: isLeader is not stored FALSE when the lock is lost.
LoseLockStillLeader(r) ==
  /\ pc[r] = "leading"
  /\ lost[r]
  /\ lockSession' = [lockSession EXCEPT ![r] = None]
  /\ lost' = [lost EXCEPT ![r] = FALSE]
  /\ pc' = [pc EXCEPT ![r] = "loop"]
  /\ UNCHANGED <<ctxDone, isLeader, renew, closing, serverVars, faults>>

\* run receives from Lost.  The lock is dropped without Unlock: its session
\* is still renewed.
LoseLock(r) ==
  /\ pc[r] = "leading"
  /\ lost[r]
  /\ isLeader' = [isLeader EXCEPT ![r] = FALSE]
  /\ lockSession' = [lockSession EXCEPT ![r] = None]
  /\ lost' = [lost EXCEPT ![r] = FALSE]
  /\ pc' = [pc EXCEPT ![r] = "loop"]
  /\ UNCHANGED <<ctxDone, renew, closing, serverVars, faults>>

\* Unlock, after kv.Release: sessionRenew is closed and run returns, leaving
\* isLeader as it is.
UnlockReturns(r) ==
  /\ pc[r] = "leading"
  /\ ctxDone[r]
  /\ CloseRenew(lockSession[r])
  /\ lockSession' = [lockSession EXCEPT ![r] = None]
  /\ lost' = [lost EXCEPT ![r] = FALSE]
  /\ pc' = [pc EXCEPT ![r] = "stopped"]
  /\ UNCHANGED <<ctxDone, isLeader, renew, live, lockDelay>>

\* kv.Release frees the key if the caller's session owns it.
ReleasedKey(r) == IF holder = lockSession[r] THEN None ELSE holder

\* Mutants: Unlock deletes the key, whoever owns it, or leaves the empty string
\* the client uses for "no session" on it.
ReleaseDeletes(r) == UnlockReturns(r) /\ holder' = None /\ UNCHANGED faults
ReleaseEmpty(r) ==
  /\ UnlockReturns(r)
  /\ holder' = IF holder = lockSession[r] THEN "" ELSE holder
  /\ UNCHANGED faults

\* locks.Release and Unlock, with an answer.
Release(r) ==
  /\ UnlockReturns(r)
  /\ holder' = ReleasedKey(r)
  /\ UNCHANGED faults

\* The release request fails, applied or not; Release only logs it.
ReleaseFails(r) ==
  /\ Fault("call")
  /\ UnlockReturns(r)
  /\ holder' \in {holder, ReleasedKey(r)}

\* run sees the cancelled context at the top of its loop.
RunReturns(r) ==
  /\ pc[r] = "loop"
  /\ ctxDone[r]
  /\ pc' = [pc EXCEPT ![r] = "stopped"]
  /\ UNCHANGED <<ctxDone, isLeader, lockSession, lost, renew, closing,
                 serverVars, faults>>

-----------------------------------------------------------------------------
(* The process around it.                                                  *)

\* OnShutdown cancels the module's context.
Shutdown(r) ==
  /\ ~ctxDone[r]
  /\ ctxDone' = [ctxDone EXCEPT ![r] = TRUE]
  /\ UNCHANGED <<pc, isLeader, lockSession, lost, renew, closing, serverVars,
                 faults>>

\* The process dies with all its goroutines and is started again.
Crash(r) ==
  /\ Fault("crash")
  /\ pc' = [pc EXCEPT ![r] = "loop"]
  /\ ctxDone' = [ctxDone EXCEPT ![r] = FALSE]
  /\ isLeader' = [isLeader EXCEPT ![r] = FALSE]
  /\ lockSession' = [lockSession EXCEPT ![r] = None]
  /\ lost' = [lost EXCEPT ![r] = FALSE]
  /\ renew' = [s \in Session |-> IF renew[s] = r THEN None ELSE renew[s]]
  /\ closing' = {s \in closing : renew[s] # r}
  /\ UNCHANGED serverVars

ReplicaStep(r) ==
  \/ CreateSession(r) \/ ReadKey(r)
  \/ Acquire(r) \/ AcquireRefused(r) \/ AcquireInvalid(r)
  \/ BecomeLeader(r) \/ LoseLock(r) \/ Release(r) \/ RunReturns(r)

ReplicaFault(r) ==
  \/ CreateSessionFails(r) \/ ReadKeyFails(r) \/ AcquireFails(r)
  \/ MonitorFails(r) \/ ReleaseFails(r) \/ Crash(r)

SessionStep(s) == ExpireSession(s) \/ RenewExpired(s) \/ DestroySession(s)

SessionFault(s) == InvalidateSession(s) \/ RenewGivesUp(s) \/ DestroyFails(s)

Next ==
  \/ \E r \in Replica : \/ ReplicaStep(r) \/ ReplicaFault(r)
                        \/ MonitorSeesLoss(r) \/ Shutdown(r)
  \/ \E s \in Session : SessionStep(s) \/ SessionFault(s)
  \/ LockDelayEnds

Spec == Init /\ [][Next]_vars

\* Goroutines keep running, Consul answers, TTLs and the lock-delay run out.
\* Nothing makes a fault or a shutdown happen.
Fairness ==
  /\ \A r \in Replica : WF_vars(ReplicaStep(r)) /\ WF_vars(MonitorSeesLoss(r))
  /\ \A s \in Session : WF_vars(SessionStep(s))
  /\ WF_vars(LockDelayEnds)

FairSpec == Spec /\ Fairness

-----------------------------------------------------------------------------
(* The election as the rest of the service sees it: see Leadership.        *)

Owners == {r \in Replica : /\ pc[r] \in {"held", "leading"}
                            /\ holder = lockSession[r]}

ViewOf(r) ==
  IF pc[r] = "held" THEN "won"
  ELSE IF pc[r] = "leading" THEN "leads"
  ELSE IF isLeader[r] THEN "retired" ELSE "out"

Views == [r \in Replica |-> ViewOf(r)]

Abstract == INSTANCE Leadership WITH owners <- Owners, view <- Views

\* run, Grab and Release, with every failure of Consul and of the processes,
\* implement the abstract election: leadership never passes directly from one
\* replica to another, and isLeader is stored only after winning.
ImplementsLeadership == Abstract!Spec

-----------------------------------------------------------------------------
(* Properties.                                                             *)

\* A replica past kv.Acquire (Lock returned, isLeader stored or about to be)
\* whose session is still valid owns the key: nothing but the end of its
\* session or its own Unlock takes leadership from it.
LiveLeaderHoldsKey ==
  \A r \in Replica :
    pc[r] \in {"held", "leading"} /\ lockSession[r] \in live
      => holder = lockSession[r]

\* Of two replicas that both store isLeader while in run's select, at most one
\* has a valid session: a second leader can only be a stale one, whose session
\* has ended and whose monitorLock has not been heard yet.
AtMostOneBackedLeader ==
  \A r1, r2 \in Replica :
    /\ isLeader[r1] /\ lockSession[r1] \in live
    /\ isLeader[r2] /\ lockSession[r2] \in live
    => r1 = r2

\* A session some goroutine keeps alive although run has dropped its lock.
Leaked(s) ==
  /\ renew[s] # None
  /\ s \in live \ closing
  /\ \A r \in Replica : lockSession[r] # s

\* Dropping a lock without Unlock leaks its session only while that session
\* owns the key, so at most one session is leaked at a time, and while it is
\* nobody can be elected.
LeakedSessionHoldsKey == \A s \in Session : Leaked(s) => holder = s

\* The key leaves a session the server still considers valid only when the
\* replica that holds it releases it during a shutdown: no other replica's
\* step, late request or error path takes it away.
KeyLeavesLiveSessionOnlyByRelease ==
  [][\A s \in live' :
       holder = s /\ holder' # s
         => \E r \in Replica : /\ lockSession[r] = s
                               /\ ctxDone[r]
                               /\ pc'[r] = "stopped"]_vars

\* A replica that stores isLeader although the key is no longer its own finds
\* out: it stores FALSE, or its run returns.
StaleLeaderStepsDown ==
  \A r \in Replica :
    isLeader[r] /\ holder # lockSession[r]
      ~> ~isLeader[r] \/ pc[r] = "stopped"

\* Leadership is lost for good only to a leaked session: while there is none
\* and some replica is not shutting down, a replica that owns the key stores
\* isLeader again and again, whatever else failed.
LeadershipRecoversUnlessLeaked ==
  []<>(\/ \E r \in Replica : isLeader[r] /\ holder = lockSession[r]
       \/ \A r \in Replica : ctxDone[r]
       \/ \E s \in Session : Leaked(s))

\* Leadership is never lost for good: while some replica is not shutting down,
\* a replica that owns the key stores isLeader again and again.
LeadershipRecovers ==
  []<>(\/ \E r \in Replica : isLeader[r] /\ holder = lockSession[r]
       \/ \A r \in Replica : ctxDone[r])
=============================================================================
