-------------------------- MODULE LeaderLockProofs --------------------------
(***************************************************************************)
(* Proofs about leader election, for any set of replicas, any pool of      *)
(* session identifiers and any number of faults of any kind.               *)
(***************************************************************************)
EXTENDS LeaderLock, TLAPS

\* Where run is determines whether it has a session and whether isLeader is
\* stored: in the select it is, and elsewhere only if run returned from there.
SessionMatchesPc ==
  \A r \in Replica :
    /\ pc[r] \in {"loop", "stopped"} <=> lockSession[r] = None
    /\ isLeader[r] => pc[r] \in {"leading", "stopped"}
    /\ pc[r] = "leading" => isLeader[r]

\* No two replicas use one session.
SessionsDistinct ==
  \A r1, r2 \in Replica :
    lockSession[r1] = lockSession[r2] /\ lockSession[r1] # None => r1 = r2

\* A replica's session is renewed by that replica or by nobody.
OwnRenewal ==
  \A r \in Replica :
    lockSession[r] # None => renew[lockSession[r]] \in {r, None}

\* The server never records a dead session on the key.
HolderLive == holder # None => holder \in live

IInv ==
  /\ TypeOK
  /\ SessionMatchesPc
  /\ SessionsDistinct
  /\ OwnRenewal
  /\ HolderLive
  /\ LiveLeaderHoldsKey
  /\ LeakedSessionHoldsKey

-----------------------------------------------------------------------------
\* The initial state satisfies the inductive invariant.
LEMMA InitIInv == Init => IInv
  <1> SUFFICES ASSUME Init
               PROVE  IInv
    OBVIOUS
  <1> USE LockAssumption DEF Init
  <1>1. TypeOK
    <2>1. faults \in 0..MaxFaults
      OBVIOUS
    <2>2. /\ ctxDone \in [Replica -> BOOLEAN]
          /\ isLeader \in [Replica -> BOOLEAN]
          /\ lost \in [Replica -> BOOLEAN]
          /\ lockDelay \in BOOLEAN
      OBVIOUS
    <2>3. /\ pc \in [Replica -> Location]
          /\ lockSession \in [Replica -> Session \cup {None}]
          /\ renew \in [Session -> Replica \cup {None}]
          /\ holder \in Session \cup {None}
          /\ closing \subseteq Session
          /\ live \subseteq Session
      BY DEF Location
    <2> QED
      BY <2>1, <2>2, <2>3 DEF TypeOK
  <1>2. SessionMatchesPc /\ SessionsDistinct /\ OwnRenewal /\ HolderLive
    BY DEF SessionMatchesPc, SessionsDistinct, OwnRenewal, HolderLive
  <1>3. LiveLeaderHoldsKey /\ LeakedSessionHoldsKey
    BY DEF LiveLeaderHoldsKey, LeakedSessionHoldsKey, Leaked
  <1> QED
    BY <1>1, <1>2, <1>3 DEF IInv

\* Every step of run, of a renewal goroutine, of monitorLock and of the server
\* preserves the inductive invariant, faults included.
LEMMA NextIInv == IInv /\ [Next]_vars => IInv'
  <1> SUFFICES ASSUME IInv, [Next]_vars
               PROVE  IInv'
    OBVIOUS
  <1> USE LockAssumption
      DEF IInv, TypeOK, Location, SessionMatchesPc, SessionsDistinct, OwnRenewal,
          HolderLive, LiveLeaderHoldsKey, LeakedSessionHoldsKey, Leaked,
          clientVars, serverVars
  <1>1. ASSUME NEW r \in Replica, CreateSession(r)
        PROVE  IInv'
    BY <1>1 DEF CreateSession, Fresh
  <1>2. ASSUME NEW r \in Replica, ReadKey(r)
        PROVE  IInv'
    BY <1>2 DEF ReadKey
  <1>3. ASSUME NEW r \in Replica, Acquire(r)
        PROVE  IInv'
    BY <1>3 DEF Acquire
  <1>4. ASSUME NEW r \in Replica, AcquireRefused(r)
        PROVE  IInv'
    BY <1>4 DEF AcquireRefused
  <1>5. ASSUME NEW r \in Replica, AcquireInvalid(r)
        PROVE  IInv'
    BY <1>5 DEF AcquireInvalid, LockErrors, CloseRenew
  <1>6. ASSUME NEW r \in Replica, BecomeLeader(r)
        PROVE  IInv'
    BY <1>6 DEF BecomeLeader
  <1>7. ASSUME NEW r \in Replica, LoseLock(r)
        PROVE  IInv'
    BY <1>7 DEF LoseLock
  <1>8. ASSUME NEW r \in Replica, Release(r)
        PROVE  IInv'
    BY <1>8 DEF Release, UnlockReturns, ReleasedKey, CloseRenew
  <1>9. ASSUME NEW r \in Replica, RunReturns(r)
        PROVE  IInv'
    BY <1>9 DEF RunReturns
  <1>10. ASSUME NEW r \in Replica, CreateSessionFails(r)
        PROVE  IInv'
    BY <1>10 DEF CreateSessionFails, Fault
  <1>11. ASSUME NEW r \in Replica, ReadKeyFails(r)
        PROVE  IInv'
    BY <1>11 DEF ReadKeyFails, Fault, LockErrors, CloseRenew
  <1>12. ASSUME NEW r \in Replica, AcquireFails(r)
        PROVE  IInv'
    BY <1>12 DEF AcquireFails, Fault, LockErrors, CloseRenew
  <1>13. ASSUME NEW r \in Replica, MonitorFails(r)
        PROVE  IInv'
    BY <1>13 DEF MonitorFails, Fault, Monitoring, CloseLost
  <1>14. ASSUME NEW r \in Replica, ReleaseFails(r)
        PROVE  IInv'
    BY <1>14 DEF ReleaseFails, Fault, UnlockReturns, ReleasedKey, CloseRenew
  <1>15. ASSUME NEW r \in Replica, Crash(r)
        PROVE  IInv'
    BY <1>15 DEF Crash, Fault
  <1>16. ASSUME NEW r \in Replica, MonitorSeesLoss(r)
        PROVE  IInv'
    BY <1>16 DEF MonitorSeesLoss, Monitoring, CloseLost
  <1>17. ASSUME NEW r \in Replica, Shutdown(r)
        PROVE  IInv'
    BY <1>17 DEF Shutdown
  <1>18. ASSUME NEW s \in Session, ExpireSession(s)
        PROVE  IInv'
    BY <1>18 DEF ExpireSession, EndSession
  <1>19. ASSUME NEW s \in Session, RenewExpired(s)
        PROVE  IInv'
    BY <1>19 DEF RenewExpired, RenewReturns
  <1>20. ASSUME NEW s \in Session, DestroySession(s)
        PROVE  IInv'
    BY <1>20 DEF DestroySession, RenewReturns, EndSession
  <1>21. ASSUME NEW s \in Session, InvalidateSession(s)
        PROVE  IInv'
    BY <1>21 DEF InvalidateSession, Fault, EndSession
  <1>22. ASSUME NEW s \in Session, RenewGivesUp(s)
        PROVE  IInv'
    BY <1>22 DEF RenewGivesUp, Fault, RenewReturns
  <1>23. ASSUME NEW s \in Session, DestroyFails(s)
        PROVE  IInv'
    BY <1>23 DEF DestroyFails, Fault, RenewReturns
  <1>24. CASE LockDelayEnds
    BY <1>24 DEF LockDelayEnds
  <1>25. CASE UNCHANGED vars
    BY <1>25 DEF vars
  <1> QED
    BY <1>1, <1>2, <1>3, <1>4, <1>5, <1>6, <1>7, <1>8, <1>9, <1>10, <1>11, <1>12, <1>13, <1>14, <1>15, <1>16, <1>17, <1>18, <1>19, <1>20, <1>21, <1>22, <1>23, <1>24, <1>25
    DEF Next, ReplicaStep, ReplicaFault, SessionStep, SessionFault

\* The inductive invariant holds in every reachable state.
THEOREM SpecIInv == Spec => []IInv
  BY InitIInv, NextIInv, PTL DEF Spec

-----------------------------------------------------------------------------
\* Type correctness: every variable keeps its type in every reachable state.
THEOREM TypeCorrect == Spec => []TypeOK
  <1>1. IInv => TypeOK
    BY DEF IInv
  <1> QED
    BY <1>1, SpecIInv, PTL

\* A replica past kv.Acquire with a valid session owns the key, whatever else
\* goes wrong in Consul or in the other replicas.
THEOREM LiveLeaderHoldsKeyAlways == Spec => []LiveLeaderHoldsKey
  <1>1. IInv => LiveLeaderHoldsKey
    BY DEF IInv
  <1> QED
    BY <1>1, SpecIInv, PTL

\* Two replicas never store isLeader with valid sessions at the same time.
THEOREM AtMostOneBackedLeaderAlways == Spec => []AtMostOneBackedLeader
  <1>1. IInv => AtMostOneBackedLeader
    <2> SUFFICES ASSUME IInv,
                        NEW r1 \in Replica, isLeader[r1], lockSession[r1] \in live,
                        NEW r2 \in Replica, isLeader[r2], lockSession[r2] \in live
                 PROVE  r1 = r2
      BY DEF AtMostOneBackedLeader
    <2>1. lockSession[r1] # None /\ lockSession[r2] # None
      BY LockAssumption DEF IInv, TypeOK
    <2>2. pc[r1] = "leading" /\ pc[r2] = "leading"
      BY <2>1 DEF IInv, SessionMatchesPc
    <2>3. holder = lockSession[r1] /\ holder = lockSession[r2]
      BY <2>2 DEF IInv, LiveLeaderHoldsKey
    <2> QED
      BY <2>1, <2>3 DEF IInv, SessionsDistinct
  <1> QED
    BY <1>1, SpecIInv, PTL

\* A session left behind by run (the lock dropped without Unlock) and still
\* renewed owns the key.
THEOREM LeakedSessionHoldsKeyAlways == Spec => []LeakedSessionHoldsKey
  <1>1. IInv => LeakedSessionHoldsKey
    BY DEF IInv
  <1> QED
    BY <1>1, SpecIInv, PTL

\* The key leaves a valid session only when its replica releases it.
THEOREM KeyLeavesOnlyByRelease == Spec => KeyLeavesLiveSessionOnlyByRelease
  <1> DEFINE Kept == \A s \in live' :
                       holder = s /\ holder' # s
                         => \E r \in Replica : /\ lockSession[r] = s
                                               /\ ctxDone[r]
                                               /\ pc'[r] = "stopped"
  <1>1. IInv /\ [Next]_vars => [Kept]_vars
    <2> SUFFICES ASSUME IInv, Next
                 PROVE  Kept
      OBVIOUS
    <2>1. ASSUME NEW r \in Replica, ReplicaStep(r) \/ ReplicaFault(r)
          PROVE  Kept
      <3>1. CASE Acquire(r) \/ AcquireFails(r)
        <4>1. None \notin live'
          BY <3>1, LockAssumption
          DEF IInv, TypeOK, Acquire, AcquireFails, LockErrors
        <4> QED
          BY <3>1, <4>1 DEF Acquire, AcquireFails
      <3>2. CASE Release(r) \/ ReleaseFails(r)
        <4>1. pc'[r] = "stopped" /\ ctxDone[r]
          BY <3>2 DEF Release, ReleaseFails, UnlockReturns, IInv, TypeOK
        <4>2. holder' # holder => holder = lockSession[r]
          BY <3>2 DEF Release, ReleaseFails, ReleasedKey
        <4> QED
          BY <4>1, <4>2
      <3>3. CASE UNCHANGED holder
        BY <3>3
      <3> QED
        BY <2>1, <3>1, <3>2, <3>3
        DEF ReplicaStep, ReplicaFault, CreateSession, ReadKey, AcquireRefused,
            AcquireInvalid, BecomeLeader, LoseLock, RunReturns, CreateSessionFails,
            ReadKeyFails, MonitorFails, Crash, CloseLost, serverVars
    <2>2. ASSUME NEW r \in Replica, MonitorSeesLoss(r) \/ Shutdown(r)
          PROVE  Kept
      BY <2>2 DEF MonitorSeesLoss, CloseLost, Shutdown, serverVars
    <2>3. ASSUME NEW s \in Session, SessionStep(s) \/ SessionFault(s)
          PROVE  Kept
      BY <2>3 DEF SessionStep, SessionFault, ExpireSession, RenewExpired,
                  DestroySession, InvalidateSession, RenewGivesUp, DestroyFails,
                  EndSession, serverVars
    <2>4. CASE LockDelayEnds
      BY <2>4 DEF LockDelayEnds
    <2> QED
      BY <2>1, <2>2, <2>3, <2>4 DEF Next
  <1> QED
    BY <1>1, SpecIInv, PTL DEF Spec, KeyLeavesLiveSessionOnlyByRelease

-----------------------------------------------------------------------------
(* LeaderLock implements Leadership.                                       *)

\* With the key free nobody owns it; otherwise one replica at most does.
LEMMA OwnersUnique ==
  ASSUME IInv
  PROVE  /\ holder = None => Owners = {}
         /\ \A r1, r2 \in Owners : r1 = r2
  <1>1. \A r \in Owners : lockSession[r] # None /\ holder = lockSession[r]
    BY DEF IInv, SessionMatchesPc, Owners
  <1>2. Owners \subseteq Replica
    BY DEF Owners
  <1> QED
    BY <1>1, <1>2 DEF IInv, SessionsDistinct

\* A step that leaves pc, isLeader, lockSession and the key alone leaves the
\* abstract state alone.
LEMMA SameAbstraction ==
  UNCHANGED <<pc, isLeader, lockSession, holder>> => UNCHANGED <<Owners, Views>>
  BY DEF Owners, Views, ViewOf

\* The steps of one replica.
LEMMA ReplicaImplements ==
  ASSUME IInv, IInv', NEW r \in Replica,
         ReplicaStep(r) \/ ReplicaFault(r) \/ MonitorSeesLoss(r) \/ Shutdown(r)
  PROVE  \/ Abstract!Win(r) \/ Abstract!Lead(r) \/ Abstract!StepDown(r)
         \/ Abstract!Retire(r) \/ Abstract!Restart(r)
         \/ UNCHANGED <<Owners, Views>>
  <1> USE DEF IInv, TypeOK, SessionMatchesPc, serverVars, clientVars
  <1>1. CASE Acquire(r)
    <2>1. Owners = {} /\ Owners' = {r}
      BY <1>1, OwnersUnique, LockAssumption DEF Acquire, Owners, SessionsDistinct
    <2>2. Views[r] = "out" /\ Views' = [Views EXCEPT ![r] = "won"]
      BY <1>1 DEF Acquire, Views, ViewOf
    <2> QED
      BY <2>1, <2>2 DEF Abstract!Win
  <1>2. CASE ReadKey(r)
    <2>1. CASE holder = None
      <3>1. Owners' = Owners
        BY <1>2, <2>1, OwnersUnique DEF ReadKey, Owners
      <3>2. Views' = Views
        BY <1>2, <2>1 DEF ReadKey, Views, ViewOf
      <3> QED
        BY <3>1, <3>2
    <2>2. CASE holder # None
      <3>1. Owners = {} /\ Owners' = {r}
        BY <1>2, <2>2 DEF ReadKey, Owners, SessionsDistinct
      <3>2. Views[r] = "out" /\ Views' = [Views EXCEPT ![r] = "won"]
        BY <1>2, <2>2 DEF ReadKey, Views, ViewOf
      <3> QED
        BY <3>1, <3>2 DEF Abstract!Win
    <2> QED
      BY <2>1, <2>2
  <1>3. CASE BecomeLeader(r)
    <2>1. Owners' = Owners
      BY <1>3 DEF BecomeLeader, Owners
    <2>2. Views[r] = "won" /\ Views' = [Views EXCEPT ![r] = "leads"]
      BY <1>3 DEF BecomeLeader, Views, ViewOf
    <2> QED
      BY <2>1, <2>2 DEF Abstract!Lead
  <1>4. CASE LoseLock(r)
    <2>1. Owners' = Owners \ {r}
      BY <1>4 DEF LoseLock, Owners
    <2>2. Views[r] = "leads" /\ Views' = [Views EXCEPT ![r] = "out"]
      BY <1>4 DEF LoseLock, Views, ViewOf
    <2> QED
      BY <2>1, <2>2 DEF Abstract!StepDown
  <1>5. CASE Release(r) \/ ReleaseFails(r)
    <2>1. Owners' = Owners \ {r}
      BY <1>5 DEF Release, ReleaseFails, UnlockReturns, ReleasedKey, Owners, SessionsDistinct
    <2>2. isLeader[r]
      BY <1>5 DEF Release, ReleaseFails, UnlockReturns
    <2>3. pc[r] = "leading" /\ pc' = [pc EXCEPT ![r] = "stopped"] /\ isLeader' = isLeader
      BY <1>5 DEF Release, ReleaseFails, UnlockReturns
    <2>4. Views[r] = "leads" /\ Views' = [Views EXCEPT ![r] = "retired"]
      BY <2>2, <2>3 DEF Views, ViewOf
    <2> QED
      BY <2>1, <2>4 DEF Abstract!Retire
  <1>6. CASE Crash(r)
    <2>1. Owners' = Owners \ {r}
      BY <1>6 DEF Crash, Owners
    <2>2. Views' = [Views EXCEPT ![r] = "out"]
      BY <1>6 DEF Crash, Views, ViewOf
    <2> QED
      BY <2>1, <2>2 DEF Abstract!Restart
  <1>7. CASE CreateSession(r) \/ AcquireRefused(r) \/ RunReturns(r)
    <2>1. Owners' = Owners
      BY <1>7 DEF CreateSession, AcquireRefused, RunReturns, Owners
    <2>2. Views' = Views
      BY <1>7 DEF CreateSession, AcquireRefused, RunReturns, Views, ViewOf
    <2> QED
      BY <2>1, <2>2
  <1>8. CASE AcquireInvalid(r) \/ ReadKeyFails(r)
    <2>1. Owners' = Owners
      BY <1>8 DEF AcquireInvalid, ReadKeyFails, LockErrors, Owners
    <2>2. Views' = Views
      BY <1>8 DEF AcquireInvalid, ReadKeyFails, LockErrors, Views, ViewOf
    <2> QED
      BY <2>1, <2>2
  <1>9. CASE AcquireFails(r)
    <2>1. Owners' = Owners
      BY <1>9, OwnersUnique DEF AcquireFails, LockErrors, Owners, SessionsDistinct
    <2>2. Views' = Views
      BY <1>9 DEF AcquireFails, LockErrors, Views, ViewOf
    <2> QED
      BY <2>1, <2>2
  <1>10. CASE CreateSessionFails(r) \/ MonitorFails(r) \/ MonitorSeesLoss(r) \/ Shutdown(r)
    BY <1>10, SameAbstraction
    DEF CreateSessionFails, MonitorFails, MonitorSeesLoss, CloseLost, Shutdown
  <1> QED
    BY <1>1, <1>2, <1>3, <1>4, <1>5, <1>6, <1>7, <1>8, <1>9, <1>10
    DEF ReplicaStep, ReplicaFault

\* The end of a session takes ownership from the replica that has it.
LEMMA EndSessionImplements ==
  ASSUME IInv, NEW s \in Session, EndSession(s), UNCHANGED clientVars
  PROVE  \/ \E r \in Replica : Abstract!Lose(r)
         \/ UNCHANGED <<Owners, Views>>
  <1>1. Views' = Views
    BY DEF clientVars, Views, ViewOf
  <1>2. CASE holder # s \/ Owners = {}
    <2>1. Owners' = Owners
      BY <1>2, LockAssumption
      DEF EndSession, clientVars, Owners, IInv, TypeOK, SessionMatchesPc
    <2> QED
      BY <1>1, <2>1
  <1>3. CASE holder = s /\ Owners # {}
    <2>1. PICK r \in Owners : TRUE
      BY <1>3
    <2>2. Owners = {r} /\ r \in Replica
      BY <2>1, OwnersUnique DEF Owners
    <2>3. Owners' = {}
      BY <1>3, LockAssumption
      DEF EndSession, clientVars, Owners, IInv, TypeOK, SessionMatchesPc
    <2> QED
      BY <1>1, <2>2, <2>3 DEF Abstract!Lose
  <1> QED
    BY <1>2, <1>3

\* leaderState.run over Consul locks implements the abstract election.
THEOREM Refinement == Spec => ImplementsLeadership
  <1>1. Init => Abstract!Init
    BY DEF Init, Abstract!Init, Owners, Views, ViewOf
  <1>2. IInv /\ IInv' /\ [Next]_vars => [Abstract!Next]_(Abstract!vars)
    <2> SUFFICES ASSUME IInv, IInv', [Next]_vars
                 PROVE  Abstract!Next \/ UNCHANGED <<Owners, Views>>
      BY DEF Abstract!vars
    <2>1. ASSUME NEW r \in Replica,
                 ReplicaStep(r) \/ ReplicaFault(r) \/ MonitorSeesLoss(r) \/ Shutdown(r)
          PROVE  Abstract!Next \/ UNCHANGED <<Owners, Views>>
      BY <2>1, ReplicaImplements DEF Abstract!Next
    <2>2. ASSUME NEW s \in Session,
                 ExpireSession(s) \/ DestroySession(s) \/ InvalidateSession(s)
          PROVE  Abstract!Next \/ UNCHANGED <<Owners, Views>>
      <3>1. EndSession(s) /\ UNCHANGED clientVars
        BY <2>2 DEF ExpireSession, DestroySession, InvalidateSession
      <3> QED
        BY <3>1, EndSessionImplements DEF Abstract!Next
    <2>3. ASSUME NEW s \in Session,
                 RenewExpired(s) \/ RenewGivesUp(s) \/ DestroyFails(s)
          PROVE  UNCHANGED <<Owners, Views>>
      BY <2>3, SameAbstraction
      DEF RenewExpired, RenewGivesUp, DestroyFails, clientVars, serverVars
    <2>4. CASE LockDelayEnds \/ UNCHANGED vars
      BY <2>4, SameAbstraction DEF LockDelayEnds, vars, clientVars, serverVars
    <2> QED
      BY <2>1, <2>2, <2>3, <2>4 DEF Next, SessionStep, SessionFault
  <1> QED
    BY <1>1, <1>2, SpecIInv, PTL DEF Spec, ImplementsLeadership, Abstract!Spec
=============================================================================
