----------------------------- MODULE Leadership -----------------------------
(***************************************************************************)
(* What the election of the mqtt leader promises the rest of s-rpc-mqtt,   *)
(* without Consul: leadership passes from one replica to nobody before it  *)
(* passes to the next, a replica stores isLeader only for an election it   *)
(* won, and a replica that has lost ownership may go on believing in it    *)
(* until it steps down.  LeaderLock implements this specification.         *)
(***************************************************************************)
CONSTANT Replica

VARIABLES
  owners,  \* the replica that owns the leader key with its current lock, if any
  view     \* what each replica believes

vars == <<owners, view>>

\* out: isLeader is FALSE.  won: Grab returned, isLeader is about to be stored.
\* leads: isLeader is TRUE.  retired: run returned with isLeader still TRUE.
View == {"out", "won", "leads", "retired"}

Init ==
  /\ owners = {}
  /\ view = [r \in Replica |-> "out"]

\* r is elected, which needs that nobody is.
Win(r) ==
  /\ owners = {}
  /\ view[r] = "out"
  /\ owners' = {r}
  /\ view' = [view EXCEPT ![r] = "won"]

\* r stores isLeader, even if it has lost the election meanwhile.
Lead(r) ==
  /\ view[r] = "won"
  /\ view' = [view EXCEPT ![r] = "leads"]
  /\ UNCHANGED owners

\* r loses ownership without knowing it yet.
Lose(r) ==
  /\ r \in owners
  /\ owners' = owners \ {r}
  /\ UNCHANGED view

\* r stores FALSE after a loss, real or feared.
StepDown(r) ==
  /\ view[r] = "leads"
  /\ owners' = owners \ {r}
  /\ view' = [view EXCEPT ![r] = "out"]

\* r shuts down: it gives up the key and leaves isLeader as it is.
Retire(r) ==
  /\ view[r] = "leads"
  /\ owners' = owners \ {r}
  /\ view' = [view EXCEPT ![r] = "retired"]

Restart(r) ==
  /\ owners' = owners \ {r}
  /\ view' = [view EXCEPT ![r] = "out"]

Next == \E r \in Replica : \/ Win(r) \/ Lead(r) \/ Lose(r)
                           \/ StepDown(r) \/ Retire(r) \/ Restart(r)

Spec == Init /\ [][Next]_vars
=============================================================================
