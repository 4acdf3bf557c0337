---------------------------- MODULE ButtonEvents ----------------------------
(***************************************************************************)
(* Presses of the BLE button (services/s-rpc-mqtt/mqtt_handle_button.go).  *)
(*                                                                         *)
(* The button repeats every press, the broker repeats messages (QoS 1) and *)
(* every replica receives them all.  A replica that stores isLeader starts *)
(* handleButtonEvent in a goroutine per message; pidSeen, a compare-and-   *)
(* set on a cache of packet ids that forgets an id 10 s after it was last  *)
(* seen, picks one of them to switch the lights.  The election is the      *)
(* abstract one of Leadership.                                             *)
(***************************************************************************)
EXTENDS Naturals, FiniteSets

CONSTANTS
  Replica,     \* the replicas of s-rpc-mqtt
  PID,         \* packet ids; the button uses them again
  Expiry,      \* the cache's expiration (10 s), in ticks
  MaxCopies,   \* BOUND: messages of one press that reach one replica
  MaxPresses,  \* BOUND: presses
  MaxRestarts  \* BOUND: restarts of replicas

ASSUME ButtonAssumption ==
  /\ IsFiniteSet(Replica)
  /\ Expiry \in Nat \ {0}
  /\ MaxCopies \in Nat \ {0}
  /\ MaxPresses \in Nat
  /\ MaxRestarts \in Nat

VARIABLES
  owners, view, \* the election, see Leadership
  copies,       \* messages of the latest press of an id on their way to a replica
  handling,     \* goroutines of handleButtonEvent that have not reached pidSeen
  age,          \* seenPIDs: ticks since a replica last saw an id, Expiry: forgotten
  gap,          \* ticks since a replica last handled a message of an id, at most Expiry
  dispatched,   \* how often a replica's process has acted on the latest press
  silences,     \* times a replica waited Expiry for the next message of that press
  believers,    \* replicas that stored isLeader at some time since the press
  presses,      \* presses so far
  restarts      \* restarts so far

electionVars == <<owners, view>>
packetVars == <<copies, handling, age, gap, dispatched, silences>>
buttonVars == <<electionVars, packetVars, believers, presses, restarts>>

Election == INSTANCE Leadership

Counts == [Replica -> [PID -> 0..MaxCopies]]

ButtonTypeOK ==
  /\ owners \subseteq Replica
  /\ view \in [Replica -> Election!View]
  /\ copies \in Counts
  /\ handling \in Counts
  /\ age \in [Replica -> [PID -> 0..Expiry]]
  /\ gap \in [Replica -> [PID -> 0..Expiry]]
  /\ dispatched \in Counts
  /\ silences \in Counts
  /\ believers \in [PID -> SUBSET Replica]
  /\ presses \in 0..MaxPresses
  /\ restarts \in 0..MaxRestarts

\* leaderState.isLeader: a replica that retired leaves it TRUE.
isLeader(r) == view[r] \in {"leads", "retired"}

ButtonInit ==
  /\ Election!Init
  /\ copies = [r \in Replica |-> [p \in PID |-> 0]]
  /\ handling = copies
  /\ dispatched = copies
  /\ silences = copies
  /\ age = [r \in Replica |-> [p \in PID |-> Expiry]]
  /\ gap = age
  /\ believers = [p \in PID |-> {}]
  /\ presses = 0
  /\ restarts = 0

-----------------------------------------------------------------------------
(* The button and time (external).                                         *)

\* The messages of the press of p have all been handled at r.
Quiet(r, p) == copies[r][p] = 0 /\ handling[r][p] = 0

\* A press.  The button comes back to an id only when the messages of its last
\* press are gone and no cache remembers it: there are 256 of them.
Press(p) ==
  /\ presses < MaxPresses
  /\ \A r \in Replica : Quiet(r, p) /\ age[r][p] = Expiry
  /\ \E n \in [Replica -> 1..MaxCopies] :
       copies' = [r \in Replica |-> [copies[r] EXCEPT ![p] = n[r]]]
  /\ dispatched' = [r \in Replica |-> [dispatched[r] EXCEPT ![p] = 0]]
  /\ silences' = [r \in Replica |-> [silences[r] EXCEPT ![p] = 0]]
  /\ believers' = [believers EXCEPT ![p] = {r \in Replica : isLeader(r)}]
  /\ presses' = presses + 1
  /\ UNCHANGED <<electionVars, handling, age, gap, restarts>>

Older(ages) == [r \in Replica |-> [p \in PID |->
                 IF ages[r][p] < Expiry THEN ages[r][p] + 1 ELSE Expiry]]

\* Messages of the press of p are under way to r, and none was handled for the
\* time after which the cache forgets the id.
FallsSilent(r, p) == gap[r][p] + 1 = Expiry /\ ~Quiet(r, p)

\* Time passes, however long the messages of a press are under way: the broker
\* keeps the session of a lost connection (SessionExpiryInterval, 60 s) and
\* sends again what was not acknowledged.
Tick ==
  /\ \E r \in Replica, p \in PID : age[r][p] < Expiry
  /\ age' = Older(age)
  /\ gap' = Older(gap)
  /\ silences' = [r \in Replica |-> [p \in PID |->
                    silences[r][p] + (IF FallsSilent(r, p) THEN 1 ELSE 0)]]
  /\ UNCHANGED <<electionVars, copies, handling, dispatched, believers, presses,
                 restarts>>

-----------------------------------------------------------------------------
(* The handler.                                                            *)

\* Mutants: every replica starts a goroutine, a leader starts two, or the id is
\* stored before the goroutine starts.
ReceiveAnyone(r, p) ==
  /\ copies[r][p] > 0
  /\ copies' = [copies EXCEPT ![r][p] = @ - 1]
  /\ handling' = [handling EXCEPT ![r][p] = @ + 1]
  /\ UNCHANGED <<electionVars, age, gap, dispatched, silences, believers, presses,
                 restarts>>
ReceiveTwice(r, p) ==
  /\ copies[r][p] > 0
  /\ copies' = [copies EXCEPT ![r][p] = @ - 1]
  /\ handling' = IF isLeader(r) THEN [handling EXCEPT ![r][p] = @ + 2] ELSE handling
  /\ UNCHANGED <<electionVars, age, gap, dispatched, silences, believers, presses,
                 restarts>>
ReceiveMarks(r, p) ==
  /\ copies[r][p] > 0
  /\ copies' = [copies EXCEPT ![r][p] = @ - 1]
  /\ handling' = IF isLeader(r) THEN [handling EXCEPT ![r][p] = @ + 1] ELSE handling
  /\ age' = [age EXCEPT ![r][p] = 0]
  /\ UNCHANGED <<electionVars, gap, dispatched, silences, believers, presses, restarts>>

\* OnPublishReceived: only a leader starts a goroutine for the message.
Receive(r, p) ==
  /\ copies[r][p] > 0
  /\ copies' = [copies EXCEPT ![r][p] = @ - 1]
  /\ handling' = IF isLeader(r) THEN [handling EXCEPT ![r][p] = @ + 1] ELSE handling
  /\ UNCHANGED <<electionVars, age, gap, dispatched, silences, believers, presses,
                 restarts>>

\* Mutant: an id is stored only when it is new.
AgeWhenNew(r, p) == IF age[r][p] < Expiry THEN age ELSE [age EXCEPT ![r][p] = 0]

\* seenPIDs.Get, and what seenPIDs.Set makes of the cache: every sight of an id
\* renews it.
Seen(r, p) == age[r][p] < Expiry
AgeWhenSeen(r, p) == [age EXCEPT ![r][p] = 0]

\* handleButtonEvent: pidSeen, atomic under seenPIDsLock, and for a new id the
\* goroutines that switch the lights of the button.
handleButtonEvent(r, p) ==
  /\ handling[r][p] > 0
  /\ handling' = [handling EXCEPT ![r][p] = @ - 1]
  /\ dispatched' = IF Seen(r, p) THEN dispatched
                                 ELSE [dispatched EXCEPT ![r][p] = @ + 1]
  /\ age' = AgeWhenSeen(r, p)
  /\ gap' = [gap EXCEPT ![r][p] = 0]
  /\ UNCHANGED <<electionVars, copies, silences, believers, presses, restarts>>

-----------------------------------------------------------------------------
(* The election.                                                           *)

\* A step of the election that leaves the processes running.
Elect(r) ==
  /\ \/ Election!Win(r) \/ Election!Lead(r) \/ Election!Lose(r)
     \/ Election!StepDown(r) \/ Election!Retire(r)
  /\ believers' = [p \in PID |-> believers[p] \cup {q \in Replica : isLeader(q)'}]
  /\ UNCHANGED <<packetVars, presses, restarts>>

\* The process of r starts again, with an empty cache.  Its client starts clean,
\* so the broker drops what it held for it.
Restart(r) ==
  /\ restarts < MaxRestarts
  /\ restarts' = restarts + 1
  /\ Election!Restart(r)
  /\ \E kept \in SUBSET PID :
       copies' = [copies EXCEPT ![r] = [p \in PID |-> IF p \in kept THEN @[p] ELSE 0]]
  /\ handling' = [handling EXCEPT ![r] = [p \in PID |-> 0]]
  /\ dispatched' = [dispatched EXCEPT ![r] = [p \in PID |-> 0]]
  /\ silences' = [silences EXCEPT ![r] = [p \in PID |-> 0]]
  /\ age' = [age EXCEPT ![r] = [p \in PID |-> Expiry]]
  /\ gap' = [gap EXCEPT ![r] = [p \in PID |-> Expiry]]
  /\ UNCHANGED <<believers, presses>>

ButtonNext ==
  \/ \E p \in PID : Press(p)
  \/ Tick
  \/ \E r \in Replica, p \in PID : Receive(r, p) \/ handleButtonEvent(r, p)
  \/ \E r \in Replica : Elect(r) \/ Restart(r)

ButtonSpec == ButtonInit /\ [][ButtonNext]_buttonVars

\* Messages arrive and goroutines run.  Nobody has to press, and nothing makes
\* the election move.
ButtonFairness ==
  \A r \in Replica, p \in PID :
    WF_buttonVars(Receive(r, p)) /\ WF_buttonVars(handleButtonEvent(r, p))

-----------------------------------------------------------------------------
(* Properties.                                                             *)

\* However many messages of a press race through their goroutines, and however
\* long the button and the broker repeat it, one process of a replica acts on it
\* once, and again only after it handled no message of it for Expiry while one
\* was still to come: at most once more for every such silence.
AgainOnlyAfterSilence ==
  \A r \in Replica, p \in PID : dispatched[r][p] <= 1 + silences[r][p]

\* A press is acted on by two replicas only if leadership moved, or was
\* believed in twice, while it was under way: one that only one replica has
\* ever believed to be its own is not acted on anywhere else.
OneBelieverOneDispatch ==
  \A p \in PID :
    Cardinality(believers[p]) <= 1
      => \A r1, r2 \in Replica :
           dispatched[r1][p] > 0 /\ dispatched[r2][p] > 0 => r1 = r2

\* A press is not lost: a replica that keeps leading from the press on acts on
\* it, on a press with an id it has seen before as well.
StableLeaderDispatches ==
  \A r \in Replica, p \in PID :
    isLeader(r) /\ copies[r][p] > 0 /\ dispatched[r][p] = 0
      ~> dispatched[r][p] > 0 \/ ~isLeader(r)
=============================================================================
