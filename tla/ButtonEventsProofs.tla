------------------------- MODULE ButtonEventsProofs -------------------------
(***************************************************************************)
(* Proofs about presses of the button, for any replicas, packet ids,       *)
(* expiration, number of messages per press, elections and restarts.       *)
(***************************************************************************)
EXTENDS ButtonEvents, FiniteSetTheorems, TLAPS

\* The messages of a press, handled or not, are as many as were sent; between
\* two silences there is a message handled.
FewMessages ==
  \A r \in Replica, p \in PID :
    /\ copies[r][p] + handling[r][p] + dispatched[r][p] <= MaxCopies
    /\ gap[r][p] = Expiry => copies[r][p] + handling[r][p] + silences[r][p] <= MaxCopies
    /\ gap[r][p] < Expiry => copies[r][p] + handling[r][p] + silences[r][p] < MaxCopies

\* While messages of a press are under way that was acted on once more than
\* there were silences, the cache knows its id: every sight renews it.
RememberedWhileUnderWay ==
  \A r \in Replica, p \in PID :
    /\ age[r][p] = gap[r][p]
    /\ age[r][p] = Expiry /\ ~Quiet(r, p) => dispatched[r][p] <= silences[r][p]

\* Only a replica that has stored isLeader since the press handles a message of
\* it, or may still come to.
HandledByBelievers ==
  \A r \in Replica, p \in PID :
    \/ handling[r][p] > 0
    \/ dispatched[r][p] > 0
    \/ copies[r][p] > 0 /\ isLeader(r)
    => r \in believers[p]

IInv ==
  /\ ButtonTypeOK
  /\ FewMessages
  /\ RememberedWhileUnderWay
  /\ HandledByBelievers
  /\ AgainOnlyAfterSilence

-----------------------------------------------------------------------------
\* The initial state satisfies the inductive invariant.
LEMMA InitIInv == ButtonInit => IInv
  BY ButtonAssumption
  DEF ButtonInit, Election!Init, Election!View, IInv, ButtonTypeOK, Counts, FewMessages,
      RememberedWhileUnderWay, Quiet, HandledByBelievers, isLeader,
      AgainOnlyAfterSilence

\* What the invariant says of the numbers of one replica and one id.
LEMMA Numbers ==
  ASSUME IInv, NEW r \in Replica, NEW p \in PID
  PROVE  /\ Expiry \in Nat /\ MaxCopies \in Nat
         /\ copies[r][p] \in Nat /\ handling[r][p] \in Nat
         /\ dispatched[r][p] \in Nat /\ silences[r][p] \in Nat
         /\ age[r][p] \in 0..Expiry
         /\ gap[r][p] = age[r][p]
         /\ copies[r][p] + handling[r][p] + dispatched[r][p] <= MaxCopies
         /\ age[r][p] = Expiry => copies[r][p] + handling[r][p] + silences[r][p] <= MaxCopies
         /\ age[r][p] < Expiry => copies[r][p] + handling[r][p] + silences[r][p] < MaxCopies
         /\ age[r][p] = Expiry /\ ~Quiet(r, p) => dispatched[r][p] <= silences[r][p]
         /\ dispatched[r][p] <= 1 + silences[r][p]
  <1>1. 0..MaxCopies \subseteq Nat
    BY ButtonAssumption
  <1>2. /\ copies[r][p] \in Nat /\ handling[r][p] \in Nat
        /\ dispatched[r][p] \in Nat /\ silences[r][p] \in Nat
        /\ age[r][p] \in 0..Expiry
    BY <1>1 DEF IInv, ButtonTypeOK, Counts
  <1> QED
    BY <1>2, ButtonAssumption
    DEF IInv, FewMessages, RememberedWhileUnderWay, AgainOnlyAfterSilence

\* Time passing preserves the inductive invariant: an id is forgotten while
\* messages are under way only where a silence is counted.
LEMMA TickIInv ==
  ASSUME IInv, Tick
  PROVE  IInv'
  <1>1. ASSUME NEW r \in Replica, NEW p \in PID
        PROVE  /\ age'[r][p] \in 0..Expiry
               /\ gap'[r][p] = age'[r][p]
               /\ silences'[r][p] \in 0..MaxCopies
               /\ copies[r][p] + handling[r][p] + dispatched[r][p] <= MaxCopies
               /\ age'[r][p] = Expiry
                    => copies[r][p] + handling[r][p] + silences'[r][p] <= MaxCopies
               /\ age'[r][p] < Expiry
                    => copies[r][p] + handling[r][p] + silences'[r][p] < MaxCopies
               /\ age'[r][p] = Expiry /\ ~Quiet(r, p) => dispatched[r][p] <= silences'[r][p]
               /\ dispatched[r][p] <= 1 + silences'[r][p]
    <2>1. /\ age'[r][p] = IF age[r][p] < Expiry THEN age[r][p] + 1 ELSE Expiry
          /\ gap'[r][p] = IF gap[r][p] < Expiry THEN gap[r][p] + 1 ELSE Expiry
          /\ silences'[r][p] = silences[r][p] + (IF FallsSilent(r, p) THEN 1 ELSE 0)
      BY DEF Tick, Older
    <2>2. FallsSilent(r, p) <=> (gap[r][p] + 1 = Expiry /\ ~Quiet(r, p))
      BY DEF FallsSilent
    <2>3. CASE FallsSilent(r, p)
      BY <2>1, <2>2, <2>3, Numbers
    <2>4. CASE ~FallsSilent(r, p)
      <3>1. Quiet(r, p) => copies[r][p] = 0 /\ handling[r][p] = 0
        BY DEF Quiet
      <3> QED
        BY <2>1, <2>2, <2>4, <3>1, Numbers
    <2> QED
      BY <2>3, <2>4
  <1>2. UNCHANGED <<owners, view, copies, handling, dispatched, believers, presses, restarts>>
    BY DEF Tick, electionVars
  <1>3. ButtonTypeOK'
    <2>1. /\ age' = [r \in Replica |-> [p \in PID |-> age'[r][p]]]
          /\ gap' = [r \in Replica |-> [p \in PID |-> gap'[r][p]]]
          /\ silences' = [r \in Replica |-> [p \in PID |-> silences'[r][p]]]
      BY DEF Tick, Older
    <2>2. /\ age' \in [Replica -> [PID -> 0..Expiry]]
          /\ gap' \in [Replica -> [PID -> 0..Expiry]]
          /\ silences' \in Counts
      BY <1>1, <2>1 DEF Counts
    <2> QED
      BY <1>2, <2>2 DEF IInv, ButtonTypeOK, Counts
  <1>4. FewMessages'
    BY <1>1, <1>2 DEF FewMessages
  <1>5. RememberedWhileUnderWay'
    BY <1>1, <1>2 DEF RememberedWhileUnderWay, Quiet
  <1>6. HandledByBelievers'
    BY <1>2 DEF IInv, HandledByBelievers, isLeader
  <1>7. AgainOnlyAfterSilence'
    BY <1>1, <1>2 DEF AgainOnlyAfterSilence
  <1> QED
    BY <1>3, <1>4, <1>5, <1>6, <1>7 DEF IInv

\* A goroutine that reaches pidSeen preserves the inductive invariant: it acts
\* only where the cache forgot the id, and renews it.
LEMMA HandleIInv ==
  ASSUME IInv, NEW r \in Replica, NEW p \in PID, handleButtonEvent(r, p)
  PROVE  IInv'
  <1>1. UNCHANGED <<owners, view, copies, silences, believers, presses, restarts>>
    BY DEF handleButtonEvent, electionVars
  <1>2. /\ handling[r][p] > 0
        /\ handling'[r][p] = handling[r][p] - 1
        /\ age'[r][p] = 0
        /\ gap'[r][p] = 0
        /\ age[r][p] < Expiry => dispatched'[r][p] = dispatched[r][p]
        /\ ~(age[r][p] < Expiry) => dispatched'[r][p] = dispatched[r][p] + 1
    BY DEF handleButtonEvent, AgeWhenSeen, Seen, IInv, ButtonTypeOK, Counts
  <1>3. ASSUME NEW q \in Replica, NEW u \in PID, ~(q = r /\ u = p)
        PROVE  /\ handling'[q][u] = handling[q][u]
               /\ dispatched'[q][u] = dispatched[q][u]
               /\ age'[q][u] = age[q][u]
               /\ gap'[q][u] = gap[q][u]
    BY <1>3 DEF handleButtonEvent, AgeWhenSeen, IInv, ButtonTypeOK, Counts
  <1>4. ASSUME NEW q \in Replica, NEW u \in PID
        PROVE  /\ handling'[q][u] \in 0..MaxCopies
               /\ dispatched'[q][u] \in 0..MaxCopies
               /\ age'[q][u] \in 0..Expiry
               /\ gap'[q][u] = age'[q][u]
               /\ copies[q][u] + handling'[q][u] + dispatched'[q][u] <= MaxCopies
               /\ age'[q][u] = Expiry
                    => copies[q][u] + handling'[q][u] + silences[q][u] <= MaxCopies
               /\ age'[q][u] < Expiry
                    => copies[q][u] + handling'[q][u] + silences[q][u] < MaxCopies
               /\ age'[q][u] = Expiry /\ ~(copies[q][u] = 0 /\ handling'[q][u] = 0)
                    => dispatched'[q][u] <= silences[q][u]
               /\ dispatched'[q][u] <= 1 + silences[q][u]
               /\ handling'[q][u] > 0 \/ dispatched'[q][u] > 0
                    => handling[q][u] > 0 \/ dispatched[q][u] > 0
    <2>1. CASE q = r /\ u = p
      <3>1. ~Quiet(r, p)
        BY <1>2 DEF Quiet
      <3> QED
        BY <1>2, <2>1, <3>1, Numbers, ButtonAssumption
    <2>2. CASE ~(q = r /\ u = p)
      <3>1. Quiet(q, u) <=> (copies[q][u] = 0 /\ handling[q][u] = 0)
        BY DEF Quiet
      <3> QED
        BY <1>3, <2>2, <3>1, Numbers
    <2> QED
      BY <2>1, <2>2
  <1>5. ButtonTypeOK'
    <2>1. /\ handling' = [q \in Replica |-> [u \in PID |-> handling'[q][u]]]
          /\ dispatched' = [q \in Replica |-> [u \in PID |-> dispatched'[q][u]]]
          /\ age' = [q \in Replica |-> [u \in PID |-> age'[q][u]]]
          /\ gap' = [q \in Replica |-> [u \in PID |-> gap'[q][u]]]
      BY DEF handleButtonEvent, AgeWhenSeen, IInv, ButtonTypeOK, Counts
    <2>2. /\ handling' \in Counts
          /\ dispatched' \in Counts
          /\ age' \in [Replica -> [PID -> 0..Expiry]]
          /\ gap' \in [Replica -> [PID -> 0..Expiry]]
      BY <1>4, <2>1 DEF Counts
    <2> QED
      BY <1>1, <2>2 DEF IInv, ButtonTypeOK, Counts
  <1>6. FewMessages'
    BY <1>1, <1>4 DEF FewMessages
  <1>7. RememberedWhileUnderWay'
    BY <1>1, <1>4 DEF RememberedWhileUnderWay, Quiet
  <1>8. HandledByBelievers'
    BY <1>1, <1>4 DEF IInv, HandledByBelievers, isLeader
  <1>9. AgainOnlyAfterSilence'
    BY <1>1, <1>4 DEF AgainOnlyAfterSilence
  <1> QED
    BY <1>5, <1>6, <1>7, <1>8, <1>9 DEF IInv

\* Every press, message, goroutine, election and restart, and time passing,
\* preserve the inductive invariant.
LEMMA NextIInv == IInv /\ [ButtonNext]_buttonVars => IInv'
  <1> SUFFICES ASSUME IInv, [ButtonNext]_buttonVars
               PROVE  IInv'
    OBVIOUS
  <1>2. ASSUME Tick
        PROVE  IInv'
    BY <1>2, TickIInv
  <1>4. ASSUME NEW r \in Replica, NEW p \in PID, handleButtonEvent(r, p)
        PROVE  IInv'
    BY <1>4, HandleIInv
  <1> USE ButtonAssumption
      DEF IInv, ButtonTypeOK, Counts, FewMessages, RememberedWhileUnderWay, Quiet,
          HandledByBelievers, isLeader, AgainOnlyAfterSilence,
          electionVars, packetVars
  <1>1. ASSUME NEW p \in PID, Press(p)
        PROVE  IInv'
    BY <1>1 DEF Press
  <1>3. ASSUME NEW r \in Replica, NEW p \in PID, Receive(r, p)
        PROVE  IInv'
    BY <1>3 DEF Receive
  <1>5. ASSUME NEW r \in Replica, Elect(r)
        PROVE  IInv'
    BY <1>5 DEF Elect, Election!Win, Election!Lead, Election!Lose,
                Election!StepDown, Election!Retire, Election!View
  <1>6. ASSUME NEW r \in Replica, Restart(r)
        PROVE  IInv'
    BY <1>6 DEF Restart, Election!Restart, Election!View
  <1>7. CASE UNCHANGED buttonVars
    BY <1>7 DEF buttonVars
  <1> QED
    BY <1>1, <1>2, <1>3, <1>4, <1>5, <1>6, <1>7 DEF ButtonNext

\* The invariant holds in every state.
THEOREM Invariance == ButtonSpec => []IInv
  BY InitIInv, NextIInv, PTL DEF ButtonSpec

\* Variables keep their types.
THEOREM ButtonTypeCorrect == ButtonSpec => []ButtonTypeOK
  <1>1. IInv => ButtonTypeOK
    BY DEF IInv
  <1> QED
    BY <1>1, Invariance, PTL

\* One process of a replica acts once on a press, and at most once more for every
\* time it waited Expiry for a message of it, for any number of messages and
\* goroutines, any delay of them and any expiration.
THEOREM AgainOnlyAfterSilenceAlways == ButtonSpec => []AgainOnlyAfterSilence
  <1>1. IInv => AgainOnlyAfterSilence
    BY DEF IInv
  <1> QED
    BY <1>1, Invariance, PTL

\* A set with two elements has a cardinality above 1.
LEMMA TwoElements ==
  ASSUME NEW S, IsFiniteSet(S), NEW x \in S, NEW y \in S, x # y
  PROVE  Cardinality(S) > 1
  <1>1. IsFiniteSet({x}) /\ Cardinality({x}) = 1
    BY FS_Singleton
  <1>2. /\ IsFiniteSet({x} \cup {y})
        /\ Cardinality({x} \cup {y}) = 2
    <2>1. y \notin {x}
      OBVIOUS
    <2>2. IsFiniteSet({x} \cup {y})
      BY <1>1, FS_AddElement, Zenon
    <2>3. Cardinality({x} \cup {y}) = IF y \in {x} THEN Cardinality({x})
                                                  ELSE Cardinality({x}) + 1
      BY <1>1, FS_AddElement, Zenon
    <2> QED
      BY <1>1, <2>1, <2>2, <2>3
  <1>3. {x} \cup {y} \subseteq S
    OBVIOUS
  <1>4. Cardinality({x} \cup {y}) <= Cardinality(S)
    BY <1>3, FS_Subset
  <1> QED
    BY <1>2, <1>4, FS_CardinalityType

\* Two replicas act on one press only if two replicas stored isLeader since it.
THEOREM OneBeliever == ButtonSpec => []OneBelieverOneDispatch
  <1>1. IInv => OneBelieverOneDispatch
    <2> SUFFICES ASSUME IInv,
                        NEW p \in PID, Cardinality(believers[p]) <= 1,
                        NEW r1 \in Replica, NEW r2 \in Replica,
                        dispatched[r1][p] > 0, dispatched[r2][p] > 0,
                        r1 # r2
                 PROVE  FALSE
      BY DEF OneBelieverOneDispatch
    <2>1. r1 \in believers[p] /\ r2 \in believers[p]
      BY DEF IInv, HandledByBelievers
    <2>2. believers[p] \subseteq Replica
      BY DEF IInv, ButtonTypeOK
    <2>3. IsFiniteSet(believers[p])
      BY <2>2, FS_Subset, ButtonAssumption DEF ButtonAssumption
    <2>4. Cardinality(believers[p]) > 1
      BY <2>1, <2>3, TwoElements
    <2> QED
      BY <2>3, <2>4, FS_CardinalityType
  <1> QED
    BY <1>1, Invariance, PTL
=============================================================================
