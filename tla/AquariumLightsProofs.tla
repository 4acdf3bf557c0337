------------------------ MODULE AquariumLightsProofs ------------------------
(***************************************************************************)
(* Proofs about the aquarium's operations, for any number of concurrent    *)
(* operations, any number of jobs and any settings of the brightness.      *)
(***************************************************************************)
EXTENDS AquariumLights, TLAPS

\* What a press gave a light, and nothing has changed since, is what it shows.
PressedIsShown ==
  \A l \in Light : pressed[l] # Absent =>
    light[l].on = TRUE /\ light[l].brightness = pressed[l]

\* While a schedule is undisturbed nobody else sends commands.
NoOtherSchedule ==
  \A c \in alone : op[c].kind \in {"schedule", "installed"} =>
    \A d \in Call \ {c} : op[d].kind # "schedule"

\* The first n jobs of aquariumSchedule.
Jobs(n) == [i \in 1..n |-> i]

\* What an undisturbed schedule has installed when its next command is next: the
\* commands alternate between the lights, and begin with Schedule.DeleteAll.
Progress ==
  \A c \in alone : op[c].kind = "schedule" =>
    /\ op[c].next >= 2 => jobs[rgb105] = Jobs((op[c].next \div 2) - 1)
    /\ op[c].next >= 3 => jobs[rgb108] = Jobs(((op[c].next - 1) \div 2) - 1)

PressInv == PressedIsShown /\ PressesAlternate
ScheduleInv == NoOtherSchedule /\ Progress /\ ScheduleInstalled

IInv == TypeOK /\ PressInv /\ ScheduleInv

-----------------------------------------------------------------------------
(* Operations.                                                             *)

\* What the fields of an operation are, by its kind.
LEMMA OperationFields ==
  ASSUME NEW o \in Operation
  PROVE  /\ o.kind = "schedule" =>
              /\ o = [kind |-> "schedule", next |-> o.next]
              /\ o.next \in 1..(2 * NSpec + 2)
         /\ o.kind \in {"press", "pressSet"} => o.id \in Aquarium
         /\ o.kind = "pressSet" => o.brightness \in aquariumLow \cup aquariumHigh
  BY DEF Operation, Idle

\* The operations that the actions start or continue.
LEMMA NewOperations ==
  /\ Idle \in Operation
  /\ [kind |-> "installed"] \in Operation
  /\ [kind |-> "failed"] \in Operation
  /\ \A n \in 1..(2 * NSpec + 2) : [kind |-> "schedule", next |-> n] \in Operation
  /\ \A l \in Aquarium : [kind |-> "press", id |-> l] \in Operation
  /\ \A l \in Aquarium, b \in aquariumLow \cup aquariumHigh :
       [kind |-> "pressSet", id |-> l, brightness |-> b] \in Operation
  /\ \A l \in Light : [kind |-> "get", id |-> l] \in Operation
  BY DEF Operation, Idle

\* The commands of aquariumSchedule: they alternate between the lights.
LEMMA Commands ==
  /\ Len(aquariumSchedule) = 2 * NSpec + 2
  /\ \A n \in 1..(2 * NSpec + 2) :
       /\ aquariumSchedule[n].id = IF n % 2 = 1 THEN rgb105 ELSE rgb108
       /\ aquariumSchedule[n].job = (n - 1) \div 2
       /\ aquariumSchedule[n] \in Command
<1>1. 2 * NSpec + 2 \in Nat
  BY AquariumAssumption
<1>2. Len(aquariumSchedule) = 2 * NSpec + 2
  BY <1>1 DEF aquariumSchedule
<1>3. ASSUME NEW n \in 1..(2 * NSpec + 2)
      PROVE  /\ aquariumSchedule[n].id = IF n % 2 = 1 THEN rgb105 ELSE rgb108
             /\ aquariumSchedule[n].job = (n - 1) \div 2
             /\ aquariumSchedule[n] \in Command
  <2>1. aquariumSchedule[n] =
          [id |-> IF n % 2 = 1 THEN rgb105 ELSE rgb108, job |-> (n - 1) \div 2]
    BY DEF aquariumSchedule
  <2>2. (n - 1) \div 2 \in 0..NSpec
    BY AquariumAssumption
  <2>3. QED
    BY <2>1, <2>2 DEF Command, Aquarium
<1>4. QED
  BY <1>2, <1>3

\* One more job continues the schedule.
LEMMA NextJob ==
  /\ Jobs(0) = <<>>
  /\ \A k \in Nat \ {0} : Append(Jobs(k - 1), k) = Jobs(k)
<1>1. Jobs(0) = <<>>
  BY DEF Jobs
<1>2. ASSUME NEW k \in Nat \ {0}
      PROVE  Append(Jobs(k - 1), k) = Jobs(k)
  <2>1. k - 1 \in Nat
    OBVIOUS
  <2>2. Jobs(k - 1) \in Seq(Nat) /\ Len(Jobs(k - 1)) = k - 1
    BY <2>1 DEF Jobs
  <2>3. Jobs(k) \in Seq(Nat) /\ Len(Jobs(k)) = k
    BY DEF Jobs
  <2>4. Append(Jobs(k - 1), k) \in Seq(Nat) /\ Len(Append(Jobs(k - 1), k)) = k
    BY <2>2
  <2>5. ASSUME NEW i \in 1..k
        PROVE  Append(Jobs(k - 1), k)[i] = Jobs(k)[i]
    <3>1. CASE i = k
      BY <2>2, <3>1 DEF Jobs
    <3>2. CASE i # k
      BY <2>2, <3>2 DEF Jobs
    <3>3. QED
      BY <3>1, <3>2
  <2>6. QED
    BY <2>3, <2>4, <2>5
<1>3. QED
  BY <1>1, <1>2
-----------------------------------------------------------------------------
(* Type correctness.                                                       *)

\* A command leaves lists of jobs.
LEMMA ExecuteType ==
  ASSUME TypeOK, NEW cmd \in Command, Execute(cmd)
  PROVE  jobs' \in [Aquarium -> Seq(1..NSpec)]
<1>1. cmd.id \in Aquarium /\ cmd.job \in 0..NSpec /\ NSpec \in Nat
  BY AquariumAssumption DEF Command
<1>2. jobs[cmd.id] \in Seq(1..NSpec)
  BY <1>1 DEF TypeOK
<1>3. CASE cmd.job = 0
  BY <1>1, <1>3 DEF Execute, TypeOK
<1>4. CASE cmd.job # 0
  <2>1. cmd.job \in 1..NSpec
    BY <1>1, <1>4
  <2>2. Append(jobs[cmd.id], cmd.job) \in Seq(1..NSpec)
    BY <1>2, <2>1
  <2>3. QED
    BY <1>1, <1>4, <2>2 DEF Execute, TypeOK
<1>5. QED
  BY <1>3, <1>4

\* Starting an operation keeps the types of op and ops.
LEMMA StartType ==
  ASSUME TypeOK, NEW c \in Call, NEW o \in Operation, Start(c, o)
  PROVE  op' \in [Call -> Operation] /\ ops' \in 0..MaxOps
  BY AquariumAssumption DEF TypeOK, Start

\* A press gives a light the low or the high brightness.
LEMMA PressBrightness ==
  \A status \in Status, low \in aquariumLow, high \in aquariumHigh :
    brightnessOfPress(status, low, high) \in aquariumLow \cup aquariumHigh
  BY DEF brightnessOfPress

\* The initial state has the types.
LEMMA TypeInit == Init => TypeOK
<1> SUFFICES ASSUME Init PROVE TypeOK
  OBVIOUS
<1>1. [on |-> FALSE, brightness |-> 0] \in Status
  BY AquariumAssumption DEF Status, Brightness
<1>2. light \in [Light -> Status]
  BY <1>1 DEF Init
<1>3. QED
  BY <1>2, NewOperations, AquariumAssumption DEF Init, TypeOK

\* Every step of a caller or of a device keeps the types.
LEMMA TypeStep == TypeOK /\ [Next]_vars => TypeOK'
<1> SUFFICES ASSUME TypeOK, [Next]_vars PROVE TypeOK'
  OBVIOUS
<1>1. CASE LateCommand
  <2>1. Head(late) \in Command /\ Tail(late) \in Seq(Command) /\ Len(Tail(late)) <= MaxLate
    <3>1. late # <<>> /\ late \in Seq(Command) /\ Len(late) <= MaxLate /\ MaxLate \in Nat
      BY <1>1, AquariumAssumption DEF LateCommand, TypeOK
    <3>2. QED
      BY <3>1
  <2>2. jobs' \in [Aquarium -> Seq(1..NSpec)]
    BY <1>1, <2>1, ExecuteType DEF LateCommand
  <2>3. QED
    BY <1>1, <2>1, <2>2 DEF LateCommand, OnlyPresses, TypeOK
<1>2. ASSUME NEW c \in Call, SetAquariumSchedule(c) PROVE TypeOK'
  <2>1. [kind |-> "schedule", next |-> 1] \in Operation
    BY NewOperations, AquariumAssumption
  <2>2. op' \in [Call -> Operation] /\ ops' \in 0..MaxOps
    BY <1>2, <2>1, StartType DEF SetAquariumSchedule
  <2>3. alone' \subseteq Call
    BY <1>2 DEF SetAquariumSchedule, OnlyPresses, TypeOK
  <2>4. QED
    BY <1>2, <2>2, <2>3 DEF SetAquariumSchedule, TypeOK
<1>3. ASSUME NEW c \in Call, CommandAnswered(c) PROVE TypeOK'
  <2>0. op[c] \in Operation /\ op[c].kind = "schedule"
    BY <1>3 DEF CommandAnswered, TypeOK
  <2>1. op[c].next \in 1..(2 * NSpec + 2)
    BY <2>0, OperationFields
  <2>2. jobs' \in [Aquarium -> Seq(1..NSpec)] /\ alone' \subseteq Call
    BY <1>3, <2>1, Commands, ExecuteType DEF CommandAnswered, TypeOK
  <2>3. op' \in [Call -> Operation]
    <3>1. CASE op[c].next = Len(aquariumSchedule)
      BY <1>3, <3>1, NewOperations DEF CommandAnswered, TypeOK
    <3>2. CASE op[c].next # Len(aquariumSchedule)
      <4>1. op[c].next # 2 * NSpec + 2
        BY <3>2, Commands
      <4>2. op[c].next + 1 \in 1..(2 * NSpec + 2)
        BY <2>1, <4>1, AquariumAssumption
      <4>3. [kind |-> "schedule", next |-> op[c].next + 1] \in Operation
        BY <4>2, NewOperations
      <4>4. QED
        BY <1>3, <3>2, <4>3 DEF CommandAnswered, TypeOK
    <3>3. QED
      BY <3>1, <3>2
  <2>4. QED
    BY <1>3, <2>2, <2>3 DEF CommandAnswered, TypeOK
<1>4. ASSUME NEW c \in Call, CommandFails(c) PROVE TypeOK'
  <2>1. op[c].next \in 1..(2 * NSpec + 2)
    BY <1>4, OperationFields DEF CommandFails, TypeOK
  <2> DEFINE cmd == aquariumSchedule[op[c].next]
  <2>2. cmd \in Command
    BY <2>1, Commands
  <2> HIDE DEF cmd
  <2>3. \/ Execute(cmd) /\ UNCHANGED late
        \/ Len(late) < MaxLate /\ late' = Append(late, cmd) /\ UNCHANGED jobs
        \/ UNCHANGED <<jobs, late>>
    BY <1>4 DEF CommandFails, cmd
  <2>4. jobs' \in [Aquarium -> Seq(1..NSpec)]
    BY <2>2, <2>3, ExecuteType DEF TypeOK
  <2>5. late' \in Seq(Command) /\ Len(late') <= MaxLate
    <3>1. late \in Seq(Command) /\ Len(late) <= MaxLate /\ MaxLate \in Nat
      BY AquariumAssumption DEF TypeOK
    <3>2. QED
      BY <2>2, <2>3, <3>1
  <2>6. op' \in [Call -> Operation]
    BY <1>4, NewOperations DEF CommandFails, TypeOK
  <2>7. QED
    BY <1>4, <2>4, <2>5, <2>6 DEF CommandFails, TypeOK
<1>5. ASSUME NEW c \in Call, PressReads(c) PROVE TypeOK'
  <2>1. op[c].id \in Aquarium /\ light[op[c].id] \in Status
    BY <1>5, OperationFields DEF PressReads, TypeOK, Light
  <2>2. PICK low \in aquariumLow, high \in aquariumHigh :
          op' = [op EXCEPT ![c] =
                   [kind |-> "pressSet", id |-> op[c].id,
                    brightness |-> brightnessOfPress(light[op[c].id], low, high)]]
    BY <1>5 DEF PressReads
  <2>3. op' \in [Call -> Operation]
    BY <2>1, <2>2, PressBrightness, NewOperations DEF TypeOK
  <2>4. QED
    BY <1>5, <2>3 DEF PressReads, TypeOK
<1>6. ASSUME NEW c \in Call, PressSets(c) PROVE TypeOK'
  <2>0. op[c].id \in Light /\ op[c].brightness # Absent
    BY <1>6, OperationFields, AquariumAssumption DEF PressSets, TypeOK, Light
  <2>1. op[c].id \in Light /\ op[c].brightness \in Brightness
    BY <1>6, <2>0 DEF PressSets, setLightRefuses
  <2>2. [on |-> TRUE, brightness |-> op[c].brightness] \in Status
    BY <2>1 DEF Status
  <2>3. light' = [light EXCEPT ![op[c].id] = [on |-> TRUE, brightness |-> op[c].brightness]]
    BY <1>6, <2>1, AquariumAssumption DEF PressSets, SetOutput, Change
  <2>4. light' \in [Light -> Status]
    BY <2>1, <2>2, <2>3 DEF TypeOK
  <2>5. alone' \subseteq Call
    BY <1>6 DEF PressSets, SetOutput, Change, TypeOK
  <2>6. op' \in [Call -> Operation] /\ pressed' \in [Light -> Brightness \cup {Absent}]
    BY <1>6, <2>1, NewOperations DEF PressSets, TypeOK
  <2>7. QED
    BY <1>6, <2>4, <2>5, <2>6 DEF PressSets, TypeOK
<1>7. ASSUME NEW c \in Call, Done(c) PROVE TypeOK'
  BY <1>7, NewOperations DEF Done, TypeOK
<1>8. ASSUME NEW c \in Call, NEW req \in Request, SetLight(c, req) PROVE TypeOK'
  <2>1. req.id \in Light
    BY DEF Request
  <2>2. op' \in [Call -> Operation] /\ ops' \in 0..MaxOps
    BY <1>8, <2>1, NewOperations, StartType DEF SetLight
  <2>3. PICK b \in Brightness :
          light' = [light EXCEPT ![req.id] = [on |-> req.on # FALSE, brightness |-> b]]
    <3>1. light[req.id].brightness \in Brightness
      BY <2>1 DEF TypeOK, Status
    <3>2. req.brightness = Absent \/ req.brightness \in Brightness
      BY <1>8 DEF SetLight, setLightRefuses
    <3>3. QED
      BY <1>8, <3>1, <3>2 DEF SetLight, SetOutput, Change
  <2>4. light' \in [Light -> Status]
    <3>1. [on |-> req.on # FALSE, brightness |-> b] \in Status
      BY <2>3 DEF Status
    <3>2. QED
      BY <2>1, <2>3, <3>1 DEF TypeOK
  <2>5. alone' \subseteq Call /\ pressed' \in [Light -> Brightness \cup {Absent}]
    BY <1>8, <2>1 DEF SetLight, SetOutput, Change, TypeOK
  <2>6. QED
    BY <1>8, <2>2, <2>4, <2>5 DEF SetLight, TypeOK
<1>9. ASSUME NEW c \in Call, NEW l \in Light, toggleLight(c, l) PROVE TypeOK'
  <2>1. op' \in [Call -> Operation] /\ ops' \in 0..MaxOps
    BY <1>9, NewOperations, StartType DEF toggleLight
  <2>2. [on |-> ~light[l].on, brightness |-> light[l].brightness] \in Status
    BY DEF TypeOK, Status
  <2>3. light' \in [Light -> Status]
    BY <1>9, <2>2 DEF toggleLight, Change, TypeOK
  <2>4. alone' \subseteq Call /\ pressed' \in [Light -> Brightness \cup {Absent}]
    BY <1>9 DEF toggleLight, Change, TypeOK
  <2>5. QED
    BY <1>9, <2>1, <2>3, <2>4 DEF toggleLight, TypeOK
<1>10. ASSUME NEW c \in Call, NEW l \in Aquarium, aquariumLightsDoublePress(c, l)
       PROVE  TypeOK'
  <2>1. op' \in [Call -> Operation] /\ ops' \in 0..MaxOps
    BY <1>10, NewOperations, StartType DEF aquariumLightsDoublePress
  <2>2. QED
    BY <1>10, <2>1 DEF aquariumLightsDoublePress, TypeOK
<1>11. CASE UNCHANGED vars
  BY <1>11 DEF vars, TypeOK
<1>12. QED
  BY <1>1, <1>2, <1>3, <1>4, <1>5, <1>6, <1>7, <1>8, <1>9, <1>10, <1>11 DEF Next
-----------------------------------------------------------------------------
(* Double presses.                                                         *)

\* A step that changes no light, and lets no press read one, keeps what the
\* presses are about to do.
LEMMA LightsRest ==
  ASSUME TypeOK, PressInv,
         light' = light, pressed' = pressed,
         \A c \in Call : op'[c].kind = "pressSet" => op'[c] = op[c],
         alone' \subseteq Call,
         \A c \in alone' : op'[c].kind = "pressSet" => c \in alone
  PROVE  PressInv'
<1>1. PressedIsShown'
  BY DEF PressInv, PressedIsShown
<1>2. ASSUME NEW c \in alone', op'[c].kind = "pressSet"
      PROVE  op'[c].brightness # pressed'[op'[c].id]
  BY <1>2 DEF PressInv, PressesAlternate
<1>3. QED
  BY <1>1, <1>2 DEF PressInv, PressesAlternate

\* A change of light l disturbs the presses that have read l, and only those.
LEMMA LightChanges ==
  ASSUME TypeOK, PressInv,
         NEW l \in Light, NEW on, NEW b, NEW c \in Call, NEW x,
         Change(l, on, b, c),
         pressed' = [pressed EXCEPT ![l] = x],
         x # Absent => on = TRUE /\ b = x,
         op'[c].kind # "pressSet",
         \A d \in Call \ {c} : op'[d] = op[d]
  PROVE  PressInv'
<1>1. light' = [light EXCEPT ![l] = [on |-> on, brightness |-> b]]
  BY DEF Change
<1>2. PressedIsShown'
  <2>1. ASSUME NEW k \in Light, pressed'[k] # Absent
        PROVE  light'[k].on = TRUE /\ light'[k].brightness = pressed'[k]
    <3>1. CASE k = l
      BY <1>1, <2>1, <3>1 DEF TypeOK
    <3>2. CASE k # l
      BY <1>1, <2>1, <3>2 DEF TypeOK, PressInv, PressedIsShown
    <3>3. QED
      BY <3>1, <3>2
  <2>2. QED
    BY <2>1 DEF PressedIsShown
<1>3. ASSUME NEW d \in alone', op'[d].kind = "pressSet"
      PROVE  op'[d].brightness # pressed'[op'[d].id]
  <2>1. d \in alone /\ d \in Call /\ d # c
    BY <1>3 DEF Change, TypeOK
  <2>2. op'[d] = op[d] /\ op[d].kind = "pressSet"
    BY <1>3, <2>1
  <2>3. op[d].id # l
    BY <1>3, <2>1, <2>2 DEF Change
  <2>4. op[d].id \in Light
    BY <2>1, <2>2, OperationFields DEF TypeOK, Light
  <2>5. pressed'[op[d].id] = pressed[op[d].id]
    BY <2>3, <2>4 DEF TypeOK
  <2>6. op[d].brightness # pressed[op[d].id]
    BY <2>1, <2>2 DEF PressInv, PressesAlternate
  <2>7. QED
    BY <2>2, <2>5, <2>6
<1>4. QED
  BY <1>2, <1>3 DEF PressInv, PressesAlternate

\* No press has happened yet.
LEMMA PressInit == Init => PressInv
  BY DEF Init, PressInv, PressedIsShown, PressesAlternate

\* A double press that ends turned the light it recorded; other operations on the
\* light void the record.
LEMMA PressStep == TypeOK /\ PressInv /\ [Next]_vars => PressInv'
<1> SUFFICES ASSUME TypeOK, PressInv, [Next]_vars PROVE PressInv'
  OBVIOUS
<1>1. CASE LateCommand
  BY <1>1, LightsRest DEF LateCommand, OnlyPresses, TypeOK
<1>2. ASSUME NEW c \in Call, SetAquariumSchedule(c) PROVE PressInv'
  <2>1. op' = [op EXCEPT ![c] = [kind |-> "schedule", next |-> 1]]
    BY <1>2 DEF SetAquariumSchedule, Start
  <2>2. \A d \in Call : op'[d].kind = "pressSet" => d # c /\ op'[d] = op[d]
    BY <2>1 DEF TypeOK
  <2>3. alone' \subseteq alone \cup {c}
    BY <1>2 DEF SetAquariumSchedule, OnlyPresses
  <2>4. light' = light /\ pressed' = pressed
    BY <1>2 DEF SetAquariumSchedule
  <2>5. alone' \subseteq Call /\ \A d \in alone' : op'[d].kind = "pressSet" => d \in alone
    BY <2>2, <2>3 DEF TypeOK
  <2>6. QED
    BY <2>2, <2>4, <2>5, LightsRest
<1>3. ASSUME NEW c \in Call, CommandAnswered(c) PROVE PressInv'
  <2>1. op'[c].kind \in {"installed", "schedule"}
    BY <1>3 DEF CommandAnswered, TypeOK
  <2>2. \A d \in Call \ {c} : op'[d] = op[d]
    BY <1>3 DEF CommandAnswered, TypeOK
  <2>3. light' = light /\ pressed' = pressed /\ alone' \subseteq alone
    BY <1>3 DEF CommandAnswered
  <2>4. \A d \in Call : op'[d].kind = "pressSet" => op'[d] = op[d]
    BY <2>1, <2>2
  <2>5. QED
    BY <2>3, <2>4, LightsRest DEF TypeOK
<1>4. ASSUME NEW c \in Call, CommandFails(c) PROVE PressInv'
  <2>1. op' = [op EXCEPT ![c] = [kind |-> "failed"]]
    BY <1>4 DEF CommandFails
  <2>2. \A d \in Call : op'[d].kind = "pressSet" => op'[d] = op[d]
    BY <2>1 DEF TypeOK
  <2>3. QED
    BY <1>4, <2>2, LightsRest DEF CommandFails, TypeOK
<1>5. ASSUME NEW c \in Call, PressReads(c) PROVE PressInv'
  <2>1. PICK l \in Aquarium : l = op[c].id
    BY <1>5, OperationFields DEF PressReads, TypeOK
  <2>2. l \in Light /\ light[l] \in Status /\ pressed[l] \in Brightness \cup {Absent}
    BY DEF TypeOK, Light
  <2>0. PICK low \in aquariumLow, high \in aquariumHigh :
          op' = [op EXCEPT ![c] =
                   [kind |-> "pressSet", id |-> l,
                    brightness |-> brightnessOfPress(light[l], low, high)]]
    BY <1>5, <2>1 DEF PressReads
  <2>3. brightnessOfPress(light[l], low, high) # pressed[l]
    <3>1. CASE pressed[l] = Absent
      BY <3>1, <2>2, PressBrightness, AquariumAssumption
    <3>2. CASE pressed[l] # Absent
      <4>1. light[l].on = TRUE /\ light[l].brightness = pressed[l]
        BY <2>2, <3>2 DEF PressInv, PressedIsShown
      <4>2. low \in Int /\ high \in Int /\ low < high /\ light[l].brightness \in Int
        BY <2>2, AquariumAssumption DEF Brightness, Status
      <4>3. QED
        BY <2>2, <3>2, <4>1, <4>2 DEF brightnessOfPress
    <3>3. QED
      BY <3>1, <3>2
  <2>4. /\ op'[c].kind = "pressSet" /\ op'[c].id = l
        /\ op'[c].brightness = brightnessOfPress(light[l], low, high)
        /\ \A d \in Call \ {c} : op'[d] = op[d]
    BY <2>0 DEF TypeOK
  <2>5. light' = light /\ pressed' = pressed /\ alone' = alone \cup {c}
    BY <1>5 DEF PressReads
  <2>6. ASSUME NEW d \in alone', op'[d].kind = "pressSet"
        PROVE  op'[d].brightness # pressed'[op'[d].id]
    <3>1. CASE d = c
      BY <2>3, <2>4, <2>5, <3>1 DEF TypeOK
    <3>2. CASE d # c
      <4>1. d \in alone /\ op'[d] = op[d]
        BY <2>4, <2>5, <3>2 DEF TypeOK
      <4>2. QED
        BY <2>5, <2>6, <4>1 DEF PressInv, PressesAlternate
    <3>3. QED
      BY <3>1, <3>2
  <2>7. PressedIsShown'
    BY <2>5 DEF PressInv, PressedIsShown
  <2>8. QED
    BY <2>6, <2>7 DEF PressInv, PressesAlternate
<1>6. ASSUME NEW c \in Call, PressSets(c) PROVE PressInv'
  <2>1. PICK l \in Light : l = op[c].id
    BY <1>6, OperationFields DEF PressSets, TypeOK, Light
  <2>2. PICK b \in aquariumLow \cup aquariumHigh : b = op[c].brightness
    BY <1>6, OperationFields DEF PressSets, TypeOK
  <2>3. b # Absent
    BY AquariumAssumption
  <2>4. Change(l, TRUE, b, c)
    BY <1>6, <2>1, <2>2, <2>3, AquariumAssumption DEF PressSets, SetOutput, Change
  <2>5. pressed' = [pressed EXCEPT ![l] = b]
    BY <1>6, <2>1, <2>2 DEF PressSets
  <2>6. op'[c].kind # "pressSet" /\ \A d \in Call \ {c} : op'[d] = op[d]
    BY <1>6 DEF PressSets, TypeOK, Idle
  <2>7. QED
    BY <2>4, <2>5, <2>6, LightChanges
<1>7. ASSUME NEW c \in Call, Done(c) PROVE PressInv'
  <2>1. \A d \in Call : op'[d].kind = "pressSet" => op'[d] = op[d]
    BY <1>7 DEF Done, Idle, TypeOK
  <2>2. QED
    BY <1>7, <2>1, LightsRest DEF Done, TypeOK
<1>8. ASSUME NEW c \in Call, NEW req \in Request, SetLight(c, req) PROVE PressInv'
  <2>1. PICK l \in Light : l = req.id
    BY DEF Request
  <2>2. PICK on, b : Change(l, on, b, c)
    BY <1>8, <2>1 DEF SetLight, SetOutput
  <2>3. pressed' = [pressed EXCEPT ![l] = Absent]
    BY <1>8, <2>1 DEF SetLight
  <2>4. op' = [op EXCEPT ![c] = [kind |-> "get", id |-> l]]
    BY <1>8, <2>1 DEF SetLight, Start
  <2>5. op'[c].kind # "pressSet" /\ \A d \in Call \ {c} : op'[d] = op[d]
    BY <2>4 DEF TypeOK
  <2>6. QED
    BY <2>2, <2>3, <2>5, LightChanges
<1>9. ASSUME NEW c \in Call, NEW l \in Light, toggleLight(c, l) PROVE PressInv'
  <2>1. PICK on, b : Change(l, on, b, c)
    BY <1>9 DEF toggleLight
  <2>2. pressed' = [pressed EXCEPT ![l] = Absent]
    BY <1>9 DEF toggleLight
  <2>3. op'[c].kind # "pressSet" /\ \A d \in Call \ {c} : op'[d] = op[d]
    BY <1>9 DEF toggleLight, Start, Idle, TypeOK
  <2>4. QED
    BY <2>1, <2>2, <2>3, LightChanges
<1>10. ASSUME NEW c \in Call, NEW l \in Aquarium, aquariumLightsDoublePress(c, l)
       PROVE  PressInv'
  <2>1. op' = [op EXCEPT ![c] = [kind |-> "press", id |-> l]]
    BY <1>10 DEF aquariumLightsDoublePress, Start
  <2>2. \A d \in Call : op'[d].kind = "pressSet" => op'[d] = op[d]
    BY <2>1 DEF TypeOK
  <2>3. QED
    BY <1>10, <2>2, LightsRest DEF aquariumLightsDoublePress, TypeOK
<1>11. CASE UNCHANGED vars
  BY <1>11, LightsRest DEF vars, TypeOK
<1>12. QED
  BY <1>1, <1>2, <1>3, <1>4, <1>5, <1>6, <1>7, <1>8, <1>9, <1>10, <1>11 DEF Next
-----------------------------------------------------------------------------
(* Schedules.                                                              *)

\* A step that sends no command and starts no schedule keeps what the schedules
\* have installed.
LEMMA JobsRest ==
  ASSUME TypeOK, ScheduleInv,
         jobs' = jobs,
         \A c \in Call : op'[c].kind \in {"schedule", "installed"} => op'[c] = op[c],
         alone' \subseteq Call,
         \A c \in alone' : op'[c].kind \in {"schedule", "installed"} => c \in alone
  PROVE  ScheduleInv'
<1>1. NoOtherSchedule'
  <2>1. ASSUME NEW c \in alone', op'[c].kind \in {"schedule", "installed"},
               NEW d \in Call \ {c}
        PROVE  op'[d].kind # "schedule"
    BY <2>1 DEF ScheduleInv, NoOtherSchedule
  <2>2. QED
    BY <2>1 DEF NoOtherSchedule
<1>2. Progress'
  <2>1. ASSUME NEW c \in alone', op'[c].kind = "schedule"
        PROVE  /\ op'[c].next >= 2 => jobs'[rgb105] = Jobs((op'[c].next \div 2) - 1)
               /\ op'[c].next >= 3 => jobs'[rgb108] = Jobs(((op'[c].next - 1) \div 2) - 1)
    <3>1. c \in alone /\ op'[c] = op[c]
      BY <2>1
    <3>2. QED
      BY <2>1, <3>1 DEF ScheduleInv, Progress
  <2>2. QED
    BY <2>1 DEF Progress
<1>3. ScheduleInstalled'
  <2>1. ASSUME NEW c \in alone', op'[c].kind = "installed", NEW d \in Aquarium
        PROVE  jobs'[d] = [i \in 1..NSpec |-> i]
    <3>1. c \in alone /\ op'[c] = op[c]
      BY <2>1
    <3>2. QED
      BY <2>1, <3>1 DEF ScheduleInv, ScheduleInstalled
  <2>2. QED
    BY <2>1 DEF ScheduleInstalled
<1>4. QED
  BY <1>1, <1>2, <1>3 DEF ScheduleInv

\* A step after which no undisturbed operation is a schedule.
LEMMA SchedulesDisturbed ==
  ASSUME \A c \in alone' : op'[c].kind \notin {"schedule", "installed"}
  PROVE  ScheduleInv'
  BY DEF ScheduleInv, NoOtherSchedule, Progress, ScheduleInstalled

\* The n-th command takes the lights from what the commands before it have
\* installed to what the next one expects.
LEMMA CommandContinues ==
  ASSUME TypeOK, NEW n \in 1..(2 * NSpec + 2),
         Execute(aquariumSchedule[n]),
         n >= 2 => jobs[rgb105] = Jobs((n \div 2) - 1),
         n >= 3 => jobs[rgb108] = Jobs(((n - 1) \div 2) - 1)
  PROVE  /\ jobs'[rgb105] = Jobs(((n + 1) \div 2) - 1)
         /\ n >= 2 => jobs'[rgb108] = Jobs((n \div 2) - 1)
<1>0. NSpec \in Nat /\ rgb105 # rgb108 /\ rgb105 \in Aquarium /\ rgb108 \in Aquarium
  BY AquariumAssumption DEF Aquarium
<1>1. PICK k \in Nat : n = 2 * k + 1 \/ n = 2 * k + 2
  <2>1. (n - 1) \div 2 \in Nat
        /\ (n = 2 * ((n - 1) \div 2) + 1 \/ n = 2 * ((n - 1) \div 2) + 2)
    BY <1>0
  <2>2. QED
    BY <2>1
<1>2. CASE n = 2 * k + 1
  <2>1. n % 2 = 1 /\ (n - 1) \div 2 = k /\ n \div 2 = k /\ (n + 1) \div 2 = k + 1
    BY <1>2
  <2>2. aquariumSchedule[n].id = rgb105 /\ aquariumSchedule[n].job = k
    BY <2>1, Commands
  <2>3. jobs'[rgb108] = jobs[rgb108]
    BY <1>0, <2>2 DEF Execute, TypeOK
  <2>4. jobs'[rgb105] = IF k = 0 THEN <<>> ELSE Append(jobs[rgb105], k)
    BY <1>0, <2>2 DEF Execute, TypeOK
  <2>5. jobs'[rgb105] = Jobs(k)
    <3>1. CASE k = 0
      BY <2>4, <3>1, NextJob
    <3>2. CASE k # 0
      <4>1. n >= 2
        BY <1>2, <3>2
      <4>2. jobs[rgb105] = Jobs(k - 1)
        BY <2>1, <4>1
      <4>3. QED
        BY <2>4, <3>2, <4>2, NextJob
    <3>3. QED
      BY <3>1, <3>2
  <2>6. n >= 2 => jobs'[rgb108] = Jobs(k - 1)
    <3>1. SUFFICES ASSUME n >= 2 PROVE jobs'[rgb108] = Jobs(k - 1)
      OBVIOUS
    <3>2. n >= 3
      BY <1>2, <3>1
    <3>3. QED
      BY <2>1, <2>3, <3>2
  <2>7. (k + 1) - 1 = k
    OBVIOUS
  <2>8. QED
    BY <2>1, <2>5, <2>6, <2>7
<1>3. CASE n = 2 * k + 2
  <2>1. /\ n % 2 # 1 /\ (n - 1) \div 2 = k
        /\ n \div 2 = k + 1 /\ (n + 1) \div 2 = k + 1 /\ n >= 2
    BY <1>3
  <2>2. aquariumSchedule[n].id = rgb108 /\ aquariumSchedule[n].job = k
    BY <2>1, Commands
  <2>3. jobs'[rgb105] = jobs[rgb105]
    BY <1>0, <2>2 DEF Execute, TypeOK
  <2>4. jobs'[rgb108] = IF k = 0 THEN <<>> ELSE Append(jobs[rgb108], k)
    BY <1>0, <2>2 DEF Execute, TypeOK
  <2>5. jobs'[rgb108] = Jobs(k)
    <3>1. CASE k = 0
      BY <2>4, <3>1, NextJob
    <3>2. CASE k # 0
      <4>1. n >= 3
        BY <1>3, <3>2
      <4>2. jobs[rgb108] = Jobs(k - 1)
        BY <2>1, <4>1
      <4>3. QED
        BY <2>4, <3>2, <4>2, NextJob
    <3>3. QED
      BY <3>1, <3>2
  <2>6. (k + 1) - 1 = k
    OBVIOUS
  <2>7. QED
    BY <2>1, <2>3, <2>5, <2>6
<1>4. QED
  BY <1>1, <1>2, <1>3

\* Nobody installs a schedule yet.
LEMMA ScheduleInit == Init => ScheduleInv
  BY DEF Init, ScheduleInv, NoOtherSchedule, Progress, ScheduleInstalled

\* A command of SetAquariumSchedule brings the list of jobs one entry further; any
\* other operation on the schedule ends the claim to be alone.
LEMMA ScheduleStep == TypeOK /\ ScheduleInv /\ [Next]_vars => ScheduleInv'
<1> SUFFICES ASSUME TypeOK, ScheduleInv, [Next]_vars PROVE ScheduleInv'
  OBVIOUS
<1>1. CASE LateCommand
  <2>1. \A c \in alone' : op'[c].kind = "pressSet"
    BY <1>1 DEF LateCommand, OnlyPresses
  <2>2. QED
    BY <2>1, SchedulesDisturbed
<1>2. ASSUME NEW c \in Call, SetAquariumSchedule(c) PROVE ScheduleInv'
  <2>1. op' = [op EXCEPT ![c] = [kind |-> "schedule", next |-> 1]]
    BY <1>2 DEF SetAquariumSchedule, Start
  <2>2. op'[c].kind = "schedule" /\ op'[c].next = 1 /\ \A d \in Call \ {c} : op'[d] = op[d]
    BY <2>1 DEF TypeOK
  <2>3. op[c].kind # "pressSet"
    BY <1>2 DEF SetAquariumSchedule, Start
  <2>4. ASSUME NEW d \in alone', op'[d].kind \in {"schedule", "installed"}
        PROVE  d = c /\ \A e \in Call : op[e].kind # "schedule"
    <3>1. d \notin OnlyPresses
      BY <2>2, <2>3, <2>4 DEF OnlyPresses, TypeOK
    <3>2. QED
      BY <1>2, <3>1 DEF SetAquariumSchedule
  <2>5. NoOtherSchedule'
    BY <2>2, <2>4 DEF NoOtherSchedule
  <2>6. Progress'
    BY <2>2, <2>4 DEF Progress
  <2>7. ScheduleInstalled'
    BY <2>2, <2>4 DEF ScheduleInstalled
  <2>8. QED
    BY <2>5, <2>6, <2>7 DEF ScheduleInv
<1>3. ASSUME NEW c \in Call, CommandAnswered(c) PROVE ScheduleInv'
  <2>1. op[c].kind = "schedule" /\ alone' \subseteq alone
    BY <1>3 DEF CommandAnswered
  <2>2. \A d \in Call \ {c} : op'[d] = op[d]
    BY <1>3 DEF CommandAnswered, TypeOK
  <2>3. ASSUME NEW d \in alone', op'[d].kind \in {"schedule", "installed"}
        PROVE  d = c
    BY <2>1, <2>2, <2>3 DEF ScheduleInv, NoOtherSchedule, TypeOK
  <2>4. CASE c \notin alone'
    BY <2>3, <2>4, SchedulesDisturbed
  <2>5. CASE c \in alone'
    <3>1. c \in alone /\ Execute(aquariumSchedule[op[c].next])
      BY <1>3, <2>5 DEF CommandAnswered
    <3>2. PICK n \in 1..(2 * NSpec + 2) : n = op[c].next
      BY <2>1, OperationFields DEF TypeOK
    <3>3. /\ jobs'[rgb105] = Jobs(((n + 1) \div 2) - 1)
          /\ n >= 2 => jobs'[rgb108] = Jobs((n \div 2) - 1)
      <4>1. /\ n >= 2 => jobs[rgb105] = Jobs((n \div 2) - 1)
            /\ n >= 3 => jobs[rgb108] = Jobs(((n - 1) \div 2) - 1)
        BY <2>1, <3>1, <3>2 DEF ScheduleInv, Progress
      <4>2. QED
        BY <3>1, <3>2, <4>1, CommandContinues
    <3>4. NoOtherSchedule'
      BY <2>1, <2>2, <2>3, <3>1 DEF ScheduleInv, NoOtherSchedule
    <3>5. CASE n = 2 * NSpec + 2
      <4>1. op'[c] = [kind |-> "installed"]
        BY <1>3, <3>2, <3>5, Commands DEF CommandAnswered, TypeOK
      <4>2. /\ ((n + 1) \div 2) - 1 = NSpec /\ (n \div 2) - 1 = NSpec /\ n >= 2
        BY <3>5, AquariumAssumption
      <4>3. \A d \in Aquarium : jobs'[d] = [i \in 1..NSpec |-> i]
        BY <3>3, <4>2 DEF Jobs, Aquarium
      <4>4. Progress' /\ ScheduleInstalled'
        BY <2>3, <4>1, <4>3 DEF Progress, ScheduleInstalled
      <4>5. QED
        BY <3>4, <4>4 DEF ScheduleInv
    <3>6. CASE n # 2 * NSpec + 2
      <4>1. op'[c] = [kind |-> "schedule", next |-> n + 1]
        BY <1>3, <3>2, <3>6, Commands DEF CommandAnswered, TypeOK
      <4>2. op'[c].kind = "schedule" /\ op'[c].next = n + 1
        BY <4>1
      <4>3. (n + 1) - 1 = n /\ (n + 1 >= 3 => n >= 2)
        OBVIOUS
      <4>4. Progress'
        BY <2>3, <3>3, <4>2, <4>3 DEF Progress
      <4>5. ScheduleInstalled'
        BY <2>3, <4>2 DEF ScheduleInstalled
      <4>6. QED
        BY <3>4, <4>4, <4>5 DEF ScheduleInv
    <3>7. QED
      BY <3>5, <3>6
  <2>6. QED
    BY <2>4, <2>5
<1>4. ASSUME NEW c \in Call, CommandFails(c) PROVE ScheduleInv'
  <2>1. op[c].kind = "schedule" /\ alone' = alone
    BY <1>4 DEF CommandFails
  <2>2. op'[c].kind = "failed" /\ \A d \in Call \ {c} : op'[d] = op[d]
    BY <1>4 DEF CommandFails, TypeOK
  <2>3. \A d \in alone' : op'[d].kind \notin {"schedule", "installed"}
    BY <2>1, <2>2 DEF ScheduleInv, NoOtherSchedule, TypeOK
  <2>4. QED
    BY <2>3, SchedulesDisturbed
<1>5. ASSUME NEW c \in Call, PressReads(c) PROVE ScheduleInv'
  <2>1. op'[c].kind = "pressSet" /\ \A d \in Call \ {c} : op'[d] = op[d]
    BY <1>5 DEF PressReads, TypeOK
  <2>2. jobs' = jobs /\ alone' = alone \cup {c}
    BY <1>5 DEF PressReads
  <2>3. QED
    BY <2>1, <2>2, JobsRest DEF TypeOK
<1>6. ASSUME NEW c \in Call, PressSets(c) PROVE ScheduleInv'
  <2>1. op'[c].kind = "idle" /\ \A d \in Call \ {c} : op'[d] = op[d]
    BY <1>6 DEF PressSets, Idle, TypeOK
  <2>2. jobs' = jobs /\ alone' \subseteq alone
    BY <1>6 DEF PressSets, SetOutput, Change
  <2>3. QED
    BY <2>1, <2>2, JobsRest DEF TypeOK
<1>7. ASSUME NEW c \in Call, Done(c) PROVE ScheduleInv'
  <2>1. op'[c].kind = "idle" /\ \A d \in Call \ {c} : op'[d] = op[d]
    BY <1>7 DEF Done, Idle, TypeOK
  <2>2. QED
    BY <1>7, <2>1, JobsRest DEF Done, TypeOK
<1>8. ASSUME NEW c \in Call, NEW req \in Request, SetLight(c, req) PROVE ScheduleInv'
  <2>1. op'[c].kind = "get" /\ \A d \in Call \ {c} : op'[d] = op[d]
    BY <1>8 DEF SetLight, Start, TypeOK
  <2>2. jobs' = jobs /\ alone' \subseteq alone
    BY <1>8 DEF SetLight, SetOutput, Change
  <2>3. QED
    BY <2>1, <2>2, JobsRest DEF TypeOK
<1>9. ASSUME NEW c \in Call, NEW l \in Light, toggleLight(c, l) PROVE ScheduleInv'
  <2>1. op'[c].kind = "idle" /\ \A d \in Call \ {c} : op'[d] = op[d]
    BY <1>9 DEF toggleLight, Start, Idle, TypeOK
  <2>2. jobs' = jobs /\ alone' \subseteq alone
    BY <1>9 DEF toggleLight, Change
  <2>3. QED
    BY <2>1, <2>2, JobsRest DEF TypeOK
<1>10. ASSUME NEW c \in Call, NEW l \in Aquarium, aquariumLightsDoublePress(c, l)
       PROVE  ScheduleInv'
  <2>1. op'[c].kind = "press" /\ \A d \in Call \ {c} : op'[d] = op[d]
    BY <1>10 DEF aquariumLightsDoublePress, Start, TypeOK
  <2>2. QED
    BY <1>10, <2>1, JobsRest DEF aquariumLightsDoublePress, TypeOK
<1>11. CASE UNCHANGED vars
  BY <1>11, JobsRest DEF vars, TypeOK
<1>12. QED
  BY <1>1, <1>2, <1>3, <1>4, <1>5, <1>6, <1>7, <1>8, <1>9, <1>10, <1>11 DEF Next

-----------------------------------------------------------------------------
(* The theorems.                                                           *)

\* The three parts of the invariant hold together.
LEMMA Invariant == Spec => []IInv
<1>1. Init => IInv
  BY TypeInit, PressInit, ScheduleInit DEF IInv
<1>2. IInv /\ [Next]_vars => IInv'
  BY TypeStep, PressStep, ScheduleStep DEF IInv
<1>3. QED
  BY <1>1, <1>2, PTL DEF Spec

\* Lights, jobs, operations and late commands keep their types.
THEOREM AquariumTypeCorrect == Spec => []TypeOK
<1>1. IInv => TypeOK
  BY DEF IInv
<1>2. QED
  BY <1>1, Invariant, PTL

\* An undisturbed SetAquariumSchedule that returned without error has installed
\* exactly its jobs on both lights, for any number of jobs and of concurrent
\* operations, and whatever failed calls had left there.
THEOREM ScheduleInstalledAlways == Spec => []ScheduleInstalled
<1>1. IInv => ScheduleInstalled
  BY DEF IInv, ScheduleInv
<1>2. QED
  BY <1>1, Invariant, PTL

\* A double press gives a light another brightness than the last one did unless
\* something else changes the light, whatever the presses read from Consul, as
\* long as every low brightness is below every high one.
THEOREM PressesAlternateAlways == Spec => []PressesAlternate
<1>1. IInv => PressesAlternate
  BY DEF IInv, PressInv
<1>2. QED
  BY <1>1, Invariant, PTL
=============================================================================
