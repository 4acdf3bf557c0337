--------------------------- MODULE AquariumLights ---------------------------
(***************************************************************************)
(* The operations of s-rpc-mqtt that take several calls to the aquarium's  *)
(* lights: SetAquariumSchedule (delete every job on both lights, create    *)
(* them again one by one), aquariumLightsDoublePress (read, then set) and  *)
(* SetLight (set, then read), next to toggleLight and setLight.  Calls run *)
(* concurrently: of one client, of several, of two replicas that both      *)
(* believe to lead.  One call to a device is one step here; its messages   *)
(* are in module ShellyRPC.                                                *)
(***************************************************************************)
EXTENDS Integers, Sequences

CONSTANTS
  rgb105, rgb108,  \* the aquarium's lights
  plug,            \* a light that is not dimmable
  Call,            \* slots for concurrent operations
  NSpec,           \* jobs of aquariumSchedule (8 in the code)
  aquariumLow,     \* what reading mqtt/lights/aquariumLow may give: what Consul has
                   \* at one time or another, and the default (4) if it fails
  aquariumHigh,    \* the same for aquariumHigh (the default is 70)
  MaxBrightness,   \* the brightest setting (100 in the code)
  Absent,          \* an optional field that is not set
  MaxOps,          \* BOUND: operations started
  MaxLate          \* BOUND: commands that outlive their call

Aquarium == {rgb105, rgb108}
Light == Aquarium \cup {plug}
Brightness == 0..MaxBrightness

ASSUME AquariumAssumption ==
  /\ rgb105 # rgb108 /\ plug \notin Aquarium
  /\ NSpec \in Nat /\ MaxBrightness \in Nat /\ MaxOps \in Nat /\ MaxLate \in Nat
  /\ aquariumLow \subseteq Int /\ aquariumHigh \subseteq Int
  /\ \A low \in aquariumLow, high \in aquariumHigh : low < high
  /\ Absent \notin Brightness \cup aquariumLow \cup aquariumHigh

VARIABLES
  light,    \* the output of each light: on, and how bright
  jobs,     \* the scheduled jobs of each light
  op,       \* what each slot does
  late,     \* commands whose call has given up, and that may still be executed
  ops,      \* operations started
  \* history of the properties
  alone,    \* operations that no other step has disturbed so far
  pressed   \* the brightness the last press gave each light, Absent if changed since

vars == <<light, jobs, op, late, ops, alone, pressed>>

\* Mutant: only the first light's jobs are deleted.
aquariumScheduleKeepsOld ==
  [i \in 1..(2 * NSpec + 1) |->
     [id |-> IF i % 2 = 1 THEN rgb105 ELSE rgb108, job |-> i \div 2]]

\* The commands of SetAquariumSchedule, in order: job 0 is Schedule.DeleteAll.
aquariumSchedule ==
  [i \in 1..(2 * NSpec + 2) |->
     [id |-> IF i % 2 = 1 THEN rgb105 ELSE rgb108, job |-> (i - 1) \div 2]]

Status == [on : BOOLEAN, brightness : Brightness]
Request == [id : Light, on : BOOLEAN \cup {Absent},
            brightness : {-1, MaxBrightness + 1, Absent} \cup Brightness]
Command == [id : Aquarium, job : 0..NSpec]

Idle == [kind |-> "idle"]
Operation ==
  {Idle}
  \cup [kind : {"schedule"}, next : 1..(2 * NSpec + 2)]
  \cup [kind : {"installed", "failed"}]
  \cup [kind : {"press"}, id : Aquarium]
  \cup [kind : {"pressSet"}, id : Aquarium,
        brightness : aquariumLow \cup aquariumHigh]
  \cup [kind : {"get"}, id : Light]

TypeOK ==
  /\ light \in [Light -> Status]
  /\ jobs \in [Aquarium -> Seq(1..NSpec)]
  /\ op \in [Call -> Operation]
  /\ late \in Seq(Command) /\ Len(late) <= MaxLate
  /\ ops \in 0..MaxOps
  /\ alone \subseteq Call
  /\ pressed \in [Light -> Brightness \cup {Absent}]

Init ==
  /\ light \in [Light -> {[on |-> FALSE, brightness |-> 0]}]
  /\ jobs = [d \in Aquarium |-> <<>>]
  /\ op = [c \in Call |-> Idle]
  /\ late = <<>>
  /\ ops = 0
  /\ alone = {}
  /\ pressed = [l \in Light |-> Absent]

Start(c, operation) ==
  /\ op[c].kind \in {"idle", "installed", "failed"}
  /\ ops < MaxOps
  /\ ops' = ops + 1
  /\ op' = [op EXCEPT ![c] = operation]

\* The schedules are disturbed, the presses are not.
OnlyPresses == {c \in alone : op[c].kind = "pressSet"}

-----------------------------------------------------------------------------
(* SetAquariumSchedule.                                                    *)

Execute(cmd) ==
  jobs' = [jobs EXCEPT ![cmd.id] = IF cmd.job = 0 THEN <<>> ELSE Append(@, cmd.job)]

SetAquariumSchedule(c) ==
  /\ Start(c, [kind |-> "schedule", next |-> 1])
  /\ alone' = OnlyPresses \cup
       (IF late = <<>> /\ \A d \in Call : op[d].kind # "schedule" THEN {c} ELSE {})
  /\ UNCHANGED <<light, jobs, late, pressed>>

\* The device answers: the answer is not parsed, so a Shelly error (the command
\* is not executed) counts as a success too.
CommandAnswered(c) ==
  /\ op[c].kind = "schedule"
  /\ \/ Execute(aquariumSchedule[op[c].next]) /\ UNCHANGED alone
     \/ alone' = alone \ {c} /\ UNCHANGED jobs
  /\ op' = [op EXCEPT ![c] = IF @.next = Len(aquariumSchedule)
                               THEN [kind |-> "installed"]
                               ELSE [kind |-> "schedule", next |-> @.next + 1]]
  /\ UNCHANGED <<light, late, ops, pressed>>

\* No answer within the deadline: SetAquariumSchedule returns the error.  The
\* command was executed, is still on its way, or is lost.
CommandFails(c) ==
  /\ op[c].kind = "schedule"
  /\ LET cmd == aquariumSchedule[op[c].next]
     IN  \/ Execute(cmd) /\ UNCHANGED late
         \/ Len(late) < MaxLate /\ late' = Append(late, cmd) /\ UNCHANGED jobs
         \/ UNCHANGED <<jobs, late>>
  /\ op' = [op EXCEPT ![c] = [kind |-> "failed"]]
  /\ UNCHANGED <<light, ops, alone, pressed>>

LateCommand ==
  /\ late # <<>>
  /\ Execute(Head(late))
  /\ late' = Tail(late)
  /\ alone' = OnlyPresses
  /\ UNCHANGED <<light, op, ops, pressed>>

-----------------------------------------------------------------------------
(* Switching and dimming.                                                  *)

\* A light is switched or dimmed: presses that have read it are disturbed.
Change(l, on, brightness, by) ==
  /\ light' = [light EXCEPT ![l] = [on |-> on, brightness |-> brightness]]
  /\ alone' = {c \in alone : \/ op[c].kind # "pressSet" \/ c = by
                             \/ op[c].id # l}

dimmable(l) == l \in Aquarium

\* setLight: the requests it turns down without a call to the device.
setLightRefuses(req) ==
  \/ req.on = Absent /\ req.brightness = Absent
  \/ req.brightness # Absent /\ (~dimmable(req.id) \/ req.brightness \notin Brightness)

\* What *.Set does: on unless the request says otherwise; the brightness is kept
\* unless the request has one.
SetOutput(req, by) ==
  Change(req.id, req.on # FALSE,
         IF req.brightness = Absent THEN light[req.id].brightness ELSE req.brightness,
         by)

SetLight(c, req) ==
  /\ ~setLightRefuses(req)
  /\ Start(c, [kind |-> "get", id |-> req.id])
  /\ SetOutput(req, c)
  /\ pressed' = [pressed EXCEPT ![req.id] = Absent]
  /\ UNCHANGED <<jobs, late>>

\* The call ends: SetLight has read the light, or one of its calls failed.
Done(c) ==
  /\ op[c].kind \in {"get", "press", "pressSet"}
  /\ op' = [op EXCEPT ![c] = Idle]
  /\ UNCHANGED <<light, jobs, late, ops, alone, pressed>>

toggleLight(c, l) ==
  /\ Start(c, Idle)
  /\ Change(l, ~light[l].on, light[l].brightness, c)
  /\ pressed' = [pressed EXCEPT ![l] = Absent]
  /\ UNCHANGED <<jobs, late>>

aquariumLightsDoublePress(c, l) ==
  /\ Start(c, [kind |-> "press", id |-> l])
  /\ UNCHANGED <<light, jobs, late, alone, pressed>>

\* Mutant: a light at the high brightness counts as dim.
brightnessOfPressOffByOne(status, low, high) ==
  IF ~status.on \/ status.brightness > high THEN low ELSE high

\* On but dim becomes bright; off, or bright, becomes on and dim.
brightnessOfPress(status, low, high) ==
  IF ~status.on \/ status.brightness >= high THEN low ELSE high

\* getLight, then both settings from Consul: each press reads them anew, and what
\* it cannot read is the default.
PressReads(c) ==
  /\ op[c].kind = "press"
  /\ \E low \in aquariumLow, high \in aquariumHigh :
       op' = [op EXCEPT ![c] = [kind |-> "pressSet", id |-> @.id,
                                brightness |-> brightnessOfPress(light[@.id], low, high)]]
  /\ alone' = alone \cup {c}
  /\ UNCHANGED <<light, jobs, late, ops, pressed>>

\* A brightness that is out of range is refused, and the press is Done.
PressSets(c) ==
  LET req == [id |-> op[c].id, on |-> TRUE, brightness |-> op[c].brightness]
  IN  /\ op[c].kind = "pressSet"
      /\ ~setLightRefuses(req)
      /\ SetOutput(req, c)
      /\ pressed' = [pressed EXCEPT ![op[c].id] = op[c].brightness]
      /\ op' = [op EXCEPT ![c] = Idle]
      /\ UNCHANGED <<jobs, late, ops>>

-----------------------------------------------------------------------------

Next ==
  \/ LateCommand
  \/ \E c \in Call :
       \/ SetAquariumSchedule(c) \/ CommandAnswered(c) \/ CommandFails(c)
       \/ PressReads(c) \/ PressSets(c) \/ Done(c)
       \/ \E req \in Request : SetLight(c, req)
       \/ \E l \in Light : toggleLight(c, l)
       \/ \E l \in Aquarium : aquariumLightsDoublePress(c, l)

Spec == Init /\ [][Next]_vars

-----------------------------------------------------------------------------
(* Properties.                                                             *)

\* A SetAquariumSchedule that returned without error, that no other one
\* overlapped, whose commands no device refused and that no command left over
\* from an earlier call disturbed, has installed exactly the schedule on both
\* lights, whatever an earlier failure had left there.
ScheduleInstalled ==
  \A c \in alone : op[c].kind = "installed" =>
    \A d \in Aquarium : jobs[d] = [i \in 1..NSpec |-> i]

\* A double press never leaves a light as the last one did: it is about to give
\* it another brightness, whatever the two presses read from Consul, so presses
\* that read the same settings alternate between dim and bright.  Excepted is a
\* light that was changed in some other way since the last press, or changes
\* between the read and the set of this one: the race of two operations on one
\* light is the code's.
PressesAlternate ==
  \A c \in alone : op[c].kind = "pressSet" => op[c].brightness # pressed[op[c].id]
=============================================================================
