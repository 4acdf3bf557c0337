----------------------------- MODULE Autoscaler -----------------------------
(***************************************************************************)
(* EvalAllScalingStatus of s-rpc-autoscaler reads the job definitions that *)
(* s-rpc-nomad-api streams, while Nomad, the connection and the jobs       *)
(* change.  It ignores stopped jobs; the definition of a job that runs is  *)
(* decoded into a nil pointer, which always fails.                         *)
(***************************************************************************)
EXTENDS FiniteSets

CONSTANTS
  Job,      \* the jobs Nomad knows
  NoJob

ASSUME AutoscalerAssumption == NoJob \notin Job

VARIABLES
  running,   \* the jobs that are not stopped
  listed,    \* the jobs ListJobDefinitions has yet to send
  inStream,  \* a definition that was sent and not yet received, with its Stopped flag
  evaluation,\* "idle", "streaming", "ok" or "error"
  stream,    \* of ListJobDefinitions: "none", "open", "eof", "error" or "cancelled"
  received   \* the jobs whose definition Recv has returned

autoscalerVars == <<running, listed, inStream, evaluation, stream, received>>

Nothing == [job |-> NoJob, stopped |-> FALSE]

AutoscalerInit ==
  /\ running \in SUBSET Job
  /\ listed = {}
  /\ inStream = Nothing
  /\ evaluation = "idle"
  /\ stream = "none"
  /\ received = {}

\* A job is stopped or started by its owner.
ToggleJob(j) ==
  /\ running' = IF j \in running THEN running \ {j} ELSE running \cup {j}
  /\ UNCHANGED <<listed, inStream, evaluation, stream, received>>

\* Jobs().List: the Stopped flags are those of this moment.
ListJobDefinitions ==
  /\ evaluation = "idle"
  /\ evaluation' = "streaming"
  /\ stream' = "open"
  /\ listed' = {[job |-> j, stopped |-> j \notin running] : j \in Job}
  /\ UNCHANGED <<running, inStream, received>>

\* Jobs().Info and Send.
SendDefinition ==
  /\ stream = "open"
  /\ inStream = Nothing
  /\ \E d \in listed :
       /\ listed' = listed \ {d}
       /\ inStream' = d
  /\ UNCHANGED <<running, evaluation, stream, received>>

EndStream ==
  /\ stream = "open"
  /\ listed = {}
  /\ stream' = "eof"
  /\ UNCHANGED <<running, listed, inStream, evaluation, received>>

\* Nomad cannot be reached, a job was purged since it was listed, or the
\* connection breaks, with what is in it or after.
StreamFails ==
  /\ stream = "open"
  /\ stream' = "error"
  /\ inStream' \in {inStream, Nothing}
  /\ UNCHANGED <<running, listed, evaluation, received>>

\* Recv returns a definition.
Recv ==
  /\ evaluation = "streaming"
  /\ inStream # Nothing
  /\ received' = received \cup {inStream.job}
  /\ inStream' = Nothing

RecvStopped ==
  /\ inStream.stopped
  /\ Recv
  /\ UNCHANGED <<running, listed, evaluation, stream>>

\* json.Unmarshal into a nil *nomad.Job: the call returns its error, and the
\* stream is cancelled with the call's context.
RecvRunning ==
  /\ ~inStream.stopped
  /\ Recv
  /\ evaluation' = "error"
  /\ stream' = "cancelled"
  /\ UNCHANGED <<running, listed>>

\* Mutant: any error of Recv is taken for the end of the stream.
RecvEndOnAnyError ==
  /\ evaluation = "streaming"
  /\ inStream = Nothing
  /\ stream \in {"eof", "error"}
  /\ evaluation' = "ok"
  /\ UNCHANGED <<running, listed, inStream, stream, received>>

RecvEnd ==
  /\ evaluation = "streaming"
  /\ inStream = Nothing
  /\ stream \in {"eof", "error"}
  /\ evaluation' = IF stream = "eof" THEN "ok" ELSE "error"
  /\ UNCHANGED <<running, listed, inStream, stream, received>>

AutoscalerNext ==
  \/ \E j \in Job : ToggleJob(j)
  \/ ListJobDefinitions \/ SendDefinition \/ EndStream \/ StreamFails
  \/ RecvStopped \/ RecvRunning \/ RecvEnd

AutoscalerSpec == AutoscalerInit /\ [][AutoscalerNext]_autoscalerVars

-----------------------------------------------------------------------------
\* An evaluation that returns no error has received the definition of every job
\* that Nomad listed: a stream that breaks off, wherever it does, is not taken for
\* one that ended.
OkMeansAllReceived == evaluation = "ok" => received = Job

\* Only stopped jobs are ignored (handler.go:58); a running one is decoded and
\* evaluated, so an evaluation fails only if its stream does.  (processJob also
\* refuses a job whose autoscaling meta is neither word; no job here has such a
\* one.)  The code does not do this: the first running job fails it.
EvaluationFailsOnlyWithStream == evaluation = "error" => stream = "error"
=============================================================================
