--------------------------- MODULE CloudreveCopy ---------------------------
(***************************************************************************)
(* cmd/s3-to-cloudreve: copyAll lists a bucket page by page and starts one *)
(* goroutine per object.  A semaphore lets a few of them run at a time;    *)
(* each looks whether its target is in Cloudreve already and uploads the   *)
(* object, in one request or in chunks.  Targets are made from keys; two   *)
(* keys may share one, and something else may be there.  main prints three *)
(* counters and exits.  The program may be run again over what earlier     *)
(* runs left.                                                              *)
(***************************************************************************)
EXTENDS Integers, FiniteSets, Sequences

CONSTANTS
  Object,               \* the objects of the bucket below Prefix
  Key,                  \* the key of each object, a sequence of characters
  Prefix,               \* the prefix of --s3-uri
  Absent, Foreign,      \* under a target: nothing, or a folder or another file
  Pages,                \* the number of pages of the listing
  PageOf,               \* the page of each key
  Size,                 \* the size of each object
  simpleUploadMaxBytes, \* from this size on an object is uploaded in chunks
  ServerChunkSize,      \* chunk sizes Cloudreve may answer, 0: none given
  Concurrency,          \* the --concurrency flag
  MaxRuns,              \* BOUND: runs of the program
  MaxFaults             \* BOUND: failed requests

ASSUME CopyAssumption ==
  /\ IsFiniteSet(Object)
  /\ Key \in [Object -> Seq(STRING)]
  /\ Prefix \in Seq(STRING)
  /\ Absent # Foreign /\ Absent \notin Object /\ Foreign \notin Object
  /\ Pages \in Nat \ {0}
  /\ PageOf \in [Object -> 1..Pages]
  /\ Size \in [Object -> Nat]
  /\ simpleUploadMaxBytes \in Nat \ {0}
  /\ ServerChunkSize \subseteq Int
  /\ Concurrency \in Nat \ {0}
  /\ MaxRuns \in Nat
  /\ MaxFaults \in Nat

VARIABLES
  lister,    \* listing, waiting (wg.Wait), reporting (back in main), exited
  page,      \* the page to list next
  dryRun,    \* the --dry-run flag of this run
  worker,    \* where the goroutine of each object is
  permits,   \* what is left of the semaphore
  chunkSize, \* chunkedUpload's chunkSize
  sent,      \* bytes of the body that chunks have carried so far
  uploaded, skipped, errors,  \* stats
  taken,     \* bytes of the current upload session that Cloudreve has
  file,      \* what is complete in Cloudreve under each target
  before,    \* what was there when this run began
  troubled,  \* objects of this run that a failed request concerned
  listed,    \* the listing of this run was complete
  runs,      \* runs so far
  faults     \* failed requests so far

stats == <<uploaded, skipped, errors>>
runVars == <<lister, page, dryRun, before, listed, runs>>
uploadVars == <<chunkSize, sent, taken, file>>
vars == <<runVars, worker, permits, uploadVars, stats, troubled, faults>>

\* idle: not listed.  queued: before Acquire.  session, chunks: in chunkedUpload.
Location == {"idle", "queued", "check", "get", "simple", "session", "chunks", "done"}

HasPrefix(s, p) == Len(p) <= Len(s) /\ SubSeq(s, 1, Len(p)) = p
TrimPrefix(s, p) == IF HasPrefix(s, p) THEN SubSeq(s, Len(p) + 1, Len(s)) ELSE s

\* Keys that end in a slash stand for folders.
Folder == {o \in Object : Key[o] # <<>> /\ Key[o][Len(Key[o])] = "/"}
File == Object \ Folder

\* The path below --target-dir of an object.  Under the prefix p, "p/a" and "pa"
\* are both the path "a".
targetURI(o) == TrimPrefix(TrimPrefix(Key[o], Prefix), <<"/">>)
Uri == {targetURI(o) : o \in File}

\* The target t is a folder above the target u; the empty path is --target-dir.
IsFolderOf(t, u) == t # u /\ HasPrefix(u, IF t = <<>> THEN <<>> ELSE t \o <<"/">>)

TypeOK ==
  /\ lister \in {"listing", "waiting", "reporting", "exited"}
  /\ page \in 1..Pages
  /\ dryRun \in BOOLEAN
  /\ worker \in [Object -> Location]
  /\ permits \in 0..Concurrency
  /\ chunkSize \in [Object -> Nat]
  /\ sent \in [Object -> Nat] /\ taken \in [Object -> Nat]
  /\ \A o \in Object : sent[o] <= Size[o] /\ taken[o] <= Size[o]
  /\ uploaded \in Nat /\ skipped \in Nat /\ errors \in Nat
  /\ file \in [Uri -> File \cup {Absent, Foreign}]
  /\ before \in [Uri -> File \cup {Absent, Foreign}]
  /\ \A t \in Uri : file[t] \in File => targetURI(file[t]) = t
  /\ troubled \subseteq File
  /\ listed \in BOOLEAN
  /\ runs \in 0..MaxRuns
  /\ faults \in 0..MaxFaults

\* main up to copyAll, over whatever Cloudreve holds.
StartRun ==
  /\ lister' = "listing"
  /\ page' = 1
  /\ dryRun' \in BOOLEAN
  /\ worker' = [o \in Object |-> "idle"]
  /\ permits' = Concurrency
  /\ chunkSize' = [o \in Object |-> 0]
  /\ sent' = [o \in Object |-> 0]
  /\ taken' = [o \in Object |-> 0]
  /\ uploaded' = 0 /\ skipped' = 0 /\ errors' = 0
  /\ before' = file
  /\ troubled' = {}
  /\ listed' = FALSE

Init ==
  /\ lister = "exited"
  /\ page = 1
  /\ dryRun = FALSE
  /\ worker = [o \in Object |-> "idle"]
  /\ permits = Concurrency
  /\ chunkSize = [o \in Object |-> 0]
  /\ sent = [o \in Object |-> 0]
  /\ taken = [o \in Object |-> 0]
  /\ uploaded = 0 /\ skipped = 0 /\ errors = 0
  /\ file \in [Uri -> {Absent, Foreign}]
  /\ before = file
  /\ troubled = {}
  /\ listed = FALSE
  /\ runs = 0
  /\ faults = 0

Run ==
  /\ lister = "exited"
  /\ runs < MaxRuns
  /\ runs' = runs + 1
  /\ StartRun
  /\ UNCHANGED <<file, faults>>

Fault == faults < MaxFaults /\ faults' = faults + 1

-----------------------------------------------------------------------------
(* copyAll.                                                                *)

\* A page: folders are skipped, every other key gets a goroutine.
ListPage ==
  LET here == {o \in Object : PageOf[o] = page}
  IN  /\ lister = "listing"
      /\ skipped' = skipped + Cardinality(here \cap Folder)
      /\ worker' = [o \in Object |-> IF o \in here \ Folder THEN "queued" ELSE worker[o]]
      /\ IF page = Pages
           THEN lister' = "waiting" /\ listed' = TRUE /\ UNCHANGED page
           ELSE page' = page + 1 /\ UNCHANGED <<lister, listed>>
      /\ UNCHANGED <<dryRun, before, runs, permits, uploadVars, uploaded, errors,
                     troubled, faults>>

\* The listing fails: copyAll returns at once, without wg.Wait.
ListFails ==
  /\ Fault
  /\ lister = "listing"
  /\ errors' = errors + 1
  /\ lister' = "reporting"
  /\ UNCHANGED <<page, dryRun, before, listed, runs, worker, permits, uploadVars,
                 uploaded, skipped, troubled>>

\* Mutant: copyAll does not wait for its goroutines.
WaitReturnsEarly ==
  /\ lister = "waiting"
  /\ lister' = "reporting"
  /\ UNCHANGED <<page, dryRun, before, listed, runs, worker, permits, uploadVars,
                 stats, troubled, faults>>

\* wg.Wait returns.
WaitReturns ==
  /\ lister = "waiting"
  /\ \A o \in Object : worker[o] \in {"idle", "done"}
  /\ lister' = "reporting"
  /\ UNCHANGED <<page, dryRun, before, listed, runs, worker, permits, uploadVars,
                 stats, troubled, faults>>

\* main prints the counters and exits; what still runs dies with it.
Exit ==
  /\ lister = "reporting"
  /\ lister' = "exited"
  /\ UNCHANGED <<page, dryRun, before, listed, runs, worker, permits, uploadVars,
                 stats, troubled, faults>>

-----------------------------------------------------------------------------
(* The goroutine of one object.                                            *)

\* It runs until main exits.
At(o, location) == lister # "exited" /\ worker[o] = location

Go(o, location) == worker' = [worker EXCEPT ![o] = location] /\ UNCHANGED permits

\* Mutant: the semaphore is not released.
ReturnsHolding(o) == worker' = [worker EXCEPT ![o] = "done"] /\ UNCHANGED permits

\* The goroutine returns: the deferred Release.
Returns(o) ==
  /\ worker' = [worker EXCEPT ![o] = "done"]
  /\ permits' = permits + 1

\* sema.Acquire; a dry run only logs and returns.
Acquire(o) ==
  /\ At(o, "queued")
  /\ permits > 0
  /\ IF dryRun THEN worker' = [worker EXCEPT ![o] = "done"] /\ UNCHANGED permits
               ELSE worker' = [worker EXCEPT ![o] = "check"] /\ permits' = permits - 1
  /\ UNCHANGED <<runVars, uploadVars, stats, troubled, faults>>

\* fileExistsInCloudreve: /file/info knows the target, whatever is there.  An
\* upload that did not finish does not count.
AlreadyExists(o) ==
  /\ At(o, "check")
  /\ file[targetURI(o)] # Absent
  /\ skipped' = skipped + 1
  /\ Returns(o)
  /\ UNCHANGED <<runVars, uploadVars, uploaded, errors, troubled, faults>>

DoesNotExist(o) ==
  /\ At(o, "check")
  /\ file[targetURI(o)] = Absent
  /\ Go(o, "get")
  /\ UNCHANGED <<runVars, uploadVars, stats, troubled, faults>>

\* The check fails: the object is uploaded anyway.
CheckFails(o) ==
  /\ Fault
  /\ At(o, "check")
  /\ Go(o, "get")
  /\ troubled' = troubled \cup {o}
  /\ UNCHANGED <<runVars, uploadVars, stats>>

\* copyObject: the body is opened and the size decides how it is uploaded.
GetObject(o) ==
  /\ At(o, "get")
  /\ Go(o, IF Size[o] < simpleUploadMaxBytes THEN "simple" ELSE "session")
  /\ UNCHANGED <<runVars, uploadVars, stats, troubled, faults>>

\* copyObject returns an error.
CopyFails(o) ==
  /\ errors' = errors + 1
  /\ troubled' = troubled \cup {o}
  /\ Returns(o)
  /\ UNCHANGED <<runVars, uploaded, skipped>>

\* GetObject or createUploadSession fails.
PrepareFails(o) ==
  /\ Fault
  /\ At(o, "get") \/ At(o, "session")
  /\ CopyFails(o)
  /\ UNCHANGED uploadVars

\* copyObject returns nil.
CopySucceeds(o) ==
  /\ uploaded' = uploaded + 1
  /\ Returns(o)
  /\ UNCHANGED <<runVars, skipped, errors, troubled, faults>>

\* Cloudreve with the object under its target, in place of what was there, and
\* with the folders above it.
With(o) ==
  [t \in Uri |-> IF t = targetURI(o) THEN o
                 ELSE IF file[t] = Absent /\ IsFolderOf(t, targetURI(o)) THEN Foreign
                 ELSE file[t]]

SimpleUpload(o) ==
  /\ At(o, "simple")
  /\ file' = With(o)
  /\ CopySucceeds(o)
  /\ UNCHANGED <<chunkSize, sent, taken>>

\* The upload fails or is refused, or its answer is lost.
SimpleUploadFails(o) ==
  /\ Fault
  /\ At(o, "simple")
  /\ file' \in {file, With(o)}
  /\ CopyFails(o)
  /\ UNCHANGED <<chunkSize, sent, taken>>

\* Without a chunk size from the server, one chunk carries all.
ChunkOf(o, given) == IF given <= 0 THEN Size[o] ELSE given

\* createUploadSession, a new one that has no bytes yet.
CreateUploadSession(o) ==
  /\ At(o, "session")
  /\ \E given \in ServerChunkSize : chunkSize' = [chunkSize EXCEPT ![o] = ChunkOf(o, given)]
  /\ sent' = [sent EXCEPT ![o] = 0]
  /\ taken' = [taken EXCEPT ![o] = 0]
  /\ Go(o, "chunks")
  /\ UNCHANGED <<runVars, file, stats, troubled, faults>>

\* The last chunk is what remains.
ThisChunk(o) ==
  LET remaining == Size[o] - sent[o]
  IN  IF remaining < chunkSize[o] THEN remaining ELSE chunkSize[o]

\* Cloudreve takes the next chunk and completes the file once it has all bytes.
Takes(o, chunk) ==
  /\ taken' = [taken EXCEPT ![o] = @ + chunk]
  /\ file' = IF taken[o] + chunk = Size[o] THEN With(o) ELSE file

UploadChunk(o) ==
  /\ At(o, "chunks")
  /\ sent[o] < Size[o]
  /\ Takes(o, ThisChunk(o))
  /\ sent' = [sent EXCEPT ![o] = @ + ThisChunk(o)]
  /\ UNCHANGED <<runVars, worker, permits, chunkSize, stats, troubled, faults>>

UploadChunkFails(o) ==
  /\ Fault
  /\ At(o, "chunks")
  /\ sent[o] < Size[o]
  /\ Takes(o, ThisChunk(o)) \/ UNCHANGED <<taken, file>>
  /\ CopyFails(o)
  /\ UNCHANGED <<chunkSize, sent>>

\* Mutant: the loop ends before the last, shorter chunk.
ChunksDoneEarly(o) ==
  /\ At(o, "chunks")
  /\ Size[o] - sent[o] < chunkSize[o]
  /\ CopySucceeds(o)
  /\ UNCHANGED uploadVars

\* remaining is 0: chunkedUpload returns.
ChunksDone(o) ==
  /\ At(o, "chunks")
  /\ sent[o] = Size[o]
  /\ CopySucceeds(o)
  /\ UNCHANGED uploadVars

WorkerStep(o) ==
  \/ Acquire(o) \/ AlreadyExists(o) \/ DoesNotExist(o) \/ GetObject(o)
  \/ SimpleUpload(o) \/ CreateUploadSession(o) \/ UploadChunk(o) \/ ChunksDone(o)

WorkerFault(o) ==
  CheckFails(o) \/ PrepareFails(o) \/ SimpleUploadFails(o) \/ UploadChunkFails(o)

Next ==
  \/ Run \/ ListPage \/ ListFails \/ WaitReturns \/ Exit
  \/ \E o \in File : WorkerStep(o) \/ WorkerFault(o)

Spec == Init /\ [][Next]_vars

\* main and the goroutines run, and servers answer or fail.  A goroutine that
\* waits for the semaphore gets it in its turn (SF).
Fairness ==
  /\ WF_vars(ListPage \/ WaitReturns \/ Exit)
  /\ \A o \in File : WF_vars(WorkerStep(o)) /\ SF_vars(Acquire(o))

FairSpec == Spec /\ Fairness

-----------------------------------------------------------------------------
(* Properties.                                                             *)

\* What main prints is true if the listing was complete.  Every object of the
\* bucket is uploaded, skipped or an error, and never two of them, whatever
\* failed on the way.  "uploaded" counts all objects that this run brought to
\* their targets, but for those with a failed request, and none whose target
\* was there when the run began: a second run uploads only what is missing.
CountsAddUp ==
  lister = "exited" /\ listed =>
    /\ ~dryRun => uploaded + skipped + errors = Cardinality(Object)
    /\ uploaded >= Cardinality({o \in File \ troubled :
                      file[targetURI(o)] = o /\ before[targetURI(o)] # o})
    /\ uploaded <= Cardinality({o \in File :
                      before[targetURI(o)] = Absent \/ o \in troubled})

\* A run that lists the whole bucket and reports no errors leaves under the
\* target of every file a complete object with that target, whatever earlier,
\* interrupted runs left there and however sizes and chunk sizes divide: the
\* file itself where no other key has its target.  The exception is a target
\* that the copy was not made to: where something else was before the run, or
\* where another file's target needs a folder.
CleanRunCopiesAll ==
  lister = "exited" /\ listed /\ ~dryRun /\ errors = 0 =>
    \A t \in Uri :
      \/ file[t] \in {o \in File : targetURI(o) = t}
      \/ /\ file[t] = Foreign
         /\ before[t] = Foreign \/ \E u \in Uri : IsFolderOf(t, u) /\ file[u] # Absent

\* Every run ends: no goroutine keeps the semaphore from the others, and every
\* chunked upload comes to its last byte.
RunEnds == lister = "listing" ~> lister = "exited"
=============================================================================
