------------------------ MODULE CloudreveCopyProofs ------------------------
(***************************************************************************)
(* Proofs about cmd/s3-to-cloudreve, for any finite bucket, any paging,    *)
(* sizes, chunk sizes and concurrency, and any number of runs and faults.  *)
(***************************************************************************)
EXTENDS CloudreveCopy, FiniteSetTheorems, TLAPS

-----------------------------------------------------------------------------
(* The inductive invariant.                                                *)

\* Where a goroutine holds a permit.
Busy == {o \in File : worker[o] \in {"check", "get", "simple", "session", "chunks"}}

\* Goroutines that have returned, and folders of the pages listed so far.
Finished == {o \in File : worker[o] = "done"}
Seen == {o \in Folder : listed \/ PageOf[o] < page}

\* Files whose goroutine has returned: those this run brought to their targets
\* without trouble, and those whose target was free or that were in trouble.
Added == {o \in Finished : /\ o \notin troubled
                           /\ file[targetURI(o)] = o /\ before[targetURI(o)] # o}
Fresh == {o \in Finished : before[targetURI(o)] = Absent \/ o \in troubled}

\* Something else is under a target only if it was when the run began, or if the
\* target is a folder of another that is there; and nothing is removed.
ForeignKept ==
  \A t \in Uri :
    /\ file[t] = Foreign =>
         before[t] = Foreign \/ \E u \in Uri : IsFolderOf(t, u) /\ file[u] # Absent
    /\ file[t] = Absent => before[t] = Absent

\* The semaphore: a permit is free or with a goroutine that will release it.
PermitsKept == permits + Cardinality(Busy) = Concurrency

\* One goroutine: once it has returned its target is there or an error counted;
\* while it sends chunks Cloudreve has what it sent; it uploads only to a target
\* that was free when the run began; and only it brings its object there.
Goroutine(o) ==
  /\ worker[o] = "done" /\ ~dryRun => file[targetURI(o)] # Absent \/ errors > 0
  /\ worker[o] \in {"session", "chunks"} => Size[o] >= simpleUploadMaxBytes
  /\ worker[o] = "chunks" => /\ sent[o] = taken[o]
                             /\ sent[o] = Size[o] => file[targetURI(o)] # Absent
  /\ worker[o] \in {"get", "simple", "session", "chunks"} =>
       before[targetURI(o)] = Absent \/ o \in troubled
  /\ file[targetURI(o)] = o =>
       before[targetURI(o)] = o \/ worker[o] \in {"chunks", "done"}

Goroutines == \A o \in File : Goroutine(o)

\* The listing: goroutines exist for the pages listed so far, and have all
\* returned when copyAll has waited for them.
Listing ==
  /\ lister = "listing" =>
       /\ ~listed
       /\ \A o \in File : worker[o] = "idle" <=> PageOf[o] >= page
  /\ listed => \A o \in File : worker[o] # "idle"
  /\ listed /\ lister \in {"reporting", "exited"} =>
       \A o \in File : worker[o] = "done"

\* Every goroutine that has returned, and every folder, was counted once.
AllCounted ==
  (lister = "listing" \/ listed) /\ ~dryRun =>
    uploaded + skipped + errors = Cardinality(Finished) + Cardinality(Seen)

\* uploaded counts every added file, and only files that were to be uploaded.
UploadsCounted == Cardinality(Added) <= uploaded /\ uploaded <= Cardinality(Fresh)

IInv ==
  /\ TypeOK
  /\ PermitsKept
  /\ ForeignKept
  /\ Goroutines
  /\ Listing
  /\ AllCounted
  /\ UploadsCounted
-----------------------------------------------------------------------------
(* Counting objects.                                                       *)

\* Folders are objects.
LEMMA FolderKeys == Folder \subseteq Object
  BY DEF Folder

\* Every set of objects can be counted.
LEMMA Counting ==
  ASSUME NEW S \in SUBSET Object
  PROVE  IsFiniteSet(S) /\ Cardinality(S) \in Nat
  BY FS_Subset, FS_CardinalityType, CopyAssumption

\* One more object counts one.
LEMMA OneMore ==
  ASSUME NEW S \in SUBSET Object, NEW o \in Object, o \notin S
  PROVE  Cardinality(S \cup {o}) = Cardinality(S) + 1
  BY Counting, FS_AddElement

\* One object less counts one less.
LEMMA OneLess ==
  ASSUME NEW S \in SUBSET Object, NEW o \in S
  PROVE  Cardinality(S \ {o}) = Cardinality(S) - 1
  BY Counting, FS_RemoveElement

\* Objects of disjoint sets are counted separately.
LEMMA Apart ==
  ASSUME NEW S \in SUBSET Object, NEW T \in SUBSET Object, S \cap T = {}
  PROVE  Cardinality(S \cup T) = Cardinality(S) + Cardinality(T)
<1>1. IsFiniteSet(S) /\ IsFiniteSet(T) /\ Cardinality(S) \in Nat /\ Cardinality(T) \in Nat
  BY Counting
<1>2. Cardinality(S \cup T) = Cardinality(S) + Cardinality(T) - Cardinality({})
  BY <1>1, FS_Union
<1>3. QED
  BY <1>1, <1>2, FS_EmptySet

\* A part of a set of objects counts no more.
LEMMA NoMore ==
  ASSUME NEW S \in SUBSET Object, NEW T \in SUBSET S
  PROVE  Cardinality(T) <= Cardinality(S) /\ Cardinality(T) \in Nat
<1>1. IsFiniteSet(S) /\ T \in SUBSET Object
  BY Counting
<1>2. QED
  BY <1>1, Counting, FS_Subset

\* The sets of the invariant are sets of objects.
LEMMA CountedSets ==
  /\ Busy \in SUBSET Object /\ Finished \in SUBSET Object /\ Seen \in SUBSET Object
  /\ Added \in SUBSET Object /\ Fresh \in SUBSET Object
  BY CopyAssumption DEF Busy, Finished, Seen, Added, Fresh, Folder, File

-----------------------------------------------------------------------------
(* What the step of one goroutine does to each part of the invariant.      *)

\* The goroutine of o, started and not yet returned, goes to another place.
Moves(o, to) ==
  /\ lister # "exited"
  /\ worker[o] \notin {"idle", "done"}
  /\ worker' = [worker EXCEPT ![o] = to]
  /\ UNCHANGED runVars

BusyAt == {"check", "get", "simple", "session", "chunks"}

\* The listing does not depend on where started goroutines are.
LEMMA ListingKept ==
  ASSUME TypeOK, Listing, NEW o \in File, NEW to \in Location \ {"idle"}, Moves(o, to)
  PROVE  Listing'
<1>1. /\ lister' = lister /\ listed' = listed /\ page' = page /\ lister # "exited"
      /\ worker[o] \notin {"idle", "done"}
  BY DEF Moves, runVars
<1>2. \A q \in File : worker'[q] = "idle" <=> worker[q] = "idle"
  BY <1>1 DEF Moves, TypeOK, File
<1>3. ~(listed /\ lister \in {"reporting", "exited"})
  BY <1>1 DEF Listing
<1>4. QED
  BY <1>1, <1>2, <1>3 DEF Listing

\* A goroutine that takes the semaphore, keeps it, or gives it back.
LEMMA PermitTaken ==
  ASSUME TypeOK, PermitsKept, NEW o \in File, worker[o] = "queued", permits > 0,
         Moves(o, "check"), permits' = permits - 1
  PROVE  PermitsKept' /\ permits' \in 0..Concurrency
<1>1. o \in Object /\ o \notin Busy
  BY DEF Busy, File
<1>2. Busy' = Busy \cup {o}
  BY DEF Busy, Moves, TypeOK, File
<1>3. Cardinality(Busy') = Cardinality(Busy) + 1 /\ Cardinality(Busy) \in Nat
  BY <1>1, <1>2, OneMore, Counting, CountedSets
<1>4. QED
  BY <1>3, CopyAssumption DEF PermitsKept, TypeOK

\* A goroutine that goes on keeps its permit.
LEMMA PermitHeld ==
  ASSUME TypeOK, PermitsKept, NEW o \in File, NEW to \in Location, Moves(o, to),
         worker[o] \in BusyAt <=> to \in BusyAt, permits' = permits
  PROVE  PermitsKept' /\ permits' \in 0..Concurrency
<1>1. Busy' = Busy
  BY DEF Busy, BusyAt, Moves, TypeOK, File
<1>2. QED
  BY <1>1 DEF PermitsKept, TypeOK

\* A goroutine that returns gives back the permit it had.
LEMMA PermitReleased ==
  ASSUME TypeOK, PermitsKept, NEW o \in File, worker[o] \in BusyAt,
         Moves(o, "done"), permits' = permits + 1
  PROVE  PermitsKept' /\ permits' \in 0..Concurrency
<1>1. o \in Busy
  BY DEF Busy, BusyAt
<1>2. Busy' = Busy \ {o}
  BY DEF Busy, Moves, TypeOK, File
<1>3. Cardinality(Busy') = Cardinality(Busy) - 1
  BY <1>1, <1>2, OneLess, CountedSets
<1>4. Cardinality(Busy) \in Nat /\ Cardinality(Busy') \in Nat
  <2>1. Busy' \in SUBSET Object
    BY <1>2, CountedSets
  <2>2. QED
    BY <2>1, Counting, CountedSets
<1>5. QED
  BY <1>3, <1>4, CopyAssumption DEF PermitsKept, TypeOK

\* A goroutine that goes on is not counted; one that returns is counted once.
LEMMA NotYetCounted ==
  ASSUME TypeOK, AllCounted, NEW o \in File, NEW to \in Location \ {"done"},
         Moves(o, to), UNCHANGED stats
  PROVE  AllCounted'
<1>1. Finished' = Finished
  BY DEF Finished, Moves, TypeOK, File
<1>2. Seen' = Seen
  BY DEF Seen, Moves, runVars
<1>3. QED
  BY <1>1, <1>2 DEF AllCounted, Moves, runVars, stats

\* The step that returns adds one to exactly one counter.
LEMMA CountedOnce ==
  ASSUME TypeOK, AllCounted, NEW o \in File, Moves(o, "done"),
         ~dryRun => uploaded' + skipped' + errors' = uploaded + skipped + errors + 1
  PROVE  AllCounted'
<1>1. Finished' = Finished \cup {o} /\ o \notin Finished /\ o \in Object
  BY DEF Finished, Moves, TypeOK, File
<1>2. Seen' = Seen
  BY DEF Seen, Moves, runVars
<1>3. Cardinality(Finished') = Cardinality(Finished) + 1
  BY <1>1, OneMore, CountedSets
<1>4. Cardinality(Finished) \in Nat /\ Cardinality(Seen) \in Nat
  BY Counting, CountedSets
<1>5. lister' = lister /\ listed' = listed /\ dryRun' = dryRun
  BY DEF Moves, runVars
<1>6. QED
  BY <1>2, <1>3, <1>4, <1>5 DEF AllCounted

\* What the step of o's goroutine may bring to Cloudreve or get into trouble.
OnlyAbout(o) ==
  /\ file' \in {file, With(o)}
  /\ troubled' \in {troubled, troubled \cup {o}}
  /\ before' = before
  /\ errors' \in {errors, errors + 1}

\* An upload removes nothing, brings only its own object, and makes folders only
\* above it.
LEMMA UploadKeeps ==
  ASSUME TypeOK, ForeignKept, NEW o \in File, OnlyAbout(o)
  PROVE  /\ file' \in [Uri -> File \cup {Absent, Foreign}]
         /\ \A t \in Uri : file'[t] \in File => targetURI(file'[t]) = t
         /\ \A t \in Uri : file[t] # Absent => file'[t] # Absent
         /\ \A q \in File : q # o /\ file'[targetURI(q)] = q => file[targetURI(q)] = q
         /\ ForeignKept'
<1>1. targetURI(o) \in Uri /\ o # Absent /\ o # Foreign
  BY CopyAssumption DEF Uri, File
<1>2. \A q \in File : targetURI(q) \in Uri /\ q # Absent /\ q # Foreign
  BY CopyAssumption DEF Uri, File
<1>3. CASE file' = file
  BY <1>3 DEF TypeOK, OnlyAbout, ForeignKept
<1>4. CASE file' = With(o)
  <2>1. ASSUME NEW t \in Uri
        PROVE  /\ t = targetURI(o) => file'[t] = o
               /\ t # targetURI(o) =>
                    \/ file'[t] = file[t]
                    \/ file[t] = Absent /\ IsFolderOf(t, targetURI(o)) /\ file'[t] = Foreign
    BY <1>4 DEF With
  <2>2. file' \in [Uri -> File \cup {Absent, Foreign}]
    <3>1. file' = [t \in Uri |-> file'[t]]
      BY <1>4 DEF With
    <3>2. \A t \in Uri : file'[t] \in File \cup {Absent, Foreign}
      BY <2>1 DEF TypeOK
    <3>3. QED
      BY <3>1, <3>2
  <2>3. \A t \in Uri : file'[t] \in File => targetURI(file'[t]) = t
    BY <1>2, <2>1 DEF TypeOK
  <2>4. \A t \in Uri : file[t] # Absent => file'[t] # Absent
    BY <1>1, <2>1, CopyAssumption
  <2>5. \A q \in File : q # o /\ file'[targetURI(q)] = q => file[targetURI(q)] = q
    BY <1>2, <2>1
  <2>6. file'[targetURI(o)] # Absent
    BY <1>1, <2>1
  <2>7. ForeignKept'
    <3> SUFFICES ASSUME NEW t \in Uri
                 PROVE  /\ file'[t] = Foreign =>
                             \/ before[t] = Foreign
                             \/ \E u \in Uri : IsFolderOf(t, u) /\ file'[u] # Absent
                        /\ file'[t] = Absent => before[t] = Absent
      BY DEF ForeignKept, OnlyAbout
    <3>1. CASE t = targetURI(o)
      BY <1>1, <2>1, <3>1
    <3>2. CASE file'[t] = file[t]
      BY <2>4, <3>2 DEF ForeignKept
    <3>3. CASE file[t] = Absent /\ IsFolderOf(t, targetURI(o)) /\ file'[t] = Foreign
      BY <1>1, <2>6, <3>3, CopyAssumption
    <3>4. QED
      BY <2>1, <3>1, <3>2, <3>3
  <2>8. QED
    BY <2>2, <2>3, <2>4, <2>5, <2>7
<1>5. QED
  BY <1>3, <1>4 DEF OnlyAbout

\* Before a goroutine returns its uploads do not count.
LEMMA UploadPending ==
  ASSUME TypeOK, ForeignKept, UploadsCounted, NEW o \in File,
         NEW to \in Location \ {"done"}, Moves(o, to), OnlyAbout(o), uploaded' = uploaded
  PROVE  UploadsCounted'
<1>1. Finished' = Finished /\ o \notin Finished /\ Finished \subseteq File
  BY DEF Finished, Moves, TypeOK, File
<1>2. Added' \in SUBSET Added
  BY <1>1, UploadKeeps DEF Added, OnlyAbout
<1>3. Fresh' = Fresh
  BY <1>1 DEF Fresh, OnlyAbout
<1>4. Cardinality(Added') <= Cardinality(Added) /\ Cardinality(Added') \in Nat
  BY <1>2, NoMore, CountedSets
<1>5. uploaded \in Nat /\ Cardinality(Added) \in Nat
  BY Counting, CountedSets DEF TypeOK
<1>6. QED
  BY <1>3, <1>4, <1>5 DEF UploadsCounted

\* A goroutine that returns without an upload: if its object is under the target
\* it was when the run began, or is in trouble.
LEMMA NotUploaded ==
  ASSUME TypeOK, ForeignKept, UploadsCounted, NEW o \in File, Moves(o, "done"),
         OnlyAbout(o), uploaded' = uploaded,
         file'[targetURI(o)] = o => before[targetURI(o)] = o \/ o \in troubled'
  PROVE  UploadsCounted'
<1>1. Finished' = Finished \cup {o} /\ o \notin Finished /\ Finished \subseteq File
  BY DEF Finished, Moves, TypeOK, File
<1>2. Added' \in SUBSET Added
  <2>1. ASSUME NEW q \in Added' PROVE q \in Added
    <3>1. /\ q \in Finished' /\ q \notin troubled'
          /\ file'[targetURI(q)] = q /\ before[targetURI(q)] # q
      BY <2>1 DEF Added, OnlyAbout
    <3>2. q # o /\ q \in Finished /\ q \in File /\ q \notin troubled
      BY <1>1, <3>1 DEF OnlyAbout
    <3>3. file[targetURI(q)] = q
      BY <3>1, <3>2, UploadKeeps
    <3>4. QED
      BY <3>1, <3>2, <3>3 DEF Added
  <2>2. QED
    BY <2>1
<1>3. Fresh \in SUBSET Fresh' /\ Fresh' \in SUBSET Object
  BY <1>1, CountedSets DEF Fresh, OnlyAbout, File
<1>4. /\ Cardinality(Added') <= Cardinality(Added) /\ Cardinality(Added') \in Nat
      /\ Cardinality(Fresh) <= Cardinality(Fresh') /\ Cardinality(Fresh) \in Nat
  BY <1>2, <1>3, NoMore, CountedSets
<1>5. uploaded \in Nat /\ Cardinality(Added) \in Nat /\ Cardinality(Fresh') \in Nat
  BY <1>3, Counting, CountedSets DEF TypeOK
<1>6. QED
  BY <1>4, <1>5 DEF UploadsCounted

\* A goroutine that returns after an upload: the target was free when the run
\* began, or the object is in trouble.
LEMMA Uploaded ==
  ASSUME TypeOK, ForeignKept, UploadsCounted, NEW o \in File, Moves(o, "done"),
         OnlyAbout(o), uploaded' = uploaded + 1, troubled' = troubled,
         before[targetURI(o)] = Absent \/ o \in troubled
  PROVE  UploadsCounted'
<1>1. Finished' = Finished \cup {o} /\ o \notin Finished /\ Finished \subseteq File /\ o \in Object
  BY DEF Finished, Moves, TypeOK, File
<1>2. Added' \in SUBSET (Added \cup {o})
  <2>1. ASSUME NEW q \in Added', q # o PROVE q \in Added
    <3>1. /\ q \in Finished' /\ q \notin troubled
          /\ file'[targetURI(q)] = q /\ before[targetURI(q)] # q
      BY <2>1 DEF Added, OnlyAbout
    <3>2. q \in Finished /\ q \in File
      BY <1>1, <2>1, <3>1
    <3>3. file[targetURI(q)] = q
      BY <2>1, <3>1, <3>2, UploadKeeps
    <3>4. QED
      BY <3>1, <3>2, <3>3 DEF Added
  <2>2. QED
    BY <2>1
<1>3. Fresh' = Fresh \cup {o} /\ o \notin Fresh /\ o \notin Added
  BY <1>1 DEF Fresh, Added, OnlyAbout
<1>4. /\ Cardinality(Fresh') = Cardinality(Fresh) + 1
      /\ Cardinality(Added \cup {o}) = Cardinality(Added) + 1
  BY <1>1, <1>3, OneMore, CountedSets
<1>5. Added \cup {o} \in SUBSET Object
  BY <1>1, CountedSets
<1>6. Cardinality(Added') <= Cardinality(Added \cup {o}) /\ Cardinality(Added') \in Nat
  BY <1>2, <1>5, NoMore
<1>7. uploaded \in Nat /\ Cardinality(Added) \in Nat /\ Cardinality(Fresh) \in Nat
  BY Counting, CountedSets DEF TypeOK
<1>8. QED
  BY <1>4, <1>6, <1>7 DEF UploadsCounted

\* The other goroutines do not notice.
LEMMA OthersKept ==
  ASSUME TypeOK, ForeignKept, Goroutines, NEW o \in File, NEW to \in Location,
         Moves(o, to), OnlyAbout(o),
         \A q \in Object \ {o} : sent'[q] = sent[q] /\ taken'[q] = taken[q],
         Goroutine(o)'
  PROVE  Goroutines'
<1>1. ASSUME NEW q \in File \ {o}
      PROVE  Goroutine(q)'
  <2>1. Goroutine(q) /\ q \in Object /\ targetURI(q) \in Uri
    BY DEF Goroutines, File, Uri
  <2>2. worker'[q] = worker[q] /\ dryRun' = dryRun /\ before' = before
    BY <2>1 DEF Moves, runVars, TypeOK
  <2>3. /\ file[targetURI(q)] # Absent => file'[targetURI(q)] # Absent
        /\ file'[targetURI(q)] = q => file[targetURI(q)] = q
        /\ q \in troubled' <=> q \in troubled
        /\ errors > 0 => errors' > 0
    BY <2>1, UploadKeeps DEF OnlyAbout, TypeOK
  <2>4. sent'[q] = sent[q] /\ taken'[q] = taken[q]
    BY <2>1
  <2>5. QED
    BY <2>1, <2>2, <2>3, <2>4 DEF Goroutine
<1>2. QED
  BY <1>1 DEF Goroutines
-----------------------------------------------------------------------------
(* The steps of a goroutine.                                               *)

\* The parts of the state that no goroutine changes keep their types, and so do
\* the others once it is known where the goroutine goes.
LEMMA TypeKept ==
  ASSUME TypeOK, ForeignKept, NEW o \in File, NEW to \in Location,
         Moves(o, to), OnlyAbout(o),
         permits' \in 0..Concurrency,
         chunkSize' \in [Object -> Nat],
         sent' \in [Object -> Nat], taken' \in [Object -> Nat],
         \A q \in Object : sent'[q] <= Size[q] /\ taken'[q] <= Size[q],
         uploaded' \in Nat, skipped' \in Nat, errors' \in Nat,
         faults' \in 0..MaxFaults
  PROVE  TypeOK' /\ ForeignKept'
<1>1. worker' \in [Object -> Location]
  BY DEF TypeOK, Moves
<1>2. /\ file' \in [Uri -> File \cup {Absent, Foreign}]
      /\ \A t \in Uri : file'[t] \in File => targetURI(file'[t]) = t
      /\ troubled' \subseteq File
      /\ ForeignKept'
  BY UploadKeeps DEF TypeOK, OnlyAbout
<1>3. /\ lister' = lister /\ page' = page /\ dryRun' = dryRun /\ before' = before
      /\ listed' = listed /\ runs' = runs
  BY DEF Moves, runVars
<1>4. QED
  BY <1>1, <1>2, <1>3 DEF TypeOK

\* The same for a step that sends no chunk.
LEMMA TypeKeptIdle ==
  ASSUME TypeOK, ForeignKept, NEW o \in File, NEW to \in Location,
         Moves(o, to), OnlyAbout(o), permits' \in 0..Concurrency, UNCHANGED <<chunkSize, sent, taken>>,
         uploaded' \in Nat, skipped' \in Nat, errors' \in Nat,
         faults' \in 0..MaxFaults
  PROVE  /\ TypeOK' /\ ForeignKept'
         /\ \A q \in Object \ {o} : sent'[q] = sent[q] /\ taken'[q] = taken[q]
<1>1. /\ chunkSize' \in [Object -> Nat] /\ sent' \in [Object -> Nat]
      /\ taken' \in [Object -> Nat]
      /\ \A q \in Object : sent'[q] <= Size[q] /\ taken'[q] <= Size[q]
  BY DEF TypeOK
<1>2. QED
  BY <1>1, TypeKept

\* A failed request leaves the number of faults within its bound.
LEMMA FaultType ==
  ASSUME TypeOK, Fault PROVE faults' \in 0..MaxFaults
  BY CopyAssumption DEF TypeOK, Fault

\* Acquire: a dry run returns at once, any other run checks the file.
LEMMA AcquireStep ==
  ASSUME IInv, NEW o \in File, Acquire(o)
  PROVE  IInv'
<1>0. /\ TypeOK /\ PermitsKept /\ ForeignKept /\ Goroutines
      /\ Listing /\ AllCounted /\ UploadsCounted
      /\ Goroutine(o) /\ o \in Object
  BY DEF IInv, Goroutines, File
<1>1. /\ worker[o] = "queued" /\ permits > 0 /\ lister # "exited"
      /\ UNCHANGED <<runVars, uploadVars, stats, troubled, faults>>
  BY DEF Acquire, At
<1>2. OnlyAbout(o) /\ dryRun' = dryRun /\ file' = file /\ before' = before /\ errors' = errors
  BY <1>1 DEF OnlyAbout, uploadVars, runVars, stats
<1>3. /\ UNCHANGED <<chunkSize, sent, taken>> /\ uploaded' = uploaded /\ UNCHANGED stats
      /\ uploaded' \in Nat /\ skipped' \in Nat /\ errors' \in Nat /\ faults' \in 0..MaxFaults
  BY <1>0, <1>1 DEF uploadVars, stats, TypeOK
<1>4. PICK to \in {"done", "check"} :
        /\ worker' = [worker EXCEPT ![o] = to]
        /\ to = "done" => dryRun /\ permits' = permits
        /\ to = "check" => permits' = permits - 1
  BY DEF Acquire
<1>5. Moves(o, to) /\ to \in Location \ {"idle"} /\ worker'[o] = to
  BY <1>0, <1>1, <1>4 DEF Moves, Location, TypeOK
<1>6. PermitsKept' /\ permits' \in 0..Concurrency
  <2>1. CASE to = "done"
    BY <1>0, <1>1, <1>4, <1>5, <2>1, PermitHeld DEF BusyAt
  <2>2. CASE to = "check"
    BY <1>0, <1>1, <1>4, <1>5, <2>2, PermitTaken
  <2>3. QED
    BY <1>4, <2>1, <2>2
<1>7. TypeOK' /\ ForeignKept' /\ \A q \in Object \ {o} : sent'[q] = sent[q] /\ taken'[q] = taken[q]
  BY <1>0, <1>2, <1>3, <1>5, <1>6, TypeKeptIdle
<1>8. Goroutine(o)'
  BY <1>0, <1>1, <1>2, <1>4, <1>5 DEF Goroutine
<1>9. Goroutines' /\ Listing'
  BY <1>0, <1>2, <1>5, <1>7, <1>8, OthersKept, ListingKept
<1>10. AllCounted' /\ UploadsCounted'
  <2>1. CASE to = "done"
    <3>1. dryRun /\ (file'[targetURI(o)] = o => before[targetURI(o)] = o \/ o \in troubled')
      BY <1>0, <1>1, <1>2, <1>4, <2>1 DEF Goroutine
    <3>2. QED
      BY <1>0, <1>2, <1>3, <1>5, <2>1, <3>1, CountedOnce, NotUploaded
  <2>2. CASE to = "check"
    BY <1>0, <1>2, <1>3, <1>5, <2>2, NotYetCounted, UploadPending
  <2>3. QED
    BY <1>4, <2>1, <2>2
<1>11. QED
  BY <1>6, <1>7, <1>9, <1>10 DEF IInv
\* A goroutine that holds a permit goes on.
LEMMA GoesOn ==
  ASSUME IInv, NEW o \in File, NEW to \in BusyAt, worker[o] \in BusyAt,
         Moves(o, to), OnlyAbout(o), permits' = permits, UNCHANGED stats,
         faults' \in 0..MaxFaults,
         chunkSize' \in [Object -> Nat],
         sent' \in [Object -> Nat], taken' \in [Object -> Nat],
         sent'[o] <= Size[o] /\ taken'[o] <= Size[o],
         \A q \in Object \ {o} : sent'[q] = sent[q] /\ taken'[q] = taken[q],
         Goroutine(o)'
  PROVE  IInv'
<1>0. /\ TypeOK /\ PermitsKept /\ ForeignKept /\ Goroutines
      /\ Listing /\ AllCounted /\ UploadsCounted
      /\ Goroutine(o) /\ o \in Object
  BY DEF IInv, Goroutines, File
<1>1. to \in Location \ {"idle"} /\ to \in Location \ {"done"}
  BY DEF BusyAt, Location
<1>2. PermitsKept' /\ permits' \in 0..Concurrency
  BY <1>0, <1>1, PermitHeld
<1>3. uploaded' = uploaded /\ uploaded' \in Nat /\ skipped' \in Nat /\ errors' \in Nat
  BY <1>0 DEF TypeOK, stats
<1>4. \A q \in Object : sent'[q] <= Size[q] /\ taken'[q] <= Size[q]
  BY <1>0 DEF TypeOK
<1>5. TypeOK' /\ ForeignKept'
  BY <1>0, <1>1, <1>2, <1>3, <1>4, TypeKept
<1>6. Goroutines' /\ Listing'
  BY <1>0, <1>1, OthersKept, ListingKept
<1>7. AllCounted' /\ UploadsCounted'
  BY <1>0, <1>1, <1>3, NotYetCounted, UploadPending
<1>8. QED
  BY <1>2, <1>5, <1>6, <1>7 DEF IInv

\* A goroutine that holds a permit returns, and is counted.
LEMMA Ends ==
  ASSUME IInv, NEW o \in File, worker[o] \in BusyAt, lister # "exited",
         Returns(o), UNCHANGED runVars, OnlyAbout(o),
         uploaded' \in Nat, skipped' \in Nat, errors' \in Nat,
         uploaded' + skipped' + errors' = uploaded + skipped + errors + 1,
         faults' \in 0..MaxFaults, UNCHANGED <<chunkSize, sent>>,
         taken' \in [Object -> Nat], taken'[o] <= Size[o],
         \A q \in Object \ {o} : taken'[q] = taken[q],
         file'[targetURI(o)] # Absent \/ errors' > 0,
         \/ /\ uploaded' = uploaded
            /\ file'[targetURI(o)] = o => before[targetURI(o)] = o \/ o \in troubled'
         \/ /\ uploaded' = uploaded + 1 /\ troubled' = troubled
            /\ before[targetURI(o)] = Absent \/ o \in troubled
  PROVE  IInv'
<1>0. /\ TypeOK /\ PermitsKept /\ ForeignKept /\ Goroutines
      /\ Listing /\ AllCounted /\ UploadsCounted
      /\ Goroutine(o) /\ o \in Object
  BY DEF IInv, Goroutines, File
<1>1. Moves(o, "done") /\ permits' = permits + 1 /\ worker'[o] = "done"
  BY <1>0 DEF Moves, Returns, BusyAt, TypeOK
<1>2. "done" \in Location \ {"idle"} /\ "done" \in Location
  BY DEF Location
<1>3. PermitsKept' /\ permits' \in 0..Concurrency
  BY <1>0, <1>1, PermitReleased
<1>4. /\ chunkSize' \in [Object -> Nat] /\ sent' \in [Object -> Nat]
      /\ \A q \in Object : sent'[q] <= Size[q] /\ taken'[q] <= Size[q]
      /\ \A q \in Object \ {o} : sent'[q] = sent[q] /\ taken'[q] = taken[q]
  BY <1>0 DEF TypeOK
<1>5. TypeOK' /\ ForeignKept'
  BY <1>0, <1>1, <1>2, <1>3, <1>4, TypeKept
<1>6. Goroutine(o)'
  <2>1. before' = before
    BY DEF OnlyAbout
  <2>2. QED
    BY <1>0, <1>1, <2>1 DEF Goroutine
<1>7. Goroutines' /\ Listing'
  BY <1>0, <1>1, <1>2, <1>4, <1>6, OthersKept, ListingKept
<1>8. AllCounted'
  BY <1>0, <1>1, CountedOnce
<1>9. UploadsCounted'
  BY <1>0, <1>1, NotUploaded, Uploaded
<1>10. QED
  BY <1>3, <1>5, <1>7, <1>8, <1>9 DEF IInv

\* fileExistsInCloudreve and copyObject up to the choice of the upload.
LEMMA CheckStep ==
  ASSUME IInv, NEW o \in File,
         AlreadyExists(o) \/ DoesNotExist(o) \/ CheckFails(o) \/ GetObject(o)
  PROVE  IInv'
<1>0. /\ TypeOK /\ PermitsKept /\ ForeignKept /\ Goroutines
      /\ Listing /\ AllCounted /\ UploadsCounted
      /\ Goroutine(o) /\ o \in Object
  BY DEF IInv, Goroutines, File
<1>1. CASE AlreadyExists(o)
  <2>1. /\ worker[o] = "check" /\ lister # "exited" /\ Returns(o)
        /\ file[targetURI(o)] # Absent
        /\ skipped' = skipped + 1
        /\ UNCHANGED <<runVars, uploadVars, uploaded, errors, troubled, faults>>
    BY <1>1 DEF AlreadyExists, At
  <2>2. /\ worker[o] \in BusyAt /\ file'[targetURI(o)] # Absent
        /\ file'[targetURI(o)] = o => before[targetURI(o)] = o
    BY <1>0, <2>1 DEF BusyAt, Goroutine, uploadVars
  <2>3. OnlyAbout(o) /\ before' = before /\ UNCHANGED runVars /\ UNCHANGED <<chunkSize, sent, taken>>
    BY <2>1 DEF OnlyAbout, runVars, uploadVars
  <2>4. /\ uploaded' \in Nat /\ skipped' \in Nat /\ errors' \in Nat /\ faults' \in 0..MaxFaults
        /\ uploaded' + skipped' + errors' = uploaded + skipped + errors + 1
        /\ uploaded' = uploaded
    BY <1>0, <2>1 DEF TypeOK
  <2>5. taken' \in [Object -> Nat] /\ taken'[o] <= Size[o] /\ taken' = taken
    BY <1>0, <2>3 DEF TypeOK
  <2>6. QED
    BY <2>1, <2>2, <2>3, <2>4, <2>5, Ends
<1>2. CASE DoesNotExist(o) \/ CheckFails(o) \/ GetObject(o)
  <2>1. PICK to \in BusyAt :
          /\ worker[o] \in BusyAt /\ lister # "exited" /\ Go(o, to)
          /\ to \in {"get", "simple", "session"}
          /\ to = "session" => Size[o] >= simpleUploadMaxBytes
          /\ before[targetURI(o)] = Absent \/ o \in troubled'
          /\ troubled' \in {troubled, troubled \cup {o}}
          /\ UNCHANGED <<runVars, uploadVars, stats>> /\ faults' \in 0..MaxFaults
          /\ file[targetURI(o)] = o => before[targetURI(o)] = o
    <3>1. CASE DoesNotExist(o)
      <4>1. /\ worker[o] = "check" /\ lister # "exited" /\ Go(o, "get")
            /\ file[targetURI(o)] = Absent
            /\ UNCHANGED <<runVars, uploadVars, stats, troubled, faults>>
        BY <3>1 DEF DoesNotExist, At
      <4>2. /\ before[targetURI(o)] = Absent /\ faults' \in 0..MaxFaults
            /\ file[targetURI(o)] = o => before[targetURI(o)] = o
        BY <1>0, <4>1 DEF Goroutine, ForeignKept, Uri, TypeOK
      <4>3. QED
        BY <4>1, <4>2 DEF BusyAt
    <3>2. CASE CheckFails(o)
      <4>1. /\ worker[o] = "check" /\ lister # "exited" /\ Go(o, "get")
            /\ troubled' = troubled \cup {o} /\ UNCHANGED <<runVars, uploadVars, stats>>
        BY <3>2 DEF CheckFails, At
      <4>2. (file[targetURI(o)] = o => before[targetURI(o)] = o) /\ faults' \in 0..MaxFaults
        BY <1>0, <3>2, <4>1, FaultType DEF Goroutine, CheckFails
      <4>3. QED
        BY <4>1, <4>2 DEF BusyAt
    <3>3. CASE GetObject(o)
      <4>1. /\ worker[o] = "get" /\ lister # "exited"
            /\ Go(o, IF Size[o] < simpleUploadMaxBytes THEN "simple" ELSE "session")
            /\ UNCHANGED <<runVars, uploadVars, stats, troubled, faults>>
        BY <3>3 DEF GetObject, At
      <4>2. /\ file[targetURI(o)] = o => before[targetURI(o)] = o
            /\ before[targetURI(o)] = Absent \/ o \in troubled
            /\ faults' \in 0..MaxFaults
        BY <1>0, <4>1 DEF Goroutine, TypeOK
      <4>3. PICK to \in {"simple", "session"} :
              /\ to = IF Size[o] < simpleUploadMaxBytes THEN "simple" ELSE "session"
              /\ to = "session" => Size[o] >= simpleUploadMaxBytes
        BY <1>0, CopyAssumption
      <4>4. Go(o, to) /\ to \in BusyAt /\ to \in {"get", "simple", "session"}
        BY <4>1, <4>3 DEF BusyAt
      <4>5. QED
        BY <4>1, <4>2, <4>3, <4>4 DEF BusyAt
    <3>4. QED
      BY <1>2, <3>1, <3>2, <3>3
  <2>2. Moves(o, to) /\ permits' = permits /\ worker'[o] = to
    BY <1>0, <2>1 DEF Moves, Go, BusyAt, TypeOK
  <2>3. /\ OnlyAbout(o) /\ UNCHANGED stats /\ UNCHANGED <<chunkSize, sent, taken>>
        /\ file' = file /\ before' = before /\ dryRun' = dryRun /\ errors' = errors
    BY <2>1 DEF OnlyAbout, runVars, uploadVars, stats
  <2>4. /\ chunkSize' \in [Object -> Nat] /\ sent' \in [Object -> Nat]
        /\ taken' \in [Object -> Nat] /\ sent'[o] <= Size[o] /\ taken'[o] <= Size[o]
        /\ \A q \in Object \ {o} : sent'[q] = sent[q] /\ taken'[q] = taken[q]
    BY <1>0, <2>3 DEF TypeOK
  <2>5. Goroutine(o)'
    BY <1>0, <2>1, <2>2, <2>3 DEF Goroutine
  <2>6. QED
    BY <2>1, <2>2, <2>3, <2>4, <2>5, GoesOn
<1>3. QED
  BY <1>1, <1>2
\* The next chunk is a part of what remains, and so Cloudreve has no more than
\* the whole file, and the file once it has the whole.
LEMMA ChunkFits ==
  ASSUME TypeOK, NEW o \in File, Goroutine(o), worker[o] = "chunks", sent[o] < Size[o]
  PROVE  /\ ThisChunk(o) \in Nat
         /\ sent[o] + ThisChunk(o) \in Nat /\ sent[o] + ThisChunk(o) <= Size[o]
         /\ taken[o] = sent[o]
<1>1. /\ Size[o] \in Nat /\ sent[o] \in Nat /\ chunkSize[o] \in Nat
  BY CopyAssumption DEF TypeOK, File
<1>2. ThisChunk(o) \in Nat /\ ThisChunk(o) <= Size[o] - sent[o]
  BY <1>1 DEF ThisChunk
<1>3. taken[o] = sent[o]
  BY DEF Goroutine
<1>4. QED
  BY <1>1, <1>2, <1>3

\* Cloudreve takes a chunk.
LEMMA TakesType ==
  ASSUME TypeOK, NEW o \in File, NEW chunk \in Nat, Takes(o, chunk),
         taken[o] + chunk \in Nat, taken[o] + chunk <= Size[o]
  PROVE  /\ taken' \in [Object -> Nat] /\ taken'[o] = taken[o] + chunk
         /\ taken'[o] <= Size[o]
         /\ \A q \in Object \ {o} : taken'[q] = taken[q]
         /\ file' \in {file, With(o)}
         /\ taken'[o] = Size[o] => file'[targetURI(o)] # Absent
<1>1. o \in Object /\ o # Absent /\ targetURI(o) \in Uri
  BY CopyAssumption DEF File, Uri
<1>2. With(o)[targetURI(o)] # Absent
  BY <1>1 DEF With
<1>3. QED
  BY <1>1, <1>2 DEF Takes, TypeOK

\* copyObject returns an error, whatever became of the upload.
LEMMA CopyFailsStep ==
  ASSUME IInv, NEW o \in File, worker[o] \in BusyAt, lister # "exited",
         CopyFails(o), Fault, UNCHANGED <<chunkSize, sent>>,
         file' \in {file, With(o)},
         taken' \in [Object -> Nat], taken'[o] <= Size[o],
         \A q \in Object \ {o} : taken'[q] = taken[q]
  PROVE  IInv'
<1>0. /\ TypeOK /\ PermitsKept /\ ForeignKept /\ Goroutines
      /\ Listing /\ AllCounted /\ UploadsCounted
      /\ Goroutine(o) /\ o \in Object
  BY DEF IInv, Goroutines, File
<1>1. /\ Returns(o) /\ UNCHANGED runVars /\ troubled' = troubled \cup {o}
      /\ errors' = errors + 1 /\ uploaded' = uploaded /\ skipped' = skipped
  BY DEF CopyFails
<1>2. OnlyAbout(o) /\ o \in troubled' /\ errors' > 0
  BY <1>0, <1>1 DEF OnlyAbout, runVars, TypeOK
<1>3. /\ uploaded' \in Nat /\ skipped' \in Nat /\ errors' \in Nat
      /\ uploaded' + skipped' + errors' = uploaded + skipped + errors + 1
  BY <1>0, <1>1 DEF TypeOK
<1>4. faults' \in 0..MaxFaults
  BY <1>0, FaultType
<1>5. QED
  BY <1>1, <1>2, <1>3, <1>4, Ends

\* copyObject returns nil, with the file in Cloudreve.
LEMMA CopySucceedsStep ==
  ASSUME IInv, NEW o \in File, worker[o] \in {"simple", "chunks"}, lister # "exited",
         CopySucceeds(o), UNCHANGED <<chunkSize, sent, taken>>,
         file' \in {file, With(o)}, file'[targetURI(o)] # Absent
  PROVE  IInv'
<1>0. /\ TypeOK /\ PermitsKept /\ ForeignKept /\ Goroutines
      /\ Listing /\ AllCounted /\ UploadsCounted
      /\ Goroutine(o) /\ o \in Object
  BY DEF IInv, Goroutines, File
<1>1. /\ Returns(o) /\ UNCHANGED runVars /\ troubled' = troubled /\ faults' = faults
      /\ uploaded' = uploaded + 1 /\ errors' = errors /\ skipped' = skipped
  BY DEF CopySucceeds
<1>2. OnlyAbout(o) /\ worker[o] \in BusyAt
  BY <1>1 DEF OnlyAbout, runVars, BusyAt
<1>3. /\ uploaded' \in Nat /\ skipped' \in Nat /\ errors' \in Nat
      /\ uploaded' + skipped' + errors' = uploaded + skipped + errors + 1
      /\ faults' \in 0..MaxFaults
  BY <1>0, <1>1 DEF TypeOK
<1>4. before[targetURI(o)] = Absent \/ o \in troubled
  BY <1>0 DEF Goroutine
<1>5. taken' \in [Object -> Nat] /\ taken'[o] <= Size[o] /\ taken' = taken
  BY <1>0 DEF TypeOK
<1>6. QED
  BY <1>1, <1>2, <1>3, <1>4, <1>5, Ends

\* The upload in one request.
LEMMA SimpleStep ==
  ASSUME IInv, NEW o \in File, SimpleUpload(o) \/ SimpleUploadFails(o) \/ PrepareFails(o)
  PROVE  IInv'
<1>0. /\ TypeOK /\ PermitsKept /\ ForeignKept /\ Goroutines
      /\ Listing /\ AllCounted /\ UploadsCounted
      /\ Goroutine(o) /\ o \in Object
  BY DEF IInv, Goroutines, File
<1>1. CASE SimpleUpload(o)
  <2>1. /\ worker[o] = "simple" /\ lister # "exited"
        /\ file' = With(o) /\ o # Absent /\ targetURI(o) \in Uri
    BY <1>0, <1>1, CopyAssumption DEF SimpleUpload, At, Uri
  <2>2. QED
    BY <1>1, <2>1, CopySucceedsStep DEF SimpleUpload, With
<1>2. CASE SimpleUploadFails(o)
  <2>1. worker[o] \in BusyAt /\ lister # "exited" /\ UNCHANGED <<chunkSize, sent, taken>>
    BY <1>2 DEF SimpleUploadFails, At, BusyAt
  <2>2. taken' \in [Object -> Nat] /\ taken'[o] <= Size[o] /\ taken' = taken
    BY <1>0, <2>1 DEF TypeOK
  <2>3. QED
    BY <1>2, <2>1, <2>2, CopyFailsStep DEF SimpleUploadFails
<1>3. CASE PrepareFails(o)
  <2>1. worker[o] \in BusyAt /\ lister # "exited" /\ UNCHANGED <<chunkSize, sent, taken, file>>
    BY <1>3 DEF PrepareFails, At, BusyAt, uploadVars
  <2>2. taken' \in [Object -> Nat] /\ taken'[o] <= Size[o] /\ taken' = taken
    BY <1>0, <2>1 DEF TypeOK
  <2>3. QED
    BY <1>3, <2>1, <2>2, CopyFailsStep DEF PrepareFails
<1>4. QED
  BY <1>1, <1>2, <1>3

\* chunkedUpload: its session, its chunks and its end.
LEMMA ChunkStep ==
  ASSUME IInv, NEW o \in File,
         CreateUploadSession(o) \/ UploadChunk(o) \/ UploadChunkFails(o) \/ ChunksDone(o)
  PROVE  IInv'
<1>0. /\ TypeOK /\ PermitsKept /\ ForeignKept /\ Goroutines
      /\ Listing /\ AllCounted /\ UploadsCounted
      /\ Goroutine(o) /\ o \in Object
  BY DEF IInv, Goroutines, File
<1>1. CASE CreateUploadSession(o)
  <2>1. /\ worker[o] = "session" /\ lister # "exited" /\ Go(o, "chunks")
        /\ UNCHANGED <<runVars, file, stats, troubled, faults>>
    BY <1>1 DEF CreateUploadSession, At
  <2>2. Moves(o, "chunks") /\ permits' = permits /\ worker'[o] = "chunks"
    BY <1>0, <2>1 DEF Moves, Go, TypeOK
  <2>3. chunkSize' \in [Object -> Nat]
    <3>1. PICK given \in ServerChunkSize : chunkSize' = [chunkSize EXCEPT ![o] = ChunkOf(o, given)]
      BY <1>1 DEF CreateUploadSession
    <3>2. ChunkOf(o, given) \in Nat
      BY <1>0, CopyAssumption DEF ChunkOf
    <3>3. QED
      BY <1>0, <3>1, <3>2 DEF TypeOK
  <2>4. /\ sent' = [sent EXCEPT ![o] = 0] /\ taken' = [taken EXCEPT ![o] = 0]
    BY <1>1 DEF CreateUploadSession
  <2>5. /\ sent' \in [Object -> Nat] /\ taken' \in [Object -> Nat]
        /\ sent'[o] = 0 /\ taken'[o] = 0
        /\ \A q \in Object \ {o} : sent'[q] = sent[q] /\ taken'[q] = taken[q]
    BY <1>0, <2>4 DEF TypeOK
  <2>6. Size[o] \in Nat /\ Size[o] # 0
    BY <1>0, <2>1, CopyAssumption DEF Goroutine
  <2>7. /\ OnlyAbout(o) /\ file' = file /\ before' = before
        /\ troubled' = troubled /\ errors' = errors
    BY <2>1 DEF OnlyAbout, runVars, stats
  <2>8. Goroutine(o)'
    BY <1>0, <2>1, <2>2, <2>5, <2>6, <2>7 DEF Goroutine
  <2>9. sent'[o] <= Size[o] /\ taken'[o] <= Size[o] /\ faults' \in 0..MaxFaults
    BY <1>0, <2>1, <2>5, <2>6 DEF TypeOK
  <2>10. "chunks" \in BusyAt /\ worker[o] \in BusyAt /\ UNCHANGED stats
    BY <2>1 DEF BusyAt
  <2>11. QED
    BY <2>2, <2>3, <2>5, <2>7, <2>8, <2>9, <2>10, GoesOn
<1>2. CASE UploadChunk(o)
  <2>1. /\ worker[o] = "chunks" /\ lister # "exited" /\ sent[o] < Size[o]
        /\ UNCHANGED <<runVars, worker, permits, chunkSize, stats, troubled, faults>>
    BY <1>2 DEF UploadChunk, At
  <2>2. PICK chunk \in Nat :
          /\ chunk = ThisChunk(o)
          /\ sent[o] + chunk \in Nat /\ sent[o] + chunk <= Size[o] /\ taken[o] = sent[o]
    BY <1>0, <2>1, ChunkFits
  <2>3. Takes(o, chunk) /\ sent' = [sent EXCEPT ![o] = @ + chunk]
    BY <1>2, <2>2 DEF UploadChunk
  <2>4. /\ taken' \in [Object -> Nat] /\ taken'[o] = taken[o] + chunk
        /\ taken'[o] <= Size[o]
        /\ \A q \in Object \ {o} : taken'[q] = taken[q]
        /\ file' \in {file, With(o)}
        /\ taken'[o] = Size[o] => file'[targetURI(o)] # Absent
    BY <1>0, <2>2, <2>3, TakesType
  <2>5. /\ sent' \in [Object -> Nat] /\ sent'[o] = sent[o] + chunk
        /\ \A q \in Object \ {o} : sent'[q] = sent[q]
    BY <1>0, <2>2, <2>3 DEF TypeOK
  <2>6. sent'[o] = taken'[o] /\ sent'[o] <= Size[o]
    BY <2>2, <2>4, <2>5
  <2>7. worker' = [worker EXCEPT ![o] = "chunks"]
    BY <1>0, <2>1 DEF TypeOK
  <2>8. Moves(o, "chunks") /\ permits' = permits /\ worker'[o] = "chunks" /\ UNCHANGED stats
    BY <2>1, <2>7 DEF Moves
  <2>9. OnlyAbout(o) /\ before' = before /\ troubled' = troubled /\ errors' = errors
    BY <2>1, <2>4 DEF OnlyAbout, runVars, stats
  <2>10. Goroutine(o)'
    BY <1>0, <2>1, <2>4, <2>6, <2>8, <2>9 DEF Goroutine
  <2>11. chunkSize' \in [Object -> Nat] /\ faults' \in 0..MaxFaults
    BY <1>0, <2>1 DEF TypeOK
  <2>12. "chunks" \in BusyAt /\ worker[o] \in BusyAt
    BY <2>1 DEF BusyAt
  <2>13. QED
    BY <2>4, <2>5, <2>6, <2>8, <2>9, <2>10, <2>11, <2>12, GoesOn
<1>3. CASE UploadChunkFails(o)
  <2>1. /\ worker[o] = "chunks" /\ lister # "exited" /\ sent[o] < Size[o]
        /\ CopyFails(o) /\ Fault /\ UNCHANGED <<chunkSize, sent>> /\ worker[o] \in BusyAt
    BY <1>3 DEF UploadChunkFails, At, BusyAt
  <2>2. PICK chunk \in Nat :
          /\ chunk = ThisChunk(o)
          /\ sent[o] + chunk \in Nat /\ sent[o] + chunk <= Size[o] /\ taken[o] = sent[o]
    BY <1>0, <2>1, ChunkFits
  <2>3. Takes(o, chunk) \/ UNCHANGED <<taken, file>>
    BY <1>3, <2>2 DEF UploadChunkFails
  <2>4. /\ taken' \in [Object -> Nat] /\ taken'[o] <= Size[o]
        /\ \A q \in Object \ {o} : taken'[q] = taken[q]
        /\ file' \in {file, With(o)}
    <3>1. CASE Takes(o, chunk)
      BY <1>0, <2>2, <3>1, TakesType
    <3>2. CASE UNCHANGED <<taken, file>>
      BY <1>0, <3>2 DEF TypeOK
    <3>3. QED
      BY <2>3, <3>1, <3>2
  <2>5. QED
    BY <2>1, <2>4, CopyFailsStep
<1>4. CASE ChunksDone(o)
  <2>1. /\ worker[o] = "chunks" /\ lister # "exited" /\ sent[o] = Size[o]
        /\ CopySucceeds(o) /\ UNCHANGED <<chunkSize, sent, taken, file>>
    BY <1>4 DEF ChunksDone, At, uploadVars
  <2>2. file'[targetURI(o)] # Absent
    BY <1>0, <2>1 DEF Goroutine
  <2>3. QED
    BY <2>1, <2>2, CopySucceedsStep
<1>5. QED
  BY <1>1, <1>2, <1>3, <1>4
-----------------------------------------------------------------------------
(* The steps of copyAll and main.                                          *)

\* Before the first run nothing was copied and no goroutine exists.
LEMMA InitIInv == Init => IInv
<1> SUFFICES ASSUME Init PROVE IInv
  OBVIOUS
<1>1. /\ lister = "exited" /\ page = 1 /\ dryRun = FALSE /\ permits = Concurrency
      /\ worker = [o \in Object |-> "idle"]
      /\ chunkSize = [o \in Object |-> 0] /\ sent = [o \in Object |-> 0]
      /\ taken = [o \in Object |-> 0]
      /\ uploaded = 0 /\ skipped = 0 /\ errors = 0
      /\ file \in [Uri -> {Absent, Foreign}] /\ before = file /\ troubled = {} /\ listed = FALSE
      /\ runs = 0 /\ faults = 0
  BY DEF Init
<1>2. TypeOK
  <2>1. /\ worker \in [Object -> Location] /\ chunkSize \in [Object -> Nat]
        /\ sent \in [Object -> Nat] /\ taken \in [Object -> Nat]
        /\ \A o \in Object : sent[o] <= Size[o] /\ taken[o] <= Size[o]
    BY <1>1, CopyAssumption DEF Location
  <2>2. /\ page \in 1..Pages /\ permits \in 0..Concurrency
        /\ runs \in 0..MaxRuns /\ faults \in 0..MaxFaults
    BY <1>1, CopyAssumption
  <2>3. /\ file \in [Uri -> File \cup {Absent, Foreign}]
        /\ \A t \in Uri : file[t] \notin File
    BY <1>1, CopyAssumption DEF File
  <2>4. QED
    BY <1>1, <2>1, <2>2, <2>3 DEF TypeOK
<1>3. Busy = {} /\ Finished = {} /\ Added = {} /\ Fresh = {}
  BY <1>1 DEF Busy, Finished, Added, Fresh, File
<1>4. PermitsKept /\ UploadsCounted
  BY <1>1, <1>3, FS_EmptySet, CopyAssumption DEF PermitsKept, UploadsCounted
<1>5. Goroutines /\ ForeignKept
  BY <1>1 DEF Goroutines, Goroutine, ForeignKept, File
<1>6. Listing /\ AllCounted
  BY <1>1 DEF Listing, AllCounted
<1>7. QED
  BY <1>2, <1>4, <1>5, <1>6 DEF IInv

\* A new run starts over what Cloudreve holds.
LEMMA RunStep == ASSUME IInv, Run PROVE IInv'
<1>0. /\ TypeOK /\ PermitsKept /\ ForeignKept /\ Goroutines
      /\ Listing /\ AllCounted /\ UploadsCounted
  BY DEF IInv
<1>1. /\ lister' = "listing" /\ page' = 1 /\ dryRun' \in BOOLEAN /\ permits' = Concurrency
      /\ worker' = [o \in Object |-> "idle"]
      /\ chunkSize' = [o \in Object |-> 0] /\ sent' = [o \in Object |-> 0]
      /\ taken' = [o \in Object |-> 0]
      /\ uploaded' = 0 /\ skipped' = 0 /\ errors' = 0
      /\ file' = file /\ before' = file /\ troubled' = {} /\ listed' = FALSE
      /\ runs' = runs + 1 /\ runs < MaxRuns /\ faults' = faults
  BY DEF Run, StartRun
<1>2. TypeOK'
  <2>1. /\ worker' \in [Object -> Location] /\ chunkSize' \in [Object -> Nat]
        /\ sent' \in [Object -> Nat] /\ taken' \in [Object -> Nat]
        /\ \A o \in Object : sent'[o] <= Size[o] /\ taken'[o] <= Size[o]
    BY <1>1, CopyAssumption DEF Location
  <2>2. /\ page' \in 1..Pages /\ permits' \in 0..Concurrency
        /\ runs' \in 0..MaxRuns /\ faults' \in 0..MaxFaults
    BY <1>0, <1>1, CopyAssumption DEF TypeOK
  <2>3. /\ file' \in [Uri -> File \cup {Absent, Foreign}]
        /\ before' \in [Uri -> File \cup {Absent, Foreign}]
        /\ \A t \in Uri : file'[t] \in File => targetURI(file'[t]) = t
    BY <1>0, <1>1 DEF TypeOK
  <2>4. QED
    BY <1>1, <2>1, <2>2, <2>3 DEF TypeOK
<1>3. Busy' = {} /\ Finished' = {} /\ Added' = {} /\ Fresh' = {}
  BY <1>1 DEF Busy, Finished, Added, Fresh, File
<1>4. Seen' = {}
  BY <1>1, FolderKeys, CopyAssumption DEF Seen
<1>5. PermitsKept' /\ UploadsCounted' /\ AllCounted'
  BY <1>1, <1>3, <1>4, FS_EmptySet, CopyAssumption
     DEF PermitsKept, UploadsCounted, AllCounted
<1>6. Goroutines' /\ ForeignKept'
  BY <1>1 DEF Goroutines, Goroutine, ForeignKept, File
<1>7. Listing'
  BY <1>1, CopyAssumption DEF Listing, File
<1>8. QED
  BY <1>2, <1>5, <1>6, <1>7 DEF IInv

\* A page gives its files goroutines and counts its folders.
LEMMA ListPageStep == ASSUME IInv, ListPage PROVE IInv'
<1>0. /\ TypeOK /\ PermitsKept /\ ForeignKept /\ Goroutines
      /\ Listing /\ AllCounted /\ UploadsCounted
  BY DEF IInv
<1> DEFINE here == {o \in Object : PageOf[o] = page}
           folders == {o \in Folder : PageOf[o] = page}
<1>1. /\ lister = "listing" /\ skipped' = skipped + Cardinality(here \cap Folder)
      /\ worker' = [o \in Object |-> IF o \in here \ Folder THEN "queued" ELSE worker[o]]
      /\ IF page = Pages
           THEN lister' = "waiting" /\ listed' = TRUE /\ UNCHANGED page
           ELSE page' = page + 1 /\ UNCHANGED <<lister, listed>>
      /\ UNCHANGED <<dryRun, before, runs, permits, uploadVars, uploaded, errors,
                     troubled, faults>>
  BY DEF ListPage
<1>2. here \cap Folder = folders /\ folders \in SUBSET Object
  BY FolderKeys
<1>3. /\ page \in Nat /\ Pages \in Nat /\ page <= Pages
      /\ \A o \in Object : PageOf[o] \in Nat /\ PageOf[o] <= Pages
  BY <1>0, CopyAssumption DEF TypeOK
<1>4. ASSUME NEW o \in File
      PROVE  /\ o \in Object
             /\ PageOf[o] = page => worker[o] = "idle" /\ worker'[o] = "queued"
             /\ PageOf[o] # page => worker'[o] = worker[o]
  BY <1>0, <1>1, <1>3 DEF Listing, File
<1> HIDE DEF here
<1>5. /\ UNCHANGED <<dryRun, before, runs, permits, chunkSize, sent, taken, file, uploaded,
                      errors, troubled, faults>>
  BY <1>1 DEF uploadVars
<1>6. Busy' = Busy /\ Finished' = Finished
  BY <1>4 DEF Busy, Finished
<1>7. Added' = Added /\ Fresh' = Fresh
  BY <1>5, <1>6 DEF Added, Fresh
<1>8. PermitsKept' /\ UploadsCounted' /\ ForeignKept'
  BY <1>0, <1>5, <1>6, <1>7 DEF PermitsKept, UploadsCounted, ForeignKept
<1>9. Cardinality(folders) \in Nat /\ skipped' = skipped + Cardinality(folders)
  BY <1>1, <1>2, Counting
<1>10. TypeOK'
  <2>1. worker' \in [Object -> Location]
    BY <1>0, <1>1 DEF TypeOK, Location
  <2>2. page' \in 1..Pages /\ listed' \in BOOLEAN /\ lister' \in {"listing", "waiting"}
    <3>1. CASE page = Pages
      BY <1>0, <1>1, <3>1 DEF TypeOK
    <3>2. CASE page # Pages
      <4>1. page' = page + 1 /\ lister' = lister /\ listed' = listed
        BY <1>1, <3>2
      <4>2. page' \in 1..Pages
        BY <1>0, <1>3, <3>2, <4>1 DEF TypeOK
      <4>3. QED
        BY <1>0, <1>1, <4>1, <4>2 DEF TypeOK
    <3>3. QED
      BY <3>1, <3>2
  <2>3. skipped' \in Nat
    BY <1>0, <1>9 DEF TypeOK
  <2>4. QED
    BY <1>0, <1>5, <2>1, <2>2, <2>3 DEF TypeOK
<1>11. Goroutines'
  <2>1. ASSUME NEW o \in File PROVE Goroutine(o)'
    <3>1. Goroutine(o)
      BY <1>0 DEF Goroutines
    <3>2. CASE PageOf[o] = page
      BY <1>4, <1>5, <3>1, <3>2 DEF Goroutine
    <3>3. CASE PageOf[o] # page
      BY <1>4, <1>5, <3>1, <3>3 DEF Goroutine
    <3>4. QED
      BY <3>2, <3>3
  <2>2. QED
    BY <2>1 DEF Goroutines
<1>12. ~listed /\ \A o \in File : worker[o] = "idle" <=> PageOf[o] >= page
  BY <1>0, <1>1 DEF Listing
<1>13. Listing'
  <2>1. CASE page = Pages
    <3>1. \A o \in File : worker'[o] # "idle"
      <4>1. ASSUME NEW o \in File PROVE worker'[o] # "idle"
        <5>1. CASE PageOf[o] = page
          BY <1>4, <5>1
        <5>2. CASE PageOf[o] # page
          BY <1>3, <1>4, <1>12, <2>1, <5>2
        <5>3. QED
          BY <5>1, <5>2
      <4>2. QED
        BY <4>1
    <3>2. QED
      BY <1>1, <2>1, <3>1 DEF Listing
  <2>2. CASE page # Pages
    <3>1. \A o \in File : worker'[o] = "idle" <=> PageOf[o] >= page + 1
      BY <1>3, <1>4, <1>12
    <3>2. QED
      BY <1>1, <1>12, <2>2, <3>1 DEF Listing
  <2>3. QED
    BY <2>1, <2>2
<1>14. AllCounted'
  <2>1. Seen' = Seen \cup folders
    <3>1. CASE page = Pages
      BY <1>1, <1>3, <1>12, <3>1, FolderKeys DEF Seen
    <3>2. CASE page # Pages
      BY <1>1, <1>3, <1>12, <3>2, FolderKeys DEF Seen
    <3>3. QED
      BY <3>1, <3>2
  <2>2. Seen \cap folders = {}
    BY <1>3, <1>12, CopyAssumption DEF Seen
  <2> HIDE DEF folders
  <2>3. Cardinality(Seen') = Cardinality(Seen) + Cardinality(folders)
    BY <1>2, <2>1, <2>2, Apart, CountedSets
  <2>4. Cardinality(Seen) \in Nat /\ Cardinality(Finished) \in Nat
    BY Counting, CountedSets
  <2>5. uploaded \in Nat /\ skipped \in Nat /\ errors \in Nat
    BY <1>0 DEF TypeOK
  <2>6. ~dryRun => uploaded + skipped + errors = Cardinality(Finished) + Cardinality(Seen)
    BY <1>0, <1>1 DEF AllCounted
  <2>7. ~dryRun => uploaded + skipped' + errors = Cardinality(Finished) + Cardinality(Seen')
    BY <1>9, <2>3, <2>4, <2>5, <2>6
  <2>8. QED
    BY <1>5, <1>6, <2>7 DEF AllCounted
<1>15. QED
  BY <1>8, <1>10, <1>11, <1>13, <1>14 DEF IInv

\* The listing fails, copyAll has waited, or main exits: goroutines stay where
\* they are.
LEMMA MainStep == ASSUME IInv, ListFails \/ WaitReturns \/ Exit PROVE IInv'
<1>0. /\ TypeOK /\ PermitsKept /\ ForeignKept /\ Goroutines
      /\ Listing /\ AllCounted /\ UploadsCounted
  BY DEF IInv
<1>1. UNCHANGED <<page, dryRun, before, listed, runs, worker, permits, chunkSize, sent, taken,
                  file, uploaded, skipped, troubled>>
  BY DEF ListFails, WaitReturns, Exit, uploadVars, stats
<1>2. Busy' = Busy /\ Finished' = Finished /\ Seen' = Seen
  BY <1>1 DEF Busy, Finished, Seen
<1>3. Added' = Added /\ Fresh' = Fresh
  BY <1>1, <1>2 DEF Added, Fresh
<1>4. PermitsKept' /\ UploadsCounted' /\ ForeignKept'
  BY <1>0, <1>1, <1>2, <1>3 DEF PermitsKept, UploadsCounted, ForeignKept
<1>5. Goroutines'
  <2>1. errors > 0 => errors' > 0
    BY <1>0 DEF ListFails, WaitReturns, Exit, stats, TypeOK
  <2>2. QED
    BY <1>0, <1>1, <2>1 DEF Goroutines, Goroutine
<1>6. CASE ListFails
  <2>1. /\ lister = "listing" /\ lister' = "reporting" /\ errors' = errors + 1
        /\ faults' \in 0..MaxFaults /\ ~listed
    BY <1>0, <1>6, FaultType DEF ListFails, Listing
  <2>2. TypeOK'
    BY <1>0, <1>1, <2>1 DEF TypeOK
  <2>3. Listing' /\ AllCounted'
    BY <1>1, <2>1 DEF Listing, AllCounted
  <2>4. QED
    BY <1>4, <1>5, <2>2, <2>3 DEF IInv
<1>7. CASE WaitReturns
  <2>1. /\ lister = "waiting" /\ lister' = "reporting" /\ errors' = errors /\ faults' = faults
        /\ \A o \in Object : worker[o] \in {"idle", "done"}
    BY <1>7 DEF WaitReturns, stats
  <2>2. TypeOK' /\ AllCounted'
    BY <1>0, <1>1, <1>2, <2>1 DEF TypeOK, AllCounted
  <2>3. Listing'
    BY <1>0, <1>1, <2>1 DEF Listing, File
  <2>4. QED
    BY <1>4, <1>5, <2>2, <2>3 DEF IInv
<1>8. CASE Exit
  <2>1. /\ lister = "reporting" /\ lister' = "exited" /\ errors' = errors /\ faults' = faults
    BY <1>8 DEF Exit, stats
  <2>2. TypeOK' /\ AllCounted'
    BY <1>0, <1>1, <1>2, <2>1 DEF TypeOK, AllCounted
  <2>3. Listing'
    BY <1>0, <1>1, <2>1 DEF Listing
  <2>4. QED
    BY <1>4, <1>5, <2>2, <2>3 DEF IInv
<1>9. QED
  BY <1>6, <1>7, <1>8

\* Every step of main and of the goroutines, faults included, keeps the
\* invariant.
LEMMA NextIInv == IInv /\ [Next]_vars => IInv'
<1> SUFFICES ASSUME IInv, [Next]_vars PROVE IInv'
  OBVIOUS
<1>1. ASSUME NEW o \in File, WorkerStep(o) \/ WorkerFault(o) PROVE IInv'
  BY <1>1, AcquireStep, CheckStep, SimpleStep, ChunkStep DEF WorkerStep, WorkerFault
<1>2. CASE UNCHANGED vars
  <2>1. UNCHANGED <<lister, page, dryRun, before, listed, runs, worker, permits, chunkSize, sent,
                    taken, file, uploaded, skipped, errors, troubled, faults>>
    BY <1>2 DEF vars, runVars, uploadVars, stats
  <2>2. Busy' = Busy /\ Finished' = Finished /\ Seen' = Seen
    BY <2>1 DEF Busy, Finished, Seen
  <2>3. Added' = Added /\ Fresh' = Fresh
    BY <2>1, <2>2 DEF Added, Fresh
  <2>4. TypeOK' /\ PermitsKept' /\ ForeignKept' /\ UploadsCounted' /\ Listing' /\ AllCounted'
    BY <2>1, <2>2, <2>3
       DEF IInv, TypeOK, PermitsKept, ForeignKept, UploadsCounted, Listing, AllCounted
  <2>5. Goroutines'
    BY <2>1 DEF IInv, Goroutines, Goroutine
  <2>6. QED
    BY <2>4, <2>5 DEF IInv
<1>3. QED
  BY <1>1, <1>2, RunStep, ListPageStep, MainStep DEF Next

-----------------------------------------------------------------------------
(* The theorems.                                                           *)

\* The invariant holds in every state of every behaviour.
LEMMA Invariant == Spec => []IInv
  BY InitIInv, NextIInv, PTL DEF Spec

\* The state of a run keeps its types; in particular the semaphore never has
\* more permits than --concurrency and no chunk goes past the end of a file.
THEOREM CopyTypeCorrect == Spec => []TypeOK
<1>1. IInv => TypeOK
  BY DEF IInv
<1>2. QED
  BY <1>1, Invariant, PTL

\* A run that reports no errors leaves under every target a complete object with
\* that target, where nothing else was and no folder was needed, for every bucket
\* and prefix, colliding keys included, and any paging, size, chunk size and
\* concurrency.
THEOREM CleanRunCopiesAllAlways == Spec => []CleanRunCopiesAll
<1>1. IInv => CleanRunCopiesAll
  <2> SUFFICES ASSUME IInv, lister = "exited", listed, ~dryRun, errors = 0, NEW t \in Uri
               PROVE  \/ file[t] \in {o \in File : targetURI(o) = t}
                      \/ /\ file[t] = Foreign
                         /\ \/ before[t] = Foreign
                            \/ \E u \in Uri : IsFolderOf(t, u) /\ file[u] # Absent
    BY DEF CleanRunCopiesAll
  <2>1. PICK o \in File : t = targetURI(o)
    BY DEF Uri
  <2>2. worker[o] = "done" /\ Goroutine(o)
    BY DEF IInv, Listing, Goroutines
  <2>3. file[t] # Absent
    BY <2>1, <2>2 DEF Goroutine
  <2>4. CASE file[t] \in File
    BY <2>4 DEF IInv, TypeOK
  <2>5. CASE file[t] = Foreign
    BY <2>5 DEF IInv, ForeignKept
  <2>6. QED
    BY <2>3, <2>4, <2>5 DEF IInv, TypeOK
<1>2. QED
  BY <1>1, Invariant, PTL

\* What main prints adds up: "uploaded" counts all that this run brought to its
\* target and nothing whose target was there before, but for objects a failed
\* request concerned, for every bucket and any number of runs and faults.
THEOREM CountsAddUpAlways == Spec => []CountsAddUp
<1>1. IInv => CountsAddUp
  <2> DEFINE added == {o \in File \ troubled :
                        file[targetURI(o)] = o /\ before[targetURI(o)] # o}
             fresh == {o \in File : before[targetURI(o)] = Absent \/ o \in troubled}
  <2> SUFFICES ASSUME IInv, lister = "exited", listed
               PROVE  /\ ~dryRun => uploaded + skipped + errors = Cardinality(Object)
                      /\ uploaded >= Cardinality(added)
                      /\ uploaded <= Cardinality(fresh)
    BY DEF CountsAddUp
  <2>1. \A o \in File : worker[o] = "done"
    BY DEF IInv, Listing
  <2>2. Finished = File /\ Seen = Folder
    BY <2>1 DEF Finished, Seen
  <2>3. Added = added /\ Fresh = fresh
    BY <2>2 DEF Added, Fresh
  <2>4. ~dryRun => uploaded + skipped + errors = Cardinality(Object)
    <3>1. File \cup Folder = Object /\ File \cap Folder = {}
          /\ File \in SUBSET Object /\ Folder \in SUBSET Object
      BY DEF File, Folder
    <3>2. Cardinality(Object) = Cardinality(File) + Cardinality(Folder)
      BY <3>1, Apart
    <3>3. QED
      BY <2>2, <3>2 DEF IInv, AllCounted
  <2> HIDE DEF added, fresh
  <2>5. Cardinality(added) \in Nat /\ uploaded \in Nat
    BY <2>3, Counting, CountedSets DEF IInv, TypeOK
  <2>6. QED
    BY <2>3, <2>4, <2>5 DEF IInv, UploadsCounted
<1>2. QED
  BY <1>1, Invariant, PTL
=============================================================================
