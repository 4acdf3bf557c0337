------------------------------ MODULE Recovery ------------------------------
(***************************************************************************)
(* cmd/recovery: walkAndRecover lists a filer directory page by page and   *)
(* starts a goroutine per entry, ten at a time.  A subdirectory is walked  *)
(* in its goroutine.  A file whose read answers 500 has lost its data: it  *)
(* is restored from the newer or the older backup, or else renamed with a  *)
(* suffix that later listings skip.  The program may be run again.         *)
(*                                                                         *)
(* The counters it prints are left out: its goroutines add to plain        *)
(* integers, so every count is at most a lower bound.                      *)
(***************************************************************************)
EXTENDS Naturals, FiniteSetsExt

CONSTANTS
  File, Dir,   \* the entries of the filer
  Root,        \* the directory given by --base-path
  In,          \* the directory of each entry but Root
  Name,        \* the name of each entry, as its place in the order of names
  MarkedName,  \* the same for the name a file gets when it is marked missing
  Backup,      \* the snapshots of each file in the backup bucket
  PageSize,    \* entries of one answer of the filer
  Permits,     \* the weight of a walk's semaphore (10 in the code)
  MaxRuns,     \* BOUND: runs of the program
  MaxFaults    \* BOUND: failed requests

Snapshot == {"snapshot2", "snapshot"}

ASSUME RecoveryAssumption ==
  /\ Root \in Dir
  /\ File \cap Dir = {}
  /\ IsFiniteSet(File) /\ IsFiniteSet(Dir)
  /\ In \in [(File \cup Dir) \ {Root} -> Dir]
  \* The directories are a tree: a set of them without Root is not closed.
  /\ \A S \in (SUBSET (Dir \ {Root})) \ {{}} : \E d \in S : In[d] \notin S
  /\ Name \in [(File \cup Dir) \ {Root} -> Nat \ {0}]
  /\ MarkedName \in [File -> Nat]
  /\ \A f \in File : MarkedName[f] > Name[f]
  /\ Backup \in [File -> SUBSET Snapshot]
  /\ PageSize \in Nat \ {0}
  /\ Permits \in Nat \ {0}
  /\ MaxRuns \in Nat \ {0}
  /\ MaxFaults \in Nat

VARIABLES
  content,   \* what the filer has for a file: good, lost, or a snapshot
  marks,     \* how often a file's name got the suffix
  walk,      \* where walkAndRecover is in each directory
  last,      \* its lastFileName, 0: none
  more,      \* the filer has another page
  job,       \* the goroutine of each entry
  permits,   \* what is left of each semaphore
  dryRun,    \* the --dry-run flag of this run
  troubled,  \* files a failed request of some run concerned
  missedDirs,\* directories whose listing failed in this run
  runs,      \* runs so far
  faults     \* failed requests so far

filerVars == <<content, marks>>
walkVars == <<walk, last, more>>
runVars == <<dryRun, missedDirs, runs>>
vars == <<filerVars, walkVars, job, permits, runVars, troubled, faults>>

Entry == (File \cup Dir) \ {Root}

\* queued: before sema.Acquire.  snapshot2, snapshot: in tryRestore, about to
\* try that prefix.
Job == {"none", "queued", "walk", "check", "snapshot2", "snapshot", "mark", "done"}

TypeOK ==
  /\ content \in [File -> {"good", "lost"} \cup Snapshot]
  /\ marks \in [File -> Nat]
  /\ walk \in [Dir -> {"idle", "list", "page", "done"}]
  /\ last \in [Dir -> Nat]
  /\ more \in [Dir -> BOOLEAN]
  /\ job \in [Entry -> Job]
  /\ permits \in [Dir -> 0..Permits]
  /\ dryRun \in BOOLEAN
  /\ troubled \subseteq File
  /\ missedDirs \subseteq Dir
  /\ runs \in 0..MaxRuns
  /\ faults \in 0..MaxFaults

Init ==
  /\ content \in [File -> {"good", "lost"}]
  /\ marks = [f \in File |-> 0]
  /\ walk = [d \in Dir |-> IF d = Root THEN "list" ELSE "idle"]
  /\ last = [d \in Dir |-> 0]
  /\ more = [d \in Dir |-> FALSE]
  /\ job = [e \in Entry |-> "none"]
  /\ permits = [d \in Dir |-> Permits]
  /\ dryRun \in BOOLEAN
  /\ troubled = {}
  /\ missedDirs = {}
  /\ runs = 1
  /\ faults = 0

Fault == faults < MaxFaults /\ faults' = faults + 1

Ended == walk[Root] = "done"

\* The program is started again after it ended.
RunAgain ==
  /\ Ended
  /\ runs < MaxRuns
  /\ runs' = runs + 1
  /\ walk' = [d \in Dir |-> IF d = Root THEN "list" ELSE "idle"]
  /\ last' = [d \in Dir |-> 0]
  /\ more' = [d \in Dir |-> FALSE]
  /\ job' = [e \in Entry |-> "none"]
  /\ dryRun' \in BOOLEAN
  /\ missedDirs' = {}
  /\ UNCHANGED <<filerVars, permits, troubled, faults>>

-----------------------------------------------------------------------------
(* walkAndRecover.                                                         *)

\* The name under which the filer lists an entry.
NameOf(e) == IF e \in File /\ marks[e] > 0 THEN MarkedName[e] ELSE Name[e]

\* The entries of d after its lastFileName, and the first PageSize of them.
Rest(d) == {e \in Entry : In[e] = d /\ NameOf(e) > last[d]}
Page(d) == {e \in Rest(d) :
              Cardinality({g \in Rest(d) : NameOf(g) < NameOf(e)}) < PageSize}

\* Mutant: lastFileName is the name after the page's last one.
LastNamePlusOne(d) == IF Page(d) = {} THEN last[d]
                      ELSE Max({NameOf(e) : e \in Page(d)}) + 1

\* The LastFileName of an answer.
LastName(d) == IF Page(d) = {} THEN last[d] ELSE Max({NameOf(e) : e \in Page(d)})

\* listDirectory answers: a goroutine for every entry of the page.
List(d) ==
  /\ walk[d] = "list"
  /\ job' = [e \in Entry |-> IF e \in Page(d) THEN "queued" ELSE job[e]]
  /\ last' = [last EXCEPT ![d] = LastName(d)]
  /\ more' = [more EXCEPT ![d] = Rest(d) # Page(d)]
  /\ walk' = [walk EXCEPT ![d] = "page"]
  /\ UNCHANGED <<filerVars, permits, runVars, troubled, faults>>

\* listDirectory fails: this walk returns what it has.
ListFails(d) ==
  /\ Fault
  /\ walk[d] = "list"
  /\ walk' = [walk EXCEPT ![d] = "done"]
  /\ missedDirs' = missedDirs \cup {d}
  /\ UNCHANGED <<filerVars, last, more, job, permits, dryRun, runs, troubled>>

\* wg.Wait: all goroutines of the page have returned.
PageDone(d) ==
  /\ walk[d] = "page"
  /\ \A e \in Entry : In[e] = d => job[e] \in {"none", "done"}
  /\ walk' = [walk EXCEPT ![d] = IF more[d] THEN "list" ELSE "done"]
  /\ UNCHANGED <<filerVars, last, more, job, permits, runVars, troubled, faults>>

\* Mutant: one semaphore for the whole recovery.
SemaOfAll(e) == Root

\* The semaphore an entry's goroutine acquires: its walk's own.
Sema(e) == In[e]

Becomes(e, j) == job' = [job EXCEPT ![e] = j]
Returns(e) == Becomes(e, "done") /\ permits' = [permits EXCEPT ![Sema(e)] = @ + 1]

\* What a goroutine does with its entry: a marked file is skipped.
FirstStep(e) == IF e \in Dir THEN "walk"
                ELSE IF marks[e] > 0 THEN "done" ELSE "check"

\* sema.Acquire, and the walk of a subdirectory starts with its first page.
Acquire(e) ==
  /\ job[e] = "queued"
  /\ permits[Sema(e)] > 0
  /\ Becomes(e, FirstStep(e))
  /\ permits' = IF FirstStep(e) = "done" THEN permits
                ELSE [permits EXCEPT ![Sema(e)] = @ - 1]
  /\ walk' = IF e \in Dir THEN [walk EXCEPT ![e] = "list"] ELSE walk
  /\ last' = IF e \in Dir THEN [last EXCEPT ![e] = 0] ELSE last
  /\ UNCHANGED <<filerVars, more, runVars, troubled, faults>>

SubwalkReturns(d) ==
  /\ job[d] = "walk"
  /\ walk[d] = "done"
  /\ Returns(d)
  /\ UNCHANGED <<filerVars, walkVars, runVars, troubled, faults>>

-----------------------------------------------------------------------------
(* checkAndRecover, tryRestore, markMissing.                               *)

\* The file can be read.
Healthy(f) ==
  /\ job[f] = "check"
  /\ content[f] # "lost"
  /\ Returns(f)
  /\ UNCHANGED <<filerVars, walkVars, runVars, troubled, faults>>

\* The read answers 500: tryRestore begins with the newer snapshot.
DataLoss(f) ==
  /\ job[f] = "check"
  /\ content[f] = "lost"
  /\ Becomes(f, "snapshot2")
  /\ UNCHANGED <<filerVars, walkVars, permits, runVars, troubled, faults>>

\* The read fails or has another status: an error, and nothing is done.  Or the
\* filer answers 500 for a file it could read another time.
CheckFails(f) ==
  /\ Fault
  /\ job[f] = "check"
  /\ \/ Returns(f)
     \/ Becomes(f, "snapshot2") /\ UNCHANGED permits
  /\ troubled' = troubled \cup {f}
  /\ UNCHANGED <<filerVars, walkVars, runVars>>

\* The next prefix of tryRestore, or markMissing.
After(s) == IF s = "snapshot2" THEN "snapshot" ELSE "mark"

\* The snapshot is there: it is uploaded, but not in a dry run.
Restore(f, s) ==
  /\ job[f] = s
  /\ s \in Backup[f]
  /\ content' = IF dryRun THEN content ELSE [content EXCEPT ![f] = s]
  /\ Returns(f)
  /\ UNCHANGED <<marks, walkVars, runVars, troubled, faults>>

BackupNotFound(f, s) ==
  /\ job[f] = s
  /\ s \notin Backup[f]
  /\ Becomes(f, After(s))
  /\ UNCHANGED <<filerVars, walkVars, permits, runVars, troubled, faults>>

\* GetObject fails, which counts as "not found", or the upload does, applied or
\* not.
RestoreFails(f, s) ==
  /\ Fault
  /\ job[f] = s
  /\ s \in Backup[f]
  /\ content' \in IF dryRun THEN {content} ELSE {content, [content EXCEPT ![f] = s]}
  /\ Becomes(f, After(s))
  /\ troubled' = troubled \cup {f}
  /\ UNCHANGED <<marks, walkVars, permits, runVars>>

\* Mutant: a dry run renames.
MarkAlways(f) ==
  /\ job[f] = "mark"
  /\ marks' = [marks EXCEPT ![f] = @ + 1]
  /\ Returns(f)
  /\ UNCHANGED <<content, walkVars, runVars, troubled, faults>>

\* markMissing: the file is renamed, but not in a dry run.
Mark(f) ==
  /\ job[f] = "mark"
  /\ marks' = IF dryRun THEN marks ELSE [marks EXCEPT ![f] = @ + 1]
  /\ Returns(f)
  /\ UNCHANGED <<content, walkVars, runVars, troubled, faults>>

\* The rename fails, applied or not; it is only logged.
MarkFails(f) ==
  /\ Fault
  /\ job[f] = "mark"
  /\ ~dryRun
  /\ marks' \in {marks, [marks EXCEPT ![f] = @ + 1]}
  /\ Returns(f)
  /\ troubled' = troubled \cup {f}
  /\ UNCHANGED <<content, walkVars, runVars>>

WalkStep(d) == List(d) \/ PageDone(d)

EntryStep(e) ==
  \/ Acquire(e)
  \/ e \in Dir /\ SubwalkReturns(e)
  \/ e \in File /\ \/ Healthy(e) \/ DataLoss(e) \/ Mark(e)
                   \/ \E s \in Snapshot : Restore(e, s) \/ BackupNotFound(e, s)

Next ==
  \/ RunAgain
  \/ \E d \in Dir : WalkStep(d) \/ ListFails(d)
  \/ \E e \in Entry : EntryStep(e)
  \/ \E f \in File : \/ CheckFails(f) \/ MarkFails(f)
                     \/ \E s \in Snapshot : RestoreFails(f, s)

Spec == Init /\ [][Next]_vars

\* Goroutines run and servers answer; the semaphore is first in, first out.
Fairness ==
  /\ \A d \in Dir : WF_vars(WalkStep(d))
  /\ \A e \in Entry : WF_vars(EntryStep(e)) /\ SF_vars(Acquire(e))

FairSpec == Spec /\ Fairness

-----------------------------------------------------------------------------
(* Properties.                                                             *)

\* When a run that is not dry has ended, every file whose directories could be
\* listed and whose requests went well is settled: it has no backup and is
\* marked, once although later pages and later runs list it again, or its data
\* is good or restored from the newest snapshot that has it.  No file falls
\* between two pages, although files change their names while pages are listed.
RunSettlesEveryFile ==
  Ended /\ ~dryRun /\ missedDirs = {} =>
    \A f \in File \ troubled :
      IF marks[f] > 0
        THEN marks[f] = 1 /\ Backup[f] = {}
        ELSE /\ content[f] # "lost"
             /\ content[f] = "snapshot" => "snapshot2" \notin Backup[f]

\* Content and name change only for a file whose read has answered 500 in this
\* run, and never in a dry run.
OnlyDamagedFilesChange ==
  [][\A f \in File :
       content'[f] # content[f] \/ marks'[f] # marks[f]
         => /\ ~dryRun
            /\ content[f] # "good" \/ f \in troubled
            /\ job[f] \in Snapshot \cup {"mark"}]_vars

\* Every run ends: goroutines that walk subdirectories hold their permits until
\* those walks end, and yet no walk waits for ever.
RunEnds == walk[Root] = "list" ~> Ended
=============================================================================
