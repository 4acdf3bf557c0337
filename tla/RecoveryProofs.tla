--------------------------- MODULE RecoveryProofs ---------------------------
(***************************************************************************)
(* Proofs about cmd/recovery, for any finite tree of directories, any      *)
(* names, page size and backups, and any number of runs and faults.        *)
(***************************************************************************)
EXTENDS Recovery, FiniteSetTheorems, WellFoundedInduction, TLAPS

-----------------------------------------------------------------------------
(* The inductive invariant.                                                *)

\* TypeOK but for the numbers of permits.
Types ==
  /\ content \in [File -> {"good", "lost"} \cup Snapshot]
  /\ marks \in [File -> 0..1]
  /\ walk \in [Dir -> {"idle", "list", "page", "done"}]
  /\ last \in [Dir -> Nat]
  /\ more \in [Dir -> BOOLEAN]
  /\ job \in [Entry -> Job]
  /\ dryRun \in BOOLEAN
  /\ troubled \subseteq File
  /\ missedDirs \subseteq Dir
  /\ runs \in 0..MaxRuns
  /\ faults \in 0..MaxFaults

\* One file: tryRestore has tried the newer snapshot first and markMissing comes
\* after both, and a goroutine that has returned leaves its file settled.
FileInv(f) ==
  /\ job[f] \in {"check", "snapshot2", "snapshot", "mark"} => marks[f] = 0
  /\ job[f] \in Snapshot \cup {"mark"} => content[f] # "good" \/ f \in troubled
  /\ job[f] # "walk"
  /\ f \notin troubled =>
       /\ job[f] \in {"snapshot", "mark"} => "snapshot2" \notin Backup[f]
       /\ job[f] = "mark" => Backup[f] = {}
       /\ marks[f] > 0 => Backup[f] = {}
       /\ content[f] = "snapshot" => "snapshot2" \notin Backup[f]
       /\ job[f] = "done" /\ ~dryRun => marks[f] > 0 \/ content[f] # "lost"

Files == \A f \in File : FileInv(f)

\* One subdirectory: its walk lasts as long as its goroutine.
DirInv(d) ==
  /\ job[d] \in {"none", "queued", "walk", "done"}
  /\ job[d] \in {"none", "queued"} => walk[d] = "idle"
  /\ job[d] = "walk" => walk[d] # "idle"
  /\ job[d] = "done" => walk[d] = "done"

Dirs == \A d \in Dir \ {Root} : DirInv(d)

\* One walk and one of its entries: an entry that was not listed yet comes after
\* lastFileName, although files change their names, and one that was does not
\* come back under its own name.
WalkInv(e) ==
  LET d == In[e]
  IN  /\ walk[d] \in {"list", "page"} /\ job[e] = "none" => NameOf(e) > last[d]
      /\ walk[d] = "page" /\ ~more[d] => job[e] # "none"
      /\ walk[d] = "done" /\ d \notin missedDirs => job[e] = "done"
      /\ walk[d] # "page" => job[e] \in {"none", "done"}
      /\ walk[d] = "idle" => job[e] = "none"
      /\ job[e] # "none" => Name[e] <= last[d]

Walks == \A e \in Entry : WalkInv(e)

Core == Types /\ Files /\ Dirs /\ Walks

\* Each semaphore: a permit is free or with a goroutine of the walk.
Holding(d) == {e \in Entry : In[e] = d /\ job[e] \notin {"none", "queued", "done"}}

PermitsKept ==
  /\ permits \in [Dir -> 0..Permits]
  /\ \A d \in Dir : permits[d] + Cardinality(Holding(d)) = Permits

IInv == Core /\ PermitsKept
-----------------------------------------------------------------------------
(* Pages of a listing.                                                     *)

\* Of the numbers up to n, those of a set that is not empty have a greatest one.
LEMMA Greatest ==
  ASSUME NEW n \in Nat, NEW T \in SUBSET (0..n), T # {}
  PROVE  \E x \in T : \A y \in T : y <= x
<1> DEFINE R == {ss \in Nat \X Nat : ss[1] < ss[2]}
           U == {k \in Nat : n - k \in T}
<1>1. IsWellFoundedOn(R, Nat)
  BY NatLessThanWellFounded DEF OpToRel
<1>2. \A x, y \in Nat : y < x => <<y, x>> \in R
  OBVIOUS
<1>3. U \in SUBSET Nat /\ U # {}
  <2>1. PICK i \in T : TRUE
    OBVIOUS
  <2>2. n - i \in Nat /\ n - (n - i) = i
    OBVIOUS
  <2>3. QED
    BY <2>1, <2>2
<1> HIDE DEF R
<1>4. PICK k \in U : \A y \in U : ~ (<<y, k>> \in R)
  BY <1>1, <1>3, WFMin
<1>5. k \in Nat /\ n - k \in T
  BY <1>4
<1>6. ASSUME NEW y \in T PROVE y <= n - k
  <2>1. n - y \in Nat /\ n - (n - y) = y
    OBVIOUS
  <2>2. n - y \in U
    BY <2>1
  <2>3. ~ (n - y < k)
    BY <1>2, <1>4, <1>5, <2>1, <2>2
  <2>4. QED
    BY <1>5, <2>1, <2>3
<1>7. QED
  BY <1>5, <1>6

\* A larger set of numbers that is finite counts no less.
LEMMA CountGrows ==
  ASSUME NEW S, IsFiniteSet(S), NEW T \in SUBSET S
  PROVE  /\ IsFiniteSet(T) /\ Cardinality(T) \in Nat /\ Cardinality(S) \in Nat
         /\ Cardinality(T) <= Cardinality(S)
         /\ T # S => Cardinality(T) < Cardinality(S)
<1>1. IsFiniteSet(T) /\ Cardinality(T) <= Cardinality(S) /\ (Cardinality(S) = Cardinality(T) => S = T)
  BY FS_Subset
<1>2. Cardinality(T) \in Nat /\ Cardinality(S) \in Nat
  BY <1>1, FS_CardinalityType
<1>3. QED
  BY <1>1, <1>2

\* A finite set of numbers that is not empty has its Max: the one with the most
\* others below it.
LEMMA MaxExists ==
  ASSUME NEW S \in SUBSET Nat, IsFiniteSet(S), S # {}
  PROVE  Max(S) \in S /\ \A y \in S : Max(S) >= y
<1> DEFINE Below(x) == {y \in S : y < x}
           n == Cardinality(S)
           T == {k \in 0..n : \E x \in S : k = Cardinality(Below(x))}
<1>1. \A x \in S : Below(x) \in SUBSET S
  OBVIOUS
<1>2. n \in Nat /\ \A x \in S : Cardinality(Below(x)) \in 0..n
  <2>1. n \in Nat
    BY FS_CardinalityType
  <2>2. ASSUME NEW x \in S PROVE Cardinality(Below(x)) \in 0..n
    <3>1. Below(x) \in SUBSET S
      BY <1>1
    <3> HIDE DEF Below
    <3>2. QED
      BY <2>1, <3>1, CountGrows
  <2>3. QED
    BY <2>1, <2>2
<1>3. T \in SUBSET (0..n) /\ T # {}
  BY <1>2
<1> HIDE DEF n
<1>4. PICK k \in T : \A j \in T : j <= k
  BY <1>2, <1>3, Greatest
<1>5. PICK x \in S : k = Cardinality(Below(x))
  BY <1>4
<1>6. ASSUME NEW y \in S PROVE x >= y
  <2>1. SUFFICES ASSUME y > x PROVE FALSE
    BY <1>5
  <2>2. Below(x) \in SUBSET Below(y) /\ x \in Below(y) /\ x \notin Below(x)
    <3> HIDE DEF T
    <3>1. x \in Nat /\ y \in Nat /\ \A z \in S : z \in Nat
      OBVIOUS
    <3>2. ASSUME NEW z \in Below(x) PROVE z \in Below(y)
      BY <2>1, <3>1
    <3>3. x \in Below(y) /\ x \notin Below(x)
      BY <2>1, <3>1
    <3>4. QED
      BY <3>2, <3>3
  <2>3. IsFiniteSet(Below(y))
    <3>1. Below(y) \in SUBSET S
      BY <1>1
    <3> HIDE DEF Below
    <3>2. QED
      BY <3>1, CountGrows
  <2>4. Cardinality(Below(x)) < Cardinality(Below(y))
    <3> HIDE DEF Below
    <3>1. Below(x) # Below(y)
      BY <2>2
    <3>2. QED
      BY <2>2, <2>3, <3>1, CountGrows
  <2>5. Cardinality(Below(y)) \in T
    BY <1>2
  <2>6. Cardinality(Below(y)) <= k
    BY <1>4, <2>5
  <2>7. Cardinality(Below(y)) \in Nat /\ Cardinality(Below(x)) \in Nat
    BY <1>2
  <2> HIDE DEF Below, T
  <2>8. QED
    BY <1>5, <2>4, <2>6, <2>7
<1>7. QED
  BY <1>5, <1>6 DEF Max

\* The names of entries are numbers above 0, and the mark makes them greater.
LEMMA NamesType ==
  ASSUME Types, NEW e \in Entry
  PROVE  /\ NameOf(e) \in Nat /\ NameOf(e) > 0 /\ Name[e] \in Nat /\ Name[e] <= NameOf(e)
         /\ In[e] \in Dir
         /\ e \in Dir => NameOf(e) = Name[e]
<1>1. Name[e] \in Nat \ {0} /\ In[e] \in Dir
  BY RecoveryAssumption DEF Entry
<1>2. e \in File => MarkedName[e] \in Nat /\ MarkedName[e] > Name[e]
  BY RecoveryAssumption
<1>3. e \in Dir => e \notin File
  BY RecoveryAssumption
<1>4. QED
  BY <1>1, <1>2, <1>3 DEF NameOf

\* What the answer of listDirectory is: LastFileName is not before the page's
\* entries, not before the last one, and before every entry left for later.
LEMMA Listed ==
  ASSUME Types, NEW d \in Dir
  PROVE  /\ Page(d) \subseteq Rest(d) /\ Rest(d) \subseteq Entry
         /\ LastName(d) \in Nat /\ LastName(d) >= last[d]
         /\ \A e \in Page(d) : NameOf(e) <= LastName(d)
         /\ \A e \in Rest(d) \ Page(d) : NameOf(e) > LastName(d)
<1>1. Page(d) \subseteq Rest(d) /\ Rest(d) \subseteq Entry
  BY DEF Page, Rest
<1>2. IsFiniteSet(Rest(d)) /\ IsFiniteSet(Page(d))
  <2>1. IsFiniteSet(File \cup Dir) /\ Rest(d) \in SUBSET (File \cup Dir)
    BY <1>1, FS_Union, RecoveryAssumption DEF Entry
  <2>2. QED
    BY <1>1, <2>1, FS_Subset
<1>3. last[d] \in Nat /\ PageSize \in Nat
  BY RecoveryAssumption DEF Types
<1>4. \A e \in Rest(d) : NameOf(e) \in Nat /\ NameOf(e) > last[d]
  BY <1>1, NamesType DEF Rest
<1>5. ASSUME NEW e \in Rest(d) \ Page(d), NEW p \in Page(d)
      PROVE  NameOf(p) < NameOf(e)
  <2> DEFINE Before(x) == {g \in Rest(d) : NameOf(g) < NameOf(x)}
  <2>1. SUFFICES ASSUME NameOf(e) <= NameOf(p) PROVE FALSE
    BY <1>1, <1>4
  <2>2. Before(e) \in SUBSET Before(p) /\ Before(p) \in SUBSET Rest(d)
    BY <1>1, <1>4, <2>1
  <2>3. Cardinality(Before(p)) < PageSize /\ ~(Cardinality(Before(e)) < PageSize)
    BY <1>5 DEF Page
  <2> HIDE DEF Before
  <2>4. IsFiniteSet(Before(p))
    BY <1>2, <2>2, CountGrows
  <2>5. QED
    BY <1>3, <2>2, <2>3, <2>4, CountGrows
<1>6. CASE Page(d) = {}
  BY <1>1, <1>3, <1>4, <1>6 DEF LastName
<1>7. CASE Page(d) # {}
  <2> DEFINE N == {NameOf(e) : e \in Page(d)}
  <2>1. N \in SUBSET Nat /\ N # {}
    BY <1>1, <1>4, <1>7
  <2>2. IsFiniteSet(N)
    <3> DEFINE nm == [e \in Page(d) |-> NameOf(e)]
    <3>1. nm \in Surjection(Page(d), N)
      BY DEF Surjection
    <3> HIDE DEF nm, N
    <3>2. QED
      BY <1>2, <3>1, FS_Surjection
  <2>3. LastName(d) = Max(N)
    BY <1>7 DEF LastName
  <2>4. Max(N) \in N /\ \A y \in N : Max(N) >= y
    <3> HIDE DEF N
    <3>1. QED
      BY <2>1, <2>2, MaxExists
  <2>5. PICK p \in Page(d) : LastName(d) = NameOf(p)
    BY <2>3, <2>4
  <2>6. \A e \in Page(d) : NameOf(e) <= LastName(d)
    BY <1>1, <1>4, <2>3, <2>4, <2>5
  <2>7. \A e \in Rest(d) \ Page(d) : NameOf(e) > LastName(d)
    BY <1>1, <1>4, <1>5, <2>5
  <2>8. LastName(d) \in Nat /\ LastName(d) >= last[d]
    BY <1>1, <1>3, <1>4, <2>5
  <2>9. QED
    BY <1>1, <2>6, <2>7, <2>8
<1>8. QED
  BY <1>6, <1>7
-----------------------------------------------------------------------------
(* The goroutine of one file.                                              *)

\* A step of f's goroutine: it goes to j, and changes nothing but its file.
FileMoves(f, j) ==
  /\ job[f] \notin {"none", "done"}
  /\ job' = [job EXCEPT ![f] = j]
  /\ \A g \in File \ {f} : content'[g] = content[g] /\ marks'[g] = marks[g]
  /\ content' \in [File -> {"good", "lost"} \cup Snapshot]
  /\ marks' \in [File -> 0..1]
  /\ troubled' \in {troubled, troubled \cup {f}}
  /\ faults' \in 0..MaxFaults
  /\ UNCHANGED <<walkVars, runVars>>

\* Neither the walks nor the other entries notice it.
LEMMA FileMovesKeeps ==
  ASSUME Core, NEW f \in File, NEW j \in Job \ {"none", "walk"}, FileMoves(f, j), FileInv(f)'
  PROVE  Core'
<1>0. /\ Types /\ Files /\ Dirs /\ Walks
  BY DEF Core
<1>1. f \in Entry /\ f \notin Dir
  BY RecoveryAssumption DEF Entry
<1>2. /\ UNCHANGED <<walk, last, more, dryRun, missedDirs, runs>>
      /\ job'[f] = j /\ \A e \in Entry \ {f} : job'[e] = job[e]
  BY <1>0, <1>1 DEF FileMoves, walkVars, runVars, Types
<1>3. Types'
  <2>1. job' \in [Entry -> Job]
    BY <1>0, <1>1 DEF FileMoves, Types
  <2>2. troubled' \subseteq File
    BY <1>0 DEF FileMoves, Types
  <2>3. QED
    BY <1>0, <1>2, <2>1, <2>2 DEF FileMoves, Types
<1>4. Files'
  <2>1. ASSUME NEW g \in File, g # f PROVE FileInv(g)'
    <3>1. FileInv(g) /\ g \in Entry
      BY <1>0, RecoveryAssumption DEF Files, Entry
    <3>2. job'[g] = job[g] /\ content'[g] = content[g] /\ marks'[g] = marks[g]
      BY <1>2, <2>1, <3>1 DEF FileMoves
    <3>3. g \in troubled' <=> g \in troubled
      BY <2>1 DEF FileMoves
    <3>4. QED
      BY <1>2, <3>1, <3>2, <3>3 DEF FileInv
  <2>2. QED
    BY <2>1 DEF Files
<1>5. Dirs'
  <2>1. ASSUME NEW d \in Dir \ {Root} PROVE DirInv(d)'
    <3>1. DirInv(d) /\ d \in Entry \ {f}
      BY <1>0, <1>1 DEF Dirs, Entry
    <3>2. QED
      BY <1>2, <3>1 DEF DirInv
  <2>2. QED
    BY <2>1 DEF Dirs
<1>6. Walks'
  <2>1. ASSUME NEW e \in Entry PROVE WalkInv(e)'
    <3>1. WalkInv(e)
      BY <1>0 DEF Walks
    <3>2. CASE e = f
      <4>1. job[e] \notin {"none", "done"} /\ job'[e] # "none"
        BY <1>2, <3>2 DEF FileMoves
      <4>2. QED
        BY <1>2, <3>1, <4>1 DEF WalkInv
    <3>3. CASE e # f
      <4>1. job'[e] = job[e]
        BY <1>2, <3>3
      <4>2. NameOf(e)' = NameOf(e)
        BY <3>3 DEF NameOf, FileMoves
      <4>3. QED
        BY <1>2, <3>1, <4>1, <4>2 DEF WalkInv
    <3>4. QED
      BY <3>2, <3>3
  <2>2. QED
    BY <2>1 DEF Walks
<1>7. QED
  BY <1>3, <1>4, <1>5, <1>6 DEF Core

\* A failed request leaves the number of faults within its bound.
LEMMA FaultType == ASSUME Types, Fault PROVE faults' \in 0..MaxFaults
  BY RecoveryAssumption DEF Types, Fault

\* Reading the file.
LEMMA CheckCore ==
  ASSUME Core, NEW f \in File, Healthy(f) \/ DataLoss(f) \/ CheckFails(f)
  PROVE  Core'
<1>0. /\ Types /\ Files /\ Dirs /\ Walks
  BY DEF Core
<1>1. FileInv(f) /\ f \in Entry
  BY <1>0, RecoveryAssumption DEF Files, Entry
<1>2. PICK j \in {"done", "snapshot2"} :
        /\ job[f] = "check" /\ job' = [job EXCEPT ![f] = j]
        /\ UNCHANGED <<filerVars, walkVars, runVars>>
        /\ troubled' \in {troubled, troubled \cup {f}}
        /\ faults' \in 0..MaxFaults
        /\ f \in troubled' \/ (j = "done" /\ content[f] # "lost")
              \/ (j = "snapshot2" /\ content[f] = "lost")
  <2>1. CASE Healthy(f)
    BY <1>0, <2>1 DEF Healthy, Returns, Becomes, Types
  <2>2. CASE DataLoss(f)
    BY <1>0, <2>2 DEF DataLoss, Becomes, Types
  <2>3. CASE CheckFails(f)
    BY <1>0, <2>3, FaultType DEF CheckFails, Returns, Becomes
  <2>4. QED
    BY <2>1, <2>2, <2>3
<1>3. content' = content /\ marks' = marks /\ dryRun' = dryRun
  BY <1>2 DEF filerVars, runVars
<1>4. FileMoves(f, j) /\ job'[f] = j
  BY <1>0, <1>1, <1>2, <1>3 DEF FileMoves, Types
<1>5. FileInv(f)'
  BY <1>1, <1>2, <1>3, <1>4 DEF FileInv, Snapshot
<1>6. j \in Job \ {"none", "walk"}
  BY <1>2 DEF Job
<1>7. QED
  BY <1>4, <1>5, <1>6, FileMovesKeeps

\* tryRestore.
LEMMA RestoreCore ==
  ASSUME Core, NEW f \in File, NEW s \in Snapshot,
         Restore(f, s) \/ BackupNotFound(f, s) \/ RestoreFails(f, s)
  PROVE  Core'
<1>0. /\ Types /\ Files /\ Dirs /\ Walks
  BY DEF Core
<1>1. /\ FileInv(f) /\ f \in Entry /\ Backup[f] \subseteq Snapshot
      /\ s \in {"snapshot2", "snapshot"}
  BY <1>0, RecoveryAssumption DEF Files, Entry, Snapshot
<1>2. /\ job[f] = s /\ UNCHANGED <<marks, walkVars, runVars>>
      /\ marks[f] = 0 /\ (content[f] # "good" \/ f \in troubled)
  BY <1>1 DEF Restore, BackupNotFound, RestoreFails, filerVars, FileInv, Snapshot
<1>3. PICK j \in {"done", After(s)} :
        /\ job' = [job EXCEPT ![f] = j]
        /\ content' \in {content, [content EXCEPT ![f] = s]}
        /\ troubled' \in {troubled, troubled \cup {f}}
        /\ faults' \in 0..MaxFaults
        /\ f \notin troubled' =>
             \/ j = "done" /\ s \in Backup[f]
                  /\ (dryRun \/ content' = [content EXCEPT ![f] = s])
             \/ j = After(s) /\ s \notin Backup[f] /\ content' = content
  <2>1. CASE Restore(f, s)
    BY <1>0, <2>1 DEF Restore, Returns, Becomes, Types
  <2>2. CASE BackupNotFound(f, s)
    BY <1>0, <2>2 DEF BackupNotFound, Becomes, Types, filerVars
  <2>3. CASE RestoreFails(f, s)
    <3>1. faults' \in 0..MaxFaults /\ f \in troubled'
      BY <1>0, <2>3, FaultType DEF RestoreFails
    <3>2. job' = [job EXCEPT ![f] = After(s)] /\ troubled' = troubled \cup {f}
      BY <2>3 DEF RestoreFails, Becomes
    <3>3. content' \in {content, [content EXCEPT ![f] = s]}
      BY <2>3 DEF RestoreFails
    <3>4. QED
      BY <3>1, <3>2, <3>3
  <2>4. QED
    BY <2>1, <2>2, <2>3
<1>4. marks' = marks /\ dryRun' = dryRun
  BY <1>2 DEF runVars
<1>5. content' \in [File -> {"good", "lost"} \cup Snapshot]
  <2>1. CASE content' = content
    BY <1>0, <2>1 DEF Types
  <2>2. CASE content' = [content EXCEPT ![f] = s]
    BY <1>0, <2>2 DEF Types
  <2>3. QED
    BY <1>3, <2>1, <2>2
<1>6. content'[f] \in {content[f], s} /\ \A g \in File \ {f} : content'[g] = content[g]
  <2>1. CASE content' = content
    BY <2>1
  <2>2. CASE content' = [content EXCEPT ![f] = s]
    BY <1>0, <2>2 DEF Types
  <2>3. QED
    BY <1>3, <2>1, <2>2
<1>7. FileMoves(f, j) /\ job'[f] = j
  BY <1>0, <1>1, <1>2, <1>3, <1>4, <1>5, <1>6 DEF FileMoves, Types
<1>8. j \in Job \ {"none", "walk"} /\ j \in {"done", "snapshot", "mark"}
  BY <1>3 DEF Job, After
<1>9. FileInv(f)'
  <2>1. /\ job'[f] \in {"check", "snapshot2", "snapshot", "mark"} => marks'[f] = 0
        /\ job'[f] \in Snapshot \cup {"mark"} => content'[f] # "good" \/ f \in troubled'
        /\ job'[f] # "walk"
    <3>1. content'[f] # "good" \/ f \in troubled'
      BY <1>1, <1>2, <1>3, <1>6
    <3>2. QED
      BY <1>2, <1>4, <1>7, <1>8, <3>1
  <2>2. ASSUME f \notin troubled'
        PROVE  /\ job'[f] \in {"snapshot", "mark"} => "snapshot2" \notin Backup[f]
               /\ job'[f] = "mark" => Backup[f] = {}
               /\ marks'[f] > 0 => Backup[f] = {}
               /\ content'[f] = "snapshot" => "snapshot2" \notin Backup[f]
               /\ job'[f] = "done" /\ ~dryRun' => marks'[f] > 0 \/ content'[f] # "lost"
    <3>1. f \notin troubled
      BY <1>3, <2>2
    <3>2. /\ s = "snapshot" => "snapshot2" \notin Backup[f]
          /\ content[f] = "snapshot" => "snapshot2" \notin Backup[f]
      BY <1>1, <1>2, <3>1 DEF FileInv
    <3>3. CASE /\ j = "done" /\ s \in Backup[f]
               /\ dryRun \/ content' = [content EXCEPT ![f] = s]
      <4>1. ~dryRun => content'[f] = s
        BY <1>0, <3>3 DEF Types
      <4>2. content'[f] = "snapshot" => "snapshot2" \notin Backup[f]
        BY <1>6, <3>2
      <4>3. QED
        BY <1>1, <1>2, <1>4, <1>7, <3>3, <4>1, <4>2
    <3>4. CASE j = After(s) /\ s \notin Backup[f] /\ content' = content
      <4>1. "snapshot2" \notin Backup[f]
        BY <1>1, <3>2, <3>4
      <4>2. j = "mark" => Backup[f] = {}
        BY <1>1, <3>4, <4>1 DEF After, Snapshot
      <4>3. j \in {"snapshot", "mark"}
        BY <3>4 DEF After
      <4>4. QED
        BY <1>2, <1>4, <1>7, <4>1, <4>2, <4>3
    <3>5. QED
      BY <1>3, <2>2, <3>3, <3>4
  <2>3. QED
    BY <2>1, <2>2 DEF FileInv
<1>10. QED
  BY <1>7, <1>8, <1>9, FileMovesKeeps

\* markMissing.
LEMMA MarkCore ==
  ASSUME Core, NEW f \in File, Mark(f) \/ MarkFails(f)
  PROVE  Core'
<1>0. /\ Types /\ Files /\ Dirs /\ Walks
  BY DEF Core
<1>1. FileInv(f) /\ f \in Entry
  BY <1>0, RecoveryAssumption DEF Files, Entry
<1>2. /\ job[f] = "mark" /\ job' = [job EXCEPT ![f] = "done"]
      /\ UNCHANGED <<content, walkVars, runVars>>
  BY DEF Mark, MarkFails, Returns, Becomes
<1>3. /\ marks' \in {marks, [marks EXCEPT ![f] = @ + 1]}
      /\ troubled' \in {troubled, troubled \cup {f}}
      /\ f \in troubled' \/ dryRun \/ marks' = [marks EXCEPT ![f] = @ + 1]
      /\ faults' \in 0..MaxFaults
  <2>1. CASE Mark(f)
    BY <1>0, <2>1 DEF Mark, Types
  <2>2. CASE MarkFails(f)
    BY <1>0, <2>2, FaultType DEF MarkFails
  <2>3. QED
    BY <2>1, <2>2
<1>4. marks[f] = 0
  BY <1>1, <1>2 DEF FileInv
<1>5. /\ marks' \in [File -> 0..1] /\ \A g \in File \ {f} : marks'[g] = marks[g]
      /\ marks'[f] \in 0..1
      /\ f \in troubled' \/ dryRun \/ marks'[f] = 1
  <2>1. CASE marks' = marks
    <3>1. marks' \in [File -> 0..1] /\ marks'[f] \in 0..1
      BY <1>0, <2>1 DEF Types
    <3>2. [marks EXCEPT ![f] = @ + 1][f] = 1
      BY <1>0, <1>4 DEF Types
    <3>3. QED
      BY <1>3, <2>1, <3>1, <3>2
  <2>2. CASE marks' = [marks EXCEPT ![f] = @ + 1]
    BY <1>0, <1>4, <2>2 DEF Types
  <2>3. QED
    BY <1>3, <2>1, <2>2
<1>6. dryRun' = dryRun /\ content' = content
  BY <1>2 DEF runVars
<1>7. FileMoves(f, "done") /\ job'[f] = "done"
  BY <1>0, <1>1, <1>2, <1>3, <1>5, <1>6 DEF FileMoves, Types
<1>8. FileInv(f)'
  BY <1>1, <1>2, <1>3, <1>5, <1>6, <1>7 DEF FileInv, Snapshot
<1>9. "done" \in Job \ {"none", "walk"}
  BY DEF Job
<1>10. QED
  BY <1>7, <1>8, <1>9, FileMovesKeeps
\* Acquire by a file's goroutine: a marked file is skipped.
LEMMA AcquireFileCore ==
  ASSUME Core, NEW f \in File, Acquire(f)
  PROVE  Core'
<1>0. /\ Types /\ Files /\ Dirs /\ Walks
  BY DEF Core
<1>1. FileInv(f) /\ f \in Entry /\ f \notin Dir
  BY <1>0, RecoveryAssumption DEF Files, Entry
<1>2. PICK j \in {"done", "check"} :
        /\ job[f] = "queued" /\ job' = [job EXCEPT ![f] = j]
        /\ marks[f] \in 0..1
        /\ j = "done" <=> marks[f] > 0
  BY <1>0, <1>1 DEF Acquire, Becomes, FirstStep, Types
<1>3. UNCHANGED <<content, marks, walk, last, more, dryRun, missedDirs, runs, troubled, faults>>
  BY <1>1 DEF Acquire, filerVars, runVars
<1>4. FileMoves(f, j) /\ job'[f] = j
  BY <1>0, <1>1, <1>2, <1>3 DEF FileMoves, walkVars, runVars, Types
<1>5. FileInv(f)'
  BY <1>1, <1>2, <1>3, <1>4 DEF FileInv, Snapshot
<1>6. j \in Job \ {"none", "walk"}
  BY DEF Job
<1>7. QED
  BY <1>4, <1>5, <1>6, FileMovesKeeps

-----------------------------------------------------------------------------
(* The walks.                                                              *)

\* The files do not notice a step that leaves their goroutines where they are,
\* or has one that was not listed or had returned queued.
LEMMA FilesKept ==
  ASSUME Types, Files, UNCHANGED <<content, marks, dryRun, troubled>>,
         \A f \in File : job'[f] = job[f] \/ job'[f] = "queued"
  PROVE  Files'
<1>1. ASSUME NEW f \in File PROVE FileInv(f)'
  <2>1. FileInv(f)
    BY DEF Files
  <2>2. CASE job'[f] = job[f]
    BY <2>1, <2>2 DEF FileInv
  <2>3. CASE job'[f] = "queued"
    BY <2>1, <2>3 DEF FileInv, Snapshot
  <2>4. QED
    BY <2>2, <2>3
<1>2. QED
  BY <1>1 DEF Files

\* Acquire by a subdirectory's goroutine: its walk begins.
LEMMA AcquireDirCore ==
  ASSUME Core, NEW d \in Dir \ {Root}, Acquire(d)
  PROVE  Core'
<1>0. /\ Types /\ Files /\ Dirs /\ Walks
  BY DEF Core
<1>1. d \in Entry /\ d \notin File /\ DirInv(d) /\ WalkInv(d)
  BY <1>0, RecoveryAssumption DEF Dirs, Walks, Entry
<1>2. /\ job[d] = "queued" /\ job' = [job EXCEPT ![d] = "walk"]
      /\ walk' = [walk EXCEPT ![d] = "list"] /\ last' = [last EXCEPT ![d] = 0]
      /\ UNCHANGED <<content, marks, more, dryRun, missedDirs, runs, troubled, faults>>
  BY DEF Acquire, Becomes, FirstStep, filerVars, runVars
<1>3. walk[d] = "idle"
  BY <1>1, <1>2 DEF DirInv
<1>4. Types'
  <2>1. "walk" \in Job
    BY DEF Job
  <2>2. job' \in [Entry -> Job] /\ last' \in [Dir -> Nat]
    BY <1>0, <1>2, <2>1 DEF Types
  <2>3. walk' \in [Dir -> {"idle", "list", "page", "done"}]
    BY <1>0, <1>2 DEF Types
  <2>4. QED
    BY <1>0, <1>2, <2>2, <2>3 DEF Types
<1>5. Files'
  <2>1. \A f \in File : job'[f] = job[f]
    <3>1. \A f \in File : f \in Entry /\ f # d
      BY <1>1, RecoveryAssumption DEF Entry
    <3>2. QED
      BY <1>0, <1>2, <3>1 DEF Types
  <2>2. QED
    BY <1>0, <1>2, <2>1, FilesKept
<1>6. Dirs'
  <2>1. ASSUME NEW q \in Dir \ {Root} PROVE DirInv(q)'
    <3>1. DirInv(q) /\ q \in Entry
      BY <1>0 DEF Dirs, Entry
    <3>2. CASE q = d
      BY <1>0, <1>1, <1>2, <3>2 DEF DirInv, Types
    <3>3. CASE q # d
      BY <1>0, <1>2, <3>1, <3>3 DEF DirInv, Types
    <3>4. QED
      BY <3>2, <3>3
  <2>2. QED
    BY <2>1 DEF Dirs
<1>7. Walks'
  <2>1. ASSUME NEW e \in Entry PROVE WalkInv(e)'
    <3>1. WalkInv(e) /\ In[e] \in Dir /\ NameOf(e) > 0 /\ NameOf(e) \in Nat
      BY <1>0, NamesType DEF Walks
    <3>2. NameOf(e)' = NameOf(e)
      BY <1>2 DEF NameOf
    <3>3. CASE In[e] = d
      <4>1. job[e] = "none" /\ e # d
        BY <1>2, <1>3, <3>1, <3>3 DEF WalkInv
      <4>2. job'[e] = "none" /\ walk'[In[e]] = "list" /\ last'[In[e]] = 0
        BY <1>0, <1>1, <1>2, <3>3, <4>1 DEF Types
      <4>3. QED
        BY <3>1, <3>2, <4>2 DEF WalkInv
    <3>4. CASE In[e] # d
      <4>1. /\ walk'[In[e]] = walk[In[e]] /\ last'[In[e]] = last[In[e]]
            /\ more'[In[e]] = more[In[e]] /\ missedDirs' = missedDirs
        BY <1>0, <1>2, <3>1, <3>4 DEF Types
      <4>2. CASE e = d
        <5>1. job[e] = "queued" /\ job'[e] = "walk"
          BY <1>0, <1>1, <1>2, <4>2 DEF Types
        <5>2. QED
          BY <3>1, <4>1, <5>1 DEF WalkInv
      <4>3. CASE e # d
        <5>1. job'[e] = job[e]
          BY <1>0, <1>2, <4>3 DEF Types
        <5>2. QED
          BY <3>1, <3>2, <4>1, <5>1 DEF WalkInv
      <4>4. QED
        BY <4>2, <4>3
    <3>5. QED
      BY <3>3, <3>4
  <2>2. QED
    BY <2>1 DEF Walks
<1>8. QED
  BY <1>4, <1>5, <1>6, <1>7 DEF Core

\* The walk of a subdirectory has ended and its goroutine returns.
LEMMA SubwalkCore ==
  ASSUME Core, NEW d \in Dir \ {Root}, SubwalkReturns(d)
  PROVE  Core'
<1>0. /\ Types /\ Files /\ Dirs /\ Walks
  BY DEF Core
<1>1. d \in Entry /\ d \notin File
  BY RecoveryAssumption DEF Entry
<1>2. /\ job[d] = "walk" /\ walk[d] = "done" /\ job' = [job EXCEPT ![d] = "done"]
      /\ UNCHANGED <<content, marks, walk, last, more, dryRun, missedDirs, runs, troubled, faults>>
  BY DEF SubwalkReturns, Returns, Becomes, filerVars, walkVars, runVars
<1>3. job'[d] = "done" /\ \A e \in Entry \ {d} : job'[e] = job[e]
  BY <1>0, <1>1, <1>2 DEF Types
<1>4. Types'
  <2>1. "done" \in Job
    BY DEF Job
  <2>2. job' \in [Entry -> Job]
    BY <1>0, <1>2, <2>1 DEF Types
  <2>3. QED
    BY <1>0, <1>2, <2>2 DEF Types
<1>5. Files'
  <2>1. \A f \in File : f \in Entry /\ f # d
    BY <1>1, RecoveryAssumption DEF Entry
  <2>2. QED
    BY <1>0, <1>2, <1>3, <2>1, FilesKept
<1>6. Dirs'
  <2>1. ASSUME NEW q \in Dir \ {Root} PROVE DirInv(q)'
    <3>1. DirInv(q) /\ q \in Entry
      BY <1>0 DEF Dirs, Entry
    <3>2. CASE q = d
      BY <1>2, <1>3, <3>2 DEF DirInv
    <3>3. CASE q # d
      BY <1>2, <1>3, <3>1, <3>3 DEF DirInv
    <3>4. QED
      BY <3>2, <3>3
  <2>2. QED
    BY <2>1 DEF Dirs
<1>7. Walks'
  <2>1. ASSUME NEW e \in Entry PROVE WalkInv(e)'
    <3>1. WalkInv(e) /\ NameOf(e)' = NameOf(e)
      BY <1>0, <1>2 DEF Walks, NameOf
    <3>2. CASE e = d
      BY <1>2, <1>3, <3>1, <3>2 DEF WalkInv
    <3>3. CASE e # d
      BY <1>2, <1>3, <3>1, <3>3 DEF WalkInv
    <3>4. QED
      BY <3>2, <3>3
  <2>2. QED
    BY <2>1 DEF Walks
<1>8. QED
  BY <1>0, <1>2, <1>4, <1>5, <1>6, <1>7 DEF Core

\* listDirectory answers a page.
LEMMA ListCore ==
  ASSUME Core, NEW d \in Dir, List(d)
  PROVE  Core'
<1>0. /\ Types /\ Files /\ Dirs /\ Walks
  BY DEF Core
<1>1. /\ walk[d] = "list" /\ walk' = [walk EXCEPT ![d] = "page"]
      /\ job' = [e \in Entry |-> IF e \in Page(d) THEN "queued" ELSE job[e]]
      /\ last' = [last EXCEPT ![d] = LastName(d)]
      /\ more' = [more EXCEPT ![d] = Rest(d) # Page(d)]
      /\ UNCHANGED <<content, marks, dryRun, missedDirs, runs, troubled, faults>>
  BY DEF List, filerVars, runVars
<1>2. /\ Page(d) \subseteq Rest(d) /\ Rest(d) \subseteq Entry
      /\ LastName(d) \in Nat /\ LastName(d) >= last[d]
      /\ \A e \in Page(d) : NameOf(e) <= LastName(d)
      /\ \A e \in Rest(d) \ Page(d) : NameOf(e) > LastName(d)
  BY <1>0, Listed
<1>3. /\ walk'[d] = "page" /\ last'[d] = LastName(d) /\ (more'[d] <=> Rest(d) # Page(d))
      /\ \A q \in Dir \ {d} : /\ walk'[q] = walk[q] /\ last'[q] = last[q]
                              /\ more'[q] = more[q]
  BY <1>0, <1>1 DEF Types
<1>4. \A e \in Entry : job'[e] = IF e \in Page(d) THEN "queued" ELSE job[e]
  BY <1>1
<1>5. \A e \in Page(d) : e \in Entry /\ In[e] = d /\ NameOf(e) > last[d]
  BY <1>2 DEF Rest
<1>6. Types'
  <2>1. "queued" \in Job
    BY DEF Job
  <2>2. job' \in [Entry -> Job]
    BY <1>0, <1>1, <2>1 DEF Types
  <2>3. walk' \in [Dir -> {"idle", "list", "page", "done"}]
    BY <1>0, <1>1 DEF Types
  <2>4. last' \in [Dir -> Nat] /\ more' \in [Dir -> BOOLEAN]
    BY <1>0, <1>1, <1>2 DEF Types
  <2>5. QED
    BY <1>0, <1>1, <2>2, <2>3, <2>4 DEF Types
<1>7. Files'
  <2>1. \A f \in File : f \in Entry
    BY RecoveryAssumption DEF Entry
  <2>2. QED
    BY <1>0, <1>1, <1>4, <2>1, FilesKept
<1>8. Dirs'
  <2>1. ASSUME NEW q \in Dir \ {Root} PROVE DirInv(q)'
    <3>1. DirInv(q) /\ q \in Entry /\ WalkInv(q) /\ NameOf(q) = Name[q] /\ Name[q] \in Nat
      BY <1>0, NamesType DEF Dirs, Walks, Entry
    <3>2. CASE q \in Page(d)
      <4>1. In[q] = d /\ Name[q] > last[d] /\ last[d] \in Nat
        BY <1>0, <1>5, <3>1, <3>2 DEF Types
      <4>2. job[q] = "none"
        BY <3>1, <4>1 DEF WalkInv
      <4>3. walk[q] = "idle" /\ q # d
        BY <1>1, <3>1, <4>2 DEF DirInv
      <4>4. job'[q] = "queued" /\ walk'[q] = "idle"
        BY <1>3, <1>4, <3>1, <3>2, <4>3
      <4>5. QED
        BY <4>4 DEF DirInv
    <3>3. CASE q \notin Page(d)
      <4>1. job'[q] = job[q]
        BY <1>4, <3>1, <3>3
      <4>2. CASE q = d
        BY <1>1, <1>3, <3>1, <4>1, <4>2 DEF DirInv
      <4>3. CASE q # d
        BY <1>3, <3>1, <4>1, <4>3 DEF DirInv
      <4>4. QED
        BY <4>2, <4>3
    <3>4. QED
      BY <3>2, <3>3
  <2>2. QED
    BY <2>1 DEF Dirs
<1>9. Walks'
  <2>1. ASSUME NEW e \in Entry PROVE WalkInv(e)'
    <3>1. /\ WalkInv(e) /\ In[e] \in Dir
          /\ NameOf(e) \in Nat /\ Name[e] \in Nat /\ Name[e] <= NameOf(e)
      BY <1>0, NamesType DEF Walks
    <3>2. NameOf(e)' = NameOf(e) /\ missedDirs' = missedDirs
      BY <1>1 DEF NameOf
    <3>3. CASE In[e] = d
      <4>1. last[d] \in Nat
        BY <1>0 DEF Types
      <4>2. job[e] = "none" => e \in Rest(d)
        BY <1>1, <3>1, <3>3 DEF WalkInv, Rest
      <4>3. job'[e] = "none" => NameOf(e) > LastName(d)
        BY <1>2, <1>4, <4>2
      <4>4. ~more'[d] => job'[e] # "none"
        BY <1>3, <1>4, <4>2
      <4>5. job'[e] # "none" => Name[e] <= LastName(d)
        <5>1. CASE e \in Page(d)
          BY <1>2, <3>1, <5>1
        <5>2. CASE e \notin Page(d)
          BY <1>2, <1>4, <3>1, <3>3, <4>1, <5>2 DEF WalkInv
        <5>3. QED
          BY <5>1, <5>2
      <4>6. QED
        BY <1>3, <3>2, <3>3, <4>3, <4>4, <4>5 DEF WalkInv
    <3>4. CASE In[e] # d
      <4>1. job'[e] = job[e]
        BY <1>4, <1>5, <3>4
      <4>2. QED
        BY <1>3, <3>1, <3>2, <3>4, <4>1 DEF WalkInv
    <3>5. QED
      BY <3>3, <3>4
  <2>2. QED
    BY <2>1 DEF Walks
<1>10. QED
  BY <1>6, <1>7, <1>8, <1>9 DEF Core

\* A walk goes on with its next page, ends, or gives up because its listing
\* failed.
LEMMA PageCore ==
  ASSUME Core, NEW d \in Dir, PageDone(d) \/ ListFails(d)
  PROVE  Core'
<1>0. /\ Types /\ Files /\ Dirs /\ Walks
  BY DEF Core
<1>1. PICK w \in {"list", "done"} :
        /\ walk' = [walk EXCEPT ![d] = w]
        /\ missedDirs' \in {missedDirs, missedDirs \cup {d}}
        /\ faults' \in 0..MaxFaults
        /\ UNCHANGED <<content, marks, last, more, job, dryRun, runs, troubled>>
        /\ walk[d] \in {"list", "page"}
        /\ \/ w = "done" /\ d \in missedDirs' /\ walk[d] = "list"
           \/ /\ walk[d] = "page" /\ (w = "done" => ~more[d]) /\ missedDirs' = missedDirs
              /\ \A e \in Entry : In[e] = d => job[e] \in {"none", "done"}
  <2>1. CASE PageDone(d)
    <3>1. faults' \in 0..MaxFaults
      BY <1>0, <2>1 DEF PageDone, Types
    <3>2. QED
      BY <2>1, <3>1 DEF PageDone, filerVars, runVars
  <2>2. CASE ListFails(d)
    <3>1. faults' \in 0..MaxFaults
      BY <1>0, <2>2, FaultType DEF ListFails
    <3>2. QED
      BY <2>2, <3>1 DEF ListFails, filerVars, runVars
  <2>3. QED
    BY <2>1, <2>2
<1>2. walk'[d] = w /\ \A q \in Dir \ {d} : walk'[q] = walk[q]
  BY <1>0, <1>1 DEF Types
<1>3. Types'
  <2>1. walk' \in [Dir -> {"idle", "list", "page", "done"}] /\ missedDirs' \subseteq Dir
    BY <1>0, <1>1 DEF Types
  <2>2. QED
    BY <1>0, <1>1, <2>1 DEF Types
<1>4. Files'
  BY <1>0, <1>1, FilesKept
<1>5. Dirs'
  <2>1. ASSUME NEW q \in Dir \ {Root} PROVE DirInv(q)'
    <3>1. DirInv(q) /\ job'[q] = job[q]
      BY <1>0, <1>1 DEF Dirs
    <3>2. CASE q = d
      BY <1>1, <1>2, <3>1, <3>2 DEF DirInv
    <3>3. CASE q # d
      BY <1>2, <3>1, <3>3 DEF DirInv
    <3>4. QED
      BY <3>2, <3>3
  <2>2. QED
    BY <2>1 DEF Dirs
<1>6. Walks'
  <2>1. ASSUME NEW e \in Entry PROVE WalkInv(e)'
    <3>1. WalkInv(e) /\ In[e] \in Dir /\ job'[e] = job[e] /\ NameOf(e)' = NameOf(e)
      BY <1>0, <1>1, NamesType DEF Walks, NameOf
    <3>2. last'[In[e]] = last[In[e]] /\ more'[In[e]] = more[In[e]]
      BY <1>1
    <3>3. CASE In[e] = d
      <4>1. job[e] \in {"none", "done"}
        BY <1>1, <3>1, <3>3 DEF WalkInv
      <4>2. w = "done" /\ d \notin missedDirs' => job[e] = "done"
        BY <1>1, <3>1, <3>3, <4>1 DEF WalkInv
      <4>3. QED
        BY <1>1, <1>2, <3>1, <3>2, <3>3, <4>1, <4>2 DEF WalkInv
    <3>4. CASE In[e] # d
      <4>1. walk'[In[e]] = walk[In[e]] /\ (In[e] \in missedDirs' <=> In[e] \in missedDirs)
        BY <1>1, <1>2, <3>1, <3>4
      <4>2. QED
        BY <3>1, <3>2, <4>1 DEF WalkInv
    <3>5. QED
      BY <3>3, <3>4
  <2>2. QED
    BY <2>1 DEF Walks
<1>7. QED
  BY <1>3, <1>4, <1>5, <1>6 DEF Core
-----------------------------------------------------------------------------
(* Runs.                                                                   *)

\* When the walk of Root has ended no goroutine is left: a walk that waits for
\* its page is waited for by the goroutine of its directory, and so on up to Root.
LEMMA NobodyLeft ==
  ASSUME Core, Ended
  PROVE  \A e \in Entry : job[e] \in {"none", "done"}
<1>0. /\ Types /\ Files /\ Dirs /\ Walks
  BY DEF Core
<1> DEFINE S == {d \in Dir \ {Root} : walk[d] = "page"}
<1>1. ASSUME NEW d \in S PROVE In[d] \in S
  <2>1. d \in Entry /\ DirInv(d) /\ WalkInv(d) /\ In[d] \in Dir
    BY <1>0, NamesType DEF Dirs, Walks, Entry
  <2>2. job[d] = "walk"
    BY <2>1 DEF DirInv
  <2>3. walk[In[d]] = "page"
    BY <2>1, <2>2 DEF WalkInv
  <2>4. In[d] # Root
    BY <2>3 DEF Ended
  <2>5. QED
    BY <2>1, <2>3, <2>4
<1>2. S = {}
  BY <1>1, RecoveryAssumption
<1>3. ASSUME NEW e \in Entry PROVE job[e] \in {"none", "done"}
  <2>1. WalkInv(e) /\ In[e] \in Dir
    BY <1>0, NamesType DEF Walks
  <2>2. walk[In[e]] # "page"
    BY <1>2, <2>1 DEF Ended
  <2>3. QED
    BY <2>1, <2>2 DEF WalkInv
<1>4. QED
  BY <1>3

\* A state in which no goroutine was started and the walk of Root begins.
Fresh ==
  /\ walk = [d \in Dir |-> IF d = Root THEN "list" ELSE "idle"]
  /\ last = [d \in Dir |-> 0]
  /\ more = [d \in Dir |-> FALSE]
  /\ job = [e \in Entry |-> "none"]

\* When a run begins, directories and walks are in order.
LEMMA FreshWalks ==
  ASSUME Types, Fresh PROVE Dirs /\ Walks
<1>1. \A e \in Entry : job[e] = "none"
  BY DEF Fresh
<1>2. \A d \in Dir : /\ walk[d] = IF d = Root THEN "list" ELSE "idle"
                     /\ last[d] = 0
  BY DEF Fresh
<1>3. ASSUME NEW d \in Dir \ {Root} PROVE DirInv(d)
  <2>1. d \in Entry
    BY DEF Entry
  <2>2. QED
    BY <1>1, <1>2, <2>1 DEF DirInv
<1>4. ASSUME NEW e \in Entry PROVE WalkInv(e)
  <2>1. In[e] \in Dir /\ NameOf(e) > 0
    BY NamesType
  <2>2. QED
    BY <1>1, <1>2, <2>1 DEF WalkInv
<1>5. QED
  BY <1>3, <1>4 DEF Dirs, Walks

\* The first run begins in order.
LEMMA InitCore == Init => Core
<1> SUFFICES ASSUME Init PROVE Core
  OBVIOUS
<1>1. Types
  <2>1. content \in [File -> {"good", "lost"} \cup Snapshot]
    BY DEF Init
  <2>2. marks \in [File -> 0..1] /\ last \in [Dir -> Nat]
    BY DEF Init
  <2>3. walk \in [Dir -> {"idle", "list", "page", "done"}]
    BY DEF Init
  <2>4. more \in [Dir -> BOOLEAN] /\ job \in [Entry -> Job]
    BY DEF Init, Job
  <2>5. runs \in 0..MaxRuns /\ faults \in 0..MaxFaults
    BY RecoveryAssumption DEF Init
  <2>6. QED
    BY <2>1, <2>2, <2>3, <2>4, <2>5 DEF Init, Types
<1>2. Files
  <2>1. ASSUME NEW f \in File PROVE FileInv(f)
    <3>1. f \in Entry
      BY RecoveryAssumption DEF Entry
    <3>2. job[f] = "none" /\ marks[f] = 0 /\ content[f] \in {"good", "lost"}
      BY <3>1 DEF Init
    <3>3. QED
      BY <3>2 DEF FileInv, Snapshot
  <2>2. QED
    BY <2>1 DEF Files
<1>3. Fresh
  BY DEF Init, Fresh
<1>4. QED
  BY <1>1, <1>2, <1>3, FreshWalks DEF Core

\* So does a later one, over the files an earlier run left.
LEMMA RunAgainCore == ASSUME Core, RunAgain PROVE Core'
<1>0. /\ Types /\ Files /\ Dirs /\ Walks
  BY DEF Core
<1>1. Fresh' /\ UNCHANGED <<content, marks, troubled, faults>>
  BY DEF RunAgain, Fresh, filerVars
<1>2. Types'
  <2>1. walk' \in [Dir -> {"idle", "list", "page", "done"}] /\ last' \in [Dir -> Nat]
    BY <1>1 DEF Fresh
  <2>2. more' \in [Dir -> BOOLEAN] /\ job' \in [Entry -> Job]
    BY <1>1 DEF Fresh, Job
  <2>3. runs' \in 0..MaxRuns /\ dryRun' \in BOOLEAN /\ missedDirs' = {}
    BY <1>0, RecoveryAssumption DEF RunAgain, Types
  <2>4. QED
    BY <1>0, <1>1, <2>1, <2>2, <2>3 DEF Types
<1>3. Files'
  <2>1. ASSUME NEW f \in File PROVE FileInv(f)'
    <3>1. FileInv(f) /\ f \in Entry
      BY <1>0, RecoveryAssumption DEF Files, Entry
    <3>2. job'[f] = "none"
      BY <1>1, <3>1 DEF Fresh
    <3>3. QED
      BY <1>1, <3>1, <3>2 DEF FileInv, Snapshot
  <2>2. QED
    BY <2>1 DEF Files
<1>4. Dirs' /\ Walks'
  <2>1. \A e \in Entry : job'[e] = "none"
    BY <1>1 DEF Fresh
  <2>2. \A d \in Dir : /\ walk'[d] = IF d = Root THEN "list" ELSE "idle"
                       /\ last'[d] = 0 /\ more'[d] = FALSE
    BY <1>1 DEF Fresh
  <2>3. ASSUME NEW d \in Dir \ {Root} PROVE DirInv(d)'
    <3>1. d \in Entry
      BY DEF Entry
    <3>2. QED
      BY <2>1, <2>2, <3>1 DEF DirInv
  <2>4. ASSUME NEW e \in Entry PROVE WalkInv(e)'
    <3>1. In[e] \in Dir /\ NameOf(e) > 0 /\ NameOf(e)' = NameOf(e)
      BY <1>0, <1>1, NamesType DEF NameOf
    <3>2. QED
      BY <2>1, <2>2, <3>1 DEF WalkInv
  <2>5. QED
    BY <2>3, <2>4 DEF Dirs, Walks
<1>5. QED
  BY <1>2, <1>3, <1>4 DEF Core

\* Every step keeps the core of the invariant.
LEMMA NextCore == ASSUME Core, [Next]_vars PROVE Core'
<1>1. ASSUME NEW e \in Entry, EntryStep(e) PROVE Core'
  <2>1. e \in File \/ e \in Dir \ {Root}
    BY DEF Entry
  <2>2. CASE Acquire(e)
    BY <2>1, <2>2, AcquireFileCore, AcquireDirCore
  <2>3. CASE e \in Dir /\ SubwalkReturns(e)
    BY <2>3, SubwalkCore DEF Entry
  <2>4. CASE e \in File /\ (Healthy(e) \/ DataLoss(e) \/ Mark(e))
    BY <2>4, CheckCore, MarkCore
  <2>5. CASE e \in File /\ \E s \in Snapshot : Restore(e, s) \/ BackupNotFound(e, s)
    BY <2>5, RestoreCore
  <2>6. QED
    BY <1>1, <2>2, <2>3, <2>4, <2>5 DEF EntryStep
<1>2. ASSUME NEW d \in Dir, WalkStep(d) \/ ListFails(d) PROVE Core'
  BY <1>2, ListCore, PageCore DEF WalkStep
<1>3. ASSUME NEW f \in File,
             CheckFails(f) \/ MarkFails(f) \/ \E s \in Snapshot : RestoreFails(f, s)
      PROVE  Core'
  BY <1>3, CheckCore, MarkCore, RestoreCore
<1>4. CASE UNCHANGED vars
  <2>1. UNCHANGED <<content, marks, walk, last, more, job, dryRun, missedDirs, runs, troubled, faults>>
    BY <1>4 DEF vars, filerVars, walkVars, runVars
  <2>2. Types' /\ Files' /\ Dirs'
    BY <2>1 DEF Core, Types, Files, FileInv, Dirs, DirInv
  <2>3. \A e \in Entry : NameOf(e)' = NameOf(e)
    BY <2>1 DEF NameOf
  <2>4. Walks'
    BY <2>1, <2>3 DEF Core, Walks, WalkInv
  <2>5. QED
    BY <2>2, <2>4 DEF Core
<1>5. QED
  BY <1>1, <1>2, <1>3, <1>4, RunAgainCore DEF Next
-----------------------------------------------------------------------------
(* The semaphores.                                                         *)

Waits == {"none", "queued", "done"}

\* The goroutines that hold a permit can be counted.
LEMMA HoldersCount ==
  ASSUME NEW S \in SUBSET Entry
  PROVE  IsFiniteSet(S) /\ Cardinality(S) \in Nat
<1>1. IsFiniteSet(File \cup Dir) /\ S \in SUBSET (File \cup Dir)
  BY FS_Union, RecoveryAssumption DEF Entry
<1>2. QED
  BY <1>1, FS_Subset, FS_CardinalityType

\* Nobody takes or releases a permit.
LEMMA HoldersStay ==
  ASSUME PermitsKept, permits' = permits,
         \A e \in Entry : job'[e] \in Waits <=> job[e] \in Waits
  PROVE  PermitsKept'
<1>1. \A d \in Dir : Holding(d)' = Holding(d)
  BY DEF Holding, Waits
<1>2. QED
  BY <1>1 DEF PermitsKept

\* One goroutine takes a permit of its walk, and there was one.
LEMMA HolderTakes ==
  ASSUME Types, PermitsKept, NEW e \in Entry, job[e] = "queued", permits[In[e]] > 0,
         NEW j, j \notin Waits, job' = [job EXCEPT ![e] = j],
         permits' = [permits EXCEPT ![In[e]] = @ - 1]
  PROVE  PermitsKept'
<1>1. In[e] \in Dir
  BY NamesType
<1>2. Holding(In[e])' = Holding(In[e]) \cup {e} /\ e \notin Holding(In[e])
  BY DEF Holding, Waits, Types
<1>3. \A d \in Dir \ {In[e]} : Holding(d)' = Holding(d)
  BY DEF Holding, Types
<1>4. /\ Cardinality(Holding(In[e]) \cup {e}) = Cardinality(Holding(In[e])) + 1
      /\ Cardinality(Holding(In[e])) \in Nat
  <2>1. Holding(In[e]) \in SUBSET Entry
    BY DEF Holding
  <2>2. QED
    BY <1>2, <2>1, HoldersCount, FS_AddElement
<1>5. permits[In[e]] \in 0..Permits /\ Permits \in Nat
      /\ permits[In[e]] + Cardinality(Holding(In[e])) = Permits
  BY <1>1, RecoveryAssumption DEF PermitsKept
<1>6. permits'[In[e]] = permits[In[e]] - 1 /\ \A d \in Dir \ {In[e]} : permits'[d] = permits[d]
  BY <1>1 DEF PermitsKept
<1>7. permits' \in [Dir -> 0..Permits]
  <2>1. permits[In[e]] - 1 \in 0..Permits
    BY <1>5
  <2>2. QED
    BY <2>1 DEF PermitsKept
<1>8. permits'[In[e]] + Cardinality(Holding(In[e])') = Permits
  BY <1>2, <1>4, <1>5, <1>6
<1>9. ASSUME NEW d \in Dir \ {In[e]} PROVE permits'[d] + Cardinality(Holding(d)') = Permits
  BY <1>3, <1>6 DEF PermitsKept
<1>10. QED
  BY <1>7, <1>8, <1>9 DEF PermitsKept

\* One goroutine returns and releases the permit of its walk that it has.
LEMMA HolderReturns ==
  ASSUME Types, PermitsKept, NEW e \in Entry, job[e] \notin Waits, Returns(e)
  PROVE  PermitsKept'
<1>1. In[e] \in Dir
  BY NamesType
<1>2. /\ job' = [job EXCEPT ![e] = "done"]
      /\ permits' = [permits EXCEPT ![In[e]] = @ + 1]
  BY DEF Returns, Becomes, Sema
<1>3. Holding(In[e])' = Holding(In[e]) \ {e} /\ e \in Holding(In[e])
  BY <1>2 DEF Holding, Waits, Types
<1>4. \A d \in Dir \ {In[e]} : Holding(d)' = Holding(d)
  BY <1>2 DEF Holding, Types
<1>5. /\ Cardinality(Holding(In[e]) \ {e}) = Cardinality(Holding(In[e])) - 1
      /\ Cardinality(Holding(In[e])) \in Nat
      /\ Cardinality(Holding(In[e]) \ {e}) \in Nat
  <2>1. Holding(In[e]) \in SUBSET Entry /\ Holding(In[e]) \ {e} \in SUBSET Entry
    BY DEF Holding
  <2>2. QED
    BY <1>3, <2>1, HoldersCount, FS_RemoveElement
<1>6. permits[In[e]] \in 0..Permits /\ Permits \in Nat
      /\ permits[In[e]] + Cardinality(Holding(In[e])) = Permits
  BY <1>1, RecoveryAssumption DEF PermitsKept
<1>7. permits'[In[e]] = permits[In[e]] + 1 /\ \A d \in Dir \ {In[e]} : permits'[d] = permits[d]
  BY <1>1, <1>2 DEF PermitsKept
<1>8. permits' \in [Dir -> 0..Permits]
  <2>1. permits[In[e]] + 1 \in 0..Permits
    BY <1>5, <1>6
  <2>2. QED
    BY <1>2, <2>1 DEF PermitsKept
<1>9. permits'[In[e]] + Cardinality(Holding(In[e])') = Permits
  BY <1>3, <1>5, <1>6, <1>7
<1>10. ASSUME NEW d \in Dir \ {In[e]} PROVE permits'[d] + Cardinality(Holding(d)') = Permits
  BY <1>4, <1>7 DEF PermitsKept
<1>11. QED
  BY <1>8, <1>9, <1>10 DEF PermitsKept

\* The semaphores are free at first.
LEMMA InitPermits == Init => PermitsKept
<1> SUFFICES ASSUME Init PROVE PermitsKept
  OBVIOUS
<1>1. \A d \in Dir : Holding(d) = {}
  BY DEF Init, Holding
<1>2. permits \in [Dir -> 0..Permits] /\ \A d \in Dir : permits[d] = Permits
  BY RecoveryAssumption DEF Init
<1>3. QED
  BY <1>1, <1>2, FS_EmptySet, RecoveryAssumption DEF PermitsKept

\* Every step keeps the semaphores.
LEMMA NextPermits == ASSUME Core, PermitsKept, [Next]_vars PROVE PermitsKept'
<1>0. Types /\ Files /\ Dirs /\ Walks
  BY DEF Core
<1>1. ASSUME NEW e \in Entry, Acquire(e) PROVE PermitsKept'
  <2>1. PICK j \in {"walk", "done", "check"} :
          /\ j = FirstStep(e) /\ job[e] = "queued" /\ permits[In[e]] > 0
          /\ job' = [job EXCEPT ![e] = j]
          /\ permits' = IF j = "done" THEN permits ELSE [permits EXCEPT ![In[e]] = @ - 1]
    BY <1>1 DEF Acquire, Becomes, FirstStep, Sema
  <2>2. CASE j = "done"
    <3>1. \A q \in Entry : job'[q] \in Waits <=> job[q] \in Waits
      BY <1>0, <2>1, <2>2 DEF Waits, Types
    <3>2. QED
      BY <2>1, <2>2, <3>1, HoldersStay
  <2>3. CASE j # "done"
    <3>1. j \notin Waits /\ permits' = [permits EXCEPT ![In[e]] = @ - 1]
      BY <2>1, <2>3 DEF Waits
    <3>2. QED
      BY <1>0, <2>1, <3>1, HolderTakes
  <2>4. QED
    BY <2>2, <2>3
<1>2. ASSUME NEW e \in Entry, job[e] \notin Waits, NEW j, j \notin Waits,
             Becomes(e, j), UNCHANGED permits
      PROVE  PermitsKept'
  <2>1. \A q \in Entry : job'[q] \in Waits <=> job[q] \in Waits
    BY <1>0, <1>2 DEF Becomes, Types
  <2>2. QED
    BY <1>2, <2>1, HoldersStay
<1>3. \A f \in File : f \in Entry
  BY RecoveryAssumption DEF Entry
<1>4. ASSUME NEW e \in Entry, EntryStep(e) PROVE PermitsKept'
  <2>1. CASE Acquire(e)
    BY <1>1, <2>1
  <2>2. CASE SubwalkReturns(e)
    BY <1>0, <2>2, HolderReturns DEF SubwalkReturns, Waits
  <2>3. CASE Healthy(e)
    BY <1>0, <2>3, HolderReturns DEF Healthy, Waits
  <2>4. CASE DataLoss(e)
    <3>1. job[e] \notin Waits /\ "snapshot2" \notin Waits /\ Becomes(e, "snapshot2") /\ UNCHANGED permits
      BY <2>4 DEF DataLoss, Waits
    <3>2. QED
      BY <1>2, <3>1
  <2>5. CASE Mark(e)
    BY <1>0, <2>5, HolderReturns DEF Mark, Waits
  <2>6. ASSUME NEW s \in Snapshot, Restore(e, s) PROVE PermitsKept'
    BY <1>0, <2>6, HolderReturns DEF Restore, Waits, Snapshot
  <2>7. ASSUME NEW s \in Snapshot, BackupNotFound(e, s) PROVE PermitsKept'
    <3>1. job[e] \notin Waits /\ After(s) \notin Waits /\ Becomes(e, After(s)) /\ UNCHANGED permits
      BY <2>7 DEF BackupNotFound, Waits, After, Snapshot
    <3>2. QED
      BY <1>2, <3>1
  <2>8. QED
    BY <1>4, <2>1, <2>2, <2>3, <2>4, <2>5, <2>6, <2>7 DEF EntryStep
<1>5. ASSUME NEW f \in File, CheckFails(f) PROVE PermitsKept'
  <2>1. job[f] \notin Waits /\ "snapshot2" \notin Waits /\ f \in Entry
    BY <1>3, <1>5 DEF CheckFails, Waits
  <2>2. CASE Returns(f)
    BY <1>0, <2>1, <2>2, HolderReturns
  <2>3. CASE Becomes(f, "snapshot2") /\ UNCHANGED permits
    BY <1>2, <2>1, <2>3
  <2>4. QED
    BY <1>5, <2>2, <2>3 DEF CheckFails
<1>6. ASSUME NEW f \in File, MarkFails(f) PROVE PermitsKept'
  BY <1>0, <1>3, <1>6, HolderReturns DEF MarkFails, Waits
<1>7. ASSUME NEW f \in File, NEW s \in Snapshot, RestoreFails(f, s) PROVE PermitsKept'
  <2>1. /\ job[f] \notin Waits /\ After(s) \notin Waits /\ f \in Entry
        /\ Becomes(f, After(s)) /\ UNCHANGED permits
    BY <1>3, <1>7 DEF RestoreFails, Waits, After, Snapshot
  <2>2. QED
    BY <1>2, <2>1
<1>8. ASSUME NEW d \in Dir, List(d) PROVE PermitsKept'
  <2>1. /\ walk[d] = "list" /\ permits' = permits
        /\ job' = [e \in Entry |-> IF e \in Page(d) THEN "queued" ELSE job[e]]
    BY <1>8 DEF List
  <2>2. ASSUME NEW e \in Page(d), e \in Entry PROVE job[e] \in {"none", "done"}
    <3>1. WalkInv(e) /\ In[e] = d
      BY <1>0, <2>2 DEF Walks, Page, Rest
    <3>2. QED
      BY <2>1, <3>1 DEF WalkInv
  <2>3. \A e \in Entry : job'[e] \in Waits <=> job[e] \in Waits
    BY <2>1, <2>2 DEF Waits
  <2>4. QED
    BY <2>1, <2>3, HoldersStay
<1>9. ASSUME NEW d \in Dir, PageDone(d) \/ ListFails(d) PROVE PermitsKept'
  <2>1. job' = job /\ permits' = permits
    BY <1>9 DEF PageDone, ListFails
  <2>2. QED
    BY <2>1, HoldersStay
<1>10. CASE RunAgain
  <2>1. \A e \in Entry : job[e] \in {"none", "done"}
    BY <1>10, NobodyLeft DEF RunAgain
  <2>2. permits' = permits /\ \A e \in Entry : job'[e] = "none"
    BY <1>10 DEF RunAgain
  <2>3. \A e \in Entry : job'[e] \in Waits <=> job[e] \in Waits
    BY <2>1, <2>2 DEF Waits
  <2>4. QED
    BY <2>2, <2>3, HoldersStay
<1>11. CASE UNCHANGED vars
  <2>1. job' = job /\ permits' = permits
    BY <1>11 DEF vars
  <2>2. QED
    BY <2>1, HoldersStay
<1>12. QED
  BY <1>4, <1>5, <1>6, <1>7, <1>8, <1>9, <1>10, <1>11 DEF Next, WalkStep

-----------------------------------------------------------------------------
(* The theorems.                                                           *)

\* The invariant holds in every state of every behaviour.
LEMMA Invariant == Spec => []IInv
<1>1. Init => IInv
  BY InitCore, InitPermits DEF IInv
<1>2. IInv /\ [Next]_vars => IInv'
  BY NextCore, NextPermits DEF IInv
<1>3. QED
  BY <1>1, <1>2, PTL DEF Spec

\* The state of a recovery keeps its types; in particular no semaphore ever has
\* more permits than it began with, over any number of runs.
THEOREM RecoveryTypeCorrect == Spec => []TypeOK
<1>1. IInv => TypeOK
  <2> SUFFICES ASSUME IInv PROVE TypeOK
    OBVIOUS
  <2>1. Types /\ permits \in [Dir -> 0..Permits]
    BY DEF IInv, Core, PermitsKept
  <2>2. marks \in [File -> Nat]
    BY <2>1 DEF Types
  <2>3. QED
    BY <2>1, <2>2 DEF Types, TypeOK
<1>2. QED
  BY <1>1, Invariant, PTL

\* When a run that is not dry has ended and all directories could be listed,
\* every file without a failed request is good, restored from the newest snapshot
\* that has it, or, without a backup, marked once: for every tree of directories,
\* every page size and all names, although files change their names while the
\* pages are listed.
THEOREM RunSettlesEveryFileAlways == Spec => []RunSettlesEveryFile
<1>1. IInv => RunSettlesEveryFile
  <2> SUFFICES ASSUME IInv, Ended, ~dryRun, missedDirs = {}, NEW f \in File \ troubled
               PROVE  IF marks[f] > 0
                        THEN marks[f] = 1 /\ Backup[f] = {}
                        ELSE /\ content[f] # "lost"
                             /\ content[f] = "snapshot" => "snapshot2" \notin Backup[f]
    BY DEF RunSettlesEveryFile
  <2>1. Types /\ Files /\ Dirs /\ Walks
    BY DEF IInv, Core
  <2> DEFINE S == {d \in Dir \ {Root} : walk[d] # "done"}
  <2>2. ASSUME NEW d \in S PROVE In[d] \in S
    <3>1. d \in Entry /\ DirInv(d) /\ WalkInv(d) /\ In[d] \in Dir
      BY <2>1, NamesType DEF Dirs, Walks, Entry
    <3>2. job[d] # "done"
      BY <3>1 DEF DirInv
    <3>3. walk[In[d]] # "done"
      BY <3>1, <3>2 DEF WalkInv
    <3>4. QED
      BY <3>1, <3>3 DEF Ended
  <2>3. S = {}
    BY <2>2, RecoveryAssumption
  <2>4. f \in Entry /\ In[f] \in Dir /\ WalkInv(f) /\ FileInv(f) /\ marks[f] \in 0..1
    <3>1. f \in Entry
      BY RecoveryAssumption DEF Entry
    <3>2. QED
      BY <2>1, <3>1, NamesType DEF Walks, Files, Types
  <2>5. walk[In[f]] = "done"
    BY <2>3, <2>4 DEF Ended
  <2>6. job[f] = "done"
    BY <2>4, <2>5 DEF WalkInv
  <2>7. QED
    BY <2>4, <2>6 DEF FileInv
<1>2. QED
  BY <1>1, Invariant, PTL
\* A step of the goroutine of f that may change content and mark of f alone.
LEMMA ChangeIsOfDamaged ==
  ASSUME Core, NEW f \in File,
         \/ Mark(f) \/ MarkFails(f)
         \/ \E s \in Snapshot : Restore(f, s) \/ RestoreFails(f, s),
         NEW g \in File, content'[g] # content[g] \/ marks'[g] # marks[g]
  PROVE  /\ ~dryRun
         /\ content[g] # "good" \/ g \in troubled
         /\ job[g] \in Snapshot \cup {"mark"}
<1>0. Types /\ FileInv(f)
  BY DEF Core, Files
<1>1. CASE Mark(f) \/ MarkFails(f)
  <2>1. /\ job[f] = "mark" /\ content' = content
        /\ dryRun => marks' = marks
        /\ marks' \in {marks, [marks EXCEPT ![f] = @ + 1]}
    BY <1>1 DEF Mark, MarkFails
  <2>2. g = f /\ ~dryRun
    BY <1>0, <2>1 DEF Types
  <2>3. QED
    BY <1>0, <2>1, <2>2 DEF FileInv
<1>2. ASSUME NEW s \in Snapshot, Restore(f, s) \/ RestoreFails(f, s)
      PROVE  ~dryRun /\ (content[g] # "good" \/ g \in troubled)
               /\ job[g] \in Snapshot \cup {"mark"}
  <2>1. /\ job[f] = s /\ marks' = marks
        /\ dryRun => content' = content
        /\ content' \in {content, [content EXCEPT ![f] = s]}
    BY <1>2 DEF Restore, RestoreFails
  <2>2. g = f /\ ~dryRun
    BY <1>0, <2>1 DEF Types
  <2>3. QED
    BY <1>0, <2>1, <2>2 DEF FileInv
<1>3. QED
  BY <1>1, <1>2

\* Content and name change only for a file whose read has answered 500 in this
\* run, and never in a dry run, for every tree, backup and sequence of faults.
THEOREM OnlyDamagedFilesChangeAlways == Spec => OnlyDamagedFilesChange
<1>1. IInv /\ [Next]_vars =>
        [\A f \in File :
           content'[f] # content[f] \/ marks'[f] # marks[f]
             => /\ ~dryRun
                /\ content[f] # "good" \/ f \in troubled
                /\ job[f] \in Snapshot \cup {"mark"}]_vars
  <2> SUFFICES ASSUME IInv, Next, NEW f \in File,
                      content'[f] # content[f] \/ marks'[f] # marks[f]
               PROVE  /\ ~dryRun
                      /\ content[f] # "good" \/ f \in troubled
                      /\ job[f] \in Snapshot \cup {"mark"}
    OBVIOUS
  <2>1. ~ UNCHANGED filerVars
    BY DEF filerVars
  <2>2. ~RunAgain /\ \A d \in Dir : ~WalkStep(d) /\ ~ListFails(d)
    BY <2>1 DEF RunAgain, WalkStep, List, PageDone, ListFails
  <2>3. \A e \in Entry : ~Acquire(e) /\ ~SubwalkReturns(e) /\ ~Healthy(e) /\ ~DataLoss(e)
    BY <2>1 DEF Acquire, SubwalkReturns, Healthy, DataLoss
  <2>4. /\ \A g \in File : ~CheckFails(g)
        /\ \A e \in Entry, s \in Snapshot : ~BackupNotFound(e, s)
    BY <2>1 DEF CheckFails, BackupNotFound
  <2>5. \E g \in File : \/ Mark(g) \/ MarkFails(g)
                        \/ \E s \in Snapshot : Restore(g, s) \/ RestoreFails(g, s)
    BY <2>2, <2>3, <2>4 DEF Next, EntryStep
  <2>6. Core
    BY DEF IInv
  <2>7. QED
    BY <2>5, <2>6, ChangeIsOfDamaged
<1>2. QED
  BY <1>1, Invariant, PTL DEF Spec, OnlyDamagedFilesChange
=============================================================================
