--------------------------- MODULE SyncTaskProofs ---------------------------
(***************************************************************************)
(* Theorems about SyncTask, for every set of paths and contents, every     *)
(* plugin mode and every bound.                                            *)
(***************************************************************************)
EXTENDS SyncTask, FiniteSetTheorems, WellFoundedInduction, TLAPS

-----------------------------------------------------------------------------
(* The differ and the file checks.                                         *)

(***************************************************************************)
(* Diff reports no change exactly when the manifests are equal             *)
(* (differ.go, HasChanges).                                                *)
(***************************************************************************)
LEMMA NoChangesMeansEqual ==
  ASSUME NEW before \in Tree, NEW after \in Tree
  PROVE  ~HasChanges(before, after) <=> before = after
<1>1. ASSUME ~HasChanges(before, after) PROVE before = after
  <2>1. \A p \in Path : before[p] = after[p]
    BY <1>1 DEF HasChanges, Added, Modified, Removed, PathsOf
  <2> QED BY <2>1 DEF Tree
<1>2. ASSUME before = after PROVE ~HasChanges(before, after)
  BY <1>2 DEF HasChanges, Added, Modified, Removed, PathsOf
<1> QED BY <1>1, <1>2

(***************************************************************************)
(* An entry that is not fetched is one the two manifests agree on.         *)
(***************************************************************************)
LEMMA UnfetchedIsUnchanged ==
  ASSUME NEW before, NEW after, NEW p \in PathsOf(after),
         p \notin ToFetch(before, after)
  PROVE  before[p] = after[p]
BY DEF ToFetch, Added, Modified, PathsOf

LEMMA EmptyIsTree == Empty \in Tree
BY DEF Empty, Tree

LEMMA CombinedType == \A t \in Tree : CombineFingerprint(t) \in Fp
<1>1. (CHOOSE s \in Salt : TRUE) \in Salt
  BY SaltAssumption
<1> QED BY <1>1 DEF CombineFingerprint, Fp, Commit

(***************************************************************************)
(* nextVersionDir gives a name that no directory has.                      *)
(***************************************************************************)
LEMMA NamesAreNew ==
  ASSUME TypeOK, NEW v \in Names, Ahead(v) \/ Behind(v)
  PROVE  v \notin versions /\ v # NoVersion
<1>1. v # NoVersion /\ \A w \in versions : w \in Int
  BY DEF Names, NoVersion, TypeOK
<1> QED BY <1>1 DEF Ahead, Behind, InUse

LEMMA FittingIsContent ==
  ASSUME NEW t \in Tree, NEW p \in Path, NEW e, Fits(t[p], e)
  PROVE  t[p] \in Content
BY DEF Fits, Tree
-----------------------------------------------------------------------------
(* Type correctness.                                                       *)

LEMMA TypeInit == Init => TypeOK
<1> SUFFICES ASSUME Init PROVE TypeOK
  OBVIOUS
<1>1. ZeroState \in StateT /\ [tree |-> Empty, fp |-> NoFp] \in ManifestT
  BY EmptyIsTree, BoundAssumption DEF ZeroState, StateT, ManifestT, Fp
<1>2. /\ files \in [Names -> Tree] /\ goal \in [Names -> Tree]
      /\ 0 \in 0..MaxEdits /\ 0 \in 0..MaxCrashes /\ 0 \in 0..MaxFaults
      /\ 0 \in 0..MaxBacks
  BY EmptyIsTree, BoundAssumption DEF Init
<1>3. NoFp \in Fp
  BY DEF Fp
<1> QED
  BY EmptyIsTree, <1>1, <1>2, <1>3 DEF Init, TypeOK, Unsaved, Switched

LEMMA RemoveAllType ==
  ASSUME TypeOK, NEW v \in Names, RemoveAll(v)
  PROVE  /\ versions' \subseteq Names /\ meta' \subseteq Names
         /\ files' \in [Names -> Tree] /\ goal' \in [Names -> Tree]
BY EmptyIsTree DEF RemoveAll, TypeOK

LEMMA RemovePartType ==
  ASSUME TypeOK, NEW v \in Names, RemovePart(v)
  PROVE  /\ versions' \subseteq Names /\ meta' \subseteq Names
         /\ files' \in [Names -> Tree] /\ goal' \in [Names -> Tree]
<1>1. PICK left \in SUBSET Path :
        files' = [files EXCEPT ![v] =
                    [p \in Path |-> IF p \in left THEN files[v][p] ELSE None]]
  BY DEF RemovePart
<1>2. [p \in Path |-> IF p \in left THEN files[v][p] ELSE None] \in Tree
  BY DEF TypeOK, Tree
<1>3. files' \in [Names -> Tree]
  BY <1>1, <1>2 DEF TypeOK
<1> QED BY <1>3 DEF RemovePart, TypeOK

LEMMA HalfRemovedType ==
  ASSUME TypeOK, HalfRemoved
  PROVE  /\ versions' \subseteq Names /\ meta' \subseteq Names
         /\ files' \in [Names -> Tree] /\ goal' \in [Names -> Tree]
<1>1. CASE UNCHANGED <<versions, files, goal, meta>>
  BY <1>1 DEF TypeOK
<1>2. CASE \E v \in Names : RemovePart(v)
  BY <1>2, RemovePartType
<1>3. pc = "rollback" => new \in Names
  BY DEF TypeOK
<1> QED BY <1>1, <1>2, <1>3 DEF HalfRemoved

LEMMA TypeStep == TypeOK /\ [Next]_vars => TypeOK'
<1> SUFFICES ASSUME TypeOK, [Next]_vars PROVE TypeOK'
  OBVIOUS
<1> USE DEF TypeOK, Step, Unsaved, Switched
<1>a. ZeroState \in StateT /\ NoVersion \in Names \cup {NoVersion} /\ NoFp \in Fp
  BY EmptyIsTree, BoundAssumption DEF ZeroState, StateT, Fp
<1>1. CASE StartSync
  BY <1>1, EmptyIsTree DEF StartSync, budgets
<1>2. CASE LsRemote \/ Pull \/ Scan
  <2>1. src \in Fp /\ src # NoFp /\ src.tree \in Tree /\ NoFp \in Fp
    BY FpAssumption DEF Fp, Commit
  <2>2. \A f \in Fp : [tree |-> src.tree, fp |-> f] \in ManifestT
    BY <2>1 DEF ManifestT
  <2>3. CASE LsRemote
    <3>1. pc = "snapshot" /\ want = NoFp
      BY <2>3 DEF LsRemote
    <3>2. CASE cache = src
      BY <2>1, <2>2, <2>3, <3>1, <3>2 DEF LsRemote, Answer, disk, budgets
    <3>3. CASE cache # src
      BY <2>1, <2>3, <3>1, <3>3 DEF LsRemote, disk, budgets
    <3> QED BY <3>2, <3>3
  <2>4. CASE Pull
    <3>1. snap' \in ManifestT
      BY <2>2, <2>4 DEF Pull, Answer
    <3> QED BY <2>1, <2>4, <3>1 DEF Pull, Answer, budgets
  <2>5. CASE Scan
    <3>1. snap' \in ManifestT /\ want = NoFp
      BY <2>1, <2>2, <2>5, CombinedType DEF Scan, Answer
    <3> QED BY <2>5, <3>1 DEF Scan, Answer, disk, budgets
  <2> QED BY <1>2, <2>3, <2>4, <2>5
<1>3. CASE RecordNoChange
  <2>1. [manifest |-> st.manifest, fp |-> snap.fp, failures |-> 0] \in StateT
    BY BoundAssumption DEF StateT, ManifestT
  <2>2. faults' \in 0..MaxFaults
    BY <1>3, BoundAssumption DEF RecordNoChange
  <2> QED BY <1>3, <1>a, <2>1, <2>2 DEF RecordNoChange, Forget
<1>4. ASSUME NEW p \in Path, FetchFile(p) PROVE TypeOK'
  <2>1. staged' \in Tree
    BY <1>4 DEF FetchFile, Fetched, Fits, Tree, ManifestT, Commit
  <2> QED BY <1>4, <2>1 DEF FetchFile, budgets
<1>5. CASE CreateVersion
  <2> PICK v \in Names :
         /\ new' = v
         /\ versions' = versions \cup {v}
         /\ files' = [files EXCEPT ![v] = Empty]
         /\ goal' = [goal EXCEPT ![v] = snap.tree]
         /\ backs' = backs \/ (backs < MaxBacks /\ backs' = backs + 1)
    BY <1>5 DEF CreateVersion
  <2>1. files' \in [Names -> Tree] /\ goal' \in [Names -> Tree]
    BY EmptyIsTree DEF ManifestT
  <2>2. backs' \in 0..MaxBacks
    BY BoundAssumption
  <2> QED BY <1>5, <2>1, <2>2 DEF CreateVersion
<1>6. ASSUME NEW p \in Path, LinkEntry(p) PROVE TypeOK'
  <2>1. CASE ~Fits(LinkSource(p), snap.tree[p])
    BY <1>6, <2>1 DEF LinkEntry, budgets
  <2>2. CASE Fits(LinkSource(p), snap.tree[p])
    <3>1. LinkSource(p) \in Content \cup {None}
      BY DEF LinkSource, Tree
    <3>2. [files[new] EXCEPT ![p] = LinkSource(p)] \in Tree
      BY <1>6, <3>1 DEF LinkEntry, Tree
    <3>3. files' \in [Names -> Tree]
      BY <1>6, <2>2, <3>2 DEF LinkEntry
    <3> QED BY <1>6, <2>2, <3>3 DEF LinkEntry, budgets
  <2> QED BY <2>1, <2>2
<1>7. CASE Switch
  BY <1>7 DEF Switch, budgets
<1>8. CASE ClearStaging
  BY <1>8, EmptyIsTree DEF ClearStaging, budgets
<1>9. CASE WriteManifestFile
  BY <1>9 DEF WriteManifestFile, budgets
<1>10. CASE Cleanup
  BY <1>10 DEF Cleanup, Doomed, Expired, Excess, disk, budgets
<1>11. CASE Prune
  <2> PICK v \in Names : RemoveAll(v) /\ doomed' = doomed \ {v}
    BY <1>11 DEF Prune
  <2>1. /\ versions' \subseteq Names /\ meta' \subseteq Names
        /\ files' \in [Names -> Tree] /\ goal' \in [Names -> Tree]
    BY RemoveAllType
  <2> QED BY <1>11, <2>1 DEF Prune, budgets
<1>12. CASE SaveState
  <2>1. state' \in StateT
    BY <1>12, BoundAssumption DEF SaveState, StateT, ManifestT
  <2> QED BY <1>12, <1>a, <2>1 DEF SaveState, Forget, budgets
<1>13. CASE RecordFailure
  <2>1. [state EXCEPT !.failures = IF @ < FailureCap THEN @ + 1 ELSE @] \in StateT
    BY BoundAssumption DEF StateT
  <2>2. faults' \in 0..MaxFaults
    BY <1>13, BoundAssumption DEF RecordFailure
  <2> QED BY <1>13, <1>a, <2>1, <2>2 DEF RecordFailure, Forget
<1>14. CASE Edit
  BY <1>14, BoundAssumption DEF Edit, disk, memory
<1>15. CASE StepFails
  <2>1. faults' \in 0..MaxFaults /\ torn' \in BOOLEAN /\ cache' \in Fp /\ want' = NoFp
    BY <1>15, BoundAssumption DEF StepFails, HalfPulled, Fp
  <2>2. /\ versions' \subseteq Names /\ meta' \subseteq Names
        /\ files' \in [Names -> Tree] /\ goal' \in [Names -> Tree]
    BY <1>15, HalfRemovedType DEF StepFails
  <2>3. pc' \in {"rollback", "failed"} /\ (pc' = "rollback" => pc \in {"link"} \cup Unsaved)
    BY <1>15 DEF StepFails
  <2> QED BY <1>15, <1>a, <2>1, <2>2, <2>3 DEF StepFails
<1>16. CASE Crash
  <2>1. crashes' \in 0..MaxCrashes /\ torn' \in BOOLEAN /\ cache' \in Fp
    BY <1>16, BoundAssumption DEF Crash, HalfPulled, Fp
  <2>2. /\ versions' \subseteq Names /\ meta' \subseteq Names
        /\ files' \in [Names -> Tree] /\ goal' \in [Names -> Tree]
    BY <1>16, HalfRemovedType DEF Crash
  <2> QED BY <1>16, <1>a, <2>1, <2>2 DEF Crash, Forget
<1>18. CASE RollBack
  <2>1. new \in Names /\ pc' = "failed" /\ want = NoFp
    BY <1>18 DEF RollBack
  <2>2. /\ versions' \subseteq Names /\ meta' \subseteq Names
        /\ files' \in [Names -> Tree] /\ goal' \in [Names -> Tree]
    BY <1>18, <2>1, RemoveAllType, RemovePartType DEF RollBack
  <2>3. faults' \in 0..MaxFaults
    BY <1>18, BoundAssumption DEF RollBack
  <2> QED BY <1>18, <2>1, <2>2, <2>3 DEF RollBack
<1>17. CASE UNCHANGED vars
  BY <1>17 DEF vars, disk, memory, budgets
<1> QED
  BY <1>1, <1>2, <1>3, <1>4, <1>5, <1>6, <1>7, <1>8, <1>9, <1>10, <1>11,
     <1>12, <1>13, <1>14, <1>15, <1>16, <1>17, <1>18
  DEF Next, Pipeline

(* Every variable keeps its type: TypeOK of the safety run.                *)
THEOREM TypeCorrect == Spec => []TypeOK
BY TypeInit, TypeStep, PTL DEF Spec
-----------------------------------------------------------------------------
(* The stored fingerprint.                                                 *)

(***************************************************************************)
(* FpInv: a sync works with the state it loaded, and concludes "no change" *)
(* only if UpToDate says so.                                               *)
(***************************************************************************)
FpInv ==
  /\ pc \notin {"idle", "failed"} => st = state
  /\ pc = "nochange" => UpToDate(snap)

LEMMA FpInit == Init => FpInv
BY DEF Init, FpInv

LEMMA FpStep == TypeOK /\ FpInv /\ [Next]_vars => FpInv'
<1> SUFFICES ASSUME TypeOK, FpInv, [Next]_vars PROVE FpInv'
  OBVIOUS
<1> USE DEF FpInv
<1>1. CASE StartSync
  BY <1>1 DEF StartSync
<1>2. CASE LsRemote \/ Pull \/ Scan
  <2>1. st' = st /\ state' = state /\ pc \in {"snapshot", "pull"}
    BY <1>2 DEF LsRemote, Pull, Scan, disk
  <2>2. pc' = "nochange" => UpToDate(snap)'
    BY <1>2, <2>1 DEF LsRemote, Pull, Scan, Answer, UpToDate
  <2> QED BY <2>1, <2>2
<1>3. CASE RecordNoChange \/ SaveState \/ RecordFailure \/ Crash
  BY <1>3 DEF RecordNoChange, SaveState, RecordFailure, Crash, Forget
<1>4. CASE (\E p \in Path : FetchFile(p) \/ LinkEntry(p))
  BY <1>4 DEF FetchFile, LinkEntry, UpToDate
<1>5. CASE CreateVersion
  BY <1>5 DEF CreateVersion
<1>6. CASE Switch \/ ClearStaging \/ WriteManifestFile
  BY <1>6 DEF Switch, ClearStaging, WriteManifestFile
<1>7. CASE RollBack \/ Cleanup \/ Prune
  BY <1>7 DEF RollBack, Cleanup, Prune, disk
<1>8. CASE StepFails
  BY <1>8 DEF StepFails, Switched, Unsaved
<1>9. CASE Edit \/ UNCHANGED vars
  BY <1>9 DEF Edit, vars, disk, memory, UpToDate
<1> QED
  BY <1>1, <1>2, <1>3, <1>4, <1>5, <1>6, <1>7, <1>8, <1>9 DEF Next, Pipeline

LEMMA FpInvariant == Spec => []FpInv
<1>1. TypeOK /\ TypeOK' /\ FpInv /\ [Next]_vars => FpInv'
  BY FpStep
<1> QED BY <1>1, FpInit, TypeCorrect, PTL DEF Spec

Pair(s) == <<s.manifest, s.fp>>

(***************************************************************************)
(* What a step does to the stored pair: nothing, or the snapshot's pair.   *)
(***************************************************************************)
LEMMA PairStep ==
  ASSUME TypeOK, FpInv, [Next]_vars, Pair(state') # Pair(state)
  PROVE  state'.manifest = snap.tree /\ state'.fp = snap.fp
<1> USE DEF Pair
<1>1. CASE SaveState
  BY <1>1 DEF SaveState
<1>2. CASE RecordNoChange
  <2>1. st = state /\ UpToDate(snap) /\ state'.manifest = st.manifest /\ state'.fp = snap.fp
    BY <1>2 DEF RecordNoChange, FpInv
  <2>2. snap.fp # st.fp
    BY <2>1
  <2>3. st.manifest = snap.tree
    BY <2>1, <2>2, NoChangesMeansEqual DEF UpToDate, TypeOK, StateT, ManifestT
  <2> QED BY <2>1, <2>3
<1>3. CASE RecordFailure
  BY <1>3 DEF RecordFailure, TypeOK, StateT
<1>4. CASE ~(SaveState \/ RecordNoChange \/ RecordFailure)
  <2>1. UNCHANGED state
    BY <1>4 DEF Next, Pipeline, StartSync, LsRemote, Pull, Scan, FetchFile,
       CreateVersion, LinkEntry, Switch, ClearStaging, WriteManifestFile, RollBack,
       Cleanup, Prune, Edit, StepFails, Crash, vars, disk
  <2> QED BY <2>1
<1> QED BY <1>1, <1>2, <1>3, <1>4

(***************************************************************************)
(* Stored fingerprint and stored manifest are always those of one and the  *)
(* same snapshot, through every failure and crash: FpIsOfManifest of the   *)
(* safety run.                                                             *)
(***************************************************************************)
THEOREM FingerprintIsOfManifest == Spec => FpIsOfManifest
<1> DEFINE Together == <<state'.manifest, state'.fp>> # <<state.manifest, state.fp>> =>
                         state'.manifest = snap.tree /\ state'.fp = snap.fp
<1>1. TypeOK /\ FpInv /\ [Next]_vars => [Together]_vars
  BY PairStep DEF Pair
<1> QED BY <1>1, TypeCorrect, FpInvariant, PTL DEF Spec, FpIsOfManifest

(***************************************************************************)
(* The labels: fingerprints that belong to the trees they are stored with. *)
(***************************************************************************)
Labelled == OwnTree(state.fp, state.manifest) /\ OwnTree(snap.fp, snap.tree)

LabelsSlip == [][Labelled /\ ~Labelled' => pc = "pull" /\ want.tree # src.tree]_vars

(***************************************************************************)
(* A fingerprint is given to the tree of another commit in one way only:   *)
(* plugin-git's branch moved between ls-remote and fetch.  Without that,   *)
(* and always with plugin-local, the short cut rests on right labels.      *)
(***************************************************************************)
THEOREM LabelsSlipOnlyInPull == Spec => LabelsSlip
<1> DEFINE Slips == Labelled /\ ~Labelled' => pc = "pull" /\ want.tree # src.tree
<1>1. TypeOK /\ FpInv /\ [Next]_vars => [Slips]_vars
  <2> SUFFICES ASSUME TypeOK, FpInv, [Next]_vars, Labelled, ~Labelled'
               PROVE  pc = "pull" /\ want.tree # src.tree
    OBVIOUS
  <2>1. OwnTree(state'.fp, state'.manifest)
    BY PairStep DEF Labelled, Pair
  <2>2. ~OwnTree(snap'.fp, snap'.tree) /\ snap' # snap
    BY <2>1 DEF Labelled
  <2>3. LsRemote \/ Pull \/ Scan
    BY <2>2 DEF Next, Pipeline, StartSync, RecordNoChange, FetchFile, CreateVersion,
       LinkEntry, Switch, ClearStaging, WriteManifestFile, RollBack, Cleanup, Prune,
       SaveState, RecordFailure, Edit, StepFails, Crash, vars, memory
  <2>4. ~LsRemote
    BY <2>2 DEF LsRemote, Answer, OwnTree
  <2>5. ~Scan
    BY <2>2 DEF Scan, Answer, OwnTree, CombineFingerprint
  <2>6. Pull
    BY <2>3, <2>4, <2>5
  <2> QED BY <2>2, <2>6 DEF Pull, Answer, OwnTree
<1> QED BY <1>1, TypeCorrect, FpInvariant, PTL DEF Spec, LabelsSlip
-----------------------------------------------------------------------------
(* What Apply and Cleanup touch.                                           *)

(***************************************************************************)
(* ApplyInv: the version under assembly or in roll-back exists, has no     *)
(* metadata, and holds only entries of its manifest while it is linked;    *)
(* after the switch it is the current one; Cleanup's victims are versions  *)
(* other than the current one.                                             *)
(***************************************************************************)
ApplyInv ==
  /\ meta \subseteq versions
  /\ pc \in {"link", "rollback"} => new \in versions /\ new \notin meta
  /\ pc = "link" =>
       /\ goal[new] = snap.tree
       /\ \A p \in Path : files[new][p] # None => Fits(files[new][p], snap.tree[p])
       /\ \A p \in Path : files[new][p] # None => snap.tree[p] # None
  /\ pc \in Unsaved => new = current /\ new \in versions /\ goal[new] = snap.tree
  /\ pc \in Switched => new \notin meta
  /\ pc \in {"retention", "prune", "save"} => new \in meta
  /\ doomed \subseteq versions \ {current}
  /\ pc # "prune" => doomed = {}

LEMMA ApplyInit == Init => ApplyInv
BY DEF Init, ApplyInv, Unsaved, Switched

LEMMA ApplyStep == TypeOK /\ ApplyInv /\ [Next]_vars => ApplyInv'
<1> SUFFICES ASSUME TypeOK, ApplyInv, [Next]_vars PROVE ApplyInv'
  OBVIOUS
<1> USE DEF ApplyInv, Unsaved, Switched
<1>1. CASE StartSync
  BY <1>1 DEF StartSync
<1>2. CASE LsRemote \/ Pull \/ Scan
  <2>1. /\ pc' \in {"pull", "nochange", "fetch"} /\ pc \in {"snapshot", "pull"}
        /\ UNCHANGED <<versions, meta, current, doomed>>
    BY <1>2 DEF LsRemote, Pull, Scan, Answer, disk
  <2> QED BY <2>1
<1>3. CASE RecordNoChange
  BY <1>3 DEF RecordNoChange, Forget
<1>4. ASSUME NEW p \in Path, FetchFile(p) PROVE ApplyInv'
  BY <1>4 DEF FetchFile
<1>5. CASE CreateVersion
  <2> PICK v \in Names :
         /\ Ahead(v) \/ Behind(v)
         /\ new' = v
         /\ versions' = versions \cup {v}
         /\ files' = [files EXCEPT ![v] = Empty]
         /\ goal' = [goal EXCEPT ![v] = snap.tree]
    BY <1>5 DEF CreateVersion
  <2>1. v \notin versions
    BY NamesAreNew
  <2>2. goal'[v] = snap.tree /\ \A p \in Path : files'[v][p] = None
    BY DEF TypeOK, Empty
  <2>3. pc = "fetch" /\ pc' = "link" /\ UNCHANGED <<meta, current, doomed, snap>>
    BY <1>5 DEF CreateVersion
  <2> QED BY <2>1, <2>2, <2>3
<1>6. ASSUME NEW p \in Path, LinkEntry(p) PROVE ApplyInv'
  <2>0. pc = "link" /\ new \in Names
    BY <1>6 DEF LinkEntry, TypeOK
  <2>1. CASE ~Fits(LinkSource(p), snap.tree[p])
    BY <1>6, <2>0, <2>1 DEF LinkEntry
  <2>2. CASE Fits(LinkSource(p), snap.tree[p])
    <3>1. \A q \in Path : q # p => files'[new][q] = files[new][q]
      BY <1>6, <2>0, <2>2 DEF LinkEntry, TypeOK, Tree
    <3>2. files'[new][p] = LinkSource(p)
      BY <1>6, <2>0, <2>2 DEF LinkEntry, TypeOK, Tree
    <3>3. snap.tree[p] # None
      BY <1>6 DEF LinkEntry, Unlinked, PathsOf
    <3> QED BY <1>6, <2>0, <2>2, <3>1, <3>2, <3>3 DEF LinkEntry
  <2> QED BY <2>1, <2>2
<1>7. CASE Switch
  BY <1>7 DEF Switch
<1>8. CASE ClearStaging
  BY <1>8 DEF ClearStaging
<1>9. CASE WriteManifestFile
  BY <1>9 DEF WriteManifestFile
<1>10. CASE Cleanup
  BY <1>10 DEF Cleanup, Doomed, Expired, Excess, disk
<1>11. CASE Prune
  <2> PICK v \in Names :
         /\ Victim(v)
         /\ RemoveAll(v)
         /\ doomed' = doomed \ {v}
         /\ pc' = IF doomed' = {} THEN "save" ELSE "prune"
    BY <1>11 DEF Prune
  <2>1. v # new /\ new = current /\ pc = "prune"
    BY <1>11 DEF Prune, Victim
  <2>2. goal'[new] = goal[new] /\ versions' = versions \ {v} /\ meta' = meta \ {v}
    BY <2>1 DEF TypeOK, RemoveAll
  <2> QED BY <1>11, <2>1, <2>2 DEF Prune
<1>12. CASE SaveState
  BY <1>12 DEF SaveState, Forget
<1>13. CASE RecordFailure
  BY <1>13 DEF RecordFailure, Forget
<1>14. CASE Edit
  BY <1>14 DEF Edit, disk, memory
<1>15. CASE StepFails
  <2>1. versions' = versions /\ meta' \subseteq meta /\ UNCHANGED <<current, new>>
    BY <1>15 DEF StepFails, HalfRemoved, RemovePart
  <2>2. pc' = "failed" \/ (pc' = "rollback" /\ pc \in {"link"} \cup Switched)
    BY <1>15 DEF StepFails
  <2>3. doomed' = {}
    BY <1>15 DEF StepFails
  <2> QED BY <2>1, <2>2, <2>3
<1>16. CASE Crash
  <2>1. versions' = versions /\ meta' \subseteq meta
    BY <1>16 DEF Crash, HalfRemoved, RemovePart
  <2> QED BY <1>16, <2>1 DEF Crash, Forget
<1>17. CASE RollBack
  <2>1. pc' = "failed" /\ doomed = {} /\ UNCHANGED <<current, new, doomed>>
    BY <1>17 DEF RollBack
  <2>2. meta' \subseteq versions'
    BY <1>17 DEF RollBack, RemoveAll, RemovePart
  <2> QED BY <2>1, <2>2
<1>18. CASE UNCHANGED vars
  BY <1>18 DEF vars, disk, memory
<1> QED
  BY <1>1, <1>2, <1>3, <1>4, <1>5, <1>6, <1>7, <1>8, <1>9, <1>10, <1>11,
     <1>12, <1>13, <1>14, <1>15, <1>16, <1>17, <1>18
  DEF Next, Pipeline

LEMMA ApplyInvariant == Spec => []ApplyInv
<1>1. TypeOK /\ TypeOK' /\ ApplyInv /\ [Next]_vars => ApplyInv'
  BY ApplyStep
<1> QED BY <1>1, ApplyInit, TypeCorrect, PTL DEF Spec

(***************************************************************************)
(* The stored manifest moves only to that of a version published with its  *)
(* metadata: StateFollowsMirror of the safety run, failures of every step  *)
(* included.                                                               *)
(***************************************************************************)
THEOREM StateFollows == Spec => StateFollowsMirror
<1> DEFINE Follows == state'.manifest # state.manifest =>
                        current' \in meta' /\ goal'[current'] = state'.manifest
<1>1. TypeOK /\ FpInv /\ ApplyInv /\ [Next]_vars => [Follows]_vars
  <2> SUFFICES ASSUME TypeOK, FpInv, ApplyInv, Next,
                      state'.manifest # state.manifest
               PROVE  current' \in meta' /\ goal'[current'] = state'.manifest
    BY DEF vars, disk
  <2>1. CASE SaveState
    BY <2>1 DEF SaveState, ApplyInv, Unsaved, TypeOK
  <2>2. CASE RecordNoChange
    BY <2>2 DEF RecordNoChange, FpInv
  <2>3. CASE RecordFailure
    <3>1. state'.manifest = state.manifest
      BY <2>3 DEF RecordFailure, TypeOK, StateT
    <3> QED BY <3>1
  <2>4. CASE Next /\ ~(SaveState \/ RecordNoChange \/ RecordFailure)
    <3>1. UNCHANGED state
      BY <2>4 DEF Next, Pipeline, StartSync, LsRemote, Pull, Scan, FetchFile,
         CreateVersion, LinkEntry, Switch, ClearStaging, WriteManifestFile, RollBack,
         Cleanup, Prune, Edit, StepFails, Crash, disk
    <3> QED BY <3>1
  <2> QED BY <2>1, <2>2, <2>3, <2>4
<1> QED BY <1>1, TypeCorrect, FpInvariant, ApplyInvariant, PTL DEF Spec, StateFollowsMirror
-----------------------------------------------------------------------------
(* What a step leaves alone.                                               *)

(***************************************************************************)
(* The version Apply may still write to or delete.                         *)
(***************************************************************************)
InApply(v) == v = new /\ pc \in {"link", "rollback"}

LEMMA RemovedAreOthers ==
  ASSUME TypeOK, NEW u \in Names, NEW v \in versions, v # u, RemoveAll(u) \/ RemovePart(u)
  PROVE  /\ v \in versions' /\ files'[v] = files[v] /\ goal'[v] = goal[v]
         /\ v \in meta => v \in meta'
<1>1. v \in Names
  BY DEF TypeOK
<1>2. CASE RemoveAll(u)
  BY <1>1, <1>2 DEF RemoveAll, TypeOK
<1>3. CASE RemovePart(u)
  BY <1>1, <1>3 DEF RemovePart, TypeOK
<1> QED BY <1>2, <1>3

(***************************************************************************)
(* A step changes no version but the one being linked or rolled back and   *)
(* those Cleanup has chosen.                                               *)
(***************************************************************************)
LEMMA VersionsKept ==
  ASSUME TypeOK, ApplyInv, [Next]_vars, NEW v \in versions, v \notin doomed, ~InApply(v)
  PROVE  /\ v \in versions' /\ files'[v] = files[v] /\ goal'[v] = goal[v]
         /\ v \in meta => v \in meta'
<1>a. v \in Names
  BY DEF TypeOK
<1>b. pc = "rollback" => new \in Names /\ v # new
  BY DEF TypeOK, InApply
<1>c. ASSUME HalfRemoved
      PROVE  /\ v \in versions' /\ files'[v] = files[v] /\ goal'[v] = goal[v]
             /\ v \in meta => v \in meta'
  <2>1. CASE pc \notin {"prune", "rollback"}
    BY <1>c, <2>1 DEF HalfRemoved
  <2>2. CASE pc = "prune"
    <3>1. PICK u \in Names : Victim(u) /\ RemovePart(u)
      BY <1>c, <2>2 DEF HalfRemoved
    <3> QED BY <3>1, RemovedAreOthers DEF Victim
  <2>3. CASE pc = "rollback"
    BY <1>b, <1>c, <2>3, RemovedAreOthers DEF HalfRemoved
  <2> QED BY <2>1, <2>2, <2>3
<1>1. CASE CreateVersion
  <2>1. PICK u \in Names :
         /\ Ahead(u) \/ Behind(u)
         /\ versions' = versions \cup {u}
         /\ files' = [files EXCEPT ![u] = Empty]
         /\ goal' = [goal EXCEPT ![u] = snap.tree]
    BY <1>1 DEF CreateVersion
  <2>2. v # u
    BY <2>1, NamesAreNew
  <2> QED BY <1>1, <1>a, <2>1, <2>2 DEF CreateVersion, TypeOK
<1>2. ASSUME NEW p \in Path, LinkEntry(p)
      PROVE  /\ v \in versions' /\ files'[v] = files[v] /\ goal'[v] = goal[v]
             /\ v \in meta => v \in meta'
  <2>1. pc = "link" /\ v # new
    BY <1>2 DEF LinkEntry, InApply
  <2> QED BY <1>2, <1>a, <2>1 DEF LinkEntry, TypeOK
<1>3. CASE Prune
  <2>1. PICK u \in Names : Victim(u) /\ RemoveAll(u)
    BY <1>3 DEF Prune
  <2> QED BY <2>1, RemovedAreOthers DEF Victim
<1>4. CASE RollBack
  BY <1>4, <1>b, RemovedAreOthers DEF RollBack
<1>5. CASE StepFails \/ Crash
  BY <1>5, <1>c DEF StepFails, Crash
<1>6. CASE \/ StartSync \/ LsRemote \/ Pull \/ Scan \/ RecordNoChange
           \/ \E p \in Path : FetchFile(p)
           \/ Switch \/ ClearStaging \/ WriteManifestFile \/ Cleanup \/ SaveState
           \/ RecordFailure \/ Edit \/ UNCHANGED vars
  <2>1. UNCHANGED <<versions, files, goal>> /\ meta \subseteq meta'
    BY <1>6 DEF StartSync, LsRemote, Pull, Scan, RecordNoChange, FetchFile, Switch,
       ClearStaging, WriteManifestFile, Cleanup, SaveState, RecordFailure, Edit,
       vars, disk
  <2> QED BY <2>1
<1> QED
  BY <1>1, <1>2, <1>3, <1>4, <1>5, <1>6 DEF Next, Pipeline

(***************************************************************************)
(* Only the switch moves the link.                                         *)
(***************************************************************************)
LEMMA LinkKept ==
  ASSUME [Next]_vars, ~Switch
  PROVE  current' = current
BY DEF Next, Pipeline, StartSync, LsRemote, Pull, Scan, RecordNoChange, FetchFile,
   CreateVersion, LinkEntry, ClearStaging, WriteManifestFile, RollBack, Cleanup,
   Prune, SaveState, RecordFailure, Edit, StepFails, Crash, vars, disk

LEMMA OnlyCreateAdds ==
  ASSUME [Next]_vars, ~CreateVersion
  PROVE  versions' \subseteq versions
<1>1. HalfRemoved => versions' = versions
  BY DEF HalfRemoved, RemovePart
<1>2. CASE StepFails \/ Crash
  BY <1>1, <1>2 DEF StepFails, Crash
<1>3. CASE RollBack \/ Prune
  BY <1>3 DEF RollBack, Prune, RemoveAll, RemovePart
<1>4. CASE ~(StepFails \/ Crash \/ RollBack \/ Prune)
  BY <1>4 DEF Next, Pipeline, StartSync, LsRemote, Pull, Scan, RecordNoChange,
     FetchFile, LinkEntry, Switch, ClearStaging, WriteManifestFile, Cleanup,
     SaveState, RecordFailure, Edit, vars, disk
<1> QED BY <1>2, <1>3, <1>4

(***************************************************************************)
(* The current version and the link to it change only with the switch,     *)
(* with the roll-back of what current names, and when the name of a        *)
(* dangling link is given to the next version.                             *)
(***************************************************************************)
LEMMA CurrentKept ==
  ASSUME TypeOK, ApplyInv, [Next]_vars, ~Switch, ~InApply(current),
         ~(CreateVersion /\ new' = current)
  PROVE  /\ current' = current
         /\ current \in versions' <=> current \in versions
         /\ current \in versions =>
              /\ files'[current] = files[current] /\ goal'[current] = goal[current]
              /\ current \in meta => current \in meta'
<1>1. current \notin doomed
  BY DEF ApplyInv
<1>2. current \in versions' => current \in versions
  <2>1. CASE CreateVersion
    BY <2>1 DEF CreateVersion
  <2>2. CASE ~CreateVersion
    BY <2>2, OnlyCreateAdds
  <2> QED BY <2>1, <2>2
<1> QED BY <1>1, <1>2, LinkKept, VersionsKept

LEMMA SameVersion ==
  ASSUME NEW v, Complete(v), files'[v] = files[v], goal'[v] = goal[v]
  PROVE  Complete(v)'
BY DEF Complete, Fits

(***************************************************************************)
(* What every step may do to the versions, failures of every step          *)
(* included: a directory that was published loses files, or goes, only     *)
(* when Cleanup chose it or Apply rolls it back.                           *)
(***************************************************************************)
PublishedIsFrozen ==
  [][\A v \in versions :
       v \notin versions' \/ files'[v] # files[v] \/ goal'[v] # goal[v]
         => v \in doomed \/ InApply(v)]_vars

(***************************************************************************)
(* A version once published is never written to: only the deletions of     *)
(* Cleanup and the roll-back of Apply touch it.  This is what an archive   *)
(* or export that reads it meanwhile relies on.                            *)
(***************************************************************************)
THEOREM PublishedStays == Spec => PublishedIsFrozen
<1> DEFINE Frozen == \A v \in versions :
                       v \notin versions' \/ files'[v] # files[v] \/ goal'[v] # goal[v]
                         => v \in doomed \/ InApply(v)
<1>1. TypeOK /\ ApplyInv /\ [Next]_vars => [Frozen]_vars
  BY VersionsKept
<1> QED BY <1>1, TypeCorrect, ApplyInvariant, PTL DEF Spec, PublishedIsFrozen
-----------------------------------------------------------------------------
(* The current version stays whole.                                        *)

(***************************************************************************)
(* IncompleteIsMarked: if current names a version that is not whole, some  *)
(* sync was cut short after its switch, and the version has no metadata    *)
(* file.                                                                   *)
(***************************************************************************)
IncompleteIsMarked ==
  current \in versions /\ ~Complete(current) => torn /\ current \notin meta

(***************************************************************************)
(* WholeInv: what makes it inductive.  A link that dangles, and one whose  *)
(* name the version in Apply has, are the work of a roll-back after a      *)
(* switch; between the switch and the save the version is whole.           *)
(***************************************************************************)
WholeInv ==
  /\ current \notin versions /\ current # NoVersion => torn
  /\ InApply(current) => torn
  /\ IncompleteIsMarked
  /\ pc \in Unsaved => Complete(current)

LEMMA SwitchIsWhole ==
  ASSUME TypeOK, ApplyInv, Switch
  PROVE  current' \in versions' /\ Complete(current)'
<1>1. /\ pc = "link" /\ Unlinked = {} /\ current' = new
      /\ files' = files /\ goal' = goal /\ versions' = versions
  BY DEF Switch
<1>2. ASSUME NEW p \in Path
      PROVE  IF goal[new][p] = None THEN files[new][p] = None
             ELSE Fits(files[new][p], goal[new][p])
  BY <1>1 DEF ApplyInv, Unlinked, PathsOf
<1>3. Complete(new) /\ new \in versions
  BY <1>1, <1>2 DEF Complete, ApplyInv
<1> QED BY <1>1, <1>3 DEF Complete, Fits

LEMMA TornStays == ASSUME [Next]_vars, torn PROVE torn'
BY DEF Next, Pipeline, StartSync, LsRemote, Pull, Scan, RecordNoChange, FetchFile,
   CreateVersion, LinkEntry, Switch, ClearStaging, WriteManifestFile, RollBack,
   Cleanup, Prune, SaveState, RecordFailure, Edit, StepFails, Crash, vars, memory

(***************************************************************************)
(* How a version comes to be in Apply, or to be the published one of a     *)
(* sync that goes on.                                                      *)
(***************************************************************************)
LEMMA PhaseStep ==
  ASSUME [Next]_vars, ~Switch, ~CreateVersion
  PROVE  /\ pc' \in {"link", "rollback"} =>
              new' = new /\ (pc \in {"link", "rollback"} \/ (pc \in Switched /\ torn'))
         /\ pc' \in Unsaved => pc \in Unsaved /\ new' = new
<1> USE DEF Unsaved, Switched
<1>1. CASE StepFails
  BY <1>1 DEF StepFails
<1>2. CASE LsRemote \/ Pull \/ Scan
  BY <1>2 DEF LsRemote, Pull, Scan, Answer
<1>3. CASE Cleanup \/ Prune
  BY <1>3 DEF Cleanup, Prune
<1>4. CASE ~(StepFails \/ LsRemote \/ Pull \/ Scan \/ Cleanup \/ Prune)
  BY <1>4 DEF Next, Pipeline, StartSync, RecordNoChange, FetchFile, LinkEntry,
     ClearStaging, WriteManifestFile, RollBack, SaveState, RecordFailure,
     Edit, Crash, Forget, vars, disk, memory
<1> QED BY <1>1, <1>2, <1>3, <1>4

LEMMA MetaStays ==
  ASSUME TypeOK, ApplyInv, [Next]_vars, InApply(current)
  PROVE  current \notin meta'
<1>1. pc \in {"link", "rollback"} /\ current \notin meta /\ doomed = {}
  BY DEF InApply, ApplyInv
<1>2. ~WriteManifestFile
  BY <1>1 DEF WriteManifestFile
<1>3. meta' \subseteq meta
  BY <1>1, <1>2 DEF Next, Pipeline, StartSync, LsRemote, Pull, Scan, RecordNoChange,
     FetchFile, CreateVersion, LinkEntry, Switch, ClearStaging, RollBack, Cleanup,
     Prune, SaveState, RecordFailure, Edit, StepFails, Crash, vars, disk,
     RemoveAll, RemovePart, HalfRemoved
<1> QED BY <1>1, <1>3

LEMMA WholeStep ==
  ASSUME TypeOK, ApplyInv, WholeInv, ApplyInv', [Next]_vars
  PROVE  WholeInv'
<1>1. CASE Switch
  <2>1. current' \in versions' /\ Complete(current)' /\ pc' = "clear"
    BY <1>1, SwitchIsWhole DEF Switch
  <2> QED BY <2>1 DEF WholeInv, IncompleteIsMarked, InApply
<1>2. CASE CreateVersion
  <2>1. PICK v \in Names :
         /\ Ahead(v) \/ Behind(v)
         /\ new' = v
         /\ versions' = versions \cup {v}
    BY <1>2 DEF CreateVersion
  <2>2. /\ pc = "fetch" /\ pc' = "link" /\ current' = current
        /\ meta' = meta /\ torn' = torn
    BY <1>2 DEF CreateVersion
  <2>3. v \notin versions /\ v # NoVersion
    BY <2>1, NamesAreNew
  <2>4. CASE v = current
    <3>1. torn /\ current \notin meta
      BY <2>3, <2>4 DEF WholeInv, ApplyInv
    <3> QED BY <2>2, <3>1 DEF WholeInv, IncompleteIsMarked, InApply, Unsaved, Switched
  <2>5. CASE v # current
    <3>1. ~InApply(current)
      BY <2>2 DEF InApply
    <3>2. /\ current \in versions' <=> current \in versions
          /\ current \in versions =>
               files'[current] = files[current] /\ goal'[current] = goal[current]
      BY <1>2, <2>1, <2>5, <3>1, CurrentKept DEF CreateVersion, Switch
    <3>3. current \in versions /\ Complete(current) => Complete(current)'
      BY <2>2, <3>2 DEF Complete, Fits
    <3> QED BY <2>1, <2>2, <2>5, <3>2, <3>3
      DEF WholeInv, IncompleteIsMarked, InApply, Unsaved, Switched
  <2> QED BY <2>4, <2>5
<1>3. CASE ~Switch /\ ~CreateVersion /\ InApply(current)
  <2>1. torn' /\ current' = current /\ current \notin meta'
    BY <1>3, TornStays, LinkKept, MetaStays DEF WholeInv
  <2>2. pc' \notin Unsaved
    BY <1>3, PhaseStep DEF InApply, Unsaved, Switched
  <2> QED BY <2>1, <2>2 DEF WholeInv, IncompleteIsMarked
<1>4. CASE ~Switch /\ ~CreateVersion /\ ~InApply(current)
  <2>1. /\ current' = current /\ (current \in versions' <=> current \in versions)
        /\ current \in versions =>
             files'[current] = files[current] /\ goal'[current] = goal[current]
    BY <1>4, CurrentKept
  <2>2. current \in versions /\ Complete(current) => Complete(current)'
    BY <2>1 DEF Complete, Fits
  <2>3. current \in versions /\ ~Complete(current) => current' \notin meta' \/ Complete(current)'
    <3>1. SUFFICES ASSUME current \in versions, ~Complete(current) PROVE current \notin meta'
      BY <2>1
    <3>2. current \notin meta /\ pc \notin Unsaved
      BY <3>1 DEF WholeInv, IncompleteIsMarked
    <3>3. ~WriteManifestFile
      BY <3>2 DEF WriteManifestFile, Unsaved, Switched
    <3>4. meta' \subseteq meta
      BY <1>4, <3>3 DEF Next, Pipeline, StartSync, LsRemote, Pull, Scan, RecordNoChange,
         FetchFile, LinkEntry, ClearStaging, RollBack, Cleanup, Prune, SaveState,
         RecordFailure, Edit, StepFails, Crash, vars, disk, RemoveAll, RemovePart,
         HalfRemoved
    <3> QED BY <3>2, <3>4
  <2>4. torn => torn'
    BY TornStays
  <2>5. InApply(current)' => torn'
    BY <1>4, <2>1, PhaseStep DEF InApply
  <2>6. pc' \in Unsaved => pc \in Unsaved /\ current \in versions
    BY <1>4, PhaseStep DEF ApplyInv
  <2>7. IncompleteIsMarked'
    BY <2>1, <2>2, <2>3, <2>4 DEF WholeInv, IncompleteIsMarked
  <2>8. (pc \in Unsaved => Complete(current))'
    BY <2>2, <2>6 DEF WholeInv
  <2>9. (current \notin versions /\ current # NoVersion => torn)'
    BY <2>1, <2>4 DEF WholeInv
  <2> QED BY <2>5, <2>7, <2>8, <2>9 DEF WholeInv
<1> QED BY <1>1, <1>2, <1>3, <1>4

LEMMA WholeInvariant == Spec => []WholeInv
<1>1. Init => WholeInv
  BY DEF Init, WholeInv, IncompleteIsMarked, InApply, Unsaved, Switched
<1>2. TypeOK /\ ApplyInv /\ ApplyInv' /\ WholeInv /\ [Next]_vars => WholeInv'
  BY WholeStep
<1> QED BY <1>1, <1>2, TypeCorrect, ApplyInvariant, PTL DEF Spec

(***************************************************************************)
(* Whatever fails and whenever the daemon dies: a reader who comes through *)
(* current sees an incomplete mirror only after a sync was cut short       *)
(* behind its switch (its roll-back deletes what is published, file by     *)
(* file), and what it sees then has no metadata file.                      *)
(***************************************************************************)
THEOREM IncompleteCurrentIsMarked == Spec => []IncompleteIsMarked
<1>1. WholeInv => IncompleteIsMarked
  BY DEF WholeInv
<1> QED BY <1>1, WholeInvariant, PTL

LinkBreaksInApply ==
  [][(current \in versions /\ current' \notin versions') =>
       pc = "rollback" /\ new = current /\ torn]_vars

(***************************************************************************)
(* The link comes to dangle in one way only: the roll-back of Apply        *)
(* deletes the version that current names, after a sync that was cut short *)
(* behind its switch.                                                      *)
(***************************************************************************)
THEOREM LinkBreaksOnlyInApply == Spec => LinkBreaksInApply
<1> DEFINE Breaks == (current \in versions /\ current' \notin versions') =>
                       pc = "rollback" /\ new = current /\ torn
<1>1. TypeOK /\ ApplyInv /\ WholeInv /\ [Next]_vars => [Breaks]_vars
  <2> SUFFICES ASSUME TypeOK, ApplyInv, WholeInv, [Next]_vars,
                      current \in versions, current' \notin versions'
               PROVE  pc = "rollback" /\ new = current /\ torn
    OBVIOUS
  <2>1. ~Switch
    BY SwitchIsWhole
  <2>2. ~CreateVersion
    BY DEF CreateVersion
  <2>3. InApply(current)
    BY <2>1, <2>2, CurrentKept
  <2>4. torn /\ new = current /\ pc \in {"link", "rollback"}
    BY <2>3 DEF WholeInv, InApply
  <2>5. CASE pc = "link"
    <3>1. current' = current
      BY <2>1, LinkKept
    <3>2. versions' = versions
      BY <2>5 DEF Next, Pipeline, StartSync, LsRemote, Pull, Scan, RecordNoChange,
         FetchFile, CreateVersion, LinkEntry, Switch, ClearStaging, WriteManifestFile,
         RollBack, Cleanup, Prune, SaveState, RecordFailure, Edit, StepFails, Crash,
         vars, disk, HalfRemoved
    <3> QED BY <3>1, <3>2
  <2> QED BY <2>4, <2>5
<1> QED BY <1>1, TypeCorrect, ApplyInvariant, WholeInvariant, PTL DEF Spec, LinkBreaksInApply

(***************************************************************************)
(* As long as no step of Apply fails after the switch, current always      *)
(* names a whole version: CurrentComplete of the safety run, for any       *)
(* number of crashes, of names out of order, of failures of the other      *)
(* steps and of roll-backs cut short.                                      *)
(***************************************************************************)
THEOREM CurrentStaysComplete ==
  ASSUME Faults \cap Switched = {}
  PROVE  Spec => []CurrentComplete
<1> DEFINE Kept == /\ current # NoVersion => current \in versions /\ Complete(current)
                   /\ ~InApply(current)
<1>1. Init => Kept
  BY DEF Init, InApply
<1>2. TypeOK /\ ApplyInv /\ Kept /\ [Next]_vars => Kept'
  <2> SUFFICES ASSUME TypeOK, ApplyInv, Kept, [Next]_vars PROVE Kept'
    OBVIOUS
  <2>1. CASE Switch
    <3>1. ~InApply(current)'
      BY <2>1 DEF Switch, InApply
    <3> QED BY <2>1, <3>1, SwitchIsWhole
  <2>2. CASE ~Switch
    <3>1. ~(CreateVersion /\ new' = current)
      <4>1. ASSUME CreateVersion PROVE new' \notin versions /\ new' # NoVersion
        BY <4>1, NamesAreNew DEF CreateVersion
      <4> QED BY <4>1
    <3>2. /\ current' = current /\ (current \in versions' <=> current \in versions)
          /\ current \in versions =>
               files'[current] = files[current] /\ goal'[current] = goal[current]
      BY <2>2, <3>1, CurrentKept
    <3>3. current \in versions /\ Complete(current) => Complete(current)'
      BY <3>2 DEF Complete, Fits
    <3>4. ~InApply(current)'
      <4>1. CASE CreateVersion
        BY <3>1, <3>2, <4>1 DEF InApply
      <4>2. CASE ~CreateVersion
        <5>1. SUFFICES ASSUME pc' \in {"link", "rollback"}, new' = current' PROVE FALSE
          BY DEF InApply
        <5>2. new' = new /\ pc \notin {"link", "rollback"} /\ pc \in Switched
          BY <2>2, <3>2, <4>2, <5>1, PhaseStep DEF InApply
        <5>3. ~StepFails
          BY <5>2 DEF StepFails
        <5> QED BY <2>2, <4>2, <5>1, <5>2, <5>3
          DEF Next, Pipeline, StartSync, LsRemote, Pull, Scan, RecordNoChange, FetchFile,
              LinkEntry, ClearStaging, WriteManifestFile, RollBack, Cleanup, Prune,
              SaveState, RecordFailure, Edit, Crash, Forget, Switched, vars, memory
      <4> QED BY <4>1, <4>2
    <3> QED BY <3>2, <3>3, <3>4
  <2> QED BY <2>1, <2>2
<1>3. Kept => CurrentComplete
  BY DEF CurrentComplete
<1> QED
  BY <1>1, <1>2, <1>3, TypeCorrect, ApplyInvariant, PTL DEF Spec

-----------------------------------------------------------------------------
(* The mirror and the state file.                                          *)

(***************************************************************************)
(* MirrorInv: while no sync was cut short between the switch and the save, *)
(* the mirror is the stored manifest, so that the entries Diff calls       *)
(* unchanged can be linked from the previous version; staging holds only   *)
(* what this snapshot names, because StartSync cleared it.                 *)
(***************************************************************************)
MirrorInv ==
  ~torn /\ mode = "pinned" =>
    /\ Mirror = IF pc \in Unsaved THEN snap.tree ELSE state.manifest
    /\ pc \in {"snapshot", "pull"} => staged = Empty
    /\ pc \in {"fetch", "link"} =>
         \A p \in Path : staged[p] \in {None, snap.tree[p]}
    /\ pc = "link" =>
         /\ prev = current
         /\ \A p \in ToFetch(st.manifest, snap.tree) : staged[p] # None
         /\ \A p \in Path : files[new][p] \in {None, snap.tree[p]}

LEMMA MirrorInit == Init => MirrorInv
BY DEF Init, MirrorInv, Mirror, ZeroState, Unsaved, Switched

(***************************************************************************)
(* What is linked is what the manifest names.                              *)
(***************************************************************************)
LEMMA LinkSourceExact ==
  ASSUME TypeOK, FpInv, MirrorInv, ~torn, mode = "pinned", pc = "link",
         NEW p \in Path, LinkSource(p) # None, snap.tree[p] # None
  PROVE  LinkSource(p) = snap.tree[p]
<1>1. CASE p \in ToFetch(st.manifest, snap.tree)
  BY <1>1 DEF MirrorInv, LinkSource
<1>2. CASE p \notin ToFetch(st.manifest, snap.tree)
  <2>1. state.manifest[p] = snap.tree[p]
    BY <1>2, UnfetchedIsUnchanged DEF PathsOf, FpInv
  <2>2. Mirror = state.manifest /\ prev = current
    BY DEF MirrorInv, Unsaved, Switched
  <2>3. prev \in versions /\ LinkSource(p) = files[prev][p]
    BY <1>2 DEF LinkSource
  <2> QED BY <2>1, <2>2, <2>3 DEF Mirror
<1> QED BY <1>1, <1>2

(***************************************************************************)
(* Until a sync is cut short behind its switch, only a switch moves the    *)
(* mirror.                                                                 *)
(***************************************************************************)
LEMMA MirrorStill ==
  ASSUME TypeOK, ApplyInv, WholeInv, [Next]_vars, ~Switch, ~torn
  PROVE  /\ Mirror' = Mirror /\ current' = current
         /\ current \in versions' <=> current \in versions
         /\ current \in versions => goal'[current] = goal[current]
<1>1. ~InApply(current)
  BY DEF WholeInv
<1>2. ~(CreateVersion /\ new' = current)
  <2>1. ASSUME CreateVersion PROVE new' \notin versions /\ new' # NoVersion
    BY <2>1, NamesAreNew DEF CreateVersion
  <2> QED BY <2>1 DEF WholeInv
<1> QED BY <1>1, <1>2, CurrentKept DEF Mirror

MirrorMovesInApply ==
  [][Mirror' # Mirror =>
       \/ pc = "link" /\ pc' = "clear"
       \/ /\ torn /\ new = current
          /\ \/ pc = "link"
             \/ pc = "rollback" /\ \A p \in Path : Mirror'[p] \in {None, Mirror[p]}]_vars

(***************************************************************************)
(* What readers see through current moves only at the switch, unless a     *)
(* sync was cut short behind its switch: then the roll-back takes files    *)
(* away (and a crash or an error in it leaves the rest), and the next      *)
(* version may be assembled in their sight, under the name that the        *)
(* dangling link still has.  Nothing else moves it, in either plugin mode. *)
(***************************************************************************)
THEOREM MirrorMovesOnlyInApply == Spec => MirrorMovesInApply
<1> DEFINE Moves == Mirror' # Mirror =>
              \/ pc = "link" /\ pc' = "clear"
              \/ /\ torn /\ new = current
                 /\ \/ pc = "link"
                    \/ pc = "rollback" /\ \A p \in Path : Mirror'[p] \in {None, Mirror[p]}
<1>1. TypeOK /\ ApplyInv /\ WholeInv /\ [Next]_vars => [Moves]_vars
  <2> SUFFICES ASSUME TypeOK, ApplyInv, WholeInv, [Next]_vars, Mirror' # Mirror, ~Switch
               PROVE  /\ torn /\ new = current
                      /\ \/ pc = "link"
                         \/ /\ pc = "rollback"
                            /\ \A p \in Path : Mirror'[p] \in {None, Mirror[p]}
    BY DEF Switch
  <2>1. ~(CreateVersion /\ new' = current)
    <3>1. SUFFICES ASSUME CreateVersion, new' = current PROVE FALSE
      OBVIOUS
    <3>2. PICK v \in Names :
            /\ Ahead(v) \/ Behind(v)
            /\ new' = v /\ files' = [files EXCEPT ![v] = Empty]
      BY <3>1 DEF CreateVersion
    <3>3. v \notin versions /\ v = current /\ current' = current
      BY <3>1, <3>2, NamesAreNew DEF CreateVersion
    <3>4. Mirror = Empty /\ files'[v] = Empty
      BY <3>2, <3>3 DEF Mirror, TypeOK
    <3>5. Mirror' = Empty
      BY <3>3, <3>4 DEF Mirror
    <3> QED BY <3>4, <3>5
  <2>2. InApply(current)
    BY <2>1, CurrentKept DEF Mirror
  <2>3. torn /\ new = current /\ pc \in {"link", "rollback"} /\ current' = current
    BY <2>2, LinkKept DEF WholeInv, InApply
  <2>4. CASE pc = "rollback"
    <3>1. Mirror = files[new] /\ new \in Names
      BY <2>3, <2>4 DEF Mirror, ApplyInv, TypeOK
    <3>2. RollBack \/ Crash
      <4>1. ASSUME ~RollBack, ~Crash PROVE UNCHANGED <<versions, files, current>>
        BY <2>4, <4>1 DEF Next, Pipeline, StartSync, LsRemote, Pull, Scan,
           RecordNoChange, FetchFile, CreateVersion, LinkEntry, Switch, ClearStaging,
           WriteManifestFile, Cleanup, Prune, SaveState, RecordFailure, Edit,
           StepFails, vars, disk
      <4> QED BY <4>1 DEF Mirror
    <3>3. RemoveAll(new) \/ RemovePart(new)
      BY <2>4, <3>2 DEF RollBack, Crash, HalfRemoved
    <3>4. CASE RemoveAll(new)
      <4>1. current' \notin versions'
        BY <2>3, <3>4 DEF RemoveAll
      <4> QED BY <2>3, <2>4, <4>1 DEF Mirror, Empty
    <3>5. CASE RemovePart(new)
      <4>1. \A p \in Path : files'[new][p] \in {None, files[new][p]}
        BY <3>1, <3>5 DEF RemovePart, TypeOK
      <4>2. Mirror' = files'[new] \/ Mirror' = Empty
        BY <2>3 DEF Mirror
      <4>3. \A p \in Path : Mirror'[p] \in {None, Mirror[p]}
        BY <3>1, <4>1, <4>2 DEF Empty
      <4> QED BY <2>3, <2>4, <4>3
    <3> QED BY <3>3, <3>4, <3>5
  <2> QED BY <2>3, <2>4
<1> QED
  BY <1>1, TypeCorrect, ApplyInvariant, WholeInvariant, PTL DEF Spec, MirrorMovesInApply

LEMMA TornIsForGood ==
  ASSUME [Next]_vars, ~torn', mode' = "pinned"
  PROVE  ~torn /\ mode = "pinned" /\ ~(StepFails /\ pc \in Unsaved)
<1>1. CASE StepFails \/ Crash
  BY <1>1 DEF StepFails, Crash
<1>2. CASE ~(StepFails \/ Crash)
  <2>1. UNCHANGED <<torn, mode>>
    BY <1>2 DEF Next, Pipeline, StartSync, LsRemote, Pull, Scan, RecordNoChange, FetchFile,
       CreateVersion, LinkEntry, Switch, ClearStaging, WriteManifestFile, RollBack,
       Cleanup, Prune, SaveState, RecordFailure, Edit, memory, budgets, vars
  <2> QED BY <1>2, <2>1
<1> QED BY <1>1, <1>2

(***************************************************************************)
(* The switch publishes the very tree the snapshot found.                  *)
(***************************************************************************)
LEMMA SwitchPublishes ==
  ASSUME TypeOK, ApplyInv, MirrorInv, ~torn, mode = "pinned", Switch
  PROVE  Mirror' = snap.tree /\ snap' = snap
<1>1. /\ pc = "link" /\ Unlinked = {} /\ current' = new
      /\ UNCHANGED <<files, versions, snap>>
  BY DEF Switch
<1>2. \A p \in Path : files[new][p] = snap.tree[p]
  BY <1>1 DEF MirrorInv, Unlinked, PathsOf
<1>3. new \in versions /\ files[new] \in Tree /\ snap.tree \in Tree
  BY <1>1 DEF ApplyInv, TypeOK, ManifestT
<1>4. files[new] = snap.tree
  BY <1>2, <1>3 DEF Tree
<1> QED BY <1>1, <1>3, <1>4 DEF Mirror

LEMMA MirrorStep ==
  TypeOK /\ FpInv /\ ApplyInv /\ WholeInv /\ MirrorInv /\ [Next]_vars => MirrorInv'
<1> SUFFICES ASSUME TypeOK, FpInv, ApplyInv, WholeInv, MirrorInv, [Next]_vars,
                    ~torn', mode' = "pinned"
             PROVE  MirrorInv'
  BY DEF MirrorInv
<1> USE DEF Unsaved, Switched
<1>a. ~torn /\ mode = "pinned"
  BY TornIsForGood
<1>b. Mirror' = Mirror \/ Switch
  BY <1>a, MirrorStill
<1>c. Mirror = IF pc \in Unsaved THEN snap.tree ELSE state.manifest
  BY <1>a DEF MirrorInv
<1>1. CASE StartSync
  BY <1>1, <1>a, <1>b, <1>c DEF StartSync, Switch, MirrorInv
<1>2. CASE LsRemote \/ Pull \/ Scan
  <2>1. /\ staged' = Empty /\ pc' \in {"pull", "nochange", "fetch"} /\ UNCHANGED state
        /\ pc \in {"snapshot", "pull"}
    BY <1>2, <1>a DEF LsRemote, Pull, Scan, Answer, MirrorInv, disk
  <2> QED BY <1>a, <1>b, <1>c, <2>1 DEF Switch, MirrorInv, Empty
<1>3. CASE RecordNoChange
  <2>1. state'.manifest = state.manifest
    BY <1>3 DEF RecordNoChange, FpInv
  <2> QED BY <1>3, <1>b, <1>c, <2>1 DEF RecordNoChange, Forget, Switch, MirrorInv
<1>4. ASSUME NEW p \in Path, FetchFile(p) PROVE MirrorInv'
  <2>1. pc = "fetch" /\ pc' \in {"fetch", "failed"} /\ UNCHANGED <<state, snap>>
    BY <1>4 DEF FetchFile
  <2>2. \A q \in Path : staged'[q] \in {None, snap.tree[q]}
    BY <1>4, <1>a, <2>1 DEF FetchFile, Fetched, MirrorInv, TypeOK, Tree
  <2> QED BY <1>b, <1>c, <2>1, <2>2 DEF Switch, MirrorInv
<1>5. CASE CreateVersion
  <2>1. /\ pc = "fetch" /\ pc' = "link" /\ prev' = current /\ current' = current
        /\ UNCHANGED <<state, snap, st, staged>> /\ Pending = {}
    BY <1>5 DEF CreateVersion
  <2>2. \A p \in Path : files'[new'][p] = None
    BY <1>5 DEF CreateVersion, TypeOK, Empty
  <2>3. \A p \in ToFetch(st.manifest, snap.tree) : staged[p] # None
    BY <2>1 DEF Pending
  <2>4. (\A p \in ToFetch(st.manifest, snap.tree) : staged[p] # None)'
    BY <2>1, <2>3
  <2> QED BY <1>a, <1>b, <1>c, <2>1, <2>2, <2>4 DEF Switch, MirrorInv
<1>6. ASSUME NEW p \in Path, LinkEntry(p) PROVE MirrorInv'
  <2>1. pc = "link" /\ UNCHANGED <<current, state, snap, st, staged, prev, new>>
    BY <1>6 DEF LinkEntry
  <2>2. Mirror' = Mirror
    BY <1>6, <1>b DEF LinkEntry, Switch, Unlinked
  <2>3. CASE ~Fits(LinkSource(p), snap.tree[p])
    <3>1. pc' = "rollback"
      BY <1>6, <2>3 DEF LinkEntry
    <3> QED BY <1>c, <2>1, <2>2, <3>1 DEF MirrorInv
  <2>4. CASE Fits(LinkSource(p), snap.tree[p])
    <3>1. LinkSource(p) = snap.tree[p]
      BY <1>6, <1>a, <2>1, <2>4, LinkSourceExact
         DEF Fits, LinkEntry, Unlinked, PathsOf
    <3>2. pc' = "link" /\ files' = [files EXCEPT ![new][p] = LinkSource(p)]
      BY <1>6, <2>1, <2>4 DEF LinkEntry
    <3>3. \A q \in Path : files'[new][q] \in {None, snap.tree[q]}
      BY <1>a, <2>1, <3>1, <3>2 DEF MirrorInv, TypeOK, Tree
    <3>4. (\A q \in ToFetch(st.manifest, snap.tree) : staged[q] # None)'
      BY <1>a, <2>1 DEF MirrorInv
    <3> QED BY <1>a, <1>c, <2>1, <2>2, <3>2, <3>3, <3>4 DEF MirrorInv
  <2> QED BY <2>3, <2>4
<1>7. CASE Switch
  <2>1. pc' = "clear" /\ Mirror' = snap'.tree
    BY <1>7, <1>a, SwitchPublishes DEF Switch
  <2> QED BY <2>1 DEF MirrorInv
<1>8. CASE ClearStaging \/ WriteManifestFile \/ Cleanup \/ Prune \/ RollBack
  BY <1>8, <1>b, <1>c
     DEF ClearStaging, WriteManifestFile, Cleanup, Prune, RollBack, disk, Switch, MirrorInv
<1>9. CASE SaveState
  BY <1>9, <1>b, <1>c DEF SaveState, Forget, Switch, MirrorInv
<1>10. CASE RecordFailure
  <2>1. state'.manifest = state.manifest
    BY <1>10 DEF RecordFailure, TypeOK, StateT
  <2> QED BY <1>10, <1>b, <1>c, <2>1 DEF RecordFailure, Forget, Switch, MirrorInv
<1>11. CASE StepFails
  <2>1. pc \notin Unsaved /\ pc' \in {"rollback", "failed"} /\ state' = state
    BY <1>11, TornIsForGood DEF StepFails
  <2> QED BY <1>11, <1>b, <1>c, <2>1 DEF Switch, StepFails, MirrorInv
<1>12. CASE Crash
  BY <1>12, <1>a, <1>b, <1>c DEF Crash, Forget, Switch, MirrorInv
<1>13. CASE Edit \/ UNCHANGED vars
  <2>1. UNCHANGED <<pc, st, snap, new, prev, state, files, versions, current, staged>>
    BY <1>13 DEF Edit, vars, disk, memory
  <2> QED BY <1>a, <2>1 DEF MirrorInv, Mirror
<1> QED
  BY <1>1, <1>2, <1>3, <1>4, <1>5, <1>6, <1>7, <1>8, <1>9, <1>10, <1>11,
     <1>12, <1>13
  DEF Next, Pipeline

LEMMA MirrorInvariant == Spec => []MirrorInv
<1>1. TypeOK /\ FpInv /\ ApplyInv /\ WholeInv /\ MirrorInv /\ [Next]_vars => MirrorInv'
  BY MirrorStep
<1> QED
  BY <1>1, MirrorInit, TypeCorrect, FpInvariant, ApplyInvariant, WholeInvariant, PTL
  DEF Spec

(***************************************************************************)
(* Until a sync is cut short between the switch and the save, the mirror   *)
(* and the state file agree, failures of any step included:                *)
(* MirrorMatchesState of the safety run.                                   *)
(***************************************************************************)
THEOREM MirrorFollowsState == Spec => []MirrorMatchesState
<1>1. MirrorInv => MirrorMatchesState
  BY DEF MirrorInv, MirrorMatchesState
<1> QED BY <1>1, MirrorInvariant, PTL

(***************************************************************************)
(* "No change" is never concluded over a mirror that differs from the      *)
(* snapshot, whether the fingerprint or the diff said so, but by a         *)
(* fingerprint stored with, or given to, the tree of another commit:       *)
(* NoChangeIsTrue of the safety run.                                       *)
(***************************************************************************)
THEOREM NoChangeSound == Spec => []NoChangeIsTrue
<1>1. TypeOK /\ FpInv /\ MirrorInv => NoChangeIsTrue
  <2> SUFFICES ASSUME TypeOK, FpInv, MirrorInv,
                      pc = "nochange", ~torn, mode = "pinned",
                      \/ snap.fp # st.fp
                      \/ OwnTree(snap.fp, snap.tree) /\ OwnTree(st.fp, st.manifest)
               PROVE  Mirror = snap.tree
    BY DEF NoChangeIsTrue
  <2>1. Mirror = state.manifest /\ st = state /\ UpToDate(snap)
    BY DEF MirrorInv, FpInv, Unsaved, Switched
  <2>2. CASE snap.fp # NoFp /\ snap.fp = st.fp
    BY <2>1, <2>2 DEF OwnTree
  <2>3. CASE ~HasChanges(st.manifest, snap.tree)
    BY <2>1, <2>3, NoChangesMeansEqual DEF TypeOK, StateT, ManifestT
  <2> QED BY <2>1, <2>2, <2>3 DEF UpToDate
<1> QED BY <1>1, TypeCorrect, FpInvariant, MirrorInvariant, PTL

-----------------------------------------------------------------------------
(* Refinement.                                                             *)

(***************************************************************************)
(* Every step that does not cut a sync short between switch and save is a  *)
(* step of AtomicMirror or a stutter.                                      *)
(***************************************************************************)
LEMMA RefinesStep ==
  ASSUME TypeOK, ApplyInv, WholeInv, MirrorInv, [Next]_vars, ~torn', mode' = "pinned"
  PROVE  [AM!Next]_(AM!vars)
<1>1. ~torn /\ mode = "pinned" /\ (Mirror' = Mirror \/ Switch)
  BY TornIsForGood, MirrorStill
<1>2. CASE Switch
  BY <1>1, <1>2, SwitchPublishes DEF Switch, AM!Next, AM!Publish
<1>3. CASE ~Switch /\ Edit
  <2>1. src'.tree \in Tree /\ snap' = snap
    BY <1>3 DEF Edit, Commit, memory
  <2> QED BY <1>1, <1>3, <2>1 DEF AM!Next, AM!Change
<1>4. CASE ~Switch /\ (LsRemote \/ Pull \/ Scan)
  <2>1. src' = src /\ (snap' = snap \/ snap'.tree = src.tree)
    BY <1>4 DEF LsRemote, Pull, Scan, Answer
  <2> QED BY <1>1, <1>4, <2>1 DEF AM!Next, AM!Take, AM!vars
<1>5. CASE ~Switch /\ ~Edit /\ ~(LsRemote \/ Pull \/ Scan)
  <2>1. UNCHANGED <<src, snap>>
    BY <1>5 DEF Next, Pipeline, StartSync, RecordNoChange, FetchFile,
       CreateVersion, LinkEntry, ClearStaging, WriteManifestFile, RollBack,
       Cleanup, Prune, SaveState, RecordFailure, StepFails, Crash, vars, memory
  <2> QED BY <1>1, <1>5, <2>1 DEF AM!vars
<1> QED BY <1>2, <1>3, <1>4, <1>5

(***************************************************************************)
(* The pipeline of a pinned plugin implements AtomicMirror for as long as  *)
(* no sync is cut short between the switch and the save.  (The live run    *)
(* checks AtomicMirror's liveness too.)                                    *)
(***************************************************************************)
THEOREM RefinesAtomicMirror ==
  Spec /\ [](~torn /\ mode = "pinned") => AM!Spec
<1> DEFINE Untorn == ~torn /\ mode = "pinned"
<1>1. Init => AM!Init
  BY DEF Init, AM!Init, Mirror, Commit
<1>2. TypeOK /\ ApplyInv /\ WholeInv /\ MirrorInv /\ [Next]_vars /\ Untorn'
        => [AM!Next]_(AM!vars)
  BY RefinesStep
<1> QED
  BY <1>1, <1>2, TypeCorrect, ApplyInvariant, WholeInvariant, MirrorInvariant, PTL
  DEF Spec, AM!Spec

-----------------------------------------------------------------------------
(* What retention keeps.                                                   *)

LEMMA SmallestOf ==
  ASSUME NEW S \in SUBSET Nat, S # {}
  PROVE  \E m \in S : \A k \in S : m <= k
<1> DEFINE R == OpToRel(<, Nat)
<1>1. \A x, y \in Nat : x < y => <<x, y>> \in R
  BY DEF OpToRel
<1>2. IsWellFoundedOn(R, Nat)
  BY NatLessThanWellFounded
<1> HIDE DEF R
<1>3. PICK m \in S : \A k \in S : <<k, m>> \notin R
  BY <1>2, WFMin
<1>4. ASSUME NEW k \in S PROVE m <= k
  <2>1. k \in Nat /\ m \in Nat
    OBVIOUS
  <2>2. ~(k < m)
    BY <1>1, <1>3, <2>1, Zenon
  <2> QED BY <2>1, <2>2
<1> QED BY <1>4

LEMMA LargestOf ==
  ASSUME NEW n \in Nat, NEW S \in SUBSET (1 .. n), S # {}
  PROVE  \E m \in S : \A k \in S : k <= m
<1> DEFINE T == {n - k : k \in S}
<1>1. T \in SUBSET Nat
  OBVIOUS
<1>2. T # {}
  <2>1. PICK k \in S : TRUE
    OBVIOUS
  <2>2. n - k \in T
    BY <2>1
  <2> QED BY <2>2
<1>3. PICK d \in T : \A k \in T : d <= k
  BY <1>1, <1>2, SmallestOf
<1>4. PICK m \in S : d = n - m
  BY <1>3
<1>5. \A k \in S : n - m <= n - k
  BY <1>3, <1>4
<1> QED BY <1>4, <1>5

LEMMA NamesFinite ==
  ASSUME NEW S \in SUBSET Names
  PROVE  IsFiniteSet(S) /\ Cardinality(S) \in Nat
<1>1. IsFiniteSet(Names) /\ MaxVersion \in Nat
  BY BoundAssumption, FS_Interval DEF Names
<1> QED BY <1>1, FS_Subset, FS_CardinalityType

Newer(S, v) == {w \in S : w > v}

(***************************************************************************)
(* The versions the rank of which is within keepLast are at most keepLast; *)
(* one of a higher rank has keepLast newer ones that keepLast spares.      *)
(***************************************************************************)
LEMMA WithinBudget ==
  ASSUME NEW S \in SUBSET Names, KeepLast > 0
  PROVE  Cardinality(S \ Excess(S)) <= KeepLast
<1> DEFINE T == S \ Excess(S)
<1>1. T \in SUBSET Names /\ S \in SUBSET Nat /\ T \in SUBSET Nat
  <2>1. Names \subseteq Nat
    BY BoundAssumption DEF Names
  <2>2. T \subseteq S
    OBVIOUS
  <2> QED BY <2>1, <2>2
<1>2. CASE T = {}
  BY <1>2, FS_EmptySet, KeepLastIsNat
<1>3. CASE T # {}
  <2>1. PICK m \in T : \A k \in T : m <= k
    BY <1>1, <1>3, SmallestOf
  <2>2. Cardinality({w \in S : w >= m}) <= KeepLast
    <3>1. Cardinality({w \in S : w >= m}) \in Nat
      BY <1>1, NamesFinite
    <3> QED BY <2>1, <3>1, KeepLastIsNat DEF Excess, Rank
  <2>3. T \in SUBSET {w \in S : w >= m} /\ IsFiniteSet({w \in S : w >= m})
    BY <1>1, <2>1, NamesFinite
  <2>4. Cardinality(T) <= Cardinality({w \in S : w >= m})
    BY <2>3, FS_Subset
  <2>5. Cardinality(T) \in Nat /\ Cardinality({w \in S : w >= m}) \in Nat
    BY <1>1, NamesFinite
  <2> QED BY <2>2, <2>4, <2>5, KeepLastIsNat
<1> QED BY <1>2, <1>3

LEMMA ExcessSpares ==
  ASSUME NEW S \in SUBSET Names, NEW v \in Excess(S)
  PROVE  Cardinality(Newer(S \ Excess(S), v)) >= KeepLast
<1>1. Excess(S) \in SUBSET (1 .. MaxVersion) /\ MaxVersion \in Nat
  BY BoundAssumption DEF Excess, Names
<1>2. PICK m \in Excess(S) : \A k \in Excess(S) : k <= m
  BY <1>1, LargestOf
<1>3. m \in S /\ m \in Nat /\ v \in Nat /\ S \in SUBSET Nat
  BY <1>1, <1>2, BoundAssumption DEF Excess, Names
<1>4. Cardinality({w \in S : w >= m}) > KeepLast
  BY <1>2 DEF Excess, Rank
<1>5. Newer(S, m) = {w \in S : w >= m} \ {m} /\ m \in {w \in S : w >= m}
  <2>1. \A w \in S : (w > m) <=> (w >= m /\ w # m)
    BY <1>3
  <2>2. \A w : w \in Newer(S, m) <=> w \in {u \in S : u >= m} \ {m}
    BY <2>1, Zenon DEF Newer
  <2>3. Newer(S, m) = {w \in S : w >= m} \ {m}
    BY <2>2, Zenon
  <2>4. m >= m
    BY <1>3
  <2> QED BY <1>3, <2>3, <2>4
<1>6. IsFiniteSet({w \in S : w >= m}) /\ Cardinality({w \in S : w >= m}) \in Nat
  BY NamesFinite
<1>7. Cardinality(Newer(S, m)) = Cardinality({w \in S : w >= m}) - 1
  BY <1>5, <1>6, FS_RemoveElement
<1>8. Newer(S, m) \in SUBSET Newer(S \ Excess(S), v)
  <2>1. ASSUME NEW w \in S, w > m PROVE w \notin Excess(S) /\ w > v
    <3>1. w \in Nat /\ \A k \in Excess(S) : k <= m
      BY <1>2, <1>3
    <3>2. v <= m
      BY <1>2
    <3> QED BY <1>3, <2>1, <3>1, <3>2
  <2> QED BY <2>1 DEF Newer
<1>9. Newer(S \ Excess(S), v) \in SUBSET Names /\ Newer(S, m) \in SUBSET Names
  BY DEF Newer
<1>10. Cardinality(Newer(S, m)) <= Cardinality(Newer(S \ Excess(S), v))
  BY <1>8, <1>9, NamesFinite, FS_Subset
<1>11. Cardinality(Newer(S, m)) \in Nat /\ Cardinality(Newer(S \ Excess(S), v)) \in Nat
  BY <1>9, NamesFinite
<1> QED BY <1>4, <1>6, <1>7, <1>10, <1>11, KeepLastIsNat

(***************************************************************************)
(* What keepLast spares has, by name, no version behind it that it dooms.  *)
(***************************************************************************)
LEMMA SparedAreNewer ==
  ASSUME NEW S \in SUBSET Names, NEW v \in Excess(S), NEW w \in S \ Excess(S)
  PROVE  w >= v
<1>1. v \in S /\ S \in SUBSET Nat /\ KeepLast > 0
  BY BoundAssumption DEF Excess, Names
<1>2. SUFFICES ASSUME w < v PROVE FALSE
  BY <1>1
<1>3. {u \in S : u >= v} \in SUBSET {u \in S : u >= w}
  <2>1. w \in Nat /\ v \in Nat
    BY <1>1
  <2>2. \A u \in S : u >= v => u >= w
    BY <1>1, <1>2, <2>1
  <2> QED BY <2>2
<1>4. /\ IsFiniteSet({u \in S : u >= w}) /\ Cardinality({u \in S : u >= w}) \in Nat
      /\ Cardinality({u \in S : u >= v}) \in Nat
  BY NamesFinite
<1>5. Cardinality({u \in S : u >= v}) <= Cardinality({u \in S : u >= w})
  BY <1>3, <1>4, FS_Subset
<1>6. Cardinality({u \in S : u >= v}) > KeepLast
  BY DEF Excess, Rank
<1>7. Cardinality({u \in S : u >= w}) > KeepLast
  BY <1>4, <1>5, <1>6, KeepLastIsNat
<1> QED BY <1>1, <1>7 DEF Excess, Rank

(***************************************************************************)
(* What Cleanup has chosen to spare is within the budget, or one over it   *)
(* because the new version is the last of them by name; enough of it is    *)
(* newer than each of the doomed.                                          *)
(***************************************************************************)
Within(S) == \/ Cardinality(S) <= KeepLast
             \/ Cardinality(S) <= KeepLast + 1 /\ \A w \in S : w >= new

RetentionInv ==
  /\ pc \in {"prune", "save"} /\ KeepLast > 0 => Within(versions \ doomed)
  /\ pc = "prune" /\ ~KeepDaysSet =>
       \A v \in doomed : Cardinality(Newer(versions \ doomed, v)) >= KeepLast

LEMMA RetentionStep ==
  ASSUME TypeOK, ApplyInv, RetentionInv, [Next]_vars
  PROVE  RetentionInv'
<1>3. CASE Cleanup
  <2>1. PICK cut \in IF KeepDaysSet THEN 0..MaxVersion ELSE {0} :
          doomed' = Doomed(versions, new, cut)
    BY <1>3 DEF Cleanup
  <2>2. versions' = versions /\ new' = new /\ pc = "retention" /\ pc' \in {"prune", "save"}
        /\ versions \in SUBSET Names /\ new \in versions
    BY <1>3 DEF Cleanup, disk, TypeOK, ApplyInv, Unsaved
  <2>4. versions \in SUBSET Nat
    BY <2>2, BoundAssumption DEF Names
  <2>6. ASSUME KeepLast > 0 PROVE Within(versions \ doomed)'
    <3> DEFINE T == versions \ doomed'
               N == versions \ Excess(versions)
    <3>1. T \subseteq N \cup {new}
      BY <2>1 DEF Doomed
    <3>2. N \in SUBSET Names /\ T \in SUBSET Names
      BY <2>2
    <3>3. /\ IsFiniteSet(N) /\ Cardinality(N) \in Nat
          /\ IsFiniteSet(T) /\ Cardinality(T) \in Nat
      BY <3>2, NamesFinite
    <3>4. Cardinality(N) <= KeepLast
      BY <2>2, <2>6, WithinBudget
    <3>5. CASE new \in N
      <4>1. T \in SUBSET N
        BY <3>1, <3>5
      <4>2. Cardinality(T) <= Cardinality(N)
        BY <3>3, <4>1, FS_Subset
      <4>3. Cardinality(T) <= KeepLast
        BY <3>3, <3>4, <4>2, KeepLastIsNat
      <4> QED BY <2>2, <4>3 DEF Within
    <3>6. CASE new \notin N
      <4>1. new \in Excess(versions)
        BY <2>2, <3>6
      <4>2. \A w \in N : w >= new
        BY <2>2, <4>1, SparedAreNewer
      <4>3. \A w \in T : w >= new
        BY <2>2, <2>4, <3>1, <4>2
      <4>4. /\ IsFiniteSet(N \cup {new})
            /\ Cardinality(N \cup {new}) \in {Cardinality(N), Cardinality(N) + 1}
        BY <3>3, FS_AddElement
      <4>5. Cardinality(T) <= Cardinality(N \cup {new})
        BY <3>1, <4>4, FS_Subset
      <4> HIDE DEF T, N
      <4>6. Cardinality(T) <= KeepLast + 1
        BY <3>3, <3>4, <4>4, <4>5, KeepLastIsNat
      <4> QED BY <2>2, <4>3, <4>6 DEF Within, T
    <3> QED BY <3>5, <3>6
  <2>7. ASSUME ~KeepDaysSet, NEW v \in doomed'
        PROVE  Cardinality(Newer(versions' \ doomed', v)) >= KeepLast
    <3>1. cut = 0
      BY <2>1, <2>7
    <3>2. Expired(cut, versions) = {}
      <4>1. \A w \in versions : ~(w < 0)
        BY <2>4
      <4> QED BY <3>1, <4>1 DEF Expired
    <3>3. doomed' = Excess(versions) \ {new}
      BY <2>1, <3>2 DEF Doomed
    <3>4. v \in Excess(versions) /\ versions \ Excess(versions) \subseteq versions \ doomed'
      BY <2>7, <3>3
    <3>5. Newer(versions \ Excess(versions), v) \in SUBSET Newer(versions \ doomed', v)
      BY <3>4 DEF Newer
    <3>6. Newer(versions \ Excess(versions), v) \in SUBSET Names
          /\ Newer(versions \ doomed', v) \in SUBSET Names
      BY <2>2 DEF Newer
    <3>7. Cardinality(Newer(versions \ Excess(versions), v))
            <= Cardinality(Newer(versions \ doomed', v))
      BY <3>5, <3>6, NamesFinite, FS_Subset
    <3>8. Cardinality(Newer(versions \ Excess(versions), v)) >= KeepLast
      BY <2>2, <3>4, ExcessSpares
    <3> QED BY <2>2, <3>6, <3>7, <3>8, NamesFinite, KeepLastIsNat
  <2> QED BY <2>2, <2>6, <2>7 DEF RetentionInv
<1>4. CASE Prune
  <2>1. PICK v \in Names : /\ Victim(v) /\ versions' = versions \ {v}
                           /\ doomed' = doomed \ {v}
    BY <1>4 DEF Prune, RemoveAll
  <2>2. versions' \ doomed' = versions \ doomed /\ v \in doomed
    BY <2>1 DEF Victim
  <2>3. pc = "prune" /\ pc' \in {"prune", "save"} /\ new' = new
    BY <1>4 DEF Prune
  <2>5. KeepLast > 0 => Within(versions \ doomed)'
    BY <2>2, <2>3 DEF RetentionInv, Within
  <2>6. ~KeepDaysSet => \A u \in doomed' : Cardinality(Newer(versions' \ doomed', u)) >= KeepLast
    BY <2>1, <2>2, <2>3 DEF RetentionInv
  <2> QED BY <2>3, <2>5, <2>6 DEF RetentionInv
<1>5. CASE Edit \/ UNCHANGED vars
  <2>1. UNCHANGED <<pc, versions, new, doomed>>
    BY <1>5 DEF Edit, vars, disk, memory
  <2> QED BY <2>1 DEF RetentionInv, Within
<1>6. CASE ~(Cleanup \/ Prune \/ Edit \/ UNCHANGED vars)
  <2>1. pc' \notin {"prune", "save"}
    BY <1>6 DEF Next, Pipeline, StartSync, LsRemote, Pull, Scan, Answer, RecordNoChange,
       FetchFile, CreateVersion, LinkEntry, Switch, ClearStaging, WriteManifestFile,
       RollBack, SaveState, RecordFailure, StepFails, Crash, Forget
  <2> QED BY <2>1 DEF RetentionInv
<1> QED BY <1>3, <1>4, <1>5, <1>6

LEMMA RetentionInvariant == Spec => []RetentionInv
<1>1. Init => RetentionInv
  BY DEF Init, RetentionInv, Unsaved, Switched
<1>2. TypeOK /\ ApplyInv /\ RetentionInv /\ [Next]_vars => RetentionInv'
  BY RetentionStep
<1> QED BY <1>1, <1>2, TypeCorrect, ApplyInvariant, PTL DEF Spec

(***************************************************************************)
(* When a sync that published saves its state, at most keepLast versions   *)
(* are left, whatever crashed syncs left behind, and one more only if the  *)
(* new one got a name older than those of keepLast others (Cleanup):       *)
(* RetentionBudget of the safety run.                                      *)
(***************************************************************************)
THEOREM BudgetIsKept == Spec => []RetentionBudget
<1>1. TypeOK /\ ApplyInv /\ RetentionInv => RetentionBudget
  <2> SUFFICES ASSUME TypeOK, ApplyInv, RetentionInv, pc = "save", KeepLast > 0
               PROVE  Cardinality(versions) <=
                        KeepLast + (IF Rank(new, versions) > KeepLast THEN 1 ELSE 0)
    BY DEF RetentionBudget
  <2>1. versions \ doomed = versions
    BY DEF ApplyInv
  <2>2. Within(versions)
    BY <2>1 DEF RetentionInv
  <2>3. Cardinality(versions) \in Nat
    BY NamesFinite DEF TypeOK
  <2>4. CASE Cardinality(versions) <= KeepLast
    BY <2>3, <2>4, KeepLastIsNat
  <2>5. CASE Cardinality(versions) > KeepLast
    <3>1. Cardinality(versions) <= KeepLast + 1 /\ \A w \in versions : w >= new
      BY <2>2, <2>3, <2>5, KeepLastIsNat DEF Within
    <3>2. {w \in versions : w >= new} = versions
      BY <3>1
    <3>3. Rank(new, versions) > KeepLast
      BY <2>5, <3>2 DEF Rank
    <3> QED BY <3>1, <3>3
  <2> QED BY <2>3, <2>4, <2>5, KeepLastIsNat
<1> QED BY <1>1, TypeCorrect, ApplyInvariant, RetentionInvariant, PTL

(***************************************************************************)
(* A version that keepLast deletes leaves at least keepLast newer ones, in *)
(* whatever order and however often deletions were cut short (Cleanup):    *)
(* RetentionSpares of the safety run.                                      *)
(***************************************************************************)
THEOREM NewestAreSpared == Spec => RetentionSpares
<1> DEFINE Spares == pc = "prune" /\ ~KeepDaysSet =>
                       \A v \in versions \ versions' :
                         Cardinality({w \in versions' : w > v}) >= KeepLast
<1>1. TypeOK /\ ApplyInv /\ RetentionInv /\ [Next]_vars => [Spares]_vars
  <2> SUFFICES ASSUME TypeOK, ApplyInv, RetentionInv, Next, pc = "prune", ~KeepDaysSet,
                      NEW v \in versions \ versions'
               PROVE  Cardinality(Newer(versions', v)) >= KeepLast
    BY DEF Newer
  <2>1. CASE Prune
    <3>1. PICK u \in Names : /\ Victim(u) /\ versions' = versions \ {u}
                             /\ doomed' = doomed \ {u}
      BY <2>1 DEF Prune, RemoveAll
    <3>2. v = u /\ v \in doomed /\ versions' \in SUBSET Names
      BY <3>1 DEF Victim, TypeOK
    <3>3. Newer(versions \ doomed, v) \in SUBSET Newer(versions', v)
      BY <3>1, <3>2 DEF Newer
    <3>4. Newer(versions', v) \in SUBSET Names /\ Newer(versions \ doomed, v) \in SUBSET Names
      BY <3>2 DEF Newer, TypeOK
    <3>5. Cardinality(Newer(versions \ doomed, v)) <= Cardinality(Newer(versions', v))
      BY <3>3, <3>4, NamesFinite, FS_Subset
    <3>6. Cardinality(Newer(versions \ doomed, v)) >= KeepLast
      BY <3>2 DEF RetentionInv
    <3> QED BY <3>4, <3>5, <3>6, NamesFinite, KeepLastIsNat
  <2>2. CASE ~Prune
    <3>1. versions \ versions' = {}
      <4>1. StepFails \/ Crash => versions' = versions
        BY DEF StepFails, Crash, HalfRemoved, RemovePart
      <4>2. ~RollBack
        BY DEF RollBack
      <4> QED BY <2>2, <4>1, <4>2 DEF Next, Pipeline, StartSync, LsRemote, Pull, Scan,
         RecordNoChange, FetchFile, CreateVersion, LinkEntry, Switch, ClearStaging,
         WriteManifestFile, Cleanup, SaveState, RecordFailure, Edit, disk
    <3> QED BY <3>1
  <2> QED BY <2>1, <2>2
<1> QED
  BY <1>1, TypeCorrect, ApplyInvariant, RetentionInvariant, PTL DEF Spec, RetentionSpares

-----------------------------------------------------------------------------
(* Exact mirrors, and nothing half-built.                                  *)

ExactInv == ~torn /\ mode = "pinned" => CurrentExact

LEMMA ExactStep ==
  ASSUME TypeOK, ApplyInv, WholeInv, MirrorInv, ExactInv, [Next]_vars
  PROVE  ExactInv'
<1> SUFFICES ASSUME ~torn', mode' = "pinned", (current \in versions)'
             PROVE  files'[current'] = goal'[current']
  BY DEF ExactInv, CurrentExact
<1>1. ~torn /\ mode = "pinned" /\ ~(StepFails /\ pc \in Unsaved)
  BY TornIsForGood
<1>2. CASE Switch
  <2>1. Mirror' = snap.tree /\ pc = "link" /\ current' = new /\ goal' = goal
    BY <1>1, <1>2, SwitchPublishes DEF Switch
  <2>2. goal[new] = snap.tree
    BY <2>1 DEF ApplyInv
  <2> QED BY <2>1, <2>2 DEF Mirror
<1>3. CASE ~Switch
  <2>1. /\ current' = current /\ current \in versions
        /\ goal'[current] = goal[current]
    BY <1>1, <1>3, MirrorStill
  <2>2. Mirror' = Mirror
    BY <1>1, <1>3, MirrorStill
  <2> QED BY <1>1, <2>1, <2>2 DEF Mirror, ExactInv, CurrentExact
<1> QED BY <1>2, <1>3

(***************************************************************************)
(* With a pinned plugin the current version holds the very contents its    *)
(* manifest names, as long as no sync is cut short between the switch and  *)
(* the save: CurrentExact of the live run.                                 *)
(***************************************************************************)
THEOREM MirrorsAreExact == Spec => [](~torn /\ mode = "pinned" => CurrentExact)
<1>1. Init => ExactInv
  BY DEF Init, ExactInv, CurrentExact
<1>2. TypeOK /\ ApplyInv /\ WholeInv /\ MirrorInv /\ ExactInv /\ [Next]_vars => ExactInv'
  BY ExactStep
<1>3. ExactInv => (~torn /\ mode = "pinned" => CurrentExact)
  BY DEF ExactInv
<1> QED
  BY <1>1, <1>2, <1>3, TypeCorrect, ApplyInvariant, WholeInvariant, MirrorInvariant, PTL
  DEF Spec
-----------------------------------------------------------------------------
(* What crashes and failures leave behind.                                 *)

(***************************************************************************)
(* The version that Apply has not returned yet.                            *)
(***************************************************************************)
Building(v) == v = new /\ pc \in {"link", "rollback"} \cup Switched

(***************************************************************************)
(* The versions that history lists although they are not whole or have no  *)
(* metadata, the one being built left out.                                 *)
(***************************************************************************)
Sound(v) == v \in meta /\ Complete(v)

Damaged == {v \in versions : ~Sound(v) /\ ~Building(v)}

(* A deletion under way that a crash or an error cuts short.               *)
CutShort ==
  \/ Crash
  \/ StepFails /\ pc = "prune"
  \/ RollBack /\ ~RemoveAll(new)

(***************************************************************************)
(* A version that the step leaves alone is no worse than before.           *)
(***************************************************************************)
LEMMA NoWorse ==
  ASSUME NEW v \in versions, ~Building(v), v \in Damaged',
         files'[v] = files[v], goal'[v] = goal[v], v \in meta => v \in meta'
  PROVE  v \in Damaged
<1>1. Complete(v) => Complete(v)'
  BY SameVersion
<1> QED BY <1>1 DEF Damaged, Sound

(***************************************************************************)
(* A crash damages at most the version being built, or the one being       *)
(* deleted; of the failures, only one in the middle of a deletion damages  *)
(* any.  What RollBack deletes to the end leaves nothing.                  *)
(***************************************************************************)
LEMMA DamageStep ==
  ASSUME TypeOK, ApplyInv, WholeInv, [Next]_vars
  PROVE  \/ Damaged' \subseteq Damaged
         \/ CutShort /\ \E x \in Names : Damaged' \subseteq Damaged \cup {x}
<1>a. versions \subseteq Names /\ doomed \subseteq versions
  BY DEF TypeOK, ApplyInv
<1>b. ASSUME NEW v \in versions, v \notin doomed, ~Building(v), v \in Damaged'
      PROVE  v \in Damaged
  <2>1. ~InApply(v)
    BY <1>b DEF Building, InApply
  <2> QED BY <1>b, <2>1, VersionsKept, NoWorse
<1>c. Damaged' \subseteq versions'
  BY DEF Damaged
<1>1. CASE CreateVersion
  <2>1. PICK u \in Names : new' = u /\ versions' = versions \cup {u}
    BY <1>1 DEF CreateVersion
  <2>2. pc = "fetch" /\ pc' = "link" /\ doomed = {}
    BY <1>1 DEF CreateVersion, ApplyInv
  <2>3. u \notin Damaged'
    BY <2>1, <2>2 DEF Damaged, Building
  <2>4. \A v \in versions : ~Building(v)
    BY <2>2 DEF Building, Switched
  <2> QED BY <1>b, <1>c, <2>1, <2>2, <2>3, <2>4
<1>2. CASE RollBack /\ RemoveAll(new)
  <2>1. versions' = versions \ {new} /\ doomed = {}
    BY <1>2 DEF RollBack, RemoveAll, ApplyInv
  <2>2. \A v \in versions' : v \in versions /\ ~Building(v)
    BY <2>1 DEF Building
  <2> QED BY <1>b, <1>c, <2>1, <2>2
<1>3. CASE Prune
  <2>1. PICK u \in Names : Victim(u) /\ RemoveAll(u)
    BY <1>3 DEF Prune
  <2>2. pc = "prune"
    BY <1>3 DEF Prune
  <2>3. ASSUME NEW v \in Damaged' PROVE v \in Damaged
    <3>1. v \in versions /\ v # u /\ ~Building(v)
      BY <1>c, <2>1, <2>2, <2>3 DEF RemoveAll, Building, Switched
    <3>2. files'[v] = files[v] /\ goal'[v] = goal[v] /\ (v \in meta => v \in meta')
      BY <2>1, <3>1, RemovedAreOthers
    <3> QED BY <2>3, <3>1, <3>2, NoWorse
  <2> QED BY <2>3
<1>4. CASE CutShort
  <2>1. versions' = versions
    BY <1>4 DEF CutShort, Crash, StepFails, RollBack, HalfRemoved, RemovePart
  <2>2. CASE pc = "prune"
    <3>1. PICK x \in Names : RemovePart(x)
      BY <1>4, <2>2 DEF CutShort, Crash, StepFails, RollBack, HalfRemoved
    <3>2. ASSUME NEW v \in Damaged', v # x PROVE v \in Damaged
      <4>1. v \in versions /\ ~Building(v)
        BY <1>c, <2>1, <2>2, <3>2 DEF Building, Switched
      <4>2. files'[v] = files[v] /\ goal'[v] = goal[v] /\ (v \in meta => v \in meta')
        BY <3>1, <3>2, <4>1, RemovedAreOthers
      <4> QED BY <3>2, <4>1, <4>2, NoWorse
    <3>3. Damaged' \subseteq Damaged \cup {x}
      BY <3>2
    <3> QED BY <1>4, <3>3
  <2>3. CASE pc # "prune"
    <3>1. doomed = {}
      BY <2>3 DEF ApplyInv
    <3>2. \A v \in versions : ~Building(v) /\ v \in Damaged' => v \in Damaged
      BY <1>b, <3>1
    <3>3. CASE \E v \in versions : Building(v)
      <4>1. new \in Names /\ \A v \in versions : Building(v) => v = new
        BY <1>a, <3>3 DEF Building
      <4>2. Damaged' \subseteq Damaged \cup {new}
        BY <1>c, <2>1, <3>2, <4>1
      <4> QED BY <1>4, <4>1, <4>2
    <3>4. CASE \A v \in versions : ~Building(v)
      BY <1>c, <2>1, <3>2, <3>4
    <3> QED BY <3>3, <3>4
  <2> QED BY <2>2, <2>3
<1>5. CASE \/ \E p \in Path : LinkEntry(p)
           \/ Switch \/ ClearStaging \/ WriteManifestFile
           \/ (StepFails /\ pc \in {"link"} \cup Switched)
  <2>1. doomed = {} /\ versions' = versions /\ new' = new
    BY <1>5 DEF ApplyInv, Switched, LinkEntry, Switch, ClearStaging, WriteManifestFile,
       StepFails, HalfRemoved
  <2>2. new \notin Damaged'
    <3>1. CASE ~WriteManifestFile
      <4>1. pc' \in {"link", "rollback"} \cup Switched
        BY <1>5, <3>1 DEF LinkEntry, Switch, ClearStaging, StepFails, Switched
      <4> QED BY <2>1, <4>1 DEF Damaged, Building
    <3>2. CASE WriteManifestFile
      <4>1. /\ pc = "meta" /\ UNCHANGED <<versions, files, goal>> /\ new \in meta'
        BY <3>2 DEF WriteManifestFile
      <4>2. new = current /\ Complete(current)
        BY <4>1 DEF ApplyInv, WholeInv, Unsaved, Switched
      <4>3. Complete(new)
        BY <4>2 DEF Complete
      <4>4. PICK v : v = new
        OBVIOUS
      <4>5. Complete(v)
        BY <4>3, <4>4 DEF Complete
      <4>6. v \in meta' /\ Complete(v)'
        BY <4>1, <4>4, <4>5, SameVersion
      <4> QED BY <4>4, <4>6 DEF Damaged, Sound
    <3> QED BY <3>1, <3>2
  <2>3. \A v \in versions : v # new => ~Building(v)
    BY DEF Building
  <2> QED BY <1>b, <1>c, <2>1, <2>2, <2>3
<1>6. CASE \/ StartSync \/ LsRemote \/ Pull \/ Scan \/ RecordNoChange \/ Cleanup
           \/ SaveState \/ RecordFailure \/ \E p \in Path : FetchFile(p)
           \/ (StepFails /\ pc \notin {"link", "prune"} \cup Switched)
  <2>1. pc \notin {"link", "rollback"} \cup Switched /\ versions' = versions /\ doomed = {}
    BY <1>6 DEF StartSync, LsRemote, Pull, Scan, RecordNoChange, Cleanup, SaveState,
       RecordFailure, FetchFile, StepFails, HalfRemoved, Switched, disk, ApplyInv
  <2>2. \A v \in versions : ~Building(v)
    BY <2>1 DEF Building
  <2> QED BY <1>b, <1>c, <2>1, <2>2
<1>7. CASE Edit \/ UNCHANGED vars
  <2>1. UNCHANGED <<pc, new, versions, files, goal, meta>>
    BY <1>7 DEF Edit, vars, disk, memory
  <2>2. Damaged' = Damaged
    BY <2>1 DEF Damaged, Sound, Building, Complete, Fits
  <2> QED BY <2>2
<1> QED
  BY <1>1, <1>2, <1>3, <1>4, <1>5, <1>6, <1>7 DEF Next, Pipeline, CutShort

(***************************************************************************)
(* Each crash, and each failed deletion, leaves at most one version behind *)
(* that history lists and that is not whole: never more than there were    *)
(* crashes and failures.                                                   *)
(***************************************************************************)
THEOREM DebrisIsBounded == Spec => [](Cardinality(Damaged) <= crashes + faults)
<1> DEFINE Bounded == Cardinality(Damaged) <= crashes + faults
<1>1. Init => Bounded
  <2> SUFFICES ASSUME Init PROVE Bounded
    OBVIOUS
  <2>1. Damaged = {} /\ crashes = 0 /\ faults = 0
    BY DEF Init, Damaged
  <2> QED BY <2>1, FS_EmptySet
<1>2. TypeOK /\ TypeOK' /\ ApplyInv /\ WholeInv /\ Bounded /\ [Next]_vars => Bounded'
  <2> SUFFICES ASSUME TypeOK, TypeOK', ApplyInv, WholeInv, Bounded, [Next]_vars
               PROVE  Bounded'
    OBVIOUS
  <2>1. Damaged \in SUBSET Names /\ Damaged' \in SUBSET Names
    BY DEF TypeOK, Damaged
  <2>2. /\ IsFiniteSet(Damaged) /\ Cardinality(Damaged) \in Nat
        /\ IsFiniteSet(Damaged') /\ Cardinality(Damaged') \in Nat
    BY <2>1, NamesFinite
  <2>3. /\ crashes \in Nat /\ crashes' \in Nat /\ faults \in Nat /\ faults' \in Nat
    BY BoundAssumption DEF TypeOK
  <2>4. crashes <= crashes' /\ faults <= faults'
    BY <2>3 DEF Next, Pipeline, StartSync, LsRemote, Pull, Scan, RecordNoChange, FetchFile,
       CreateVersion, LinkEntry, Switch, ClearStaging, WriteManifestFile, RollBack, Cleanup,
       Prune, SaveState, RecordFailure, Edit, StepFails, Crash, vars, budgets
  <2>5. CASE Damaged' \subseteq Damaged
    <3>1. Cardinality(Damaged') <= Cardinality(Damaged)
      BY <2>2, <2>5, FS_Subset
    <3> QED BY <2>2, <2>3, <2>4, <3>1
  <2>6. CASE CutShort /\ \E x \in Names : Damaged' \subseteq Damaged \cup {x}
    <3>1. PICK x \in Names : Damaged' \subseteq Damaged \cup {x}
      BY <2>6
    <3>2. /\ IsFiniteSet(Damaged \cup {x})
          /\ Cardinality(Damaged \cup {x}) \in {Cardinality(Damaged), Cardinality(Damaged) + 1}
      BY <2>2, FS_AddElement
    <3>3. Cardinality(Damaged') <= Cardinality(Damaged \cup {x})
      BY <3>1, <3>2, FS_Subset
    <3>4. crashes' = crashes + 1 \/ faults' = faults + 1
      BY <2>6 DEF CutShort, Crash, StepFails, RollBack
    <3> HIDE DEF Damaged
    <3>5. Cardinality(Damaged') <= Cardinality(Damaged) + 1
      BY <2>2, <3>2, <3>3
    <3> QED BY <2>2, <2>3, <2>4, <3>4, <3>5
  <2> QED BY <2>5, <2>6, DamageStep
<1> QED
  BY <1>1, <1>2, TypeCorrect, ApplyInvariant, WholeInvariant, PTL DEF Spec

(***************************************************************************)
(* Without crashes and failed deletions, every version that history lists  *)
(* between two syncs is whole and has its metadata, whatever else failed:  *)
(* NoDebris of the live run.                                               *)
(***************************************************************************)
THEOREM NothingHalfBuilt ==
  ASSUME MaxCrashes = 0, Faults \cap {"prune", "rollback"} = {}
  PROVE  Spec => []NoDebris
<1> DEFINE Unhurt == Damaged = {}
<1>1. Init => Unhurt
  BY DEF Init, Damaged
<1>2. TypeOK /\ ApplyInv /\ WholeInv /\ Unhurt /\ [Next]_vars => Unhurt'
  <2> SUFFICES ASSUME TypeOK, ApplyInv, WholeInv, Unhurt, [Next]_vars
               PROVE  Unhurt'
    OBVIOUS
  <2>1. ~Crash
    BY BoundAssumption DEF Crash, TypeOK
  <2>2. ~(StepFails /\ pc = "prune")
    BY DEF StepFails
  <2>3. ~(RollBack /\ ~RemoveAll(new))
    BY DEF RollBack
  <2> QED BY <2>1, <2>2, <2>3, DamageStep DEF CutShort
<1>3. Unhurt => NoDebris
  <2> SUFFICES ASSUME Unhurt, pc = "idle", NEW v \in versions
               PROVE  v \in meta /\ Complete(v)
    BY DEF NoDebris
  <2>1. ~Building(v)
    BY DEF Building, Switched
  <2>2. v \notin Damaged
    OBVIOUS
  <2> QED BY <2>1, <2>2 DEF Damaged, Sound
<1> HIDE DEF Unhurt
<1> QED
  BY <1>1, <1>2, <1>3, TypeCorrect, ApplyInvariant, WholeInvariant, PTL DEF Spec
=============================================================================
