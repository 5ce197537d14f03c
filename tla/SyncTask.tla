------------------------------ MODULE SyncTask ------------------------------
(***************************************************************************)
(* One task of edge-syncd: Runner.Sync and runSync (internal/runner), the  *)
(* applier, the differ and the retention cleanup (internal/engine), the    *)
(* state store (internal/state), and the data directory they share:        *)
(*                                                                         *)
(*   data/<task>/staging/        files fetched by the sync under way       *)
(*   data/<task>/versions/<ts>/  one directory per version                 *)
(*   data/<task>/current         symlink to one of them                    *)
(*   state/<task>.json           the manifest of the last success          *)
(*                                                                         *)
(* A sync is a pipeline of file-system steps.  Between any two of them the *)
(* source may change and the daemon may die; any of them may fail.  The    *)
(* steps of one sync never interleave with another's here: Runner.tla is   *)
(* about the flag that is meant to ensure it.                              *)
(***************************************************************************)
EXTENDS Integers, Differ, Retention

CONSTANTS
  SizeOf,         \* [Content -> Nat], FileEntry.Size; 0 is not checked
  Salt,           \* tells apart commits that have the same tree
  NoFp,           \* the empty ManifestFingerprint
  Modes,          \* which plugins: subset of {"pinned", "live"}: plugin-git
                  \* and plugin-local, see LsRemote, Scan and Fetched
  KeepDaysSet,    \* BOOLEAN: does the task configure retention.keepDays
  Faults,         \* the pipeline steps that may fail, a subset of Step
  MaxVersion,     \* bound: names of version directories
  MaxGap,         \* bound: how far a name is from the one before, where an
                  \* earlier name may find room
  MaxBacks,       \* bound: names that are not later than those in use
  MaxEdits,       \* bound: changes of the source
  MaxCrashes,     \* bound: deaths of the daemon
  MaxFaults,      \* bound: failures of a step
  FailureCap      \* bound: consecutiveFailures stops counting here

Commit == [tree : Tree, salt : Salt]
Fp     == Commit \cup {NoFp}
Names  == 1..MaxVersion
NoVersion == 0                          \* no current link; PrevVersionDir = ""

Switched == {"clear", "meta"}           \* Apply, after the rename of current
Unsaved  == Switched \cup {"retention", "prune", "save"}
Step     == {"snapshot", "pull", "nochange", "fetch", "link", "rollback"}
            \cup Unsaved

ASSUME SaltAssumption  == Salt # {}
ASSUME SizeAssumption  == SizeOf \in [Content -> Nat]
ASSUME FpAssumption    == NoFp \notin Commit
ASSUME ModeAssumption  == Modes \subseteq {"pinned", "live"}
ASSUME FaultAssumption == Faults \subseteq Step
ASSUME BoundAssumption ==
  /\ MaxVersion \in Nat /\ MaxGap \in Nat /\ MaxBacks \in Nat
  /\ MaxEdits \in Nat /\ MaxCrashes \in Nat /\ MaxFaults \in Nat
  /\ FailureCap \in Nat
  /\ KeepDaysSet \in BOOLEAN

VARIABLES
  (* the source and the plugin that reads it *)
  mode,       \* "pinned" or "live"
  src,        \* the commit the source is at
  (* on disk: what survives a crash *)
  versions,   \* the directories under versions/
  files,      \* what is in each of them
  goal,       \* the manifest each was made from (.edge-sync-manifest.json)
  meta,       \* those whose .edge-sync-manifest.json is written
  current,    \* what the current symlink names
  staged,     \* staging/
  state,      \* TaskState: lastManifest, manifestFingerprint, failures
  cache,      \* the commit plugin-git's work tree has checked out
  (* in memory: the sync under way *)
  pc,         \* its next step, "idle" between syncs
  st,         \* the TaskState it loaded
  want,       \* the commit ls-remote gave to the snapshot under way
  snap,       \* the manifest its snapshot returned
  new,        \* the version it assembles
  prev,       \* PrevVersionDir
  doomed,     \* versions Cleanup has yet to delete
  (* history, and the budgets of the bounds above *)
  torn,       \* some sync was cut short between Switch and SaveState
  edits, crashes, faults, backs

disk    == <<versions, files, goal, meta, current, staged, state, cache>>
memory  == <<pc, st, want, snap, new, prev, doomed>>
budgets == <<edits, crashes, faults, backs>>
vars    == <<mode, src, disk, memory, torn, budgets>>

(***************************************************************************)
(* ReadVersionDir through the current link; nothing is there if the link   *)
(* is missing or dangling.                                                 *)
(***************************************************************************)
Mirror == IF current \in versions THEN files[current] ELSE Empty

(***************************************************************************)
(* CombineFingerprint: plugin-local's manifest fingerprint is made of its  *)
(* entries, and is "" when there are none.                                 *)
(***************************************************************************)
CombineFingerprint(t) ==
  IF t = Empty THEN NoFp ELSE [tree |-> t, salt |-> CHOOSE s \in Salt : TRUE]

(***************************************************************************)
(* FetchFile: plugin-git reads the work tree its snapshot checked out,     *)
(* plugin-local the live source.                                           *)
(***************************************************************************)
Fetched(p) == IF mode = "pinned" THEN snap.tree[p] ELSE src.tree[p]

(***************************************************************************)
(* ValidateFetched and linkChecked: the file exists and, when the manifest *)
(* gives a size, has that size.                                            *)
(***************************************************************************)
Fits(c, entry) ==
  /\ c # None
  /\ SizeOf[entry] > 0 => SizeOf[c] = SizeOf[entry]

(***************************************************************************)
(* nextVersionDir only looks for a name no directory has.  It is later     *)
(* than all names in use if the clock and the zone have only moved on; a   *)
(* clock set back, and a suffix -10 that sorts before -2, give a name that *)
(* is not, and even the one a dangling link still has.                     *)
(***************************************************************************)
InUse == versions \cup {current}
Ahead(v)  == /\ \A w \in InUse : w < v
             /\ \E w \in InUse \cup {0} : v - w <= MaxGap
Behind(v) == v \notin versions /\ \E w \in InUse : v <= w

ZeroState == [manifest |-> Empty, fp |-> NoFp, failures |-> 0]

Init ==
  /\ mode \in Modes
  /\ src \in Commit
  /\ versions = {} /\ meta = {}
  /\ files = [v \in Names |-> Empty]
  /\ goal  = [v \in Names |-> Empty]
  /\ current = NoVersion
  /\ staged = Empty
  /\ state = ZeroState
  /\ cache = NoFp
  /\ pc = "idle"
  /\ st = ZeroState
  /\ want = NoFp
  /\ snap = [tree |-> Empty, fp |-> NoFp]
  /\ new = NoVersion /\ prev = NoVersion
  /\ doomed = {}
  /\ torn = FALSE
  /\ edits = 0 /\ crashes = 0 /\ faults = 0 /\ backs = 0
(***************************************************************************)
(* The end of a sync: what it held in memory is gone.                      *)
(***************************************************************************)
Forget ==
  /\ pc' = "idle"
  /\ st' = ZeroState
  /\ want' = NoFp
  /\ new' = NoVersion /\ prev' = NoVersion
  /\ doomed' = {}
-----------------------------------------------------------------------------
(* The source.                                                             *)

Edit ==
  /\ edits < MaxEdits
  /\ src' \in Commit \ {src}
  /\ edits' = edits + 1
  /\ UNCHANGED <<mode, disk, memory, torn, crashes, faults, backs>>
-----------------------------------------------------------------------------
(* runSync, step by step.                                                  *)

StartSync_KeepsStaging ==      \* broken: resumes from an old staging/
  /\ pc = "idle"
  /\ pc' = "snapshot"
  /\ st' = state
  /\ UNCHANGED <<mode, src, versions, files, goal, meta, current, staged, state,
                 cache, want, snap, new, prev, doomed, torn, budgets>>

StartSync ==
  /\ pc = "idle"
  /\ pc' = "snapshot"
  /\ staged' = Empty
  /\ st' = state
  /\ UNCHANGED <<mode, src, versions, files, goal, meta, current, state, cache,
                 want, snap, new, prev, doomed, torn, budgets>>

UpToDate(m) ==
  \/ m.fp # NoFp /\ m.fp = st.fp
  \/ ~HasChanges(st.manifest, m.tree)

Answer(m) ==            \* the plugin's snapshot returns the manifest m
  /\ snap' = m
  /\ pc' = IF UpToDate(m) THEN "nochange" ELSE "fetch"

(***************************************************************************)
(* plugin-git's snapshot.  The commit ls-remote names becomes the          *)
(* fingerprint.  If the work tree has it checked out the tree is that one; *)
(* if not, the tree is what fetch finds later, whatever that is by then.   *)
(***************************************************************************)
LsRemote ==
  /\ pc = "snapshot"
  /\ mode = "pinned"
  /\ IF cache = src
       THEN Answer([tree |-> src.tree, fp |-> src]) /\ UNCHANGED want
       ELSE pc' = "pull" /\ want' = src /\ UNCHANGED snap
  /\ UNCHANGED <<mode, src, disk, st, new, prev, doomed, torn, budgets>>

Pull ==
  /\ pc = "pull"
  /\ Answer([tree |-> src.tree, fp |-> want])
  /\ cache' = src
  /\ want' = NoFp
  /\ UNCHANGED <<mode, src, versions, files, goal, meta, current, staged, state,
                 st, new, prev, doomed, torn, budgets>>

Scan ==                 \* plugin-local's snapshot
  /\ pc = "snapshot"
  /\ mode = "live"
  /\ Answer([tree |-> src.tree, fp |-> CombineFingerprint(src.tree)])
  /\ UNCHANGED <<mode, src, disk, st, want, new, prev, doomed, torn, budgets>>

(***************************************************************************)
(* recordNoChange: a Save that fails is logged, and the sync succeeds.     *)
(***************************************************************************)
RecordNoChange ==
  /\ pc = "nochange"
  /\ Forget
  /\ \/ /\ state' = [manifest |-> st.manifest, fp |-> snap.fp, failures |-> 0]
        /\ UNCHANGED faults
     \/ /\ "nochange" \in Faults /\ faults < MaxFaults
        /\ faults' = faults + 1
        /\ UNCHANGED state
  /\ UNCHANGED <<mode, src, versions, files, goal, meta, current, staged, cache,
                 snap, torn, edits, crashes, backs>>

Pending == {p \in ToFetch(st.manifest, snap.tree) : staged[p] = None}

FetchFile(p) ==
  /\ pc = "fetch"
  /\ p \in Pending
  /\ IF Fits(Fetched(p), snap.tree[p])
       THEN staged' = [staged EXCEPT ![p] = Fetched(p)] /\ UNCHANGED pc
       ELSE pc' = "failed" /\ UNCHANGED staged
  /\ UNCHANGED <<mode, src, versions, files, goal, meta, current, state, cache,
                 st, want, snap, new, prev, doomed, torn, budgets>>

(***************************************************************************)
(* The assembly of a version begins: nextVersionDir and MkdirAll.          *)
(***************************************************************************)
CreateVersion_NotKept ==       \* broken: makes it, does not keep its name
  /\ pc = "fetch"
  /\ Pending = {}
  /\ \E v \in Names : Ahead(v) /\ versions' = versions \cup {v}
  /\ prev' = current
  /\ pc' = "link"
  /\ UNCHANGED <<mode, src, files, goal, meta, current, staged, state, cache,
                 st, want, snap, new, doomed, torn, budgets>>

CreateVersion ==
  /\ pc = "fetch"
  /\ Pending = {}
  /\ \E v \in Names :
       /\ \/ Ahead(v) /\ UNCHANGED backs
          \/ Behind(v) /\ backs < MaxBacks /\ backs' = backs + 1
       /\ new' = v
       /\ versions' = versions \cup {v}
       /\ files' = [files EXCEPT ![v] = Empty]
       /\ goal' = [goal EXCEPT ![v] = snap.tree]
  /\ prev' = current
  /\ pc' = "link"
  /\ UNCHANGED <<mode, src, meta, current, staged, state, cache, st, want, snap,
                 doomed, torn, edits, crashes, faults>>

LinkSource_Previous(p) ==      \* broken: an old version wins over staging
  IF prev \in versions /\ files[prev][p] # None THEN files[prev][p]
  ELSE staged[p]

LinkSource(p) ==
  IF p \in ToFetch(st.manifest, snap.tree) THEN staged[p]
  ELSE IF prev \in versions THEN files[prev][p]
  ELSE None

Unlinked == {p \in PathsOf(snap.tree) : files[new][p] = None}

LinkEntry(p) ==
  /\ pc = "link"
  /\ p \in Unlinked
  /\ IF Fits(LinkSource(p), snap.tree[p])
       THEN files' = [files EXCEPT ![new][p] = LinkSource(p)] /\ UNCHANGED pc
       ELSE pc' = "rollback" /\ UNCHANGED files
  /\ UNCHANGED <<mode, src, versions, goal, meta, current, staged, state, cache,
                 st, want, snap, new, prev, doomed, torn, budgets>>

Switch_Early ==                \* broken: before every entry is linked
  /\ pc = "link"
  /\ current' = new
  /\ pc' = "clear"
  /\ UNCHANGED <<mode, src, versions, files, goal, meta, staged, state, cache,
                 st, want, snap, new, prev, doomed, torn, budgets>>

Switch ==
  /\ pc = "link"
  /\ Unlinked = {}
  /\ current' = new
  /\ pc' = "clear"
  /\ UNCHANGED <<mode, src, versions, files, goal, meta, staged, state, cache,
                 st, want, snap, new, prev, doomed, torn, budgets>>

ClearStaging ==
  /\ pc = "clear"
  /\ staged' = Empty
  /\ pc' = "meta"
  /\ UNCHANGED <<mode, src, versions, files, goal, meta, current, state, cache,
                 st, want, snap, new, prev, doomed, torn, budgets>>

WriteManifestFile ==
  /\ pc = "meta"
  /\ meta' = meta \cup {new}
  /\ pc' = "retention"
  /\ UNCHANGED <<mode, src, versions, files, goal, current, staged, state,
                 cache, st, want, snap, new, prev, doomed, torn, budgets>>

(***************************************************************************)
(* os.RemoveAll of a version directory: all of it goes, or, when it is cut *)
(* short, whatever it had not reached stays, the directory itself too.     *)
(***************************************************************************)
RemoveAll(v) ==
  /\ versions' = versions \ {v}
  /\ meta' = meta \ {v}
  /\ files' = [files EXCEPT ![v] = Empty]
  /\ goal' = [goal EXCEPT ![v] = Empty]

RemovePart(v) ==
  /\ \E left \in SUBSET Path :
       files' = [files EXCEPT ![v] =
                   [p \in Path |-> IF p \in left THEN files[v][p] ELSE None]]
  /\ meta' \in {meta, meta \ {v}}
  /\ UNCHANGED <<versions, goal>>

(***************************************************************************)
(* The deferred os.RemoveAll(newDir) of Apply; its error is ignored.       *)
(***************************************************************************)
RollBack_Forgotten ==          \* broken: the half-built version stays
  /\ pc = "rollback"
  /\ pc' = "failed"
  /\ UNCHANGED <<mode, src, disk, st, want, snap, new, prev, doomed, torn,
                 budgets>>

RollBack ==
  /\ pc = "rollback"
  /\ pc' = "failed"
  /\ \/ RemoveAll(new) /\ UNCHANGED faults
     \/ /\ "rollback" \in Faults /\ faults < MaxFaults
        /\ faults' = faults + 1
        /\ RemovePart(new)
  /\ UNCHANGED <<mode, src, current, staged, state, cache, st, want, snap, new,
                 prev, doomed, torn, edits, crashes, backs>>

(***************************************************************************)
(* Cleanup: list, rank and choose, then delete from the newest down.       *)
(***************************************************************************)
Cleanup ==
  /\ pc = "retention"
  /\ \E cut \in IF KeepDaysSet THEN 0..MaxVersion ELSE {0} :
       /\ doomed' = Doomed(versions, new, cut)
       /\ pc' = IF doomed' = {} THEN "save" ELSE "prune"
  /\ UNCHANGED <<mode, src, disk, st, want, snap, new, prev, torn, budgets>>

Victim(v) == v \in doomed /\ \A w \in doomed : w <= v

Prune ==
  /\ pc = "prune"
  /\ \E v \in Names :
       /\ Victim(v)
       /\ RemoveAll(v)
       /\ doomed' = doomed \ {v}
       /\ pc' = IF doomed' = {} THEN "save" ELSE "prune"
  /\ UNCHANGED <<mode, src, current, staged, state, cache, st, want, snap, new,
                 prev, torn, budgets>>

SaveState_FpOnly ==            \* broken: forgets lastManifest
  /\ pc = "save"
  /\ state' = [state EXCEPT !.fp = snap.fp, !.failures = 0]
  /\ Forget
  /\ UNCHANGED <<mode, src, versions, files, goal, meta, current, staged, cache,
                 snap, torn, budgets>>

SaveState ==
  /\ pc = "save"
  /\ state' = [manifest |-> snap.tree, fp |-> snap.fp, failures |-> 0]
  /\ Forget
  /\ UNCHANGED <<mode, src, versions, files, goal, meta, current, staged, cache,
                 snap, torn, budgets>>
-----------------------------------------------------------------------------
(* Failures and crashes.                                                   *)

(***************************************************************************)
(* What a step that is cut short leaves of the versions: a deletion under  *)
(* way is left undone in part.                                             *)
(***************************************************************************)
HalfRemoved ==
  \/ /\ pc \notin {"prune", "rollback"}
     /\ UNCHANGED <<versions, files, goal, meta>>
  \/ pc = "prune" /\ \E v \in Names : Victim(v) /\ RemovePart(v)
  \/ pc = "rollback" /\ RemovePart(new)

(***************************************************************************)
(* ... and of plugin-git's work tree: the new commit may be checked out.   *)
(***************************************************************************)
HalfPulled == cache' \in IF pc = "pull" THEN {cache, src} ELSE {cache}

(***************************************************************************)
(* An error return: an I/O error, a plugin error, a timeout or a cancelled *)
(* context.  Apply rolls back until its very last step, the switch         *)
(* included; the error of the roll-back itself is in RollBack.             *)
(***************************************************************************)
StepFails ==
  /\ pc \in Faults \ {"nochange", "rollback"}
  /\ faults < MaxFaults
  /\ faults' = faults + 1
  /\ pc' = IF pc \in {"link"} \cup Switched THEN "rollback" ELSE "failed"
  /\ torn' = (torn \/ pc \in Unsaved)
  /\ HalfRemoved
  /\ HalfPulled
  /\ want' = NoFp
  /\ doomed' = {}
  /\ UNCHANGED <<mode, src, current, staged, state, st, snap, new, prev,
                 edits, crashes, backs>>

RecordFailure_Fp ==            \* broken: keeps the failed sync's fingerprint
  /\ pc = "failed"
  /\ Forget
  /\ state' = [state EXCEPT !.fp = snap.fp]
  /\ UNCHANGED <<mode, src, versions, files, goal, meta, current, staged, cache,
                 snap, torn, budgets>>

RecordFailure_Session ==       \* broken: keeps the failed sync's manifest
  /\ pc = "failed"
  /\ Forget
  /\ state' = [state EXCEPT !.fp = snap.fp, !.manifest = snap.tree]
  /\ UNCHANGED <<mode, src, versions, files, goal, meta, current, staged, cache,
                 snap, torn, budgets>>

(***************************************************************************)
(* Sync, after runSync returned an error: count it in a freshly loaded     *)
(* state.  A Save that fails is logged.                                    *)
(***************************************************************************)
RecordFailure ==
  /\ pc = "failed"
  /\ Forget
  /\ \/ /\ state' = [state EXCEPT !.failures =
                       IF @ < FailureCap THEN @ + 1 ELSE @]
        /\ UNCHANGED faults
     \/ /\ "save" \in Faults /\ faults < MaxFaults
        /\ faults' = faults + 1
        /\ UNCHANGED state
  /\ UNCHANGED <<mode, src, versions, files, goal, meta, current, staged, cache,
                 snap, torn, edits, crashes, backs>>

(***************************************************************************)
(* The daemon dies and is started again: the disk is as it was.            *)
(***************************************************************************)
Crash ==
  /\ pc # "idle"
  /\ crashes < MaxCrashes
  /\ crashes' = crashes + 1
  /\ Forget
  /\ torn' = (torn \/ pc \in Unsaved)
  /\ HalfRemoved
  /\ HalfPulled
  /\ UNCHANGED <<mode, src, current, staged, state, snap, edits, faults, backs>>
-----------------------------------------------------------------------------
Pipeline ==
  \/ StartSync \/ LsRemote \/ Pull \/ Scan \/ RecordNoChange
  \/ \E p \in Path : FetchFile(p)
  \/ CreateVersion
  \/ \E p \in Path : LinkEntry(p)
  \/ Switch \/ ClearStaging \/ WriteManifestFile \/ RollBack
  \/ Cleanup \/ Prune \/ SaveState
  \/ RecordFailure

Next == Pipeline \/ Edit \/ StepFails \/ Crash

Spec == Init /\ [][Next]_vars

(***************************************************************************)
(* The scheduler runs the task again and again (Runner.loop), and every    *)
(* step of a sync returns; the source, failures and crashes owe nothing.   *)
(***************************************************************************)
FairSpec == Spec /\ WF_vars(Pipeline)
-----------------------------------------------------------------------------
(* Properties.                                                             *)

ManifestT == [tree : Tree, fp : Fp]
StateT    == [manifest : Tree, fp : Fp, failures : 0..FailureCap]

(* The type of every variable.                                             *)
TypeOK ==
  /\ mode \in Modes
  /\ src \in Commit
  /\ versions \subseteq Names /\ meta \subseteq Names
  /\ files \in [Names -> Tree] /\ goal \in [Names -> Tree]
  /\ current \in Names \cup {NoVersion}
  /\ staged \in Tree
  /\ state \in StateT /\ st \in StateT
  /\ cache \in Fp /\ want \in Fp
  /\ pc = "pull" <=> want # NoFp
  /\ pc \in {"idle", "failed"} \cup Step
  /\ snap \in ManifestT
  /\ new \in Names \cup {NoVersion} /\ prev \in Names \cup {NoVersion}
  /\ pc \in {"link", "rollback"} \cup Unsaved => new \in Names
  /\ doomed \subseteq Names
  /\ torn \in BOOLEAN
  /\ edits \in 0..MaxEdits /\ crashes \in 0..MaxCrashes
  /\ faults \in 0..MaxFaults /\ backs \in 0..MaxBacks

(***************************************************************************)
(* CurrentComplete: whatever was interrupted, current names a version that *)
(* exists and holds exactly the paths of the manifest it was made from,    *)
(* each with the size the manifest gives it.  Apply links every entry      *)
(* before it renames the link, its roll-back and Cleanup delete only       *)
(* directories current does not name.                                      *)
(***************************************************************************)
Complete(v) ==
  \A p \in Path :
    IF goal[v][p] = None THEN files[v][p] = None
                         ELSE Fits(files[v][p], goal[v][p])

CurrentComplete ==
  current # NoVersion => current \in versions /\ Complete(current)

(***************************************************************************)
(* CurrentExact: the current version holds the very contents its manifest  *)
(* names, the "complete, consistent mirror" of DESIGN 4.3.                 *)
(***************************************************************************)
CurrentExact ==
  current \in versions => files[current] = goal[current]

(***************************************************************************)
(* MirrorMatchesState: unless some sync was cut short after the switch,    *)
(* the mirror is what the state file says was last synced -- or, between   *)
(* the switch and the save, what the snapshot said.  Diff's verdict        *)
(* "unchanged" and Apply's link from the previous version both rely on it. *)
(***************************************************************************)
MirrorMatchesState ==
  ~torn /\ mode = "pinned" =>
    Mirror = IF pc \in Unsaved THEN snap.tree ELSE state.manifest

(***************************************************************************)
(* FpIsOfManifest: the stored fingerprint and the stored manifest change   *)
(* only together, to those of one snapshot -- although recordNoChange      *)
(* writes the one without the other and a failed sync writes the file too. *)
(* The fingerprint alone decides that nothing is to be done (runSync,      *)
(* step 3), so a pair of two snapshots would hide a change for good.       *)
(***************************************************************************)
FpIsOfManifest ==
  [][<<state'.manifest, state'.fp>> # <<state.manifest, state.fp>> =>
       state'.manifest = snap.tree /\ state'.fp = snap.fp]_vars

(***************************************************************************)
(* NoChangeIsTrue: when a sync concludes that nothing changed, the mirror  *)
(* does hold the tree the snapshot found, unless the conclusion came from  *)
(* a fingerprint that plugin-git gave to the tree of another commit: the   *)
(* branch moved between its ls-remote and its fetch, now or when the state *)
(* was stored.                                                             *)
(***************************************************************************)
OwnTree(fp, tree) == fp = NoFp \/ fp.tree = tree

NoChangeIsTrue ==
  /\ pc = "nochange" /\ ~torn /\ mode = "pinned"
  /\ \/ snap.fp # st.fp
     \/ OwnTree(snap.fp, snap.tree) /\ OwnTree(st.fp, st.manifest)
  => Mirror = snap.tree

(***************************************************************************)
(* StateFollowsMirror: the stored manifest changes only to that of a       *)
(* version already published with its metadata file; a failed or           *)
(* interrupted sync never puts the state ahead of the mirror.              *)
(***************************************************************************)
StateFollowsMirror ==
  [][state'.manifest # state.manifest =>
       /\ current' \in meta'
       /\ goal'[current'] = state'.manifest]_vars

(***************************************************************************)
(* RetentionSpares: a version deleted because of keepLast leaves at least  *)
(* keepLast newer ones behind, however often Cleanup was interrupted.      *)
(***************************************************************************)
RetentionSpares ==
  [][pc = "prune" /\ ~KeepDaysSet =>
       \A v \in versions \ versions' :
         Cardinality({w \in versions' : w > v}) >= KeepLast]_vars

(***************************************************************************)
(* RetentionBudget: when a sync that published saves its state, keepLast   *)
(* bounds the versions on disk, the debris of crashed syncs included.  The *)
(* new version itself is over it only if keepLast others have later names, *)
(* after the clock was set back.                                           *)
(***************************************************************************)
RetentionBudget ==
  pc = "save" /\ KeepLast > 0 =>
    Cardinality(versions) <=
      KeepLast + (IF Rank(new, versions) > KeepLast THEN 1 ELSE 0)

(***************************************************************************)
(* NoDebris: between syncs every version that history lists is whole and   *)
(* has its metadata; a failed Apply leaves no half-built directory.        *)
(***************************************************************************)
NoDebris ==
  pc = "idle" => \A v \in versions : v \in meta /\ Complete(v)

(***************************************************************************)
(* Misled: the stored fingerprint is that of the source's commit and the   *)
(* stored manifest is that of another one (the branch moved between        *)
(* ls-remote and fetch, and came back).  Every later sync ends early.      *)
(***************************************************************************)
Misled == mode = "pinned" /\ state.fp = src /\ state.manifest # src.tree

(***************************************************************************)
(* Converges: once the source and the failures stop, mirror and state stay *)
(* equal to the source, unless the task is misled for good.                *)
(***************************************************************************)
Converges ==
  \/ <>[](Mirror = src.tree /\ state.manifest = src.tree /\ state.failures = 0)
  \/ <>[]Misled

(***************************************************************************)
(* ImplementsAtomicMirror: with no crash and no failure after the switch,  *)
(* the pipeline of a plugin whose snapshot is pinned implements            *)
(* AtomicMirror; its liveness too, unless the task is misled for good.     *)
(***************************************************************************)
AM == INSTANCE AtomicMirror
        WITH Trees <- Tree, NoTree <- Empty,
             source <- src.tree, taken <- snap.tree, mirror <- Mirror

ImplementsAtomicMirror == AM!Spec /\ (<>[]Misled \/ AM!Fairness)
=============================================================================
