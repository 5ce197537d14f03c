----------------------------- MODULE GitPlugin -----------------------------
(***************************************************************************)
(* plugin-git (plugins/plugin-git) between a remote that moves and the     *)
(* kernel that mirrors it, and the panel's cache clear (cmd/edge-panel).   *)
(* A snapshot is a series of git commands over the cache repository: the   *)
(* commit that names it is the one ls-remote saw, the tree is the one the  *)
(* fetch brought, and the entries are what the index lists and the work    *)
(* tree has.  The index and the work tree may be changed by others: a      *)
(* checkout whose plugin was killed runs on, and the panel deletes the     *)
(* cache without asking anyone.                                            *)
(*                                                                         *)
(* git itself is external: checkout takes index.lock, writes the work tree *)
(* file by file, and then replaces index and HEAD.  The kernel's side is   *)
(* the short cut, the diff and the fetches of runSync; the steps of Apply  *)
(* are SyncTask's.  All contents have one size: the size checks are        *)
(* SyncTask's too.                                                         *)
(***************************************************************************)
EXTENDS Naturals, Differ

CONSTANTS
  Commit,        \* the commits the branch may be at
  TreeOf,        \* [Commit -> Tree]
  GitDir,        \* the .git directory of the cache repository
  MaxMoves,      \* bound: moves of the branch
  MaxFaults,     \* bound: timeouts and errors
  MaxDeaths,     \* bound: power failures
  MaxClears      \* bound: cache clears

ASSUME CommitAssumption == None \notin Commit /\ TreeOf \in [Commit -> Tree]
ASSUME GitDirIsNoPath == GitDir \notin Path
ASSUME BudgetAssumption ==
  MaxMoves \in Nat /\ MaxFaults \in Nat /\ MaxDeaths \in Nat /\ MaxClears \in Nat

VARIABLES
  remote,     \* the commit the branch is at
  (* the cache repository *)
  git,        \* .git exists
  head,       \* HEAD
  index,      \* the index
  lock,       \* .git/index.lock exists
  work,       \* the work tree
  (* processes beside the plugin *)
  child,      \* the commit a running git checkout goes to
  todo,       \* the files it has yet to write or delete
  late,       \* the commit an orphaned git fetch is about to put in FETCH_HEAD
  clearing,   \* what a running os.RemoveAll of the cache has yet to delete
  (* one sync: the plugin's snapshot, then the kernel *)
  pc,
  want,       \* what ls-remote returned
  pin,        \* the commit this sync is about: FETCH_HEAD once it has fetched
  rows,       \* what ls-files listed and Lstat has not seen yet
  snap,       \* the manifest
  staged,     \* staging/
  (* the kernel's durable side *)
  mirror,     \* the version current names
  state,      \* TaskState: manifest and fingerprint
  (* history, and the budgets of the bounds above *)
  disturbed,  \* the cache changed, or was half changed, under this sync
  tainted,    \* a disturbed sync was published
  moves, faults, deaths, clears

cache   == <<git, head, index, lock, work>>
beside  == <<child, todo, late, clearing>>
sync    == <<pc, want, pin, rows, snap, staged>>
kernel  == <<mirror, state>>
history == <<disturbed, tainted>>
budgets == <<moves, faults, deaths, clears>>
vars    == <<remote, cache, beside, sync, kernel, history, budgets>>

NoManifest == [fp |-> None, tree |-> Empty]

(***************************************************************************)
(* The session is over: the plugin's and runSync's variables are gone.     *)
(***************************************************************************)
Forget ==
  /\ pc' = "idle" /\ want' = None /\ pin' = None /\ rows' = Empty
  /\ snap' = NoManifest /\ staged' = Empty /\ disturbed' = FALSE

Init ==
  /\ remote \in Commit
  /\ git = FALSE /\ head = None /\ index = Empty /\ lock = FALSE /\ work = Empty
  /\ child = None /\ todo = {} /\ late = None /\ clearing = {}
  /\ pc = "idle" /\ want = None /\ pin = None /\ rows = Empty
  /\ snap = NoManifest /\ staged = Empty
  /\ mirror = Empty /\ state = NoManifest
  /\ disturbed = FALSE /\ tainted = FALSE
  /\ moves = 0 /\ faults = 0 /\ deaths = 0 /\ clears = 0

(***************************************************************************)
(* The cache is as its last complete checkout left it, and nobody is at    *)
(* work in it.                                                             *)
(***************************************************************************)
AtRest ==
  /\ child = None /\ clearing = {}
  /\ head = None \/ index = TreeOf[head]
  /\ \A p \in PathsOf(index) : work[p] = index[p]
-----------------------------------------------------------------------------
(* syncRepo.                                                               *)

LsRemote_NotKept ==             \* broken: the commit is compared, not kept
  /\ pc = "idle"
  /\ pc' = "compare"
  /\ want' = remote
  /\ disturbed' = ~AtRest
  /\ UNCHANGED <<remote, cache, beside, pin, rows, snap, staged, kernel, tainted,
                 budgets>>

LsRemote ==
  /\ pc = "idle"
  /\ pc' = "compare"
  /\ want' = remote /\ pin' = remote
  /\ disturbed' = ~AtRest
  /\ UNCHANGED <<remote, cache, beside, rows, snap, staged, kernel, tainted, budgets>>

CompareHead_AnyCache ==         \* broken: a cache that exists is up to date
  /\ pc = "compare"
  /\ pc' = IF git /\ head # None THEN "list" ELSE "init"
  /\ UNCHANGED <<remote, cache, beside, want, pin, rows, snap, staged, kernel,
                 history, budgets>>

CompareHead ==
  /\ pc = "compare"
  /\ pc' = IF git /\ head = want THEN "list" ELSE "init"
  /\ UNCHANGED <<remote, cache, beside, want, pin, rows, snap, staged, kernel,
                 history, budgets>>

InitRepo_Once ==                \* broken: not again after a clear
  /\ pc = "init"
  /\ pc' = "fetch" /\ git' = (git \/ clears = 0)
  /\ UNCHANGED <<remote, head, index, lock, work, beside, want, pin, rows, snap,
                 staged, kernel, history, budgets>>

InitRepo ==
  /\ pc = "init"
  /\ pc' = "fetch" /\ git' = TRUE
  /\ UNCHANGED <<remote, head, index, lock, work, beside, want, pin, rows, snap,
                 staged, kernel, history, budgets>>

Fetch ==
  /\ pc = "fetch" /\ git
  /\ pc' = "checkout"
  /\ pin' = remote
  /\ UNCHANGED <<remote, cache, beside, want, rows, snap, staged, kernel,
                 history, budgets>>

(***************************************************************************)
(* The files a checkout to c writes or deletes: it leaves alone what       *)
(* neither the index nor c knows.                                          *)
(***************************************************************************)
Outdated(c) ==
  {p \in PathsOf(index) \cup PathsOf(TreeOf[c]) : work[p] # TreeOf[c][p]}

BeginCheckout ==
  /\ pc = "checkout" /\ git /\ ~lock /\ child = None
  /\ pc' = "wait"
  /\ child' = pin /\ todo' = Outdated(pin) /\ lock' = TRUE
  /\ UNCHANGED <<remote, git, head, index, work, late, clearing, want, pin, rows,
                 snap, staged, kernel, history, budgets>>

CheckoutFile(p) ==
  /\ child # None /\ p \in todo
  /\ todo' = todo \ {p}
  /\ work' = [work EXCEPT ![p] = TreeOf[child][p]]
  /\ disturbed' = (disturbed \/ pc \notin {"idle", "wait"})
  /\ UNCHANGED <<remote, git, head, index, lock, child, late, clearing, sync,
                 kernel, tainted, budgets>>

WriteIndex ==
  /\ child # None /\ todo = {} /\ lock
  /\ index' = TreeOf[child] /\ lock' = FALSE
  /\ disturbed' = (disturbed \/ pc \notin {"idle", "wait"})
  /\ UNCHANGED <<remote, git, head, work, beside, sync, kernel, tainted, budgets>>

EndCheckout ==
  /\ child # None /\ todo = {} /\ ~lock
  /\ head' = child /\ child' = None
  /\ pc' = IF pc = "wait" THEN "clean" ELSE pc
  /\ disturbed' = IF pc = "wait"
                    THEN clearing # {} \/ \E p \in PathsOf(index) : work[p] # index[p]
                    ELSE disturbed \/ pc # "idle"
  /\ UNCHANGED <<remote, git, index, lock, work, todo, late, clearing, want, pin,
                 rows, snap, staged, kernel, tainted, budgets>>

(***************************************************************************)
(* git clean -fd, whose failure is only a warning.                         *)
(***************************************************************************)
Clean ==
  /\ pc = "clean"
  /\ pc' = "list"
  /\ work' \in {work, [p \in Path |-> IF index[p] = None THEN None ELSE work[p]]}
  /\ UNCHANGED <<remote, git, head, index, lock, beside, want, pin, rows, snap,
                 staged, kernel, history, budgets>>

ListIndex ==
  /\ pc = "list" /\ git
  /\ pc' = "stat"
  /\ rows' = index
  /\ snap' = [fp |-> want, tree |-> Empty]
  /\ UNCHANGED <<remote, cache, beside, want, pin, staged, kernel, history, budgets>>

(***************************************************************************)
(* An entry whose file is missing is left out of the manifest.             *)
(***************************************************************************)
StatEntry(p) ==
  /\ pc = "stat" /\ rows[p] # None
  /\ rows' = [rows EXCEPT ![p] = None]
  /\ snap' = IF work[p] = None THEN snap ELSE [snap EXCEPT !.tree[p] = rows[p]]
  /\ UNCHANGED <<remote, cache, beside, pc, want, pin, staged, kernel, history,
                 budgets>>
-----------------------------------------------------------------------------
(* runSync.                                                                *)

(***************************************************************************)
(* The snapshot is returned: the short cut on the fingerprint, the empty   *)
(* diff, or the fetches.  recordNoChange keeps the old manifest.           *)
(***************************************************************************)
Decide ==
  /\ pc = "stat" /\ rows = Empty
  /\ IF snap.fp = state.fp \/ ~HasChanges(state.tree, snap.tree)
       THEN /\ Forget
            /\ state' = [state EXCEPT !.fp = snap.fp]
       ELSE /\ pc' = "get"
            /\ UNCHANGED <<want, pin, rows, snap, staged, disturbed, state>>
  /\ UNCHANGED <<remote, cache, beside, mirror, tainted, budgets>>

Missing == {p \in ToFetch(state.tree, snap.tree) : staged[p] = None}

GetFile(p) ==
  /\ pc = "get" /\ p \in Missing /\ work[p] # None
  /\ staged' = [staged EXCEPT ![p] = work[p]]
  /\ UNCHANGED <<remote, cache, beside, pc, want, pin, rows, snap, kernel,
                 history, budgets>>

Publish_KeepsRemoved ==         \* broken: a removed file stays
  /\ pc = "get" /\ Missing = {}
  /\ Forget
  /\ mirror' = [p \in Path |-> IF p \in ToFetch(state.tree, snap.tree) THEN staged[p]
                               ELSE mirror[p]]
  /\ state' = snap
  /\ tainted' = (tainted \/ disturbed)
  /\ UNCHANGED <<remote, cache, beside, budgets>>

Publish ==
  /\ pc = "get" /\ Missing = {}
  /\ Forget
  /\ mirror' = [p \in Path |-> IF p \in ToFetch(state.tree, snap.tree) THEN staged[p]
                               ELSE IF snap.tree[p] = None THEN None ELSE mirror[p]]
  /\ state' = snap
  /\ tainted' = (tainted \/ disturbed)
  /\ UNCHANGED <<remote, cache, beside, budgets>>
-----------------------------------------------------------------------------
(* What goes wrong, and what others do.                                    *)

(***************************************************************************)
(* The sync cannot go on: the repository, its lock or a file is not as the *)
(* next command needs it.                                                  *)
(***************************************************************************)
Stuck ==
  \/ pc \in {"fetch", "checkout", "list"} /\ ~git
  \/ pc = "checkout" /\ lock
  \/ pc = "wait" /\ child = None
  \/ pc = "get" /\ \E p \in Missing : work[p] = None

GiveUp ==
  /\ Stuck
  /\ Forget
  /\ UNCHANGED <<remote, cache, beside, kernel, tainted, budgets>>

(***************************************************************************)
(* The kernel's deadline passes and the plugin is killed, a git it started *)
(* runs on; or a git fails, and has removed its lock.                      *)
(***************************************************************************)
Timeout ==
  /\ pc # "idle" /\ faults < MaxFaults
  /\ faults' = faults + 1
  /\ Forget
  /\ late' \in IF pc = "fetch" THEN {late, remote} ELSE {late}
  /\ \/ UNCHANGED <<child, todo, lock>>
     \/ pc = "wait" /\ child' = None /\ todo' = {} /\ lock' = FALSE
  /\ UNCHANGED <<remote, git, head, index, work, clearing, kernel, tainted, moves,
                 deaths, clears>>

(***************************************************************************)
(* A fetch of a killed plugin ends and overwrites FETCH_HEAD.              *)
(***************************************************************************)
LateFetch ==
  /\ late # None
  /\ late' = None
  /\ pin' = IF pc = "checkout" THEN late ELSE pin
  /\ UNCHANGED <<remote, cache, child, todo, clearing, pc, want, rows, snap, staged,
                 kernel, history, budgets>>

(***************************************************************************)
(* The machine dies: no process is left, and index.lock stays.             *)
(***************************************************************************)
PowerFailure ==
  /\ deaths < MaxDeaths /\ pc # "idle"
  /\ deaths' = deaths + 1
  /\ Forget
  /\ child' = None /\ todo' = {} /\ late' = None /\ clearing' = {}
  /\ UNCHANGED <<remote, cache, kernel, tainted, moves, faults, clears>>

Move ==
  /\ moves < MaxMoves
  /\ moves' = moves + 1
  /\ remote' \in Commit \ {remote}
  /\ UNCHANGED <<cache, beside, sync, kernel, history, faults, deaths, clears>>

(***************************************************************************)
(* handleCacheClear: os.RemoveAll takes the files and .git in any order.   *)
(* A checkout under way fails without its repository.                      *)
(***************************************************************************)
Clear ==
  /\ clearing = {} /\ clears < MaxClears
  /\ clears' = clears + 1
  /\ clearing' = Path \cup {GitDir}
  /\ disturbed' = (disturbed \/ pc # "idle")
  /\ UNCHANGED <<remote, cache, child, todo, late, sync, kernel, tainted, moves,
                 faults, deaths>>

ClearFile(p) ==
  /\ p \in clearing
  /\ clearing' = clearing \ {p}
  /\ work' = [work EXCEPT ![p] = None]
  /\ UNCHANGED <<remote, git, head, index, lock, child, todo, late, sync, kernel,
                 history, budgets>>

ClearGit ==
  /\ GitDir \in clearing
  /\ clearing' = clearing \ {GitDir}
  /\ git' = FALSE /\ head' = None /\ index' = Empty /\ lock' = FALSE
  /\ child' = None /\ todo' = {} /\ late' = None
  /\ UNCHANGED <<remote, work, sync, kernel, history, budgets>>
-----------------------------------------------------------------------------
Snapshot ==
  \/ LsRemote \/ CompareHead \/ InitRepo \/ Fetch \/ BeginCheckout
  \/ Clean \/ ListIndex
  \/ \E p \in Path : StatEntry(p)

Kernel == Decide \/ Publish \/ GiveUp \/ \E p \in Path : GetFile(p)

Checkout == WriteIndex \/ EndCheckout \/ LateFetch \/ \E p \in Path : CheckoutFile(p)

Clearing == ClearGit \/ \E p \in Path : ClearFile(p)

Next ==
  \/ Snapshot \/ Kernel \/ Checkout \/ Clearing
  \/ Timeout \/ PowerFailure \/ Move \/ Clear

Spec == Init /\ [][Next]_vars

(***************************************************************************)
(* Runner.loop syncs again and again, and commands and deletions that were *)
(* started end.  The remote and the faults owe nothing.                    *)
(***************************************************************************)
FairSpec ==
  Spec /\ WF_vars(Snapshot \/ Kernel) /\ WF_vars(Checkout) /\ WF_vars(Clearing)
-----------------------------------------------------------------------------
(* Properties.                                                             *)

ManifestT == [fp : Commit \cup {None}, tree : Tree]

(* The type of every variable.                                             *)
TypeOK ==
  /\ remote \in Commit
  /\ git \in BOOLEAN /\ lock \in BOOLEAN
  /\ head \in Commit \cup {None} /\ index \in Tree /\ work \in Tree
  /\ child \in Commit \cup {None} /\ todo \subseteq Path
  /\ late \in Commit \cup {None}
  /\ clearing \subseteq Path \cup {GitDir}
  /\ pc \in {"idle", "compare", "init", "fetch", "checkout", "wait", "clean",
             "list", "stat", "get"}
  /\ pc # "idle" => want \in Commit /\ pin \in Commit
  /\ {want, pin} \subseteq Commit \cup {None}
  /\ rows \in Tree /\ snap \in ManifestT /\ staged \in Tree
  /\ mirror \in Tree /\ state \in ManifestT
  /\ disturbed \in BOOLEAN /\ tainted \in BOOLEAN
  /\ moves \in 0..MaxMoves /\ faults \in 0..MaxFaults
  /\ deaths \in 0..MaxDeaths /\ clears \in 0..MaxClears

(***************************************************************************)
(* ReadsOneCommit: whatever the remote does between ls-remote, fetch and   *)
(* the copies, and whatever a killed plugin left running, the entries a    *)
(* snapshot has collected and the files it has handed over are those of    *)
(* one commit, unless the cache itself changed under it.                   *)
(***************************************************************************)
ReadsOneCommit ==
  ~disturbed =>
    /\ pc = "stat" => \A p \in Path :
         IF rows[p] = None THEN snap.tree[p] = TreeOf[pin][p]
                           ELSE rows[p] = TreeOf[pin][p]
    /\ pc = "get" =>
         /\ snap.tree = TreeOf[pin]
         /\ \A p \in Path : staged[p] \in {None, TreeOf[pin][p]}

(***************************************************************************)
(* PublishesPin: a published mirror is, file for file, the commit the sync *)
(* was about, although only the changed files were fetched and the rest    *)
(* comes from the previous version, unless some published sync had the     *)
(* cache change under it.                                                  *)
(***************************************************************************)
PublishesPin ==
  [][Publish /\ ~tainted' => mirror' = TreeOf[pin]]_vars

(***************************************************************************)
(* Converges: when the remote rests, the mirror becomes and stays the tree *)
(* of its branch.  No timeout, orphaned git or cleared cache keeps it from *)
(* doing so, but for two ends: the recorded fingerprint names the commit   *)
(* the remote is at while the mirror is not its tree, so that every later  *)
(* sync is skipped; or a power failure left an index.lock nobody removes.  *)
(***************************************************************************)
Misled == state.fp = remote /\ mirror # TreeOf[remote]

Converges ==
  <>[](mirror = TreeOf[remote]) \/ <>[]Misled \/ <>[]lock
=============================================================================
