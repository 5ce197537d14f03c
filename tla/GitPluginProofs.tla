-------------------------- MODULE GitPluginProofs --------------------------
(***************************************************************************)
(* Theorems about GitPlugin, for any files, commits and bounds.            *)
(***************************************************************************)
EXTENDS GitPlugin, TLAPS

USE NoneIsNoContent, CommitAssumption, GitDirIsNoPath, BudgetAssumption

LEMMA EmptyIsTree == Empty \in Tree /\ NoManifest \in ManifestT /\ PathsOf(Empty) = {}
BY DEF Empty, Tree, NoManifest, ManifestT, PathsOf

LEMMA PutInTree ==
  ASSUME NEW t \in Tree, NEW p \in Path, NEW c \in Content \cup {None}
  PROVE  [t EXCEPT ![p] = c] \in Tree
BY DEF Tree

LEMMA TypesInit == Init => TypeOK
<1> SUFFICES ASSUME Init PROVE TypeOK
  OBVIOUS
<1>1. 0 \in 0..MaxMoves /\ 0 \in 0..MaxFaults /\ 0 \in 0..MaxDeaths /\ 0 \in 0..MaxClears
  OBVIOUS
<1>2. rows \in Tree /\ snap \in ManifestT /\ staged \in Tree /\ mirror \in Tree
        /\ state \in ManifestT /\ index \in Tree /\ work \in Tree
  BY EmptyIsTree DEF Init
<1> QED BY <1>1, <1>2 DEF Init, TypeOK

(***************************************************************************)
(* The steps of the plugin.                                                *)
(***************************************************************************)
LEMMA SnapshotTypes == TypeOK /\ Snapshot => TypeOK'
<1> SUFFICES ASSUME TypeOK, Snapshot PROVE TypeOK'
  OBVIOUS
<1> USE DEF TypeOK, cache, beside, kernel, history, budgets
<1>1. CASE LsRemote
  BY <1>1 DEF LsRemote
<1>2. CASE CompareHead
  BY <1>2 DEF CompareHead
<1>3. CASE InitRepo
  BY <1>3 DEF InitRepo
<1>4. CASE Fetch
  BY <1>4 DEF Fetch
<1>5. CASE BeginCheckout
  <2>1. todo' \subseteq Path
    BY <1>5 DEF BeginCheckout, Outdated, PathsOf
  <2> QED BY <1>5, <2>1 DEF BeginCheckout
<1>6. CASE Clean
  <2>1. work' \in Tree
    BY <1>6 DEF Clean, Tree
  <2> QED BY <1>6, <2>1 DEF Clean
<1>7. CASE ListIndex
  BY <1>7, EmptyIsTree DEF ListIndex, ManifestT
<1>8. ASSUME NEW p \in Path, StatEntry(p)
      PROVE  TypeOK'
  <2>1. rows[p] \in Content \cup {None} /\ snap.tree \in Tree /\ snap.fp \in Commit \cup {None}
    BY DEF Tree, ManifestT
  <2>2. rows' \in Tree
    BY <1>8, PutInTree DEF StatEntry
  <2>3. [snap.tree EXCEPT ![p] = rows[p]] \in Tree
    BY <2>1, PutInTree
  <2>4. snap' \in ManifestT
    BY <1>8, <2>1, <2>3 DEF StatEntry, ManifestT
  <2> QED BY <1>8, <2>2, <2>4 DEF StatEntry
<1> QED BY <1>1, <1>2, <1>3, <1>4, <1>5, <1>6, <1>7, <1>8 DEF Snapshot

(***************************************************************************)
(* The steps of the kernel.                                                *)
(***************************************************************************)
LEMMA KernelTypes == TypeOK /\ Kernel => TypeOK'
<1> SUFFICES ASSUME TypeOK, Kernel PROVE TypeOK'
  OBVIOUS
<1> USE DEF TypeOK, cache, beside, kernel, history, budgets
<1>1. CASE Decide
  <2>1. state' \in ManifestT
    BY <1>1 DEF Decide, ManifestT
  <2> QED BY <1>1, <2>1, EmptyIsTree DEF Decide, Forget
<1>2. CASE Publish
  <2>1. mirror' \in Tree
    <3>1. /\ \A p \in Path : mirror[p] \in Content \cup {None}
          /\ \A p \in Path : staged[p] \in Content \cup {None}
      BY DEF Tree
    <3> QED BY <1>2, <3>1 DEF Publish, Tree
  <2> QED BY <1>2, <2>1, EmptyIsTree DEF Publish, Forget
<1>3. CASE GiveUp
  BY <1>3, EmptyIsTree DEF GiveUp, Forget
<1>4. ASSUME NEW p \in Path, GetFile(p)
      PROVE  TypeOK'
  <2>1. staged' \in Tree
    <3>1. work[p] \in Content \cup {None}
      BY DEF Tree
    <3> QED BY <1>4, <3>1, PutInTree DEF GetFile
  <2> QED BY <1>4, <2>1 DEF GetFile
<1> QED BY <1>1, <1>2, <1>3, <1>4 DEF Kernel

(***************************************************************************)
(* The steps of checkouts and clears.                                      *)
(***************************************************************************)
LEMMA BesideTypes == TypeOK /\ (Checkout \/ Clearing) => TypeOK'
<1> SUFFICES ASSUME TypeOK, Checkout \/ Clearing PROVE TypeOK'
  OBVIOUS
<1> USE DEF TypeOK, cache, beside, sync, kernel, history, budgets
<1>1. ASSUME NEW p \in Path, CheckoutFile(p)
      PROVE  TypeOK'
  <2>1. TreeOf[child][p] \in Content \cup {None}
    BY <1>1 DEF CheckoutFile, Tree
  <2>2. work' \in Tree
    BY <1>1, <2>1, PutInTree DEF CheckoutFile
  <2>3. todo' \subseteq Path
    BY <1>1 DEF CheckoutFile
  <2> QED BY <1>1, <2>2, <2>3 DEF CheckoutFile
<1>2. CASE WriteIndex
  BY <1>2 DEF WriteIndex
<1>3. CASE EndCheckout
  BY <1>3 DEF EndCheckout
<1>4. CASE LateFetch
  BY <1>4 DEF LateFetch
<1>5. CASE ClearGit
  BY <1>5, EmptyIsTree DEF ClearGit
<1>6. ASSUME NEW p \in Path, ClearFile(p)
      PROVE  TypeOK'
  <2>1. work' \in Tree
    BY <1>6, PutInTree DEF ClearFile
  <2> QED BY <1>6, <2>1 DEF ClearFile
<1> QED BY <1>1, <1>2, <1>3, <1>4, <1>5, <1>6 DEF Checkout, Clearing

LEMMA TypesStep == TypeOK /\ [Next]_vars => TypeOK'
<1> SUFFICES ASSUME TypeOK, [Next]_vars PROVE TypeOK'
  OBVIOUS
<1> USE DEF TypeOK
<1>1. CASE Timeout
  <2>1. faults' \in 0..MaxFaults
    BY <1>1 DEF Timeout
  <2>2. rows' \in Tree /\ snap' \in ManifestT /\ staged' \in Tree
    BY <1>1, EmptyIsTree DEF Timeout, Forget
  <2>3. late' \in Commit \cup {None} /\ child' \in Commit \cup {None} /\ todo' \subseteq Path
          /\ lock' \in BOOLEAN
    BY <1>1 DEF Timeout
  <2> QED BY <1>1, <2>1, <2>2, <2>3 DEF Timeout, Forget, kernel
<1>2. CASE PowerFailure
  <2>1. deaths' \in 0..MaxDeaths
    BY <1>2 DEF PowerFailure
  <2>2. rows' \in Tree /\ snap' \in ManifestT /\ staged' \in Tree
    BY <1>2, EmptyIsTree DEF PowerFailure, Forget
  <2> QED BY <1>2, <2>1, <2>2 DEF PowerFailure, Forget, cache, kernel
<1>3. CASE Move
  BY <1>3 DEF Move, cache, beside, sync, kernel, history
<1>4. CASE Clear
  BY <1>4 DEF Clear, cache, sync, kernel
<1>5. CASE UNCHANGED vars
  BY <1>5 DEF vars, cache, beside, sync, kernel, history, budgets
<1> QED
  BY <1>1, <1>2, <1>3, <1>4, <1>5, SnapshotTypes, KernelTypes, BesideTypes DEF Next

(***************************************************************************)
(* Every variable of the plugin, its git and the kernel keeps its type.    *)
(***************************************************************************)
THEOREM GitTypesHold == Spec => []TypeOK
BY TypesInit, TypesStep, PTL DEF Spec
-----------------------------------------------------------------------------
(***************************************************************************)
(* A git checkout that has given its lock back has written the index, and  *)
(* the one the plugin waits for goes to the commit of this sync.           *)
(***************************************************************************)
Writes ==
  /\ child # None /\ ~lock => index = TreeOf[child] /\ todo = {}
  /\ pc = "wait" /\ child # None => child = pin
  /\ pc \in {"idle", "compare"} => pin = want
  /\ pc # "get" => staged = Empty

(***************************************************************************)
(* The cache holds commit c and nobody is at work in it.                   *)
(***************************************************************************)
Holds(c) ==
  /\ child = None /\ clearing = {}
  /\ index = TreeOf[c]
  /\ \A p \in PathsOf(index) : work[p] = index[p]

(***************************************************************************)
(* From the comparison on, the cache of an undisturbed sync is at rest;    *)
(* once it lists the index, it holds the commit of the sync.               *)
(***************************************************************************)
Steady ==
  ~disturbed =>
    /\ pc = "compare" => AtRest
    /\ pc \in {"clean", "list", "stat", "get"} => Holds(pin)

CommitInv == TypeOK /\ Writes /\ Steady /\ ReadsOneCommit

LEMMA CommitInit == Init => CommitInv
<1> SUFFICES ASSUME Init PROVE CommitInv
  OBVIOUS
<1>1. Writes /\ Steady /\ ReadsOneCommit
  BY DEF Init, Writes, Steady, ReadsOneCommit
<1> QED BY <1>1, TypesInit DEF CommitInv

(***************************************************************************)
(* The plugin's own steps: what it compares or waits for is what it lists, *)
(* and no listed file is missing.                                          *)
(***************************************************************************)
LEMMA SnapshotReads ==
  ASSUME TypeOK, Writes, Steady, ReadsOneCommit, Snapshot
  PROVE  Writes' /\ Steady' /\ ReadsOneCommit'
<1> USE DEF cache, beside, kernel, history, budgets
<1>1. CASE LsRemote
  BY <1>1 DEF LsRemote, Writes, Steady, ReadsOneCommit, AtRest, PathsOf
<1>2. CASE CompareHead
  <2>1. Writes' /\ ReadsOneCommit'
    BY <1>2 DEF CompareHead, Writes, ReadsOneCommit
  <2>2. ASSUME ~disturbed, head = want PROVE Holds(pin)
    BY <1>2, <2>2 DEF CompareHead, Steady, AtRest, Holds, Writes, TypeOK
  <2>3. Steady'
    BY <1>2, <2>2 DEF CompareHead, Steady, Holds, PathsOf
  <2> QED BY <2>1, <2>3
<1>3. CASE InitRepo \/ Fetch
  BY <1>3 DEF InitRepo, Fetch, Writes, Steady, ReadsOneCommit
<1>4. CASE BeginCheckout
  BY <1>4 DEF BeginCheckout, Writes, Steady, ReadsOneCommit
<1>5. CASE Clean
  <2>1. Writes' /\ ReadsOneCommit'
    BY <1>5 DEF Clean, Writes, ReadsOneCommit
  <2>2. Steady'
    BY <1>5 DEF Clean, Steady, Holds, PathsOf
  <2> QED BY <2>1, <2>2
<1>6. CASE ListIndex
  <2>1. Writes' /\ Steady'
    BY <1>6 DEF ListIndex, Writes, Steady, Holds, PathsOf
  <2>2. ReadsOneCommit'
    BY <1>6 DEF ListIndex, ReadsOneCommit, Steady, Holds, Empty
  <2> QED BY <2>1, <2>2
<1>7. ASSUME NEW p \in Path, StatEntry(p)
      PROVE  Writes' /\ Steady' /\ ReadsOneCommit'
  <2>1. Writes' /\ Steady'
    BY <1>7 DEF StatEntry, Writes, Steady, Holds, PathsOf
  <2>2. ASSUME ~disturbed, NEW q \in Path
        PROVE  IF rows'[q] = None THEN snap'.tree[q] = TreeOf[pin][q]
                                  ELSE rows'[q] = TreeOf[pin][q]
    <3>1. /\ IF rows[q] = None THEN snap.tree[q] = TreeOf[pin][q]
                               ELSE rows[q] = TreeOf[pin][q]
          /\ rows[p] = TreeOf[pin][p] /\ rows[p] # None
      BY <1>7, <2>2 DEF StatEntry, ReadsOneCommit
    <3>2. work[p] # None
      BY <1>7, <2>2, <3>1 DEF StatEntry, Steady, Holds, PathsOf
    <3>3. rows' = [rows EXCEPT ![p] = None] /\ snap' = [snap EXCEPT !.tree[p] = rows[p]]
      BY <1>7, <3>2 DEF StatEntry
    <3>4. rows \in Tree /\ snap \in ManifestT
      BY DEF TypeOK
    <3> QED BY <3>1, <3>3, <3>4 DEF Tree, ManifestT
  <2>3. ReadsOneCommit'
    BY <1>7, <2>2 DEF StatEntry, ReadsOneCommit
  <2> QED BY <2>1, <2>3
<1> QED BY <1>1, <1>2, <1>3, <1>4, <1>5, <1>6, <1>7 DEF Snapshot

LEMMA KernelReads ==
  ASSUME TypeOK, Writes, Steady, ReadsOneCommit, Kernel
  PROVE  Writes' /\ Steady' /\ ReadsOneCommit'
<1> USE DEF cache, beside, kernel, history, budgets
<1>1. CASE Forget /\ UNCHANGED <<cache, beside>>
  BY <1>1 DEF Forget, Writes, Steady, ReadsOneCommit
<1>2. CASE Decide /\ pc' = "get"
  <2>1. UNCHANGED <<cache, beside, want, pin, rows, snap, staged, disturbed>>
    BY <1>2 DEF Decide, Forget
  <2>2. Writes' /\ Steady'
    BY <1>2, <2>1 DEF Decide, Writes, Steady, Holds, PathsOf
  <2>3. ReadsOneCommit'
    <3>1. \A p \in Path : rows[p] = None /\ staged[p] = None
      BY <1>2 DEF Decide, Empty, Writes
    <3>2. ASSUME ~disturbed PROVE snap.tree = TreeOf[pin]
      <4>1. snap.tree \in Tree /\ TreeOf[pin] \in Tree
        BY <1>2 DEF Decide, TypeOK, ManifestT
      <4>2. \A p \in Path : snap.tree[p] = TreeOf[pin][p]
        BY <1>2, <3>1, <3>2 DEF Decide, ReadsOneCommit
      <4> QED BY <4>1, <4>2 DEF Tree
    <3> QED BY <1>2, <2>1, <3>1, <3>2 DEF ReadsOneCommit
  <2> QED BY <2>2, <2>3
<1>3. ASSUME NEW p \in Path, GetFile(p)
      PROVE  Writes' /\ Steady' /\ ReadsOneCommit'
  <2>1. Writes' /\ Steady'
    BY <1>3 DEF GetFile, Writes, Steady, Holds, PathsOf
  <2>2. ASSUME ~disturbed PROVE work[p] = TreeOf[pin][p]
    <3>1. snap.tree = TreeOf[pin] /\ Holds(pin)
      BY <1>3, <2>2 DEF GetFile, ReadsOneCommit, Steady
    <3>2. p \in PathsOf(snap.tree)
      BY <1>3 DEF GetFile, Missing, ToFetch, Added, Modified, PathsOf
    <3> QED BY <3>1, <3>2 DEF Holds
  <2>3. ReadsOneCommit'
    BY <1>3, <2>2 DEF GetFile, ReadsOneCommit, TypeOK, Tree
  <2> QED BY <2>1, <2>3
<1> QED BY <1>1, <1>2, <1>3 DEF Kernel, Decide, Publish, GiveUp

(***************************************************************************)
(* A checkout or a clear beside the sync disturbs it, except the checkout  *)
(* it waits for, which leaves the cache with the commit of the sync.       *)
(***************************************************************************)
LEMMA BesideReads ==
  ASSUME TypeOK, Writes, Steady, ReadsOneCommit, Checkout \/ Clearing
  PROVE  Writes' /\ Steady' /\ ReadsOneCommit'
<1> USE DEF cache, beside, sync, kernel, history, budgets
<1>1. ASSUME NEW p \in Path, CheckoutFile(p)
      PROVE  Writes' /\ Steady' /\ ReadsOneCommit'
  BY <1>1 DEF CheckoutFile, Writes, Steady, ReadsOneCommit
<1>2. CASE WriteIndex
  BY <1>2 DEF WriteIndex, Writes, Steady, ReadsOneCommit
<1>3. CASE EndCheckout
  <2>1. Writes'
    BY <1>3 DEF EndCheckout, Writes
  <2>2. Steady'
    BY <1>3 DEF EndCheckout, Writes, Steady, Holds, PathsOf
  <2>3. ReadsOneCommit'
    BY <1>3 DEF EndCheckout, ReadsOneCommit
  <2> QED BY <2>1, <2>2, <2>3
<1>4. CASE LateFetch
  BY <1>4 DEF LateFetch, Writes, Steady, ReadsOneCommit, AtRest, Holds, PathsOf
<1>5. CASE ClearGit
  BY <1>5 DEF ClearGit, Writes, Steady, ReadsOneCommit, AtRest, Holds
<1>6. ASSUME NEW p \in Path, ClearFile(p)
      PROVE  Writes' /\ Steady' /\ ReadsOneCommit'
  BY <1>6 DEF ClearFile, Writes, Steady, ReadsOneCommit, AtRest, Holds
<1> QED BY <1>1, <1>2, <1>3, <1>4, <1>5, <1>6 DEF Checkout, Clearing

LEMMA CommitStep == CommitInv /\ [Next]_vars => CommitInv'
<1> SUFFICES ASSUME TypeOK, Writes, Steady, ReadsOneCommit, [Next]_vars
             PROVE  Writes' /\ Steady' /\ ReadsOneCommit'
  BY TypesStep DEF CommitInv
<1>1. CASE Timeout
  BY <1>1 DEF Timeout, Forget, Writes, Steady, ReadsOneCommit
<1>2. CASE PowerFailure
  BY <1>2 DEF PowerFailure, Forget, Writes, Steady, ReadsOneCommit
<1>3. CASE Move
  BY <1>3 DEF Move, cache, beside, sync, kernel, history,
              Writes, Steady, ReadsOneCommit, AtRest, Holds, PathsOf
<1>4. CASE Clear
  BY <1>4 DEF Clear, cache, sync, kernel, Writes, Steady, ReadsOneCommit
<1>5. CASE UNCHANGED vars
  BY <1>5 DEF vars, cache, beside, sync, kernel, history, budgets,
              Writes, Steady, ReadsOneCommit, AtRest, Holds, PathsOf
<1> QED BY <1>1, <1>2, <1>3, <1>4, <1>5, SnapshotReads, KernelReads, BesideReads DEF Next

(***************************************************************************)
(* Whatever the remote does between ls-remote, fetch and the copies, and   *)
(* whatever killed plugins left running, an undisturbed sync reads the     *)
(* files of one commit (syncRepo, snapshot, fetchFile).                    *)
(***************************************************************************)
THEOREM OneCommitIsRead == Spec => []ReadsOneCommit
<1>1. CommitInv => ReadsOneCommit
  BY DEF CommitInv
<1> QED BY <1>1, CommitInit, CommitStep, PTL DEF Spec

(***************************************************************************)
(* As long as no disturbed sync was published, the mirror is the manifest  *)
(* the state file keeps: the next diff is right about what it leaves out.  *)
(***************************************************************************)
Recorded == ~tainted => mirror = state.tree

LEMMA RecordedInit == Init => Recorded
BY DEF Init, Recorded, NoManifest

LEMMA PublishedTree ==
  ASSUME TypeOK, ReadsOneCommit, Recorded, Publish, ~tainted'
  PROVE  mirror' = TreeOf[pin] /\ state'.tree = TreeOf[pin]
<1>1. /\ pc = "get" /\ Missing = {} /\ ~disturbed /\ ~tainted /\ state' = snap
      /\ mirror' = [p \in Path |->
                      IF p \in ToFetch(state.tree, snap.tree) THEN staged[p]
                      ELSE IF snap.tree[p] = None THEN None ELSE mirror[p]]
  BY DEF Publish
<1>2. snap.tree = TreeOf[pin] /\ \A p \in Path : staged[p] \in {None, TreeOf[pin][p]}
  BY <1>1 DEF ReadsOneCommit
<1>3. mirror = state.tree
  BY <1>1 DEF Recorded
<1>4. ASSUME NEW p \in Path PROVE mirror'[p] = snap.tree[p]
  <2>1. CASE p \in ToFetch(state.tree, snap.tree)
    BY <1>1, <1>2, <2>1 DEF Missing
  <2>2. CASE p \notin ToFetch(state.tree, snap.tree)
    <3>1. snap.tree[p] # None => state.tree[p] = snap.tree[p]
      BY <2>2 DEF ToFetch, Added, Modified, PathsOf
    <3> QED BY <1>1, <1>3, <2>2, <3>1
  <2> QED BY <2>1, <2>2
<1>5. mirror' \in Tree /\ TreeOf[pin] \in Tree
  <2>1. mirror' \in Tree
    BY TypesStep DEF TypeOK, Next, Kernel
  <2>2. pin \in Commit
    BY <1>1 DEF TypeOK
  <2> QED BY <2>1, <2>2
<1> QED BY <1>1, <1>2, <1>4, <1>5 DEF Tree

LEMMA RecordedStep == CommitInv /\ Recorded /\ [Next]_vars => Recorded'
<1> SUFFICES ASSUME TypeOK, ReadsOneCommit, Recorded, [Next]_vars PROVE Recorded'
  BY DEF CommitInv
<1>1. CASE Publish
  BY <1>1, PublishedTree DEF Recorded
<1>2. CASE Decide
  BY <1>2 DEF Decide, Recorded, TypeOK, ManifestT
<1>3. ASSUME UNCHANGED <<mirror, state, tainted>>
      PROVE  Recorded'
  BY <1>3 DEF Recorded
<1> QED
  BY <1>1, <1>2, <1>3
     DEF Next, Snapshot, Kernel, Checkout, Clearing, LsRemote, CompareHead, InitRepo,
         Fetch, BeginCheckout, Clean, ListIndex, StatEntry, GiveUp, GetFile,
         CheckoutFile, WriteIndex, EndCheckout, LateFetch, ClearFile, ClearGit,
         Timeout, PowerFailure, Move, Clear, vars, sync, kernel, history

(***************************************************************************)
(* Unless a published sync was disturbed, the mirror it publishes is file  *)
(* for file the commit it was about, fetched files and kept ones alike     *)
(* (runSync, Diff, Apply over plugin-git).                                 *)
(***************************************************************************)
THEOREM PinIsPublished == Spec => PublishesPin
<1>1. CommitInv /\ Recorded /\ [Next]_vars =>
        [Publish /\ ~tainted' => mirror' = TreeOf[pin]]_vars
  BY PublishedTree DEF CommitInv
<1>2. Spec => [][Publish /\ ~tainted' => mirror' = TreeOf[pin]]_vars
  BY <1>1, CommitInit, CommitStep, RecordedInit, RecordedStep, PTL DEF Spec
<1> QED BY <1>2 DEF PublishesPin
-----------------------------------------------------------------------------
(***************************************************************************)
(* The fingerprint a snapshot will report is what ls-remote returned.      *)
(***************************************************************************)
Reported == pc \in {"stat", "get"} => snap.fp = want

LEMMA ReportedInit == Init => Reported
BY DEF Init, Reported

LEMMA ReportedStep == TypeOK /\ Reported /\ [Next]_vars => Reported'
<1> SUFFICES ASSUME TypeOK, Reported, [Next]_vars PROVE Reported'
  OBVIOUS
<1> USE DEF Reported, cache, beside, kernel, history, budgets
<1>1. CASE ListIndex
  BY <1>1 DEF ListIndex
<1>2. ASSUME NEW p \in Path, StatEntry(p)
      PROVE  Reported'
  BY <1>2 DEF StatEntry, TypeOK, ManifestT
<1>3. CASE LsRemote \/ CompareHead \/ InitRepo \/ Fetch \/ BeginCheckout \/ Clean
  BY <1>3 DEF LsRemote, CompareHead, InitRepo, Fetch, BeginCheckout, Clean
<1>4. CASE Decide
  BY <1>4 DEF Decide, Forget
<1>5. ASSUME NEW p \in Path, GetFile(p)
      PROVE  Reported'
  BY <1>5 DEF GetFile
<1>6. CASE Publish \/ GiveUp \/ Timeout \/ PowerFailure
  BY <1>6 DEF Publish, GiveUp, Timeout, PowerFailure, Forget
<1>7. CASE EndCheckout
  BY <1>7 DEF EndCheckout
<1>8. CASE UNCHANGED <<pc, want, snap>>
  BY <1>8
<1> QED
  BY <1>1, <1>2, <1>3, <1>4, <1>5, <1>6, <1>7, <1>8
     DEF Next, Snapshot, Kernel, Checkout, Clearing, CheckoutFile, WriteIndex,
         LateFetch, ClearFile, ClearGit, Move, Clear, vars, sync

(***************************************************************************)
(* An empty diff is equality: no path was added, removed or changed.       *)
(***************************************************************************)
LEMMA NoChangesMeansEqual ==
  ASSUME NEW before \in Tree, NEW after \in Tree, ~HasChanges(before, after)
  PROVE  before = after
<1>1. ASSUME NEW p \in Path PROVE before[p] = after[p]
  BY DEF HasChanges, Added, Modified, Removed, PathsOf
<1> QED BY <1>1 DEF Tree

(***************************************************************************)
(* A snapshot that has seen every entry has the whole tree of its commit.  *)
(***************************************************************************)
LEMMA SnapshotTree ==
  ASSUME TypeOK, ReadsOneCommit, ~disturbed, pc = "stat", rows = Empty
  PROVE  snap.tree = TreeOf[pin]
<1>1. snap.tree \in Tree /\ TreeOf[pin] \in Tree
  BY DEF TypeOK, ManifestT
<1>2. \A p \in Path : snap.tree[p] = TreeOf[pin][p]
  BY DEF ReadsOneCommit, Empty
<1> QED BY <1>1, <1>2 DEF Tree

(***************************************************************************)
(* The two steps that record a fingerprint: an empty diff keeps the mirror,*)
(* which is the commit's tree already, and Publish makes it so.            *)
(***************************************************************************)
LEMMA LabelStep ==
  ASSUME TypeOK, ReadsOneCommit, Recorded, Reported, [Next]_vars,
         state' # state, ~tainted', ~disturbed
  PROVE  \/ state'.fp = want /\ mirror' = TreeOf[pin] /\ pc \in {"stat", "get"}
         \/ state'.fp = state.fp /\ UNCHANGED mirror
<1>1. CASE Publish
  <2>1. state' = snap /\ pc = "get"
    BY <1>1 DEF Publish
  <2> QED BY <1>1, <2>1, PublishedTree DEF Reported
<1>2. CASE Decide
  <2>1. /\ pc = "stat" /\ rows = Empty /\ state' = [state EXCEPT !.fp = snap.fp]
        /\ mirror' = mirror /\ tainted' = tainted
        /\ snap.fp = state.fp \/ ~HasChanges(state.tree, snap.tree)
    BY <1>2 DEF Decide
  <2>2. state'.fp = snap.fp
    BY <2>1 DEF TypeOK, ManifestT
  <2>3. CASE snap.fp = state.fp
    BY <2>1, <2>2, <2>3
  <2>4. CASE ~HasChanges(state.tree, snap.tree)
    <3>1. state.tree \in Tree /\ snap.tree \in Tree
      BY DEF TypeOK, ManifestT
    <3>2. mirror = snap.tree
      BY <2>1, <2>4, <3>1, NoChangesMeansEqual DEF Recorded
    <3> QED BY <2>1, <2>2, <3>2, SnapshotTree DEF Reported
  <2> QED BY <2>1, <2>3, <2>4
<1>3. UNCHANGED state \/ Publish \/ Decide
  BY DEF Next, Snapshot, Kernel, Checkout, Clearing, LsRemote, CompareHead, InitRepo,
         Fetch, BeginCheckout, Clean, ListIndex, StatEntry, GiveUp, GetFile,
         CheckoutFile, WriteIndex, EndCheckout, LateFetch, ClearFile, ClearGit,
         Timeout, PowerFailure, Move, Clear, vars, sync, kernel
<1> QED BY <1>1, <1>2, <1>3

(***************************************************************************)
(* A fingerprint newly recorded is the commit ls-remote returned, and the  *)
(* mirror beside it the tree of the commit the fetch brought.              *)
(***************************************************************************)
LabelsWhatIsThere ==
  [][state'.fp # state.fp /\ ~tainted' /\ ~disturbed =>
       state'.fp = want /\ mirror' = TreeOf[pin]]_vars

(***************************************************************************)
(* Also when the diff is empty and nothing is published (recordNoChange),  *)
(* a recorded fingerprint and the mirror can only disagree if the branch   *)
(* moved between the two commands, or the cache changed under a sync.      *)
(***************************************************************************)
THEOREM FingerprintsAreOfTheMirror == Spec => LabelsWhatIsThere
<1>1. CommitInv /\ Recorded /\ Reported /\ [Next]_vars =>
        [state'.fp # state.fp /\ ~tainted' /\ ~disturbed =>
           state'.fp = want /\ mirror' = TreeOf[pin]]_vars
  BY LabelStep DEF CommitInv
<1>2. CommitInv => TypeOK
  BY DEF CommitInv
<1>3. Spec => [][state'.fp # state.fp /\ ~tainted' /\ ~disturbed =>
                   state'.fp = want /\ mirror' = TreeOf[pin]]_vars
  BY <1>1, <1>2, CommitInit, CommitStep, RecordedInit, RecordedStep,
     ReportedInit, ReportedStep, PTL DEF Spec
<1> QED BY <1>3 DEF LabelsWhatIsThere

(***************************************************************************)
(* Every snapshot found the branch where its ls-remote had, and a cache    *)
(* that kept still.                                                        *)
(***************************************************************************)
Undisturbed == pc \in {"stat", "get"} => ~disturbed /\ want = pin

Labelled == ~tainted /\ (state.fp # None => mirror = TreeOf[state.fp])

LEMMA LabelledStep ==
  CommitInv /\ Recorded /\ Reported /\ Undisturbed /\ Labelled /\ [Next]_vars => Labelled'
<1> SUFFICES ASSUME CommitInv, Recorded, Reported, Undisturbed, Labelled, [Next]_vars
             PROVE  Labelled'
  OBVIOUS
<1>1. ~tainted'
  BY DEF Undisturbed, Labelled, Next, Snapshot, Kernel, Checkout, Clearing, LsRemote,
         CompareHead, InitRepo, Fetch, BeginCheckout, Clean, ListIndex, StatEntry,
         GiveUp, GetFile, Decide, Publish, CheckoutFile, WriteIndex, EndCheckout,
         LateFetch, ClearFile, ClearGit, Timeout, PowerFailure, Move, Clear, vars,
         history
<1>2. UNCHANGED <<state, mirror>> \/ (pc \in {"stat", "get"} /\ state' # state)
        \/ (pc = "get" /\ Publish /\ state' = state) \/ (Decide /\ state' = state)
  BY DEF Next, Snapshot, Kernel, Checkout, Clearing, LsRemote, CompareHead, InitRepo,
         Fetch, BeginCheckout, Clean, ListIndex, StatEntry, GiveUp, GetFile, Decide,
         Publish, CheckoutFile, WriteIndex, EndCheckout, LateFetch, ClearFile,
         ClearGit, Timeout, PowerFailure, Move, Clear, vars, sync, kernel
<1>3. CASE UNCHANGED <<state, mirror>>
  BY <1>1, <1>3 DEF Labelled
<1>4. CASE pc \in {"stat", "get"} /\ state' # state
  BY <1>1, <1>4, LabelStep DEF Undisturbed, Labelled, CommitInv
<1>5. CASE pc = "get" /\ Publish /\ state' = state
  <2>1. state' = snap /\ mirror' = TreeOf[pin]
    BY <1>1, <1>5, PublishedTree DEF CommitInv, Publish
  <2> QED BY <1>1, <1>5, <2>1 DEF Undisturbed, Labelled, Reported
<1>6. CASE Decide /\ state' = state
  BY <1>1, <1>6 DEF Decide, Labelled
<1> QED BY <1>2, <1>3, <1>4, <1>5, <1>6

(***************************************************************************)
(* As long as the branch does not move between the ls-remote and the fetch *)
(* of one snapshot, and nobody changes the cache under it, no recorded     *)
(* fingerprint ever makes the kernel skip a sync it needs: when the state  *)
(* file names the commit the remote is at, the mirror is its tree.  These  *)
(* two are therefore the only ways into the first of the two ends that     *)
(* Converges allows.                                                       *)
(***************************************************************************)
THEOREM NeverMisled == Spec /\ []Undisturbed => []~Misled
<1>1. Init => Labelled
  BY DEF Init, Labelled, NoManifest
<1>2. CommitInv /\ Labelled => ~Misled
  BY DEF CommitInv, TypeOK, Labelled, Misled
<1>3. CommitInv => TypeOK
  BY DEF CommitInv
<1> QED
  BY <1>1, <1>2, <1>3, CommitInit, CommitStep, RecordedInit, RecordedStep,
     ReportedInit, ReportedStep, LabelledStep, PTL DEF Spec
=============================================================================
