------------------------------ MODULE Readers ------------------------------
(***************************************************************************)
(* Those who read the versions of one task while the kernel assembles,     *)
(* switches and deletes them: downloads and archives through the panel and *)
(* its limiter (cmd/edge-panel), export and restore-file (cmd/edge-sync),  *)
(* history.files and history.list (internal/ipc).  No reader takes a lock  *)
(* the kernel knows of.                                                    *)
(*                                                                         *)
(* What a reader gets of a file is named by the version it got it from:    *)
(* published files are never written again, and an open one survives its   *)
(* deletion.  Every version has the same files in the same directories.    *)
(* Versions are their names; a name that is free may be used again.        *)
(***************************************************************************)
EXTENDS Integers, FiniteSets, Sequences

CONSTANTS
  Path,
  Folder,        \* the directories of a version
  Above,         \* [Path \cup Folder -> the directories it is in]
  Request,       \* handlers of the panel, one per request being served
  Tool,          \* runs of export and restore-file, and history queries
  Cap,           \* newLimiter(max)
  MaxQueue,      \* maxQueue
  KeepLast,      \* retention.keepLast of the task
  MaxVersions,   \* bound: versions
  MaxArrivals,   \* bound: requests; or one command or query: readers write
                 \* nothing that a reader of another kind reads
  MaxEvents      \* bound: stalled or lost clients, restarts of the panel,
                 \* syncs rolled back and directories left behind, together

Version == 1 .. MaxVersions
Reader  == Request \cup Tool
Entry   == Path \cup Folder

(***************************************************************************)
(* A directory is given by the ones that lead to its entries: {} is the    *)
(* version's own.                                                          *)
(***************************************************************************)
Into(d) == Above[d] \cup {d}
In(dir) == {e \in Entry : Above[e] = dir}

(* On the way to an entry each directory holds the next one, or the entry. *)
ASSUME TreeAssumption ==
  /\ IsFiniteSet(Entry) /\ Path \cap Folder = {} /\ Above \in [Entry -> SUBSET Folder]
  /\ \A e \in Entry : \A d \in Above[e] : d \notin Above[d] /\ Above[d] \subseteq Above[e]
  /\ \A e \in Entry : \A dir \in {{}} \cup {Into(d) : d \in Above[e]} :
       Above[e] = dir \/ \E f \in Above[e] : Above[f] = dir

ASSUME LimiterAssumption == Cap \in Nat \ {0} /\ MaxQueue \in Nat
ASSUME ReaderAssumption == IsFiniteSet(Request) /\ Request \cap Tool = {}
ASSUME VersionAssumption == MaxVersions \in Nat /\ KeepLast \in Nat \ {0}

VARIABLES
  (* data/<task> *)
  stage,      \* [Version -> stage of its life]
  there,      \* [Version -> the files and directories in it]
  current,    \* the version the symbolic link names, or 0
  (* the limiter *)
  sem,        \* how many values are in the channel
  queue,      \* the senders the channel has blocked, first come first
  waiting,    \* mu.waiting
  (* the readers *)
  rd,
  stalled,    \* requests whose client has stopped reading
  (* history, and the budgets of the bounds above *)
  raced,      \* two updates of mu.waiting overlapped
  arrivals, events

data    == <<stage, there, current>>
limiter == <<sem, queue, waiting, raced>>
budgets == <<arrivals, events>>
vars    == <<data, limiter, rd, stalled, budgets>>

(***************************************************************************)
(* A reader: where it is, what it does, the version it resolved its        *)
(* request to (0 follows the link "current"), the directory it was asked   *)
(* for, what is still to be read (history.list: the versions listed), the  *)
(* files read, and the value of mu.waiting it loaded.  As history: frail,  *)
(* its version was not all there when it began to read or when it ended    *)
(* (history.list: the link named nothing), and moved, what it reads        *)
(* through, the link or the name, came to stand for another version.       *)
(* What a request wants is chosen when it is first used, and forgotten     *)
(* with its answer.                                                        *)
(***************************************************************************)
Off == [pc |-> "off", kind |-> "none", dir |-> 0, sub |-> {}, list |-> {},
        got |-> [p \in Path |-> 0], reg |-> 0, frail |-> FALSE, moved |-> FALSE]

Exists(v) == v # 0 /\ stage[v] \notin {"absent", "gone"}
Here(v)   == IF v = 0 THEN {} ELSE there[v]
Full(v)   == v # 0 /\ stage[v] \in {"switched", "whole"}

(***************************************************************************)
(* The directory a path through dir goes to at this moment.                *)
(***************************************************************************)
Place(r) == IF rd[r].dir = 0 THEN current ELSE rd[r].dir

Goto(r, pc) == rd' = [rd EXCEPT ![r].pc = pc]
Done(r)     == rd' = [rd EXCEPT ![r] = [Off EXCEPT !.pc = "done"]]

Init ==
  /\ stage = [v \in Version |-> "absent"] /\ there = [v \in Version |-> {}]
  /\ current = 0
  /\ sem = 0 /\ queue = <<>> /\ waiting = 0 /\ raced = FALSE
  /\ rd = [r \in Reader |-> Off] /\ stalled = {}
  /\ arrivals = 0 /\ events = 0
-----------------------------------------------------------------------------
(* The kernel, one sync after the other.                                   *)

Quiet == \A v \in Version : stage[v] \in {"absent", "whole", "left", "gone"}

(* The readers marked are those who read through the link, or through v. *)
Move(follows(_)) ==
  rd' = [r \in Reader |->
           IF rd[r].pc \in {"list", "open", "mark"} /\ follows(r)
             THEN [rd[r] EXCEPT !.moved = TRUE] ELSE rd[r]]

(***************************************************************************)
(* nextVersionDir takes a name that no directory has, whatever had it      *)
(* before; the link may still name it.                                     *)
(***************************************************************************)
Begin(v) ==
  /\ Quiet /\ stage[v] \in {"absent", "gone"}
  /\ stage' = [stage EXCEPT ![v] = "assembling"]
  /\ Move(LAMBDA r : Place(r) = v)
  /\ UNCHANGED <<there, current, limiter, stalled, budgets>>

Make(v, e) ==                  \* MkdirAll, or a link
  /\ stage[v] = "assembling" /\ e \notin there[v] /\ Above[e] \subseteq there[v]
  /\ there' = [there EXCEPT ![v] = @ \cup {e}]
  /\ UNCHANGED <<stage, current, limiter, rd, stalled, budgets>>

Switch(v) ==
  /\ stage[v] = "assembling" /\ there[v] = Entry
  /\ stage' = [stage EXCEPT ![v] = "switched"]
  /\ current' = v
  /\ Move(LAMBDA r : rd[r].dir = 0 /\ rd[r].kind \in {"export", "history"})
  /\ UNCHANGED <<there, limiter, stalled, budgets>>

(* Apply returns, or the kernel dies first and starts again. *)
Commit(v) ==
  /\ stage[v] = "switched"
  /\ stage' = [stage EXCEPT ![v] = "whole"]
  /\ UNCHANGED <<there, current, limiter, rd, stalled, budgets>>

(* Apply fails, after the switch too: what current names is deleted. *)
RollBack(v) ==
  /\ stage[v] \in {"assembling", "switched"} /\ events < MaxEvents
  /\ events' = events + 1
  /\ stage' = [stage EXCEPT ![v] = "removing"]
  /\ UNCHANGED <<there, current, limiter, rd, stalled, arrivals>>

(***************************************************************************)
(* Cleanup: all but current and the KeepLast newest directories, newest    *)
(* first; RemoveAll deletes a directory file by file.                      *)
(***************************************************************************)
Excess(v) ==
  /\ Exists(v) /\ v # current
  /\ Cardinality({u \in Version : u >= v /\ Exists(u)}) > KeepLast

Prune(v) ==
  /\ Quiet /\ current # 0 /\ stage[current] = "whole"
  /\ Excess(v) /\ \A u \in Version : u > v => ~Excess(u)
  /\ stage' = [stage EXCEPT ![v] = "removing"]
  /\ UNCHANGED <<there, current, limiter, rd, stalled, budgets>>

Unlink(v, e) ==                \* a file, or a directory that is empty
  /\ stage[v] = "removing" /\ e \in there[v] /\ \A x \in there[v] : e \notin Above[x]
  /\ there' = [there EXCEPT ![v] = @ \ {e}]
  /\ UNCHANGED <<stage, current, limiter, rd, stalled, budgets>>

Rmdir(v) ==
  /\ stage[v] = "removing" /\ there[v] = {}
  /\ stage' = [stage EXCEPT ![v] = "gone"]
  /\ UNCHANGED <<there, current, limiter, rd, stalled, budgets>>

(***************************************************************************)
(* RemoveAll stops at an error, or the kernel dies: what is there stays    *)
(* until a Cleanup deletes it.                                             *)
(***************************************************************************)
Leave(v) ==
  /\ stage[v] \in {"assembling", "removing"} /\ events < MaxEvents
  /\ events' = events + 1
  /\ stage' = [stage EXCEPT ![v] = "left"]
  /\ UNCHANGED <<there, current, limiter, rd, stalled, arrivals>>
-----------------------------------------------------------------------------
(* acquire and release.                                                    *)

Arrive(r) ==                   \* every request has a goroutine of its own
  /\ rd[r].pc = "off"
  /\ IF r \in Request
       THEN /\ arrivals < MaxArrivals /\ arrivals' = arrivals + 1
            /\ r = CHOOSE h \in Request : rd[h].pc = "off"
            /\ Goto(r, "look")
       ELSE /\ arrivals = 0 /\ arrivals' = MaxArrivals
            /\ Goto(r, "resolve")
  /\ UNCHANGED <<data, limiter, stalled, events>>

Look(h) ==                     \* len(l.sem) >= cap(l.sem), no lock held
  /\ rd[h].pc = "look"
  /\ Goto(h, IF sem >= Cap THEN "full" ELSE "try")
  /\ UNCHANGED <<data, limiter, stalled, budgets>>

CheckQueue(h) ==               \* 429 if the queue is full
  /\ rd[h].pc = "full"
  /\ rd' = [rd EXCEPT ![h] =
               IF waiting >= MaxQueue THEN Off ELSE [@ EXCEPT !.pc = "try"]]
  /\ UNCHANGED <<data, limiter, stalled, budgets>>

Try_NoSlot(h) ==               \* broken: a full channel is no obstacle
  /\ rd[h].pc = "try"
  /\ sem' = IF sem < Cap THEN sem + 1 ELSE sem
  /\ Goto(h, "resolve")
  /\ UNCHANGED <<data, queue, waiting, raced, stalled, budgets>>

Try(h) ==                      \* the send, if it need not wait
  /\ rd[h].pc = "try"
  /\ IF sem < Cap THEN sem' = sem + 1 /\ Goto(h, "resolve")
                  ELSE sem' = sem /\ Goto(h, "inc")
  /\ UNCHANGED <<data, queue, waiting, raced, stalled, budgets>>

(***************************************************************************)
(* waiting++ and waiting-- are a load and a store, and nothing keeps two   *)
(* of them apart.                                                          *)
(***************************************************************************)
LoadCount(h) ==
  /\ rd[h].pc \in {"inc", "dec"}
  /\ rd' = [rd EXCEPT ![h].reg = waiting,
                      ![h].pc = IF @ = "inc" THEN "incstore" ELSE "decstore"]
  /\ raced' = (raced \/ \E g \in Request : rd[g].pc \in {"incstore", "decstore"})
  /\ UNCHANGED <<data, sem, queue, waiting, stalled, budgets>>

StoreCount_NoDec(h) ==         \* broken: leaving the queue is not counted
  \/ /\ rd[h].pc = "incstore"
     /\ waiting' = rd[h].reg + 1 /\ Goto(h, "send")
     /\ UNCHANGED <<data, sem, queue, raced, stalled, budgets>>
  \/ /\ rd[h].pc = "decstore"
     /\ Goto(h, "resolve")
     /\ UNCHANGED <<data, limiter, stalled, budgets>>

StoreCount(h) ==
  /\ \/ /\ rd[h].pc = "incstore" /\ waiting' = rd[h].reg + 1
        /\ rd' = [rd EXCEPT ![h].pc = "send", ![h].reg = 0]
     \/ /\ rd[h].pc = "decstore" /\ waiting' = rd[h].reg - 1
        /\ rd' = [rd EXCEPT ![h].pc = "resolve", ![h].reg = 0]
  /\ UNCHANGED <<data, sem, queue, raced, stalled, budgets>>

Send(h) ==                     \* the send that waits
  /\ rd[h].pc = "send"
  /\ IF sem < Cap THEN sem' = sem + 1 /\ queue' = queue /\ Goto(h, "dec")
                  ELSE sem' = sem /\ queue' = Append(queue, h) /\ Goto(h, "blocked")
  /\ UNCHANGED <<data, waiting, raced, stalled, budgets>>

Release_OnlySent(h) ==         \* broken: a failed request keeps its slot
  /\ rd[h].pc \in {"sent", "done"}
  /\ IF queue = <<>> \/ rd[h].pc = "done"
       THEN /\ sem' = IF rd[h].pc = "done" THEN sem ELSE sem - 1
            /\ queue' = queue /\ rd' = [rd EXCEPT ![h] = Off]
       ELSE /\ sem' = sem /\ queue' = Tail(queue)
            /\ rd' = [rd EXCEPT ![h] = Off, ![Head(queue)].pc = "dec"]
  /\ stalled' = stalled \ {h}
  /\ UNCHANGED <<data, waiting, raced, budgets>>

(***************************************************************************)
(* A receive from a full channel lets the first blocked sender in.         *)
(***************************************************************************)
Release(h) ==
  /\ rd[h].pc \in {"sent", "done"}
  /\ IF queue = <<>>
       THEN sem' = sem - 1 /\ queue' = queue /\ rd' = [rd EXCEPT ![h] = Off]
       ELSE /\ sem' = sem /\ queue' = Tail(queue)
            /\ rd' = [rd EXCEPT ![h] = Off, ![Head(queue)].pc = "dec"]
  /\ stalled' = stalled \ {h}
  /\ UNCHANGED <<data, waiting, raced, budgets>>
-----------------------------------------------------------------------------
(* Reading.                                                                *)

Pin_Late(kind, v) == v         \* broken: the link is followed at every step

(***************************************************************************)
(* The panel and history.files resolve the link once; export and           *)
(* restore-file name every file through it.                                *)
(***************************************************************************)
Pin(kind, v) == IF v = 0 /\ kind \in {"download", "archive", "files"} THEN current ELSE v

Resolve(r, kind, v) ==
  /\ rd[r].pc = "resolve"
  /\ IF Exists(IF v = 0 THEN current ELSE v)
       THEN rd' = [rd EXCEPT ![r].pc = "list", ![r].kind = kind,
                             ![r].dir = Pin(kind, v)]
       ELSE Done(r)
  /\ UNCHANGED <<data, limiter, stalled, budgets>>

(***************************************************************************)
(* A download and a restore-file open their one file; the others read a    *)
(* directory, history.files the one asked for.  The archive of a directory *)
(* that is gone is an empty one.                                           *)
(***************************************************************************)
OpenOne(r, p) ==
  /\ rd[r].pc = "list" /\ rd[r].kind \in {"download", "restore"}
  /\ IF p \in Here(Place(r)) THEN Goto(r, "open") ELSE Done(r)
  /\ UNCHANGED <<data, limiter, stalled, budgets>>

List(r, dir) ==
  LET v == Place(r) IN
  /\ rd[r].pc = "list" /\ rd[r].kind \in {"archive", "export", "files"}
  /\ rd[r].kind # "files" => dir = {}
  /\ IF Exists(v) /\ dir \subseteq Here(v)
       THEN rd' = [rd EXCEPT ![r].list = there[v] \cap In(dir), ![r].pc = "open",
                             ![r].sub = dir, ![r].frail = ~Full(v)]
       ELSE IF rd[r].kind = "archive"
              THEN rd' = [rd EXCEPT ![r].pc = "sent", ![r].frail = TRUE]
              ELSE Done(r)
  /\ UNCHANGED <<data, limiter, stalled, budgets>>

(***************************************************************************)
(* The walks of WalkDir and copyTree read each directory when they come to *)
(* it.                                                                     *)
(***************************************************************************)
Inside(r, e, v) ==
  IF e \in Folder /\ rd[r].kind # "files" THEN there[v] \cap In(Into(e)) ELSE {}

Keep(r, e, v) ==
  rd' = [rd EXCEPT ![r].list = (@ \ {e}) \cup Inside(r, e, v),
                   ![r].got = [p \in Path |-> IF p = e THEN v ELSE @[p]]]

(***************************************************************************)
(* What is gone: history.files leaves it out; an archive has sent its      *)
(* status and is closed where it is, as well-formed as a whole one; an     *)
(* export ends with an error.                                              *)
(***************************************************************************)
LeaveOut(r, e) == rd[r].kind = "files" /\ rd' = [rd EXCEPT ![r].list = @ \ {e}]

CutShort(r) == rd[r].kind = "archive" /\ rd' = [rd EXCEPT ![r].list = {}]

Fail(r) == rd[r].kind = "export" /\ Done(r)

Open(r, e) ==
  LET v == Place(r) IN
  /\ rd[r].pc = "open" /\ e \in rd[r].list /\ r \notin stalled
  /\ IF e \in Here(v) THEN Keep(r, e, v)
                      ELSE LeaveOut(r, e) \/ CutShort(r) \/ Fail(r)
  /\ UNCHANGED <<data, limiter, stalled, budgets>>

End(r) ==
  /\ rd[r].pc = "open" /\ rd[r].list = {} /\ r \notin stalled
  /\ IF rd[r].kind \in {"download", "restore"}
       THEN Done(r)
       ELSE rd' = [rd EXCEPT ![r].pc = "sent", ![r].frail = @ \/ ~Full(Place(r))]
  /\ UNCHANGED <<data, limiter, stalled, budgets>>

(***************************************************************************)
(* history.list: the versions, then the link.                              *)
(***************************************************************************)
ListNames(r) ==
  /\ rd[r].pc = "resolve"
  /\ rd' = [rd EXCEPT ![r].list = {v \in Version : Exists(v)}, ![r].pc = "mark",
                      ![r].kind = "history",
                      ![r].frail = current # 0 /\ ~Exists(current)]
  /\ UNCHANGED <<data, limiter, stalled, budgets>>

Mark(r) ==
  /\ rd[r].pc = "mark"
  /\ rd' = [rd EXCEPT ![r].dir = current, ![r].pc = "sent"]
  /\ UNCHANGED <<data, limiter, stalled, budgets>>

Exit(r) ==                     \* a command or a query returns
  /\ rd[r].pc \in {"sent", "done"}
  /\ rd' = [rd EXCEPT ![r] = Off]
  /\ UNCHANGED <<data, limiter, stalled, budgets>>
-----------------------------------------------------------------------------
(* Clients and the panel's process.                                        *)

Stall(h) ==                    \* connected, but it reads no more
  /\ rd[h].pc = "open" /\ h \notin stalled /\ events < MaxEvents
  /\ events' = events + 1
  /\ stalled' = stalled \cup {h}
  /\ UNCHANGED <<data, limiter, rd, arrivals>>

Disconnect(h) ==               \* io.Copy fails
  /\ rd[h].pc = "open" /\ events < MaxEvents
  /\ events' = events + 1
  /\ Done(h)
  /\ UNCHANGED <<data, limiter, stalled, arrivals>>

PanelRestart ==                \* restart-panel, or a crash
  /\ events < MaxEvents
  /\ events' = events + 1
  /\ sem' = 0 /\ queue' = <<>> /\ waiting' = 0 /\ raced' = FALSE
  /\ rd' = [r \in Reader |-> IF r \in Request THEN Off ELSE rd[r]]
  /\ stalled' = {}
  /\ UNCHANGED <<data, arrivals>>
-----------------------------------------------------------------------------
Kernel ==
  \E v \in Version :
    \/ Begin(v) \/ Switch(v) \/ Commit(v) \/ RollBack(v) \/ Prune(v) \/ Rmdir(v)
    \/ Leave(v)
    \/ \E e \in Entry : Make(v, e) \/ Unlink(v, e)

Limiter(h) ==
  \/ Look(h) \/ CheckQueue(h) \/ Try(h) \/ LoadCount(h) \/ StoreCount(h)
  \/ Send(h) \/ Release(h)

Reading(r) ==
  \/ \E k \in IF r \in Request THEN {"download", "archive"}
                            ELSE {"export", "restore", "files"} :
       \E v \in Version \cup {0} : Resolve(r, k, v)
  \/ r \in Tool /\ ListNames(r)
  \/ \E dir \in {{}} \cup {Into(d) : d \in Folder} : List(r, dir)
  \/ End(r) \/ Mark(r)
  \/ \E p \in Path : OpenOne(r, p)
  \/ \E e \in Entry : Open(r, e)

Clients ==
  \/ \E r \in Reader : Arrive(r)
  \/ \E h \in Request : Stall(h) \/ Disconnect(h)
  \/ PanelRestart

Next ==
  \/ Kernel \/ Clients
  \/ \E h \in Request : Limiter(h)
  \/ \E r \in Reader : Reading(r)
  \/ \E r \in Tool : Exit(r)

Spec == Init /\ [][Next]_vars

(***************************************************************************)
(* Goroutines that can run do: blocked senders are woken in their order,   *)
(* and a file is sent while its client reads.  The kernel, and the clients *)
(* owe nothing.                                                            *)
(***************************************************************************)
Fairness == \A h \in Request : WF_vars(Limiter(h) \/ Reading(h))

FairSpec == Spec /\ Fairness
-----------------------------------------------------------------------------
(* Properties.                                                             *)

Holders == {h \in Request : rd[h].pc \in {"dec", "decstore", "resolve", "list",
                                          "open", "sent", "done"}}

Queued == {h \in Request : rd[h].pc \in {"send", "blocked", "dec", "decstore"}}

ReaderT ==
  [pc : {"off", "look", "full", "try", "inc", "incstore", "send", "blocked", "dec",
         "decstore", "resolve", "list", "open", "mark", "sent", "done"},
   kind : {"none", "download", "archive", "export", "restore", "files",
           "history"},
   dir : Version \cup {0}, sub : SUBSET Folder,
   list : SUBSET (Entry \cup Version), got : [Path -> Version \cup {0}],
   reg : Int, frail : BOOLEAN, moved : BOOLEAN]

(***************************************************************************)
(* The type of every variable, and what the limiter is for: the values in  *)
(* the channel are those of the requests being served, at most Cap, each   *)
(* given back once whatever way a handler ends.                            *)
(***************************************************************************)
TypeOK ==
  /\ stage \in [Version -> {"absent", "assembling", "switched", "whole", "removing",
                          "left", "gone"}]
  /\ there \in [Version -> SUBSET Entry] /\ current \in Version \cup {0}
  /\ sem \in 0 .. Cap /\ queue \in Seq(Request) /\ waiting \in Int
  /\ rd \in [Reader -> ReaderT] /\ stalled \in SUBSET Request
  /\ raced \in BOOLEAN
  /\ sem = Cardinality(Holders)

(***************************************************************************)
(* QueueCounts: unless two updates of mu.waiting ever overlapped, it is    *)
(* the number of handlers that have joined the queue and not left it, so   *)
(* that 429 is answered when MaxQueue are waiting.                         *)
(***************************************************************************)
QueueCounts == ~raced => waiting = Cardinality(Queued)

(***************************************************************************)
(* OneVersion: what a reader is told is complete is of one version, and it *)
(* is all that was asked for if the version was all there when the reading *)
(* began and when it ended.  If it was assembled, rolled back or deleted   *)
(* meanwhile, files may be missing and nobody is told.  Excused is a       *)
(* reader whose link or version name came to stand for another version; an *)
(* export among these, from one whole version to another, still has each   *)
(* file at the top.  history.list marks the version current names.         *)
(***************************************************************************)
Asked(r) == IF rd[r].kind = "files" THEN Path \cap In(rd[r].sub) ELSE Path
OneOf(r) == \E v \in Version : \A p \in Path : rd[r].got[p] \in {0, v}
Got(r, files) == \A p \in files : rd[r].got[p] # 0

OneVersion ==
  \A r \in Reader : rd[r].pc = "sent" =>
    /\ rd[r].kind # "history" /\ ~rd[r].moved =>
         OneOf(r) /\ (rd[r].frail \/ Got(r, Asked(r)))
    /\ rd[r].kind = "export" /\ ~rd[r].frail => Got(r, Path \cap In({}))
    /\ rd[r].kind = "history" /\ ~rd[r].moved /\ ~rd[r].frail =>
         rd[r].dir \in rd[r].list \cup {0}

(***************************************************************************)
(* Answered: when requests stop coming, none stays unanswered: each is     *)
(* served, refused or failed in the end, unless a client stalls for good   *)
(* (nothing times out, and its slot is never given back).                  *)
(***************************************************************************)
Answered == <>[](stalled # {} \/ \A h \in Request : rd[h].pc = "off")
=============================================================================
