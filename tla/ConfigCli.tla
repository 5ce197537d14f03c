----------------------------- MODULE ConfigCli -----------------------------
(***************************************************************************)
(* The configuration file and everything that reads or writes it: the      *)
(* commands add, edit and remove [--purge] (cmd/edge-sync), config.Load    *)
(* (internal/config), config.reload (internal/ipc), SIGHUP, start-up and   *)
(* shutdown of the daemon (cmd/edge-syncd), and what a purge leaves to the *)
(* syncs of a task that is added again (internal/runner).                  *)
(*                                                                         *)
(* A command reads the whole file when it starts, waits for its user, and  *)
(* writes the whole file back: os.WriteFile empties it first.  Nothing     *)
(* excludes another command, nor a reload between the two.  An empty file  *)
(* is a valid configuration without tasks.                                 *)
(*                                                                         *)
(* Runner.Reload is one step here, and a sync is its linking of files and  *)
(* one step before and one after: Runner.tla and SyncTask.tla have theirs. *)
(***************************************************************************)
EXTENDS Naturals, Differ

CONSTANTS
  Task,
  Def,           \* the definitions a task may have in the file
  NameIn,        \* [Def -> Task], the name a definition gives
  Bad,           \* the definitions validate rejects, a subset of Def
  Disabled,      \* the definitions with enabled: false, a subset of Def
  Proc,          \* command line processes
  Hup,           \* the SIGHUP goroutine
  Sources,       \* [Task -> SUBSET Tree], what the source of a task may hold
  FirstFile,     \* the configuration at the beginning
  MaxCommands,   \* bound: commands
  MaxEvents      \* bound: kills, signals, stops, changes of a source and
                 \* incomplete purges, together

Config  == [Task -> Def \cup {None}]
NoTasks == [t \in Task |-> None]
Handler == Proc \cup {Hup}

ASSUME DefAssumption ==
  /\ None \notin Def /\ NameIn \in [Def -> Task]
  /\ Bad \subseteq Def /\ Disabled \subseteq Def
ASSUME NoneIsNoConfig == None \notin Config
ASSUME HupIsNoProcess == Hup \notin Proc
ASSUME SourceAssumption ==
  \A t \in Task : Sources[t] # {} /\ Sources[t] \subseteq Tree \ {Empty}
ASSUME FirstFileAssumption ==
  FirstFile \in {c \in Config : \A t \in Task : c[t] \notin Bad
                                /\ (c[t] # None => NameIn[c[t]] = t)}

VARIABLES
  (* files *)
  disk,       \* the file is "whole", "cut" to nothing, or "torn"
  file,       \* what was last written to it
  tmp,        \* config.yaml.edit.yml: a definition, or None
  data,       \* what data/<task>/current holds
  state,      \* state/<task>.json: the manifest of the last success
  job,        \* the sync of a task that is under way
  (* the daemon *)
  up, running,
  load,       \* the configuration each reload handler has loaded, or None
  (* the commands *)
  cli,
  (* the sources *)
  src,
  (* history, and the budgets of the bounds above *)
  raced,      \* two commands overlapped
  crossed,    \* two reloads overlapped, no other began since
  missed,     \* a command died before its reload, none began since
  commands, events

store   == <<data, state, job>>
daemon  == <<up, running, load>>
history == <<raced, crossed, missed>>
budgets == <<commands, events>>
vars    == <<disk, file, tmp, store, daemon, cli, src, history, budgets>>

(***************************************************************************)
(* A command: the step it is at, its task, the configuration it read (None *)
(* is the nil map an empty file gives) and the definition it will store    *)
(* (None removes).                                                         *)
(***************************************************************************)
Off == [pc |-> "off", task |-> None, read |-> None, def |-> None]

(***************************************************************************)
(* A sync: the manifest it is to publish, the paths it has yet to link,    *)
(* the version it is making, and whether a purge took files of that.       *)
(***************************************************************************)
NoSync == [want |-> Empty, todo |-> {}, made |-> Empty, cut |-> FALSE]

Readable == disk # "torn"
Contents == IF disk = "cut" THEN NoTasks ELSE file
Valid(c) == \A t \in Task : c[t] \notin Bad

(***************************************************************************)
(* The daemon has run for a while: the tasks that have a loop are mirrored.*)
(***************************************************************************)
Idle(d) == d \in Disabled \cup {None}

Init ==
  /\ src \in [Task -> UNION {Sources[t] : t \in Task}]
  /\ \A t \in Task : src[t] \in Sources[t]
  /\ disk = "whole" /\ file = FirstFile /\ tmp = None
  /\ data = [t \in Task |-> IF Idle(FirstFile[t]) THEN Empty ELSE src[t]]
  /\ state = data
  /\ job = [t \in Task |-> NoSync]
  /\ up = TRUE /\ running = FirstFile
  /\ load = [h \in Handler |-> None]
  /\ cli = [p \in Proc |-> Off]
  /\ raced = FALSE /\ crossed = FALSE /\ missed = FALSE
  /\ commands = 0 /\ events = 0
-----------------------------------------------------------------------------
(* The commands.                                                           *)

ReadYaml_EmptyMap == Contents   \* broken: an empty file gives an empty map

ReadYaml == IF disk = "cut" THEN None ELSE file

(***************************************************************************)
(* loadConfig, and what a command does before its user answers: add asks   *)
(* the daemon for its plugins, edit and remove look the task up, edit      *)
(* writes it to the one temporary file all edits share.                    *)
(***************************************************************************)
Begin(p, t, first) ==
  /\ cli[p].pc = "off" /\ load[p] = None
  /\ Readable /\ commands < MaxCommands
  /\ commands' = commands + 1
  /\ raced' = (raced \/ \E q \in Proc : cli[q].pc # "off")
  /\ cli' = [cli EXCEPT ![p] =
               [pc |-> first, task |-> t, read |-> ReadYaml, def |-> None]]
  /\ UNCHANGED <<disk, file, store, daemon, src, crossed, missed,
                 events>>

Add(p, t) ==
  /\ up
  /\ Begin(p, t, "wizard")
  /\ UNCHANGED tmp

Edit(p, t) ==
  /\ Contents[t] # None
  /\ Begin(p, t, "editor")
  /\ tmp' = Contents[t]

Remove(p, t) ==
  /\ Contents[t] # None
  /\ \E first \in {"purge", "save"} : Begin(p, t, first)
  /\ UNCHANGED tmp

Abort(p) ==                    \* the user, or a panic on the nil map
  /\ cli[p].pc = "wizard"
  /\ cli' = [cli EXCEPT ![p] = Off]
  /\ UNCHANGED <<disk, file, tmp, store, daemon, src, history, budgets>>

Answer_NilMap(p, d) ==         \* broken: an emptied file is no obstacle
  /\ cli[p].pc = "wizard"
  /\ NameIn[d] = cli[p].task
  /\ cli' = [cli EXCEPT ![p].pc = "save", ![p].def = d]
  /\ UNCHANGED <<disk, file, tmp, store, daemon, src, history, budgets>>

Answer(p, d) ==
  /\ cli[p].pc = "wizard" /\ cli[p].read # None
  /\ NameIn[d] = cli[p].task
  /\ cli' = [cli EXCEPT ![p].pc = "save", ![p].def = d]
  /\ UNCHANGED <<disk, file, tmp, store, daemon, src, history, budgets>>

Type(p, d) ==                  \* in the editor, whatever the name
  /\ cli[p].pc = "editor"
  /\ tmp' = d
  /\ cli' = [cli EXCEPT ![p].pc = "edited"]
  /\ UNCHANGED <<disk, file, store, daemon, src, history, budgets>>

QuitEditor(p) ==
  /\ cli[p].pc = "editor"
  /\ tmp' = None
  /\ cli' = [cli EXCEPT ![p] = Off]
  /\ UNCHANGED <<disk, file, store, daemon, src, history, budgets>>

ReadBack_AnyName(p) ==         \* broken: the name may have changed
  /\ cli[p].pc = "edited"
  /\ tmp' = None
  /\ cli' = [cli EXCEPT ![p] =
               IF tmp # None THEN [@ EXCEPT !.pc = "save", !.def = tmp] ELSE Off]
  /\ UNCHANGED <<disk, file, store, daemon, src, history, budgets>>

ReadBack(p) ==
  /\ cli[p].pc = "edited"
  /\ tmp' = None
  /\ cli' = [cli EXCEPT ![p] =
               IF tmp # None /\ NameIn[tmp] = cli[p].task
                 THEN [@ EXCEPT !.pc = "save", !.def = tmp] ELSE Off]
  /\ UNCHANGED <<disk, file, store, daemon, src, history, budgets>>

Only(tree, files) == [f \in Path |-> IF f \in files THEN tree[f] ELSE None]

(***************************************************************************)
(* os.RemoveAll of data/<task>.  It may leave some files behind, which is  *)
(* a warning: it may not delete them, or a sync has made them since.  A    *)
(* sync under way fails, or goes on with what it has left.  The state file *)
(* is not touched.                                                         *)
(***************************************************************************)
Purge(p) ==
  LET t == cli[p].task IN
  /\ cli[p].pc = "purge"
  /\ \E left \in SUBSET PathsOf(data[t]), kept \in SUBSET PathsOf(job[t].made),
        fails \in BOOLEAN :
       /\ IF job[t] = NoSync \/ fails
            THEN kept = {} /\ job' = [job EXCEPT ![t] = NoSync]
            ELSE job' = [job EXCEPT ![t].made = Only(@, kept), ![t].cut = TRUE]
       /\ LET incomplete == left # {} \/ job'[t] # NoSync IN
            /\ incomplete => events < MaxEvents
            /\ events' = IF incomplete THEN events + 1 ELSE events
       /\ data' = [data EXCEPT ![t] = Only(@, left)]
  /\ cli' = [cli EXCEPT ![p].pc = "save"]
  /\ UNCHANGED <<disk, file, tmp, state, daemon, src, history, commands>>

Truncate(p) ==
  /\ cli[p].pc = "save"
  /\ disk' = "cut"
  /\ cli' = [cli EXCEPT ![p].pc = "write"]
  /\ UNCHANGED <<file, tmp, store, daemon, src, history, budgets>>

Write_NoReload(p) ==           \* broken: the daemon is not told
  /\ cli[p].pc = "write"
  /\ disk' \in IF disk = "cut" THEN {"whole"} ELSE {"whole", "torn"}
  /\ file' = [cli[p].read EXCEPT ![cli[p].task] = cli[p].def]
  /\ cli' = [cli EXCEPT ![p] = Off]
  /\ UNCHANGED <<tmp, store, daemon, src, history, budgets>>

(***************************************************************************)
(* Over a file that another command has written since it was emptied, the  *)
(* end of a longer text may remain.                                        *)
(***************************************************************************)
Write(p) ==
  /\ cli[p].pc = "write"
  /\ disk' \in IF disk = "cut" THEN {"whole"} ELSE {"whole", "torn"}
  /\ file' = [cli[p].read EXCEPT ![cli[p].task] = cli[p].def]
  /\ cli' = [cli EXCEPT ![p] = [Off EXCEPT !.pc = "call"]]
  /\ UNCHANGED <<tmp, store, daemon, src, history, budgets>>
-----------------------------------------------------------------------------
(* Reloading.                                                              *)

(***************************************************************************)
(* config.Load in a handler: a file that does not parse or validate leaves *)
(* everything as it was.                                                   *)
(***************************************************************************)
Load(h) ==
  /\ load[h] = None
  /\ load' = [load EXCEPT ![h] =
                IF Readable /\ Valid(Contents) THEN Contents ELSE None]
  /\ crossed' = \E g \in Handler : load[g] # None
  /\ missed' = FALSE

(***************************************************************************)
(* cmdReload: the command ends, whatever the daemon makes of the request.  *)
(***************************************************************************)
Call(p) ==
  /\ cli[p].pc = "call"
  /\ cli' = [cli EXCEPT ![p] = Off]
  /\ IF up THEN Load(p) ELSE UNCHANGED <<load, crossed, missed>>
  /\ UNCHANGED <<disk, file, tmp, store, up, running, src, raced, budgets>>

SigHup ==
  /\ up /\ events < MaxEvents
  /\ events' = events + 1
  /\ Load(Hup)
  /\ UNCHANGED <<disk, file, tmp, store, up, running, cli, src, raced,
                 commands>>

(***************************************************************************)
(* SetCfg: the loops are cancelled and waited for, and started anew.       *)
(***************************************************************************)
Apply(h) ==
  /\ load[h] # None
  /\ running' = load[h]
  /\ load' = [load EXCEPT ![h] = None]
  /\ UNCHANGED <<disk, file, tmp, store, up, cli, src, history, budgets>>

Down ==
  /\ up' = FALSE
  /\ load' = [h \in Handler |-> None]

DaemonStops ==                 \* sys.shutdown, SIGTERM, a crash
  /\ up /\ events < MaxEvents
  /\ events' = events + 1
  /\ Down
  /\ job' = [t \in Task |-> NoSync]
  /\ UNCHANGED <<disk, file, tmp, data, state, running, cli, src, history, commands>>

DaemonStarts ==                \* main; it exits if Load fails
  /\ ~up /\ Readable /\ Valid(Contents)
  /\ up' = TRUE /\ running' = Contents
  /\ crossed' = FALSE /\ missed' = FALSE
  /\ UNCHANGED <<disk, file, tmp, store, load, cli, src, raced, budgets>>

(***************************************************************************)
(* A command is killed: what it had done is done.                          *)
(***************************************************************************)
Kill(p) ==
  /\ cli[p].pc # "off" /\ events < MaxEvents
  /\ events' = events + 1
  /\ missed' = (missed \/ cli[p].pc \in {"write", "call"})
  /\ cli' = [cli EXCEPT ![p] = Off]
  /\ UNCHANGED <<disk, file, tmp, store, daemon, src, raced, crossed,
                 commands>>
-----------------------------------------------------------------------------
(* The syncs.                                                              *)

(***************************************************************************)
(* The snapshot, the differ and the fetches.  A reload that removes the    *)
(* task leaves a sync that has come so far alone.                          *)
(***************************************************************************)
StartSync(t) ==
  /\ up /\ ~Idle(running[t])
  /\ job[t] = NoSync /\ HasChanges(state[t], src[t])
  /\ job' = [job EXCEPT ![t] = [want |-> src[t], todo |-> PathsOf(src[t]),
                               made |-> Empty, cut |-> FALSE]]
  /\ UNCHANGED <<disk, file, tmp, data, state, daemon, cli, src, history, budgets>>

From_KeepsOld(t, f) ==         \* broken: only new paths are taken from staging
  IF data[t][f] = None THEN job[t].want[f] ELSE data[t][f]

(***************************************************************************)
(* Apply takes the changed files from staging and the others from the      *)
(* version current names; without one of those it fails.                   *)
(***************************************************************************)
From(t, f) ==
  IF f \in ToFetch(state[t], job[t].want) THEN job[t].want[f] ELSE data[t][f]

Linkable_Skip(t, f) == TRUE    \* broken: a missing file is left out

Linkable(t, f) == From(t, f) # None

LinkFile(t, f) ==
  /\ f \in job[t].todo /\ Linkable(t, f)
  /\ job' = [job EXCEPT ![t].todo = @ \ {f}, ![t].made[f] = From(t, f)]
  /\ UNCHANGED <<disk, file, tmp, data, state, daemon, cli, src, history, budgets>>

FailSync(t) ==
  /\ \E f \in job[t].todo : ~Linkable(t, f)
  /\ job' = [job EXCEPT ![t] = NoSync]
  /\ UNCHANGED <<disk, file, tmp, data, state, daemon, cli, src, history, budgets>>

Publish(t) ==
  /\ job[t] # NoSync /\ job[t].todo = {}
  /\ data' = [data EXCEPT ![t] = job[t].made]
  /\ state' = [state EXCEPT ![t] = job[t].want]
  /\ job' = [job EXCEPT ![t] = NoSync]
  /\ UNCHANGED <<disk, file, tmp, daemon, cli, src, history, budgets>>

SourceChanges(t) ==
  /\ events < MaxEvents
  /\ events' = events + 1
  /\ \E s \in Sources[t] \ {src[t]} : src' = [src EXCEPT ![t] = s]
  /\ UNCHANGED <<disk, file, tmp, store, daemon, cli, history, commands>>
-----------------------------------------------------------------------------
CliStep(p) ==
  \/ ReadBack(p) \/ Purge(p) \/ Truncate(p) \/ Write(p) \/ Call(p)

SyncStep(t) ==
  \/ StartSync(t) \/ FailSync(t) \/ Publish(t)
  \/ \E f \in Path : LinkFile(t, f)

UserStep ==
  \E p \in Proc :
    \/ \E t \in Task : Add(p, t) \/ Edit(p, t) \/ Remove(p, t)
    \/ \E d \in Def : Answer(p, d) \/ Type(p, d)
    \/ Abort(p) \/ QuitEditor(p) \/ Kill(p)

Next ==
  \/ UserStep
  \/ \E p \in Proc : CliStep(p)
  \/ \E h \in Handler : Apply(h)
  \/ SigHup \/ DaemonStops \/ DaemonStarts
  \/ \E t \in Task : SyncStep(t) \/ SourceChanges(t)

Spec == Init /\ [][Next]_vars

(***************************************************************************)
(* Commands whose user has answered run on, handlers apply what they have  *)
(* loaded, systemd restarts the daemon, its loops sync again and again.    *)
(* Users, signals, failures and sources owe nothing.                       *)
(***************************************************************************)
FairSpec ==
  /\ Spec
  /\ \A p \in Proc : WF_vars(CliStep(p))
  /\ \A h \in Handler : WF_vars(Apply(h))
  /\ WF_vars(DaemonStarts)
  /\ \A t \in Task : WF_vars(SyncStep(t))
-----------------------------------------------------------------------------
(* Properties.                                                             *)

CliT == [pc : {"off", "wizard", "editor", "edited", "purge", "save", "write", "call"},
         task : Task \cup {None}, read : Config \cup {None}, def : Def \cup {None}]

JobT == [want : Tree, todo : SUBSET Path, made : Tree, cut : BOOLEAN]

(***************************************************************************)
(* The type of every variable; a command that is to write has read a task  *)
(* list to change, never the nil map of an emptied file.                   *)
(***************************************************************************)
TypeOK ==
  /\ disk \in {"whole", "cut", "torn"}
  /\ file \in Config /\ tmp \in Def \cup {None}
  /\ data \in [Task -> Tree] /\ state \in [Task -> Tree] /\ job \in [Task -> JobT]
  /\ up \in BOOLEAN /\ running \in Config
  /\ load \in [Handler -> Config \cup {None}]
  /\ cli \in [Proc -> CliT]
  /\ \A p \in Proc : cli[p].pc \notin {"off", "call"} => cli[p].task \in Task
  /\ \A p \in Proc : cli[p].pc \in {"purge", "save", "write"} => cli[p].read \in Config
  /\ src \in [Task -> Tree] /\ \A t \in Task : src[t] \in Sources[t]
  /\ raced \in BOOLEAN /\ crossed \in BOOLEAN /\ missed \in BOOLEAN

(***************************************************************************)
(* RunsWhatWasChecked: the daemon never runs a definition that validate    *)
(* rejects or that was stored under another task's name, although commands *)
(* save before anyone has validated and edits share one temporary file.    *)
(***************************************************************************)
RunsWhatWasChecked ==
  \A t \in Task : running[t] # None => running[t] \notin Bad /\ NameIn[running[t]] = t

(***************************************************************************)
(* DaemonFollowsFile: whenever no command and no reload is half-way and    *)
(* the file is one Load accepts, a daemon that is up runs it, unless two   *)
(* reloads overlapped (the one that loaded first may apply last) or a      *)
(* command died between its write and its reload.                          *)
(***************************************************************************)
HalfWay ==
  \/ \E p \in Proc : cli[p].pc \in {"write", "call"}
  \/ \E h \in Handler : load[h] # None

DaemonFollowsFile ==
  up /\ ~HalfWay /\ disk = "whole" /\ Valid(file) /\ ~crossed /\ ~missed =>
    running = file

(***************************************************************************)
(* KeepsOthers: unless two commands overlapped, a command changes its own  *)
(* task only -- also when it finds the file as a killed command left it,   *)
(* emptied: every other task keeps its definition or its last one.         *)
(***************************************************************************)
KeepsOthers ==
  [][~raced => \A p \in Proc : Write(p) =>
       \A t \in Task \ {cli[p].task} : file'[t] = file[t]]_vars

(***************************************************************************)
(* PublishesWhole: a sync that publishes leaves the whole tree of the      *)
(* source it saw, also for a task purged and added again, whose state file *)
(* outlived its data, unless a purge deleted files it had linked already.  *)
(***************************************************************************)
PublishesWhole ==
  [][\A t \in Task : state'[t] # state[t] /\ ~job[t].cut => data'[t] = state'[t]]_vars

(***************************************************************************)
(* TasksFollowed: in the end every configured task is mirrored, unless the *)
(* daemon cannot start because the file is unreadable or invalid, or a     *)
(* purge deleted files that the state file still vouches for, or comes to: *)
(* then syncs report no change, or fail for want of the previous version,  *)
(* for good.                                                               *)
(***************************************************************************)
Hollow(t) == \E f \in Path : state[t][f] # None /\ data[t][f] = None

TasksFollowed ==
  \A t \in Task :
    \/ <>[]Idle(running[t])
    \/ <>[](data[t] = src[t])
    \/ <>[]Hollow(t)
    \/ <>[](~up /\ ~(Readable /\ Valid(Contents)))
=============================================================================
