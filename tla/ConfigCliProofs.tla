-------------------------- MODULE ConfigCliProofs --------------------------
(***************************************************************************)
(* Theorems about ConfigCli, for any tasks, definitions, processes and     *)
(* bounds.                                                                 *)
(***************************************************************************)
EXTENDS ConfigCli, TLAPS

USE DefAssumption, HupIsNoProcess, SourceAssumption, FirstFileAssumption,
    NoneIsNoContent, NoneIsNoConfig

(***************************************************************************)
(* What the daemon has loaded or runs was accepted by Load, and whatever   *)
(* is stored for a task has its name.                                      *)
(***************************************************************************)
Named(c) == \A t \in Task : c[t] # None => NameIn[c[t]] = t

Checked ==
  /\ Named(file)
  /\ Named(running) /\ Valid(running)
  /\ \A h \in Handler : load[h] # None => Named(load[h]) /\ Valid(load[h])
  /\ \A p \in Proc :
       /\ cli[p].read # None => Named(cli[p].read)
       /\ cli[p].pc \in {"editor", "edited"} => cli[p].read \in Config
       /\ cli[p].pc \in {"purge", "save", "write"} /\ cli[p].def # None =>
            NameIn[cli[p].def] = cli[p].task

CheckInv == TypeOK /\ Checked

LEMMA NoTasksIsConfig == NoTasks \in Config /\ Named(NoTasks) /\ Valid(NoTasks)
BY DEF NoTasks, Config, Named, Valid

LEMMA CheckInit == Init => CheckInv
<1> SUFFICES ASSUME Init PROVE TypeOK /\ Checked
  BY DEF CheckInv
<1>1. FirstFile \in Config /\ Named(FirstFile) /\ Valid(FirstFile)
  BY DEF Named, Valid
<1>2. Empty \in Tree
  BY DEF Empty, Tree
<1>3. src \in [Task -> Tree]
  <2>1. UNION {Sources[t] : t \in Task} \subseteq Tree
    OBVIOUS
  <2> QED BY <2>1 DEF Init
<1>6. data \in [Task -> Tree] /\ state \in [Task -> Tree]
  BY <1>2, <1>3 DEF Init
<1>7. NoSync \in JobT
  BY <1>2 DEF NoSync, JobT
<1>4. TypeOK
  BY <1>1, <1>3, <1>6, <1>7 DEF Init, TypeOK, Off, CliT
<1>5. Checked
  BY <1>1 DEF Init, Checked, Off
<1> QED BY <1>4, <1>5

(***************************************************************************)
(* A step of a command exchanges its record for another good one.          *)
(***************************************************************************)
Good(c) ==
  /\ c \in CliT
  /\ c.pc \notin {"off", "call"} => c.task \in Task
  /\ c.pc \in {"purge", "save", "write"} => c.read \in Config
  /\ c.read # None => Named(c.read)
  /\ c.pc \in {"editor", "edited"} => c.read \in Config
  /\ c.pc \in {"purge", "save", "write"} /\ c.def # None => NameIn[c.def] = c.task

LEMMA Exchange ==
  ASSUME TypeOK, Checked, NEW p \in Proc, NEW c, Good(c),
         cli' = [cli EXCEPT ![p] = c]
  PROVE  /\ cli' \in [Proc -> CliT]
         /\ \A q \in Proc : cli'[q].pc \notin {"off", "call"} => cli'[q].task \in Task
         /\ \A q \in Proc : cli'[q].pc \in {"purge", "save", "write"} =>
                             cli'[q].read \in Config
         /\ \A q \in Proc :
              /\ cli'[q].read # None => Named(cli'[q].read)
              /\ cli'[q].pc \in {"editor", "edited"} => cli'[q].read \in Config
              /\ cli'[q].pc \in {"purge", "save", "write"} /\ cli'[q].def # None =>
                   NameIn[cli'[q].def] = cli'[q].task
<1>1. \A q \in Proc : Good(cli[q])
  BY DEF TypeOK, Checked, Good
<1>2. cli' \in [Proc -> CliT] /\ \A q \in Proc : cli'[q] = IF q = p THEN c ELSE cli[q]
  BY DEF TypeOK, Good
<1>3. \A q \in Proc : Good(cli'[q])
  BY <1>1, <1>2
<1> QED BY <1>2, <1>3 DEF Good

LEMMA OffIsGood == Good(Off) /\ Good([Off EXCEPT !.pc = "call"])
BY DEF Good, Off, CliT

LEMMA Advance ==
  ASSUME NEW c, Good(c)
  PROVE  /\ c.pc = "editor" => Good([c EXCEPT !.pc = "edited"])
         /\ c.pc \in {"wizard", "edited"} /\ c.read # None =>
              \A d \in Def : NameIn[d] = c.task =>
                Good([c EXCEPT !.pc = "save", !.def = d])
         /\ c.pc = "purge" => Good([c EXCEPT !.pc = "save"])
         /\ c.pc = "save" => Good([c EXCEPT !.pc = "write"])
BY DEF Good, CliT

LEMMA OnlyIsTree ==
  ASSUME NEW tree \in Tree, NEW files
  PROVE  Only(tree, files) \in Tree
BY DEF Only, Tree

LEMMA NoSyncIsJob == NoSync \in JobT
BY DEF NoSync, JobT, Empty, Tree

(***************************************************************************)
(* Purge, with the values it chooses named.                                *)
(***************************************************************************)
LEMMA PurgeTakes ==
  ASSUME TypeOK, NEW p \in Proc, Purge(p)
  PROVE  /\ cli[p].task \in Task
         /\ \E left : data' = [data EXCEPT ![cli[p].task] = Only(@, left)]
         /\ \/ job' = [job EXCEPT ![cli[p].task] = NoSync]
            \/ \E kept : job' = [job EXCEPT ![cli[p].task].made = Only(@, kept),
                                           ![cli[p].task].cut = TRUE]
BY DEF Purge, TypeOK

LEMMA PurgeTypes ==
  ASSUME TypeOK, NEW p \in Proc, Purge(p)
  PROVE  data' \in [Task -> Tree] /\ job' \in [Task -> JobT]
<1> DEFINE t == cli[p].task
<1>1. t \in Task /\ data[t] \in Tree /\ job[t] \in JobT
  BY PurgeTakes DEF TypeOK
<1>2. data' \in [Task -> Tree]
  BY <1>1, PurgeTakes, OnlyIsTree DEF TypeOK
<1>3. job' \in [Task -> JobT]
  <2>1. CASE job' = [job EXCEPT ![t] = NoSync]
    BY <1>1, <2>1, NoSyncIsJob DEF TypeOK
  <2>2. ASSUME NEW kept, job' = [job EXCEPT ![t].made = Only(@, kept), ![t].cut = TRUE]
        PROVE  job' \in [Task -> JobT]
    <3>1. job[t].made \in Tree
      BY <1>1 DEF JobT
    <3>2. [job[t] EXCEPT !.made = Only(job[t].made, kept), !.cut = TRUE] \in JobT
      BY <1>1, <3>1, OnlyIsTree DEF JobT
    <3>3. job' = [job EXCEPT ![t] =
                    [job[t] EXCEPT !.made = Only(job[t].made, kept), !.cut = TRUE]]
      BY <1>1, <2>2 DEF TypeOK
    <3> QED BY <1>1, <3>2, <3>3 DEF TypeOK
  <2> QED BY <2>1, <2>2, PurgeTakes
<1> QED BY <1>2, <1>3

(***************************************************************************)
(* What a step of a sync does to the record of its task.                   *)
(***************************************************************************)
LEMMA FromIsContent ==
  ASSUME TypeOK, NEW t \in Task, NEW f \in Path
  PROVE  From(t, f) \in Content \cup {None}
BY DEF From, TypeOK, JobT, Tree

LEMMA LinkRecord ==
  ASSUME TypeOK, NEW t \in Task, NEW f \in Path, LinkFile(t, f)
  PROVE  \E c \in JobT :
           /\ job' = [job EXCEPT ![t] = c]
           /\ c.want = job[t].want /\ c.todo = job[t].todo \ {f}
           /\ c.made = [job[t].made EXCEPT ![f] = From(t, f)] /\ c.cut = job[t].cut
<1> DEFINE c == [job[t] EXCEPT !.todo = job[t].todo \ {f},
                               !.made = [job[t].made EXCEPT ![f] = From(t, f)]]
<1>1. job[t] \in JobT
  BY DEF TypeOK
<1>2. [job[t].made EXCEPT ![f] = From(t, f)] \in Tree
  BY <1>1, FromIsContent DEF JobT, Tree
<1>3. c \in JobT
  BY <1>1, <1>2 DEF JobT
<1>4. job' = [job EXCEPT ![t] = c]
  BY <1>1 DEF LinkFile, TypeOK, JobT
<1>5. /\ c.want = job[t].want /\ c.todo = job[t].todo \ {f}
      /\ c.made = [job[t].made EXCEPT ![f] = From(t, f)] /\ c.cut = job[t].cut
  BY <1>1 DEF JobT
<1> HIDE DEF c
<1> QED BY <1>3, <1>4, <1>5

LEMMA SyncTypes ==
  ASSUME TypeOK, NEW t \in Task, SyncStep(t)
  PROVE  /\ data' \in [Task -> Tree] /\ state' \in [Task -> Tree]
         /\ job' \in [Task -> JobT]
         /\ UNCHANGED <<disk, file, tmp, daemon, cli, src, history, budgets>>
<1> USE DEF TypeOK
<1>1. CASE StartSync(t)
  <2>1. [want |-> src[t], todo |-> PathsOf(src[t]), made |-> Empty, cut |-> FALSE] \in JobT
    BY DEF JobT, PathsOf, Empty, Tree
  <2> QED BY <1>1, <2>1 DEF StartSync
<1>2. CASE FailSync(t)
  BY <1>2, NoSyncIsJob DEF FailSync
<1>3. CASE Publish(t)
  <2>1. job[t].made \in Tree /\ job[t].want \in Tree
    BY DEF JobT
  <2> QED BY <1>3, <2>1, NoSyncIsJob DEF Publish
<1>4. ASSUME NEW f \in Path, LinkFile(t, f)
      PROVE  /\ data' \in [Task -> Tree] /\ state' \in [Task -> Tree]
             /\ job' \in [Task -> JobT]
             /\ UNCHANGED <<disk, file, tmp, daemon, cli, src, history, budgets>>
  <2>1. PICK c \in JobT : job' = [job EXCEPT ![t] = c]
    BY <1>4, LinkRecord
  <2>2. job' \in [Task -> JobT]
    BY <2>1
  <2> QED BY <1>4, <2>2 DEF LinkFile
<1> QED BY <1>1, <1>2, <1>3, <1>4 DEF SyncStep

(***************************************************************************)
(* A step of a command is a step of one record.                            *)
(***************************************************************************)
LEMMA CheckStep == CheckInv /\ [Next]_vars => CheckInv'
<1> SUFFICES ASSUME TypeOK, Checked, [Next]_vars PROVE CheckInv'
  BY DEF CheckInv
<1> USE DEF CheckInv, TypeOK, Checked
<1>1. Contents \in Config /\ Named(Contents)
  BY NoTasksIsConfig DEF Contents
<1>2. ReadYaml \in Config \cup {None} /\ (ReadYaml # None => Named(ReadYaml))
  BY DEF ReadYaml
<1>a. \A p \in Proc : Good(cli[p])
  BY DEF Good
<1>b. \A p \in Proc : cli[p] = [pc |-> cli[p].pc, task |-> cli[p].task,
                                read |-> cli[p].read, def |-> cli[p].def]
  BY DEF CliT
<1>3. ASSUME NEW p \in Proc, NEW t \in Task, Add(p, t) \/ Edit(p, t) \/ Remove(p, t)
      PROVE  CheckInv'
  <2>1. PICK first \in {"wizard", "editor", "purge", "save"} :
          Begin(p, t, first) /\ (first = "wizard" \/ Contents[t] # None)
    BY <1>3 DEF Add, Edit, Remove
  <2>2. first # "wizard" => ReadYaml \in Config
    BY <2>1, <1>2 DEF ReadYaml, Contents, NoTasks
  <2>3. Good([pc |-> first, task |-> t, read |-> ReadYaml, def |-> None])
    BY <1>2, <2>2 DEF Good, CliT
  <2>4. cli' = [cli EXCEPT ![p] = [pc |-> first, task |-> t, read |-> ReadYaml, def |-> None]]
    BY <2>1 DEF Begin
  <2>5. tmp' \in Def \cup {None}
    BY <1>1, <1>3 DEF Add, Edit, Remove, Config
  <2>6. raced' \in BOOLEAN
    BY <2>1 DEF Begin
  <2> QED BY <2>1, <2>3, <2>4, <2>5, <2>6, Exchange DEF Begin, store, daemon
<1>4. ASSUME NEW p \in Proc, NEW d \in Def, Answer(p, d) \/ Type(p, d)
      PROVE  CheckInv'
  <2>1. PICK c : Good(c) /\ cli' = [cli EXCEPT ![p] = c]
    <3>1. CASE Answer(p, d)
      <4>1. Good([cli[p] EXCEPT !.pc = "save", !.def = d])
        BY <1>a, <3>1, Advance DEF Answer
      <4>2. cli' = [cli EXCEPT ![p] = [cli[p] EXCEPT !.pc = "save", !.def = d]]
        BY <3>1, <1>b DEF Answer
      <4> QED BY <4>1, <4>2
    <3>2. CASE Type(p, d)
      BY <1>a, <3>2, Advance DEF Type
    <3> QED BY <1>4, <3>1, <3>2
  <2>2. /\ tmp' \in {tmp, d}
        /\ UNCHANGED <<disk, file, store, daemon, src, history, budgets>>
    BY <1>4 DEF Answer, Type
  <2> QED BY <2>1, <2>2, Exchange DEF store, daemon, history, budgets
<1>5. ASSUME NEW p \in Proc, Abort(p) \/ QuitEditor(p) \/ Kill(p)
      PROVE  CheckInv'
  <2>1. cli' = [cli EXCEPT ![p] = Off]
    BY <1>5 DEF Abort, QuitEditor, Kill
  <2>2. missed' \in BOOLEAN
    BY <1>5 DEF Abort, QuitEditor, Kill, history
  <2>3. /\ tmp' \in {tmp, None}
        /\ UNCHANGED <<disk, file, store, daemon, src, raced, crossed>>
    BY <1>5 DEF Abort, QuitEditor, Kill, history
  <2> QED BY <2>1, <2>2, <2>3, OffIsGood, Exchange DEF store, daemon
<1>6. ASSUME NEW p \in Proc, ReadBack(p)
      PROVE  CheckInv'
  <2>1. PICK c : Good(c) /\ cli' = [cli EXCEPT ![p] = c]
    <3>1. CASE tmp # None /\ NameIn[tmp] = cli[p].task
      <4>1. cli[p].read # None
        BY <1>6 DEF ReadBack
      <4> QED BY <1>a, <1>6, <3>1, <4>1, Advance DEF ReadBack
    <3>2. CASE ~(tmp # None /\ NameIn[tmp] = cli[p].task)
      BY <1>6, <3>2, OffIsGood DEF ReadBack
    <3> QED BY <3>1, <3>2
  <2> QED BY <1>6, <2>1, Exchange DEF ReadBack, store, daemon, history, budgets
<1>7. ASSUME NEW p \in Proc, Purge(p)
      PROVE  CheckInv'
  <2>1. cli' = [cli EXCEPT ![p] = [cli[p] EXCEPT !.pc = "save"]]
    BY <1>7 DEF Purge
  <2>2. Good([cli[p] EXCEPT !.pc = "save"])
    BY <1>a, <1>7, Advance DEF Purge
  <2>3. data' \in [Task -> Tree] /\ job' \in [Task -> JobT]
    BY <1>7, PurgeTypes
  <2> QED BY <1>7, <2>1, <2>2, <2>3, Exchange DEF Purge, daemon, history
<1>8. ASSUME NEW p \in Proc, Truncate(p)
      PROVE  CheckInv'
  <2>1. cli' = [cli EXCEPT ![p] = [cli[p] EXCEPT !.pc = "write"]]
    BY <1>8 DEF Truncate
  <2>2. Good([cli[p] EXCEPT !.pc = "write"])
    BY <1>a, <1>8, Advance DEF Truncate
  <2> QED BY <1>8, <2>1, <2>2, Exchange DEF Truncate, store, daemon, history, budgets
<1>9. ASSUME NEW p \in Proc, Write(p)
      PROVE  CheckInv'
  <2>1. cli' = [cli EXCEPT ![p] = [Off EXCEPT !.pc = "call"]]
    BY <1>9 DEF Write
  <2>2. file' \in Config /\ Named(file')
    <3>1. cli[p].read \in Config /\ cli[p].task \in Task
            /\ cli[p].def \in Def \cup {None} /\ Named(cli[p].read)
      BY <1>9 DEF Write, CliT
    <3> QED BY <1>9, <3>1 DEF Write, Config, Named
  <2> QED BY <1>9, <2>1, <2>2, OffIsGood, Exchange
        DEF Write, store, daemon, history, budgets
<1>10. ASSUME NEW p \in Proc, Call(p)
       PROVE  CheckInv'
  <2>1. cli' = [cli EXCEPT ![p] = Off]
    BY <1>10 DEF Call
  <2>2. /\ load' \in [Handler -> Config \cup {None}]
        /\ \A h \in Handler : load'[h] # None => Named(load'[h]) /\ Valid(load'[h])
    <3>1. CASE up /\ Load(p)
      BY <1>1, <3>1 DEF Load, Handler
    <3>2. CASE UNCHANGED load
      BY <3>2
    <3> QED BY <1>10, <3>1, <3>2 DEF Call
  <2>3. crossed' \in BOOLEAN /\ missed' \in BOOLEAN
    BY <1>10 DEF Call, Load
  <2> QED BY <1>10, <2>1, <2>2, <2>3, OffIsGood, Exchange DEF Call, store, budgets
<1>11. ASSUME NEW h \in Handler, Apply(h)
       PROVE  CheckInv'
  BY <1>11 DEF Apply, store, history, budgets
<1>12. CASE SigHup
  BY <1>1, <1>12 DEF SigHup, Load, store, Handler
<1>13. CASE DaemonStops
  BY <1>13, NoSyncIsJob DEF DaemonStops, Down, history
<1>14. CASE DaemonStarts
  BY <1>1, <1>14 DEF DaemonStarts, store, budgets
<1>15. ASSUME NEW t \in Task, SyncStep(t)
       PROVE  CheckInv'
  BY <1>15, SyncTypes DEF daemon, history, budgets, Valid, Named
<1>16. ASSUME NEW t \in Task, SourceChanges(t)
       PROVE  CheckInv'
  BY <1>16 DEF SourceChanges, store, daemon, history
<1>17. CASE UNCHANGED vars
  BY <1>17 DEF vars, store, daemon, history, budgets, Valid, Named
<1> QED
  BY <1>3, <1>4, <1>5, <1>6, <1>7, <1>8, <1>9, <1>10, <1>11, <1>12, <1>13,
     <1>14, <1>15, <1>16, <1>17 DEF Next, UserStep, CliStep

LEMMA CheckAlways == Spec => []CheckInv
BY CheckInit, CheckStep, PTL DEF Spec

(***************************************************************************)
(* TypeOK always holds: a command that is about to write never holds the   *)
(* nil map that an emptied file gives.                                     *)
(***************************************************************************)
THEOREM TypesHold == Spec => []TypeOK
BY CheckAlways, PTL DEF CheckInv

(***************************************************************************)
(* The daemon never runs a definition that validate rejects, nor one that  *)
(* was stored under another task's name (config.Load, cmdEdit).            *)
(***************************************************************************)
THEOREM DaemonRunsWhatWasChecked == Spec => []RunsWhatWasChecked
<1>1. CheckInv => RunsWhatWasChecked
  BY DEF CheckInv, Checked, Named, Valid, RunsWhatWasChecked
<1> QED BY <1>1, CheckAlways, PTL

(***************************************************************************)
(* Unless two reloads overlapped there is at most one pending, and unless  *)
(* a command died before its reload, what is pending or else running is    *)
(* the file once no command has a reload before it.                        *)
(***************************************************************************)
Alone == ~crossed => \A g, h \in Handler : load[g] # None /\ load[h] # None => g = h

Settled ==
  /\ up /\ ~crossed /\ ~missed
  /\ \A p \in Proc : cli[p].pc \notin {"write", "call"}
  /\ disk = "whole" /\ Valid(file)

Follows ==
  Settled => IF \E h \in Handler : load[h] # None
               THEN \A h \in Handler : load[h] # None => load[h] = file
               ELSE running = file

FollowInv == CheckInv /\ Alone /\ Follows /\ (~up => \A h \in Handler : load[h] = None)

LEMMA FollowInit == Init => FollowInv
<1> SUFFICES ASSUME Init PROVE Alone /\ Follows /\ up
  BY CheckInit DEF FollowInv
<1> QED BY DEF Init, Alone, Follows

LEMMA LoadFollows ==
  ASSUME FollowInv, NEW h \in Handler, Load(h), UNCHANGED <<disk, file, up, running>>,
         up, \A p \in Proc : cli'[p].pc \in {"write", "call"} <=>
                            cli[p].pc \in {"write", "call"} /\ p # h
  PROVE  Alone' /\ Follows'
<1> USE DEF FollowInv, CheckInv, TypeOK
<1>1. \A g \in Handler : load'[g] = IF g = h THEN (IF Readable /\ Valid(Contents) THEN Contents ELSE None)
                                     ELSE load[g]
  BY DEF Load
<1>2. ~crossed' => \A g \in Handler : load[g] = None
  BY DEF Load
<1>3. Alone'
  BY <1>1, <1>2 DEF Alone
<1>4. Contents \in Config
  BY NoTasksIsConfig DEF Contents
<1>5. ASSUME Settled' PROVE load'[h] = file /\ load'[h] # None
  BY <1>1, <1>4, <1>5 DEF Settled, Readable, Contents, Valid
<1>6. Follows'
  BY <1>1, <1>2, <1>5 DEF Follows, Settled
<1> QED BY <1>3, <1>6

LEMMA CommandFollows ==
  ASSUME FollowInv, NEW p \in Proc, NEW c, cli' = [cli EXCEPT ![p] = c],
         UNCHANGED <<disk, file, up, running, load, crossed>>,
         c.pc \in {"write", "call"} \/ missed'
           \/ (cli[p].pc \notin {"write", "call"} /\ (missed => missed'))
  PROVE  Alone' /\ Follows'
<1>1. Settled' => Settled
  BY DEF FollowInv, CheckInv, TypeOK, Settled, Valid
<1> QED BY <1>1 DEF FollowInv, Alone, Follows

LEMMA FollowStep == FollowInv /\ [Next]_vars => FollowInv'
<1> SUFFICES ASSUME FollowInv, [Next]_vars
             PROVE  Alone' /\ Follows' /\ (~up => \A h \in Handler : load[h] = None)'
  BY CheckStep DEF FollowInv
<1> USE DEF FollowInv
<1>1. ASSUME NEW p \in Proc, NEW t \in Task, Add(p, t) \/ Edit(p, t) \/ Remove(p, t)
      PROVE  Alone' /\ Follows' /\ UNCHANGED <<up, load>>
  <2>1. PICK first : Begin(p, t, first)
    BY <1>1 DEF Add, Edit, Remove
  <2> QED BY <2>1, CommandFollows DEF Begin, store, daemon
<1>2. ASSUME NEW p \in Proc, NEW d \in Def, Answer(p, d) \/ Type(p, d)
      PROVE  Alone' /\ Follows' /\ UNCHANGED <<up, load>>
  <2>1. PICK c : cli' = [cli EXCEPT ![p] = c]
    BY <1>2 DEF Answer, Type
  <2>2. UNCHANGED <<disk, file, up, running, load, crossed, missed>>
    BY <1>2 DEF Answer, Type, daemon, history
  <2>3. cli[p].pc \notin {"write", "call"}
    BY <1>2 DEF Answer, Type
  <2>4. missed => missed'
    BY <2>2
  <2> QED BY <2>1, <2>2, <2>3, <2>4, CommandFollows
<1>3. ASSUME NEW p \in Proc, Abort(p) \/ QuitEditor(p) \/ Kill(p)
      PROVE  Alone' /\ Follows' /\ UNCHANGED <<up, load>>
  <2>1. cli' = [cli EXCEPT ![p] = Off]
    BY <1>3 DEF Abort, QuitEditor, Kill
  <2>2. missed' \/ (cli[p].pc \notin {"write", "call"} /\ (missed => missed'))
    <3>1. CASE Kill(p)
      BY <3>1 DEF Kill
    <3>2. CASE Abort(p) \/ QuitEditor(p)
      BY <3>2 DEF Abort, QuitEditor, history
    <3> QED BY <1>3, <3>1, <3>2
  <2>3. UNCHANGED <<disk, file, up, running, load, crossed>>
    BY <1>3 DEF Abort, QuitEditor, Kill, daemon, history
  <2> QED BY <2>1, <2>2, <2>3, CommandFollows
<1>4. ASSUME NEW p \in Proc, ReadBack(p) \/ Purge(p)
      PROVE  Alone' /\ Follows' /\ UNCHANGED <<up, load>>
  <2>1. PICK c : cli' = [cli EXCEPT ![p] = c]
    BY <1>4 DEF ReadBack, Purge
  <2>2. UNCHANGED <<disk, file, up, running, load, crossed, missed>>
    BY <1>4 DEF ReadBack, Purge, daemon, history
  <2>3. cli[p].pc \notin {"write", "call"}
    BY <1>4 DEF ReadBack, Purge
  <2>4. missed => missed'
    BY <2>2
  <2> QED BY <2>1, <2>2, <2>3, <2>4, CommandFollows
<1>5. ASSUME NEW p \in Proc, Truncate(p) \/ Write(p)
      PROVE  Alone' /\ Follows' /\ UNCHANGED <<up, load>>
  <2>1. ~Settled'
    <3>1. CASE Truncate(p)
      BY <3>1 DEF Truncate, Settled
    <3>2. CASE Write(p)
      <4>1. cli'[p].pc = "call"
        BY <3>2 DEF Write, CheckInv, TypeOK, Off
      <4> QED BY <4>1 DEF Settled
    <3> QED BY <1>5, <3>1, <3>2
  <2> QED BY <1>5, <2>1 DEF Truncate, Write, daemon, history, Alone, Follows
<1>6. ASSUME NEW p \in Proc, Call(p)
      PROVE  Alone' /\ Follows' /\ (~up => \A h \in Handler : load[h] = None)'
  <2>1. CASE up
    <3>1. \A q \in Proc : cli'[q].pc \in {"write", "call"} <=>
                           cli[q].pc \in {"write", "call"} /\ q # p
      BY <1>6 DEF Call, CheckInv, TypeOK, Off
    <3> QED BY <1>6, <2>1, <3>1, LoadFollows DEF Call, Handler
  <2>2. CASE ~up
    BY <1>6, <2>2 DEF Call, Alone, Follows, Settled
  <2> QED BY <2>1, <2>2
<1>7. ASSUME NEW h \in Handler, Apply(h)
      PROVE  Alone' /\ Follows' /\ (~up => \A g \in Handler : load[g] = None)'
  <2>1. \A g \in Handler : load'[g] = IF g = h THEN None ELSE load[g]
    BY <1>7 DEF Apply, CheckInv, TypeOK
  <2>2. Settled' => Settled /\ running' = file /\ \A g \in Handler : load'[g] = None
    BY <1>7, <2>1 DEF Apply, Settled, Valid, history, Alone, Follows
  <2> QED BY <1>7, <2>1, <2>2 DEF Apply, Alone, Follows, history
<1>8. CASE SigHup
  <2>1. \A q \in Proc : cli'[q].pc \in {"write", "call"} <=>
                         cli[q].pc \in {"write", "call"} /\ q # Hup
    BY <1>8 DEF SigHup
  <2> QED BY <1>8, <2>1, LoadFollows DEF SigHup, Handler
<1>9. CASE DaemonStops
  BY <1>9 DEF DaemonStops, Down, Alone, Follows, Settled
<1>10. CASE DaemonStarts
  BY <1>10 DEF DaemonStarts, Alone, Follows, Settled, Contents
<1>11. ASSUME NEW t \in Task, SyncStep(t) \/ SourceChanges(t)
       PROVE  Alone' /\ Follows' /\ UNCHANGED <<up, load>>
  BY <1>11, SyncTypes
     DEF CheckInv, SourceChanges, daemon, history, Alone, Follows, Settled, Valid
<1>12. CASE UNCHANGED vars
  BY <1>12 DEF vars, daemon, history, Alone, Follows, Settled, Valid
<1> QED
  BY <1>1, <1>2, <1>3, <1>4, <1>5, <1>6, <1>7, <1>8, <1>9, <1>10, <1>11, <1>12
     DEF Next, UserStep, CliStep

(***************************************************************************)
(* Whenever nothing is half-way the daemon runs the file, except after     *)
(* overlapping reloads or the death of a command (configReload, cmdReload, *)
(* main).                                                                  *)
(***************************************************************************)
THEOREM DaemonRunsTheFile == Spec => []DaemonFollowsFile
<1>1. FollowInv => DaemonFollowsFile
  BY DEF FollowInv, Follows, Settled, DaemonFollowsFile, HalfWay
<1> QED BY <1>1, FollowInit, FollowStep, PTL DEF Spec

(***************************************************************************)
(* As long as no two commands have overlapped there is one at most, and    *)
(* what it has read is what the file was last given.                       *)
(***************************************************************************)
Turns ==
  ~raced =>
    /\ \A p, q \in Proc : cli[p].pc # "off" /\ cli[q].pc # "off" => p = q
    /\ \A p \in Proc : cli[p].pc \notin {"off", "call"} /\ cli[p].read # None =>
                          cli[p].read = file

LEMMA TurnInit == Init => Turns
BY DEF Init, Turns, Off

LEMMA SameCommand ==
  ASSUME TypeOK, Turns, NEW p \in Proc, NEW c, cli' = [cli EXCEPT ![p] = c],
         cli[p].pc # "off", UNCHANGED <<file, raced>>,
         c.pc = "off" \/ (cli[p].pc # "call" /\ c.read = cli[p].read)
  PROVE  Turns'
BY DEF TypeOK, Turns

LEMMA TurnStep == CheckInv /\ Turns /\ [Next]_vars => Turns'
<1> SUFFICES ASSUME TypeOK, Checked, Turns, [Next]_vars PROVE Turns'
  BY DEF CheckInv
<1>a. \A p \in Proc : cli[p] \in CliT
  BY DEF TypeOK
<1>b. \A p \in Proc : cli[p] = [pc |-> cli[p].pc, task |-> cli[p].task,
                                read |-> cli[p].read, def |-> cli[p].def]
  BY <1>a DEF CliT
<1>1. ASSUME NEW p \in Proc, NEW t \in Task, Add(p, t) \/ Edit(p, t) \/ Remove(p, t)
      PROVE  Turns'
  <2>1. PICK first : Begin(p, t, first)
    BY <1>1 DEF Add, Edit, Remove
  <2>2. ASSUME ~raced' PROVE /\ ~raced
                            /\ \A q \in Proc : cli[q].pc = "off"
    BY <2>1, <2>2 DEF Begin
  <2> QED BY <2>1, <2>2 DEF Begin, Turns, TypeOK, ReadYaml
<1>2. ASSUME NEW p \in Proc, NEW d \in Def, Answer(p, d) \/ Type(p, d)
      PROVE  Turns'
  <2>1. CASE Answer(p, d)
    <3>1. cli' = [cli EXCEPT ![p] = [cli[p] EXCEPT !.pc = "save", !.def = d]]
      BY <1>b, <2>1 DEF Answer, TypeOK
    <3>2. [cli[p] EXCEPT !.pc = "save", !.def = d].read = cli[p].read
      BY <1>a DEF CliT
    <3> QED BY <2>1, <3>1, <3>2, SameCommand DEF Answer, history
  <2>2. CASE Type(p, d)
    BY <1>a, <2>2, SameCommand DEF Type, history, CliT
  <2> QED BY <1>2, <2>1, <2>2
<1>3. ASSUME NEW p \in Proc, Abort(p) \/ QuitEditor(p) \/ Kill(p)
      PROVE  Turns'
  BY <1>3, SameCommand DEF Abort, QuitEditor, Kill, history, Off
<1>4. ASSUME NEW p \in Proc, ReadBack(p)
      PROVE  Turns'
  <2>1. CASE cli' = [cli EXCEPT ![p] = Off]
    BY <1>4, <2>1, SameCommand DEF ReadBack, history, Off
  <2>2. CASE cli' = [cli EXCEPT ![p] = [cli[p] EXCEPT !.pc = "save", !.def = tmp]]
    <3>1. [cli[p] EXCEPT !.pc = "save", !.def = tmp].read = cli[p].read
      BY <1>a DEF CliT
    <3> QED BY <1>4, <2>2, <3>1, SameCommand DEF ReadBack, history
  <2> QED BY <1>4, <2>1, <2>2 DEF ReadBack
<1>5. ASSUME NEW p \in Proc, Purge(p) \/ Truncate(p)
      PROVE  Turns'
  <2>1. PICK c : cli' = [cli EXCEPT ![p] = c] /\ c.read = cli[p].read
    <3>1. PICK x \in {"save", "write"} : cli' = [cli EXCEPT ![p].pc = x]
      BY <1>5 DEF Purge, Truncate
    <3>2. \A c \in CliT : [c EXCEPT !.pc = x].read = c.read
      BY DEF CliT
    <3> QED BY <1>a, <3>1, <3>2
  <2> QED BY <1>5, <2>1, SameCommand DEF Purge, Truncate, history
<1>6. ASSUME NEW p \in Proc, Write(p)
      PROVE  Turns'
  BY <1>6 DEF Write, Turns, TypeOK, Off, history
<1>7. ASSUME NEW p \in Proc, Call(p)
      PROVE  Turns'
  BY <1>7, SameCommand DEF Call, Off
<1>8. ASSUME UNCHANGED <<cli, file, raced>>
      PROVE  Turns'
  BY <1>8 DEF Turns
<1>9. ASSUME NEW t \in Task, SyncStep(t)
      PROVE  UNCHANGED <<cli, file, raced>>
  BY <1>9, SyncTypes DEF history
<1> QED
  BY <1>1, <1>2, <1>3, <1>4, <1>5, <1>6, <1>7, <1>8, <1>9
     DEF Next, UserStep, CliStep, Apply, SigHup, DaemonStops, DaemonStarts,
         SourceChanges, vars, history

(***************************************************************************)
(* As long as no two commands overlap, no command changes another task     *)
(* (cmdAdd, cmdEdit, cmdRemove).                                           *)
(***************************************************************************)
THEOREM OthersAreKept == Spec => KeepsOthers
<1>1. ASSUME TypeOK, Turns, ~raced, NEW p \in Proc, Write(p), NEW t \in Task \ {cli[p].task}
      PROVE  file'[t] = file[t]
  <2>1. cli[p].read \in Config /\ cli[p].read = file
    BY <1>1 DEF TypeOK, Turns, Write
  <2> QED BY <1>1, <2>1 DEF Write, Config
<1>2. TypeOK /\ Turns /\ [Next]_vars =>
        [~raced => \A p \in Proc : Write(p) =>
           \A t \in Task \ {cli[p].task} : file'[t] = file[t]]_vars
  BY <1>1
<1>3. CheckInv => TypeOK
  BY DEF CheckInv
<1>4. Spec => [][~raced => \A p \in Proc : Write(p) =>
           \A t \in Task \ {cli[p].task} : file'[t] = file[t]]_vars
  BY <1>2, <1>3, CheckInit, CheckStep, TurnInit, TurnStep, PTL DEF Spec
<1> QED BY <1>4 DEF KeepsOthers

(***************************************************************************)
(* What a task's data still has is what its state file says, and what a    *)
(* sync has linked is what it is to publish: all of it, unless a purge     *)
(* took some.                                                              *)
(***************************************************************************)
Vouched == \A t \in Task : \A f \in Path : data[t][f] \in {state[t][f], None}

Linked(c) ==
  \A f \in Path :
    /\ c.made[f] \in {c.want[f], None}
    /\ f \in c.todo \/ c.cut \/ c.made[f] = c.want[f]

AllLinked == \A t \in Task : Linked(job[t])

LEMMA NoneLinked == Linked(NoSync)
BY DEF Linked, NoSync, Empty

(***************************************************************************)
(* What the differ leaves out is taken from the data, and what it has is   *)
(* what the state says, which the differ compared with (Apply).            *)
(***************************************************************************)
LEMMA FromIsWanted ==
  ASSUME TypeOK, Vouched, NEW t \in Task, NEW f \in PathsOf(job[t].want), Linkable(t, f)
  PROVE  From(t, f) = job[t].want[f]
<1>1. CASE f \in ToFetch(state[t], job[t].want)
  BY <1>1 DEF From
<1>2. CASE f \notin ToFetch(state[t], job[t].want)
  <2>1. f \in Path /\ state[t][f] = job[t].want[f]
    BY <1>2 DEF ToFetch, Added, Modified, PathsOf
  <2> QED BY <1>2, <2>1 DEF From, Linkable, Vouched
<1> QED BY <1>1, <1>2

Listed == \A t \in Task : job[t].todo \subseteq PathsOf(job[t].want)

VouchInv == Vouched /\ AllLinked /\ Listed

LEMMA VouchInit == Init => VouchInv
<1>1. NoSync.todo \subseteq PathsOf(NoSync.want)
  BY DEF NoSync
<1> QED BY <1>1, NoneLinked DEF Init, VouchInv, Vouched, AllLinked, Listed, Empty

LEMMA PurgeVouch ==
  ASSUME TypeOK, VouchInv, NEW p \in Proc, Purge(p)
  PROVE  VouchInv'
<1> DEFINE t == cli[p].task
<1>1. t \in Task /\ job[t] \in JobT
  BY PurgeTakes DEF TypeOK
<1>2. Vouched'
  <2>1. PICK left : data' = [data EXCEPT ![t] = Only(@, left)]
    BY PurgeTakes
  <2>2. state' = state /\ data \in [Task -> Tree]
    BY DEF Purge, TypeOK
  <2>3. \A u \in Task, f \in Path : data'[u][f] \in {data[u][f], None}
    BY <1>1, <2>1, <2>2 DEF Only
  <2> QED BY <2>2, <2>3 DEF VouchInv, Vouched
<1>3. AllLinked' /\ Listed'
  <2>1. CASE job' = [job EXCEPT ![t] = NoSync]
    BY <2>1, NoneLinked DEF TypeOK, VouchInv, AllLinked, Listed, NoSync
  <2>2. ASSUME NEW kept, job' = [job EXCEPT ![t].made = Only(@, kept), ![t].cut = TRUE]
        PROVE  AllLinked' /\ Listed'
    <3>1. /\ \A u \in Task \ {t} : job'[u] = job[u]
          /\ job'[t].want = job[t].want /\ job'[t].todo = job[t].todo
          /\ job'[t].made = Only(job[t].made, kept) /\ job'[t].cut = TRUE
      BY <1>1, <2>2 DEF TypeOK, JobT
    <3>2. Linked(job'[t])
      BY <1>1, <3>1, SMTT(20) DEF Linked, Only, VouchInv, AllLinked
    <3> QED BY <3>1, <3>2 DEF VouchInv, AllLinked, Listed
  <2> QED BY <2>1, <2>2, PurgeTakes
<1> QED BY <1>2, <1>3 DEF VouchInv

LEMMA SyncVouch ==
  ASSUME TypeOK, VouchInv, NEW t \in Task, SyncStep(t)
  PROVE  VouchInv'
<1> USE DEF VouchInv
<1>1. CASE StartSync(t)
  <2>1. job'[t] = [want |-> src[t], todo |-> PathsOf(src[t]), made |-> Empty, cut |-> FALSE]
          /\ \A u \in Task \ {t} : job'[u] = job[u]
    BY <1>1 DEF StartSync, TypeOK
  <2>2. Linked(job'[t]) /\ job'[t].todo \subseteq PathsOf(job'[t].want)
    BY <2>1 DEF Linked, Empty, PathsOf
  <2> QED BY <1>1, <2>1, <2>2 DEF StartSync, Vouched, AllLinked, Listed
<1>2. CASE FailSync(t)
  BY <1>2, NoneLinked DEF FailSync, TypeOK, Vouched, AllLinked, Listed, NoSync
<1>3. CASE Publish(t)
  <2>1. /\ data'[t] = job[t].made /\ state'[t] = job[t].want
        /\ \A u \in Task \ {t} : data'[u] = data[u] /\ state'[u] = state[u]
    BY <1>3 DEF Publish, TypeOK
  <2>2. Vouched'
    BY <2>1 DEF Vouched, AllLinked, Linked
  <2> QED BY <1>3, <2>2, NoneLinked DEF Publish, TypeOK, AllLinked, Listed, NoSync
<1>4. ASSUME NEW f \in Path, LinkFile(t, f)
      PROVE  VouchInv'
  <2>1. /\ \A u \in Task \ {t} : job'[u] = job[u]
        /\ job'[t].want = job[t].want /\ job'[t].todo = job[t].todo \ {f}
        /\ job'[t].made = [job[t].made EXCEPT ![f] = From(t, f)]
        /\ job'[t].cut = job[t].cut
    <3>1. PICK c : /\ job' = [job EXCEPT ![t] = c]
                   /\ c.want = job[t].want /\ c.todo = job[t].todo \ {f}
                   /\ c.made = [job[t].made EXCEPT ![f] = From(t, f)]
                   /\ c.cut = job[t].cut
      BY <1>4, LinkRecord
    <3> QED BY <3>1 DEF TypeOK
  <2>2. From(t, f) = job[t].want[f]
    BY <1>4, FromIsWanted DEF LinkFile, Listed
  <2>3. job[t].made \in Tree
    BY DEF TypeOK, JobT
  <2>4. Linked(job'[t])
    BY <2>1, <2>2, <2>3 DEF Linked, AllLinked, Tree
  <2> QED BY <1>4, <2>1, <2>4 DEF LinkFile, Vouched, AllLinked, Listed
<1> QED BY <1>1, <1>2, <1>3, <1>4 DEF SyncStep

LEMMA VouchStep == TypeOK /\ VouchInv /\ [Next]_vars => VouchInv'
<1> SUFFICES ASSUME TypeOK, VouchInv, [Next]_vars PROVE VouchInv'
  OBVIOUS
<1>1. ASSUME UNCHANGED <<data, state, job>>
      PROVE  VouchInv'
  BY <1>1 DEF VouchInv, Vouched, AllLinked, Listed
<1>2. CASE DaemonStops
  BY <1>2, NoneLinked DEF DaemonStops, VouchInv, Vouched, AllLinked, Listed, NoSync
<1> QED
  BY <1>1, <1>2, PurgeVouch, SyncVouch
     DEF Next, UserStep, CliStep, Add, Edit, Remove, Begin, Answer, Type, Abort,
         QuitEditor, Kill, ReadBack, Truncate, Write, Call, Apply, SigHup,
         DaemonStarts, SourceChanges, vars, store

(***************************************************************************)
(* A sync that publishes leaves the whole tree of the source it saw, unless*)
(* a purge came between its links: what the differ leaves out and the data *)
(* lacks stops it (Apply, linkChecked).                                    *)
(***************************************************************************)
THEOREM WholeIsPublished == Spec => PublishesWhole
<1>1. CheckInv => TypeOK
  BY DEF CheckInv
<1>2. ASSUME TypeOK, VouchInv, NEW t \in Task, [Next]_vars,
             state'[t] # state[t], ~job[t].cut
      PROVE  data'[t] = state'[t]
  <2>1. PICK u \in Task : Publish(u)
    BY <1>2
       DEF Next, UserStep, CliStep, SyncStep, StartSync, FailSync, LinkFile, Add,
           Edit, Remove, Begin, Answer, Type, Abort, QuitEditor, Kill, ReadBack,
           Purge, Truncate, Write, Call, Apply, SigHup, DaemonStops, DaemonStarts,
           SourceChanges, vars, store
  <2>2. u = t
    BY <1>2, <2>1 DEF Publish, TypeOK
  <2>3. data'[t] = job[t].made /\ state'[t] = job[t].want /\ job[t].todo = {}
    BY <1>2, <2>1, <2>2 DEF Publish, TypeOK
  <2>4. job[t].made \in Tree /\ job[t].want \in Tree
    BY <1>2 DEF TypeOK, JobT
  <2> QED BY <1>2, <2>3, <2>4 DEF VouchInv, AllLinked, Linked, Tree
<1>3. TypeOK /\ VouchInv /\ [Next]_vars =>
        [\A t \in Task : state'[t] # state[t] /\ ~job[t].cut => data'[t] = state'[t]]_vars
  BY <1>2
<1>4. Spec =>
        [][\A t \in Task : state'[t] # state[t] /\ ~job[t].cut => data'[t] = state'[t]]_vars
  BY <1>1, <1>3, CheckInit, CheckStep, VouchInit, VouchStep, PTL DEF Spec
<1> QED BY <1>4 DEF PublishesWhole
-----------------------------------------------------------------------------
(***************************************************************************)
(* The file f of task t is in its state file and not in its data.          *)
(***************************************************************************)
Hole(t, f) == state[t][f] # None /\ data[t][f] = None

(***************************************************************************)
(* What makes a hole: a purge of the task, or a sync that publishes what a *)
(* purge left of the version it was making.                                *)
(***************************************************************************)
Holes(t) ==
  \/ \E p \in Proc : Purge(p) /\ cli[p].task = t
  \/ Publish(t) /\ job[t].cut

LEMMA HoleStep ==
  ASSUME TypeOK, VouchInv, [Next]_vars, NEW t \in Task, NEW f \in Path, Hole(t, f)', ~Hole(t, f)
  PROVE  Holes(t)
<1>1. CASE \E p \in Proc : Purge(p)
  <2>1. PICK p \in Proc : Purge(p)
    BY <1>1
  <2>2. state' = state
    BY <2>1 DEF Purge
  <2>3. PICK left : data' = [data EXCEPT ![cli[p].task] = Only(@, left)]
    BY <2>1, PurgeTakes
  <2>4. cli[p].task = t
    BY <2>2, <2>3 DEF Hole, TypeOK
  <2> QED BY <2>1, <2>4 DEF Holes
<1>2. CASE \E u \in Task : Publish(u)
  <2>1. PICK u \in Task : Publish(u)
    BY <1>2
  <2>2. /\ data' = [data EXCEPT ![u] = job[u].made]
        /\ state' = [state EXCEPT ![u] = job[u].want]
        /\ job[u].todo = {}
    BY <2>1 DEF Publish
  <2>3. u = t
    BY <2>2 DEF Hole, TypeOK
  <2>4. job[t].made[f] # job[t].want[f]
    BY <2>2, <2>3 DEF Hole, TypeOK
  <2>5. job[t].cut
    BY <2>2, <2>3, <2>4 DEF VouchInv, AllLinked, Linked
  <2> QED BY <2>1, <2>3, <2>5 DEF Holes
<1>3. CASE UNCHANGED <<data, state>>
  BY <1>3 DEF Hole
<1> QED
  BY <1>1, <1>2, <1>3
     DEF Next, UserStep, CliStep, SyncStep, StartSync, FailSync, LinkFile, Add, Edit,
         Remove, Begin, Answer, Type, Abort, QuitEditor, Kill, ReadBack, Truncate,
         Write, Call, Apply, SigHup, DaemonStops, DaemonStarts, SourceChanges, vars,
         store

(***************************************************************************)
(* Whatever a task's data lacks of what its state file says, a purge took  *)
(* (cmdRemove): no crash, stop, reload or failed sync makes a hole, and    *)
(* what is there is always what the state file says.                       *)
(***************************************************************************)
HolesAreFromPurges ==
  [][\A t \in Task : (\E f \in Path : Hole(t, f)' /\ ~Hole(t, f)) => Holes(t)]_vars

(***************************************************************************)
(* Each way out of "data is what the state file says" that TasksFollowed   *)
(* allows for good begins with a purge.                                    *)
(***************************************************************************)
THEOREM OnlyPurgesMakeHoles == Spec => HolesAreFromPurges /\ []Vouched
<1>1. CheckInv => TypeOK
  BY DEF CheckInv
<1>2. TypeOK /\ VouchInv /\ [Next]_vars =>
        [\A t \in Task : (\E f \in Path : Hole(t, f)' /\ ~Hole(t, f)) => Holes(t)]_vars
  BY HoleStep
<1>3. VouchInv => Vouched
  BY DEF VouchInv
<1>4. Spec =>
        /\ [][\A t \in Task : (\E f \in Path : Hole(t, f)' /\ ~Hole(t, f)) => Holes(t)]_vars
        /\ []Vouched
  BY <1>1, <1>2, <1>3, CheckInit, CheckStep, VouchInit, VouchStep, PTL DEF Spec
<1> QED BY <1>4 DEF HolesAreFromPurges

(***************************************************************************)
(* No sync has lost files to a purge, and every task has what its state    *)
(* file says.                                                              *)
(***************************************************************************)
Whole == \A t \in Task : ~job[t].cut /\ data[t] = state[t]

LEMMA WholeStep ==
  TypeOK /\ VouchInv /\ Whole /\ [Next]_vars /\ (\A p \in Proc : ~Purge(p)) => Whole'
<1> SUFFICES ASSUME TypeOK, VouchInv, Whole, [Next]_vars, \A p \in Proc : ~Purge(p)
             PROVE  Whole'
  OBVIOUS
<1>1. ASSUME NEW t \in Task
      PROVE  data'[t] = state'[t]
  <2>1. CASE \E u \in Task : Publish(u)
    <3>1. PICK u \in Task : Publish(u)
      BY <2>1
    <3>2. /\ data' = [data EXCEPT ![u] = job[u].made]
          /\ state' = [state EXCEPT ![u] = job[u].want]
          /\ job[u].todo = {}
      BY <3>1 DEF Publish
    <3>3. job[u].made = job[u].want
      <4>1. job[u].made \in Tree /\ job[u].want \in Tree
        BY DEF TypeOK, JobT
      <4>2. \A f \in Path : job[u].made[f] = job[u].want[f]
        BY <3>2 DEF VouchInv, AllLinked, Linked, Whole
      <4> QED BY <4>1, <4>2 DEF Tree
    <3> QED BY <3>2, <3>3 DEF Whole, TypeOK
  <2>2. CASE UNCHANGED <<data, state>>
    BY <2>2 DEF Whole
  <2> QED
    BY <2>1, <2>2
       DEF Next, UserStep, CliStep, SyncStep, StartSync, FailSync, LinkFile, Add, Edit,
           Remove, Begin, Answer, Type, Abort, QuitEditor, Kill, ReadBack, Truncate,
           Write, Call, Apply, SigHup, DaemonStops, DaemonStarts, SourceChanges, vars,
           store
<1>2. ASSUME NEW t \in Task
      PROVE  ~job'[t].cut
  <2>1. CASE job' = job
    BY <2>1 DEF Whole
  <2>2. ASSUME NEW u \in Task, SyncStep(u)
        PROVE  ~job'[t].cut
    <3>1. CASE StartSync(u)
      BY <3>1 DEF StartSync, Whole, TypeOK
    <3>2. CASE FailSync(u) \/ Publish(u)
      BY <3>2 DEF FailSync, Publish, Whole, TypeOK, NoSync
    <3>3. ASSUME NEW f \in Path, LinkFile(u, f)
          PROVE  ~job'[t].cut
      <4>1. PICK c : job' = [job EXCEPT ![u] = c] /\ c.cut = job[u].cut
        BY <3>3, LinkRecord
      <4> QED BY <4>1 DEF Whole, TypeOK
    <3> QED BY <2>2, <3>1, <3>2, <3>3 DEF SyncStep
  <2>3. CASE DaemonStops
    BY <2>3 DEF DaemonStops, NoSync
  <2> QED
    BY <2>1, <2>2, <2>3
       DEF Next, UserStep, CliStep, Add, Edit, Remove, Begin, Answer, Type, Abort,
           QuitEditor, Kill, ReadBack, Truncate, Write, Call, Apply, SigHup,
           DaemonStarts, SourceChanges, vars, store
<1> QED BY <1>1, <1>2 DEF Whole

(***************************************************************************)
(* As long as nobody purges a task, every task always holds, file for      *)
(* file, what its state file says it does, so that "no change" means that  *)
(* the data is up to date -- through any reloads, stops and starts of the  *)
(* daemon, removals without --purge, and failed syncs.                     *)
(***************************************************************************)
THEOREM WithoutPurgesNoHoles ==
  Spec /\ [][\A p \in Proc : ~Purge(p)]_vars => [](\A t \in Task : data[t] = state[t])
<1> DEFINE NoPurge == \A p \in Proc : ~Purge(p)
           Same == \A t \in Task : data[t] = state[t]
<1>1. Init => Whole
  BY DEF Init, Whole, NoSync
<1>2. CheckInv => TypeOK
  BY DEF CheckInv
<1>3. Whole => Same
  BY DEF Whole
<1>4. TypeOK /\ VouchInv /\ Whole /\ [Next]_vars /\ [NoPurge]_vars => Whole'
  <2>1. CASE NoPurge
    BY <2>1, WholeStep
  <2>2. CASE UNCHANGED vars
    BY <2>2 DEF vars, store, Whole
  <2> QED BY <2>1, <2>2
<1> HIDE DEF NoPurge, Same
<1>5. Spec /\ [][NoPurge]_vars => []Same
  BY <1>1, <1>2, <1>3, <1>4, CheckInit, CheckStep, VouchInit, VouchStep, PTL DEF Spec
<1> QED BY <1>5 DEF NoPurge, Same
-----------------------------------------------------------------------------
(***************************************************************************)
(* As long as no two commands have overlapped, the one that is to write    *)
(* has emptied the file itself.                                            *)
(***************************************************************************)
Emptied ==
  ~raced => Readable /\ \A p \in Proc : cli[p].pc = "write" => disk = "cut"

LEMMA EmptiedStep == CheckInv /\ Turns /\ Emptied /\ [Next]_vars => Emptied'
<1> SUFFICES ASSUME TypeOK, Checked, Turns, Emptied, [Next]_vars PROVE Emptied'
  BY DEF CheckInv
<1>a. \A p \in Proc : cli[p] \in CliT
  BY DEF TypeOK
<1>1. ASSUME NEW p \in Proc, NEW c, c.pc # "write", cli' = [cli EXCEPT ![p] = c]
      PROVE  \A q \in Proc : cli'[q].pc = "write" => cli[q].pc = "write"
  BY <1>1 DEF TypeOK
<1>b. ASSUME \A q \in Proc : cli'[q].pc = "write" => cli[q].pc = "write",
             disk' = disk, raced => raced'
      PROVE  Emptied'
  BY <1>b DEF Emptied, Readable
<1>2. ASSUME NEW p \in Proc, NEW t \in Task, Add(p, t) \/ Edit(p, t) \/ Remove(p, t)
      PROVE  Emptied'
  <2>1. PICK first \in {"wizard", "editor", "purge", "save"} : Begin(p, t, first)
    BY <1>2 DEF Add, Edit, Remove
  <2> DEFINE c == [pc |-> first, task |-> t, read |-> ReadYaml, def |-> None]
  <2>2. c.pc # "write" /\ cli' = [cli EXCEPT ![p] = c]
    BY <2>1 DEF Begin
  <2>3. disk' = disk /\ (raced => raced')
    BY <2>1 DEF Begin
  <2> HIDE DEF c
  <2> QED BY <2>2, <2>3, <1>1, <1>b
<1>3. ASSUME NEW p \in Proc, NEW d \in Def, Answer(p, d) \/ Type(p, d)
      PROVE  Emptied'
  <2>1. \A q \in Proc : cli'[q].pc = "write" => cli[q].pc = "write"
    BY <1>3, <1>a DEF Answer, Type, TypeOK, CliT
  <2> QED BY <1>3, <2>1, <1>b DEF Answer, Type, history
<1>4. ASSUME NEW p \in Proc, Abort(p) \/ QuitEditor(p) \/ Kill(p) \/ ReadBack(p) \/ Call(p)
      PROVE  Emptied'
  <2>1. \A q \in Proc : cli'[q].pc = "write" => cli[q].pc = "write"
    <3>1. CASE cli' = [cli EXCEPT ![p] = Off]
      BY <3>1 DEF Off, TypeOK
    <3>2. CASE cli' = [cli EXCEPT ![p] = [@ EXCEPT !.pc = "save", !.def = tmp]]
      BY <1>a, <3>2 DEF TypeOK, CliT
    <3> QED BY <1>4, <3>1, <3>2 DEF Abort, QuitEditor, Kill, ReadBack, Call
  <2>2. disk' = disk /\ raced' = raced
    BY <1>4 DEF Abort, QuitEditor, Kill, ReadBack, Call, history
  <2> QED BY <2>1, <2>2, <1>b
<1>5. ASSUME NEW p \in Proc, Purge(p)
      PROVE  Emptied'
  <2>1. \A q \in Proc : cli'[q].pc = "write" => cli[q].pc = "write"
    BY <1>5, <1>a DEF Purge, TypeOK, CliT
  <2> QED BY <1>5, <2>1, <1>b DEF Purge, history
<1>6. ASSUME NEW p \in Proc, Truncate(p)
      PROVE  Emptied'
  BY <1>6 DEF Truncate, Emptied, Readable
<1>7. ASSUME NEW p \in Proc, Write(p)
      PROVE  Emptied'
  <2>1. raced' = raced /\ cli' = [cli EXCEPT ![p] = [Off EXCEPT !.pc = "call"]]
    BY <1>7 DEF Write, history
  <2>2. ~raced => disk' = "whole"
    BY <1>7 DEF Write, Emptied
  <2>3. ~raced => \A q \in Proc : cli'[q].pc # "write"
    BY <1>7, <2>1 DEF Write, Turns, TypeOK, Off
  <2> QED BY <2>1, <2>2, <2>3 DEF Emptied, Readable
<1>8. CASE UNCHANGED <<cli, disk, raced>>
  BY <1>8 DEF Emptied, Readable
<1>9. ASSUME NEW t \in Task, SyncStep(t)
       PROVE  UNCHANGED <<cli, disk, raced>>
  BY <1>9, SyncTypes DEF history
<1> QED
  BY <1>2, <1>3, <1>4, <1>5, <1>6, <1>7, <1>8, <1>9
     DEF Next, UserStep, CliStep, Apply, SigHup, DaemonStops, DaemonStarts,
         SourceChanges, vars, history

(***************************************************************************)
(* As long as no two commands overlap the configuration file always parses:*)
(* it is whole, or empty where a command is between emptying and writing   *)
(* it or was killed there (saveConfig, loadConfig, config.Load).           *)
(***************************************************************************)
THEOREM FileIsReadable == Spec => [](~raced => Readable)
<1>1. Init => Emptied
  BY DEF Init, Emptied, Readable, Off
<1>2. Emptied => (~raced => Readable)
  BY DEF Emptied
<1> DEFINE Parses == ~raced => Readable
<1> HIDE DEF Parses
<1>3. Spec => []Parses
  BY <1>1, <1>2, CheckInit, CheckStep, TurnInit, TurnStep, EmptiedStep, PTL DEF Spec, Parses
<1> QED BY <1>3 DEF Parses
=============================================================================
