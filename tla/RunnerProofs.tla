---------------------------- MODULE RunnerProofs ----------------------------
(***************************************************************************)
(* Theorems about Runner, for any number of tasks, loops, triggers and     *)
(* reloaders, concurrent reloads included.                                 *)
(***************************************************************************)
EXTENDS Runner, TLAPS

-----------------------------------------------------------------------------
(* Type correctness.                                                       *)

PC == {"off", "armed", "lookup", "cas", "run"}

ActT == [pc : PC, task : Task \cup {None}, flag : Flag \cup {None},
         from : Configs \cup {None}, failures : 0..FailureCap, stopped : BOOLEAN]

StarterT == [pc : {"idle", "swap", "cancel", "wait", "start"},
             cfg : Configs, todo : SUBSET Task, cancels : SUBSET Loop]

LEMMA OffType == Off \in ActT
BY LimitsAreNat DEF Off, ActT, PC

LEMMA MoreType == \A n \in 0..FailureCap : More(n) \in 0..FailureCap
BY LimitsAreNat DEF More

(***************************************************************************)
(* There is a flag nobody refers to, and Fresh is one.                     *)
(***************************************************************************)
LEMMA FreshExists == TypeOK => Fresh \in Unused /\ Fresh \in Flag
<1> SUFFICES ASSUME TypeOK PROVE Fresh \in Unused /\ Fresh \in Flag
  OBVIOUS
<1> DEFINE refers == [x \in Task \cup Actor |->
                        IF x \in Task THEN flagOf[x] ELSE act[x].flag]
<1>1. refers \in [Task \cup Actor -> Flag \cup {None}]
  BY ActorsDiffer DEF TypeOK
<1>2. PICK f \in Flag : \A x \in Task \cup Actor : refers[x] # f
  BY <1>1, FlagsAbound
<1>3. \A t \in Task : flagOf[t] # f
  BY <1>2
<1>4. \A a \in Actor : act[a].flag # f
  BY <1>2, ActorsDiffer
<1>5. f \in Unused
  BY <1>3, <1>4 DEF Unused
<1> QED BY <1>5 DEF Fresh, Unused

(***************************************************************************)
(* What TypeOK says of a caller of Sync, and TypeOK in those words.        *)
(***************************************************************************)
Placed(r) ==
  /\ r \in ActT
  /\ r.pc # "off" => r.task \in Task
  /\ r.pc \in {"cas", "run"} => r.flag \in Flag

Typed ==
  /\ served \in Configs /\ cfg \in Configs
  /\ flagOf \in [Task -> Flag \cup {None}] /\ held \subseteq Flag
  /\ cancelOf \in [Task -> Loop \cup {None}]
  /\ act \in [Actor -> ActT] /\ \A a \in Actor : Placed(act[a])
  /\ recorded \in [Task -> 0..FailureCap]
  /\ starter \in [Starter -> StarterT]
  /\ main \in {"serving", "stopping", "exited"}
  /\ reloads \in 0..MaxReloads

LEMMA TypedIsTypeOK == TypeOK <=> Typed
BY DEF TypeOK, Typed, Placed, ActT, StarterT, PC

LEMMA TypedInit == Init => Typed
<1> SUFFICES ASSUME Init PROVE Typed
  OBVIOUS
<1>1. act \in [Actor -> ActT] /\ \A a \in Actor : act[a].pc = "off"
  BY OffType DEF Init, Off
<1>2. starter \in [Starter -> StarterT]
  BY DEF Init, Rest, StarterT, Enabled
<1> QED BY <1>1, <1>2, LimitsAreNat DEF Init, Typed, Placed

(***************************************************************************)
(* When one caller, or one starter, moves, only its record is in question. *)
(***************************************************************************)
LEMMA OneMoves ==
  ASSUME Typed, NEW a \in Actor, NEW r, Placed(r), act' = [act EXCEPT ![a] = r]
  PROVE  act' \in [Actor -> ActT] /\ \A b \in Actor : Placed(act'[b])
BY DEF Typed, Placed

LEMMA OneStarts ==
  ASSUME Typed, NEW s \in Starter, NEW r \in StarterT,
         starter' = [starter EXCEPT ![s] = r]
  PROVE  starter' \in [Starter -> StarterT]
BY DEF Typed

LEMMA TypedStep == Typed /\ [Next]_vars => Typed'
<1> SUFFICES ASSUME Typed, [Next]_vars PROVE Typed'
  OBVIOUS
<1>a. Placed(Off) /\ Fresh \in Flag
  BY OffType, FreshExists, TypedIsTypeOK DEF Placed, Off
<1>1. ASSUME NEW l \in Loop, Fire(l) \/ Quit(l) PROVE Typed'
  <2>1. Placed([act[l] EXCEPT !.pc = "lookup"])
    BY <1>1, <1>a DEF Fire, Quit, Typed, Placed, ActT, PC, Actor
  <2>2. \/ act' = [act EXCEPT ![l] = [act[l] EXCEPT !.pc = "lookup"]]
        \/ act' = [act EXCEPT ![l] = Off]
    BY <1>1 DEF Fire, Quit
  <2>3. act' \in [Actor -> ActT] /\ \A b \in Actor : Placed(act'[b])
    BY <1>a, <2>1, <2>2, OneMoves DEF Actor
  <2> QED BY <1>1, <2>3 DEF Fire, Quit, process, Typed
<1>2. ASSUME NEW g \in Trigger, NEW t \in Task, TriggerSync(g, t) PROVE Typed'
  <2>1. Placed([Off EXCEPT !.pc = "lookup", !.task = t])
    BY <1>a DEF Placed, ActT, PC
  <2>2. act' \in [Actor -> ActT] /\ \A b \in Actor : Placed(act'[b])
    BY <1>2, <2>1, OneMoves DEF TriggerSync, Actor
  <2> QED BY <1>2, <2>2 DEF TriggerSync, process, Typed
<1>3. ASSUME NEW a \in Actor, Lookup(a) PROVE Typed'
  <2> DEFINE t == act[a].task
             f == IF flagOf[t] = None THEN Fresh ELSE flagOf[t]
             r == [act[a] EXCEPT !.pc = "cas", !.flag = f]
  <2>1. t \in Task /\ f \in Flag
    BY <1>3, <1>a DEF Lookup, Typed, Placed
  <2>2. Placed(r)
    BY <2>1 DEF Typed, Placed, ActT, PC
  <2>3. act' = [act EXCEPT ![a] = r]
    BY <1>3 DEF Lookup, Typed, ActT
  <2>4. act' \in [Actor -> ActT] /\ \A b \in Actor : Placed(act'[b])
    BY <2>2, <2>3, OneMoves
  <2>5. flagOf' = [flagOf EXCEPT ![t] = f]
    BY <1>3 DEF Lookup
  <2> QED BY <1>3, <2>1, <2>4, <2>5 DEF Lookup, process, Typed
<1>4. ASSUME NEW a \in Actor, Acquire(a) \/ Busy(a) PROVE Typed'
  <2>1. Placed([act[a] EXCEPT !.pc = "run"])
    BY <1>4 DEF Acquire, Busy, Typed, Placed, ActT, PC
  <2>2. \/ act' = [act EXCEPT ![a] = [act[a] EXCEPT !.pc = "run"]]
        \/ act' = [act EXCEPT ![a] = Off]
    BY <1>4 DEF Acquire, Busy
  <2>3. act' \in [Actor -> ActT] /\ \A b \in Actor : Placed(act'[b])
    BY <1>a, <2>1, <2>2, OneMoves
  <2>4. held' \subseteq Flag
    BY <1>4 DEF Acquire, Busy, Typed, Placed
  <2> QED BY <1>4, <2>3, <2>4 DEF Acquire, Busy, process, Typed
<1>5. ASSUME NEW a \in Actor, Succeed(a) \/ Fail(a) PROVE Typed'
  <2>1. PICK n \in 0..FailureCap : Return(a, n)
    BY <1>5, MoreType, LimitsAreNat DEF Succeed, Fail, Typed, ActT
  <2>2. Placed([act[a] EXCEPT !.pc = "armed", !.flag = None, !.failures = n])
    <3> DEFINE r == [act[a] EXCEPT !.pc = "armed", !.flag = None, !.failures = n]
    <3>1. act[a] \in ActT /\ act[a].task \in Task
      BY <1>5 DEF Succeed, Fail, Typed, Placed
    <3>2. r \in ActT
      BY <3>1 DEF ActT, PC
    <3>3. r.pc = "armed" /\ r.task = act[a].task
      BY <3>1 DEF ActT
    <3> QED BY <3>1, <3>2, <3>3 DEF Placed
  <2>3. \/ act' = [act EXCEPT ![a] =
                     [act[a] EXCEPT !.pc = "armed", !.flag = None, !.failures = n]]
        \/ act' = [act EXCEPT ![a] = Off]
    BY <2>1 DEF Return
  <2>4. act' \in [Actor -> ActT] /\ \A b \in Actor : Placed(act'[b])
    BY <1>a, <2>2, <2>3, OneMoves
  <2>5. recorded' \in [Task -> 0..FailureCap]
    BY <1>5, MoreType, LimitsAreNat DEF Succeed, Fail, Typed
  <2> QED BY <1>5, <2>4, <2>5 DEF Succeed, Fail, process, Typed
<1>6. ASSUME NEW s \in Starter, NEW t \in Task, StartTask(s, t) PROVE Typed'
  <2>1. PICK l \in Loop :
          /\ act' = [act EXCEPT ![l] =
                       [Off EXCEPT !.pc = "armed", !.task = t, !.from = cfg]]
          /\ cancelOf' = [cancelOf EXCEPT ![t] = l]
    BY <1>6 DEF StartTask
  <2>2. Placed([Off EXCEPT !.pc = "armed", !.task = t, !.from = cfg])
    BY <1>a DEF Typed, Placed, ActT, PC
  <2>3. act' \in [Actor -> ActT] /\ \A b \in Actor : Placed(act'[b])
    BY <2>1, <2>2, OneMoves DEF Actor
  <2>4. starter' = [starter EXCEPT ![s] = [starter[s] EXCEPT !.todo = @ \ {t}]]
    BY <1>6 DEF StartTask
  <2>5. starter' \in [Starter -> StarterT]
    <3>1. \A c \in StarterT : [c EXCEPT !.todo = @ \ {t}] \in StarterT
      BY DEF StarterT
    <3> QED BY <2>4, <3>1, OneStarts DEF Typed
  <2> QED BY <1>6, <1>a, <2>1, <2>3, <2>5 DEF StartTask, Typed
<1>7. ASSUME NEW s \in Starter, Started(s) PROVE Typed'
  <2>1. starter' = [starter EXCEPT ![s] = [starter[s] EXCEPT !.pc = "idle"]]
    BY <1>7 DEF Started
  <2>2. [starter[s] EXCEPT !.pc = "idle"] \in StarterT
    BY DEF Typed, StarterT
  <2>3. starter' \in [Starter -> StarterT]
    BY <2>1, <2>2, OneStarts
  <2> QED BY <1>7, <2>3 DEF Started, Typed
<1>8. ASSUME NEW r \in Reloader, ApplyCfg(r) PROVE Typed'
  <2>1. PICK c \in Configs :
          /\ served' = c
          /\ starter' = [starter EXCEPT ![r] = [Rest(c) EXCEPT !.pc = "swap"]]
    BY <1>8 DEF ApplyCfg
  <2>2. [Rest(c) EXCEPT !.pc = "swap"] \in StarterT
    BY DEF Rest, StarterT
  <2>3. starter' \in [Starter -> StarterT]
    BY <2>1, <2>2, OneStarts DEF Starter
  <2>4. reloads' \in 0..MaxReloads
    BY <1>8, LimitsAreNat DEF ApplyCfg, Typed
  <2> QED BY <1>8, <2>1, <2>3, <2>4 DEF ApplyCfg, Typed
<1>9. ASSUME NEW r \in Reloader, SwapMaps(r) PROVE Typed'
  <2>1. starter' = [starter EXCEPT ![r] = [starter[r] EXCEPT !.pc = "cancel",
                      !.cancels = {cancelOf[t] : t \in Task} \ {None}]]
    BY <1>9 DEF SwapMaps, Typed, StarterT, Starter
  <2>2. PICK C \in SUBSET Loop : C = {cancelOf[t] : t \in Task} \ {None}
    BY DEF Typed
  <2>3. starter' \in [Starter -> StarterT]
    <3>1. \A c \in StarterT : [c EXCEPT !.pc = "cancel", !.cancels = C] \in StarterT
      BY DEF StarterT
    <3> QED BY <2>1, <2>2, <3>1, OneStarts DEF Typed, Starter
  <2> QED BY <1>9, <2>3 DEF SwapMaps, Typed
<1>10. ASSUME NEW r \in Reloader, CancelLoops(r) PROVE Typed'
  <2>1. \A a \in Actor : Placed([act[a] EXCEPT !.stopped = TRUE])
    BY DEF Typed, Placed, ActT
  <2>2. act' \in [Actor -> ActT] /\ \A b \in Actor : Placed(act'[b])
    BY <1>10, <2>1 DEF CancelLoops, Typed, Placed
  <2>3. starter' = [starter EXCEPT ![r] =
                      [starter[r] EXCEPT !.pc = "wait", !.cancels = {}]]
    BY <1>10 DEF CancelLoops, Typed, StarterT, Starter
  <2>4. starter' \in [Starter -> StarterT]
    <3>1. \A c \in StarterT : [c EXCEPT !.pc = "wait", !.cancels = {}] \in StarterT
      BY DEF StarterT
    <3> QED BY <2>3, <3>1, OneStarts DEF Typed, Starter
  <2> QED BY <1>10, <2>2, <2>4 DEF CancelLoops, Typed
<1>11. ASSUME NEW r \in Reloader, AwaitLoops(r) PROVE Typed'
  <2>1. starter' = [starter EXCEPT ![r] =
                      [starter[r] EXCEPT !.pc = "start", !.todo = Enabled(cfg')]]
    BY <1>11 DEF AwaitLoops, Typed, StarterT, Starter
  <2>2. starter' \in [Starter -> StarterT]
    <3>1. PICK T \in SUBSET Task : T = Enabled(cfg')
      BY DEF Enabled
    <3>2. \A c \in StarterT : [c EXCEPT !.pc = "start", !.todo = T] \in StarterT
      BY DEF StarterT
    <3> QED BY <2>1, <3>1, <3>2, OneStarts DEF Typed, Starter
  <2> QED BY <1>11, <2>2 DEF AwaitLoops, Typed, StarterT, Starter
<1>12. CASE Stop \/ Exit
  BY <1>12 DEF Stop, Exit, Typed
<1>13. CASE UNCHANGED vars
  BY <1>13 DEF vars, process, Typed, Placed
<1> QED
  BY <1>1, <1>2, <1>3, <1>4, <1>5, <1>6, <1>7, <1>8, <1>9, <1>10, <1>11,
     <1>12, <1>13
  DEF Next, LoopStep, SyncStep, StartStep, ReloadStep, UserStep, Exited

(* Every variable keeps its type: TypeOK of the safety run.                *)
THEOREM RunnerTypeCorrect == Spec => []TypeOK
BY TypedInit, TypedStep, TypedIsTypeOK, PTL DEF Spec
-----------------------------------------------------------------------------
(* The running flags.                                                      *)

(***************************************************************************)
(* Whoever comes back from Sync is off or armed for the same task.         *)
(***************************************************************************)
LEMMA ReturnMoves ==
  ASSUME act \in [Actor -> ActT], NEW a \in Actor, NEW n, Return(a, n)
  PROVE  /\ act'[a].pc \in {"off", "armed"}
         /\ act'[a].pc = "armed" => act'[a].task = act[a].task
         /\ \A b \in Actor : b # a => act'[b] = act[b]
<1>1. CASE a \in Loop /\ ~Cancelled(a)
  BY <1>1 DEF Return, ActT
<1>2. CASE ~(a \in Loop /\ ~Cancelled(a))
  <2>1. act' = [act EXCEPT ![a] = Off]
    BY <1>2 DEF Return
  <2> QED BY <2>1 DEF Off
<1> QED BY <1>1, <1>2

LEMMA OwnerStep == Typed /\ FlagOwner /\ [Next]_vars => FlagOwner'
<1> SUFFICES ASSUME Typed, FlagOwner, [Next]_vars PROVE FlagOwner'
  OBVIOUS
<1>a. act \in [Actor -> ActT]
  BY DEF Typed
<1> USE DEF FlagOwner
(* Who neither acquires nor finishes keeps out of "run" and out of held. *)
<1>b. ASSUME UNCHANGED held,
             \A a \in Actor : act[a].pc = "run" \/ act'[a].pc = "run"
               => act'[a].pc = act[a].pc /\ act'[a].flag = act[a].flag
      PROVE  FlagOwner'
  BY <1>b
<1>1. ASSUME NEW l \in Loop, Fire(l) \/ Quit(l) PROVE FlagOwner'
  BY <1>1, <1>a, <1>b DEF Fire, Quit, ActT, Off, Actor
<1>2. ASSUME NEW g \in Trigger, NEW t \in Task, TriggerSync(g, t) PROVE FlagOwner'
  BY <1>2, <1>a, <1>b DEF TriggerSync, ActT, Off, Actor
<1>3. ASSUME NEW a \in Actor, Lookup(a) PROVE FlagOwner'
  BY <1>3, <1>a, <1>b DEF Lookup, ActT
<1>4. ASSUME NEW a \in Actor, Acquire(a) PROVE FlagOwner'
  <2>1. /\ act[a].flag \notin held /\ held' = held \cup {act[a].flag}
        /\ act'[a].pc = "run" /\ act'[a].flag = act[a].flag
        /\ \A b \in Actor : b # a => act'[b] = act[b]
    BY <1>4, <1>a DEF Acquire, ActT
  <2> QED BY <2>1
<1>5. ASSUME NEW a \in Actor, Busy(a) PROVE FlagOwner'
  BY <1>5, <1>a, <1>b DEF Busy, Off
<1>6. ASSUME NEW a \in Actor, Succeed(a) \/ Fail(a) PROVE FlagOwner'
  <2>1. /\ act[a].pc = "run" /\ held' = held \ {act[a].flag}
        /\ act'[a].pc # "run"
        /\ \A b \in Actor : b # a => act'[b] = act[b]
    BY <1>6, <1>a, ReturnMoves DEF Succeed, Fail
  <2> QED BY <2>1
<1>7. ASSUME NEW s \in Starter, NEW t \in Task, StartTask(s, t) PROVE FlagOwner'
  BY <1>7, <1>a, <1>b DEF StartTask, Live, ActT, Off, Actor
<1>8. ASSUME NEW r \in Reloader, CancelLoops(r) PROVE FlagOwner'
  BY <1>8, <1>a, <1>b DEF CancelLoops, ActT
<1>9. CASE UNCHANGED <<act, held>>
  BY <1>9
<1> QED
  BY <1>1, <1>2, <1>3, <1>4, <1>5, <1>6, <1>7, <1>8, <1>9
  DEF Next, LoopStep, SyncStep, StartStep, ReloadStep, UserStep, Exited, vars,
      Started, ApplyCfg, SwapMaps, AwaitLoops, Stop, Exit

(***************************************************************************)
(* Each flag that is set belongs to exactly one sync under way, whatever   *)
(* maps were replaced meanwhile and by however many reloaders: FlagOwner   *)
(* of the safety run.                                                      *)
(***************************************************************************)
THEOREM FlagsOwned == Spec => []FlagOwner
<1>1. Init => FlagOwner
  BY DEF Init, FlagOwner, Off
<1>2. TypeOK /\ FlagOwner /\ [Next]_vars => FlagOwner'
  BY OwnerStep, TypedIsTypeOK
<1> QED BY <1>1, <1>2, RunnerTypeCorrect, PTL DEF Spec

(***************************************************************************)
(* FirstEpoch: before any reload a flag once in the map stays there, since *)
(* start-up gives a task its flag before anybody can sync the task.        *)
(***************************************************************************)
FirstEpoch ==
  reloads = 0 =>
    /\ \A r \in Reloader : starter[r].pc = "idle"
    /\ starter[Main].pc = "idle" => starter[Main].todo = {}
    /\ \A t \in starter[Main].todo, a \in Actor :
         act[a].pc # "off" => act[a].task # t
    /\ \A a \in Actor : act[a].pc \in {"cas", "run"} => act[a].flag = flagOf[act[a].task]

LEMMA EpochInit == Init => FirstEpoch
<1> SUFFICES ASSUME Init PROVE FirstEpoch
  OBVIOUS
<1>1. starter[Main].pc = "start" /\ \A r \in Reloader : starter[r].pc = "idle"
  BY ActorsDiffer DEF Init, Rest, Starter
<1>2. \A a \in Actor : act[a].pc = "off"
  BY DEF Init, Off
<1> QED BY <1>1, <1>2 DEF FirstEpoch

LEMMA EpochStep == Typed /\ FirstEpoch /\ [Next]_vars => FirstEpoch'
<1> SUFFICES ASSUME Typed, FirstEpoch, [Next]_vars, reloads' = 0 PROVE FirstEpoch'
  BY DEF FirstEpoch
<1>a. act \in [Actor -> ActT] /\ starter \in [Starter -> StarterT]
      /\ flagOf \in [Task -> Flag \cup {None}] /\ \A a \in Actor : Placed(act[a])
  BY DEF Typed
<1>b. reloads = 0
  <2>1. CASE \E r \in Reloader : ApplyCfg(r)
    BY <2>1, LimitsAreNat DEF ApplyCfg, Typed
  <2>2. CASE ~\E r \in Reloader : ApplyCfg(r)
    <3>1. reloads' = reloads
      BY <2>2 DEF Next, LoopStep, SyncStep, StartStep, ReloadStep, UserStep,
         Exited, vars, process, Fire, Quit, TriggerSync, Lookup, Acquire, Busy,
         Succeed, Fail, StartTask, Started, SwapMaps, CancelLoops, AwaitLoops,
         Stop, Exit
    <3> QED BY <3>1
  <2> QED BY <2>1, <2>2
<1>c. Main \in Starter /\ Reloader \subseteq Starter /\ Main \notin Reloader
  BY ActorsDiffer DEF Starter
<1>d. /\ \A r \in Reloader : starter[r].pc = "idle"
      /\ starter[Main].pc = "idle" => starter[Main].todo = {}
      /\ \A t \in starter[Main].todo, a \in Actor : act[a].pc # "off" => act[a].task # t
      /\ \A a \in Actor : act[a].pc \in {"cas", "run"} => act[a].flag = flagOf[act[a].task]
  BY <1>b DEF FirstEpoch
<1>1. ASSUME NEW l \in Loop, Fire(l) \/ Quit(l) PROVE FirstEpoch'
  BY <1>1, <1>a, <1>d DEF Fire, Quit, process, ActT, Off, Actor, FirstEpoch
<1>2. ASSUME NEW g \in Trigger, NEW t \in Task, TriggerSync(g, t) PROVE FirstEpoch'
  BY <1>2, <1>a, <1>d DEF TriggerSync, Booted, process, ActT, Off, Actor, FirstEpoch
<1>3. ASSUME NEW a \in Actor, Lookup(a) PROVE FirstEpoch'
  <2> DEFINE t == act[a].task
             f == IF flagOf[t] = None THEN Fresh ELSE flagOf[t]
  <2>1. t \in Task
    BY <1>3, <1>a DEF Lookup, Placed
  <2>2. /\ flagOf'[t] = f /\ \A x \in Task : x # t => flagOf'[x] = flagOf[x]
        /\ act'[a].flag = f /\ act'[a].task = t /\ act'[a].pc = "cas"
        /\ \A b \in Actor : b # a => act'[b] = act[b]
        /\ act[a].pc = "lookup" /\ UNCHANGED starter
    BY <1>3, <1>a, <2>1 DEF Lookup, ActT, process
  <2>3. ASSUME NEW b \in Actor, act'[b].pc \in {"cas", "run"}
        PROVE  act'[b].flag = flagOf'[act'[b].task]
    <3>1. CASE b = a
      BY <2>2, <3>1
    <3>2. CASE b # a
      <4>1. act[b].flag = flagOf[act[b].task] /\ act[b].flag # None /\ act[b].task \in Task
        BY <1>a, <1>d, <2>2, <2>3, <3>2, NoneIsNothing DEF Placed
      <4> QED BY <2>2, <3>2, <4>1
    <3> QED BY <3>1, <3>2
  <2> QED BY <1>d, <2>2, <2>3 DEF FirstEpoch
<1>4. ASSUME NEW a \in Actor, Acquire(a) \/ Busy(a) PROVE FirstEpoch'
  BY <1>4, <1>a, <1>d DEF Acquire, Busy, process, ActT, Off, FirstEpoch
<1>5. ASSUME NEW a \in Actor, Succeed(a) \/ Fail(a) PROVE FirstEpoch'
  <2>1. /\ act'[a].pc \in {"off", "armed"} /\ (act'[a].pc = "armed" => act'[a].task = act[a].task)
        /\ \A b \in Actor : b # a => act'[b] = act[b]
        /\ act[a].pc = "run" /\ UNCHANGED <<starter, flagOf>>
    BY <1>5, <1>a, ReturnMoves DEF Succeed, Fail, process
  <2> QED BY <1>d, <2>1 DEF FirstEpoch
<1>6. ASSUME NEW s \in Starter, NEW t \in Task, StartTask(s, t) PROVE FirstEpoch'
  <2>1. s = Main /\ t \in starter[Main].todo
    BY <1>6, <1>d DEF StartTask, Starter
  <2>2. PICK l \in Loop :
          /\ ~Live(l)
          /\ act' = [act EXCEPT ![l] =
                       [Off EXCEPT !.pc = "armed", !.task = t, !.from = cfg]]
    BY <1>6 DEF StartTask
  <2>3. /\ act'[l].pc = "armed" /\ act'[l].task = t
        /\ \A b \in Actor : b # l => act'[b] = act[b]
    BY <1>a, <2>2 DEF Off, Actor
  <2>4. /\ starter'[Main].pc = starter[Main].pc
        /\ starter'[Main].todo = starter[Main].todo \ {t}
        /\ \A r \in Reloader : starter'[r] = starter[r]
    BY <1>6, <1>a, <1>c, <2>1 DEF StartTask, StarterT
  <2>5. \A x \in Task : x # t => flagOf'[x] = flagOf[x]
    BY <1>6, <1>a DEF StartTask
  <2>6. ASSUME NEW b \in Actor, act'[b].pc \in {"cas", "run"}
        PROVE  act'[b].flag = flagOf'[act'[b].task]
    <3>1. act'[b] = act[b] /\ act[b].task # t /\ act[b].task \in Task
      BY <1>a, <1>d, <2>1, <2>3, <2>6 DEF Placed
    <3> QED BY <1>d, <2>5, <2>6, <3>1
  <2> QED BY <1>d, <2>1, <2>3, <2>4, <2>6 DEF FirstEpoch
<1>7. ASSUME NEW s \in Starter, Started(s) PROVE FirstEpoch'
  <2>1. /\ UNCHANGED <<act, flagOf>> /\ starter[s].todo = {}
        /\ \A x \in Starter : starter'[x].todo = starter[x].todo
        /\ \A x \in Starter : starter'[x].pc \in {starter[x].pc, "idle"}
        /\ \A x \in Starter : x # s => starter'[x] = starter[x]
    BY <1>7, <1>a DEF Started, StarterT
  <2> QED BY <1>c, <1>d, <2>1 DEF FirstEpoch
<1>8. ASSUME NEW r \in Reloader, SwapMaps(r) \/ CancelLoops(r) \/ AwaitLoops(r)
      PROVE  FALSE
  BY <1>8, <1>d DEF SwapMaps, CancelLoops, AwaitLoops
<1>9. ASSUME NEW r \in Reloader, ApplyCfg(r) PROVE FALSE
  BY <1>9, <1>b, LimitsAreNat DEF ApplyCfg
<1>10. CASE UNCHANGED <<act, flagOf, starter>>
  BY <1>10, <1>d DEF FirstEpoch
<1> QED
  BY <1>1, <1>2, <1>3, <1>4, <1>5, <1>6, <1>7, <1>8, <1>9, <1>10
  DEF Next, LoopStep, SyncStep, StartStep, ReloadStep, UserStep, Exited, vars,
      process, Stop, Exit

(***************************************************************************)
(* Until the first reload no two syncs of a task overlap, timers and any   *)
(* number of triggers together: ExclusiveUntilReload of the safety run.    *)
(***************************************************************************)
THEOREM ExclusiveBeforeReload == Spec => []ExclusiveUntilReload
<1>1. TypeOK /\ FirstEpoch /\ [Next]_vars => FirstEpoch'
  BY EpochStep, TypedIsTypeOK
<1>2. FirstEpoch /\ FlagOwner => ExclusiveUntilReload
  BY DEF FirstEpoch, FlagOwner, ExclusiveUntilReload, MutualExclusion, Syncing
<1> QED BY <1>1, <1>2, EpochInit, RunnerTypeCorrect, FlagsOwned, PTL DEF Spec

-----------------------------------------------------------------------------
(* Reloads that do not overlap.                                            *)

At(s, pcs) == starter[s].pc \in pcs

(***************************************************************************)
(* No two callers of startAll and Reload are at work together.  The code   *)
(* does not ensure it (see DaemonFollowsFile in ConfigCli): SIGHUP and two *)
(* connections may each reload.  The theorems below hold of every run in   *)
(* which it is so, however many reloaders there are.                       *)
(***************************************************************************)
OneAtATime ==
  \A s1, s2 \in Starter :
    starter[s1].pc # "idle" /\ starter[s2].pc # "idle" => s1 = s2

(***************************************************************************)
(* LoopInv: one starter is at work; no two live loops share a task, and    *)
(* none has one that is still to be started; until their contexts are      *)
(* cancelled all live loops are registered and follow Runner.cfg, then the *)
(* reload holds their cancel functions, and then waits for nothing else.   *)
(***************************************************************************)
LoopInv ==
  /\ OneAtATime
  /\ \A l1, l2 \in Loop :
       Live(l1) /\ Live(l2) /\ act[l1].task = act[l2].task => l1 = l2
  /\ \A s \in Starter :
       /\ At(s, {"start"}) =>
            /\ served = cfg
            /\ starter[s].todo \subseteq Enabled(cfg)
            /\ \A l \in Loop : Live(l) => act[l].task \notin starter[s].todo
       /\ At(s, {"swap", "cancel", "wait"}) => starter[s].cfg = served
       /\ At(s, {"cancel"}) => \A l \in Loop : Live(l) => l \in starter[s].cancels
       /\ At(s, {"wait"}) => \A l \in Loop : Live(l) => act[l].stopped
  /\ ~Reloading => served = cfg
  /\ (\A s \in Starter : ~At(s, {"cancel", "wait"})) =>
       \A l \in Loop : Live(l) =>
         /\ cancelOf[act[l].task] = l
         /\ act[l].from = cfg /\ act[l].task \in Enabled(cfg)

LEMMA LoopInit == Init => LoopInv
<1> SUFFICES ASSUME Init PROVE LoopInv
  OBVIOUS
<1>1. \A l \in Loop : ~Live(l)
  BY DEF Init, Live, Off, Actor
<1>2. \A s \in Starter : s # Main => starter[s].pc = "idle"
  BY DEF Init, Rest
<1>3. starter[Main].pc = "start" /\ starter[Main].todo = Enabled(cfg)
  BY DEF Init, Rest, Starter
<1>4. served = cfg
  BY DEF Init
<1> QED BY <1>1, <1>2, <1>3, <1>4 DEF LoopInv, OneAtATime, At

(***************************************************************************)
(* Steps of Sync, timers and triggers start, re-task and revive no loop.   *)
(***************************************************************************)
SameLoop(l) ==
  /\ act'[l].task = act[l].task /\ act'[l].from = act[l].from
  /\ act'[l].stopped = act[l].stopped

LEMMA LoopFrame ==
  ASSUME LoopInv, UNCHANGED <<served, cfg, cancelOf, starter>>,
         \A l \in Loop : Live(l)' =>
           Live(l) /\ SameLoop(l)
  PROVE  LoopInv'
BY DEF LoopInv, OneAtATime, At, Reloading, SameLoop

LEMMA LoopStepInv ==
  ASSUME Typed, LoopInv, [Next]_vars, OneAtATime'
  PROVE  LoopInv'
<1>a. act \in [Actor -> ActT] /\ starter \in [Starter -> StarterT] /\ Loop \subseteq Actor
      /\ cancelOf \in [Task -> Loop \cup {None}] /\ \A a \in Actor : Placed(act[a])
  BY DEF Typed, Actor
<1>b. Main \in Starter /\ Reloader \subseteq Starter
  BY DEF Starter
<1>1. ASSUME NEW l \in Loop, Fire(l) \/ Quit(l) PROVE LoopInv'
  <2>1. \A k \in Loop : Live(k)' =>
          Live(k) /\ SameLoop(k)
    BY <1>1, <1>a DEF Fire, Quit, Live, ActT, Off, SameLoop
  <2> QED BY <1>1, <2>1, LoopFrame DEF Fire, Quit, process
<1>2. ASSUME NEW g \in Trigger, NEW t \in Task, TriggerSync(g, t) PROVE LoopInv'
  <2>1. \A k \in Loop : act'[k] = act[k]
    BY <1>2, <1>a, ActorsDiffer DEF TriggerSync
  <2> QED BY <1>2, <2>1, LoopFrame DEF TriggerSync, process, Live, SameLoop
<1>3. ASSUME NEW a \in Actor, Lookup(a) \/ Acquire(a) \/ Busy(a) PROVE LoopInv'
  <2>1. \A k \in Loop : Live(k)' =>
          Live(k) /\ SameLoop(k)
    BY <1>3, <1>a DEF Lookup, Acquire, Busy, Live, ActT, Off, SameLoop
  <2> QED BY <1>3, <2>1, LoopFrame DEF Lookup, Acquire, Busy, process
<1>4. ASSUME NEW a \in Actor, Succeed(a) \/ Fail(a) PROVE LoopInv'
  <2>1. PICK n : Return(a, n)
    BY <1>4 DEF Succeed, Fail
  <2>2. \A k \in Loop : Live(k)' =>
          Live(k) /\ SameLoop(k)
    <3>1. act[a].pc = "run"
      BY <1>4 DEF Succeed, Fail
    <3>2. CASE a \in Loop /\ ~Cancelled(a)
      BY <1>a, <2>1, <3>1, <3>2 DEF Return, ActT, Live, SameLoop
    <3>3. CASE ~(a \in Loop /\ ~Cancelled(a))
      <4>1. act' = [act EXCEPT ![a] = Off]
        BY <2>1, <3>3 DEF Return
      <4> QED BY <1>a, <4>1 DEF Off, Live, SameLoop
    <3> QED BY <3>2, <3>3
  <2> QED BY <1>4, <2>2, LoopFrame DEF Succeed, Fail, process
<1>5. ASSUME NEW s \in Starter, NEW t \in Task, StartTask(s, t) PROVE LoopInv'
  <2>1. /\ starter[s].pc = "start" /\ t \in starter[s].todo
        /\ UNCHANGED <<served, cfg>>
    BY <1>5 DEF StartTask
  <2>2. PICK l \in Loop :
          /\ ~Live(l)
          /\ act' = [act EXCEPT ![l] =
                       [Off EXCEPT !.pc = "armed", !.task = t, !.from = cfg]]
          /\ cancelOf' = [cancelOf EXCEPT ![t] = l]
    BY <1>5 DEF StartTask
  <2>3. /\ act'[l].task = t /\ act'[l].from = cfg
        /\ \A k \in Loop : k # l => act'[k] = act[k]
    BY <1>a, <2>2 DEF Off
  <2>4. /\ starter'[s].pc = "start"
        /\ starter'[s].todo = starter[s].todo \ {t}
        /\ \A x \in Starter : x # s => starter'[x] = starter[x]
    BY <1>5, <1>a, <2>1 DEF StartTask, StarterT
  <2>5. \A x \in Starter : x # s => starter[x].pc = "idle"
    BY <2>1 DEF LoopInv, OneAtATime
  <2>6. \A k \in Loop : k # l /\ Live(k) => act[k].task # t /\ act[k].task \in Task
    BY <1>a, <2>1 DEF LoopInv, At, Live, Placed
  <2>7. cancelOf'[t] = l /\ \A x \in Task : x # t => cancelOf'[x] = cancelOf[x]
    BY <1>a, <2>2
  <2>8. \A k \in Loop : k # l /\ Live(k)' => Live(k)
    BY <2>3 DEF Live
  <2>9. t \in Enabled(cfg)
    BY <2>1 DEF LoopInv, At
  <2>10. \A k \in Loop : Live(k) =>
           cancelOf[act[k].task] = k /\ act[k].from = cfg /\ act[k].task \in Enabled(cfg)
    BY <2>1, <2>5 DEF LoopInv, At
  <2>11. \A l1, l2 \in Loop : Live(l1)' /\ Live(l2)' /\ act'[l1].task = act'[l2].task => l1 = l2
    BY <2>3, <2>6, <2>8 DEF LoopInv
  <2>12. \A k \in Loop : Live(k)' =>
           cancelOf'[act'[k].task] = k /\ act'[k].from = cfg /\ act'[k].task \in Enabled(cfg)
    BY <2>3, <2>6, <2>7, <2>8, <2>9, <2>10
  <2>13. \A k \in Loop : Live(k)' => act'[k].task \notin starter'[s].todo
    BY <2>1, <2>3, <2>4, <2>8 DEF LoopInv, At
  <2>14. served = cfg /\ starter'[s].todo \subseteq Enabled(cfg)
    BY <2>1, <2>4 DEF LoopInv, At
  <2> QED
    BY <2>1, <2>4, <2>5, <2>11, <2>12, <2>13, <2>14 DEF LoopInv, OneAtATime, At, Reloading, Enabled
<1>6. ASSUME NEW s \in Starter, Started(s) PROVE LoopInv'
  <2>1. /\ starter[s].pc = "start" /\ starter'[s].pc = "idle"
        /\ \A x \in Starter : x # s => starter'[x] = starter[x]
        /\ UNCHANGED <<served, cfg, cancelOf, act>>
    BY <1>6, <1>a DEF Started, StarterT
  <2>2. \A x \in Starter : starter'[x].pc = "idle"
    BY <2>1 DEF LoopInv, OneAtATime
  <2> QED BY <2>1, <2>2 DEF LoopInv, OneAtATime, At, Reloading, Live
<1>7. ASSUME NEW r \in Reloader, ApplyCfg(r) PROVE LoopInv'
  <2>1. PICK c \in Configs :
          /\ served' = c
          /\ starter' = [starter EXCEPT ![r] = [Rest(c) EXCEPT !.pc = "swap"]]
    BY <1>7 DEF ApplyCfg
  <2>2. /\ starter'[r].pc = "swap" /\ starter'[r].cfg = served'
        /\ \A x \in Starter : x # r => starter'[x] = starter[x]
        /\ UNCHANGED <<cfg, cancelOf, act>>
    BY <1>7, <1>a, <1>b, <2>1 DEF ApplyCfg, Rest
  <2>3. \A x \in Starter : x # r => starter[x].pc = "idle"
    BY <1>b, <2>2 DEF OneAtATime
  <2>4. \A x \in Starter : starter[x].pc = "idle"
    BY <1>7, <2>3 DEF ApplyCfg
  <2> QED BY <1>b, <2>2, <2>4 DEF LoopInv, OneAtATime, At, Reloading, Live
<1>8. ASSUME NEW r \in Reloader, SwapMaps(r) PROVE LoopInv'
  <2>1. /\ starter[r].pc = "swap" /\ starter'[r].pc = "cancel"
        /\ starter'[r].cfg = starter[r].cfg
        /\ starter'[r].cancels = {cancelOf[t] : t \in Task} \ {None}
        /\ \A x \in Starter : x # r => starter'[x] = starter[x]
        /\ UNCHANGED <<served, cfg, act>>
    BY <1>8, <1>a, <1>b DEF SwapMaps, StarterT
  <2>2. \A x \in Starter : x # r => starter[x].pc = "idle"
    BY <1>b, <2>1 DEF LoopInv, OneAtATime
  <2>3. \A l \in Loop : Live(l) => l \in starter'[r].cancels
    <3>1. \A l \in Loop : Live(l) => cancelOf[act[l].task] = l /\ act[l].task \in Task
      BY <1>a, <1>b, <2>1, <2>2 DEF LoopInv, At, Live, Placed
    <3> QED BY <2>1, <3>1, NoneIsNothing
  <2> QED BY <1>b, <2>1, <2>2, <2>3 DEF LoopInv, OneAtATime, At, Reloading, Live
<1>9. ASSUME NEW r \in Reloader, CancelLoops(r) PROVE LoopInv'
  <2>1. /\ starter[r].pc = "cancel" /\ starter'[r].pc = "wait"
        /\ starter'[r].cfg = starter[r].cfg
        /\ \A x \in Starter : x # r => starter'[x] = starter[x]
        /\ UNCHANGED <<served, cfg, cancelOf>>
    BY <1>9, <1>a, <1>b DEF CancelLoops, StarterT
  <2>2. \A l \in Loop : act'[l].pc = act[l].pc /\ act'[l].task = act[l].task
    BY <1>9, <1>a DEF CancelLoops, ActT
  <2>4. \A l \in Loop : Live(l) => act'[l].stopped
    BY <1>9, <1>a, <1>b, <2>1 DEF CancelLoops, ActT, LoopInv, At
  <2>3. \A x \in Starter : x # r => starter[x].pc = "idle"
    BY <1>b, <2>1 DEF LoopInv, OneAtATime
  <2> QED BY <1>b, <2>1, <2>2, <2>3, <2>4 DEF LoopInv, OneAtATime, At, Reloading, Live
<1>10. ASSUME NEW r \in Reloader, AwaitLoops(r) PROVE LoopInv'
  <2>1. /\ starter[r].pc = "wait" /\ starter'[r].pc = "start"
        /\ cfg' = starter[r].cfg /\ starter'[r].todo = Enabled(cfg')
        /\ \A x \in Starter : x # r => starter'[x] = starter[x]
        /\ \A l \in Loop : ~Live(l)
        /\ UNCHANGED <<served, cancelOf, act>>
    BY <1>10, <1>a, <1>b DEF AwaitLoops, StarterT, WgIsZero
  <2>2. \A x \in Starter : x # r => starter[x].pc = "idle"
    BY <1>b, <2>1 DEF LoopInv, OneAtATime
  <2>3. served' = cfg'
    BY <1>b, <2>1 DEF LoopInv, At
  <2> QED BY <1>b, <2>1, <2>2, <2>3 DEF LoopInv, OneAtATime, At, Reloading, Live
<1>11. CASE UNCHANGED <<served, cfg, cancelOf, starter, act>>
  BY <1>11, LoopFrame DEF Live, SameLoop
<1> QED
  BY <1>1, <1>2, <1>3, <1>4, <1>5, <1>6, <1>7, <1>8, <1>9, <1>10, <1>11
  DEF Next, LoopStep, SyncStep, StartStep, ReloadStep, UserStep, Exited, vars,
      process, Stop, Exit

LEMMA LoopInvariant == Spec /\ []OneAtATime => []LoopInv
<1>1. TypeOK /\ LoopInv /\ [Next]_vars /\ OneAtATime' => LoopInv'
  BY LoopStepInv, TypedIsTypeOK
<1> QED BY <1>1, LoopInit, RunnerTypeCorrect, PTL DEF Spec

(***************************************************************************)
(* As long as reloads do not overlap, two scheduled syncs of a task never  *)
(* do, across any number of reloads: LoopsExclude of the safety run.       *)
(***************************************************************************)
THEOREM ScheduledSyncsExclude == Spec /\ []OneAtATime => []LoopsExclude
<1>1. LoopInv => LoopsExclude
  BY DEF LoopInv, LoopsExclude, Syncing, Live
<1> QED BY <1>1, LoopInvariant, PTL

(***************************************************************************)
(* As long as reloads do not overlap, every loop can be stopped by the     *)
(* next one: NoOrphan of the safety run.                                   *)
(***************************************************************************)
THEOREM NoLoopIsOrphaned == Spec /\ []OneAtATime => []NoOrphan
<1>1. LoopInv => NoOrphan
  BY DEF LoopInv, NoOrphan, At, Reloading
<1> QED BY <1>1, LoopInvariant, PTL

(***************************************************************************)
(* As long as reloads do not overlap, main.go and the Runner agree on the  *)
(* configuration outside a reload, and only its enabled tasks have loops:  *)
(* LoopsFollowConfig of the safety run.                                    *)
(***************************************************************************)
THEOREM ConfigIsFollowed == Spec /\ []OneAtATime => []LoopsFollowConfig
<1>1. LoopInv => LoopsFollowConfig
  BY DEF LoopInv, LoopsFollowConfig, At, Reloading
<1> QED BY <1>1, LoopInvariant, PTL

(***************************************************************************)
(* With a single reloader the three theorems above hold outright: start-up *)
(* is over before anybody reloads.                                         *)
(***************************************************************************)
THEOREM OneReloaderIsEnough ==
  ASSUME \A r1, r2 \in Reloader : r1 = r2
  PROVE  Spec => [](LoopsExclude /\ NoOrphan /\ LoopsFollowConfig)
<1>1. Init => OneAtATime
  BY DEF Init, OneAtATime, Rest
<1>2. TypeOK /\ OneAtATime /\ [Next]_vars => OneAtATime'
  <2> SUFFICES ASSUME Typed, OneAtATime, [Next]_vars PROVE OneAtATime'
    BY TypedIsTypeOK
  <2>a. starter \in [Starter -> StarterT]
    BY DEF Typed
  <2>1. ASSUME NEW r \in Reloader, ApplyCfg(r) PROVE OneAtATime'
    <3>1. /\ \A s \in Starter : s # r => starter'[s] = starter[s]
          /\ starter[Main].pc = "idle"
      BY <2>a, <2>1 DEF ApplyCfg, Booted
    <3>2. \A s \in Starter : s # r => s = Main
      BY DEF Starter
    <3> QED BY <3>1, <3>2 DEF OneAtATime
  <2>2. ASSUME \A s \in Starter : starter'[s].pc # "idle" => starter[s].pc # "idle"
        PROVE  OneAtATime'
    BY <2>2 DEF OneAtATime
  <2>3. CASE UNCHANGED starter
    BY <2>2, <2>3
  <2>4. ASSUME NEW s \in Starter, NEW t \in Task, StartTask(s, t) \/ Started(s)
        PROVE  OneAtATime'
    BY <2>2, <2>4, <2>a DEF StartTask, Started, StarterT
  <2>5. ASSUME NEW r \in Reloader, SwapMaps(r) \/ CancelLoops(r) \/ AwaitLoops(r)
        PROVE  OneAtATime'
    BY <2>2, <2>5, <2>a DEF SwapMaps, CancelLoops, AwaitLoops, StarterT, Starter
  <2>6. ASSUME NEW s \in Starter, Started(s) PROVE OneAtATime'
    BY <2>2, <2>6, <2>a DEF Started, StarterT
  <2> QED
    BY <2>1, <2>3, <2>4, <2>5, <2>6
    DEF Next, LoopStep, SyncStep, StartStep, ReloadStep, UserStep, Exited, vars,
        process, Fire, Quit, TriggerSync, Lookup, Acquire, Busy, Succeed, Fail,
        Stop, Exit
<1> QED
  BY <1>1, <1>2, RunnerTypeCorrect, ScheduledSyncsExclude, NoLoopIsOrphaned,
     ConfigIsFollowed, PTL DEF Spec

-----------------------------------------------------------------------------
(* Waiting for the loops.                                                  *)

(***************************************************************************)
(* How many steps a loop that does not re-arm its timer has left at most:  *)
(* the timer may still fire once (select picks any ready case).            *)
(***************************************************************************)
Left(l) ==
  CASE act[l].pc = "armed"  -> 4
    [] act[l].pc = "lookup" -> 3
    [] act[l].pc = "cas"    -> 2
    [] act[l].pc = "run"    -> 1
    [] act[l].pc = "off"    -> 0

(***************************************************************************)
(* A step lowers what a live, cancelled loop has left or leaves the loop   *)
(* where it is.                                                            *)
(***************************************************************************)
LEMMA CancelledRunsDown ==
  ASSUME Typed, [Next]_vars, NEW l \in Loop, Live(l), Cancelled(l)
  PROVE  act'[l].pc = act[l].pc \/ Left(l)' < Left(l)
<1>a. act \in [Actor -> ActT] /\ l \in Actor /\ l \notin Trigger
  BY ActorsDiffer DEF Typed, Actor
<1>1. CASE act'[l] = act[l]
  BY <1>1
<1>2. CASE Fire(l) \/ Quit(l)
  BY <1>2, <1>a DEF Fire, Quit, Left, Off, ActT
<1>3. CASE Lookup(l) \/ Acquire(l) \/ Busy(l)
  BY <1>3, <1>a DEF Lookup, Acquire, Busy, Left, Off, ActT
<1>4. CASE Succeed(l) \/ Fail(l)
  <2>1. act[l].pc = "run" /\ act' = [act EXCEPT ![l] = Off]
    BY <1>4 DEF Succeed, Fail, Return
  <2> QED BY <1>a, <2>1 DEF Left, Off
<1>5. ASSUME NEW s \in Starter, NEW t \in Task, StartTask(s, t) PROVE act'[l] = act[l]
  BY <1>5, <1>a DEF StartTask, Actor
<1>6. ASSUME NEW r \in Reloader, CancelLoops(r) PROVE act'[l].pc = act[l].pc
  BY <1>6, <1>a DEF CancelLoops, ActT
<1>7. ASSUME NEW k \in Loop, k # l, Fire(k) \/ Quit(k) PROVE act'[l] = act[l]
  BY <1>7, <1>a DEF Fire, Quit
<1>8. ASSUME NEW a \in Actor, a # l,
             Lookup(a) \/ Acquire(a) \/ Busy(a) \/ Succeed(a) \/ Fail(a)
      PROVE  act'[l] = act[l]
  BY <1>8, <1>a DEF Lookup, Acquire, Busy, Succeed, Fail, Return
<1>9. ASSUME NEW g \in Trigger, NEW t \in Task, TriggerSync(g, t) PROVE act'[l] = act[l]
  BY <1>9, <1>a DEF TriggerSync
<1>10. CASE UNCHANGED act
  BY <1>10
<1> QED
  BY <1>1, <1>2, <1>3, <1>4, <1>5, <1>6, <1>7, <1>8, <1>9, <1>10
  DEF Next, LoopStep, SyncStep, StartStep, ReloadStep, UserStep, Exited, vars,
      Started, ApplyCfg, SwapMaps, AwaitLoops, Stop, Exit

ReloadDrains ==
  [][\A r \in Reloader, l \in Loop :
       starter[r].pc = "wait" => act'[l].pc = act[l].pc \/ Left(l)' < Left(l)]_vars

ReloadAwaitsTheCancelled ==
  \A r \in Reloader, l \in Loop : starter[r].pc = "wait" /\ Live(l) => act[l].stopped

(***************************************************************************)
(* While a reload waits (and no other is under way), every live loop has   *)
(* been cancelled by it, none starts, and each step of a loop brings it    *)
(* nearer its end: the variant behind ReloadEnds of the live run.          *)
(***************************************************************************)
THEOREM ReloadWaitsForLess ==
  Spec /\ []OneAtATime => []ReloadAwaitsTheCancelled /\ ReloadDrains
<1> DEFINE Drains == \A r \in Reloader, l \in Loop :
      starter[r].pc = "wait" => act'[l].pc = act[l].pc \/ Left(l)' < Left(l)
<1>1. LoopInv => ReloadAwaitsTheCancelled
  BY DEF LoopInv, ReloadAwaitsTheCancelled, At, Starter
<1>2. TypeOK /\ LoopInv /\ [Next]_vars => [Drains]_vars
  <2> SUFFICES ASSUME Typed, LoopInv, [Next]_vars,
                      NEW r \in Reloader, NEW l \in Loop, starter[r].pc = "wait"
               PROVE  act'[l].pc = act[l].pc \/ Left(l)' < Left(l)
    BY TypedIsTypeOK
  <2>a. act \in [Actor -> ActT] /\ l \in Actor /\ l \notin Trigger /\ r \in Starter
    BY ActorsDiffer DEF Typed, Actor, Starter
  <2>1. CASE Live(l)
    BY <2>1, CancelledRunsDown DEF LoopInv, At, Cancelled, Starter
  <2>2. CASE ~Live(l)
    <3>1. act[l].pc = "off"
      BY <2>2 DEF Live
    <3>2. \A s \in Starter : starter[s].pc # "start"
      BY <2>a DEF LoopInv, OneAtATime
    <3>3. act'[l] = act[l]
      BY <2>a, <3>1, <3>2
      DEF Next, LoopStep, SyncStep, StartStep, ReloadStep, UserStep, Exited, vars,
          process, Fire, Quit, TriggerSync, Lookup, Acquire, Busy, Succeed, Fail,
          Return, Started, StartTask, ApplyCfg, SwapMaps, CancelLoops, AwaitLoops,
          Stop, Exit, Live
    <3> QED BY <3>3
  <2> QED BY <2>1, <2>2
<1> QED BY <1>1, <1>2, LoopInvariant, RunnerTypeCorrect, PTL DEF Spec, ReloadDrains

ShutdownDrains ==
  [][\A l \in Loop :
       main = "stopping" /\ Live(l) => act'[l].pc = act[l].pc \/ Left(l)' < Left(l)]_vars

(***************************************************************************)
(* After SIGTERM no loop that runs re-arms its timer, cancelled one by one *)
(* or not, reloads under way or not: each of its steps brings it nearer    *)
(* its end (Stop; the variant behind StopEnds of the live run).            *)
(***************************************************************************)
THEOREM ShutdownWaitsForLess == Spec => ShutdownDrains
<1> DEFINE Drains == \A l \in Loop :
      main = "stopping" /\ Live(l) => act'[l].pc = act[l].pc \/ Left(l)' < Left(l)
<1>1. TypeOK /\ [Next]_vars => [Drains]_vars
  BY CancelledRunsDown, TypedIsTypeOK DEF Cancelled
<1> QED BY <1>1, RunnerTypeCorrect, PTL DEF Spec, ShutdownDrains
=============================================================================
