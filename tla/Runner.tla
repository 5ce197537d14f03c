------------------------------- MODULE Runner -------------------------------
(***************************************************************************)
(* The scheduler of edge-syncd (internal/runner) and everything that calls *)
(* into it: one loop goroutine per enabled task, the task.trigger handlers *)
(* of the IPC server (internal/ipc), config.reload and SIGHUP, start-up    *)
(* and shutdown (cmd/edge-syncd).                                          *)
(*                                                                         *)
(* They share Runner.running (one flag per task, set while a sync runs),   *)
(* Runner.taskCtxs (one cancel function per task), a wait group and two    *)
(* copies of the configuration.  What a sync does is SyncTask's business;  *)
(* here it starts and, some time later, succeeds or fails.                 *)
(*                                                                         *)
(* Timers are abstract: an armed timer may fire at any time.               *)
(***************************************************************************)
EXTENDS Naturals

CONSTANTS
  Task,
  Loop,          \* slots for the goroutines of Runner.loop
  Trigger,       \* connections that send task.trigger
  Reloader,      \* who runs applyCfg: the SIGHUP goroutine, a connection
  Main,          \* the main goroutine
  Flag,          \* the atomic.Bools; one nobody refers to is fresh
  None,
  Configs,       \* the contents the configuration file may have
  MaxReloads,    \* bound: configuration reloads
  FailureCap     \* bound: the failure counters stop here

Config == [Task -> {"absent", "disabled", "enabled"}]
Actor  == Loop \cup Trigger            \* whoever calls Runner.Sync
Starter == Reloader \cup {Main}        \* whoever calls Runner.startAll

ASSUME ActorsDiffer ==
  Loop \cap Trigger = {} /\ Task \cap Actor = {} /\ Main \notin Reloader
ASSUME ConfigsExist == Configs \subseteq Config /\ Configs # {}
ASSUME NoneIsNothing == None \notin Flag \cup Loop \cup Task \cup Configs
ASSUME LimitsAreNat == MaxReloads \in Nat /\ FailureCap \in Nat
ASSUME FlagsAbound ==          \* however many are referred to, one is fresh
  \A refers \in [Task \cup Actor -> Flag \cup {None}] :
    \E f \in Flag : \A x \in Task \cup Actor : refers[x] # f

VARIABLES
  served,     \* main.go: current, what getCfg returns
  cfg,        \* Runner.cfg
  flagOf,     \* Runner.running
  held,       \* the flags that are true
  cancelOf,   \* Runner.taskCtxs: the loop each cancel function belongs to
  act,        \* the callers of Sync, see Off
  recorded,   \* TaskState.consecutiveFailures
  starter,    \* where each caller of startAll is
  main,       \* "serving", "stopping" (rootCtx cancelled) or "exited"
  reloads

process == <<served, cfg, cancelOf, starter, main, reloads>>
vars    == <<process, flagOf, held, act, recorded>>

Enabled(c) == {t \in Task : c[t] = "enabled"}
Known(c)   == {t \in Task : c[t] # "absent"}

Cancelled_OwnOnly(l) == act[l].stopped    \* broken: not derived from rootCtx

Cancelled(l) == act[l].stopped \/ main = "stopping"

Live(l) == act[l].pc # "off"

WgIsZero == \A l \in Loop : ~Live(l)           \* wg.Wait returns

Booted == starter[Main].pc = "idle"

Unused == Flag \ ({flagOf[t] : t \in Task} \cup {act[a].flag : a \in Actor})
Fresh  == CHOOSE f \in Unused : TRUE

(***************************************************************************)
(* A caller of Sync: where it is, for which task, with which flag.  A loop *)
(* also has the configuration it was started from, the failures that set   *)
(* its backoff, and whether its own context was cancelled.                 *)
(***************************************************************************)
Off == [pc |-> "off", task |-> None, flag |-> None,
        from |-> None, failures |-> 0, stopped |-> FALSE]

(***************************************************************************)
(* A caller of startAll or Reload between two calls.                       *)
(***************************************************************************)
Rest(c) == [pc |-> "idle", cfg |-> c, todo |-> {}, cancels |-> {}]

Init ==
  /\ cfg \in Configs
  /\ served = cfg
  /\ flagOf = [t \in Task |-> None] /\ held = {}
  /\ cancelOf = [t \in Task |-> None]
  /\ act = [a \in Actor |-> Off]
  /\ recorded = [t \in Task |-> 0]
  /\ starter = [s \in Starter |->
       IF s = Main THEN [Rest(cfg) EXCEPT !.pc = "start", !.todo = Enabled(cfg)]
                   ELSE Rest(cfg)]
  /\ main = "serving"
  /\ reloads = 0
-----------------------------------------------------------------------------
(* startAll, by main at start-up and by Reload.                            *)

StartTask_NoCancel(s, t) ==    \* broken: its cancel function is not kept
  /\ starter[s].pc = "start" /\ t \in starter[s].todo
  /\ \E l \in Loop :
       /\ ~Live(l)
       /\ act' = [act EXCEPT ![l] =
                    [Off EXCEPT !.pc = "armed", !.task = t, !.from = cfg]]
  /\ flagOf' = [flagOf EXCEPT ![t] = Fresh]
  /\ starter' = [starter EXCEPT ![s].todo = @ \ {t}]
  /\ UNCHANGED <<served, cfg, held, cancelOf, recorded, main, reloads>>

StartTask(s, t) ==
  /\ starter[s].pc = "start" /\ t \in starter[s].todo
  /\ \E l \in Loop :
       /\ ~Live(l)
       /\ act' = [act EXCEPT ![l] =
                    [Off EXCEPT !.pc = "armed", !.task = t, !.from = cfg]]
       /\ cancelOf' = [cancelOf EXCEPT ![t] = l]
  /\ flagOf' = [flagOf EXCEPT ![t] = Fresh]
  /\ starter' = [starter EXCEPT ![s].todo = @ \ {t}]
  /\ UNCHANGED <<served, cfg, held, recorded, main, reloads>>

Started(s) ==
  /\ starter[s].pc = "start" /\ starter[s].todo = {}
  /\ starter' = [starter EXCEPT ![s].pc = "idle"]
  /\ UNCHANGED <<served, cfg, flagOf, held, cancelOf, act, recorded, main, reloads>>
-----------------------------------------------------------------------------
(* Runner.loop.                                                            *)

Fire(l) ==
  /\ act[l].pc = "armed"
  /\ act' = [act EXCEPT ![l].pc = "lookup"]
  /\ UNCHANGED <<process, flagOf, held, recorded>>

Quit(l) ==
  /\ act[l].pc = "armed" /\ Cancelled(l)
  /\ act' = [act EXCEPT ![l] = Off]
  /\ UNCHANGED <<process, flagOf, held, recorded>>
-----------------------------------------------------------------------------
(* ipc taskTrigger: the task as the served configuration has it now, and a *)
(* context nobody cancels.                                                 *)

TriggerSync(g, t) ==
  /\ Booted
  /\ act[g].pc = "off" /\ t \in Known(served)
  /\ act' = [act EXCEPT ![g] = [Off EXCEPT !.pc = "lookup", !.task = t]]
  /\ UNCHANGED <<process, flagOf, held, recorded>>
-----------------------------------------------------------------------------
(* Runner.Sync.                                                            *)

Lookup_NoCreate(a) ==          \* broken: only startTask creates flags
  /\ act[a].pc = "lookup"
  /\ act' = [act EXCEPT ![a].pc = "cas", ![a].flag = flagOf[act[a].task]]
  /\ UNCHANGED <<process, flagOf, held, recorded>>

(***************************************************************************)
(* Under Runner.mu: the task's flag, created if the map has none.          *)
(***************************************************************************)
Lookup(a) ==
  /\ act[a].pc = "lookup"
  /\ LET t == act[a].task
         f == IF flagOf[t] = None THEN Fresh ELSE flagOf[t]
     IN /\ flagOf' = [flagOf EXCEPT ![t] = f]
        /\ act' = [act EXCEPT ![a].pc = "cas", ![a].flag = f]
  /\ UNCHANGED <<process, held, recorded>>

Acquire_NoCheck(a) ==          \* broken: sets the flag without testing it
  /\ act[a].pc = "cas"
  /\ held' = held \cup {act[a].flag}
  /\ act' = [act EXCEPT ![a].pc = "run"]
  /\ UNCHANGED <<process, flagOf, recorded>>

Acquire(a) ==
  /\ act[a].pc = "cas" /\ act[a].flag \notin held
  /\ held' = held \cup {act[a].flag}
  /\ act' = [act EXCEPT ![a].pc = "run"]
  /\ UNCHANGED <<process, flagOf, recorded>>

(***************************************************************************)
(* ErrInProgress: the trigger answers with it, and the loop returns.       *)
(***************************************************************************)
Busy(a) ==
  /\ act[a].pc = "cas" /\ act[a].flag \in held
  /\ act' = [act EXCEPT ![a] = Off]
  /\ UNCHANGED <<process, flagOf, held, recorded>>

More(n) == IF n < FailureCap THEN n + 1 ELSE n

(***************************************************************************)
(* Where a caller goes from Sync.  A loop re-arms its timer; when its      *)
(* context was cancelled meanwhile it returns, at once after a failure and *)
(* from the next select, long before the timer, after a success.           *)
(***************************************************************************)
Return(a, n) ==
  act' = [act EXCEPT ![a] =
            IF a \in Loop /\ ~Cancelled(a)
              THEN [@ EXCEPT !.pc = "armed", !.flag = None, !.failures = n]
              ELSE Off]

Succeed(a) ==
  /\ act[a].pc = "run"
  /\ held' = held \ {act[a].flag}
  /\ recorded' = [recorded EXCEPT ![act[a].task] = 0]
  /\ Return(a, 0)
  /\ UNCHANGED <<process, flagOf>>

Fail_KeepsFlag(a) ==           \* broken: only success clears the flag
  /\ act[a].pc = "run"
  /\ recorded' = [recorded EXCEPT ![act[a].task] = More(@)]
  /\ Return(a, More(act[a].failures))
  /\ UNCHANGED <<process, flagOf, held>>

(***************************************************************************)
(* The failure is counted in the state file; that this Save may fail too   *)
(* is left to SyncTask.                                                    *)
(***************************************************************************)
Fail(a) ==
  /\ act[a].pc = "run"
  /\ held' = held \ {act[a].flag}
  /\ recorded' = [recorded EXCEPT ![act[a].task] = More(@)]
  /\ Return(a, More(act[a].failures))
  /\ UNCHANGED <<process, flagOf>>
-----------------------------------------------------------------------------
(* applyCfg and Runner.Reload.                                             *)

(***************************************************************************)
(* config.Load succeeded and setCfg is done.                               *)
(***************************************************************************)
ApplyCfg(r) ==
  /\ Booted
  /\ starter[r].pc = "idle"
  /\ reloads < MaxReloads
  /\ reloads' = reloads + 1
  /\ \E c \in Configs :
       /\ served' = c
       /\ starter' = [starter EXCEPT ![r] = [Rest(c) EXCEPT !.pc = "swap"]]
  /\ UNCHANGED <<cfg, flagOf, held, cancelOf, act, recorded, main>>

SwapMaps_LosesCancels(r) ==    \* broken: empties the map before reading it
  /\ starter[r].pc = "swap"
  /\ starter' = [starter EXCEPT ![r].pc = "cancel"]
  /\ cancelOf' = [t \in Task |-> None]
  /\ flagOf' = [t \in Task |-> None]
  /\ UNCHANGED <<served, cfg, held, act, recorded, main, reloads>>

(***************************************************************************)
(* stopTasks, under Runner.mu: take the cancel functions, empty both maps. *)
(***************************************************************************)
SwapMaps(r) ==
  /\ starter[r].pc = "swap"
  /\ starter' = [starter EXCEPT ![r].pc = "cancel",
                                ![r].cancels = {cancelOf[t] : t \in Task} \ {None}]
  /\ cancelOf' = [t \in Task |-> None]
  /\ flagOf' = [t \in Task |-> None]
  /\ UNCHANGED <<served, cfg, held, act, recorded, main, reloads>>

CancelLoops(r) ==
  /\ starter[r].pc = "cancel"
  /\ act' = [a \in Actor |->
       IF a \in starter[r].cancels /\ Live(a) THEN [act[a] EXCEPT !.stopped = TRUE]
                                              ELSE act[a]]
  /\ starter' = [starter EXCEPT ![r].pc = "wait", ![r].cancels = {}]
  /\ UNCHANGED <<served, cfg, flagOf, held, cancelOf, recorded, main, reloads>>

AwaitLoops_NoWait(r) ==        \* broken: starts beside the old loops
  /\ starter[r].pc = "wait"
  /\ cfg' = starter[r].cfg
  /\ starter' = [starter EXCEPT ![r].pc = "start", ![r].todo = Enabled(cfg')]
  /\ UNCHANGED <<served, flagOf, held, cancelOf, act, recorded, main, reloads>>

AwaitLoops_OldConfig(r) ==     \* broken: startAll before r.cfg = cfg
  /\ starter[r].pc = "wait"
  /\ WgIsZero
  /\ cfg' = starter[r].cfg
  /\ starter' = [starter EXCEPT ![r].pc = "start", ![r].todo = Enabled(cfg)]
  /\ UNCHANGED <<served, flagOf, held, cancelOf, act, recorded, main, reloads>>

(***************************************************************************)
(* wg.Wait returned: take the new configuration over and start from it.    *)
(***************************************************************************)
AwaitLoops(r) ==
  /\ starter[r].pc = "wait"
  /\ WgIsZero
  /\ cfg' = starter[r].cfg
  /\ starter' = [starter EXCEPT ![r].pc = "start", ![r].todo = Enabled(cfg')]
  /\ UNCHANGED <<served, flagOf, held, cancelOf, act, recorded, main, reloads>>
-----------------------------------------------------------------------------
(* SIGTERM: the socket is closed to new connections, Stop cancels rootCtx, *)
(* waits for the loops, and the process ends with all its goroutines.      *)

Stop ==
  /\ main = "serving" /\ Booted
  /\ main' = "stopping"
  /\ UNCHANGED <<served, cfg, flagOf, held, cancelOf, act, recorded, starter, reloads>>

Exit ==
  /\ main = "stopping" /\ WgIsZero
  /\ main' = "exited"
  /\ UNCHANGED <<served, cfg, flagOf, held, cancelOf, act, recorded, starter, reloads>>

Exited == main = "exited" /\ UNCHANGED vars
-----------------------------------------------------------------------------
Running == main # "exited"

LoopStep(l)   == Running /\ (Fire(l) \/ Quit(l))
SyncStep(a)   == Running /\ (Lookup(a) \/ Acquire(a) \/ Busy(a) \/ Succeed(a) \/ Fail(a))
StartStep(s)  == Running /\ (Started(s) \/ \E t \in Task : StartTask(s, t))
ReloadStep(r) == Running /\ (SwapMaps(r) \/ CancelLoops(r) \/ AwaitLoops(r))
UserStep      == Running /\ (\/ \E g \in Trigger, t \in Task : TriggerSync(g, t)
                            \/ \E r \in Reloader : ApplyCfg(r)
                            \/ Stop)

Next ==
  \/ \E l \in Loop : LoopStep(l)
  \/ \E a \in Actor : SyncStep(a)
  \/ \E s \in Starter : StartStep(s)
  \/ \E r \in Reloader : ReloadStep(r)
  \/ UserStep \/ Exit \/ Exited

Spec == Init /\ [][Next]_vars

(***************************************************************************)
(* Timers fire, goroutines run, and every sync ends (its steps are bounded *)
(* by timeouts).  Users owe no trigger, no reload and no signal.           *)
(***************************************************************************)
FairSpec ==
  /\ Spec
  /\ \A l \in Loop : WF_vars(LoopStep(l))
  /\ \A a \in Actor : WF_vars(SyncStep(a))
  /\ \A s \in Starter : WF_vars(StartStep(s))
  /\ \A r \in Reloader : WF_vars(ReloadStep(r))
  /\ WF_vars(Exit)
-----------------------------------------------------------------------------
(* Properties.                                                             *)

(* The type of every variable.                                             *)
TypeOK ==
  /\ served \in Configs /\ cfg \in Configs
  /\ flagOf \in [Task -> Flag \cup {None}]
  /\ held \subseteq Flag
  /\ cancelOf \in [Task -> Loop \cup {None}]
  /\ act \in [Actor -> [pc : {"off", "armed", "lookup", "cas", "run"},
                        task : Task \cup {None}, flag : Flag \cup {None},
                        from : Configs \cup {None}, failures : 0..FailureCap,
                        stopped : BOOLEAN]]
  /\ \A a \in Actor :
       /\ act[a].pc # "off" => act[a].task \in Task
       /\ act[a].pc \in {"cas", "run"} => act[a].flag \in Flag
  /\ recorded \in [Task -> 0..FailureCap]
  /\ starter \in [Starter -> [pc : {"idle", "swap", "cancel", "wait", "start"},
                              cfg : Configs, todo : SUBSET Task,
                              cancels : SUBSET Loop]]
  /\ main \in {"serving", "stopping", "exited"}
  /\ reloads \in 0..MaxReloads

Syncing(a, t) == act[a].pc = "run" /\ act[a].task = t

Reloading == \E s \in Starter : starter[s].pc # "idle"

(***************************************************************************)
(* FlagOwner: a flag is true exactly while one sync that set it runs, the  *)
(* flags of replaced maps included; none stays set for good, none is       *)
(* cleared by another's end.                                               *)
(***************************************************************************)
FlagOwner ==
  /\ \A f \in held : \E a \in Actor : act[a].pc = "run" /\ act[a].flag = f
  /\ \A a \in Actor : act[a].pc = "run" => act[a].flag \in held
  /\ \A a1, a2 \in Actor :
       act[a1].pc = "run" /\ act[a2].pc = "run" /\ act[a1].flag = act[a2].flag
         => a1 = a2

(***************************************************************************)
(* MutualExclusion: at most one sync per task at any time; Sync's comment  *)
(* and DESIGN 4.6 promise a caller the answer "in progress" otherwise.     *)
(***************************************************************************)
MutualExclusion ==
  \A t \in Task, a1, a2 \in Actor :
    Syncing(a1, t) /\ Syncing(a2, t) => a1 = a2

(***************************************************************************)
(* ExclusiveUntilReload: as long as nobody reloads, timers and triggers    *)
(* never overlap on a task.                                                *)
(***************************************************************************)
ExclusiveUntilReload == reloads = 0 => MutualExclusion

(***************************************************************************)
(* LoopsExclude: two scheduled syncs of a task never overlap, reloads      *)
(* included: Reload waits for the old loops before it starts the new ones. *)
(***************************************************************************)
LoopsExclude ==
  \A t \in Task, l1, l2 \in Loop :
    Syncing(l1, t) /\ Syncing(l2, t) => l1 = l2

(***************************************************************************)
(* NoOrphan: outside a reload every live loop is the one whose cancel      *)
(* function the Runner holds for its task, so that the next reload can     *)
(* stop it.                                                                *)
(***************************************************************************)
NoOrphan ==
  ~Reloading => \A l \in Loop : Live(l) => cancelOf[act[l].task] = l

(***************************************************************************)
(* LoopsFollowConfig: outside a reload both copies of the configuration    *)
(* agree, and every live loop runs a task it enables, from that very copy. *)
(***************************************************************************)
LoopsFollowConfig ==
  ~Reloading =>
    /\ served = cfg
    /\ \A l \in Loop : Live(l) => act[l].from = cfg /\ act[l].task \in Enabled(cfg)

(***************************************************************************)
(* ReloadEnds: a reload waits for syncs it cancelled but never for ever.   *)
(***************************************************************************)
ReloadEnds ==
  \A r \in Reloader :
    starter[r].pc # "idle" ~> (starter[r].pc = "idle" \/ main = "exited")

(* StopEnds: shutdown ends, a reload and manual syncs in flight or not.    *)
StopEnds == main = "stopping" ~> main = "exited"

(***************************************************************************)
(* LoopAlive: outside a reload every enabled task has its loop; DESIGN 4.6 *)
(* gives each task its own goroutine and ticker.                           *)
(***************************************************************************)
LoopAlive ==
  main = "serving" /\ ~Reloading =>
    \A t \in Enabled(cfg) : \E l \in Loop : Live(l) /\ act[l].task = t

(***************************************************************************)
(* BackoffReset: a waiting loop backs off only while the last outcome on   *)
(* record is a failure; DESIGN 4.6 has a manual trigger reset the backoff. *)
(***************************************************************************)
BackoffReset ==
  \A l \in Loop : act[l].pc = "armed" /\ recorded[act[l].task] = 0 =>
                act[l].failures = 0
=============================================================================
