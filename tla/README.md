# edge-sync in TLA+

edge-sync mirrors remote file sets onto a small machine. A daemon, `edge-syncd`, runs one
task per source: a plugin takes a snapshot of the source, the daemon fetches what changed,
assembles a new version directory out of hard links, and renames the `current` symlink to
it. A command-line tool (`edge-sync`) and a web panel (`edge-panel`) talk to the daemon
over a Unix socket and also read and write its files directly.

The modules here are translated from the Go source. Line numbers are in `PROJECT.json`
(`map`); `DESIGN` is `docs/DESIGN.md`.

## 1. The system

| component | state it keeps | operations | interacts with |
|---|---|---|---|
| pipeline (`internal/runner`: `Sync`, `runSync`) | in memory: loaded state, snapshot, change set | one sync: clear staging, snapshot, short cut, diff, fetch, apply, clean up, save | plugin client, applier, differ, retention, state store |
| applier (`internal/engine/applier.go`) | `versions/<ts>/`, `current`, `staging/` | `Apply`: create, link, switch, clear, metadata; deferred roll-back | file system |
| differ (`internal/engine/differ.go`) | none | `Diff` of two manifests | pipeline |
| retention (`internal/engine/retention.go`) | none; deletes versions | `ListVersions`, `Cleanup` | applier's directories |
| state store (`internal/state`, `internal/fsutil`) | `state/<task>.json` | `Load`, `Save` (temporary file, fsync, rename) | pipeline, IPC |
| scheduler (`internal/runner`: loops, `Reload`, `Stop`) | running flags, cancel functions, wait group, configuration | `Start`, `loop`, `Sync`, `Reload`, `Stop` | daemon, IPC |
| daemon (`cmd/edge-syncd`) | served configuration | boot, SIGHUP, shutdown | scheduler, IPC |
| IPC server (`internal/ipc`) | one goroutine per connection | `task.*`, `history.*`, `config.reload`, `log.tail`, `plugin.list` | everything in the daemon |
| plugin client (`internal/plugin`) | child process, request ids | `Start`, `Snapshot`, `FetchFile`, `Close` | plugin processes |
| plugins (`plugins/*`, `pkg/pluginkit`) | plugin-git: a clone in a cache | `snapshot`, `fetchFile` | the remote source |
| configuration (`internal/config`) | none | `Load`, validation | daemon, CLI |
| log ring (`internal/logring`) | bounded ring | `Add`, `Tail` | IPC |
| CLI (`cmd/edge-sync`) | none; edits the YAML file, deletes data | `add`, `edit`, `remove --purge`, `export`, … | IPC, files |
| panel (`cmd/edge-panel`) | download limiter | downloads, archives, settings, cache clear | IPC, files |
| web application, TypeScript types, scripts, archived WebDAV plugin | — | — | — |

What is hard here:

* **Several files that must agree.** The mirror is a symlink, a directory per version and
  a state file. Each changes atomically; a sync changes them one after another, and each
  step can fail or be the last one before the process dies.
* **Trust in the past.** `Diff` decides from the state file which files are unchanged,
  `Apply` takes those from whatever `current` names, the short cut skips a sync because of
  a stored fingerprint. If state and mirror ever disagree the error is silent and spreads
  from version to version.
* **Goroutines that share maps.** Timers, manual triggers on any number of connections, a
  reload from SIGHUP or from a connection, and shutdown all use the same flags, cancel
  functions and wait group.
* **Readers beside writers.** Exports, archives and history queries walk directories which
  a sync fills and retention deletes, and follow a link that moves.
* **Files edited by hand and by program.** Commands rewrite the whole configuration from
  what they read before their user answered; nothing excludes another command, or a reload
  while the file is empty.
* **Programs outside.** A git that was started goes on after its plugin is killed; the
  panel deletes a cache without asking who works in it.

What makes each component correct:

* pipeline, applier, state: `current` always names a whole version; mirror and state
  agree; a sync that says "no change" is right; once source and failures rest the mirror
  equals the source;
* retention: never deletes `current`, keeps the newest `keepLast`, and no more;
* scheduler: one sync per task at a time, every enabled task has exactly one loop, a
  reload takes the new configuration over, reload and shutdown end;
* plugin client: an answer belongs to its request, nothing of a session outlives it;
* plugins: a manifest and the files fetched for it describe one commit of the source,
  whatever state the cache was left in;
* readers: what is handed out as complete is one version, whole, or an error; the limiter
  counts what it limits, and every request is answered;
* log ring: `Tail` is the end of the log, before and after the ring wraps;
* CLI and configuration: a command changes its own task only, the daemon runs the file and
  nothing `validate` rejects, and a task that is purged and added again publishes whole
  mirrors.

The full list of hazards, with lines and the properties that cover them, is `hazards` in
`PROJECT.json`.

## 2. Modules

| module | models | kind |
|---|---|---|
| `Differ` | `Diff`, the change set, which files are fetched | operators |
| `Retention` | which versions `Cleanup` deletes | operators |
| `SyncTask` | one task's pipeline on its data directory; EXTENDS the two above | state machine |
| `AtomicMirror` | what a task promises its readers | abstract specification |
| `SyncTaskProofs` | theorems about `SyncTask` | proofs |
| `Runner` | scheduler, daemon, `task.trigger`, `config.reload` | state machine |
| `RunnerProofs` | theorems about `Runner` | proofs |
| `PluginSession` | one session with a plugin process: `internal/plugin` and the loop of `pkg/pluginkit` | state machine |
| `PluginSessionProofs` | theorems about `PluginSession` | proofs |
| `GitPlugin` | plugin-git command by command, its cache repository, the kernel's short cut and fetches, the panel's cache clear | state machine |
| `GitPluginProofs` | theorems about `GitPlugin` | proofs |
| `ConfigCli` | `add`, `edit`, `remove [--purge]`, `reload`; `config.Load`, `config.reload`, SIGHUP, start and stop of the daemon; what a purge leaves to the syncs | state machine |
| `ConfigCliProofs` | theorems about `ConfigCli` | proofs |
| `Readers` | the panel's downloads, archives and limiter, `export`, `restore-file`, `history.list`, `history.files`, beside the versions' life | state machine |
| `ReadersProofs` | theorems about `Readers` | proofs |
| `LogRing` | `Add` and `Tail` of the log ring | state machine |
| `LogRingProofs` | theorems about `LogRing` | proofs |
| `MCSyncTask`, `MCRunner`, `MCGitPlugin`, `MCConfigCli` | values of the constants for TLC | model checking |
| `MCReaders` | `Readers` and `LogRing` for TLC in one run: they share nothing, so a behaviour is one of either | model checking |

### SyncTask

The variables are of four kinds. *Source*: `mode` (which kind of plugin) and `src`. *On
disk*, surviving a crash: `versions`, `files` (what is in each), `goal` (the manifest each
was made from), `meta` (whose metadata file is written), `current`, `staged`, `state`,
`cache` (the commit plugin-git has checked out). *In memory*: `pc`, `st` (the loaded
state), `want` (the commit ls-remote gave), `snap`, `new`, `prev`, `doomed`. *History*:
`torn`, true once a sync was cut short between the switch of `current` and the save of the
state; it appears in properties, never in a guard.

One action per file-system step, in the order of the code:

| `pc` | action | code |
|---|---|---|
| `idle` | `StartSync` | clear staging, load state, start the plugin |
| `snapshot` | `Scan`, or `LsRemote` | the plugin's snapshot, fingerprint short cut, diff: plugin-local's at once, plugin-git's if the work tree is at the commit ls-remote names |
| `pull` | `Pull` | if it is not: fetch and checkout of what the branch is by now, under the name ls-remote gave |
| `nochange` | `RecordNoChange` | the state file gets the new fingerprint only; a failed save is only logged |
| `fetch` | `FetchFile`, `CreateVersion` | one file into staging with its size check; then the new directory |
| `link` | `LinkEntry`, `Switch` | one hard link, from staging or the previous version; then the rename of `current` |
| `clear` | `ClearStaging` | |
| `meta` | `WriteManifestFile` | |
| `rollback` | `RollBack` | `Apply`'s deferred `os.RemoveAll`, its error ignored |
| `retention`, `prune` | `Cleanup`, `Prune` | choose, then delete from the newest down |
| `save` | `SaveState` | |
| `failed` | `RecordFailure` | the failure count, in a freshly loaded state |

`StepFails` is every error return; when it is `Apply`'s, the roll-back comes next, also
after the switch. `Crash` is the death of the process. A deletion under way, Cleanup's or
the roll-back's, may be cut short by either, and by an error of its own: any of the files
may then be left, and the metadata or not (`RemovePart`). `Edit` changes the source
between any two steps.

Abstractions. A file is its content; a fingerprint identifies it (both plugins that are
built hash the bytes); the size check sees only `SizeOf`. Files may have size 0, which the
code does not check. `pinned` is plugin-git, whose fetch reads the work tree its snapshot
checked out; `live` is plugin-local, whose fetch reads the source as it is then. Of
plugin-git there are the three moments that matter to the pipeline, ls-remote, the fetch
and the checkout; `GitPlugin` has the rest. The name of a version is its place in the
order of names. `nextVersionDir` takes the local time and only looks whether a directory
has the name: as a rule it is later than all in use (`Ahead`), but after a clock step, a
change of zone, or with the suffix -10 after -2, it is not, and it may be the name a
dangling link still has (`Behind`). `keepDays` is any cut in name order. Entries are
fetched and linked in any order. File-system operations that returned survive a crash in
order, as they do when the process dies; power failure is weaker and not modelled.
Statistics and timestamps are left out.

### Runner

`served` and `cfg` are the two copies of the configuration (main's and the runner's);
`flagOf` and `held` the map of running flags and which flags are set, a flag being an
object that goroutines may still refer to after the map has dropped it; `cancelOf` the map
of cancel functions; `act` every goroutine that calls `Sync`, the loops and the
connections; `starter` everyone who calls `startAll` or `Reload`; `main` the main
goroutine; `recorded` the failure count in the state file. The actions are the steps
between which another goroutine can come: `StartTask`, `Started`; `Fire`, `Quit`;
`TriggerSync`; `Lookup`, `Acquire`, `Busy`, `Succeed`, `Fail`; `ApplyCfg`, `SwapMaps`,
`CancelLoops`, `AwaitLoops`; `Stop`, `Exit`.

Abstractions. What a sync does is `SyncTask`; here it runs and ends. An armed timer may
fire at any time, so jitter, interval and backoff lengths do not matter. A loop whose
context was cancelled during a successful sync returns from its next select: the timer it
re-armed is an interval (at least a minute) away. The map update, `wg.Add` and `go` of
`startTask` are one step: only the starter and a loop that does not exist yet could tell
them apart. A configuration that fails to load changes nothing and is no step. Failure
counters stop at `FailureCap`. `Loop` and `Flag` are pools of slots for goroutines and
flag objects; the assumption `FlagsAbound` says there are always enough flags for a fresh
one to exist.

### PluginSession

Two processes and two pipes. `pc`, `sent`, `answerOf`, `reader` and `received` are the
client: a caller (`Spawn`, `Send`, `Validate`, `Close`, in the order of `runSync`, which
closes the session at its first error), the read goroutine that each call starts (`Read`),
the call's `select` (`Receive`, `Expire`) and Close's (`GiveUp` after five seconds, `Reap`
when `Wait` returns, which also closes our end of the pipes). `working`, `answered`,
`parts` and `placed` are the plugin: it takes a request, writes `<dest>.part`, renames it,
and writes an answer line (`TakeRequest`, `CreatePart`, `Place`, `Answer`, `EndOfInput`).

Plugins are separate programs, so little is assumed of them: one may hang in any step,
`Die`, leave a child that still holds its stdout (`heirs`), and write any line at any time
(`Stray`): junk, an answer it has given before, or one to a request it is still working on
or has yet to read, which the client cannot tell from the real one. A fetch is believed
only when its file is there (`Validate`, in `runSync`). Kill only marks the process; it
runs on until it dies. Line contents are the request's number and whether it is a result,
an error or not an answer at all; an answer whose result does not decode is an error.
Plugins that are not the shipped ones may write elsewhere or keep children that write;
that is outside the model.

### GitPlugin

`remote` is the branch. `git`, `head`, `index`, `lock` and `work` are the cache
repository; `child` and `todo` a running `git checkout` and what it has yet to write,
`late` a fetch that outlived its plugin, `clearing` what a running `os.RemoveAll` of the
cache has yet to delete. `pc`, `want` (the commit ls-remote saw), `pin` (the commit the
sync is about), `rows`, `snap` and `staged` are one sync, `mirror` and `state` what it
leaves. `disturbed` and `tainted` are history.

| action | code |
|---|---|
| `LsRemote`, `CompareHead`, `InitRepo`, `Fetch`, `BeginCheckout`, `Clean` | `syncRepo`, one git command each |
| `CheckoutFile`, `WriteIndex`, `EndCheckout`, `LateFetch` | git itself (external): the work tree file by file, then index, then HEAD |
| `ListIndex`, `StatEntry` | `snapshot`: `ls-files`, then an `Lstat` per entry, which leaves missing files out |
| `Decide`, `GetFile`, `Publish`, `GiveUp` | `runSync`: short cut and diff, one fetch, Apply and save, an error |
| `Timeout`, `PowerFailure` | the kernel kills the plugin; the machine dies and `index.lock` stays |
| `Clear`, `ClearFile`, `ClearGit` | `handleCacheClear`, file by file |

Abstractions. The steps of Apply are `SyncTask`'s, so `Publish` is one step. All contents
have one size. Files the index does not know stay when `git clean` fails, which is only a
warning. Of git's own errors the model has those that follow from the repository's state.

### ConfigCli

`disk` says whether the configuration file is whole, cut to nothing by `os.WriteFile`, or
torn by two writers; `file` is what was last written to it, `tmp` the one temporary file
all edits share. `data`, `state` and `job` are each task's mirror, state file and running
sync; `up`, `running` and `load` the daemon, what it runs and what each reload handler has
loaded; `cli` the commands, each with the configuration it read when it started. `raced`,
`crossed` and `missed` are history.

A command is `Add`, `Edit` or `Remove` (the read and the look-up), the user's part
(`Answer`, `Abort`, `Type`, `QuitEditor`), `ReadBack` of the edited text, `Purge`,
`Truncate`, `Write` and `Call`. `config.Load` and `SetCfg` are two steps (`Call` or
`SigHup`, then `Apply`), since no lock is held over both; `DaemonStops` and `DaemonStarts`
are main's. A sync is `StartSync`, `LinkFile` per file, and `Publish` or `FailSync`, so
that a purge can come between any two. An emptied file is a valid configuration without
tasks to `Load`, and a nil map to a command, on which `add` panics.

Abstractions. `Runner.Reload` is one step and a sync's snapshot and fetches another:
`Runner` and `SyncTask` have theirs. A definition is a value with the name it gives and
whether `validate` accepts it. A torn file does not parse. `add` replaces a task that has
the name already, as the code does.

### Readers

The kernel's side is `stage` (absent, assembling, switched, whole, removing, left, gone),
`there` (the files and directories a version's directory has) and `current`. `Begin`,
`Make` and `Switch` are `Apply`, `Commit` its return and `RollBack` its failure, which
deletes the version also after the switch, while `current` names it; `Prune` is `Cleanup`.
`Unlink` and `Rmdir` are `os.RemoveAll`, file by file, and `Leave` its error or the death
of the kernel, after which a part stays. A name that is free again may be used again.

The limiter is its channel (`sem`, and `queue` of blocked senders) and the unlocked
counter `waiting`: `Look`, `CheckQueue`, `Try`, `LoadCount`, `StoreCount`, `Send`,
`Release`. A reader resolves its version (`Resolve`; the panel and `history.files` follow
the link once, `export` and `restore-file` with every file), lists a directory (`List`,
`OpenOne`), opens entry after entry (`Open`), lists each sub-directory when it comes to it
(`Inside`), as `filepath.WalkDir` and `copyTree` do, and ends (`End`, `Exit`); `ListNames`
and `Mark` are `history.list`. `Stall`, `Disconnect` and `PanelRestart` are the clients and
the service manager.

Abstractions. A file read is named by the version it came from: published files are not
written again, and an open one survives its deletion. All versions have the same files in
the same directories (`Path`, `Folder`, `Above`). The sync is reduced to what readers can
see of it. The entries of a directory come in any order. The goroutine that a panel
request runs in is the request.

### LogRing

`Add` and `Tail_` are the functions, `ring` the buffer with its head and count; `log` is
history, all that was ever added. Both functions hold the mutex for their whole length, so
each is one step.

### AtomicMirror

A source that changes, snapshots of it, and a mirror that moves in one step, only to the
latest snapshot; under fairness the mirror reaches a source that rests. `SyncTask`
implements it with `source <- src.tree`, `taken <- snap.tree` and `mirror <- Mirror`, the
contents of the version `current` names.

## 3. Runs

| run | question | answer |
|---|---|---|
| `synctask_safety` | What holds whatever crashes, and whatever fails except the two steps of `Apply` after the switch? | `current` names a whole version; state and mirror agree unless a sync was torn; fingerprint and manifest are of one snapshot, and "no change" is right but for note (e); retention keeps its budget and spares the newest |
| `synctask_live` | Without crashes, with failures before the switch, is the design's promise kept in full? | mirrors are exact, nothing half-built stays, `AtomicMirror` is implemented; the mirror converges, with `AtomicMirror`'s liveness, unless a moving branch misled the task (e) |
| `synctask_crash` | Does one crash leave mirrors exact? | no (finding 1) |
| `synctask_rollback` | Does one failure after the switch leave `current` whole? | no (finding 2) |
| `runner_safety` | What do flags, cancel functions and wait group ensure with one reloader? | flags belong to running syncs; no overlap before a reload, none between loops ever; no orphaned loop; loops follow the configuration; reload and shutdown end |
| `runner_overlap` | At most one sync per task? | no, after a reload (finding 3) |
| `runner_alive` | Does an enabled task keep its loop? | no (finding 4) |
| `runner_backoff` | Does a manual success reset the backoff? | no (finding 5) |
| `git_plugin` | Is a snapshot one commit, and a published mirror that commit, whatever the remote, killed plugins and cache clears do? | yes, unless the cache itself changed under the sync; the mirror converges, but for the two ends of note (e) |
| `config_cli` | Does the daemon run the file, does the file keep every task, do purged tasks come back whole? | the daemon runs only what was checked; it runs the file unless reloads overlap or a command dies between write and reload; tasks are kept unless commands overlap; (a) to (d) are the exceptions |
| `readers` | Is what readers get one version, whole; does the limiter count; does `Tail` return the end of the log? | yes but for (f), (g) and (h); a request waits for ever only behind a stalled client |
| `plugin_session` | Do late, repeated, early or unasked-for lines, hangs and deaths of a plugin confuse a session? | no: answers match, a fetch that succeeds has its file, no process outlives `Close`, sessions and read goroutines end |

Findings, in short. (1) A crash between the switch and the save leaves the state older
than the mirror; a later sync takes "unchanged" files from the wrong version and publishes
them. (2) `committed` is set after steps that follow the switch; their failure rolls the
published version back under `current`. (3) A reload replaces the running flags while a
manual sync holds one. (4) A loop whose timer fires during a manual sync returns and is
not restarted. (5) The backoff counter lives in the loop. `PROJECT.json` quotes the
statements each contradicts.

The properties of `synctask_*`, `git_plugin`, `config_cli` and `readers` name their
exceptions. Each exception is a behaviour of the code that the run reaches:

* (a) `remove --purge` deletes the data and keeps `state/<task>.json`: a task added again
  under the name reports "no change", or fails for want of a previous version, until no
  file of its source is as the old state file says (`Hollow` in `TasksFollowed`).
* (b) the purge comes before the reload that stops the task's loop: a sync in flight
  publishes what the purge left of its version, with a state file that vouches for all of
  it (`cut` in `PublishesWhole`).
* (c) `os.WriteFile` empties the file first: a reload or start at that moment reads a
  valid configuration without tasks and stops every loop, until the command's own reload
  (`HalfWay`, `missed` in `DaemonFollowsFile`). `add` on an emptied file panics.
* (d) two commands at once lose an update (`raced` in `KeepsOthers`) or leave a file that
  does not parse; edits share one temporary file; of two reload handlers the one that
  loaded first may apply last (`crossed` in `DaemonFollowsFile`).
* (e) a snapshot is named by the commit ls-remote saw and holds the one the fetch brought:
  when the branch moves in between, the mirror is ahead of its label. If the branch then
  comes back, with no crash and no failure, or if a cache clear during the listing dropped
  files, every later sync is skipped by the short cut (`Misled` in both `Converges` and in
  `ImplementsAtomicMirror`, `OwnTree` in `NoChangeIsTrue`). A power failure during a
  checkout leaves `index.lock`, and every later checkout fails (`lock` in `GitPlugin`).
* (f) the archive of a version that is being assembled, rolled back or deleted is sent
  with status 200 and is well-formed, but lacks files; `history.files` leaves them out as
  well. An export lists each sub-directory when it comes to it: one that a deletion has
  emptied by then, or has taken before its parent was listed, is left out and the command
  reports success (`frail` in `OneVersion`). A roll-back behind the switch (finding 2)
  does this under readers of `current`.
* (g) an export that follows `current` mixes two versions when it is switched meanwhile,
  and so does any reader whose version's name is taken again (`moved`).
* (h) the limiter's counter is compared, loaded and stored without a lock: more requests
  than `maxQueue` may queue, and lost updates stay (`raced` in `QueueCounts`). The server
  has no write timeout: a client that stops reading keeps its slot (`stalled` in
  `Answered`).

**Bounds.** `SyncTask`: two paths, two contents (one checked by size, one not, or both of
one size), so a file can be kept, changed, added or removed beside another and a stale
file can slip through or be caught; two edits, so the source can return to an earlier
tree, also between an ls-remote and its fetch and back; one crash and one failure, which
may come together; five version names with `keepLast` 2, so versions, debris and pruning
coexist, of which one may be out of order (`MaxBacks`) into a gap (`MaxGap`), before all
others, or where a dangling link points. When the names run out no further version can be
made and the behaviour goes on with failures and no-change syncs only. `synctask_live` has
no crash, `keepLast` 1 and `keepDays`, and three names are enough because rolled-back
names are used again. Paths are symmetric in the runs without liveness. `Runner`: two
tasks, one of which the new configuration may disable, two loops, one connection, one
reloader, one reload, six flags (one more than can be referred to). Every overlap needs at
most two callers and one reload; more than one reload is covered by the proofs.
`PluginSession`: four calls (the handshake, the snapshot and two fetches, so that one
fetch can follow another) and two lines of any content at any time; the proofs cover any
number. `GitPlugin`: two files and two commits, of which one changes a file and deletes
the other; two moves, so that the branch can come back; one timeout, one power failure and
one cache clear, which may meet in one sync. An orphaned git and a later sync need no
more. `ConfigCli`: two tasks, one with a second definition that `validate` rejects, one
disabled; two commands, which may overlap or follow each other (purge and add), two events
of any kind; the daemon has run for a while, so its tasks are mirrored. `Readers`: three
requests at one slot and one place in the queue, so that one is served, one queued and one
refused, or one tool; two versions of which the last is kept, so that a reader's version
can be assembled, current, superseded, rolled back and deleted under it; a file at the top
and one in a directory, so that a walk can come to a directory that has changed since its
parent was listed; one event. From the arrival of the third request until all are answered
no version comes or goes (`Crowded` and `Calm` in `MCReaders`): what the kernel does to
readers is seen with one or two of them, and how many queue is not its doing. Tools and
requests write nothing the other reads and need not run together. `LogRing`: three slots
and seven entries, so the ring wraps twice. The proofs cover all numbers of files,
commits, commands, versions, requests, slots and entries.

**Fairness.** `SyncTask!FairSpec` is weak fairness of the pipeline as a whole: the
scheduler starts the task again and again and every step returns, by its timeout if by
nothing else. Nothing is assumed of the source, of failures, or of crashes. This holds of
an enabled task that keeps its loop, which finding 4 shows is not always so.
`Runner!FairSpec` is weak fairness of each goroutine: timers fire, syncs end, a reloader
that can go on does. Nothing is assumed of users and signals. `PluginSession!FairSpec`:
the daemon's goroutines run, every call has a time limit (the loader replaces a missing
one by its default; a negative one means no limit and is not covered) and a process sent
SIGKILL dies. Nothing is assumed of the plugin, and `heirs` may hold the pipe for ever.
`GitPlugin!FairSpec`: the loop syncs again and again, and git commands and deletions that
were started end. `ConfigCli!FairSpec`: a command whose user has answered runs on, a
handler applies what it loaded, systemd starts the daemon again, loops sync.
`Readers!Fairness`: a goroutine that can run does, the channel wakes blocked senders in
their order, and a file is sent while its client reads; the kernel and the clients owe
nothing.

## 4. Proofs

All theorems hold for every value of the constants that satisfies the named assumptions of
the modules, that is for any set of paths, contents, commits, tasks, definitions,
goroutines and readers, any capacity and number of calls, and any bounds. What is assumed
beyond that is said with each: as a rule not about the constants but about the behaviour
(`Spec /\ []H => ...`), so that the theorem says how far the guarantee reaches in a system
where `H` may fail. Formulas that are stated only in the proof modules were checked with
TLC on the instances of section 3 before they were proved.

`SyncTaskProofs`

* `TypeCorrect`: `TypeOK` is inductive.
* `FingerprintIsOfManifest`: `FpInv`, that a sync works with the state that is on disk and
  is at `nochange` only because the fingerprints or the trees are equal, so that storing
  the snapshot's fingerprint beside the old manifest changes nothing or stores the pair of
  one snapshot.
* `LabelsSlipOnlyInPull`: a fingerprint is given to the tree of another commit only when
  plugin-git's branch moved between ls-remote and fetch. The pair is then still that of
  one snapshot; it is the snapshot that is of two commits.
* `StateFollows` (an action property) rests on `ApplyInv`: from the switch on, `current`
  is the new version, made from the snapshot, and from `retention` on its metadata is
  written.
* `PublishedStays`: a version that is neither in `Apply` nor doomed keeps its files and its
  manifest.
* `IncompleteCurrentIsMarked`, `LinkBreaksOnlyInApply` and `MirrorMovesOnlyInApply`, with
  no assumption about failures, crashes or names, in both plugin modes: `WholeInv`. A
  version that `current` names is incomplete or gone only after a sync was cut short
  behind its switch; its roll-back deletes it under the link, file by file, and may leave
  it so, but then without its metadata. A dangling link may be filled again by a version
  that gets its name. Apart from that the mirror moves at the switch alone.
* `CurrentStaysComplete`, assuming that the two steps of `Apply` behind the switch, `clear`
  and `meta`, do not fail: then no version in `Apply`'s roll-back is the current one.
* `MirrorFollowsState` and `NoChangeSound` (the latter but for labels that slipped):
  `MirrorInv`. While nothing was torn, the mirror equals the state's manifest before the
  switch and the snapshot's after it; while linking, the files in the new version are the
  snapshot's. The step that carries it is `LinkSourceExact`: an entry `Diff` did not report
  is, in the previous version, the snapshot's.
* `RefinesAtomicMirror`: `Spec /\ [](~torn /\ mode = "pinned") => AM!Spec`. Every step is a
  step of `AtomicMirror` or leaves its variables alone. Only `Switch` moves the mirror.
* `MirrorsAreExact`, under the same condition: the manifest of the current version changes
  only with the switch (`MirrorStill`), and `MirrorInv` says what the mirror is then.
* `BudgetIsKept` and `NewestAreSpared`: `RetentionInv`. What `Cleanup` spares is within
  `keepLast`, or one more because the new version is last by name, and each of the doomed
  has `keepLast` later names that are spared (without `keepDays`). That the ranking counts
  right (`WithinBudget`, `ExcessSpares`, `SparedAreNewer`) uses the library's theorems on
  cardinality and on least elements.
* `DebrisIsBounded`: the damaged versions, which history lists although they are not whole
  or have no metadata, are at most as many as there were crashes and failures.
  `DamageStep`: a step damages at most one version, and only as a crash or as a deletion
  or roll-back that fails half-way.
* `NothingHalfBuilt`, assuming none of these: then no step damages any.

`RunnerProofs`

* `RunnerTypeCorrect`, `FlagsOwned` (inductive together with the types).
* `ExclusiveBeforeReload`: `FirstEpoch` adds that, before the first reload, a flag that
  anyone refers to is its task's flag in the map.
* `ScheduledSyncsExclude`, `NoLoopIsOrphaned`, `ConfigIsFollowed`, in behaviours where the
  start-up and reloads come one at a time (`[]OneAtATime`): `LoopInv` says where the cancel
  functions are in each phase of a reload (map, local copy, already called), that no loop
  lives once the wait is over except those started since, and that each task has at most
  one live loop. Where two reloads overlap they are false in the code: one empties the map
  that the other has begun to fill.
* `OneReloaderIsEnough`: one reloader is such a case; the daemon has more, its
  signal handler and each connection that calls `config.reload`.
* `ReloadWaitsForLess`, under the same condition, and `ShutdownWaitsForLess`, without: what
  `ReloadEnds` and `StopEnds` need beside fairness. The loops that are waited for have been
  cancelled, and each of their steps lowers `Left`, the number of steps they still have.

`PluginSessionProofs`

* `SessionTypeCorrect`: `OrderInv` adds to the types what the client knows of its reads
  (`OneRead`) and, as long as the plugin has answered nothing early, that only the latest
  request can be anywhere between the client and its answer, and that no line in the pipe
  answers a later one (`InOrder`).
* `AnswersMatch`, in two parts. For whatever the plugin writes, and when, a call takes an
  answer with its own number and a fetch has its file (`Taken`): an early "ok" passes the
  client and is stopped by the check of the file. From a plugin that answers nothing early
  the check never fails. That the number matches is not enough for this, because an answer
  may be repeated with another outcome; `FetchDone`: while the file is not in its place,
  an "ok" line for it comes, if at all, after the plugin's own error, and the client reads
  one line per call.
* `NothingAfterClose`, from the guard of `Reap` and `OrderInv`.
* `CloseCannotHang` and `SessionsRunDown`, what `SessionEnds` and `ReadersEnd` need beside
  fairness: a plugin that is still awaited has been killed, the pipe is closed under a read
  that outlives `Close`, and the steps of the daemon in a session are numbered by `Left`,
  which nothing the plugin does can raise.

`GitPluginProofs`

* `GitTypesHold`: `TypeOK` is inductive.
* `OneCommitIsRead`: `Writes` says that a checkout without its lock has written the index
  and that the one the plugin waits for goes to this sync's commit; `Steady` that, from
  the end of the checkout on, an undisturbed work tree is the index's and the index is the
  commit's.
* `PinIsPublished` adds `Recorded`: while no disturbed sync was published, the mirror is
  the stored manifest, so that a file Diff calls unchanged is in it.
* `FingerprintsAreOfTheMirror`: the same for the fingerprint, which is also recorded when
  the diff is empty. What is recorded came from `ls-remote`, what the mirror holds is the
  commit the fetch brought.
* `NeverMisled`: the first of the two ends that `Converges` allows, a state file that names
  the remote's commit over another tree, is impossible in behaviours where the branch does
  not move between the two commands of a snapshot and no sync is disturbed. `Labelled` is
  the invariant. Without the first of the two conditions TLC shows it false.

`ConfigCliProofs`

* `TypesHold`, `DaemonRunsWhatWasChecked`: `CheckInv`. A definition is only ever stored
  under the name it gives, in the file, in what commands have read and are about to write,
  and in what handlers have loaded; what is loaded or runs has passed `validate`.
* `DaemonRunsTheFile`: `FollowInv`, that at most one handler is half-way (unless reloads
  crossed), and that what it loaded, or else what runs, is the file, unless a command is
  half-way or one died there.
* `OthersAreKept`: `Turns`, that a command which is alone has read what the file holds.
* `WholeIsPublished`: `VouchInv`. A mirror has the state file's content of a path or none,
  and a sync has linked what it wants, unless a purge cut it. This is the argument that an
  old state file beside deleted data is safe: what is missing cannot be linked.
* `OnlyPurgesMakeHoles`, `WithoutPurgesNoHoles`: the way into the state that
  `TasksFollowed` excepts, where "no change" is found over missing files, starts with a
  purge, and in behaviours without one the data is always what the state file says.
* `FileIsReadable`: `Emptied`, that without overlapping commands only the one that has
  just truncated the file, or was killed then, leaves it unparsable.

`ReadersProofs`

* `ReadersTypesHold` includes that the channel holds as many values as requests are being
  served: `SlotInv` and `QueueInv` (those in the queue are blocked senders, each of them
  once).
* `QueueIsCounted`: `CountInv`, that while no two updates overlapped at most one is
  between its load and its store, and what it loaded is still the counter. `CountChange`
  moves one member in or out of a counted set.
* `OneVersionIsRead`: `DataInv` (a version has all its files from its switch until it is
  deleted) and `Sound` for each reader, by kind: what it has read is from the version it
  resolved, and as long as that is whole each file it has not read is on its list or below
  a directory that is (`Covered`), whatever the tree.
* `NobodyWaitsForNothing`: a request is blocked only while all slots are held; each holder
  is a request being served, so that one of them can always go on.
* `HandlersEnd`, what `Answered` needs beside fairness: each step of a handler lowers
  `Left` or the number of entries its list leads to, and neither the kernel nor another
  request sets it back.

`LogRingProofs`

* `TailIsTheEnd`: `RingInv`, that slot (head + i) mod capacity holds the i-th of the
  entries held. The log's length is not bounded by it.

Only model-checked: liveness (`Converges` of `SyncTask` and of `GitPlugin`, `ReloadEnds`,
`StopEnds`, `SessionEnds`, `ReadersEnd`, `TasksFollowed`, `Answered`, the fairness part of
`ImplementsAtomicMirror`). The prover has no rule for fairness and cannot reason about
ENABLED. What it can do has been done: the variants that `ReloadEnds`, `StopEnds`,
`SessionEnds`, `ReadersEnd` and `Answered` run down, that nobody blocks in the limiter
beside a free slot, and how alone the states can be entered that `GitPlugin`'s `Converges`
and `TasksFollowed` except, are theorems. Of `SyncTask`'s `Converges`, how a state is
mislabelled is one (`LabelsSlipOnlyInPull`); the rest depends on which failures recur.

## 5. Not modelled

* Text processing: YAML, JSON, flags, wizard, table output, schema validation, defaults,
  environment expansion, git's error messages, URLs and credentials. No shared state.
* Paths. They are opaque, and joining them succeeds. The CLI resolves a storage path
  without the default `dataDir` and `${ENV}` that the daemon applies
  (`cmd/edge-sync/context.go:34`), so that `remove --purge` and `export` may look
  elsewhere than the daemon writes; the models have one place. A source file named
  `.edge-sync-manifest.json` is overwritten by the metadata.
* Version names as strings. Their order need not be that of time, and a name may come
  again; their parse as UTC, which decides what `keepDays` expires, is any cut. The
  backoff's arithmetic: timers fire at any time.
* Power failure, except for what it leaves of a git cache. `fsync` is not in the models:
  the process may die, the file system does not forget.
* plugin-local's walk. `SyncTask` has its side of the fetch (mode `live`), in which a
  mirror may mix two moments of the source; what is shown about it is what holds in spite
  of that.
* `task.list`, `task.status`, `history.fileVersions`, `plugin.list` and the CLI's queries:
  they read one thing after the other and change nothing.
* The panel's login, static files and statistics, the web application and its TypeScript
  types, deployment scripts, the archived WebDAV plugin: no state of the mirror, or not
  built.

## 6. What could follow

In this order: power failure in `SyncTask` with unsynced directories; `Runner` inside
`ConfigCli` instead of the one-step reload, to see reload handlers and commands interleave
with `startAll`; an abstract store (versions that appear whole, are replaced in one step and
deleted file by file) that `SyncTask` implements and over which `Readers` runs, so that the
kernel's steps in `Readers` follow from those of `SyncTask` instead of being stated again.
