# TLA+ models of gonit

gonit is a small process supervisor in Go: a daemon polls *process checks*
(services with a pid file, a start and a stop program), starts the services
that are down, and obeys a command line that talks to it by signals and by an
HTTP server on a Unix socket.  This directory holds TLA+ modules of its
concurrent core, of its configuration and of its start, TLC runs over small
instances, and proofs checked by TLAPS.

## 1. Inventory

| Component | Code | State | Operations |
|---|---|---|---|
| execution guard | `monitor/checks.go` `doOnce`, `checkState` | `checkStates`: an in-progress flag per unique id | take, timer, callback, two clean-ups |
| process check | `monitor/checks.go` `ProcessCheck` | `monitored`, `startTriesCnt`, the service behind the pid file | `Perform`, `Start`, `Stop`, `Restart`; goroutines `start()`, `stop()` |
| registry | `monitor/monitor.go` | `m.checks` | `AddCheck`, `FindCheck`, `UpdateDatabase`, `Reload`, `LoopForever`, `Terminate` |
| database | `monitor/database.go`, `database/database.go` | `Storage`, an RWMutex per entry, the state file | get, add, delete, serialize (truncate, encode, write), deserialize |
| HTTP server | `monitor/server.go` | the listener | guarded routes start/stop/restart, synchronous monitor/unmonitor, each for one service or `_all`; status, summary |
| client, commands | `monitor/client.go`, `cmd/` | none of their own | one request, or the same operation on the files without a daemon |
| lifecycle | `cmd/root.go`, `cmd/common.go`, `utils/process.go` | pid file, socket file, the signal channel | start or wake up, reload, quit |
| configuration | `monitor/parsing.go`, `config.go`, `validation.go` | checks found so far | parse, include, load, validate |
| process definition | `monitor/checks.go` `Parse`, `Initialize` | programs with their timeouts, group, pid file | parse the statements of a check, defaults |
| files | `utils/file.go`, `utils/file_accessor.go`, `log/log.go` | five files with type, owner and mode | tests before a start, creation, umask, removal |
| helpers | `utils/utils.go`, `utils/process.go` | none | `WaitUntil`, pid files |

How they interact:

* `LoopForever` spawns a goroutine per interval.  It spawns a `CheckOnce` for
  every monitored check, and then calls `UpdateDatabase`.  Nothing keeps two of
  these goroutines apart but the locks of the entries they share.
* `CheckOnce` and the start, stop and restart routes run their operation through
  `doOnce`, keyed by the address of the check object.  The operation runs in a
  goroutine and is watched by a timer that frees the flag after 125 s.
* `Perform`, `Start` and `Stop` do not execute programs.  Each spawns `start()`
  or `stop()`, which sets the monitored flag *first*, looks at the service and
  then runs the program; the operation only polls the service meanwhile.
* The monitor and unmonitor routes do not ask the guard: they set the flag and
  call `UpdateDatabase` before they answer.
* One goroutine handles signals, one at a time: SIGHUP is `Reload`, which makes
  new check objects; SIGTERM is `Terminate` and `os.Exit`, whatever the others
  are doing.
* A start loads the configuration with one walker, a reload validates it with
  another and then adds what the second has found: two paths through one parser.
* A background start checks its files in the parent; the child, a new process,
  reads the configuration and opens them again.
* Processes of different commands share the pid file, the socket, the state
  file, and nothing that locks them.

What is hard: a timer that races a late callback; goroutines nobody waits for;
waits that time out against a late success; locks that are taken in list order
and kept to the end; a reload among updates; a kill in the middle of the
rewriting of the state file; signals to a process that is starting or ending.
`PROJECT.json` lists these hazards line by line.

What makes each component correct:

* guard: operations of one check exclude each other, and no flag stays up for ever;
* process check: starts are bounded, giving up is deserved, an unmonitored
  service is left alone, a restart ends with the service up, operations end;
* registry and database: what a request was told is saved stays true through
  updates, failures, reloads and restarts; one writer of the file; no deadlock;
* lifecycle: one daemon, that can be found, that ends when it is told to, and no
  other process is killed; no run is refused because of what an earlier one has left;
* configuration: both walkers read the same checks, whose names are unique, reading
  ends, and a timeout is the one that is written.

## 2. Modules

| Module | Models | Composes |
|---|---|---|
| `DoOnce` | the guard without time: `Overrunning` is the set of ids whose callbacks *may* outlive their timer | |
| `TimedDoOnce` | the guard with durations and a clock; computes `Overrunning` from the timeouts | refines `DoOnce` |
| `ProcessCheck` | one check: its operations, goroutines, polls, commands, crashes of the service | runs under an instance of `DoOnce` |
| `Registry` | checks, entries with locks, state file, loop, requests, reload, death and restart of the daemon | |
| `Reloaded` | one service with the check object of before a reload and that of after it | two instances of `ProcessCheck` |
| `Wait` | what a wait promises to the operation that waits | |
| `Definition` | the statements of a process definition, and the timeouts they give, as operators | |
| `WaitUntil` | the loop over two timers, with a clock | refines `Wait`, takes its timeouts from `Definition` |
| `Config` | parser, loader, validator, and what start and reload make of them | |
| `Startup` | a run from the command line to the daemon, and its files | |
| `Daemon` | the gonit processes of a machine, pid file, signals, socket, and the saves that may be cut off | saves that fail or overlap are in `Registry` |
| `MC...` | values of constants for TLC | |
| `...Proofs` | theorems; those about `Reloaded` are in `RegistryProofs` | `DoOnceProofs` is instantiated by `TimedDoOnceProofs` and `ProcessCheckProofs`, this one twice by `RegistryProofs` |

### DoOnce
An element of `Ops` is a call of `doOnce` that was let in; it is reused once its
goroutine and its timer function are over.  `phase` is the place of its goroutine
(`accepted`: not yet scheduled; `running`: in `cb()`; `returned`: before
`timer.Stop()`; `stopped`: before the deferred `cleanUp()`), `timer` that of its timer
(`fired`: its function is still to run).  `Take` is `checkState.Take`,
`Begin` arms the timer, `Finish` and `Release` are the two calls of `cleanUp`,
which lower the flag *whoever holds it*.

### TimedDoOnce
Adds the kind of each operation and its age.  A wait ends at the latest after the
timeout of its program (`Duration`), so `Tick` cannot pass over a callback that is
due; a timer never fires early.  `ImplementsDoOnce` is the abstract specification
with its fairness, under the mapping that is the identity on the guard's variables and
the computed `Overrunning`.  `Slack` is how late a wait may notice its end; runs
use 0, the proofs any value.

### ProcessCheck
`pc` is the place of each callback in `Perform`, `Start`, `Stop`; `Restart` is `Stop`
that goes on with `Start`.  `routines` counts the goroutines at each place of `start()`
and `stop()`.  They have no identity: what they do depends only on their place.  A wait is
split into its first look (`...First`) and the rest (`...Wait`), because only a wait that
has seen the service in the wrong state can time out.  A program brings the service
to its state or fails; the service may also die by itself (`Crash`).
`attempts` counts automatic starts since Perform has seen a success *or given up*: a monitor command after a give-up
allows `MaxTries` more.  `lastCommand` is also "gaveUp", until a command comes.
`Prompt` says that a goroutine spawned before a wait has set its flag when the wait
times out: waits last seconds, a goroutine is scheduled in microseconds.  `GivenUpStays` and `Settles`
need it: without it a `start()` that comes after the end of `Perform` can undo one give-up after
another.  The code does not exclude this, the scheduler in practice does.

### Registry
A check object is `<<generation, name>>`, for a reload makes new objects.  An entry has
an identity of its own, because deleting and adding a name makes another object with
another lock.  Each updater walks through `UpdateDatabase` (`GetEntry`, `Lock`, `Keys`,
`Delete`, `Open`, `Encode`, `Write`, `Unlock`); a handler gets there by `FindCheck` and `Set`, once
per id for the `_all` route.  `Open` truncates the file, so `file = Empty` from then until `Write`.
`Die` loses all but the file.  `acked` is the status a request was last told is saved, forgotten
when somebody else changes the flag, when the name leaves the configuration, and when the daemon dies
with the file truncated (that loss is real and not a property of the model to exclude).
`Confs` are the configurations a load may find: sequences of names without repetition, since
both loader and validator refuse a duplicate.

### Reloaded
`Old` and `New` are instances of `ProcessCheck` with all variables of their own but the service
and the bounds.  The reload swaps the object that polls, commands and crashes find; `Old` goes on with what
it has under way.  `entry` is the entry of the database: `Save` copies the flag of the registered object to
it, the reload copies it to the new object.  `Registry` has the steps of both.

### Definition, Wait, WaitUntil
`Reached` is what the loop of `Parse` comes to: the statements in every set that has the first one and, with a
statement it interprets, the next at which the expression finds one.  Text matters in two places.  The expression of
`group` in `checks.go:610` is a raw string with `[^\\s]`, a class without backslash and `s`, so a statement
is reduced to where its first `s` is.  And the switch (`checks.go:636`) looks for a group, a start and a stop, in this order and
anywhere in the statement: `holds` is what the text of a statement holds besides, and `Taken` what it is taken for.
`parseWithTimeout` is `Atoi` (an error gives 0, which `Initialize`
takes for a missing timeout) and a product that wraps at `Largest`.
`WaitUntil` is the select over `timeout` and `iterator`; with both ready either is taken.  A look takes up
to `LongestLook`.  `Wait` is what `ProcessCheck` relies on: yes only while the service is as wanted, no only after
a miss and once the timeout is over.  The mapping keeps `up`, and `over` is `Expired`.

### Config
A file is a sequence of directives, or unreadable.  `stack` holds the calls of `ParseConfigFile` that wait for the files
they include.  An error ends its file only; the error of an included file is dropped, so `failed` is
that of the outermost call.  The loader adds checks to `m.checks`; the validator keeps a list of its own and
clears `success` on a name met twice, and on nothing else.  A start asks for the error, a reload for
`success` (`monitor.go:259-270`).  A stack of `MaxDepth` calls stands for the limit of a goroutine's stack; beyond it the
daemon crashes.

### Startup
One run at a time walks through `getConfig`, the checks of `RunMonitor`, a second `getConfig` in the child of
a background run, `New`, `WritePid`, and the steps of `monitorServer.Start` around the umask, to a daemon that saves,
and may be killed or told to end at each of them.  A file is a type, an owner and a mode, so that
`EnsureSafePermissions`, `IsWritableFile` and the open calls of the code are predicates on it.  `own` are the
files that gonit has made.

### Daemon
Every process has a kind and a place.  `IsDaemonRunning` reads the pid file and probes the
process; the action that follows reads it again.  `KillAndExit` sends a signal: a process
that has not yet called `signal.Notify` dies of it, and the channel of one that has holds one
signal, so that a second one is dropped.  `Term` takes SIGTERM from it and `Leave` ends the daemon; what
arrives in between is lost.  `os.Exit` may come amid a save: `Cut`.  `QuitTerm`/`QuitWait` keep the order of `quitDaemon`, whose escalation
waits for the process to be *running*.  `StartServer` unlinks the socket whoever listens.

A save is `Truncate` and `Write`; `writing` is what a process has encoded and not yet written.  A set command (monitor or
unmonitor; `want` is `None` when it is about another service) goes to the socket (`SetPost`), or works on the file by
itself (`SetOwn`) when there is no daemon *or no socket is configured* (`common.go:152-161`); in either process `SetFlag` is followed by
`SetOpen` and `SetWrite`.  `acked` is what the answered set commands agree on.  It is given up, with a reason for each in the code, when
a process ends amid a save or a command without an answer (`Cut`), when a command sets the flag by itself beside a daemon, and
when a command sets another status than the one promised while another command is under way.

## 3. Runs

| Run | Instance | Shows |
|---|---|---|
| `DoOnce` | 2 ids (one may overrun), 3 calls | a flag that is up has an owner, operations of one check exclude each other, no flag stays up |
| `TimedDoOnce` | 2 checks, one whose restart does not fit, 2 calls | refinement of `DoOnce` with fairness: a timer overruns only what does not fit |
| `ProcessCheck` | 1 call slot, 2 commands, 1 crash, 3 goroutines, 2 tries | starts are bounded, giving up is deserved and lasts, an unmonitored check at rest stays down, restart and stop of a running service keep their word, the service settles, operations end |
| `UnmonitorRace` | one poll, one unmonitor | *violation* of `UnmonitorSticks` |
| `Reloaded` | 2 objects, a slot each, 1 stop, 2 goroutines, 1 try | a service that is down by command stays down across a reload; the old object retires |
| `Registry` | 2 names, configurations with both, one or none, 1 loop goroutine, 1 request (one name or all), one reload or restart, one failure, one flip | what was acknowledged is saved and in force, one writer of the file, no circle of waiting updates, no entry of a configured check is deleted |
| `RegistryLive` | the same with a reload that reorders the checks, fair | updates end, the file catches up, SIGTERM ends the daemon |
| `ReloadOverlap` | updates during a reload | *violation* of `AckedHolds` |
| `Config` | 2 files of up to 2 directives, 2 names, includes of oneself and of each other, 1 reload, 1 edit | parser against a recursive reference, loader against validator, names unique, reading ends or overflows the stack on a cycle |
| `Wait` | 543 definitions, timeouts from negative to overflowing, 2 units | refinement of `Wait`; no answer is late, no service that is up is overlooked, timeouts as written when groups and texts fit |
| `Startup` | 2 runs, 1 edit by somebody else, umasks 022 and 077 | the socket is never open to all, no run is refused because of an earlier one but in one case, what was checked lasts |
| `Daemon` | 5 pids, 4 commands, 1 other program | one daemon, found by all, no victim, quit quits, and no acknowledged status lost but in the cases `AckedKept` names |

The type invariant of every module with a `...Proofs` is a theorem (that of `Reloaded` part of `ReloadInv`); `Startup` runs its own as well.

Bounds.  Every bound is a constant and a guard: `MaxCommands`, `MaxCrashes`, `MaxRoutines`,
`MaxPolls`, `MaxLoads`, `MaxRequests`, `MaxFlips`, `MaxFailures`, `MaxExits`, `MaxReloads`,
`MaxQuits`, `MaxOthers`, `MaxRuns`, `MaxEdits`, `MaxDepth`.  Three calls are a holder, a stale clean-up and a newcomer.
In `ProcessCheck` one slot is enough while the guard does not expire, because a second call could not be
admitted (that is `Exclusive`, proved for any number of calls).  Two tries tell a reset from a missing one.
`Reloaded` has one command and one poll per object for the old object to have something under way when the new one begins; it
has no crash of the service, which its liveness cannot afford (a program that fails leaves the service down
just as well).  Two names are enough for a lock held while another is waited for; one loop goroutine and one handler are two
concurrent updates, and the refused third would wait for the same locks.  In `Config` two files suffice for an include that
fails, one that is met twice and cycles of length one and two; `MaxDepth` 4 is deeper than any acyclic pair.
Two runs of `Startup` are one that leaves files and one that finds them.  In `Wait` an interval of 2, looks of 1 and
timeouts from -1 to 9 reach every order of the two timers.  Four commands of `Daemon` are
start, a reload that waits in the channel, quit, and one more of any kind; two of them set commands, they overlap with each other and with a save or the end of a
daemon (1.9 million states).  `CHECK_DEADLOCK FALSE` is set
where the bounds use up what drives the system; `DoOnce` and `TimedDoOnce` check deadlock.

Fairness.  Goroutines that can run do run, timers expire, waits end (weak fairness of the
steps).  `EventuallyFree` assumes nothing of a callback that may overrun: the timer frees the flag.
`FairSpec` of `ProcessCheck` and `Reloaded` assumes that programs end, not that they succeed; it promises no command and no
crash.  `FairSpec` of `Config` lets the reader go on, that of `WaitUntil` the goroutine and the clock.
In `Registry` a lock that is free again and again is obtained (strong fairness of `Lock` and
`ReloadAdd`): `sync.RWMutex` queues its waiters.  Signals are taken when the signal goroutine is free.

Assumptions that the code does not ensure, and what fails without them:

* `ReloadAlone` (no `UpdateDatabase` during a reload).  Without it: `ReloadOverlap`, and
  `UpdatesEnd` fails when the new list has another order: two updates, one over each list, wait for each
  other's locks for ever, and a next reload that needs those entries would wait too.
* `StartAlone` (no other command while a daemon is being started).  Without it: two daemons, a SIGHUP that kills
  a daemon before `signal.Notify`, a status written by a command and overwritten by the daemon.
* `Prompt` (a goroutine enters before a wait times out).  Without it: `Settles` and `GivenUpStays` fail.
* `Reuse = FALSE`.  With it a command takes another program with a recorded pid for the daemon.
* `Overrunning = {}` in `ProcessCheck` and `Reloaded` (operations fit the guard timer).  The default timeouts do not, see below.
* `calm` in `RestartOfRunning` and `StopOfRunning` (no crash of the service and no monitor or unmonitor in the
  middle of the operation).
* `GroupsFit` and `TextsFit` in `WaitsAsWritten` (a group statement in a form the expression can read; no program whose text holds a
  group statement, no stop that holds a start, no condition that holds a program).
* `UserKept` in `StartupProofs` (no umask of the shell takes the user's own rights).  With one that does, gonit
  makes a state or pid file that it refuses at the next start.

A configuration may have no check.  Then an update holds no lock and two of them can have the file open at once, but there is
nothing acknowledged to lose; `OneWriter` says so.

Two more hypotheses of theorems say what the machine provides: `Plenty` of `RegistryProofs`, that there is always a new
object for a new entry and that names and goroutines are finite in number; and `Cardinality(Files) <= MaxDepth` of
`OnlyCyclesCrash`, that the stack of a goroutine holds a call for each file.

## 4. Disagreements between code and documentation

Two have a run and stand under "findings" in `PROJECT.json`, with the lines they contradict:

* `UnmonitorRace`: a `start()` goroutine sets the flag after an unmonitor has cleared it.
* `ReloadOverlap`: an update during a reload loses saved statuses.

Others are built into the models as the code has them, and the properties say so where they make an exception:

* The guard timer is `check.Timeout` + 5 s = 125 s, which no configuration changes, whereas a restart with default timeouts may take
  240 s: with the defaults every service is in `Overrunning`, and what `Exclusive` says of the others does not
  hold for it (doc of `CheckOnce`).
* A restart of a service that is down can end with the service stopped: its `stop()` goroutine may come after the start
  (`checks.go:462`, `:498`).
* A start after a quit says "awakened" and leaves no daemon (`root.go:56`); a quit after a reload may be dropped (`root.go:29`).
* A background start refuses the socket of a daemon that was killed: `IsWritableFile` takes regular files only
  (`root.go:78`, `file.go:68`), although `Start` of the server would unlink it (`server.go:36`).
* A SIGTERM between `Listen` and `ms.listener = &ln` leaves the socket behind (`server.go:52`, `monitor.go:514`).
* `ValidatePidFilePath` accepts a pid file in a directory that does not exist (`process.go:33-39`).
* A reload accepts a control file that cannot be read and a definition that cannot be parsed, and loads what stands before
  it; a name met twice in an included file passes a start and fails a reload; files that include each other in a cycle crash the daemon.
* A daemon that ends while it saves leaves an empty state file, and with it forgets every status (`database.go:168`, `root.go:41-42`).
* A monitor or unmonitor command works on the state file by itself when a daemon runs without a socket
  (`common.go:155-161`), and the next save of the daemon undoes it.
* A start or stop statement whose text holds `group x` is taken for a group: program and timeout are lost
  (`checks.go:610`, `:637`), as with `start program = "/bin/x --group web" with timeout 300 seconds`.
* The expression of `group` swallows the statements after it or ends the definition (`checks.go:610`); an unknown
  statement ends the definition too.  `with timeout` with a negative or overflowing number gives up at once, with
  something else than an integer gives the default.

## 5. Proofs

All statements are for every value of the constants under the named ASSUMEs.

* `DoOnceProofs`.  `TypeCorrect`; `GuardOwned` (`HeldHasOwner`), inductive with the type invariant
  alone: a call that goes away always lowers its flag.  `Exclusive` is not inductive: a stale timer
  function or a flag that is down under an operation would let a second one in.  `IInv` adds `NoLateTimer` (no timer
  function is pending on an id that cannot overrun) and `FreeMeansDone`.
* `TimedDoOnceProofs`.  `OnTime` (no callback is older than its duration plus slack) is
  the invariant behind `FireMeansOverrun`: a timer that has come to its time belongs to an id
  whose timeouts add up to more than the guard's.  From it `ImplementsGuard` (safety part
  of `ImplementsDoOnce`), and through the refinement the exclusion of `DoOnceProofs`: `ExclusiveWhenItFits`.
* `ProcessCheckProofs`.  `StepImplements`: every step is a step of the guard or leaves it alone, so
  `ImplementsGuard` and `DoOnceProofs!IInv` hold.  When `Overrunning = {}` at most one call has a
  callback (`Alone`), and the count is exact (`PInv`): it lags the attempts only while an attempt is waited
  for, and is below the limit unless `Perform` is about to look at it or gives up.  From it
  `AttemptsAreBounded` and `GivingUpIsDeserved`, for every `MaxTries`, number of calls and goroutines.
  `PInv` needs `Alone`: two overlapping Performs both count from the same value.

  `GivenUpForGood` (`GivenUpStays`), under the same assumption and `Prompt`: when `Perform` is about to give up after a timeout no `start()` is still
  to enter, and after it no callback is at a place that spawns one (`Ceased` in `GivenUpInv`) until a command comes.

  `SettledForGood` (`SettledStays`) needs none of that: it holds also when operations overlap.  Its invariant
  (`KindInv`) says that a callback is at a place of its own kind, so that a settled check has no step that starts anything.

  `RestartLeavesMonitored` (`RestartOfRunning`) and `StopLeavesUnmonitored` (`StopOfRunning`) rest on `Alone` and on
  `CalmInv`, which follows the goroutines that an undisturbed operation has spawned: while the service is still up a stop has one
  `stop()` goroutine, which has cleared the flag once it has entered and is gone once the service is down (`OneStopping`), so that a restart spawns
  its `start()` when nothing is left that could stop the service again (`RestartUndisturbed`).  They hold without `Prompt`.
* `ConfigProofs`.  `NamesAreUnique`, for any files and includes: the walker's list is distinct at each step, and what a reload
  adds is a prefix of the validator's list.  `RefusalKeeps`: until the validator has accepted, nothing touches `m.checks`.

  `WalkersAlwaysAgree` (`WalkersAgree`) has no hypothesis.  The parser with its stack and its list is one deterministic machine
  (`Follow`), so that all it can come to from the main file is one set (`From`), with one end (`OneEnd`).  The invariant `AgreeInv` says that
  a daemon has read its main file (`Running`), that the loader is in that set, and the checks it leaves are its end until a
  reload begins (`Loaded`), and that the validator is in the same set when the files are those of the start, its list being
  moved name by name to `m.checks` (`Validated`).

  `OnlyCyclesCrash` (`CrashMeansCycle`): the calls on the stack are of files each of which includes the next (`Chained`); a
  stack longer than the number of files holds one of them twice, and what lies between is a set of files each including one of the set.
* `WaitProofs`.  The invariant `TimerInv` ties the clock to the beginning of the last look: a select that may give up
  follows a look that missed, and what that look missed came up after it began.  From it
  `SuccessIsSeen`, `InTime` (looks shorter than the interval) and `KeepsPromise`, the safety part of `ImplementsWait`.

  `WaitedAsWritten` (`WaitsAsWritten`), for definitions of any length: with groups and texts that fit, each statement is taken for what
  it is (`TakenAsWritten`) and resumes at the next (`ResumesNext`), hence all up to the first unknown one are reached (`ReachedIsKnown`), a product that fits does not
  wrap (`WrapFits`), and the loop answers no at that timeout at the earliest.
* `DaemonProofs`.  Under `StartAlone` and without `Reuse`, for any number of processes and commands: `OnlyOneDaemon`,
  `AlwaysFindable`, `KeepsAcked` and `AnswersAreTrue`.  `OneDaemon` is not inductive: a second start
  is stopped by the pid file alone, so the invariant says whom the pid file names (`Named`), who can
  be around while a daemon starts (`Solo`), that no command works with a pid file that was truncated under it
  (`Aimed`), who listens (`Served`), and what the answers have left behind (`Answered`).  `NoVictims` is part of it, but
  no theorem of its own: its hard cases are those the assumptions keep out.

  `KeepsAcked` follows a promised status on its way (`Kept`): only a daemon that is up or a command by itself writes the file
  (`Writers`), a command has set the flag of a process that is still the same (`Targeted`), and the promise is in the
  daemon's flag, in what is being written and then in the file (`Promise`).  Steps no set command takes part in are dealt with at once (`Apart`).
* `RegistryProofs`.  Under `ReloadAlone`, for any configurations: `OneWriterHolds`.
  The state file has no lock of its own: an updater past its last `Lock` holds the entry of every
  registered check (`Held`), so the entry of the first check keeps a second one out.  That rests on the list it
  ranges over being the list there is (`Tracks`), which a reload under it would change (`Apart`).

  `TypesHold`, and with it `AckedIsSaved` (`AckedSaved`) and `AckedStays` (`AckedHolds`).  A status that was acknowledged can get lost at
  each place it is copied to, so `AckInv` has a part for each: no entry is shared by two names (`Apiece`); entry and check
  of an acknowledged name have its status (`Remembered`), also while a reload makes the checks again
  (`Restores`); what a handler is about to acknowledge is in the check, then in the entry (`Goals`, `Carried`), then in what its
  updater has encoded and the file (`Written`); and a daemon that is dead left a file that has it (`Down`, `AckedSaved`).  They build on
  the invariant of `OneWriterHolds`: a second writer could write an older state over a newer one.

  `UpdatesNeverInterlock` (`NoCircularWait`), for any number of updates over lists of any length.  A wait relates the next check of
  one update to what another has been through, so the invariant counts: an updater has been through the first checks, has the
  rest to do, in their order, and holds no other entry than those of the first (`InOrder`).  The registered checks are those of
  one configuration (`Configured`) and an entry has one name (`Apiece`), so an entry tells a place in the list, and an
  update only waits for one that has fewer checks to do (`WaitsForTheShorter`); the one with the fewest waits for none.
  `DownStaysDown` (`DownAcrossReload`) is about `Reloaded`, for any number of calls, tries, goroutines and commands, with or without
  `Prompt`.  Each of the two objects is an instance of `ProcessCheckProofs`, of which the proof takes the invariants (types and `KindInv`) and
  the step of a settled check (`SettledStep`).  What is new to both is the other object, which moves the service under them
  (`OthersMove`), and that the new one has nothing under way before the reload (`Untouched`), so that the flag it gets decides alone
  whether it is settled.  `ReloadInv` is their conjunction.  `SameOld` and `SameNew` say that the two instances have the same steps.
* `StartupProofs`.  `SocketIsGuarded` (`SocketGuarded`) for every umask: `Listen` binds under the umask that leaves nobody a
  right, and what `chmod` then gives is all the property allows (`SocketInv`).
  `OwnFilesAlwaysServe` (`OwnFilesServe`) keeps for each file what gonit made it with (`OwnFiles`) and when a socket is left over
  (`LeftOver`).  `CheckedRunsStart` (`CheckedStarts`) keeps the result of each check until it is used (`Checked`); it needs that
  nothing of somebody else can be written (`Others`) and that the pid file is gonit's once written (`PidMine`).  `Touches` says who changes which file.

Only model-checked: everything temporal under fairness (`EventuallyFree`, `Settles`, `OperationsEnd`, `OldRetires`,
`ReadingEnds`, `UpdatesEnd`, `EventuallySaved`, `TermEndsDaemon`, the liveness part of both refinements): liveness and ENABLED are
beyond the prover.  `NoVictims` and `DeletesUnknown` have no theorem: what could break them is what `StartAlone` and `ReloadAlone` keep out.  `MeetsReference` compares with a recursive definition, which the prover does not take.
## 6. Not modelled

* The timeouts of client (15 s) and server (10 s), and start, stop and restart without a daemon, which run the operations
  of `ProcessCheck` in the process of the command and save nothing.
* Data races on `m.checks` and `Storage`: steps of the model are atomic, and what the runtime does on a concurrent
  use of a map is to end the daemon, which `Crash` of `Registry` does at any step.
* The regular expressions of the parser but that of `group`; settings of `set` directives; the values of programs and pid files.
* Symbolic links, root, and the contents of files in `Startup`.
* Status, summary, version and validate commands: they change nothing, or are not implemented.
* Logging, formatting, rounding of durations, the entry point, test helpers: output, or no state.

## 7. Plan

1. A client with its timeout against a handler that waits for a lock.
2. The two start programs of one service that a program slower than its timeout makes possible (`checks.go:484`).
