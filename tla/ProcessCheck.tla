---------------------------- MODULE ProcessCheck ----------------------------
(***************************************************************************)
(* One process check of the running daemon: the service it watches, its    *)
(* monitored flag and its count of failed starts, the operations Perform,  *)
(* Start, Stop and Restart of monitor/checks.go, the goroutines they       *)
(* spawn, the loop that polls the check (monitor.go) and the commands that *)
(* arrive on the HTTP server (server.go).                                  *)
(*                                                                         *)
(* Operations run under the guard of DoOnce.  Start, Stop and Perform do   *)
(* not execute the start and stop programs themselves: each spawns a       *)
(* goroutine (c.start() or c.stop()) that sets the monitored flag, looks   *)
(* at the service and runs the program, and nobody waits for it.           *)
(***************************************************************************)
EXTENDS Naturals

CONSTANTS Check,        \* the unique id of the check object
          Ops,          \* calls of doOnce
          NoId,
          Overrunning,  \* {Check} or {}: may an operation outlive its guard
          Prompt,       \* timing: goroutines enter before a wait times out
          MaxTries,     \* maxStartTries, or CheckMaxStartTries
          Requests,     \* guarded commands a client sends
          Switches,     \* monitor and unmonitor commands a client sends
          MaxCommands,  \* bound: commands in a behaviour
          MaxCrashes,   \* bound: times the service dies by itself
          MaxRoutines,  \* bound: start and stop goroutines at a time
          MaxPolls      \* bound: CheckOnce goroutines waiting to run

ASSUME ProcessAssumption ==
  /\ Check # NoId /\ Overrunning \subseteq {Check}
  /\ Prompt \in BOOLEAN /\ MaxTries \in Nat \ {0}
  /\ Requests \subseteq {"start", "stop", "restart"}
  /\ Switches \subseteq {"monitor", "unmonitor"}
  /\ MaxCommands \in Nat /\ MaxCrashes \in Nat
  /\ MaxRoutines \in Nat \ {0} /\ MaxPolls \in Nat \ {0}

VARIABLES inProgress, phase, timer, target,   \* the guard
          kind,         \* the operation each call executes
          pc,           \* where its callback is
          monitored,    \* check.monitored
          tries,        \* startTriesCnt
          running,      \* the service: IsRunning()
          routines,     \* how many goroutines are at each place of start(), stop()
          polls,        \* CheckOnce goroutines spawned by Monitor.Perform
          commands,     \* commands and crashes still to come
          crashes,
          attempts,     \* history: automatic starts since Perform has last seen
                        \* success or given up
          lastCommand,  \* history: the last command that was carried out, or that
                        \* Perform has given up since
          calm          \* history: nothing disturbs the restart or stop under way

Ids == {Check}
Guard == INSTANCE DoOnce

guardVars == <<inProgress, phase, timer, target>>
checkVars == <<monitored, tries>>
history == <<attempts, lastCommand, calm>>
budgets == <<commands, crashes>>
vars == <<inProgress, phase, timer, target, kind, pc, monitored, tries, running,
          routines, polls, commands, crashes, attempts, lastCommand, calm>>

Kinds == {"perform", "start", "stop", "restart"}

(* The places of a callback.  "...First" is the first look of a wait at    *)
(* the service, "...Wait" the rest of the wait: it has seen the service in *)
(* the wrong state at least once, so that it may time out.                 *)
Places == {"none", "monitored", "running", "performFirst", "performWait", "count",
           "giveUp", "reset", "start", "startFirst", "startWait", "stop",
           "stopFirst", "stopWait"}

Entry == [perform |-> "monitored", start |-> "start", stop |-> "stop", restart |-> "stop"]

(* The places of the goroutines: about to set the flag, about to look at   *)
(* the service, executing the program.                                     *)
Starting == {"start", "startCheck", "startExec"}
Stopping == {"stop", "stopCheck", "stopExec"}

Init == /\ Guard!Init
        /\ kind = [o \in Ops |-> "perform"]
        /\ pc = [o \in Ops |-> "none"]
        /\ monitored \in BOOLEAN /\ running \in BOOLEAN
        /\ tries = 0
        /\ routines = [s \in Starting \cup Stopping |-> 0]
        /\ polls = 0
        /\ commands = MaxCommands /\ crashes = MaxCrashes
        /\ attempts = 0 /\ lastCommand = "none" /\ calm = FALSE

-----------------------------------------------------------------------------
(* Goroutines *)

Spawned == routines["start"] + routines["startCheck"] + routines["startExec"]
           + routines["stop"] + routines["stopCheck"] + routines["stopExec"]

(* go c.start(), go c.stop() *)
Spawn(s) == /\ Spawned < MaxRoutines
            /\ routines' = [routines EXCEPT ![s] = @ + 1]

Leave(s) == routines[s] > 0 /\ routines' = [routines EXCEPT ![s] = @ - 1]

Proceed(s, t) == /\ routines[s] > 0
                 /\ routines' = [routines EXCEPT ![s] = @ - 1, ![t] = @ + 1]

RoutineRest == UNCHANGED <<guardVars, kind, pc, tries, polls, budgets, history>>

(* start(): the check is monitored from here on. *)
startEnter == /\ Proceed("start", "startCheck")
              /\ monitored' = TRUE
              /\ UNCHANGED running /\ RoutineRest

startCheck == /\ \/ running /\ Leave("startCheck")
                 \/ ~running /\ Proceed("startCheck", "startExec")
              /\ UNCHANGED <<monitored, running>> /\ RoutineRest

(* Mutant: the check is monitored once the program has run. *)
startExecMonitors == /\ Leave("startExec")
                     /\ running' \in {running, TRUE} /\ monitored' = TRUE
                     /\ RoutineRest

(* StartProgram.Exec(): the program brings the service up, or fails. *)
startExec == /\ Leave("startExec")
             /\ running' \in {running, TRUE}
             /\ UNCHANGED monitored /\ RoutineRest

(* Mutant: a stop leaves the check monitored. *)
stopEnterKeeps == /\ Proceed("stop", "stopCheck")
                  /\ UNCHANGED <<monitored, running>> /\ RoutineRest

(* stop(): the check is no longer monitored from here on. *)
stopEnter == /\ Proceed("stop", "stopCheck")
             /\ monitored' = FALSE
             /\ UNCHANGED running /\ RoutineRest

stopCheck == /\ \/ ~running /\ Leave("stopCheck")
                \/ running /\ Proceed("stopCheck", "stopExec")
             /\ UNCHANGED <<monitored, running>> /\ RoutineRest

stopExec == /\ Leave("stopExec")
            /\ running' \in {running, FALSE}
            /\ UNCHANGED monitored /\ RoutineRest

Routine == startEnter \/ startCheck \/ startExec \/ stopEnter \/ stopCheck \/ stopExec

-----------------------------------------------------------------------------
(* The guarded operations *)

At(o, p) == phase[o] = "running" /\ pc[o] = p

Goto(o, p) == pc' = [pc EXCEPT ![o] = p] /\ UNCHANGED guardVars

Done(o) == Guard!Return(o) /\ pc' = [pc EXCEPT ![o] = "none"]

(* Mutant: no wait ever times out. *)
TimesOutNever == FALSE

(* The timer of a wait expires.  Waits last seconds: with Prompt, the      *)
(* goroutines spawned before have set the flag by then.                    *)
TimesOut == Prompt => routines["start"] = 0 /\ routines["stop"] = 0

OpRest == UNCHANGED <<kind, running, polls, budgets, lastCommand>>

Begin(o) == /\ Guard!Begin(o)
            /\ pc' = [pc EXCEPT ![o] = Entry[kind[o]]]
            /\ calm' = (/\ running /\ kind[o] \in {"restart", "stop"}
                        /\ \A s \in Stopping : routines[s] = 0
                        /\ kind[o] = "stop" => \A s \in Starting : routines[s] = 0)
            /\ UNCHANGED <<checkVars, routines, attempts>> /\ OpRest

Leaving(o) == /\ Guard!StopTimer(o) \/ Guard!Finish(o) \/ Guard!Expire(o) \/ Guard!Release(o)
              /\ UNCHANGED <<pc, checkVars, routines, attempts, calm>> /\ OpRest

(* Mutant: the monitored flag is not looked at. *)
performMonitoredAlways(o) ==
  /\ At(o, "monitored")
  /\ Goto(o, "running")
  /\ UNCHANGED <<checkVars, routines, attempts, calm>> /\ OpRest

(* Perform: nothing to do unless the check is monitored and not running. *)
performMonitored(o) ==
  /\ At(o, "monitored")
  /\ IF monitored THEN Goto(o, "running") ELSE Done(o)
  /\ UNCHANGED <<checkVars, routines, attempts, calm>> /\ OpRest

performRunning(o) ==
  /\ At(o, "running")
  /\ \/ running /\ Done(o) /\ UNCHANGED <<routines, attempts>>
     \/ ~running /\ Spawn("start") /\ attempts' = attempts + 1 /\ Goto(o, "performFirst")
  /\ UNCHANGED <<checkVars, calm>> /\ OpRest

(* Mutant: success does not clear the count of failed starts. *)
performLookKeepsCount(o) ==
  /\ \/ /\ At(o, "performFirst") \/ At(o, "performWait")
        /\ running
        /\ attempts' = 0
        /\ Goto(o, "count")
     \/ /\ At(o, "performFirst") /\ ~running
        /\ Goto(o, "performWait")
        /\ UNCHANGED attempts
  /\ UNCHANGED <<checkVars, routines, calm>> /\ OpRest

(* The wait of Perform: success clears the count of failed starts, ...     *)
performLook(o) ==
  /\ \/ /\ At(o, "performFirst") \/ At(o, "performWait")
        /\ running
        /\ tries' = 0 /\ attempts' = 0
        /\ Goto(o, "count")
     \/ /\ At(o, "performFirst") /\ ~running
        /\ Goto(o, "performWait")
        /\ UNCHANGED <<tries, attempts>>
  /\ UNCHANGED <<monitored, routines, calm>> /\ OpRest

(* ... and a timeout adds one.  It may win against a service that has come *)
(* up since the last look.                                                 *)
performTimeout(o) ==
  /\ At(o, "performWait") /\ TimesOut
  /\ tries' = tries + 1
  /\ Goto(o, "count")
  /\ UNCHANGED <<monitored, routines, attempts, calm>> /\ OpRest

(* Mutant: one failed start too many. *)
performCountLate(o) ==
  /\ At(o, "count")
  /\ IF tries > MaxTries THEN Goto(o, "giveUp") ELSE Done(o)
  /\ UNCHANGED <<checkVars, routines, attempts, calm>> /\ OpRest

performCount(o) ==
  /\ At(o, "count")
  /\ IF tries >= MaxTries THEN Goto(o, "giveUp") ELSE Done(o)
  /\ UNCHANGED <<checkVars, routines, attempts, calm>> /\ OpRest

(* Mutant: giving up leaves the check monitored. *)
performGiveUpMonitored(o) ==
  /\ At(o, "giveUp")
  /\ lastCommand' = "gaveUp"
  /\ Goto(o, "reset")
  /\ UNCHANGED <<kind, checkVars, running, routines, polls, budgets, attempts, calm>>

performGiveUp(o) ==
  /\ At(o, "giveUp")
  /\ monitored' = FALSE /\ lastCommand' = "gaveUp"
  /\ Goto(o, "reset")
  /\ UNCHANGED <<kind, tries, running, routines, polls, budgets, attempts, calm>>

performReset(o) ==
  /\ At(o, "reset")
  /\ tries' = 0 /\ attempts' = 0
  /\ Done(o)
  /\ UNCHANGED <<monitored, routines, calm>> /\ OpRest

(* Start, also as the second half of Restart. *)
Start(o) ==
  /\ \/ At(o, "start") /\ Spawn("start") /\ Goto(o, "startFirst") /\ UNCHANGED lastCommand
     \/ /\ At(o, "startFirst") /\ ~running /\ Goto(o, "startWait")
        /\ UNCHANGED <<routines, lastCommand>>
     \/ /\ At(o, "startFirst") \/ At(o, "startWait")
        /\ running /\ Done(o)
        /\ lastCommand' = IF kind[o] = "restart" THEN "restarted" ELSE lastCommand
        /\ UNCHANGED routines
     \/ At(o, "startWait") /\ TimesOut /\ Done(o) /\ UNCHANGED <<routines, lastCommand>>
  /\ UNCHANGED <<kind, checkVars, running, polls, budgets, attempts, calm>>

(* Mutant: Restart does not wait for the service to stop. *)
StopUnawaited(o) ==
  /\ \/ At(o, "stop") /\ Spawn("stop")
        /\ Goto(o, IF kind[o] = "restart" THEN "start" ELSE "stopFirst")
     \/ At(o, "stopFirst") /\ running /\ Goto(o, "stopWait") /\ UNCHANGED routines
     \/ /\ At(o, "stopFirst") \/ At(o, "stopWait")
        /\ ~running /\ Done(o) /\ UNCHANGED routines
     \/ At(o, "stopWait") /\ TimesOut /\ Done(o) /\ UNCHANGED routines
  /\ UNCHANGED <<checkVars, attempts, calm>> /\ OpRest

(* Stop; Restart goes on with Start unless the wait timed out. *)
Stop(o) ==
  /\ \/ At(o, "stop") /\ Spawn("stop") /\ Goto(o, "stopFirst")
     \/ At(o, "stopFirst") /\ running /\ Goto(o, "stopWait") /\ UNCHANGED routines
     \/ /\ At(o, "stopFirst") \/ At(o, "stopWait")
        /\ ~running
        /\ IF kind[o] = "restart" THEN Goto(o, "start") ELSE Done(o)
        /\ UNCHANGED routines
     \/ At(o, "stopWait") /\ TimesOut /\ Done(o) /\ UNCHANGED routines
  /\ UNCHANGED <<checkVars, attempts, calm>> /\ OpRest

Perform(o) == \/ performMonitored(o) \/ performRunning(o) \/ performLook(o)
              \/ performTimeout(o) \/ performCount(o) \/ performGiveUp(o)
              \/ performReset(o)

Operation(o) == Begin(o) \/ Leaving(o) \/ Perform(o) \/ Start(o) \/ Stop(o)

-----------------------------------------------------------------------------
(* What drives the operations *)

Take(o, k) == /\ Guard!Take(o, Check)
              /\ kind' = [kind EXCEPT ![o] = k]
              /\ UNCHANGED <<pc, checkVars, running, routines, attempts, calm>>

(* Monitor.Perform sees a monitored check: go CheckOnce(c). *)
Poll == /\ monitored /\ polls < MaxPolls
        /\ polls' = polls + 1
        /\ UNCHANGED <<guardVars, kind, pc, checkVars, running, routines, budgets, history>>

(* CheckOnce finds the guard free, or gives up. *)
CheckOnce == /\ polls > 0 /\ polls' = polls - 1
             /\ UNCHANGED <<budgets, lastCommand>>
             /\ \/ \E o \in Ops : Take(o, "perform")
                \/ /\ inProgress[Check]
                   /\ UNCHANGED <<guardVars, kind, pc, checkVars, running, routines,
                                  attempts, calm>>

(* A start, stop or restart command that the guard lets in.  One that it   *)
(* refuses is answered "Other action already in progress".                 *)
Request(o, k) == /\ commands > 0 /\ commands' = commands - 1
                 /\ Take(o, k)
                 /\ lastCommand' = k
                 /\ UNCHANGED <<polls, crashes>>

(* monitor and unmonitor do not ask the guard. *)
Switch(k) == /\ commands > 0 /\ commands' = commands - 1
             /\ monitored' = (k = "monitor")
             /\ lastCommand' = k /\ calm' = FALSE
             /\ UNCHANGED <<guardVars, kind, pc, tries, running, routines, polls,
                            crashes, attempts>>

(* The service dies by itself. *)
Crash == /\ crashes > 0 /\ crashes' = crashes - 1
         /\ running /\ running' = FALSE
         /\ calm' = FALSE
         /\ UNCHANGED <<guardVars, kind, pc, checkVars, routines, polls, commands,
                        attempts, lastCommand>>

Command == \/ \E o \in Ops, k \in Requests : Request(o, k)
           \/ \E k \in Switches : Switch(k)

Next == \/ \E o \in Ops : Operation(o)
        \/ Routine \/ Poll \/ CheckOnce \/ Command \/ Crash

Spec == Init /\ [][Next]_vars

(* The loop keeps polling, goroutines run, every wait ends at its timeout  *)
(* and the start and stop programs end.  Commands, crashes and a program's *)
(* success are not promised.                                               *)
FairSpec == /\ Spec
            /\ \A o \in Ops : WF_vars(Operation(o))
            /\ WF_vars(startEnter) /\ WF_vars(startCheck) /\ WF_vars(startExec)
            /\ WF_vars(stopEnter) /\ WF_vars(stopCheck) /\ WF_vars(stopExec)
            /\ WF_vars(Poll) /\ WF_vars(CheckOnce)

-----------------------------------------------------------------------------
(* Type invariant. *)
TypeOK == /\ Guard!TypeOK
          /\ kind \in [Ops -> Kinds] /\ pc \in [Ops -> Places]
          /\ \A o \in Ops : pc[o] # "none" <=> phase[o] = "running"
          /\ monitored \in BOOLEAN /\ running \in BOOLEAN
          /\ tries \in Nat /\ attempts \in Nat
          /\ routines \in [Starting \cup Stopping -> Nat] /\ Spawned <= MaxRoutines
          /\ polls \in 0..MaxPolls
          /\ commands \in 0..MaxCommands /\ crashes \in 0..MaxCrashes
          /\ lastCommand \in Kinds \cup {"none", "monitor", "unmonitor", "restarted", "gaveUp"}
          /\ calm \in BOOLEAN

(* Nothing of an operation is left. *)
Quiet == Spawned = 0 /\ \A o \in Ops : phase[o] = "idle"

(* A call that can no longer start the service. *)
Harmless(o) == \/ phase[o] \in {"idle", "returned", "stopped"}
               \/ kind[o] = "perform" /\ pc[o] \in {"none", "monitored"}
               \/ kind[o] = "stop"

(* The check is unmonitored and nothing that was under way before can      *)
(* change that.                                                            *)
Settled == /\ ~monitored
           /\ \A s \in Starting : routines[s] = 0
           /\ \A o \in Ops : Harmless(o)

(* A check that is unmonitored, with the goroutines that were starting it  *)
(* over, stays so and its service is not started, by whatever polls,       *)
(* crashes and operations, until a command arrives (doc of                 *)
(* check.monitored).                                                       *)
SettledStays == [][Settled /\ ~Command => Settled' /\ (running' => running)]_vars

(* A service that cannot be started is not started for ever: at most       *)
(* MaxTries automatic attempts are made before one succeeds or Perform     *)
(* gives up, and unmonitors the check (doc of CheckMaxStartTries).         *)
AttemptsBounded == attempts <= MaxTries

(* Giving up lasts: until a command comes the check stays unmonitored, so  *)
(* that no further attempt is made, although the last start() may still be *)
(* running.  It holds with Prompt only.                                    *)
GivenUpStays == lastCommand = "gaveUp" => ~monitored

(* Giving up is deserved: Perform unmonitors the check only after MaxTries *)
(* automatic attempts without a success among them.                        *)
GiveUpDeserved == \A o \in Ops : pc[o] = "giveUp" => attempts >= MaxTries

(* A restart that found the service running, met no crash and no monitor   *)
(* or unmonitor command and brought the service up leaves it monitored (or *)
(* about to be), and with no goroutine that would stop it again.           *)
RestartOfRunning ==
  [][\A o \in Ops :
       (/\ kind[o] = "restart" /\ pc[o] \in {"startFirst", "startWait"}
        /\ calm /\ running /\ phase'[o] = "returned")
       => /\ monitored' \/ routines'["start"] > 0
          /\ \A s \in Stopping : routines'[s] = 0]_vars

(* A stop that found the service running, and met no crash and no monitor  *)
(* or unmonitor command, has cleared the flag when it returns with the     *)
(* service down: no poll starts it again.                                  *)
StopOfRunning ==
  [][\A o \in Ops :
       kind[o] = "stop" /\ phase[o] = "running" /\ calm /\ ~running /\ phase'[o] = "returned"
       => ~monitored' /\ \A s \in Starting : routines'[s] = 0]_vars

(* When commands and crashes have ceased, the service ends up running, or  *)
(* the check unmonitored.                                                  *)
Settles == <>[](running \/ ~monitored)

(* Every operation that was admitted ends, and the guard with it. *)
OperationsEnd == \A o \in Ops : phase[o] # "idle" ~> phase[o] = "idle"

(* Doc of check.monitored: what is not monitored won't be automatically    *)
(* started.  After an unmonitor command, once everything under way is      *)
(* over, the check is still unmonitored.                                   *)
UnmonitorSticks == Quiet /\ lastCommand = "unmonitor" => ~monitored
=============================================================================
