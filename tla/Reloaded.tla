------------------------------ MODULE Reloaded ------------------------------
(***************************************************************************)
(* One service across a reload: the check object that was registered       *)
(* before it and the one that is after it, two instances of ProcessCheck   *)
(* that share the service, and the entry of the database that carries the  *)
(* status of the one to the other.                                         *)
(*                                                                         *)
(* Nobody waits for the old object: its operations, its goroutines and the *)
(* polls that were spawned for it go on after the reload.  Its unique id   *)
(* is another one, so that the guard knows nothing of them.                *)
(***************************************************************************)
EXTENDS Naturals

CONSTANTS OldId, NewId,  \* unique ids
          NoId, Ops, Prompt, MaxTries, Requests, Switches,
          MaxCommands, MaxCrashes, MaxRoutines, MaxPolls

(* What ProcessCheck assumes, of both objects. *)
ConstantsOK ==
  /\ OldId # NoId /\ NewId # NoId
  /\ Prompt \in BOOLEAN /\ MaxTries \in Nat \ {0}
  /\ Requests \subseteq {"start", "stop", "restart"}
  /\ Switches \subseteq {"monitor", "unmonitor"}
  /\ MaxCommands \in Nat /\ MaxCrashes \in Nat
  /\ MaxRoutines \in Nat \ {0} /\ MaxPolls \in Nat \ {0}

ASSUME ReloadedAssumption == ConstantsOK

VARIABLES running, commands, crashes, lastCommand,   \* of the service
          registered,  \* which object m.checks has
          entry,       \* Monitored of the entry of the service
          oldInProgress, oldPhase, oldTimer, oldTarget, oldKind, oldPc, oldMonitored,
          oldTries, oldRoutines, oldPolls, oldAttempts, oldCalm,
          newInProgress, newPhase, newTimer, newTarget, newKind, newPc, newMonitored,
          newTries, newRoutines, newPolls, newAttempts, newCalm

Old == INSTANCE ProcessCheck WITH
         Check <- OldId, Overrunning <- {},
         inProgress <- oldInProgress, phase <- oldPhase, timer <- oldTimer,
         target <- oldTarget, kind <- oldKind, pc <- oldPc, monitored <- oldMonitored,
         tries <- oldTries, routines <- oldRoutines, polls <- oldPolls,
         attempts <- oldAttempts, calm <- oldCalm

New == INSTANCE ProcessCheck WITH
         Check <- NewId, Overrunning <- {},
         inProgress <- newInProgress, phase <- newPhase, timer <- newTimer,
         target <- newTarget, kind <- newKind, pc <- newPc, monitored <- newMonitored,
         tries <- newTries, routines <- newRoutines, polls <- newPolls,
         attempts <- newAttempts, calm <- newCalm

service == <<running, commands, crashes, lastCommand>>
oldVars == <<oldInProgress, oldPhase, oldTimer, oldTarget, oldKind, oldPc, oldMonitored,
             oldTries, oldRoutines, oldPolls, oldAttempts, oldCalm>>
newVars == <<newInProgress, newPhase, newTimer, newTarget, newKind, newPc, newMonitored,
             newTries, newRoutines, newPolls, newAttempts, newCalm>>
vars == <<service, registered, entry, oldVars, newVars>>

(* The daemon has read the entry. *)
Init == /\ Old!Init /\ New!Init
        /\ registered = "old" /\ entry = oldMonitored /\ newMonitored = oldMonitored

-----------------------------------------------------------------------------
OldRest == UNCHANGED <<registered, entry, newVars>>
NewRest == UNCHANGED <<registered, entry, oldVars>>

(* What was begun with an object goes on whether or not it is registered. *)
OldRun == /\ (\E o \in Ops : Old!Operation(o)) \/ Old!Routine \/ Old!CheckOnce
          /\ OldRest
NewRun == /\ (\E o \in Ops : New!Operation(o)) \/ New!Routine \/ New!CheckOnce
          /\ NewRest

(* Mutant: the loop goes over the checks it was started with. *)
DriveBoth == \/ (Old!Poll \/ Old!Command \/ Old!Crash) /\ OldRest
             \/ registered = "new" /\ (New!Poll \/ New!Command \/ New!Crash) /\ NewRest

(* The loop and the commands find the registered object. *)
Drive == \/ registered = "old" /\ (Old!Poll \/ Old!Command \/ Old!Crash) /\ OldRest
         \/ registered = "new" /\ (New!Poll \/ New!Command \/ New!Crash) /\ NewRest

Registered == IF registered = "old" THEN oldMonitored ELSE newMonitored

(* UpdateDatabase. *)
Save == /\ entry' = Registered
        /\ UNCHANGED <<service, registered, oldVars, newVars>>

(* Mutant: Initialize comes last. *)
ReloadMonitored ==
  /\ registered = "old" /\ registered' = "new"
  /\ newMonitored' = TRUE
  /\ UNCHANGED <<service, entry, oldVars, newInProgress, newPhase, newTimer, newTarget,
                 newKind, newPc, newTries, newRoutines, newPolls, newAttempts, newCalm>>

(* Reload: a new object, with the status of the entry. *)
Reload ==
  /\ registered = "old" /\ registered' = "new"
  /\ newMonitored' = entry
  /\ UNCHANGED <<service, entry, oldVars, newInProgress, newPhase, newTimer, newTarget,
                 newKind, newPc, newTries, newRoutines, newPolls, newAttempts, newCalm>>

Next == OldRun \/ NewRun \/ Drive \/ Save \/ Reload

Spec == Init /\ [][Next]_vars

(* Goroutines and operations go on. *)
FairSpec == Spec /\ WF_vars(OldRun)

-----------------------------------------------------------------------------
OldQuiet == Old!Quiet /\ oldPolls = 0

(* The service is down by command, and saved to be. *)
Down == ~entry /\ Old!Settled /\ (registered = "new" => New!Settled)

(* A service that an unmonitored check watches, with the status saved and  *)
(* what was starting it over, is not started by a reload nor by anything   *)
(* of either object after it, until a command arrives.                     *)
DownAcrossReload ==
  [][Down /\ ~Old!Command /\ ~New!Command => Down' /\ (running' => running)]_vars

(* In the end a replaced object has nothing under way: the service is in   *)
(* the hands of one object (CheckOnce's promise, which the guard cannot    *)
(* keep across a reload).                                                  *)
OldRetires == registered = "new" ~> [](OldQuiet)
=============================================================================
