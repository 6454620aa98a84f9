------------------------------- MODULE DoOnce -------------------------------
(***************************************************************************)
(* The per-check execution guard: doOnce and checkState of                 *)
(* monitor/checks.go.  Every command of the HTTP server on a service and   *)
(* every periodic check goes through doOnce(id, cb, timeout): it takes the *)
(* in-progress flag of id, runs cb in a goroutine of its own and frees the *)
(* flag when cb returns, or when a timer expires first.                    *)
(*                                                                         *)
(* Time is left out: Overrunning is the set of ids for which some callback *)
(* may still be unfinished when its timer expires.  TimedDoOnce computes   *)
(* that set from the durations and implements this module.                 *)
(*                                                                         *)
(* A member of Ops is one call of doOnce, reused once the call has left    *)
(* nothing behind (neither its goroutine nor a pending timer function).    *)
(***************************************************************************)
CONSTANTS Ids,          \* unique ids of the check objects (GetUniqueID)
          Ops,          \* calls of doOnce that can be around at a time
          NoId,         \* not an id: the call is not in use
          Overrunning   \* ids whose callbacks may outlive their timer

ASSUME IdsAssumption == NoId \notin Ids /\ Overrunning \subseteq Ids

VARIABLES inProgress,   \* checkStates: the flag of every id
          phase,        \* where the goroutine of each call is
          timer,        \* the time.AfterFunc timer of each call
          target        \* the id each call works on

vars == <<inProgress, phase, timer, target>>

(* "accepted": go func() issued, timer not armed; "running": cb executes;  *)
(* "returned": cb is back, timer.Stop() is next; "stopped": timer.Stop()   *)
(* is done, cleanUp() is next.                                             *)
Phases == {"idle", "accepted", "running", "returned", "stopped"}

(* A timer that is "fired" has a goroutine that is still to call cleanUp. *)
Timers == {"unset", "armed", "fired"}

Init == /\ inProgress = [i \in Ids |-> FALSE]
        /\ phase = [o \in Ops |-> "idle"]
        /\ timer = [o \in Ops |-> "unset"]
        /\ target = [o \in Ops |-> NoId]

-----------------------------------------------------------------------------
Unused(o) == phase[o] = "idle" /\ timer[o] = "unset"

(* Mutant: the flag is set without being tested. *)
TakeUntested(o, i) ==
  /\ Unused(o)
  /\ inProgress' = [inProgress EXCEPT ![i] = TRUE]
  /\ phase' = [phase EXCEPT ![o] = "accepted"]
  /\ target' = [target EXCEPT ![o] = i]
  /\ UNCHANGED timer

(* doOnce finds the flag free.  A call that finds it taken returns        *)
(* blocked = true and changes nothing.                                     *)
Take(o, i) ==
  /\ Unused(o)
  /\ ~inProgress[i]
  /\ inProgress' = [inProgress EXCEPT ![i] = TRUE]
  /\ phase' = [phase EXCEPT ![o] = "accepted"]
  /\ target' = [target EXCEPT ![o] = i]
  /\ UNCHANGED timer

(* Mutant: the timer is never armed. *)
BeginUntimed(o) ==
  /\ phase[o] = "accepted"
  /\ phase' = [phase EXCEPT ![o] = "running"]
  /\ UNCHANGED <<inProgress, timer, target>>

(* The goroutine starts: the timer is armed and cb is called. *)
Begin(o) ==
  /\ phase[o] = "accepted"
  /\ phase' = [phase EXCEPT ![o] = "running"]
  /\ timer' = [timer EXCEPT ![o] = "armed"]
  /\ UNCHANGED <<inProgress, target>>

Return(o) ==
  /\ phase[o] = "running"
  /\ phase' = [phase EXCEPT ![o] = "returned"]
  /\ UNCHANGED <<inProgress, timer, target>>

(* timer.Stop(): too late for a timer that has already fired. *)
StopTimer(o) ==
  /\ phase[o] = "returned"
  /\ phase' = [phase EXCEPT ![o] = "stopped"]
  /\ timer' = IF timer[o] = "armed" THEN [timer EXCEPT ![o] = "unset"] ELSE timer
  /\ UNCHANGED <<inProgress, target>>

(* Mutant: the flag stays up. *)
cleanUpNothing(o) == UNCHANGED inProgress

(* The flag goes down whoever has taken it meanwhile. *)
cleanUp(o) == inProgress' = [inProgress EXCEPT ![target[o]] = FALSE]

(* cleanUp() of the deferred function; the goroutine ends. *)
Finish(o) ==
  /\ phase[o] = "stopped"
  /\ cleanUp(o)
  /\ phase' = [phase EXCEPT ![o] = "idle"]
  /\ target' = IF timer[o] = "unset" THEN [target EXCEPT ![o] = NoId] ELSE target
  /\ UNCHANGED timer

(* The timer expires: its function gets a goroutine of its own. *)
Fire(o) ==
  /\ timer[o] = "armed"
  /\ timer' = [timer EXCEPT ![o] = "fired"]
  /\ UNCHANGED <<inProgress, phase, target>>

Expire(o) == target[o] \in Overrunning /\ Fire(o)

(* cleanUp() of the timer function. *)
Release(o) ==
  /\ timer[o] = "fired"
  /\ cleanUp(o)
  /\ timer' = [timer EXCEPT ![o] = "unset"]
  /\ target' = IF phase[o] = "idle" THEN [target EXCEPT ![o] = NoId] ELSE target
  /\ UNCHANGED phase

Next == \E o \in Ops : \/ \E i \in Ids : Take(o, i)
                       \/ Begin(o) \/ Return(o) \/ StopTimer(o) \/ Finish(o)
                       \/ Expire(o) \/ Release(o)

Spec == Init /\ [][Next]_vars

(* Goroutines and timers make progress.  A callback is only trusted to     *)
(* return when it cannot outlive its timer.                                *)
Fairness ==
  \A o \in Ops :
    /\ WF_vars(Begin(o)) /\ WF_vars(StopTimer(o)) /\ WF_vars(Finish(o))
    /\ WF_vars(Expire(o)) /\ WF_vars(Release(o))
    /\ WF_vars(target[o] \notin Overrunning /\ Return(o))

FairSpec == Spec /\ Fairness

-----------------------------------------------------------------------------
(* Type invariant. *)
TypeOK == /\ inProgress \in [Ids -> BOOLEAN]
          /\ phase \in [Ops -> Phases]
          /\ timer \in [Ops -> Timers]
          /\ target \in [Ops -> Ids \cup {NoId}]
          /\ \A o \in Ops : ~Unused(o) => target[o] \in Ids

(* The calls whose goroutine exists and works on i. *)
Active(i) == {o \in Ops : phase[o] # "idle" /\ target[o] = i}

(* No flag is left up by nobody: the flag of an id is only up while the    *)
(* goroutine of some call on that id is still to lower it, however the     *)
(* expirations and the deferred clean-ups of other calls interleave.       *)
HeldHasOwner == \A i \in Ids : inProgress[i] => Active(i) # {}

(* What doOnce is for: the operations on a check whose callbacks end       *)
(* before the timer expires never overlap, so neither do two commands, nor *)
(* a command and a periodic check (doc of CheckOnce).                      *)
Exclusive == \A i \in Ids \ Overrunning :
               \A o, p \in Active(i) : o = p

(* The flag of such a check is not lowered under an operation: whoever     *)
(* sees the flag down sees no callback of that id in execution.            *)
FreeMeansDone == \A i \in Ids \ Overrunning : ~inProgress[i] => Active(i) = {}

(* A taken flag is always freed again: by the callback that returns or, if *)
(* it never does, by the timer.  No check is blocked for ever.             *)
EventuallyFree == \A i \in Ids : inProgress[i] ~> ~inProgress[i]
=============================================================================
