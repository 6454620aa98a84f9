---------------------------- MODULE TimedDoOnce ----------------------------
(***************************************************************************)
(* The guard of DoOnce with the time its callbacks take: which operation   *)
(* may outlive its guard timer, and for which services none does.          *)
(*                                                                         *)
(* The callbacks are the operations of a process check.  Each of them      *)
(* waits for the service at most for the timeouts of its start and stop    *)
(* programs; the guard's timer is set from check.Timeout, which no         *)
(* configuration changes, plus a margin.  One age per call counts the time *)
(* units since its timer was armed.                                        *)
(***************************************************************************)
EXTENDS Naturals

CONSTANTS Ids, Ops, NoId,
          StartTimeout,  \* StartProgram.Timeout of the check of each id
          StopTimeout,   \* StopProgram.Timeout of the check of each id
          CheckTimeout,  \* check.Timeout
          Grace,         \* the 5 seconds doOnce's callers add
          Slack          \* how late a wait may notice its end, at most

ASSUME TimesAssumption ==
  /\ NoId \notin Ids
  /\ StartTimeout \in [Ids -> Nat] /\ StopTimeout \in [Ids -> Nat]
  /\ CheckTimeout \in Nat /\ Grace \in Nat /\ Slack \in Nat

Kinds == {"perform", "start", "stop", "restart"}

(* For how long a callback of kind k on i can run. *)
Duration(k, i) == CASE k \in {"perform", "start"} -> StartTimeout[i]
                    [] k = "stop"                 -> StopTimeout[i]
                    [] k = "restart"              -> StopTimeout[i] + StartTimeout[i]

(* Mutant: the guard's timer is armed without the margin. *)
TimeoutNoGrace == CheckTimeout

(* After how long the guard's timer expires. *)
Timeout == CheckTimeout + Grace

(* The ids with an operation that can be unfinished then. *)
Overrunning == {i \in Ids : StopTimeout[i] + StartTimeout[i] + Slack >= CheckTimeout + Grace}

VARIABLES inProgress, phase, timer, target,
          kind,          \* the operation each call executes
          age            \* time units since its timer was armed

Guard == INSTANCE DoOnce

vars == <<inProgress, phase, timer, target, kind, age>>

Init == /\ Guard!Init
        /\ kind = [o \in Ops |-> "perform"]
        /\ age = [o \in Ops |-> 0]

-----------------------------------------------------------------------------
InTime(o) == phase[o] \in {"running", "returned"}

Deadline(o) == Duration(kind[o], target[o]) + Slack

Take(o, i, k) == /\ Guard!Take(o, i)
                 /\ kind' = [kind EXCEPT ![o] = k]
                 /\ age' = [age EXCEPT ![o] = 0]

Step(o) == /\ \/ Guard!Begin(o) \/ Guard!Return(o) \/ Guard!StopTimer(o)
              \/ Guard!Finish(o) \/ Guard!Release(o)
           /\ UNCHANGED <<kind, age>>

(* The timer never expires early; how late it does is up to the scheduler. *)
Fire(o) == /\ age[o] >= Timeout
           /\ Guard!Fire(o)
           /\ UNCHANGED <<kind, age>>

(* A time unit passes, unless a callback has to return first: its waits    *)
(* are over.                                                               *)
Tick == /\ \E o \in Ops : InTime(o)
        /\ \A o \in Ops : InTime(o) => age[o] < Deadline(o)
        /\ age' = [o \in Ops |-> IF InTime(o) THEN age[o] + 1 ELSE age[o]]
        /\ UNCHANGED <<inProgress, phase, timer, target, kind>>

Next == \/ \E o \in Ops : \/ \E i \in Ids, k \in Kinds : Take(o, i, k)
                          \/ Step(o) \/ Fire(o)
        \/ Tick

Spec == Init /\ [][Next]_vars

(* Time passes and goroutines make progress. *)
FairSpec == Spec /\ WF_vars(Tick) /\ \A o \in Ops : WF_vars(Step(o)) /\ WF_vars(Fire(o))

-----------------------------------------------------------------------------
(* Type invariant. *)
TypeOK == /\ Guard!TypeOK
          /\ kind \in [Ops -> Kinds]
          /\ age \in [Ops -> Nat]

(* A callback with its deferred Stop is never late. *)
OnTime == \A o \in Ops : InTime(o) => age[o] <= Deadline(o)

(* The timed guard is a guard of DoOnce whose Overrunning ids are those    *)
(* computed from the timeouts: a timer never expires on a check whose stop *)
(* and start timeouts add up to less than check.Timeout plus the margin.   *)
ImplementsDoOnce == Guard!FairSpec
=============================================================================
