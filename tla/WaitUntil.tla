----------------------------- MODULE WaitUntil ------------------------------
(***************************************************************************)
(* utils.WaitUntil, and the same loop written out in ProcessCheck.Perform: *)
(* a look at the service, a select over the two timers, and again.  The    *)
(* clock starts with the wait; a look takes time, and the service may      *)
(* change at any time.  The timeout is the one the definition of the       *)
(* process gives its start or stop program.                                *)
(***************************************************************************)
EXTENDS Definition

CONSTANTS Definitions,   \* sequences of statements
          Interval,      \* checkInterval, iterationTime
          LongestLook    \* how long a call of cb may take

ASSUME WaitAssumption == /\ Definitions \subseteq Seq(Statement)
                         /\ Interval \in Nat \ {0} /\ LongestLook \in Nat

VARIABLES def,       \* the definition
          program,   \* the program that was run: "start" or "stop"
          up,        \* what cb() would answer
          place,     \* in cb(), in the select, or the answer
          now,       \* the clock
          began,     \* when the look began
          iterator,  \* when iteratorTimer fires
          missed,    \* history: a look has missed
          since      \* history: when the service came up last

timers == <<now, iterator>>
vars == <<def, program, up, place, now, began, iterator, missed, since>>

timeout == Timeout(def, program)

Init == /\ def \in Definitions /\ program \in {"start", "stop"}
        /\ up \in BOOLEAN /\ missed = FALSE
        /\ place = "look" /\ now = 0 /\ began = 0 /\ since = 0
        /\ iterator = Interval

(* Mutant: only the first look counts. *)
LookOnce == /\ place = "look"
            /\ place' = IF up /\ ~missed THEN "yes" ELSE "select"
            /\ missed' = (missed \/ ~up)
            /\ UNCHANGED <<def, program, up, timers, began, since>>

(* cb() returns. *)
Look == /\ place = "look"
        /\ place' = IF up THEN "yes" ELSE "select"
        /\ missed' = (missed \/ ~up)
        /\ UNCHANGED <<def, program, up, timers, began, since>>

(* A timer is ready: a timeout that is not positive is from the beginning. *)
Ticked == now >= iterator

(* Mutant: one more iteration is granted. *)
ExpiredLate == now >= timeout + Interval

Expired == now >= timeout

(* Another iteration; with both timers ready the select takes either. *)
Iterate == /\ place = "select" /\ Ticked
           /\ place' = "look" /\ began' = now
           /\ iterator' = now + Interval
           /\ UNCHANGED <<def, program, up, now, missed, since>>

(* Mutant: the timeout interrupts a look, be it the first. *)
GiveUpUnlooked == /\ place \in {"look", "select"} /\ Expired
                  /\ place' = "no"
                  /\ UNCHANGED <<def, program, up, timers, began, missed, since>>

(* The timeout; the service is not looked at again. *)
GiveUp == /\ place = "select" /\ Expired
          /\ place' = "no"
          /\ UNCHANGED <<def, program, up, timers, began, missed, since>>

(* Time passes while cb() takes it and while no timer is ready. *)
Tick == /\ \/ place = "look" /\ now < began + LongestLook
           \/ place = "select" /\ ~Ticked /\ ~Expired
        /\ now' = now + 1
        /\ UNCHANGED <<def, program, up, place, began, iterator, missed, since>>

(* The service comes up or goes down. *)
Change == /\ place \in {"look", "select"}
          /\ up' = ~up /\ since' = now
          /\ UNCHANGED <<def, program, place, timers, began, missed>>

Step == Look \/ Iterate \/ GiveUp

Next == Step \/ Tick \/ Change

Spec == Init /\ [][Next]_vars

(* The goroutine runs, and time goes on. *)
FairSpec == Spec /\ WF_vars(Step) /\ WF_vars(Tick)

-----------------------------------------------------------------------------
(* Type invariant. *)
TypeOK == /\ def \in Definitions /\ program \in {"start", "stop"}
          /\ up \in BOOLEAN /\ missed \in BOOLEAN
          /\ place \in {"look", "select", "yes", "no"}
          /\ now \in Nat /\ began \in 0..now /\ since \in 0..now
          /\ iterator \in Nat /\ iterator <= now + Interval

(* The places of Wait. *)
placeOfWait == IF place \in {"yes", "no"} THEN place ELSE IF missed THEN "wait" ELSE "first"

Promised == INSTANCE Wait WITH over <- Expired, place <- placeOfWait

(* The loop keeps the promise the operations of a process check rely on.   *)
ImplementsWait == Promised!Promise

Later(a, b) == IF a > b THEN a ELSE b

(* The answer is late by no more than a look: what the timer of the guard  *)
(* has to allow for, the Slack of TimedDoOnce.                             *)
AnswersInTime == now <= Later(timeout, 0) + LongestLook

(* A service that has been up for longer than an interval or a look is not *)
(* reported as failed, however the timers of the loop fall (WaitUntil does not look *)
(* again when its timeout is over).                                        *)
SuccessSeen == place = "no" /\ up => now - since <= Later(Interval, LongestLook)

-----------------------------------------------------------------------------
(* What a definition says, read without the loop of Parse. *)

(* A group statement does no harm: its name has no `s`, and it is the last *)
(* or one of a program follows.                                            *)
GroupsFit(d) ==
  \A i \in DOMAIN d : d[i].kind = "group" =>
    d[i].s = "none" /\ (i = Len(d) \/ d[i + 1].kind \in {"start", "stop"})

(* The text of a statement does no harm: no program holds a group, nor a   *)
(* stop a start, and no condition a program.                               *)
TextsFit(d) ==
  \A i \in DOMAIN d : d[i].holds \subseteq CASE d[i].kind = "start" -> {"start", "stop"}
                                             [] d[i].kind = "stop" -> {"stop"}
                                             [] OTHER -> {"group"}

(* The last timeout written for the program, before what is not known. *)
Written(d, k) ==
  LET at == {i \in DOMAIN d : d[i].kind = k /\ \A j \in 1..i : d[j].kind # "unknown"} IN
    IF at = {} THEN None ELSE d[Max(at)].timeout

Length(t) == IF t \in {None, Malformed} THEN CheckTimeout ELSE t.n * Unit[t.unit]

(* Doc of Parse: it loads the specified settings.  They are in force when  *)
(* groups and texts fit and the timeout is a positive int, and a service is given    *)
(* that much time.                                                         *)
WaitsAsWritten ==
  LET t == Written(def, program) IN
    place = "no" /\ GroupsFit(def) /\ TextsFit(def) /\ Length(t) \in 1..Largest => now >= Length(t)
=============================================================================
