-------------------------------- MODULE Wait --------------------------------
(***************************************************************************)
(* What the operations of a process check rely on when they wait for the   *)
(* service: a first look, which may miss, later looks, and an answer.  Yes *)
(* is said only while the service is as wanted, no only after a miss and   *)
(* once the timeout is over.                                               *)
(***************************************************************************)
VARIABLES up,       \* the service is in the state that is waited for
          over,     \* the timeout
          place     \* the waiting goroutine

vars == <<up, over, place>>

Answers == {"yes", "no"}

Init == up \in BOOLEAN /\ over \in BOOLEAN /\ place = "first"

Miss == place = "first" /\ ~up /\ place' = "wait" /\ UNCHANGED <<up, over>>

Yes == place \in {"first", "wait"} /\ up /\ place' = "yes" /\ UNCHANGED <<up, over>>

No == place = "wait" /\ over /\ place' = "no" /\ UNCHANGED <<up, over>>

(* The service changes; the timeout passes. *)
Surroundings == up' \in BOOLEAN /\ (over => over') /\ UNCHANGED place

Next == Miss \/ Yes \/ No \/ Surroundings

Spec == Init /\ [][Next]_vars

(* A wait ends. *)
Answered == <>(place \in Answers)

Promise == Spec /\ Answered
=============================================================================
