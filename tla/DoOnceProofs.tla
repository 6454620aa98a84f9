---------------------------- MODULE DoOnceProofs ----------------------------
(***************************************************************************)
(* What DoOnce guarantees for any number of checks and of calls.           *)
(***************************************************************************)
EXTENDS DoOnce, TLAPS

(* A timer function is never left to run on an id that cannot overrun. *)
NoLateTimer == \A o \in Ops : target[o] \in Ids \ Overrunning => timer[o] # "fired"

(* The inductive invariant.  Exclusive alone is not inductive: a stale     *)
(* timer function, or a flag that is down under an operation, would let a  *)
(* second operation in.                                                    *)
IInv == TypeOK /\ NoLateTimer /\ FreeMeansDone /\ Exclusive

LEMMA NextTypeOK == TypeOK /\ [Next]_vars => TypeOK'
  <1> SUFFICES ASSUME TypeOK, [Next]_vars PROVE TypeOK'
    OBVIOUS
  <1> USE DEF TypeOK, Phases, Timers, Unused
  <1>1. ASSUME NEW o \in Ops, NEW i \in Ids, Take(o, i) PROVE TypeOK'
    BY <1>1 DEF Take
  <1>2. ASSUME NEW o \in Ops, Begin(o) PROVE TypeOK'
    BY <1>2 DEF Begin
  <1>3. ASSUME NEW o \in Ops, Return(o) PROVE TypeOK'
    BY <1>3 DEF Return
  <1>4. ASSUME NEW o \in Ops, StopTimer(o) PROVE TypeOK'
    BY <1>4 DEF StopTimer
  <1>5. ASSUME NEW o \in Ops, Finish(o) PROVE TypeOK'
    BY <1>5 DEF Finish, cleanUp
  <1>6. ASSUME NEW o \in Ops, Expire(o) PROVE TypeOK'
    BY <1>6 DEF Expire, Fire
  <1>7. ASSUME NEW o \in Ops, Release(o) PROVE TypeOK'
    BY <1>7 DEF Release, cleanUp
  <1>8. CASE UNCHANGED vars
    BY <1>8 DEF vars
  <1>9. QED
    BY <1>1, <1>2, <1>3, <1>4, <1>5, <1>6, <1>7, <1>8 DEF Next

(* The type invariant holds of every call, whatever the timers do. *)
THEOREM TypeCorrect == Spec => []TypeOK
  <1>1. Init => TypeOK
    BY DEF Init, TypeOK, Phases, Timers, Unused
  <1>2. QED
    BY <1>1, NextTypeOK, PTL DEF Spec

(* A flag is never left up by nobody: while it is up, the goroutine of a   *)
(* call is still to lower it.                                              *)
THEOREM GuardOwned == Spec => []HeldHasOwner
  <1>1. Init => HeldHasOwner
    BY DEF Init, HeldHasOwner
  <1>2. TypeOK /\ HeldHasOwner /\ [Next]_vars => HeldHasOwner'
    <2> SUFFICES ASSUME TypeOK, HeldHasOwner, [Next]_vars,
                        NEW i \in Ids, inProgress'[i]
                 PROVE  \E o \in Ops : phase'[o] # "idle" /\ target'[o] = i
      BY DEF HeldHasOwner, Active
    <2>1. inProgress[i] => \E o \in Ops : phase[o] # "idle" /\ target[o] = i
      BY DEF HeldHasOwner, Active
    <2> USE DEF TypeOK, Phases, Timers, Unused
    <2>2. ASSUME NEW o \in Ops, NEW j \in Ids, Take(o, j)
          PROVE  \E p \in Ops : phase'[p] # "idle" /\ target'[p] = i
      BY <2>1, <2>2 DEF Take
    <2>3. ASSUME NEW o \in Ops, Begin(o) \/ Return(o) \/ StopTimer(o) \/ Expire(o)
          PROVE  \E p \in Ops : phase'[p] # "idle" /\ target'[p] = i
      BY <2>1, <2>3 DEF Begin, Return, StopTimer, Expire, Fire
    <2>4. ASSUME NEW o \in Ops, Finish(o)
          PROVE  \E p \in Ops : phase'[p] # "idle" /\ target'[p] = i
      BY <2>1, <2>4 DEF Finish, cleanUp
    <2>5. ASSUME NEW o \in Ops, Release(o)
          PROVE  \E p \in Ops : phase'[p] # "idle" /\ target'[p] = i
      BY <2>1, <2>5 DEF Release, cleanUp
    <2>6. CASE UNCHANGED vars
      BY <2>1, <2>6 DEF vars
    <2>7. QED
      BY <2>2, <2>3, <2>4, <2>5, <2>6 DEF Next
  <1>3. QED
    BY <1>1, <1>2, TypeCorrect, PTL DEF Spec

-----------------------------------------------------------------------------
LEMMA InitIInv == Init => IInv
  BY IdsAssumption
  DEF Init, IInv, TypeOK, NoLateTimer, FreeMeansDone, Exclusive, Active, Phases,
      Timers, Unused

LEMMA NextIInv == IInv /\ TypeOK' /\ [Next]_vars => IInv'
  <1> SUFFICES ASSUME IInv, TypeOK', [Next]_vars PROVE IInv'
    OBVIOUS
  <1> USE IdsAssumption DEF IInv, TypeOK, Phases, Timers, Unused, NoLateTimer,
                            FreeMeansDone, Exclusive, Active
  <1>1. ASSUME NEW o \in Ops, NEW i \in Ids, Take(o, i) PROVE IInv'
    <2>1. NoLateTimer'
      BY <1>1 DEF Take
    <2>2. FreeMeansDone'
      BY <1>1 DEF Take
    <2>3. i \notin Overrunning => \A p \in Ops : phase[p] = "idle" \/ target[p] # i
      BY <1>1 DEF Take
    <2>4. Exclusive'
      BY <1>1, <2>3 DEF Take
    <2>5. QED
      BY <2>1, <2>2, <2>4
  <1>2. ASSUME NEW o \in Ops, Begin(o) PROVE IInv'
    BY <1>2 DEF Begin
  <1>3. ASSUME NEW o \in Ops, Return(o) PROVE IInv'
    BY <1>3 DEF Return
  <1>4. ASSUME NEW o \in Ops, StopTimer(o) PROVE IInv'
    BY <1>4 DEF StopTimer
  <1>5. ASSUME NEW o \in Ops, Finish(o) PROVE IInv'
    <2>1. NoLateTimer'
      BY <1>5 DEF Finish
    <2>2. \A p \in Ops : target'[p] = target[p] \/ (p = o /\ phase'[p] = "idle")
      BY <1>5 DEF Finish
    <2>3. FreeMeansDone'
      BY <1>5, <2>2 DEF Finish, cleanUp
    <2>4. Exclusive'
      BY <1>5, <2>2 DEF Finish
    <2>5. QED
      BY <2>1, <2>3, <2>4
  <1>6. ASSUME NEW o \in Ops, Expire(o) PROVE IInv'
    BY <1>6 DEF Expire, Fire
  <1>7. ASSUME NEW o \in Ops, Release(o) PROVE IInv'
    <2>1. target[o] \in Overrunning
      BY <1>7 DEF Release
    <2>2. \A p \in Ops : target'[p] = target[p] \/ (p = o /\ phase'[p] = "idle")
      BY <1>7 DEF Release
    <2>3. NoLateTimer'
      BY <1>7 DEF Release
    <2>4. FreeMeansDone'
      BY <1>7, <2>1, <2>2 DEF Release, cleanUp
    <2>5. Exclusive'
      BY <1>7, <2>2 DEF Release
    <2>6. QED
      BY <2>3, <2>4, <2>5
  <1>8. CASE UNCHANGED vars
    BY <1>8 DEF vars
  <1>9. QED
    BY <1>1, <1>2, <1>3, <1>4, <1>5, <1>6, <1>7, <1>8 DEF Next

LEMMA IInvHolds == Spec => []IInv
  BY InitIInv, NextIInv, TypeCorrect, PTL DEF Spec

(* The operations on a check whose callbacks fit their timer exclude each *)
(* other, for any number of checks and of calls.                           *)
THEOREM GuardExclusive == Spec => []Exclusive
  <1>1. IInv => Exclusive
    BY DEF IInv
  <1>2. QED
    BY <1>1, IInvHolds, PTL

(* The flag of such a check is only down when no operation is under way. *)
THEOREM GuardFreeMeansDone == Spec => []FreeMeansDone
  <1>1. IInv => FreeMeansDone
    BY DEF IInv
  <1>2. QED
    BY <1>1, IInvHolds, PTL
=============================================================================
