------------------------- MODULE TimedDoOnceProofs -------------------------
(***************************************************************************)
(* The timed guard implements DoOnce for every choice of the timeouts, so  *)
(* that the operations on a check that fit its guard timer never overlap.  *)
(***************************************************************************)
EXTENDS TimedDoOnce, TLAPS

GuardProofs == INSTANCE DoOnceProofs

LEMMA GuardConstants == NoId \notin Ids /\ Overrunning \subseteq Ids
  BY TimesAssumption DEF Overrunning

LEMMA DurationBound ==
  ASSUME NEW k \in Kinds, NEW i \in Ids
  PROVE  /\ Duration(k, i) \in Nat
         /\ Duration(k, i) <= StopTimeout[i] + StartTimeout[i]
  <1>1. StopTimeout[i] \in Nat /\ StartTimeout[i] \in Nat
    BY TimesAssumption
  <1>2. QED
    BY <1>1, TimesAssumption DEF Duration, Kinds

(* Ages are kept within the deadlines, and a timer is only armed while its *)
(* callback, or the Stop deferred behind it, is still to come.             *)
TInv == /\ TypeOK
        /\ OnTime
        /\ \A o \in Ops : /\ timer[o] = "armed" => InTime(o)
                          /\ phase[o] = "accepted" => age[o] = 0

LEMMA InitTypeOK == Init => TypeOK
  BY DEF Init, TypeOK, Kinds, Guard!Init, Guard!TypeOK, Guard!Phases, Guard!Timers, Guard!Unused

(* The timer function is here any one that is armed, on time or not. *)
LEMMA GuardTypes ==
  ASSUME Guard!TypeOK, NEW o \in Ops,
         \/ \E i \in Ids : Guard!Take(o, i)
         \/ Guard!Begin(o) \/ Guard!Return(o) \/ Guard!StopTimer(o)
         \/ Guard!Finish(o) \/ Guard!Release(o) \/ Guard!Fire(o)
  PROVE  Guard!TypeOK'
  <1> USE DEF Guard!TypeOK, Guard!Phases, Guard!Timers, Guard!Unused
  <1>take. CASE \E i \in Ids : Guard!Take(o, i)
    BY <1>take DEF Guard!Take
  <1>callback. CASE Guard!Begin(o) \/ Guard!Return(o) \/ Guard!StopTimer(o)
    BY <1>callback DEF Guard!Begin, Guard!Return, Guard!StopTimer
  <1>lower. CASE Guard!Finish(o) \/ Guard!Release(o)
    BY <1>lower DEF Guard!Finish, Guard!Release, Guard!cleanUp
  <1>fire. CASE Guard!Fire(o)
    BY <1>fire DEF Guard!Fire
  <1> QED BY <1>take, <1>callback, <1>lower, <1>fire

LEMMA NextTypeOK ==
  ASSUME TypeOK, [Next]_vars
  PROVE  TypeOK'
  <1>call. ASSUME NEW o \in Ops, (\E i \in Ids, k \in Kinds : Take(o, i, k)) \/ Step(o) \/ Fire(o)
           PROVE  TypeOK'
    <2>guard. Guard!TypeOK'
      BY <1>call, GuardTypes DEF TypeOK, Take, Step, Fire
    <2>times. kind' \in [Ops -> Kinds] /\ age' \in [Ops -> Nat]
      BY <1>call DEF TypeOK, Take, Step, Fire
    <2> QED BY <2>guard, <2>times DEF TypeOK
  <1>still. CASE Tick \/ UNCHANGED vars
    <2>guard. UNCHANGED <<inProgress, phase, timer, target, kind>>
      BY <1>still DEF Tick, vars
    <2>times. age' \in [Ops -> Nat]
      BY <1>still DEF Tick, vars, TypeOK
    <2> QED BY <2>guard, <2>times DEF TypeOK, Guard!TypeOK, Guard!Unused
  <1> QED BY <1>call, <1>still DEF Next

(* The type invariant, for every choice of the timeouts: the guard's own   *)
(* types, a kind for each call and an age in time units.                   *)
THEOREM TypeCorrect == Spec => []TypeOK
  BY InitTypeOK, NextTypeOK, PTL DEF Spec

-----------------------------------------------------------------------------
LEMMA InitTInv == Init => TInv
  BY TimesAssumption
  DEF Init, TInv, TypeOK, OnTime, InTime, Kinds, Guard!Init, Guard!TypeOK,
      Guard!Phases, Guard!Timers, Guard!Unused

LEMMA NextTInv == TInv /\ TypeOK' /\ [Next]_vars => TInv'
  <1> SUFFICES ASSUME TInv, TypeOK', [Next]_vars PROVE TInv'
    OBVIOUS
  <1> USE DEF TInv, TypeOK, OnTime, InTime, Deadline, Guard!TypeOK, Guard!Phases,
              Guard!Timers, Guard!Unused
  <1>0. \A k \in Kinds, i \in Ids : Duration(k, i) + Slack \in Nat
    BY DurationBound, TimesAssumption
  <1>1. ASSUME NEW o \in Ops, NEW i \in Ids, NEW k \in Kinds, Take(o, i, k)
        PROVE  TInv'
    BY <1>0, <1>1 DEF Take, Guard!Take
  <1>2. ASSUME NEW o \in Ops, Guard!Begin(o), UNCHANGED <<kind, age>>
        PROVE  TInv'
    <2>1. age[o] = 0 /\ target[o] \in Ids
      BY <1>2 DEF Guard!Begin
    <2>2. Duration(kind[o], target[o]) + Slack \in Nat
      BY <1>0, <2>1
    <2>3. OnTime'
      BY <1>2, <2>1, <2>2 DEF Guard!Begin
    <2>4. QED
      BY <1>2, <2>3 DEF Guard!Begin
  <1>3. ASSUME NEW o \in Ops, Guard!Return(o), UNCHANGED <<kind, age>>
        PROVE  TInv'
    BY <1>3 DEF Guard!Return
  <1>4. ASSUME NEW o \in Ops, Guard!StopTimer(o), UNCHANGED <<kind, age>>
        PROVE  TInv'
    BY <1>4 DEF Guard!StopTimer
  <1>5. ASSUME NEW o \in Ops, Guard!Finish(o), UNCHANGED <<kind, age>>
        PROVE  TInv'
    BY <1>5 DEF Guard!Finish
  <1>6. ASSUME NEW o \in Ops, Guard!Release(o), UNCHANGED <<kind, age>>
        PROVE  TInv'
    BY <1>6 DEF Guard!Release
  <1>7. ASSUME NEW o \in Ops, Fire(o) PROVE TInv'
    BY <1>7 DEF Fire, Guard!Fire
  <1>8. CASE Tick
    <2>1. \A o \in Ops : InTime(o) => Deadline(o) \in Nat
      BY <1>0
    <2>2. \A o \in Ops : InTime(o)' = InTime(o) /\ Deadline(o)' = Deadline(o)
      BY <1>8 DEF Tick
    <2>3. OnTime'
      <3> SUFFICES ASSUME NEW o \in Ops, InTime(o)' PROVE (age[o] <= Deadline(o))'
        OBVIOUS
      <3>1. InTime(o) /\ Deadline(o)' = Deadline(o)
        BY <2>2
      <3>2. age'[o] = age[o] + 1 /\ age[o] < Deadline(o) /\ age[o] \in Nat
        BY <1>8, <3>1 DEF Tick
      <3>3. Deadline(o) \in Nat
        BY <2>1, <3>1
      <3> HIDE DEF Deadline
      <3>4. QED
        BY <3>1, <3>2, <3>3
    <2>4. QED
      BY <1>8, <2>3 DEF Tick
  <1>9. CASE UNCHANGED vars
    BY <1>9 DEF vars
  <1>10. QED
    BY <1>1, <1>2, <1>3, <1>4, <1>5, <1>6, <1>7, <1>8, <1>9 DEF Next, Step

LEMMA TInvHolds == Spec => []TInv
  BY InitTInv, NextTInv, TypeCorrect, PTL DEF Spec

(* A timer that has come to its time belongs to an id that can overrun. *)
LEMMA FireMeansOverrun ==
  ASSUME TInv, NEW o \in Ops, Fire(o)
  PROVE  target[o] \in Overrunning
  <1>1. InTime(o) /\ target[o] \in Ids /\ kind[o] \in Kinds
    BY DEF TInv, InTime, Fire, Guard!Fire, TypeOK, Guard!TypeOK, Guard!Unused
  <1>2. age[o] <= Deadline(o) /\ age[o] >= Timeout /\ age[o] \in Nat
    BY <1>1 DEF TInv, OnTime, Fire, TypeOK
  <1> DEFINE d == Duration(kind[o], target[o])
             b == StopTimeout[target[o]] + StartTimeout[target[o]]
  <1>3. d \in Nat /\ d <= b /\ b \in Nat
    BY <1>1, DurationBound, TimesAssumption
  <1>4. age[o] <= d + Slack
    BY <1>2 DEF Deadline
  <1>5. b + Slack >= CheckTimeout + Grace
    <2> HIDE DEF d, b
    <2>1. QED
      BY <1>2, <1>3, <1>4, TimesAssumption DEF Timeout
  <1>6. QED
    BY <1>1, <1>5 DEF Overrunning

(* A step of the timed guard is a step of the guard, or leaves it alone. *)
LEMMA StepImplements == TInv /\ [Next]_vars => [Guard!Next]_Guard!vars
  <1> SUFFICES ASSUME TInv, [Next]_vars PROVE [Guard!Next]_Guard!vars
    OBVIOUS
  <1>1. ASSUME NEW o \in Ops, NEW i \in Ids, NEW k \in Kinds, Take(o, i, k)
        PROVE  Guard!Next
    BY <1>1 DEF Take, Guard!Next
  <1>2. ASSUME NEW o \in Ops, Step(o) PROVE Guard!Next
    BY <1>2 DEF Step, Guard!Next
  <1>3. ASSUME NEW o \in Ops, Fire(o) PROVE Guard!Next
    BY <1>3, FireMeansOverrun DEF Fire, Guard!Next, Guard!Expire
  <1>4. CASE Tick
    BY <1>4 DEF Tick, Guard!vars
  <1>5. CASE UNCHANGED vars
    BY <1>5 DEF vars, Guard!vars
  <1>6. QED
    BY <1>1, <1>2, <1>3, <1>4, <1>5 DEF Next

(* The timed guard implements the safety part of DoOnce: with Overrunning  *)
(* computed from the timeouts, for every value of theirs.                  *)
THEOREM ImplementsGuard == Spec => Guard!Spec
  <1>1. Init => Guard!Init
    BY DEF Init
  <1>2. QED
    BY <1>1, StepImplements, TInvHolds, PTL DEF Spec, Guard!Spec

-----------------------------------------------------------------------------
(* The invariant of DoOnce's proofs, through the refinement. *)
LEMMA GuardInit == Guard!Init => GuardProofs!IInv
  BY GuardConstants, GuardProofs!InitIInv DEF Guard!Init, GuardProofs!Init

LEMMA GuardStep == [Guard!Next]_Guard!vars => [GuardProofs!Next]_GuardProofs!vars
  BY DEF Guard!Next, Guard!vars, Guard!Take, Guard!Begin, Guard!Return,
         Guard!StopTimer, Guard!Finish, Guard!Expire, Guard!Fire, Guard!Release,
         Guard!cleanUp, Guard!Unused,
         GuardProofs!Next, GuardProofs!vars, GuardProofs!Take, GuardProofs!Begin,
         GuardProofs!Return, GuardProofs!StopTimer, GuardProofs!Finish,
         GuardProofs!Expire, GuardProofs!Fire, GuardProofs!Release,
         GuardProofs!cleanUp, GuardProofs!Unused

LEMMA GuardIInv == Spec => []GuardProofs!IInv
  <1>1. Init => GuardProofs!IInv
    BY GuardInit DEF Init
  <1>2. GuardProofs!IInv /\ TInv /\ TypeOK' /\ [Next]_vars => GuardProofs!IInv'
    <2>1. TypeOK' => GuardProofs!TypeOK'
      BY DEF TypeOK, Guard!TypeOK, Guard!Phases, Guard!Timers, Guard!Unused,
             GuardProofs!TypeOK, GuardProofs!Phases, GuardProofs!Timers,
             GuardProofs!Unused
    <2>2. QED
      BY <2>1, StepImplements, GuardStep, GuardConstants, GuardProofs!NextIInv
  <1>3. QED
    BY <1>1, <1>2, TInvHolds, TypeCorrect, PTL DEF Spec

(* Two operations on a check never overlap when its stop and start         *)
(* timeouts, and the slack, add up to less than check.Timeout plus the     *)
(* margin.                                                                 *)
THEOREM ExclusiveWhenItFits == Spec => []Guard!Exclusive
  <1>1. GuardProofs!IInv => Guard!Exclusive
    BY DEF GuardProofs!IInv, GuardProofs!Exclusive, GuardProofs!Active,
           Guard!Exclusive, Guard!Active
  <1>2. QED
    BY <1>1, GuardIInv, PTL
=============================================================================
