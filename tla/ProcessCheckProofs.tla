------------------------- MODULE ProcessCheckProofs -------------------------
(***************************************************************************)
(* A process check works under the guard of DoOnce, and when operations    *)
(* fit the guard timer its count of failed starts is exact: for every      *)
(* number of tries, of calls, of goroutines and of commands.               *)
(***************************************************************************)
EXTENDS ProcessCheck, TLAPS

GuardProofs == INSTANCE DoOnceProofs

LEMMA GuardConstants == NoId \notin Ids /\ Overrunning \subseteq Ids
  BY ProcessAssumption DEF Ids

(* The bookkeeping of the goroutines. *)
LEMMA SpawnCount ==
  ASSUME TypeOK, NEW s \in Starting \cup Stopping, Spawn(s)
  PROVE  routines' \in [Starting \cup Stopping -> Nat] /\ Spawned' <= MaxRoutines
  BY ProcessAssumption DEF TypeOK, Starting, Stopping, Spawn, Spawned

LEMMA LeaveCount ==
  ASSUME TypeOK, NEW s \in Starting \cup Stopping, Leave(s)
  PROVE  routines' \in [Starting \cup Stopping -> Nat] /\ Spawned' <= MaxRoutines
  BY ProcessAssumption DEF TypeOK, Starting, Stopping, Leave, Spawned

LEMMA ProceedCount ==
  ASSUME TypeOK, NEW s \in Starting \cup Stopping, NEW t \in Starting \cup Stopping,
         s # t, Proceed(s, t)
  PROVE  routines' \in [Starting \cup Stopping -> Nat] /\ Spawned' <= MaxRoutines
  BY ProcessAssumption DEF TypeOK, Starting, Stopping, Proceed, Spawned

-----------------------------------------------------------------------------
(* Steps of the check are steps of its guard, or leave it alone. *)

LEMMA OperationGuard ==
  ASSUME TypeOK, NEW o \in Ops, Operation(o)
  PROVE  [Guard!Next]_Guard!vars
  <1> USE DEF Guard!Next, Guard!vars, guardVars, Ids
  <1>1. CASE Begin(o)
    BY <1>1 DEF Begin
  <1>2. CASE Leaving(o)
    BY <1>2 DEF Leaving
  <1>3. CASE Perform(o)
    BY <1>3 DEF Perform, performMonitored, performRunning, performLook, performTimeout,
                performCount, performGiveUp, performReset, Goto, Done
  <1>4. CASE Start(o)
    BY <1>4 DEF Start, Goto, Done
  <1>5. CASE Stop(o)
    BY <1>5 DEF Stop, Goto, Done
  <1>6. QED
    BY <1>1, <1>2, <1>3, <1>4, <1>5 DEF Operation

LEMMA StepImplements == TypeOK /\ [Next]_vars => [Guard!Next]_Guard!vars
  <1> SUFFICES ASSUME TypeOK, [Next]_vars PROVE [Guard!Next]_Guard!vars
    OBVIOUS
  <1>1. ASSUME NEW o \in Ops, NEW k, Take(o, k) PROVE Guard!Next
    BY <1>1 DEF Take, Guard!Next, Ids
  <1> USE DEF Guard!vars, guardVars
  <1>2. CASE \E o \in Ops : Operation(o)
    BY <1>2, OperationGuard
  <1>3. CASE Routine
    BY <1>3 DEF Routine, startEnter, startCheck, startExec, stopEnter, stopCheck,
                stopExec, RoutineRest
  <1>4. CASE Poll
    BY <1>4 DEF Poll
  <1>5. CASE CheckOnce
    BY <1>1, <1>5 DEF CheckOnce
  <1>6. CASE Command
    BY <1>1, <1>6 DEF Command, Request, Switch
  <1>7. CASE Crash
    BY <1>7 DEF Crash
  <1>8. CASE UNCHANGED vars
    BY <1>8 DEF vars
  <1>9. QED
    BY <1>2, <1>3, <1>4, <1>5, <1>6, <1>7, <1>8 DEF Next

-----------------------------------------------------------------------------
(* The guard's part of the type invariant, by its own proofs. *)
LEMMA GuardStep == [Guard!Next]_Guard!vars => [GuardProofs!Next]_GuardProofs!vars
  BY DEF Guard!Next, Guard!vars, Guard!Take, Guard!Begin, Guard!Return,
         Guard!StopTimer, Guard!Finish, Guard!Expire, Guard!Fire, Guard!Release,
         Guard!cleanUp, Guard!Unused,
         GuardProofs!Next, GuardProofs!vars, GuardProofs!Take, GuardProofs!Begin,
         GuardProofs!Return, GuardProofs!StopTimer, GuardProofs!Finish,
         GuardProofs!Expire, GuardProofs!Fire, GuardProofs!Release,
         GuardProofs!cleanUp, GuardProofs!Unused

LEMMA SameType == Guard!TypeOK <=> GuardProofs!TypeOK
  BY DEF Guard!TypeOK, Guard!Phases, Guard!Timers, Guard!Unused,
         GuardProofs!TypeOK, GuardProofs!Phases, GuardProofs!Timers, GuardProofs!Unused

-----------------------------------------------------------------------------
LEMMA RoutineType == TypeOK /\ Routine => TypeOK'
  <1> SUFFICES ASSUME TypeOK, Routine PROVE TypeOK'
    OBVIOUS
  <1>1. /\ routines' \in [Starting \cup Stopping -> Nat]
        /\ Spawned' <= MaxRoutines
    <2> USE LeaveCount, ProceedCount
            DEF startEnter, startCheck, startExec, stopEnter, stopCheck, stopExec
    <2> {"start", "startCheck", "startExec", "stop", "stopCheck", "stopExec"}
          \subseteq Starting \cup Stopping
      BY DEF Starting, Stopping
    <2>1. CASE startEnter
      BY <2>1
    <2>2. CASE startCheck
      BY <2>2
    <2>3. CASE startExec
      BY <2>3
    <2>4. CASE stopEnter
      BY <2>4
    <2>5. CASE stopCheck
      BY <2>5
    <2>6. CASE stopExec
      BY <2>6
    <2>7. QED
      BY <2>1, <2>2, <2>3, <2>4, <2>5, <2>6 DEF Routine
  <1>2. running' \in BOOLEAN /\ monitored' \in BOOLEAN
    BY DEF Routine, startEnter, startCheck, startExec, stopEnter, stopCheck, stopExec,
           TypeOK
  <1>3. UNCHANGED <<guardVars, kind, pc, tries, polls, budgets, history>>
    BY DEF Routine, startEnter, startCheck, startExec, stopEnter, stopCheck, stopExec,
           RoutineRest
  <1>4. QED
    BY <1>1, <1>2, <1>3
    DEF TypeOK, guardVars, budgets, history, Guard!TypeOK, Guard!Unused

LEMMA OperationType ==
  ASSUME TypeOK, NEW o \in Ops, Operation(o), Guard!TypeOK'
  PROVE  TypeOK'
  <1>1. /\ routines' \in [Starting \cup Stopping -> Nat]
        /\ Spawned' <= MaxRoutines
    <2>1. CASE UNCHANGED routines
      BY <2>1 DEF TypeOK, Spawned
    <2>2. CASE Spawn("start") \/ Spawn("stop")
      BY <2>2, SpawnCount DEF Starting, Stopping
    <2>3. QED
      BY <2>1, <2>2 DEF Operation, Begin, Leaving, Perform, performMonitored,
         performRunning, performLook, performTimeout, performCount, performGiveUp,
         performReset, Start, Stop
  <1>2. /\ monitored' \in BOOLEAN /\ tries' \in Nat /\ attempts' \in Nat
        /\ calm' \in BOOLEAN
        /\ lastCommand' \in {lastCommand, "restarted", "gaveUp"}
    <2> USE DEF TypeOK, OpRest, checkVars
    <2>1. CASE Begin(o)
      BY <2>1 DEF Begin
    <2>2. CASE Leaving(o)
      BY <2>2 DEF Leaving
    <2>3. CASE Perform(o)
      <3>1. CASE performMonitored(o) \/ performRunning(o) \/ performCount(o)
        BY <3>1 DEF performMonitored, performRunning, performCount
      <3>2. CASE performLook(o) \/ performTimeout(o)
        BY <3>2 DEF performLook, performTimeout
      <3>3. CASE performGiveUp(o)
        <4>1. monitored' = FALSE /\ UNCHANGED <<tries, attempts, calm>> /\ lastCommand' = "gaveUp"
          BY <3>3 DEF performGiveUp
        <4>2. monitored' \in BOOLEAN
          BY <4>1, Zenon
        <4>3. QED
          BY <4>1, <4>2
      <3>4. CASE performReset(o)
        BY <3>4 DEF performReset
      <3>5. QED
        BY <2>3, <3>1, <3>2, <3>3, <3>4 DEF Perform
    <2>4. CASE Start(o)
      BY <2>4 DEF Start
    <2>5. CASE Stop(o)
      BY <2>5 DEF Stop
    <2>6. QED
      BY <2>1, <2>2, <2>3, <2>4, <2>5 DEF Operation
  <1>3. UNCHANGED <<kind, running, polls, budgets>>
    BY DEF Operation, Begin, Leaving, Perform, performMonitored, performRunning,
           performLook, performTimeout, performCount, performGiveUp, performReset,
           Start, Stop, OpRest
  <1>4. pc' \in [Ops -> Places] /\ \A p \in Ops : pc'[p] # "none" <=> phase'[p] = "running"
    <2> USE DEF TypeOK, Guard!TypeOK, Guard!Phases
    <2>1. CASE Begin(o)
      BY <2>1 DEF Begin, Guard!Begin, Entry, Kinds, Places
    <2>2. CASE Leaving(o)
      BY <2>2 DEF Leaving, Guard!StopTimer, Guard!Finish, Guard!Expire, Guard!Fire,
                  Guard!Release
    <2>3. ASSUME At(o, pc[o]), pc[o] # "none", NEW l \in Places, l # "none", Goto(o, l)
          PROVE  pc' \in [Ops -> Places]
                 /\ \A p \in Ops : pc'[p] # "none" <=> phase'[p] = "running"
      BY <2>3 DEF At, Goto, guardVars
    <2>4. ASSUME Done(o)
          PROVE  pc' \in [Ops -> Places]
                 /\ \A p \in Ops : pc'[p] # "none" <=> phase'[p] = "running"
      BY <2>4 DEF Done, Guard!Return, Places
    <2>5. CASE Perform(o)
      BY <2>3, <2>4, <2>5 DEF Perform, performMonitored, performRunning, performLook,
         performTimeout, performCount, performGiveUp, performReset, At, Places
    <2>6. CASE Start(o)
      BY <2>3, <2>4, <2>6 DEF Start, At, Places
    <2>7. CASE Stop(o)
      BY <2>3, <2>4, <2>7 DEF Stop, At, Places
    <2>8. QED
      BY <2>1, <2>2, <2>5, <2>6, <2>7 DEF Operation
  <1>5. QED
    BY <1>1, <1>2, <1>3, <1>4 DEF TypeOK, budgets

LEMMA TakeType ==
  ASSUME TypeOK, NEW o \in Ops, NEW k \in Kinds, Take(o, k)
  PROVE  /\ kind' \in [Ops -> Kinds]
         /\ \A p \in Ops : pc'[p] # "none" <=> phase'[p] = "running"
         /\ UNCHANGED <<pc, checkVars, running, routines, attempts, calm>>
  BY DEF Take, Guard!Take, Guard!Unused, TypeOK, Guard!TypeOK

LEMMA NextTypeOK == TypeOK /\ [Next]_vars => TypeOK'
  <1> SUFFICES ASSUME TypeOK, [Next]_vars PROVE TypeOK'
    OBVIOUS
  <1>1. Guard!TypeOK'
    <2>1. [GuardProofs!Next]_GuardProofs!vars /\ GuardProofs!TypeOK
      BY StepImplements, GuardStep, SameType DEF TypeOK
    <2>2. GuardProofs!TypeOK'
      BY <2>1, GuardConstants, GuardProofs!NextTypeOK
    <2>3. QED
      BY <2>2 DEF Guard!TypeOK, Guard!Phases, Guard!Timers, Guard!Unused,
         GuardProofs!TypeOK, GuardProofs!Phases, GuardProofs!Timers, GuardProofs!Unused
  <1>2. CASE \E o \in Ops : Operation(o)
    BY <1>1, <1>2, OperationType
  <1>3. CASE Routine
    BY <1>3, RoutineType
  <1>4. CASE Poll
    BY <1>1, <1>4, ProcessAssumption
    DEF Poll, TypeOK, guardVars, checkVars, budgets, history, Spawned
  <1>5. CASE CheckOnce
    <2>1. polls' \in 0..MaxPolls /\ UNCHANGED <<budgets, lastCommand>>
      BY <1>5, ProcessAssumption DEF CheckOnce, TypeOK
    <2>2. ASSUME NEW o \in Ops, Take(o, "perform") PROVE TypeOK'
      BY <1>1, <2>1, <2>2, TakeType DEF Kinds, TypeOK, checkVars, budgets, Spawned
    <2>3. CASE UNCHANGED <<guardVars, kind, pc, checkVars, running, routines, attempts,
                           calm>>
      BY <1>1, <2>1, <2>3 DEF TypeOK, guardVars, checkVars, budgets, Spawned
    <2>4. QED
      BY <1>5, <2>2, <2>3 DEF CheckOnce
  <1>6. ASSUME NEW o \in Ops, NEW k \in Requests, Request(o, k) PROVE TypeOK'
    <2>1. k \in Kinds
      BY ProcessAssumption DEF Kinds
    <2>2. commands' \in 0..MaxCommands /\ UNCHANGED <<polls, crashes>>
      BY <1>6, ProcessAssumption DEF Request, TypeOK
    <2>3. lastCommand' = k
      BY <1>6 DEF Request
    <2>4. Take(o, k)
      BY <1>6 DEF Request
    <2>5. QED
      BY <1>1, <2>1, <2>2, <2>3, <2>4, TakeType DEF TypeOK, checkVars, Spawned
  <1>7. ASSUME NEW k \in Switches, Switch(k) PROVE TypeOK'
    <2>1. k \in {"monitor", "unmonitor"}
      BY ProcessAssumption
    <2>2. commands' \in 0..MaxCommands
      BY <1>7, ProcessAssumption DEF Switch, TypeOK
    <2>3. QED
      BY <1>1, <1>7, <2>1, <2>2 DEF Switch, TypeOK, guardVars, Spawned
  <1>8. CASE Crash
    <2>1. crashes' \in 0..MaxCrashes
      BY <1>8, ProcessAssumption DEF Crash, TypeOK
    <2>2. QED
      BY <1>1, <1>8, <2>1 DEF Crash, TypeOK, guardVars, checkVars, Spawned
  <1>9. CASE UNCHANGED vars
    BY <1>1, <1>9 DEF vars, TypeOK, Spawned
  <1>10. QED
    BY <1>2, <1>3, <1>4, <1>5, <1>6, <1>7, <1>8, <1>9 DEF Next, Command

LEMMA InitTypeOK == Init => TypeOK
  <1> SUFFICES ASSUME Init PROVE TypeOK
    OBVIOUS
  <1>1. Guard!TypeOK
    BY DEF Init, Guard!Init, Guard!TypeOK, Guard!Phases, Guard!Timers, Guard!Unused
  <1>2. routines \in [Starting \cup Stopping -> Nat] /\ Spawned <= MaxRoutines
    BY ProcessAssumption DEF Init, Starting, Stopping, Spawned
  <1>3. \A o \in Ops : pc[o] = "none" /\ phase[o] = "idle"
    BY DEF Init, Guard!Init
  <1>4. kind \in [Ops -> Kinds] /\ pc \in [Ops -> Places]
    BY DEF Init, Kinds, Places
  <1>5. calm \in BOOLEAN /\ monitored \in BOOLEAN /\ running \in BOOLEAN
    BY Zenon DEF Init
  <1>6. /\ tries \in Nat /\ attempts \in Nat /\ polls \in 0..MaxPolls
        /\ commands \in 0..MaxCommands /\ crashes \in 0..MaxCrashes
    BY ProcessAssumption DEF Init
  <1>7. \A o \in Ops : pc[o] # "none" <=> phase[o] = "running"
    BY <1>3
  <1> QED BY <1>1, <1>2, <1>4, <1>5, <1>6, <1>7 DEF Init, TypeOK

(* The type invariant: in particular the callback of a call has a place    *)
(* exactly while its guard says it runs.                                   *)
THEOREM TypeCorrect == Spec => []TypeOK
  BY InitTypeOK, NextTypeOK, PTL DEF Spec

(* A process check, whatever it does, uses its guard as DoOnce says. *)
THEOREM ImplementsGuard == Spec => Guard!Spec
  <1>1. Init => Guard!Init
    BY DEF Init
  <1>2. QED
    BY <1>1, StepImplements, TypeCorrect, PTL DEF Spec, Guard!Spec

-----------------------------------------------------------------------------
(* The invariant of DoOnce's proofs, through the refinement. *)
LEMMA GuardInit == Guard!Init => GuardProofs!IInv
  BY GuardConstants, GuardProofs!InitIInv DEF Guard!Init, GuardProofs!Init

LEMMA GuardIInv == Spec => []GuardProofs!IInv
  <1>1. Init => GuardProofs!IInv
    BY GuardInit DEF Init
  <1>2. GuardProofs!IInv /\ TypeOK /\ TypeOK' /\ [Next]_vars => GuardProofs!IInv'
    <2>1. TypeOK' => GuardProofs!TypeOK'
      BY DEF TypeOK, Guard!TypeOK, Guard!Phases, Guard!Timers, Guard!Unused,
             GuardProofs!TypeOK, GuardProofs!Phases, GuardProofs!Timers,
             GuardProofs!Unused
    <2>2. QED
      BY <2>1, StepImplements, GuardStep, GuardConstants, GuardProofs!NextIInv
  <1>3. QED
    BY <1>1, <1>2, TypeCorrect, PTL DEF Spec

(* When operations fit the guard timer, at most one has a callback, ... *)
Alone == \A o, p \in Ops : phase[o] # "idle" /\ pc[p] # "none" => o = p

LEMMA AloneHolds ==
  ASSUME Overrunning = {}, TypeOK, GuardProofs!IInv
  PROVE  Alone
  <1> SUFFICES ASSUME NEW o \in Ops, NEW p \in Ops, phase[o] # "idle", pc[p] # "none"
               PROVE  o = p
    BY DEF Alone
  <1>1. phase[p] # "idle"
    BY DEF TypeOK
  <1>2. target[o] = Check /\ target[p] = Check
    BY <1>1 DEF TypeOK, Guard!TypeOK, Guard!Unused, Ids
  <1>3. {o, p} \subseteq GuardProofs!Active(Check)
    BY <1>1, <1>2 DEF GuardProofs!Active
  <1>4. QED
    BY <1>3 DEF GuardProofs!IInv, GuardProofs!Exclusive, Ids

(* ... and the count is exact: it lags the attempts only while an attempt  *)
(* is being waited for, and is below the limit unless Perform is about to  *)
(* look at it or gives up.                                                 *)
Trying == {"performFirst", "performWait"}
Counted == {"count", "giveUp", "reset"}

Accounted(o) ==
  /\ pc[o] \in Trying => attempts = tries + 1 /\ tries < MaxTries
  /\ pc[o] \in Counted => attempts = tries /\ tries <= MaxTries
  /\ pc[o] \in {"giveUp", "reset"} => tries = MaxTries

PInv == /\ \A o \in Ops : Accounted(o)
        /\ (\A o \in Ops : pc[o] \notin Trying \cup Counted)
             => attempts = tries /\ tries < MaxTries

(* What an operation does to the count, seen from its own place. *)
LEMMA OwnStep ==
  ASSUME TypeOK, PInv, Alone, NEW o \in Ops,
         \A p \in Ops \ {o} : pc[p] = "none",
         pc' \in [Ops -> Places], pc' = [pc EXCEPT ![o] = pc'[o]],
         pc'[o] \in Trying => attempts' = tries' + 1 /\ tries' < MaxTries,
         pc'[o] \in Counted => attempts' = tries' /\ tries' <= MaxTries,
         pc'[o] \in {"giveUp", "reset"} => tries' = MaxTries,
         pc'[o] \notin Trying \cup Counted => attempts' = tries' /\ tries' < MaxTries
  PROVE  PInv'
  BY DEF PInv, Accounted, TypeOK, Trying, Counted

LEMMA InitPInv == Init => PInv
  BY ProcessAssumption DEF Init, PInv, Accounted, Trying, Counted

LEMMA OperationCount ==
  ASSUME TypeOK, TypeOK', PInv, Alone, NEW o \in Ops, Operation(o)
  PROVE  PInv'
  <1>1. CASE Leaving(o)
    BY <1>1 DEF Leaving, checkVars, PInv, Accounted
  <1>2. ASSUME ~Leaving(o) PROVE \A p \in Ops \ {o} : pc[p] = "none"
    <2>1. phase[o] # "idle"
      BY <1>2 DEF Operation, Begin, Guard!Begin, Perform, performMonitored,
         performRunning, performLook, performTimeout, performCount, performGiveUp,
         performReset, Start, Stop, At
    <2>2. QED
      BY <2>1 DEF Alone
  <1>3. ASSUME pc[o] \notin Trying \cup Counted, \A p \in Ops \ {o} : pc[p] = "none"
        PROVE  attempts = tries /\ tries < MaxTries
    BY <1>3 DEF PInv, Trying, Counted
  <1>4. pc' \in [Ops -> Places] /\ tries \in Nat /\ attempts \in Nat /\ pc \in [Ops -> Places]
    BY DEF TypeOK
  <1> USE DEF Trying, Counted
  <1>5. CASE Begin(o)
    <2>1. pc[o] = "none" /\ kind[o] \in Kinds
      BY <1>5 DEF Begin, Guard!Begin, TypeOK
    <2>2. ~Leaving(o) \/ UNCHANGED <<pc, tries, attempts>>
      BY DEF Leaving, checkVars
    <2>3. CASE UNCHANGED <<pc, tries, attempts>>
      BY <2>3 DEF PInv, Accounted
    <2>4. CASE ~Leaving(o)
      <3>1. pc' = [pc EXCEPT ![o] = Entry[kind[o]]] /\ UNCHANGED <<tries, attempts>>
        BY <1>5 DEF Begin, checkVars
      <3>2. Entry[kind[o]] \in {"monitored", "start", "stop"}
        BY <2>1 DEF Entry, Kinds
      <3>3. pc'[o] \in {"monitored", "start", "stop"} /\ pc' = [pc EXCEPT ![o] = pc'[o]]
        BY <1>4, <3>1, <3>2
      <3>4. attempts = tries /\ tries < MaxTries
        BY <1>2, <1>3, <2>1, <2>4
      <3>5. QED
        BY <1>2, <1>4, <2>4, <3>1, <3>3, <3>4, OwnStep
    <2>5. QED
      BY <2>2, <2>3, <2>4
  <1> DEFINE To(p) == pc' = [pc EXCEPT ![o] = p]
  <1>6. ASSUME NEW p \in Places, To(p) PROVE pc'[o] = p /\ pc' = [pc EXCEPT ![o] = pc'[o]]
    BY <1>4, <1>6
  <1>7. CASE Perform(o) /\ ~Leaving(o)
    <2>1. \A p \in Ops \ {o} : pc[p] = "none"
      BY <1>2, <1>7
    <2>2. Accounted(o)
      BY DEF PInv
    <2>3. CASE performMonitored(o)
      <3>1. attempts = tries /\ tries < MaxTries /\ UNCHANGED <<tries, attempts>>
        BY <1>3, <2>1, <2>3 DEF performMonitored, At, checkVars
      <3>2. To("running") \/ To("none")
        BY <2>3 DEF performMonitored, Goto, Done
      <3>3. QED
        BY <1>4, <1>6, <2>1, <3>1, <3>2, OwnStep DEF Places
    <2>4. CASE performRunning(o)
      <3>1. attempts = tries /\ tries < MaxTries /\ UNCHANGED tries
        BY <1>3, <2>1, <2>4 DEF performRunning, At, checkVars
      <3>2. \/ To("performFirst") /\ attempts' = attempts + 1
            \/ To("none") /\ UNCHANGED attempts
        BY <2>4 DEF performRunning, Goto, Done
      <3>3. QED
        BY <1>4, <1>6, <2>1, <3>1, <3>2, OwnStep DEF Places
    <2>5. CASE performLook(o)
      <3>1. attempts = tries + 1 /\ tries < MaxTries
        BY <2>2, <2>5 DEF performLook, At, Accounted
      <3>2. \/ To("count") /\ tries' = 0 /\ attempts' = 0
            \/ To("performWait") /\ UNCHANGED <<tries, attempts>>
        BY <2>5 DEF performLook, Goto
      <3>3. QED
        BY <1>4, <1>6, <2>1, <3>1, <3>2, OwnStep, ProcessAssumption DEF Places
    <2>6. CASE performTimeout(o)
      <3>1. attempts = tries + 1 /\ tries < MaxTries
        BY <2>2, <2>6 DEF performTimeout, At, Accounted
      <3>2. To("count") /\ tries' = tries + 1 /\ attempts' = attempts
        BY <2>6 DEF performTimeout, Goto
      <3>3. attempts' = tries' /\ tries' <= MaxTries
        BY <1>4, <3>1, <3>2, ProcessAssumption
      <3>4. pc'[o] = "count" /\ pc' = [pc EXCEPT ![o] = pc'[o]]
        BY <1>6, <3>2 DEF Places
      <3>5. QED
        BY <1>4, <2>1, <3>3, <3>4, OwnStep
    <2>7. CASE performCount(o)
      <3>1. attempts = tries /\ tries <= MaxTries /\ UNCHANGED <<tries, attempts>>
        BY <2>2, <2>7 DEF performCount, At, Accounted, checkVars
      <3>2. \/ To("giveUp") /\ tries >= MaxTries
            \/ To("none") /\ ~(tries >= MaxTries)
        BY <2>7 DEF performCount, Goto, Done
      <3>3. QED
        BY <1>4, <1>6, <2>1, <3>1, <3>2, OwnStep, ProcessAssumption DEF Places
    <2>8. CASE performGiveUp(o)
      <3>1. attempts = tries /\ tries = MaxTries /\ UNCHANGED <<tries, attempts>>
        BY <2>2, <2>8 DEF performGiveUp, At, Accounted
      <3>2. pc'[o] = "reset" /\ pc' = [pc EXCEPT ![o] = pc'[o]]
        BY <1>6, <2>8 DEF performGiveUp, Goto, Places
      <3>3. tries' <= MaxTries
        BY <3>1, ProcessAssumption
      <3>4. QED
        BY <1>4, <2>1, <3>1, <3>2, <3>3, OwnStep
    <2>9. CASE performReset(o)
      <3>1. To("none") /\ tries' = 0 /\ attempts' = 0
        BY <2>9 DEF performReset, Done
      <3>2. pc'[o] = "none" /\ pc' = [pc EXCEPT ![o] = pc'[o]]
        BY <1>6, <3>1 DEF Places
      <3>3. tries' < MaxTries
        BY <3>1, ProcessAssumption
      <3>4. QED
        BY <1>4, <2>1, <3>1, <3>2, <3>3, OwnStep
    <2>10. QED
      BY <1>7, <2>3, <2>4, <2>5, <2>6, <2>7, <2>8, <2>9 DEF Perform
  <1>8. CASE (Start(o) \/ Stop(o)) /\ ~Leaving(o)
    <2>1. \A p \in Ops \ {o} : pc[p] = "none"
      BY <1>2, <1>8
    <2>2. attempts = tries /\ tries < MaxTries /\ UNCHANGED <<tries, attempts>>
      BY <1>3, <1>8, <2>1 DEF Start, Stop, At, checkVars
    <2>3. \E p \in {"startFirst", "startWait", "start", "stopFirst", "stopWait", "none"} :
            To(p)
      BY <1>8 DEF Start, Stop, Goto, Done
    <2>4. QED
      BY <1>4, <1>6, <2>1, <2>2, <2>3, OwnStep DEF Places
  <1>9. QED
    BY <1>1, <1>5, <1>7, <1>8 DEF Operation

LEMMA NextPInv == TypeOK /\ TypeOK' /\ Alone /\ PInv /\ [Next]_vars => PInv'
  <1> SUFFICES ASSUME TypeOK, TypeOK', Alone, PInv, [Next]_vars PROVE PInv'
    OBVIOUS
  <1>1. CASE \E o \in Ops : Operation(o)
    BY <1>1, OperationCount
  <1>2. CASE UNCHANGED <<pc, tries, attempts>>
    BY <1>2 DEF PInv, Accounted
  <1>3. QED
    BY <1>1, <1>2 DEF Next, Routine, startEnter, startCheck, startExec, stopEnter,
       stopCheck, stopExec, RoutineRest, Poll, CheckOnce, Command, Request, Switch,
       Take, Crash, checkVars, history, vars

LEMMA PInvHolds == ASSUME Overrunning = {} PROVE Spec => []PInv
  BY InitPInv, NextPInv, AloneHolds, GuardIInv, TypeCorrect, PTL DEF Spec

(* A service is started automatically at most MaxTries times before it is  *)
(* seen to succeed or the check is given up (performReset), for every      *)
(* limit, when the operations of the check fit the guard timer.            *)
THEOREM AttemptsAreBounded == ASSUME Overrunning = {} PROVE Spec => []AttemptsBounded
  <1>1. TypeOK /\ PInv => AttemptsBounded
    <2> SUFFICES ASSUME TypeOK, PInv PROVE attempts <= MaxTries
      BY DEF AttemptsBounded
    <2>1. CASE \A o \in Ops : pc[o] \notin Trying \cup Counted
      BY <2>1, ProcessAssumption DEF PInv, TypeOK
    <2>2. ASSUME NEW o \in Ops, pc[o] \in Trying \cup Counted PROVE attempts <= MaxTries
      BY <2>2, ProcessAssumption DEF PInv, Accounted, TypeOK
    <2>3. QED
      BY <2>1, <2>2
  <1>2. QED
    BY <1>1, PInvHolds, TypeCorrect, PTL

(* The check is only unmonitored by Perform after MaxTries attempts. *)
THEOREM GivingUpIsDeserved == ASSUME Overrunning = {} PROVE Spec => []GiveUpDeserved
  <1>1. TypeOK /\ PInv => GiveUpDeserved
    BY ProcessAssumption DEF PInv, Accounted, Counted, GiveUpDeserved, TypeOK
  <1>2. QED
    BY <1>1, PInvHolds, TypeCorrect, PTL

-----------------------------------------------------------------------------
(* A callback is at the places of its operation. *)
PerformPlaces == {"monitored", "running"} \cup Trying \cup Counted

KindInv == \A o \in Ops : phase[o] = "running" =>
             /\ kind[o] = "stop" => pc[o] \in {"stop", "stopFirst", "stopWait"}
             /\ kind[o] = "perform" => pc[o] \in PerformPlaces

LEMMA KindStep == TypeOK /\ TypeOK' /\ KindInv /\ [Next]_vars => KindInv'
  <1> SUFFICES ASSUME TypeOK, TypeOK', KindInv, [Next]_vars PROVE KindInv'
    OBVIOUS
  <1>1. CASE UNCHANGED <<phase, kind, pc>>
    BY <1>1 DEF KindInv
  <1>2. ASSUME NEW o \in Ops, NEW k \in Kinds, Take(o, k) PROVE KindInv'
    BY <1>2 DEF Take, Guard!Take, TypeOK, Guard!TypeOK, KindInv
  <1>3. ASSUME NEW o \in Ops, Operation(o) PROVE KindInv'
    <2>1. kind' = kind
      BY <1>3 DEF Operation, Begin, Leaving, Perform, performMonitored, performRunning,
         performLook, performTimeout, performCount, performGiveUp, performReset, Start,
         Stop, OpRest
    <2>2. CASE Begin(o)
      BY <2>1, <2>2 DEF Begin, Guard!Begin, Entry, Kinds, KindInv, PerformPlaces, TypeOK,
         Guard!TypeOK
    <2>3. CASE Leaving(o)
      BY <2>1, <2>3 DEF Leaving, Guard!StopTimer, Guard!Finish, Guard!Expire, Guard!Fire,
         Guard!Release, KindInv, TypeOK, Guard!TypeOK
    <2>4. CASE Done(o)
      BY <2>1, <2>4 DEF Done, Guard!Return, KindInv, TypeOK, Guard!TypeOK
    <2>5. ASSUME NEW p, Goto(o, p), phase[o] = "running",
                 kind[o] = "stop" => p \in {"stop", "stopFirst", "stopWait"},
                 kind[o] = "perform" => p \in PerformPlaces
          PROVE  KindInv'
      BY <2>1, <2>5 DEF Goto, guardVars, KindInv, TypeOK
    <2>6. CASE Perform(o)
      <3>1. /\ phase[o] = "running" /\ pc[o] \in PerformPlaces
            /\ Done(o) \/ \E p \in PerformPlaces : Goto(o, p)
        BY <2>6 DEF Perform, performMonitored, performRunning, performLook, performTimeout,
           performCount, performGiveUp, performReset, At, PerformPlaces, Trying, Counted
      <3>2. kind[o] # "stop"
        BY <3>1 DEF KindInv, PerformPlaces, Trying, Counted
      <3> QED BY <2>4, <2>5, <3>1, <3>2
    <2>7. CASE Start(o)
      <3>1. /\ phase[o] = "running" /\ pc[o] \in {"start", "startFirst", "startWait"}
            /\ Done(o) \/ \E p : Goto(o, p)
        BY <2>7 DEF Start, At
      <3>2. kind[o] \notin {"stop", "perform"}
        BY <3>1 DEF KindInv, PerformPlaces, Trying, Counted
      <3> QED BY <2>4, <2>5, <3>1, <3>2
    <2>8. CASE Stop(o)
      <3>1. /\ phase[o] = "running" /\ pc[o] \in {"stop", "stopFirst", "stopWait"}
            /\ \/ Done(o)
               \/ \E p \in {"stop", "stopFirst", "stopWait"} : Goto(o, p)
               \/ kind[o] = "restart" /\ Goto(o, "start")
        BY <2>8 DEF Stop, At
      <3>2. kind[o] # "perform"
        BY <3>1 DEF KindInv, PerformPlaces, Trying, Counted
      <3> QED BY <2>4, <2>5, <3>1, <3>2
    <2> QED BY <1>3, <2>2, <2>3, <2>6, <2>7, <2>8 DEF Operation
  <1>4. CASE CheckOnce
    BY <1>1, <1>2, <1>4 DEF CheckOnce, Kinds, guardVars
  <1>5. CASE Command
    BY <1>1, <1>2, <1>5, ProcessAssumption DEF Command, Request, Switch, Kinds, guardVars
  <1> QED BY <1>1, <1>3, <1>4, <1>5 DEF Next, Routine, startEnter, startCheck, startExec,
       stopEnter, stopCheck, stopExec, RoutineRest, Poll, Crash, guardVars, vars

LEMMA KindInit == Init => KindInv
  BY DEF Init, Guard!Init, KindInv

LEMMA KindHolds == Spec => []KindInv
  BY KindInit, KindStep, TypeCorrect, PTL DEF Spec

(* Once a wait has timed out the goroutine of its start() has entered, and *)
(* none is spawned until Perform has given up; after that nothing that is  *)
(* under way leads to another start().                                     *)
Ceased(o) == phase[o] # "idle" =>
  kind[o] \in {"perform", "stop"} /\ pc[o] \notin Trying \cup {"running", "count", "giveUp"}

GivenUpInv ==
  /\ \A o \in Ops : /\ pc[o] \in PerformPlaces => kind[o] = "perform"
                    /\ pc[o] \in {"count", "giveUp"} /\ tries > 0 => routines["start"] = 0
  /\ lastCommand = "gaveUp" => /\ ~monitored /\ routines["start"] = 0
                              /\ \A o \in Ops : Ceased(o)

LEMMA GivenUpOperation ==
  ASSUME Prompt, TypeOK, TypeOK', Alone, PInv, KindInv, GivenUpInv, NEW o \in Ops, Operation(o)
  PROVE  GivenUpInv'
  <1> DEFINE Quietly == routines'["start"] = routines["start"]
  <1>1. kind' = kind
    BY DEF Operation, Begin, Leaving, Perform, performMonitored, performRunning, performLook,
       performTimeout, performCount, performGiveUp, performReset, Start, Stop, OpRest
  <1>2. \A p \in Ops \ {o} : phase'[p] = phase[p] /\ pc'[p] = pc[p]
    BY DEF Operation, Begin, Leaving, Perform, performMonitored, performRunning, performLook,
       performTimeout, performCount, performGiveUp, performReset, Start, Stop, Goto, Done,
       guardVars, TypeOK, Guard!TypeOK, Guard!Begin, Guard!StopTimer, Guard!Finish,
       Guard!Expire, Guard!Fire, Guard!Release, Guard!Return
  <1>3. ASSUME /\ pc'[o] \in PerformPlaces => kind[o] = "perform"
               /\ pc'[o] \in {"count", "giveUp"} /\ tries' > 0 => routines'["start"] = 0
               /\ \A p \in Ops \ {o} : pc[p] \in {"count", "giveUp"} =>
                    tries' = tries /\ Quietly
               /\ lastCommand' = "gaveUp" => /\ ~monitored' /\ routines'["start"] = 0
                                            /\ Ceased(o)' /\ \A p \in Ops \ {o} : Ceased(p)
        PROVE  GivenUpInv'
    <2>1. ASSUME NEW p \in Ops
          PROVE  /\ pc'[p] \in PerformPlaces => kind'[p] = "perform"
                 /\ pc'[p] \in {"count", "giveUp"} /\ tries' > 0 => routines'["start"] = 0
      BY <1>1, <1>2, <1>3 DEF GivenUpInv
    <2>2. ASSUME lastCommand' = "gaveUp", NEW p \in Ops \ {o} PROVE Ceased(p)'
      BY <1>1, <1>2, <1>3, <2>2 DEF Ceased
    <2> QED BY <1>3, <2>1, <2>2 DEF GivenUpInv
  <1>4. ASSUME phase[o] # "idle", NEW p \in Ops \ {o} PROVE pc[p] = "none"
    BY <1>4 DEF Alone
  <1>5. lastCommand = "gaveUp" => \A p \in Ops : Ceased(p)
    BY DEF GivenUpInv
  <1>6. CASE Begin(o)
    <2>1. /\ phase[o] # "idle" /\ pc'[o] = Entry[kind[o]] /\ kind[o] \in Kinds
          /\ UNCHANGED <<tries, monitored, routines, lastCommand>>
      BY <1>6 DEF Begin, Guard!Begin, checkVars, OpRest, TypeOK
    <2>2. /\ pc'[o] \in PerformPlaces => kind[o] = "perform"
          /\ pc'[o] \notin Trying \cup {"running", "count", "giveUp"}
      BY <2>1 DEF Entry, Kinds, PerformPlaces, Trying, Counted
    <2>3. lastCommand = "gaveUp" => Ceased(o)'
      BY <1>1, <1>5, <2>1, <2>2 DEF Ceased
    <2> QED BY <1>3, <1>5, <2>1, <2>2, <2>3 DEF GivenUpInv
  <1>7. CASE Leaving(o)
    <2>1. UNCHANGED <<pc, tries, monitored, routines, lastCommand>>
      BY <1>7 DEF Leaving, checkVars, OpRest
    <2>2. phase'[o] # "idle" => phase[o] # "idle"
      BY <1>7 DEF Leaving, TypeOK, Guard!TypeOK, Guard!StopTimer, Guard!Finish, Guard!Expire,
         Guard!Fire, Guard!Release
    <2>3. lastCommand = "gaveUp" => Ceased(o)'
      BY <1>1, <1>5, <2>1, <2>2 DEF Ceased
    <2> QED BY <1>3, <1>5, <2>1, <2>3 DEF GivenUpInv
  <1>8. CASE Perform(o)
    <2>1. phase[o] = "running" /\ pc[o] \in PerformPlaces
      BY <1>8 DEF Perform, performMonitored, performRunning, performLook, performTimeout,
         performCount, performGiveUp, performReset, At, PerformPlaces, Trying, Counted
    <2>2. kind[o] = "perform" /\ (\A p \in Ops \ {o} : pc[p] = "none")
      BY <1>4, <2>1 DEF GivenUpInv
    <2>3. ASSUME pc'[o] \in {"count", "giveUp"} /\ tries' > 0 => routines'["start"] = 0,
                 lastCommand' = lastCommand,
                 lastCommand = "gaveUp" => /\ UNCHANGED <<monitored, routines>>
                                           /\ pc'[o] = "none"
          PROVE  GivenUpInv'
      <3>1. lastCommand = "gaveUp" => Ceased(o)'
        BY <1>1, <2>2, <2>3 DEF Ceased, Trying
      <3> QED BY <1>3, <1>5, <2>2, <2>3, <3>1 DEF GivenUpInv
    <2>4. lastCommand = "gaveUp" => ~monitored /\ pc[o] \notin Trying \cup {"running", "count", "giveUp"}
      BY <1>5, <2>1 DEF Ceased, GivenUpInv
    <2>5. CASE performMonitored(o)
      <3>1. UNCHANGED <<monitored, routines, lastCommand>> /\ pc'[o] \in {"running", "none"}
            /\ (~monitored => pc'[o] = "none")
        BY <2>5 DEF performMonitored, Goto, Done, checkVars, OpRest, TypeOK
      <3> QED BY <2>3, <2>4, <3>1
    <2>6. CASE performRunning(o)
      <3>1. lastCommand' = lastCommand /\ pc[o] = "running" /\ pc'[o] \in {"performFirst", "none"}
        BY <2>6 DEF performRunning, At, Goto, Done, OpRest, TypeOK
      <3> QED BY <2>3, <2>4, <3>1
    <2>7. CASE performLook(o)
      <3>1. /\ lastCommand' = lastCommand /\ pc[o] \in Trying
            /\ (pc'[o] = "count" /\ tries' = 0) \/ pc'[o] = "performWait"
        BY <2>7 DEF performLook, At, Goto, OpRest, Trying, TypeOK
      <3> QED BY <2>3, <2>4, <3>1
    <2>8. CASE performTimeout(o)
      <3>1. lastCommand' = lastCommand /\ pc[o] \in Trying /\ routines'["start"] = 0
        BY <2>8 DEF performTimeout, TimesOut, At, OpRest, Trying
      <3> QED BY <2>3, <2>4, <3>1
    <2>9. CASE performCount(o)
      <3>1. lastCommand' = lastCommand /\ pc[o] = "count" /\ UNCHANGED <<tries, routines>>
        BY <2>9 DEF performCount, At, checkVars, OpRest
      <3> QED BY <2>3, <2>4, <3>1 DEF GivenUpInv
    <2>10. CASE performGiveUp(o)
      <3>1. /\ pc[o] = "giveUp" /\ pc'[o] = "reset" /\ monitored' = FALSE
            /\ UNCHANGED <<tries, routines>>
        BY <2>10 DEF performGiveUp, At, Goto, TypeOK
      <3>2. tries > 0
        BY <3>1, ProcessAssumption DEF PInv, Accounted
      <3>3. routines["start"] = 0
        BY <3>1, <3>2 DEF GivenUpInv
      <3>4. \A p \in Ops \ {o} : Ceased(p)
        <4> SUFFICES ASSUME NEW p \in Ops \ {o} PROVE phase[p] = "idle"
          BY DEF Ceased
        <4> QED BY <3>1 DEF Alone
      <3>5. Ceased(o)'
        BY <1>1, <2>2, <3>1 DEF Ceased, Trying
      <3>6. ~monitored'
        BY <3>1
      <3> QED BY <1>3, <2>2, <3>1, <3>3, <3>4, <3>5, <3>6
    <2>11. CASE performReset(o)
      <3>1. UNCHANGED <<monitored, routines, lastCommand>> /\ pc'[o] = "none"
        BY <2>11 DEF performReset, Done, OpRest, TypeOK
      <3> QED BY <2>3, <3>1
    <2> QED BY <1>8, <2>5, <2>6, <2>7, <2>8, <2>9, <2>10, <2>11 DEF Perform
  <1>9. CASE Start(o)
    <2>1. /\ phase[o] = "running" /\ pc[o] \in {"start", "startFirst", "startWait"}
          /\ pc'[o] \in {"startFirst", "startWait", "none"}
          /\ lastCommand' \in {lastCommand, "restarted"}
      BY <1>9 DEF Start, At, Goto, Done, TypeOK
    <2>2. lastCommand # "gaveUp"
      <3>1. kind[o] \notin {"perform", "stop"}
        BY <2>1 DEF KindInv, PerformPlaces, Trying, Counted
      <3> QED BY <1>5, <2>1, <3>1 DEF Ceased
    <2>3. \A p \in Ops \ {o} : pc[p] = "none"
      BY <1>4, <2>1
    <2> QED BY <1>3, <2>1, <2>2, <2>3 DEF PerformPlaces, Trying, Counted
  <1>10. CASE Stop(o)
    <2>1. /\ phase[o] = "running" /\ pc[o] \in {"stop", "stopFirst", "stopWait"}
          /\ pc'[o] \in {"stopFirst", "stopWait", "start", "none"}
          /\ UNCHANGED <<tries, monitored, lastCommand>>
      BY <1>10 DEF Stop, At, Goto, Done, checkVars, OpRest, TypeOK
    <2>2. Quietly
      BY <1>10 DEF Stop, Spawn, TypeOK, Starting, Stopping
    <2>3. lastCommand = "gaveUp" => Ceased(o)'
      BY <1>1, <1>5, <2>1 DEF Ceased, Trying
    <2> QED BY <1>3, <1>5, <2>1, <2>2, <2>3 DEF GivenUpInv, PerformPlaces, Trying, Counted
  <1> QED BY <1>6, <1>7, <1>8, <1>9, <1>10 DEF Operation

LEMMA GivenUpRoutine ==
  ASSUME TypeOK, GivenUpInv, Routine
  PROVE  GivenUpInv'
  <1>1. UNCHANGED <<phase, kind, pc, tries, lastCommand>>
    BY DEF Routine, startEnter, startCheck, startExec, stopEnter, stopCheck, stopExec,
       RoutineRest, guardVars, history
  <1>2. routines["start"] = 0 => routines'["start"] = 0 /\ (~monitored => ~monitored')
    <2> SUFFICES ASSUME routines["start"] = 0, ~monitored \/ monitored
                 PROVE  routines'["start"] = 0 /\ (~monitored => ~monitored')
      OBVIOUS
    <2>1. ~startEnter
      BY DEF startEnter, Proceed
    <2>2. routines'["start"] = 0
      BY <2>1 DEF Routine, startCheck, startExec, stopEnter, stopCheck, stopExec, Leave,
         Proceed, TypeOK, Starting, Stopping
    <2>3. CASE stopEnter
      BY <2>2, <2>3 DEF stopEnter
    <2>4. CASE ~stopEnter
      <3>1. monitored' = monitored
        BY <2>1, <2>4 DEF Routine, startCheck, startExec, stopCheck, stopExec
      <3> QED BY <2>2, <3>1
    <2> QED BY <2>3, <2>4
  <1>3. \A o \in Ops : Ceased(o) => Ceased(o)'
    BY <1>1 DEF Ceased
  <1> QED BY <1>1, <1>2, <1>3 DEF GivenUpInv

LEMMA GivenUpStep ==
  ASSUME Prompt, TypeOK, TypeOK', Alone, PInv, KindInv, GivenUpInv, [Next]_vars
  PROVE  GivenUpInv'
  <1>1. ASSUME NEW o \in Ops, NEW k \in Kinds, Take(o, k),
               lastCommand' = "gaveUp" => lastCommand = "gaveUp" /\ k = "perform"
        PROVE  GivenUpInv'
    <2>1. /\ pc[o] = "none" /\ UNCHANGED <<pc, tries, monitored, routines>>
          /\ kind' = [kind EXCEPT ![o] = k]
      BY <1>1 DEF Take, Guard!Take, Guard!Unused, checkVars, TypeOK, Guard!TypeOK
    <2>2. ASSUME NEW p \in Ops, p # o PROVE kind'[p] = kind[p] /\ phase'[p] = phase[p]
      BY <1>1, <2>1, <2>2 DEF Take, Guard!Take, TypeOK, Guard!TypeOK
    <2>3. ASSUME lastCommand' = "gaveUp", NEW p \in Ops PROVE Ceased(p)'
      <3>1. CASE p = o
        BY <1>1, <2>1, <2>3, <3>1 DEF Ceased, TypeOK, Trying
      <3>2. CASE p # o
        BY <1>1, <2>1, <2>2, <2>3, <3>2 DEF Ceased, GivenUpInv
      <3> QED BY <3>1, <3>2
    <2>4. \A p \in Ops : pc[p] \in PerformPlaces => kind'[p] = "perform"
      BY <2>1, <2>2 DEF GivenUpInv, PerformPlaces, Trying, Counted
    <2> QED BY <1>1, <2>1, <2>3, <2>4 DEF GivenUpInv
  <1>2. CASE UNCHANGED <<phase, kind, pc, tries, monitored, routines>>
             /\ (lastCommand' = "gaveUp" => lastCommand = "gaveUp")
    BY <1>2 DEF GivenUpInv, Ceased
  <1>3. CASE \E o \in Ops : Operation(o)
    BY <1>3, GivenUpOperation
  <1>4. CASE Routine
    BY <1>4, GivenUpRoutine
  <1>5. CASE Poll \/ Crash \/ UNCHANGED vars
    BY <1>2, <1>5 DEF Poll, Crash, vars, guardVars, checkVars, history
  <1>6. CASE CheckOnce
    BY <1>1, <1>2, <1>6 DEF CheckOnce, Kinds, guardVars, checkVars
  <1>7. ASSUME NEW o \in Ops, NEW k \in Requests, Request(o, k) PROVE GivenUpInv'
    <2>1. k \in Kinds /\ k # "gaveUp"
      BY ProcessAssumption DEF Kinds
    <2> QED BY <1>1, <1>7, <2>1 DEF Request
  <1>8. ASSUME NEW k \in Switches, Switch(k) PROVE GivenUpInv'
    <2>1. lastCommand' # "gaveUp" /\ UNCHANGED <<kind, pc, tries, routines>>
      BY <1>8, ProcessAssumption DEF Switch
    <2> QED BY <2>1 DEF GivenUpInv
  <1> QED BY <1>3, <1>4, <1>5, <1>6, <1>7, <1>8 DEF Next, Command

(* Once Perform has given up, the check stays unmonitored until a command  *)
(* comes, for every number of tries, of calls and of goroutines, when the  *)
(* operations of the check fit the guard timer and a goroutine enters      *)
(* before the wait for it times out (Perform, start).                      *)
THEOREM GivenUpForGood == ASSUME Overrunning = {}, Prompt PROVE Spec => []GivenUpStays
  <1>1. Init => GivenUpInv
    BY DEF Init, GivenUpInv, PerformPlaces, Trying, Counted
  <1>2. Spec => []GivenUpInv
    BY <1>1, GivenUpStep, AloneHolds, GuardIInv, PInvHolds, KindHolds, TypeCorrect, PTL DEF Spec
  <1>3. GivenUpInv => GivenUpStays
    BY DEF GivenUpInv, GivenUpStays
  <1> QED BY <1>2, <1>3, PTL

(* A step of a call that cannot start the service leaves it so. *)
LEMMA HarmlessStep ==
  ASSUME TypeOK, TypeOK', KindInv, Settled, NEW o \in Ops, Operation(o)
  PROVE  /\ Settled' /\ running' = running
  <1>1. Harmless(o) /\ ~monitored /\ kind' = kind /\ running' = running
    BY DEF Settled, Operation, Begin, Leaving, Perform, performMonitored, performRunning,
       performLook, performTimeout, performCount, performGiveUp, performReset, Start, Stop,
       OpRest
  <1>2. ASSUME NEW p \in Ops, p # o PROVE Harmless(p)'
    <2>1. phase'[p] = phase[p] /\ pc'[p] = pc[p]
      BY <1>2 DEF Operation, Begin, Leaving, Perform, performMonitored, performRunning,
         performLook, performTimeout, performCount, performGiveUp, performReset, Start,
         Stop, Goto, Done, guardVars, TypeOK, Guard!TypeOK, Guard!Begin, Guard!StopTimer,
         Guard!Finish, Guard!Expire, Guard!Fire, Guard!Release, Guard!Return
    <2> QED BY <1>1, <2>1 DEF Settled, Harmless
  <1>3. ASSUME monitored' = monitored, \A s \in Starting : routines'[s] = 0, Harmless(o)'
        PROVE  Settled'
    BY <1>1, <1>2, <1>3 DEF Settled
  <1>4. ASSUME Done(o) PROVE Harmless(o)'
    BY <1>4 DEF Done, Guard!Return, Harmless, TypeOK, Guard!TypeOK
  <1>5. CASE Begin(o)
    <2>1. kind[o] \in {"perform", "stop"}
      BY <1>1, <1>5 DEF Begin, Guard!Begin, Harmless
    <2>2. Harmless(o)'
      BY <1>1, <1>5, <2>1 DEF Begin, Entry, Harmless, TypeOK
    <2> QED BY <1>1, <1>3, <1>5, <2>2 DEF Begin, checkVars, Settled
  <1>6. CASE Leaving(o)
    <2>1. Harmless(o)'
      BY <1>1, <1>6 DEF Leaving, Guard!StopTimer, Guard!Finish, Guard!Expire, Guard!Fire,
         Guard!Release, Harmless, TypeOK, Guard!TypeOK
    <2> QED BY <1>1, <1>3, <1>6, <2>1 DEF Leaving, checkVars, Settled
  <1>7. CASE Perform(o)
    <2>1. phase[o] = "running" /\ kind[o] # "stop"
      BY <1>7 DEF KindInv, Perform, performMonitored, performRunning, performLook,
         performTimeout, performCount, performGiveUp, performReset, At
    <2>2. pc[o] = "monitored"
      BY <1>1, <2>1 DEF Harmless, TypeOK
    <2>3. performMonitored(o)
      BY <1>7, <2>2 DEF Perform, performRunning, performLook, performTimeout, performCount,
         performGiveUp, performReset, At
    <2>4. Done(o)
      BY <1>1, <2>3 DEF performMonitored
    <2> QED BY <1>1, <1>3, <1>4, <2>3, <2>4 DEF performMonitored, checkVars, Settled
  <1>8. ~Start(o)
    <2>1. phase[o] = "running" /\ pc[o] \notin {"none", "monitored"} \cup PerformPlaces
            => kind[o] = "stop"
      BY <1>1 DEF Harmless
    <2> QED BY <2>1 DEF Start, At, KindInv, PerformPlaces, Trying, Counted
  <1>9. CASE Stop(o)
    <2>1. phase[o] = "running" /\ pc[o] \in {"stop", "stopFirst", "stopWait"}
      BY <1>9 DEF Stop, At
    <2>2. kind[o] = "stop"
      BY <1>1, <2>1 DEF Harmless
    <2>3. Harmless(o)'
      BY <1>1, <2>2 DEF Harmless
    <2>4. \A s \in Starting : routines'[s] = 0
      BY <1>9 DEF Stop, Spawn, Starting, Stopping, TypeOK, Settled
    <2>5. monitored' = monitored
      BY <1>9 DEF Stop, checkVars
    <2> QED BY <1>1, <1>3, <2>3, <2>4, <2>5
  <1> QED BY <1>1, <1>5, <1>6, <1>7, <1>8, <1>9 DEF Operation

LEMMA SettledStep ==
  ASSUME TypeOK, TypeOK', KindInv, Next, Settled, ~Command
  PROVE  Settled' /\ (running' => running)
  <1>1. CASE \E o \in Ops : Operation(o)
    BY <1>1, HarmlessStep
  <1>2. CASE Routine
    <2>1. ~startEnter /\ ~startCheck /\ ~startExec
      <3>1. routines["start"] = 0 /\ routines["startCheck"] = 0 /\ routines["startExec"] = 0
        BY DEF Settled, Starting
      <3> QED BY <3>1 DEF startEnter, startCheck, startExec, Leave, Proceed
    <2>2. UNCHANGED <<phase, kind, pc>>
      BY <1>2 DEF Routine, startEnter, startCheck, startExec, stopEnter, stopCheck,
         stopExec, RoutineRest, guardVars
    <2>3. ~monitored' /\ (running' => running)
      <3>1. ~monitored /\ monitored \in BOOLEAN
        BY DEF Settled, TypeOK
      <3>2. CASE stopEnter
        BY <3>2 DEF stopEnter
      <3>3. CASE stopCheck
        BY <3>1, <3>3 DEF stopCheck
      <3>4. CASE stopExec
        <4>1. monitored' = monitored /\ (running' = running \/ running' = FALSE)
          BY <3>4 DEF stopExec
        <4>2. ~monitored'
          BY <3>1, <4>1
        <4>3. running' => running
          BY <4>1, Zenon
        <4> QED BY <4>2, <4>3
      <3> QED BY <1>2, <2>1, <3>2, <3>3, <3>4 DEF Routine
    <2>4. \A s \in Starting : routines'[s] = 0
      BY <1>2, <2>1 DEF Routine, stopEnter, stopCheck, stopExec, Leave, Proceed,
         Settled, Starting, Stopping, TypeOK
    <2> QED BY <2>2, <2>3, <2>4 DEF Settled, Harmless
  <1>3. CASE CheckOnce
    <2>1. UNCHANGED <<monitored, routines, running>>
      BY <1>3 DEF CheckOnce, Take, checkVars
    <2>2. \A o \in Ops : Harmless(o)'
      <3>1. CASE UNCHANGED <<phase, kind, pc>>
        BY <3>1 DEF Settled, Harmless
      <3>2. ASSUME NEW o \in Ops, Take(o, "perform") PROVE \A p \in Ops : Harmless(p)'
        BY <3>2 DEF Take, Guard!Take, Guard!Unused, Settled, Harmless, TypeOK, Guard!TypeOK
      <3> QED BY <1>3, <3>1, <3>2 DEF CheckOnce, guardVars
    <2> QED BY <2>1, <2>2 DEF Settled
  <1>4. CASE Crash
    BY <1>4 DEF Crash, Settled, Harmless, guardVars, checkVars
  <1>5. ~Poll
    BY DEF Poll, Settled
  <1> QED BY <1>1, <1>2, <1>3, <1>4, <1>5 DEF Next

(* A check that is unmonitored and at rest stays so until a command comes, *)
(* and its service is not started, also when operations outlive the guard  *)
(* and overlap.                                                            *)
THEOREM SettledForGood == Spec => SettledStays
  <1>1. TypeOK /\ TypeOK' /\ KindInv /\ [Next]_vars
          => [Settled /\ ~Command => Settled' /\ (running' => running)]_vars
    BY SettledStep
  <1> QED BY <1>1, KindHolds, TypeCorrect, PTL DEF Spec, SettledStays

-----------------------------------------------------------------------------
(* The other check object of the service (Reloaded): its steps change the  *)
(* service, and a reload sets the flag of an object that is still unused.  *)
Untouched == /\ polls = 0 /\ \A s \in Starting \cup Stopping : routines[s] = 0
             /\ \A o \in Ops : phase[o] = "idle" /\ timer[o] = "unset"

LEMMA InitUntouched == Init => Untouched
  BY DEF Init, Guard!Init, Untouched

LEMMA UntouchedRests ==
  ASSUME TypeOK, Untouched
  PROVE  ~Routine /\ ~CheckOnce /\ \A o \in Ops : ~Operation(o)
  <1>1. ~Routine
    <2>1. \A s \in Starting \cup Stopping : ~(routines[s] > 0)
      BY DEF Untouched
    <2> QED BY <2>1 DEF Starting, Stopping, Routine, startEnter, startCheck, startExec,
                        stopEnter, stopCheck, stopExec, Leave, Proceed
  <1>2. ~CheckOnce
    BY DEF Untouched, CheckOnce
  <1>3. ASSUME NEW o \in Ops PROVE ~Operation(o)
    BY DEF Untouched, Operation, Begin, Leaving, Perform, performMonitored, performRunning,
           performLook, performTimeout, performCount, performGiveUp, performReset, Start, Stop,
           At, Guard!Begin, Guard!StopTimer, Guard!Finish, Guard!Expire, Guard!Fire, Guard!Release
  <1> QED BY <1>1, <1>2, <1>3

LEMMA OthersMove ==
  ASSUME TypeOK, KindInv,
         UNCHANGED <<guardVars, kind, pc, tries, routines, polls, attempts, calm>>,
         monitored' \in BOOLEAN, running' \in BOOLEAN,
         commands' \in 0..MaxCommands, crashes' \in 0..MaxCrashes,
         lastCommand' \in Kinds \cup {"none", "monitor", "unmonitor", "restarted", "gaveUp"}
  PROVE  /\ TypeOK' /\ KindInv'
         /\ Untouched => Untouched'
         /\ Untouched \/ Settled => (~monitored' => Settled')
  <1>1. TypeOK'
    BY DEF TypeOK, Guard!TypeOK, Guard!Phases, Guard!Timers, Guard!Unused, guardVars, Spawned
  <1>2. KindInv' /\ (Untouched => Untouched')
    BY DEF KindInv, Untouched, guardVars
  <1>3. Untouched \/ Settled => (~monitored' => Settled')
    BY DEF Untouched, Settled, Harmless, guardVars
  <1> QED BY <1>1, <1>2, <1>3

-----------------------------------------------------------------------------
(* A stop or restart that nothing disturbs: which goroutines there are at  *)
(* each of its places, and what they have done to the flag.                *)
NoneOf(S) == \A s \in S : routines[s] = 0

(* One stop goroutine, which is gone once the service is down. *)
OneStopping == /\ \/ routines["stopCheck"] = 0 /\ routines["stopExec"] = 0
                  \/ routines["stop"] = 0 /\ routines["stopExec"] = 0
                  \/ routines["stop"] = 0 /\ routines["stopCheck"] = 0
               /\ \A s \in Stopping : routines[s] <= 1
               /\ ~running => NoneOf(Stopping)

(* The flag is cleared once the goroutine of stop() has entered. *)
StopUndisturbed(o) ==
  /\ pc[o] \in {"stop", "stopFirst", "stopWait"}
  /\ NoneOf(Starting)
  /\ pc[o] = "stop" => running /\ NoneOf(Stopping)
  /\ pc[o] # "stop" => OneStopping /\ (routines["stop"] = 0 => ~monitored)

(* The goroutine of stop() is gone before that of start() is spawned. *)
RestartUndisturbed(o) ==
  /\ pc[o] \in {"stop", "stopFirst", "stopWait", "start", "startFirst", "startWait"}
  /\ pc[o] = "stop" => running /\ NoneOf(Stopping)
  /\ pc[o] \in {"stopFirst", "stopWait"} => OneStopping
  /\ pc[o] \in {"start", "startFirst", "startWait"} => NoneOf(Stopping)
  /\ pc[o] \in {"startFirst", "startWait"} => monitored \/ routines["start"] > 0

Undisturbed(o) ==
  \/ kind[o] = "stop" /\ StopUndisturbed(o)
  \/ kind[o] = "restart" /\ RestartUndisturbed(o)

CalmInv == calm => \A o \in Ops : pc[o] # "none" => Undisturbed(o)

(* A step of a goroutine takes it from one place to another, or ends it. *)
LEMMA ProceedAt ==
  ASSUME TypeOK, NEW s \in Starting \cup Stopping, NEW t \in Starting \cup Stopping,
         s # t, Proceed(s, t)
  PROVE  /\ routines[s] > 0
         /\ routines'[s] = routines[s] - 1 /\ routines'[t] = routines[t] + 1
         /\ \A u \in (Starting \cup Stopping) \ {s, t} : routines'[u] = routines[u]
  BY DEF Proceed, TypeOK

LEMMA LeaveAt ==
  ASSUME TypeOK, NEW s \in Starting \cup Stopping, Leave(s)
  PROVE  /\ routines[s] > 0 /\ routines'[s] = routines[s] - 1
         /\ \A u \in (Starting \cup Stopping) \ {s} : routines'[u] = routines[u]
  BY DEF Leave, TypeOK

LEMMA StoppingMoves ==
  ASSUME TypeOK, stopEnter \/ stopCheck \/ stopExec
  PROVE  /\ UNCHANGED <<routines["start"], routines["startCheck"], routines["startExec"]>>
         /\ \/ /\ routines["stop"] > 0 /\ routines'["stop"] = routines["stop"] - 1
               /\ routines'["stopCheck"] = routines["stopCheck"] + 1
               /\ routines'["stopExec"] = routines["stopExec"]
               /\ ~monitored' /\ (running' <=> running)
            \/ /\ routines["stopCheck"] > 0 /\ routines'["stop"] = routines["stop"]
               /\ routines'["stopCheck"] = routines["stopCheck"] - 1
               /\ \/ running /\ routines'["stopExec"] = routines["stopExec"] + 1
                  \/ ~running /\ routines'["stopExec"] = routines["stopExec"]
               /\ (monitored' <=> monitored) /\ (running' <=> running)
            \/ /\ routines["stopExec"] > 0 /\ routines'["stop"] = routines["stop"]
               /\ routines'["stopCheck"] = routines["stopCheck"]
               /\ routines'["stopExec"] = routines["stopExec"] - 1
               /\ (monitored' <=> monitored) /\ (running' => running)
  <1>1. CASE stopEnter
    <2>1. ~monitored' /\ (running' <=> running)
      BY <1>1 DEF stopEnter
    <2> QED BY <1>1, <2>1, ProceedAt DEF stopEnter, Starting, Stopping
  <1>2. CASE stopCheck
    <2>1. (monitored' <=> monitored) /\ (running' <=> running)
      BY <1>2 DEF stopCheck
    <2> QED BY <1>2, <2>1, ProceedAt, LeaveAt DEF stopCheck, Starting, Stopping
  <1>3. CASE stopExec
    <2>1. monitored' <=> monitored
      BY <1>3 DEF stopExec
    <2>2. running' => running
      BY <1>3, Zenon DEF stopExec
    <2> QED BY <1>3, <2>1, <2>2, LeaveAt DEF stopExec, Starting, Stopping
  <1> QED BY <1>1, <1>2, <1>3

LEMMA StartingMoves ==
  ASSUME TypeOK, startEnter \/ startCheck \/ startExec
  PROVE  /\ UNCHANGED <<routines["stop"], routines["stopCheck"], routines["stopExec"]>>
         /\ \/ routines["start"] > 0 /\ monitored' /\ (running' <=> running)
            \/ /\ routines["startCheck"] > 0 /\ routines'["start"] = routines["start"]
               /\ (monitored' <=> monitored) /\ (running' <=> running)
            \/ /\ routines["startExec"] > 0 /\ routines'["start"] = routines["start"]
               /\ (monitored' <=> monitored) /\ (running => running')
  <1>1. CASE startEnter
    <2>1. monitored' /\ (running' <=> running)
      BY <1>1 DEF startEnter
    <2> QED BY <1>1, <2>1, ProceedAt DEF startEnter, Starting, Stopping
  <1>2. CASE startCheck
    <2>1. (monitored' <=> monitored) /\ (running' <=> running)
      BY <1>2 DEF startCheck
    <2> QED BY <1>2, <2>1, ProceedAt, LeaveAt DEF startCheck, Starting, Stopping
  <1>3. CASE startExec
    <2>1. monitored' <=> monitored
      BY <1>3 DEF startExec
    <2>2. running => running'
      BY <1>3, Zenon DEF startExec
    <2> QED BY <1>3, <2>1, <2>2, LeaveAt DEF startExec, Starting, Stopping
  <1> QED BY <1>1, <1>2, <1>3

LEMMA OneStoppingMoves ==
  ASSUME TypeOK, TypeOK', OneStopping, Routine
  PROVE  OneStopping'
  <1> USE DEF OneStopping, NoneOf, Stopping
  <1>0. /\ \A s \in Starting \cup Stopping : routines[s] \in Nat /\ routines'[s] \in Nat
        /\ running \in BOOLEAN /\ running' \in BOOLEAN
    BY DEF TypeOK
  <1>1. CASE startEnter \/ startCheck \/ startExec
    <2>1. running => running'
      BY <1>1, StartingMoves, <1>0
    <2> QED BY <1>0, <1>1, <2>1, StartingMoves
  <1>2. CASE stopEnter \/ stopCheck \/ stopExec
    BY <1>0, <1>2, StoppingMoves
  <1> QED BY <1>1, <1>2 DEF Routine

LEMMA RoutineUndisturbed ==
  ASSUME TypeOK, TypeOK', Routine, NEW o \in Ops, Undisturbed(o)
  PROVE  Undisturbed(o)'
  <1>1. UNCHANGED <<kind, pc>>
    BY DEF Routine, startEnter, startCheck, startExec, stopEnter, stopCheck, stopExec,
           RoutineRest
  <1>2. \A s \in Starting \cup Stopping : routines[s] \in Nat /\ routines'[s] \in Nat
    BY DEF TypeOK
  <1>3. CASE kind[o] = "stop" /\ StopUndisturbed(o)
    <2>1. ~startEnter /\ ~startCheck /\ ~startExec
      <3>1. routines["start"] = 0 /\ routines["startCheck"] = 0 /\ routines["startExec"] = 0
        BY <1>3 DEF StopUndisturbed, NoneOf, Starting
      <3> QED BY <3>1 DEF startEnter, startCheck, startExec, Proceed, Leave
    <2>2. stopEnter \/ stopCheck \/ stopExec
      BY <2>1 DEF Routine
    <2>3. pc[o] \in {"stopFirst", "stopWait"}
      BY <1>2, <1>3, <2>2, StoppingMoves DEF StopUndisturbed, NoneOf, Stopping
    <2>4. NoneOf(Starting)'
      BY <1>3, <2>2, StoppingMoves DEF StopUndisturbed, NoneOf, Starting
    <2>5. OneStopping'
      BY <1>3, <2>3, OneStoppingMoves DEF StopUndisturbed
    <2>6. routines'["stop"] = 0 => ~monitored'
      BY <1>2, <1>3, <2>2, <2>3, StoppingMoves DEF StopUndisturbed, Stopping
    <2> QED BY <1>1, <1>3, <2>3, <2>4, <2>5, <2>6 DEF Undisturbed, StopUndisturbed
  <1>4. CASE kind[o] = "restart" /\ RestartUndisturbed(o)
    <2>1. CASE pc[o] \in {"stopFirst", "stopWait"}
      BY <1>1, <1>4, <2>1, OneStoppingMoves DEF Undisturbed, RestartUndisturbed
    <2>2. CASE pc[o] \in {"stop", "start", "startFirst", "startWait"}
      <3>1. NoneOf(Stopping)
        BY <1>4, <2>2 DEF RestartUndisturbed
      <3>2. startEnter \/ startCheck \/ startExec
        BY <1>2, <3>1, StoppingMoves DEF NoneOf, Stopping, Routine
      <3>3. NoneOf(Stopping)'
        BY <3>1, <3>2, StartingMoves DEF NoneOf, Stopping
      <3>4. running => running'
        BY <3>2, StartingMoves DEF TypeOK
      <3>5. monitored \/ routines["start"] > 0 => monitored' \/ routines'["start"] > 0
        BY <3>2, StartingMoves DEF TypeOK
      <3> QED BY <1>1, <1>4, <2>2, <3>3, <3>4, <3>5 DEF Undisturbed, RestartUndisturbed
    <2> QED BY <1>4, <2>1, <2>2 DEF RestartUndisturbed
  <1> QED BY <1>3, <1>4 DEF Undisturbed

LEMMA OperationUndisturbed ==
  ASSUME TypeOK, TypeOK', Alone, CalmInv, NEW o \in Ops, Operation(o)
  PROVE  CalmInv'
  <1>1. CASE Leaving(o)
    BY <1>1 DEF Leaving, checkVars, OpRest, CalmInv, Undisturbed, StopUndisturbed,
       RestartUndisturbed, OneStopping, NoneOf
  <1>2. ASSUME ~Leaving(o) PROVE phase[o] # "idle"
    BY <1>2 DEF Operation, Begin, Guard!Begin, Perform, performMonitored, performRunning,
       performLook, performTimeout, performCount, performGiveUp, performReset, Start,
       Stop, At
  <1>3. ASSUME ~Leaving(o), calm' => pc'[o] = "none" \/ Undisturbed(o)' PROVE CalmInv'
    <2>1. \A p \in Ops \ {o} : pc[p] = "none" /\ pc'[p] = pc[p]
      BY <1>2, <1>3 DEF Alone, Operation, Begin, Perform, performMonitored,
         performRunning, performLook, performTimeout, performCount, performGiveUp,
         performReset, Start, Stop, Goto, Done, TypeOK
    <2> QED BY <1>3, <2>1 DEF CalmInv
  <1>4. /\ kind' = kind /\ running' = running
        /\ ~Begin(o) => calm' = calm
    BY DEF Operation, Begin, Leaving, Perform, performMonitored, performRunning,
       performLook, performTimeout, performCount, performGiveUp, performReset, Start,
       Stop, OpRest
  <1>5. CASE ~Leaving(o) /\ Begin(o)
    <2>1. pc'[o] = Entry[kind[o]] /\ routines' = routines
      BY <1>5 DEF Begin, TypeOK
    <2>2. ASSUME calm' PROVE Undisturbed(o)'
      <3>1. /\ running /\ kind[o] \in {"restart", "stop"}
            /\ \A s \in Stopping : routines[s] = 0
            /\ kind[o] = "stop" => \A s \in Starting : routines[s] = 0
        BY <1>5, <2>2 DEF Begin
      <3>2. pc'[o] = "stop"
        BY <2>1, <3>1 DEF Entry
      <3>3. kind'[o] = "stop" => StopUndisturbed(o)'
        BY <1>4, <2>1, <3>1, <3>2 DEF StopUndisturbed, NoneOf
      <3>4. kind'[o] = "restart" => RestartUndisturbed(o)'
        BY <1>4, <2>1, <3>1, <3>2 DEF RestartUndisturbed, NoneOf
      <3> QED BY <1>4, <3>1, <3>3, <3>4 DEF Undisturbed
    <2> QED BY <1>3, <1>5, <2>2
  <1>6. CASE ~Leaving(o) /\ ~Begin(o) /\ ~calm
    BY <1>3, <1>4, <1>6
  <1>7. CASE ~Leaving(o) /\ ~Begin(o) /\ calm
    <2>1. phase[o] = "running" /\ pc[o] # "none"
      BY <1>7 DEF Operation, Perform, performMonitored, performRunning, performLook,
         performTimeout, performCount, performGiveUp, performReset, Start, Stop, At, TypeOK
    <2>2. Undisturbed(o)
      BY <1>7, <2>1 DEF CalmInv
    <2>3. ~Perform(o)
      BY <2>2 DEF Undisturbed, StopUndisturbed, RestartUndisturbed, Perform,
         performMonitored, performRunning, performLook, performTimeout, performCount,
         performGiveUp, performReset, At
    <2>4. CASE Done(o)
      BY <1>3, <1>7, <2>4 DEF Done, TypeOK
    <2>5. CASE Start(o) /\ ~Done(o)
      <3>1. kind[o] = "restart" /\ RestartUndisturbed(o) /\ monitored' = monitored
        BY <2>2, <2>5 DEF Undisturbed, StopUndisturbed, Start, At, checkVars
      <3>2. NoneOf(Stopping)
        BY <2>5, <3>1 DEF RestartUndisturbed, Start, At
      <3>3. /\ NoneOf(Stopping)' /\ pc'[o] \in {"startFirst", "startWait"}
            /\ monitored' \/ routines'["start"] > 0
        <4>1. CASE At(o, "start") /\ Spawn("start") /\ Goto(o, "startFirst")
          BY <3>2, <4>1 DEF Spawn, Goto, NoneOf, Starting, Stopping, TypeOK
        <4>2. CASE At(o, "startFirst") /\ Goto(o, "startWait") /\ UNCHANGED routines
          BY <3>1, <3>2, <4>2 DEF RestartUndisturbed, At, Goto, NoneOf, TypeOK
        <4> QED BY <2>5, <4>1, <4>2 DEF Start
      <3>4. Undisturbed(o)'
        BY <1>4, <3>1, <3>3 DEF Undisturbed, RestartUndisturbed
      <3> QED BY <1>3, <1>7, <3>4
    <2>6. CASE Stop(o) /\ ~Done(o)
      <3>1. monitored' = monitored
        BY <2>6 DEF Stop, checkVars
      <3>2. CASE At(o, "stop") /\ Spawn("stop") /\ Goto(o, "stopFirst")
        <4>1. running /\ NoneOf(Stopping) /\ (kind[o] = "stop" => NoneOf(Starting))
          BY <2>2, <3>2 DEF Undisturbed, StopUndisturbed, RestartUndisturbed, At
        <4>2. /\ routines'["stop"] = 1 /\ routines'["stopCheck"] = 0
              /\ routines'["stopExec"] = 0 /\ pc'[o] = "stopFirst"
          BY <3>2, <4>1 DEF Spawn, Goto, NoneOf, Starting, Stopping, TypeOK
        <4>3. OneStopping'
          BY <1>4, <4>1, <4>2 DEF OneStopping, Stopping
        <4>4. kind[o] = "stop" => NoneOf(Starting)'
          BY <3>2, <4>1 DEF Spawn, NoneOf, Starting, Stopping, TypeOK
        <4>5. Undisturbed(o)'
          BY <1>4, <2>2, <4>2, <4>3, <4>4 DEF Undisturbed, StopUndisturbed,
             RestartUndisturbed
        <4> QED BY <1>3, <1>7, <4>5
      <3>3. CASE At(o, "stopFirst") /\ Goto(o, "stopWait") /\ UNCHANGED routines
        <4>1. pc[o] = "stopFirst" /\ pc'[o] = "stopWait"
          BY <3>3 DEF At, Goto, TypeOK
        <4>2. OneStopping => OneStopping'
          BY <1>4, <3>3 DEF OneStopping, NoneOf
        <4>3. kind[o] = "stop" => StopUndisturbed(o)'
          BY <2>2, <3>1, <3>3, <4>1, <4>2 DEF Undisturbed, StopUndisturbed, NoneOf
        <4>4. kind[o] = "restart" => RestartUndisturbed(o)'
          BY <2>2, <4>1, <4>2 DEF Undisturbed, RestartUndisturbed
        <4>5. Undisturbed(o)'
          BY <1>4, <2>2, <4>3, <4>4 DEF Undisturbed
        <4> QED BY <1>3, <1>7, <4>5
      <3>4. CASE /\ At(o, "stopFirst") \/ At(o, "stopWait")
                 /\ ~running /\ kind[o] = "restart" /\ Goto(o, "start")
                 /\ UNCHANGED routines
        <4>1. NoneOf(Stopping)' /\ pc'[o] = "start"
          BY <2>2, <3>4 DEF Undisturbed, RestartUndisturbed, OneStopping, NoneOf, At,
             Goto, TypeOK
        <4>2. Undisturbed(o)'
          BY <1>4, <3>4, <4>1 DEF Undisturbed, RestartUndisturbed
        <4> QED BY <1>3, <1>7, <4>2
      <3> QED BY <2>6, <3>2, <3>3, <3>4 DEF Stop
    <2> QED BY <1>7, <2>3, <2>4, <2>5, <2>6 DEF Operation
  <1> QED BY <1>1, <1>5, <1>6, <1>7

LEMMA NextCalmInv == TypeOK /\ TypeOK' /\ Alone /\ CalmInv /\ [Next]_vars => CalmInv'
  <1> SUFFICES ASSUME TypeOK, TypeOK', Alone, CalmInv, [Next]_vars PROVE CalmInv'
    OBVIOUS
  <1>1. CASE \E o \in Ops : Operation(o)
    BY <1>1, OperationUndisturbed
  <1>2. CASE Routine
    BY <1>2, RoutineUndisturbed DEF CalmInv, Routine, startEnter, startCheck, startExec,
       stopEnter, stopCheck, stopExec, RoutineRest, history
  <1>3. ASSUME NEW o \in Ops, NEW k, Take(o, k) PROVE CalmInv'
    <2>1. pc[o] = "none" /\ \A p \in Ops \ {o} : kind'[p] = kind[p]
      BY <1>3 DEF Take, Guard!Take, Guard!Unused, TypeOK
    <2>2. ASSUME NEW p \in Ops \ {o}, Undisturbed(p) PROVE Undisturbed(p)'
      BY <1>3, <2>1, <2>2 DEF Take, checkVars, Undisturbed, StopUndisturbed,
         RestartUndisturbed, OneStopping, NoneOf
    <2> QED BY <1>3, <2>1, <2>2 DEF Take, CalmInv
  <1>4. CASE UNCHANGED <<kind, pc, running, monitored, routines, calm>>
    BY <1>4 DEF CalmInv, Undisturbed, StopUndisturbed, RestartUndisturbed, OneStopping,
       NoneOf
  <1>5. CASE ~calm'
    BY <1>5 DEF CalmInv
  <1> QED BY <1>1, <1>2, <1>3, <1>4, <1>5 DEF Next, Poll, CheckOnce, Command, Request,
       Switch, Crash, checkVars, history, vars

LEMMA CalmHolds == ASSUME Overrunning = {} PROVE Spec => []CalmInv
  <1>1. Init => CalmInv
    BY DEF Init, CalmInv
  <1> QED BY <1>1, NextCalmInv, AloneHolds, GuardIInv, TypeCorrect, PTL DEF Spec

(* A call that returns has finished its callback in this step, which moves *)
(* no goroutine and no flag.                                               *)
LEMMA ReturnIsDone ==
  ASSUME TypeOK, Next, NEW o \in Ops, phase[o] = "running", phase'[o] = "returned"
  PROVE  Operation(o) /\ Done(o)
  <1>1. PICK p \in Ops : Operation(p)
    BY DEF Next, Routine, startEnter, startCheck, startExec, stopEnter, stopCheck,
       stopExec, RoutineRest, Poll, CheckOnce, Command, Request, Switch, Take,
       Guard!Take, Crash, guardVars, TypeOK, Guard!TypeOK
  <1>2. Done(p) /\ p = o
    BY <1>1 DEF Operation, Begin, Leaving, Perform, performMonitored, performRunning,
       performLook, performTimeout, performCount, performGiveUp, performReset, Start,
       Stop, Goto, Done, guardVars, Guard!Begin, Guard!StopTimer, Guard!Finish,
       Guard!Expire, Guard!Fire, Guard!Release, Guard!Return, TypeOK, Guard!TypeOK
  <1> QED BY <1>1, <1>2

(* A restart of a running service that nothing disturbs leaves it monitored *)
(* and with nothing that would stop it again, whatever start goroutines it  *)
(* met when it began, for every number of calls and of goroutines, when     *)
(* operations fit the guard timer.                                          *)
THEOREM RestartLeavesMonitored == ASSUME Overrunning = {} PROVE Spec => RestartOfRunning
  <1>1. TypeOK /\ CalmInv /\ [Next]_vars
        => [\A o \in Ops :
              (/\ kind[o] = "restart" /\ pc[o] \in {"startFirst", "startWait"}
               /\ calm /\ running /\ phase'[o] = "returned")
              => /\ monitored' \/ routines'["start"] > 0
                 /\ \A s \in Stopping : routines'[s] = 0]_vars
    <2> SUFFICES ASSUME TypeOK, CalmInv, Next, NEW o \in Ops, kind[o] = "restart",
                        pc[o] \in {"startFirst", "startWait"}, calm, phase'[o] = "returned"
                 PROVE  /\ monitored' \/ routines'["start"] > 0
                        /\ \A s \in Stopping : routines'[s] = 0
      OBVIOUS
    <2>1. phase[o] = "running"
      BY DEF TypeOK
    <2>2. RestartUndisturbed(o)
      BY DEF CalmInv, Undisturbed
    <2>3. Operation(o) /\ Done(o)
      BY <2>1, ReturnIsDone
    <2>4. ~Begin(o) /\ ~Leaving(o)
      BY <2>1, <2>3 DEF Begin, Leaving, Done, Guard!Begin, Guard!Return, Guard!StopTimer,
         Guard!Finish, Guard!Expire, Guard!Fire, Guard!Release, TypeOK, Guard!TypeOK
    <2>5. Start(o)
      BY <2>3, <2>4 DEF Operation, Perform, performMonitored, performRunning, performLook,
         performTimeout, performCount, performGiveUp, performReset, Stop, At
    <2>6. monitored' = monitored /\ routines' = routines
      BY <2>5 DEF Start, At, checkVars
    <2> QED BY <2>2, <2>6 DEF RestartUndisturbed, NoneOf
  <1> QED BY <1>1, CalmHolds, TypeCorrect, PTL DEF Spec, RestartOfRunning

(* A stop of a running service that nothing disturbs has cleared the flag   *)
(* when it returns with the service down, and no goroutine can start it, so *)
(* that no poll brings it back.                                             *)
THEOREM StopLeavesUnmonitored == ASSUME Overrunning = {} PROVE Spec => StopOfRunning
  <1>1. TypeOK /\ CalmInv /\ [Next]_vars
        => [\A o \in Ops :
              kind[o] = "stop" /\ phase[o] = "running" /\ calm /\ ~running
              /\ phase'[o] = "returned"
              => ~monitored' /\ \A s \in Starting : routines'[s] = 0]_vars
    <2> SUFFICES ASSUME TypeOK, CalmInv, Next, NEW o \in Ops, kind[o] = "stop",
                        phase[o] = "running", calm, ~running, phase'[o] = "returned"
                 PROVE  ~monitored' /\ \A s \in Starting : routines'[s] = 0
      OBVIOUS
    <2>1. StopUndisturbed(o)
      BY DEF CalmInv, Undisturbed, TypeOK
    <2>2. ~monitored /\ NoneOf(Starting)
      BY <2>1 DEF StopUndisturbed, OneStopping, NoneOf, Stopping
    <2>3. Operation(o) /\ Done(o)
      BY ReturnIsDone
    <2>4. ~Begin(o) /\ ~Leaving(o)
      BY <2>3 DEF Begin, Leaving, Done, Guard!Begin, Guard!Return, Guard!StopTimer,
         Guard!Finish, Guard!Expire, Guard!Fire, Guard!Release, TypeOK, Guard!TypeOK
    <2>5. Stop(o)
      BY <2>1, <2>3, <2>4 DEF Operation, Perform, performMonitored, performRunning,
         performLook, performTimeout, performCount, performGiveUp, performReset, Start,
         At, StopUndisturbed
    <2>6. monitored' = monitored /\ routines' = routines
      BY <2>1, <2>3, <2>5 DEF Stop, At, checkVars, Done, Goto, StopUndisturbed, TypeOK
    <2> QED BY <2>2, <2>6 DEF NoneOf
  <1> QED BY <1>1, CalmHolds, TypeCorrect, PTL DEF Spec, StopOfRunning
=============================================================================
