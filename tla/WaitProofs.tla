----------------------------- MODULE WaitProofs -----------------------------
(***************************************************************************)
(* Proofs about WaitUntil: for every definition, timeout and interval the  *)
(* loop implements Wait, answers in time, does not overlook a service that *)
(* has come up, and waits as long as the definition says.                  *)
(***************************************************************************)
EXTENDS WaitUntil, FiniteSetTheorems, WellFoundedInduction, TLAPS

(* A timeout is an integer, whatever the definition says. *)
LEMMA WrapType == ASSUME NEW n \in Int PROVE Wrap(n) \in Int
  BY DefinitionAssumption DEF Wrap

LEMMA ParseType == ASSUME NEW t \in Timeouts PROVE parseWithTimeout(t) \in Int
  <1>1. CASE t \in {None, Malformed} \/ t.n # Wrap(t.n)
    BY <1>1 DEF parseWithTimeout
  <1>2. CASE t \notin {None, Malformed}
    <2>1. t.n \in Int /\ Unit[t.unit] \in Int
      BY <1>2, DefinitionAssumption DEF Timeouts
    <2>2. t.n * Unit[t.unit] \in Int
      BY <2>1
    <2> QED BY <2>2, WrapType DEF parseWithTimeout
  <1> QED BY <1>1, <1>2

LEMMA TimeoutType ==
  ASSUME NEW d \in Seq(Statement), NEW k \in {"start", "stop"}
  PROVE Timeout(d, k) \in Int
  <1> DEFINE at == {i \in Reached(d) : Taken(d[i]) = k}
             last(i) == \A j \in at : j <= i
  <1>1. ASSUME NEW i \in at PROVE parseWithTimeout(d[i].timeout) \in Int
    <2>1. d[i] \in Statement
      BY DEF Reached
    <2>2. d[i].timeout \in Timeouts
      BY <2>1 DEF Statement, Timeouts
    <2> QED BY <2>2, ParseType
  <1>2. ProgramTimeout(d, Reached(d), k) \in Int
    <2>1. CASE \E i \in at : last(i)
      <3>1. (CHOOSE i \in at : last(i)) \in at
        BY <2>1
      <3> QED BY <2>1, <3>1, <1>1 DEF ProgramTimeout
    <2>2. CASE ~\E i \in at : last(i)
      BY <2>2 DEF ProgramTimeout
    <2> QED BY <2>1, <2>2
  <1> QED BY <1>2, DefinitionAssumption DEF Timeout, Initialize

-----------------------------------------------------------------------------
(* The timers and the last look: the iterator is armed when a look begins; *)
(* the select is left as soon as a timer is ready; what a look has missed  *)
(* came up after it had begun.                                             *)
TimerInv == /\ TypeOK
            /\ timeout \in Int
            /\ iterator = began + Interval
            /\ place = "look" => now <= began + LongestLook
            /\ place = "select" => /\ missed
                                   /\ now <= began + Later(Interval, LongestLook)
                                   /\ up => since >= began
            /\ place = "no" => /\ missed
                               /\ up => now - since <= Later(Interval, LongestLook)

LEMMA TimerInit == Init => TimerInv
  <1> SUFFICES ASSUME Init PROVE TimerInv
    OBVIOUS
  <1>1. timeout \in Int
    BY TimeoutType, WaitAssumption DEF Init, timeout
  <1>2. now \in Nat /\ began \in 0..now /\ since \in 0..now
    BY DEF Init
  <1>3. iterator \in Nat /\ iterator = began + Interval /\ iterator <= now + Interval
    BY WaitAssumption DEF Init
  <1>4. now <= began + LongestLook
    BY WaitAssumption DEF Init
  <1>5. place = "look" /\ missed \in BOOLEAN /\ up \in BOOLEAN
    BY DEF Init
  <1> QED BY <1>1, <1>2, <1>3, <1>4, <1>5 DEF Init, TimerInv, TypeOK

LEMMA TimerStep == TimerInv /\ [Next]_vars => TimerInv'
  <1> SUFFICES ASSUME TimerInv, [Next]_vars PROVE TimerInv'
    OBVIOUS
  <1>0. timeout' = timeout
    BY DEF timeout, Next, Step, Look, Iterate, GiveUp, Tick, Change, vars, Timeout
  <1> USE <1>0, WaitAssumption DEF TimerInv, TypeOK, timers, Later
  <1>1. CASE Look
    <2>1. CASE up
      <3>1. place' = "yes" /\ missed' \in BOOLEAN
        BY <1>1, <2>1 DEF Look
      <3> QED BY <1>1, <3>1 DEF Look
    <2>2. CASE ~up
      <3>1. place' = "select" /\ missed' /\ missed' \in BOOLEAN /\ ~up'
        BY <1>1, <2>2 DEF Look
      <3>2. now <= began + Later(Interval, LongestLook)
        BY <1>1 DEF Look
      <3> QED BY <1>1, <3>1, <3>2 DEF Look
    <2> QED BY <2>1, <2>2
  <1>2. CASE Iterate
    BY <1>2 DEF Iterate, Ticked
  <1>3. CASE GiveUp
    BY <1>3 DEF GiveUp
  <1>4. CASE Tick
    BY <1>4 DEF Tick, Ticked
  <1>5. CASE Change
    BY <1>5 DEF Change
  <1>6. CASE UNCHANGED vars
    BY <1>6 DEF vars
  <1> QED BY <1>1, <1>2, <1>3, <1>4, <1>5, <1>6 DEF Next, Step

LEMMA TimersHold == Spec => []TimerInv
  BY TimerInit, TimerStep, PTL DEF Spec

(* The type invariant. *)
THEOREM TypeCorrect == Spec => []TypeOK
  <1>1. TimerInv => TypeOK
    BY DEF TimerInv
  <1> QED BY <1>1, TimersHold, PTL

(* A service that has been up for longer than an interval or a look is not *)
(* reported as failed.                                                     *)
THEOREM SuccessIsSeen == Spec => []SuccessSeen
  <1>1. TimerInv => SuccessSeen
    BY DEF TimerInv, SuccessSeen
  <1> QED BY <1>1, TimersHold, PTL

(* A look begins in time, and the select waits for the timeout at most. *)
LateInv == /\ began <= Later(timeout, 0)
           /\ place = "select" => now <= began + LongestLook \/ now <= timeout
           /\ now <= Later(timeout, 0) + LongestLook

(* When a look takes less than the interval, the answer is late by one     *)
(* look at most: after the timeout, a look may be begun at the very moment *)
(* only.                                                                   *)
THEOREM InTime == LongestLook < Interval => (Spec => []AnswersInTime)
  <1> SUFFICES ASSUME LongestLook < Interval PROVE Spec => []AnswersInTime
    OBVIOUS
  <1>1. TimerInv /\ Init => LateInv
    BY WaitAssumption DEF Init, LateInv, TimerInv, Later
  <1>2. TimerInv /\ LateInv /\ [Next]_vars => LateInv'
    <2> SUFFICES ASSUME TimerInv, LateInv, [Next]_vars PROVE LateInv'
      OBVIOUS
    <2>0. timeout' = timeout
      BY DEF timeout, Next, Step, Look, Iterate, GiveUp, Tick, Change, vars, Timeout
    <2> USE <2>0, WaitAssumption DEF TimerInv, TypeOK, LateInv, timers, Later
    <2>1. CASE Look
      BY <2>1 DEF Look
    <2>2. CASE Iterate
      BY <2>2 DEF Iterate, Ticked
    <2>3. CASE GiveUp
      BY <2>3 DEF GiveUp
    <2>4. CASE Tick
      BY <2>4 DEF Tick, Ticked, Expired
    <2>5. CASE Change
      BY <2>5 DEF Change
    <2>6. CASE UNCHANGED vars
      BY <2>6 DEF vars
    <2> QED BY <2>1, <2>2, <2>3, <2>4, <2>5, <2>6 DEF Next, Step
  <1>3. LateInv => AnswersInTime
    BY DEF LateInv, AnswersInTime
  <1> QED BY <1>1, <1>2, <1>3, TimersHold, PTL DEF Spec

-----------------------------------------------------------------------------
(* The loop implements the safety part of Wait: every step is one of its   *)
(* steps, or none.                                                         *)
THEOREM KeepsPromise == Spec => Promised!Spec
  <1>1. Init => Promised!Init
    BY DEF Init, Promised!Init, placeOfWait, Expired
  <1>2. TimerInv /\ [Next]_vars => [Promised!Next]_Promised!vars
    <2> SUFFICES ASSUME TimerInv, [Next]_vars PROVE [Promised!Next]_Promised!vars
      OBVIOUS
    <2>0. timeout' = timeout
      BY DEF timeout, Next, Step, Look, Iterate, GiveUp, Tick, Change, vars, Timeout
    <2> USE <2>0 DEF TimerInv, TypeOK, timers, placeOfWait, Expired, Promised!vars,
                     Promised!Next
    <2>1. CASE Look
      BY <2>1 DEF Look, Promised!Miss, Promised!Yes
    <2>2. CASE Iterate
      BY <2>2 DEF Iterate
    <2>3. CASE GiveUp
      BY <2>3 DEF GiveUp, Promised!No
    <2>4. CASE Tick
      BY <2>4 DEF Tick, Promised!Surroundings
    <2>5. CASE Change
      BY <2>5 DEF Change, Promised!Surroundings
    <2>6. CASE UNCHANGED vars
      BY <2>6 DEF vars
    <2> QED BY <2>1, <2>2, <2>3, <2>4, <2>5, <2>6 DEF Next, Step
  <1> QED BY <1>1, <1>2, TimersHold, PTL DEF Spec, Promised!Spec

-----------------------------------------------------------------------------
(* A set of naturals up to a bound has a least element and a greatest.     *)
LEMMA Least ==
  ASSUME NEW b \in Nat, NEW S \in SUBSET (0..b), S # {}
  PROVE  \E n \in S : \A m \in S : n <= m
  <1> DEFINE T == {0..n : n \in S}
  <1>1. T \subseteq FiniteSubsetsOf(0..b) /\ T # {}
    <2>1. ASSUME NEW n \in S PROVE 0..n \in FiniteSubsetsOf(0..b)
      <3>1. IsFiniteSet(0..n) /\ 0..n \subseteq 0..b
        BY FS_Interval
      <3> QED BY <3>1 DEF FiniteSubsetsOf
    <2> QED BY <2>1
  <1>2. IsWellFoundedOn(StrictSubsetOrdering(0..b), FiniteSubsetsOf(0..b))
    <2>1. IsFiniteSet(0..b)
      BY FS_Interval
    <2> QED BY <2>1, FS_StrictSubsetOrderingWellFounded
  <1>3. PICK X \in T : \A Y \in T : ~(<<Y, X>> \in StrictSubsetOrdering(0..b))
    <2> HIDE DEF T
    <2> QED BY <1>1, <1>2, WFMin
  <1>4. PICK n \in S : X = 0..n
    OBVIOUS
  <1>5. ASSUME NEW m \in S, m < n PROVE FALSE
    <2>1. 0..m \in T /\ 0..m \subseteq 0..n /\ n \in 0..n /\ n \notin 0..m
      BY <1>5
    <2>2. <<0..m, 0..n>> \in StrictSubsetOrdering(0..b)
      BY <1>1, <1>4, <2>1 DEF StrictSubsetOrdering, FiniteSubsetsOf
    <2> QED BY <1>3, <1>4, <2>1, <2>2
  <1> QED BY <1>5

LEMMA Greatest ==
  ASSUME NEW b \in Nat, NEW S \in SUBSET (0..b), S # {}
  PROVE  \E n \in S : \A m \in S : m <= n
  <1> DEFINE T == {b - n : n \in S}
  <1>1. T \in SUBSET (0..b)
    <2>1. \A n \in S : b - n \in 0..b
      OBVIOUS
    <2> QED BY <2>1
  <1>2. T # {}
    OBVIOUS
  <1>3. PICK k \in T : \A m \in T : k <= m
    <2> HIDE DEF T
    <2> QED BY <1>1, <1>2, Least
  <1>4. PICK n \in S : k = b - n
    OBVIOUS
  <1>5. ASSUME NEW m \in S PROVE m <= n
    <2>1. b - m \in T
      OBVIOUS
    <2>2. b - n <= b - m
      BY <2>1, <1>3, <1>4
    <2> QED BY <2>2
  <1> QED BY <1>5

(* Where groups fit, the loop goes from a statement to the next.           *)
LEMMA ResumesNext ==
  ASSUME NEW d \in Seq(Statement), GroupsFit(d), NEW i \in 1..Len(d)
  PROVE  Resume(d, i) = i + 1
  <1>1. CASE d[i].kind # "group"
    BY <1>1 DEF Resume
  <1>2. CASE d[i].kind = "group"
    <2> DEFINE after == {j \in i+1..Len(d) : d[j].s # "none"}
    <2>1. d[i].s = "none" /\ (i = Len(d) \/ d[i + 1].kind \in {"start", "stop"})
      BY <1>2 DEF GroupsFit
    <2>2. CASE i = Len(d)
      <3>1. after = {}
        BY <2>2
      <3> QED BY <1>2, <2>1, <2>2, <3>1 DEF Resume
    <2>3. CASE i # Len(d)
      <3>1. i + 1 \in i+1..Len(d) /\ d[i + 1] \in Statement
        BY <2>3
      <3>2. d[i + 1].s = "first"
        BY <2>1, <2>3, <3>1 DEF Statement
      <3>3. i + 1 \in after
        BY <3>1, <3>2
      <3>4. Min(after) = i + 1
        <4>1. \A j \in after : i + 1 <= j
          OBVIOUS
        <4>2. \A x \in after : (\A y \in after : x <= y) => x = i + 1
          BY <3>3, <4>1
        <4> HIDE DEF after
        <4> QED BY <3>3, <4>1, <4>2 DEF Min
      <3> QED BY <1>2, <2>1, <3>2, <3>3, <3>4 DEF Resume
    <2> QED BY <2>2, <2>3
  <1> QED BY <1>1, <1>2

(* It interprets the statements that come before an unknown one.           *)
LEMMA ReachedIsKnown ==
  ASSUME NEW d \in Seq(Statement), GroupsFit(d)
  PROVE  Reached(d) = {i \in 1..Len(d) : \A j \in 1..i : d[j].kind # "unknown"}
  <1> DEFINE Known == {i \in 1..Len(d) : \A j \in 1..i : d[j].kind # "unknown"}
             Next1 == {i \in 1..Len(d) : \A j \in 1..i - 1 : d[j].kind # "unknown"}
  <1>1. ASSUME NEW i \in Reached(d) PROVE i \in Known
    <2>1. i \in 1..Len(d) /\ d[i].kind # "unknown" /\ 1 \in 1..Len(d)
      BY DEF Reached
    <2>2. Visits(d, Next1)
      <3>1. 1 \in Next1
        BY <2>1
      <3>2. ASSUME NEW k \in Next1, d[k].kind # "unknown"
            PROVE  k + 1 \in Next1 \cup {Len(d) + 1}
        <4>1. \A j \in 1..k : d[j].kind # "unknown"
          BY <3>2
        <4> QED BY <4>1
      <3>3. \A k \in Next1 : Resume(d, k) = k + 1
        BY ResumesNext
      <3> HIDE DEF Next1
      <3> QED BY <3>1, <3>2, <3>3 DEF Visits
    <2>3. i \in Next1
      BY <2>2 DEF Reached
    <2> QED BY <2>1, <2>3
  <1>2. ASSUME NEW i \in Known PROVE i \in Reached(d)
    <2>1. ASSUME NEW S \in SUBSET (1..Len(d)), Visits(d, S) PROVE i \in S
      <3> SUFFICES ASSUME i \notin S PROVE FALSE
        OBVIOUS
      <3> DEFINE Missed == {k \in 1..i : k \notin S}
      <3>1. Missed \in SUBSET (0..i) /\ Missed # {} /\ i \in Nat
        OBVIOUS
      <3>2. PICK k \in Missed : \A m \in Missed : k <= m
        BY <3>1, Least
      <3>3. k # 1
        BY <2>1 DEF Visits
      <3>4. k - 1 \in S /\ k - 1 \in 1..i /\ k - 1 \in 1..Len(d)
        BY <3>2, <3>3
      <3>5. d[k - 1].kind # "unknown" /\ Resume(d, k - 1) = k
        BY <3>4, ResumesNext
      <3>6. k \in S \cup {Len(d) + 1}
        BY <2>1, <3>4, <3>5 DEF Visits
      <3> QED BY <3>6
    <2> QED BY <2>1 DEF Reached
  <1> QED BY <1>1, <1>2 DEF Reached

(* Nothing is cut off from a number that fits.                             *)
LEMMA WrapFits == ASSUME NEW n \in 0..Largest PROVE Wrap(n) = n
  <1> DEFINE m == n + Largest + 1
             w == 2 * (Largest + 1)
  <1>1. m \in Nat /\ w \in Nat /\ m < w
    BY DefinitionAssumption
  <1>2. \A x, y \in Nat : x < y => x % y = x
    OBVIOUS
  <1> HIDE DEF m, w
  <1>3. m % w = m
    BY <1>1, <1>2
  <1>4. m - Largest - 1 = n
    BY DefinitionAssumption DEF m
  <1> QED BY <1>3, <1>4 DEF Wrap, m, w

(* A length that fits is a number that fits, times a unit.                 *)
LEMMA ParsedAsWritten ==
  ASSUME NEW t \in Timeouts, Length(t) \in 1..Largest
  PROVE  Initialize(parseWithTimeout(t)) = Length(t)
  <1>1. CASE t \in {None, Malformed}
    BY <1>1 DEF Length, parseWithTimeout, Initialize
  <1>2. CASE t \notin {None, Malformed}
    <2> DEFINE u == Unit[t.unit]
               p == t.n * u
    <2>1. t.n \in Int /\ u \in Nat \ {0}
      BY <1>2, DefinitionAssumption DEF Timeouts
    <2>2. Length(t) = p /\ p \in 1..Largest
      BY <1>2 DEF Length
    <2>3. t.n \in 0..Largest
      <3>1. \A a \in Int, b \in Nat \ {0} : a * b >= 1 => a >= 1 /\ a <= a * b
        OBVIOUS
      <3> QED BY <2>1, <2>2, <3>1, DefinitionAssumption
    <2>4. t.n = Wrap(t.n)
      BY <2>3, WrapFits
    <2>5. Wrap(p) = p
      BY <2>2, WrapFits
    <2>6. parseWithTimeout(t) = p
      BY <1>2, <2>4, <2>5 DEF parseWithTimeout
    <2> HIDE DEF p
    <2> QED BY <2>2, <2>6 DEF Initialize
  <1> QED BY <1>1, <1>2

(* Where texts fit, what is taken for a program is one.                    *)
LEMMA TakenAsWritten ==
  ASSUME NEW d \in Seq(Statement), TextsFit(d), NEW i \in 1..Len(d), NEW k \in {"start", "stop"}
  PROVE  Taken(d[i]) = k <=> d[i].kind = k
  <1> DEFINE forms == {d[i].kind} \cup d[i].holds
  <1>1. CASE d[i].kind = "start"
    <2>1. "group" \notin forms /\ "start" \in forms
      BY <1>1 DEF TextsFit
    <2> QED BY <1>1, <2>1 DEF Taken
  <1>2. CASE d[i].kind = "stop"
    <2>1. "group" \notin forms /\ "start" \notin forms /\ "stop" \in forms
      BY <1>2 DEF TextsFit
    <2> QED BY <1>2, <2>1 DEF Taken
  <1>3. CASE d[i].kind \notin {"start", "stop"}
    <2>1. "start" \notin forms /\ "stop" \notin forms
      BY <1>3 DEF TextsFit
    <2> QED BY <1>3, <2>1 DEF Taken
  <1> QED BY <1>1, <1>2, <1>3

LEMMA TimeoutAsWritten ==
  ASSUME NEW d \in Seq(Statement), NEW k \in {"start", "stop"}, GroupsFit(d), TextsFit(d),
         Length(Written(d, k)) \in 1..Largest
  PROVE  Timeout(d, k) = Length(Written(d, k))
  <1> DEFINE at == {i \in DOMAIN d : d[i].kind = k /\ \A j \in 1..i : d[j].kind # "unknown"}
             last(i) == \A j \in at : j <= i
  <1>1. DOMAIN d = 1..Len(d) /\ Len(d) \in Nat
    OBVIOUS
  <1>2. {i \in Reached(d) : Taken(d[i]) = k} = at
    BY <1>1, ReachedIsKnown, TakenAsWritten
  <1>3. CASE at = {}
    <2>1. ProgramTimeout(d, Reached(d), k) = 0
      BY <1>2, <1>3 DEF ProgramTimeout
    <2>2. Written(d, k) = None
      BY <1>3 DEF Written
    <2> QED BY <2>1, <2>2 DEF Timeout, Initialize, Length
  <1>4. CASE at # {}
    <2>1. at \in SUBSET (0..Len(d))
      BY <1>1
    <2>2. PICK n \in at : last(n)
      <3> HIDE DEF at
      <3> QED BY <1>1, <1>4, <2>1, Greatest
    <2>3. \A m \in at : last(m) => m = n
      BY <1>1, <2>2
    <2>4. (CHOOSE i \in at : last(i)) = n
      <3> HIDE DEF at
      <3> QED BY <2>2, <2>3
    <2>5. Max(at) = n
      <3>1. \A m \in at : (\A y \in at : m >= y) <=> last(m)
        BY <1>1
      <3> HIDE DEF at
      <3> QED BY <2>2, <2>3, <3>1 DEF Max
    <2>6. d[n].timeout \in Timeouts
      <3>1. d[n] \in Statement
        BY <1>1, <2>2
      <3> QED BY <3>1 DEF Statement, Timeouts
    <2>7. ProgramTimeout(d, Reached(d), k) = parseWithTimeout(d[n].timeout)
      <3> HIDE DEF at
      <3> QED BY <1>2, <2>2, <2>4 DEF ProgramTimeout
    <2>8. Written(d, k) = d[n].timeout
      BY <1>4, <2>5 DEF Written
    <2> QED BY <2>6, <2>7, <2>8, ParsedAsWritten DEF Timeout
  <1> QED BY <1>3, <1>4

(* Whatever is defined, with groups and texts that fit and a timeout that  *)
(* is a positive int, a service is given that much time before it is given *)
(* up (Parse, parseWithTimeout, WaitUntil).                                *)
THEOREM WaitedAsWritten == Spec => []WaitsAsWritten
  <1> DEFINE Inv == place = "no" => now >= timeout
  <1>1. Init => Inv
    BY DEF Init
  <1>2. TimerInv /\ Inv /\ [Next]_vars => Inv'
    <2> SUFFICES ASSUME TimerInv, Inv, [Next]_vars PROVE Inv'
      OBVIOUS
    <2>0. timeout' = timeout
      BY DEF timeout, Next, Step, Look, Iterate, GiveUp, Tick, Change, vars, Timeout
    <2> QED BY <2>0 DEF Next, Step, Look, Iterate, GiveUp, Expired, Tick, Change, timers, vars
  <1>3. TimerInv /\ Inv => WaitsAsWritten
    <2> SUFFICES ASSUME TimerInv, Inv, place = "no", GroupsFit(def), TextsFit(def),
                        Length(Written(def, program)) \in 1..Largest
                 PROVE  now >= Length(Written(def, program))
      BY DEF WaitsAsWritten
    <2>1. def \in Seq(Statement) /\ program \in {"start", "stop"}
      BY WaitAssumption DEF TimerInv, TypeOK
    <2>2. timeout = Length(Written(def, program))
      BY <2>1, TimeoutAsWritten DEF timeout
    <2> QED BY <2>2
  <1> QED BY <1>1, <1>2, <1>3, TimersHold, PTL DEF Spec
=============================================================================
