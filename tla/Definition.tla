----------------------------- MODULE Definition -----------------------------
(***************************************************************************)
(* What ProcessCheck.Parse, parseWithTimeout and Initialize make of the    *)
(* definition of a process: the statements that are reached and for how    *)
(* long the check waits for each of its programs (monitor/checks.go).      *)
(*                                                                         *)
(* A definition is a sequence of statements.  Text matters in two points.  *)
(* The expression of a group statement takes every character but a         *)
(* backslash and an `s`, so that it ends in the middle of a name that has  *)
(* one, and else takes what follows up to the next `s`.  And a statement,  *)
(* once it is cut out, is taken for what it holds anywhere, a group before *)
(* anything else: "/bin/x --group web" costs a start its program.          *)
(***************************************************************************)
EXTENDS Integers, Sequences, FiniteSetsExt

CONSTANTS Units,         \* of `with timeout`
          Unit,          \* the length of each
          Numbers,       \* that may be written
          None,          \* no timeout is written, ...
          Malformed,     \* ... or what stands there is no integer
          Largest,       \* int, and the nanoseconds of a time.Duration
          CheckTimeout   \* the default of newCheck

Timeouts == {None, Malformed} \cup [n : Numbers, unit : Units]

(* Where the text of a statement has its first `s`; start program and stop *)
(* program begin with it.                                                  *)
Letters == {"first", "inside", "none"}

(* What the text of a statement may hold: `group x`, `start program = x`,  *)
(* `stop program = x`; without an `s` only the first.                      *)
Forms == {"group", "start", "stop"}

(* A `with` is two words, which hold no program. *)
Statement ==
  [kind : {"start", "stop"}, timeout : Timeouts, s : {"first"}, holds : SUBSET Forms]
  \cup [kind : {"if"}, timeout : Timeouts, s : {"inside"}, holds : SUBSET Forms]
  \cup [kind : {"if"}, timeout : {None}, s : {"none"}, holds : SUBSET {"group"}]
  \cup [kind : {"pidfile", "group", "unknown"}, timeout : {None}, s : {"inside", "none"},
        holds : {{}}]

ASSUME DefinitionAssumption ==
  /\ Unit \in [Units -> Nat \ {0}] /\ Numbers \subseteq Int
  /\ Largest \in Nat /\ CheckTimeout \in Nat \ {0}

-----------------------------------------------------------------------------
(* Parse *)

(* The statement the loop is at after the i-th; beyond the last, it ends.  *)
Resume(d, i) ==
  IF d[i].kind # "group" THEN i + 1
  ELSE IF d[i].s = "inside" THEN Len(d) + 1
  ELSE LET after == {j \in i+1..Len(d) : d[j].s # "none"} IN
         IF after # {} /\ d[Min(after)].s = "first" THEN Min(after) ELSE Len(d) + 1

(* The loop begins with the first statement and resumes after each it      *)
(* knows.                                                                  *)
Visits(d, S) == /\ 1 \in S
                /\ \A i \in S : d[i].kind # "unknown" => Resume(d, i) \in S \cup {Len(d) + 1}

(* The statements the loop interprets: an unknown one ends it. *)
Reached(d) == {i \in 1..Len(d) : /\ d[i].kind # "unknown"
                                 /\ \A S \in SUBSET (1..Len(d)) : Visits(d, S) => i \in S}

(* Mutant: a stop is looked for before a start. *)
TakenStopFirst(st) ==
  LET forms == {st.kind} \cup st.holds IN
    IF "group" \in forms THEN "group"
    ELSE IF "stop" \in forms THEN "stop" ELSE IF "start" \in forms THEN "start" ELSE st.kind

(* The switch: what the statement is taken for. *)
Taken(st) ==
  LET forms == {st.kind} \cup st.holds IN
    IF "group" \in forms THEN "group"
    ELSE IF "start" \in forms THEN "start" ELSE IF "stop" \in forms THEN "stop" ELSE st.kind

-----------------------------------------------------------------------------
(* Timeouts *)

(* What is left of a product that is too large. *)
Wrap(n) == ((n + Largest + 1) % (2 * (Largest + 1))) - Largest - 1

(* strconv.Atoi refuses what is no int: Parse logs it and takes the 0. *)
parseWithTimeout(t) ==
  IF t \in {None, Malformed} THEN 0
  ELSE IF t.n # Wrap(t.n) THEN 0
  ELSE Wrap(t.n * Unit[t.unit])

(* Each statement replaces the program of the one before; without one it   *)
(* is the program Initialize makes.                                        *)
ProgramTimeout(d, reached, kind) ==
  LET at == {i \in reached : Taken(d[i]) = kind}
      last(i) == \A j \in at : j <= i IN
    IF \E i \in at : last(i)
      THEN parseWithTimeout(d[CHOOSE i \in at : last(i)].timeout) ELSE 0

(* Initialize: 0 stands for no timeout. *)
Initialize(t) == IF t = 0 THEN CheckTimeout ELSE t

(* StartProgram.Timeout and StopProgram.Timeout. *)
Timeout(d, kind) == Initialize(ProgramTimeout(d, Reached(d), kind))
=============================================================================
