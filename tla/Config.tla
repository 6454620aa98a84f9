------------------------------- MODULE Config -------------------------------
(***************************************************************************)
(* Reading the configuration: the parser of monitor/parsing.go with its    *)
(* two walkers, the loader a start uses (config.go) and the validator a    *)
(* reload uses (validation.go), and what New and Reload (monitor.go) make  *)
(* of the result.                                                          *)
(*                                                                         *)
(* A file is a sequence of directives; how the regular expressions find    *)
(* them in its lines is left out.  The calls of ParseConfigFile are a      *)
(* stack, since a file that includes others waits for them.                *)
(***************************************************************************)
EXTENDS Naturals, Sequences

CONSTANTS Files,        \* paths
          Main,         \* the control file
          Names,        \* names of services
          Texts,        \* what a file may hold: directives, or Unreadable
          Unreadable,
          MaxDepth,     \* the calls that fit the stack of a goroutine
          MaxReloads,   \* bound: reloads
          MaxEdits      \* bound: changes somebody makes to a file

(* A check directive defines a service; a broken one cannot be parsed; an  *)
(* include names the files its pattern matches, or has a bad pattern; set  *)
(* directives are for others.                                              *)
Directive == [kind : {"check"}, name : Names]
             \cup [kind : {"include"}, files : Seq(Files)]
             \cup [kind : {"broken", "badPattern", "set"}]

ASSUME ConfigAssumption ==
  /\ Main \in Files /\ Unreadable \notin Seq(Directive)
  /\ \A t \in Texts : t # Unreadable => t \in Seq(Directive)
  /\ MaxDepth \in Nat /\ MaxReloads \in Nat /\ MaxEdits \in Nat

VARIABLES text,         \* the files
          app,          \* the daemon
          walker,       \* who reads: nobody, loader, validator; or Reload adds
          stack,        \* calls of ParseConfigFile; the last is the innermost
          failed,       \* the outermost call has returned an error
          found,        \* validator.Checks
          success,      \* validator.Success
          checks,       \* m.checks
          reloads, edits,
          before,       \* history: m.checks when the reload began
          started       \* history: the files when the daemon started

parse == <<stack, failed>>
bounds == <<reloads, edits>>
vars == <<text, app, walker, stack, failed, found, success, checks, reloads, edits,
          before, started>>

(* What a call has still to do: directives of its file, and files of the   *)
(* include it is at.                                                       *)
Call(f) == [rest |-> text[f], pending |-> <<>>]

Top == stack[Len(stack)]
Below == SubSeq(stack, 1, Len(stack) - 1)

(* FindCheck is nil. *)
New(list, n) == \A i \in 1..Len(list) : list[i] # n

Init == /\ text \in [Files -> Texts]
        /\ app = "off" /\ walker = "none" /\ stack = <<>>
        /\ failed = FALSE /\ found = <<>> /\ success = TRUE /\ checks = <<>>
        /\ reloads = MaxReloads /\ edits = MaxEdits
        /\ before = <<>> /\ started = text

-----------------------------------------------------------------------------
(* The parser *)

(* The outermost call: os.ReadFile of the control file. *)
Open(w) == /\ walker' = w
           /\ IF text[Main] = Unreadable
                THEN stack' = <<>> /\ failed' = TRUE
                ELSE stack' = <<Call(Main)>> /\ failed' = FALSE

Walk == walker \in {"loader", "validator"} /\ stack # <<>>

ParseRest == UNCHANGED <<text, walker, bounds, before, started>>

(* A call returns.  Its error matters only to the outermost one: the loop  *)
(* over the files of an include does not look at it.                       *)
Return(error) == /\ stack' = Below
                 /\ failed' = (error /\ Below = <<>>)

Consume == /\ stack' = [stack EXCEPT ![Len(stack)].rest = Tail(@)]
           /\ UNCHANGED failed

(* Mutant: a file that cannot be included stops the one that includes it. *)
IncludeNextStrict ==
  /\ Walk /\ Top.pending # <<>>
  /\ LET f == Head(Top.pending) IN
       IF text[f] = Unreadable
         THEN Return(TRUE)
         ELSE /\ stack' = Append([stack EXCEPT ![Len(stack)].pending = Tail(@)], Call(f))
              /\ UNCHANGED failed
  /\ UNCHANGED <<app, found, success, checks>> /\ ParseRest

(* Mutant: the include starts over. *)
IncludeNextAgain ==
  /\ Walk /\ Top.pending # <<>> /\ Len(stack) < MaxDepth
  /\ LET f == Head(Top.pending) IN
       /\ text[f] # Unreadable
       /\ stack' = Append(stack, [Call(f) EXCEPT !.pending = Top.pending])
       /\ UNCHANGED failed
  /\ UNCHANGED <<app, found, success, checks>> /\ ParseRest

(* The next file of an include; one that cannot be read is passed over.    *)
IncludeNext ==
  /\ Walk /\ Top.pending # <<>> /\ Len(stack) < MaxDepth
  /\ LET f == Head(Top.pending)
         waiting == [stack EXCEPT ![Len(stack)].pending = Tail(@)] IN
       stack' = IF text[f] = Unreadable THEN waiting ELSE Append(waiting, Call(f))
  /\ UNCHANGED <<failed, app, found, success, checks>> /\ ParseRest

(* The stack of the goroutine overflows: the process dies. *)
Overflow ==
  /\ Walk /\ Top.pending # <<>> /\ Len(stack) >= MaxDepth
  /\ app' = "crashed" /\ walker' = "none" /\ stack' = <<>>
  /\ UNCHANGED <<text, failed, found, success, checks, bounds, before, started>>

EndOfFile ==
  /\ Walk /\ Top.pending = <<>> /\ Top.rest = <<>>
  /\ Return(FALSE)
  /\ UNCHANGED <<app, found, success, checks>> /\ ParseRest

Ready(kind) == /\ Walk /\ Top.pending = <<>> /\ Top.rest # <<>>
               /\ Head(Top.rest).kind = kind

Include ==
  /\ Ready("include")
  /\ stack' = [stack EXCEPT ![Len(stack)] =
                 [rest |-> Tail(@.rest), pending |-> Head(@.rest).files]]
  /\ UNCHANGED <<failed, app, found, success, checks>> /\ ParseRest

(* A pattern that filepath.Glob rejects, a definition that                 *)
(* newCheckFromData cannot parse.                                          *)
Broken ==
  /\ Ready("broken") \/ Ready("badPattern")
  /\ Return(TRUE)
  /\ UNCHANGED <<app, found, success, checks>> /\ ParseRest

(* Mutant: a set directive stays in front. *)
SetForEver ==
  /\ Ready("set")
  /\ UNCHANGED <<stack, failed, app, found, success, checks>> /\ ParseRest

Set ==
  /\ Ready("set")
  /\ Consume
  /\ UNCHANGED <<app, found, success, checks>> /\ ParseRest

(* Mutant: two services may have one name. *)
LoadCheckTwice ==
  /\ Ready("check") /\ walker = "loader"
  /\ Consume /\ checks' = Append(checks, Head(Top.rest).name)
  /\ UNCHANGED <<app, found, success>> /\ ParseRest

(* The loader adds to m.checks; a name that is taken is an error. *)
LoadCheck ==
  /\ Ready("check") /\ walker = "loader"
  /\ LET n == Head(Top.rest).name IN
       IF New(checks, n) THEN Consume /\ checks' = Append(checks, n)
                         ELSE Return(TRUE) /\ UNCHANGED checks
  /\ UNCHANGED <<app, found, success>> /\ ParseRest

(* The validator keeps a list of its own; only here does Success change. *)
ValidateCheck ==
  /\ Ready("check") /\ walker = "validator"
  /\ LET n == Head(Top.rest).name IN
       IF New(found, n)
         THEN Consume /\ found' = Append(found, n) /\ UNCHANGED success
         ELSE Return(TRUE) /\ success' = FALSE /\ UNCHANGED found
  /\ UNCHANGED <<app, checks>> /\ ParseRest

ParseConfig == \/ IncludeNext \/ Overflow \/ EndOfFile \/ Include \/ Broken \/ Set
               \/ LoadCheck \/ ValidateCheck

-----------------------------------------------------------------------------
(* New and Reload *)

StartNew ==
  /\ app = "off" /\ walker = "none"
  /\ Open("loader") /\ started' = text
  /\ UNCHANGED <<text, app, found, success, checks, bounds, before>>

(* initApp exits when New returns an error. *)
EndNew ==
  /\ walker = "loader" /\ stack = <<>>
  /\ walker' = "none" /\ app' = IF failed THEN "refused" ELSE "on"
  /\ UNCHANGED <<text, parse, found, success, checks, bounds, before, started>>

StartReload ==
  /\ app = "on" /\ walker = "none" /\ reloads > 0
  /\ reloads' = reloads - 1
  /\ Open("validator")
  /\ found' = <<>> /\ success' = TRUE /\ before' = checks
  /\ UNCHANGED <<text, app, checks, edits, started>>

(* Reload looks at Success, not at the error of ParseConfigFile. *)
EndReload ==
  /\ walker = "validator" /\ stack = <<>>
  /\ IF success THEN walker' = "adding" /\ checks' = <<>>
                ELSE walker' = "none" /\ UNCHANGED checks
  /\ UNCHANGED <<text, app, parse, found, success, bounds, before, started>>

(* AddCheck of each; a name that is taken is reported and passed over. *)
Add ==
  /\ walker = "adding" /\ found # <<>>
  /\ found' = Tail(found)
  /\ checks' = IF New(checks, Head(found)) THEN Append(checks, Head(found)) ELSE checks
  /\ UNCHANGED <<text, app, walker, parse, success, bounds, before, started>>

(* Mutant: the last check is not added. *)
AddedSoon ==
  /\ walker = "adding" /\ Len(found) < 2
  /\ walker' = "none"
  /\ UNCHANGED <<text, app, parse, found, success, checks, bounds, before, started>>

Added ==
  /\ walker = "adding" /\ found = <<>>
  /\ walker' = "none"
  /\ UNCHANGED <<text, app, parse, found, success, checks, bounds, before, started>>

Edit(f) ==
  /\ edits > 0 /\ edits' = edits - 1
  /\ walker = "none"
  /\ \E t \in Texts : text' = [text EXCEPT ![f] = t]
  /\ UNCHANGED <<app, walker, parse, found, success, checks, reloads, before, started>>

Load == StartNew \/ EndNew \/ EndReload \/ Add \/ Added \/ ParseConfig

Next == Load \/ StartReload \/ \E f \in Files : Edit(f)

Spec == Init /\ [][Next]_vars

FairSpec == Spec /\ WF_vars(Load)

-----------------------------------------------------------------------------
(* Type invariant. *)
TypeOK == /\ text \in [Files -> Texts] /\ started \in [Files -> Texts]
          /\ app \in {"off", "on", "refused", "crashed"}
          /\ walker \in {"none", "loader", "validator", "adding"}
          /\ stack \in Seq([rest : Seq(Directive), pending : Seq(Files)])
          /\ walker \notin {"loader", "validator"} => stack = <<>>
          /\ failed \in BOOLEAN /\ success \in BOOLEAN
          /\ found \in Seq(Names) /\ checks \in Seq(Names) /\ before \in Seq(Names)
          /\ reloads \in 0..MaxReloads /\ edits \in 0..MaxEdits

(* No two registered checks have one name, however files include each      *)
(* other: FindCheck and the state file go by the name.                     *)
Distinct(list) == \A i, j \in 1..Len(list) : i # j => list[i] # list[j]
NamesUnique == Distinct(checks)

(* A reload that is refused leaves the daemon with the checks it had. *)
RefusedKeeps == app = "on" /\ walker = "none" /\ ~success => checks = before

(* Loader and validator agree: a reload of the files the daemon was        *)
(* started with, when it is accepted, gives the checks of the start.       *)
WalkersAgree ==
  [][walker = "adding" /\ walker' = "none" /\ text = started
       /\ reloads = MaxReloads - 1 => checks = before]_vars

(* Among some files, each includes another of them. *)
Includes(t, f, g) == /\ t[f] # Unreadable
                     /\ \E i \in DOMAIN t[f] :
                          t[f][i].kind = "include" /\ \E j \in DOMAIN t[f][i].files :
                                                        t[f][i].files[j] = g
Cyclic == \E S \in SUBSET Files : S # {} /\ \A f \in S : \E g \in S : Includes(text, f, g)

(* Reading files overflows the stack only if files include each other in a *)
(* cycle.                                                                  *)
CrashMeansCycle == [][app' = "crashed" /\ app # "crashed" => Cyclic]_vars

(* Whatever the files include, reading them comes to an end. *)
ReadingEnds == walker # "none" ~> walker = "none"
=============================================================================
