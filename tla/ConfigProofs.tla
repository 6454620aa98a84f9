---------------------------- MODULE ConfigProofs ----------------------------
(***************************************************************************)
(* Proofs about Config: whatever the files hold and include, the           *)
(* registered checks have distinct names, a refused reload changes none of *)
(* them, loader and validator read the same, and only a cycle of includes  *)
(* overflows the stack.                                                    *)
(***************************************************************************)
EXTENDS Config, SequenceTheorems, FiniteSetTheorems, TLAPS

Calls == [rest : Seq(Directive), pending : Seq(Files)]

(* The sequences the module builds. *)
LEMMA SeqTypes ==
  ASSUME NEW S
  PROVE /\ <<>> \in Seq(S)
        /\ \A e \in S : <<e>> \in Seq(S)
        /\ \A s \in Seq(S), e \in S : Append(s, e) \in Seq(S)
        /\ \A s \in Seq(S) : s # <<>> => Head(s) \in S /\ Tail(s) \in Seq(S)
  OBVIOUS

(* A check directive has a name, an include has files. *)
LEMMA DirectiveType ==
  ASSUME NEW d \in Directive
  PROVE /\ d.kind = "check" => d.name \in Names
        /\ d.kind = "include" => d.files \in Seq(Files)
  BY DEF Directive

(* A file that can be read gives a call. *)
LEMMA CallType ==
  ASSUME NEW f \in Files, text \in [Files -> Texts], text[f] # Unreadable
  PROVE Call(f) \in Calls
  <1>1. text[f] \in Seq(Directive)
    BY ConfigAssumption
  <1> QED BY <1>1 DEF Call, Calls

(* What stands below the innermost call. *)
LEMMA BelowType ==
  ASSUME stack \in Seq(Calls), stack # <<>>
  PROVE Below \in Seq(Calls) /\ Top \in Calls /\ Len(stack) \in Nat \ {0}
  BY DEF Below, Top

(* A list of distinct names stays one when a new name is added, and when   *)
(* it loses its head.                                                      *)
LEMMA AppendDistinct ==
  ASSUME NEW list \in Seq(Names), NEW n \in Names, Distinct(list), New(list, n)
  PROVE Distinct(Append(list, n))
  BY DEF Distinct, New

(* A call that goes on keeps its place in the stack. *)
LEMMA ReplaceTop ==
  ASSUME stack \in Seq(Calls), stack # <<>>, NEW c \in Calls
  PROVE [stack EXCEPT ![Len(stack)] = c] \in Seq(Calls)
  OBVIOUS

(* The moves of the parser on its stack: a call that returns, one that     *)
(* consumes a directive.                                                   *)
LEMMA ReturnType ==
  ASSUME stack \in Seq(Calls), stack # <<>>, NEW e \in BOOLEAN, Return(e)
  PROVE stack' \in Seq(Calls) /\ failed' \in BOOLEAN
  BY BelowType DEF Return

LEMMA ConsumeType ==
  ASSUME stack \in Seq(Calls), stack # <<>>, Top.rest # <<>>, failed \in BOOLEAN, Consume
  PROVE stack' \in Seq(Calls) /\ failed' \in BOOLEAN
  <1> DEFINE c == [Top EXCEPT !.rest = Tail(@)]
  <1>1. Top \in Calls
    BY BelowType
  <1>2. c \in Calls
    <2>1. Tail(Top.rest) \in Seq(Directive)
      BY <1>1, SeqTypes DEF Calls
    <2> QED BY <1>1, <2>1 DEF Calls
  <1>3. stack' = [stack EXCEPT ![Len(stack)] = c]
    BY <1>1 DEF Consume, Top, Calls
  <1> QED BY <1>2, <1>3, ReplaceTop DEF Consume

(* The outermost call. *)
LEMMA OpenType ==
  ASSUME text \in [Files -> Texts], NEW w \in {"loader", "validator"}, Open(w)
  PROVE stack' \in Seq(Calls) /\ failed' \in BOOLEAN /\ walker' = w
  <1>1. CASE text[Main] = Unreadable
    BY <1>1, SeqTypes DEF Open
  <1>2. CASE text[Main] # Unreadable
    <2>1. Call(Main) \in Calls
      BY <1>2, CallType, ConfigAssumption
    <2> QED BY <1>2, <2>1, SeqTypes DEF Open
  <1> QED BY <1>1, <1>2

(* The directive a walk is at. *)
LEMMA HeadType ==
  ASSUME stack \in Seq(Calls), stack # <<>>, Top.rest # <<>>
  PROVE Head(Top.rest) \in Directive
  <1>1. Top.rest \in Seq(Directive)
    BY BelowType DEF Calls
  <1> QED BY <1>1

LEMMA TypeStep == TypeOK /\ [Next]_vars => TypeOK'
  <1> SUFFICES ASSUME TypeOK, [Next]_vars PROVE TypeOK'
    OBVIOUS
  <1> USE DEF Calls
  <1>1. CASE StartNew
    BY <1>1, OpenType DEF TypeOK, StartNew, bounds
  <1>2. CASE EndNew
    BY <1>2 DEF TypeOK, EndNew, bounds, parse
  <1>3. CASE EndReload
    <2>1. checks' \in Seq(Names) /\ walker' \in {"none", "adding"}
      BY <1>3, SeqTypes DEF TypeOK, EndReload
    <2> QED BY <1>3, <2>1 DEF TypeOK, EndReload, bounds, parse
  <1>4. CASE Add
    BY <1>4 DEF TypeOK, Add, bounds, parse
  <1>5. CASE Added
    BY <1>5 DEF TypeOK, Added, bounds, parse
  <1>6. CASE StartReload
    BY <1>6, OpenType, ConfigAssumption DEF TypeOK, StartReload, bounds
  <1>7. ASSUME NEW f \in Files, Edit(f) PROVE TypeOK'
    BY <1>7, ConfigAssumption DEF TypeOK, Edit, bounds, parse
  <1>8. CASE IncludeNext
    <2>1. Top \in Calls /\ stack # <<>> /\ stack \in Seq(Calls)
      BY <1>8, BelowType DEF TypeOK, IncludeNext, Walk
    <2> DEFINE c == [Top EXCEPT !.pending = Tail(@)]
               f == Head(Top.pending)
               waiting == [stack EXCEPT ![Len(stack)].pending = Tail(@)]
    <2>2. c \in Calls /\ f \in Files
      <3>1. Top.pending \in Seq(Files) /\ Top.pending # <<>> /\ Top.rest \in Seq(Directive)
        BY <1>8, <2>1 DEF IncludeNext
      <3>2. f \in Files /\ Tail(Top.pending) \in Seq(Files)
        BY <3>1, SeqTypes
      <3> QED BY <2>1, <3>1, <3>2
    <2>3. waiting \in Seq(Calls)
      <3>1. waiting = [stack EXCEPT ![Len(stack)] = c]
        BY <2>1 DEF Top
      <3> QED BY <3>1, <2>1, <2>2, ReplaceTop
    <2>4. stack' \in Seq(Calls)
      <3>1. CASE text[f] = Unreadable
        BY <3>1, <2>3, <1>8 DEF IncludeNext
      <3>2. CASE text[f] # Unreadable
        <4>1. stack' = Append(waiting, Call(f))
          BY <3>2, <1>8 DEF IncludeNext
        <4>2. Call(f) \in Calls
          BY <3>2, <2>2, CallType DEF TypeOK
        <4> QED BY <4>1, <4>2, <2>3
      <3> QED BY <3>1, <3>2
    <2> QED BY <2>4, <1>8 DEF TypeOK, IncludeNext, ParseRest, Walk, bounds
  <1>9. CASE Overflow
    BY <1>9 DEF TypeOK, Overflow, bounds
  <1>10. CASE EndOfFile
    <2>1. stack' \in Seq(Calls) /\ failed' \in BOOLEAN
      BY <1>10, ReturnType DEF TypeOK, EndOfFile, Walk
    <2> QED BY <2>1, <1>10 DEF TypeOK, EndOfFile, ParseRest, Walk, bounds
  <1>11. CASE Include
    <2>1. /\ Top \in Calls /\ stack # <<>> /\ stack \in Seq(Calls) /\ Top.rest # <<>>
          /\ Head(Top.rest).kind = "include"
      BY <1>11, BelowType DEF TypeOK, Include, Ready, Walk
    <2> DEFINE c == [rest |-> Tail(Top.rest), pending |-> Head(Top.rest).files]
    <2>2. c \in Calls
      BY <2>1, HeadType, DirectiveType
    <2>3. stack' = [stack EXCEPT ![Len(stack)] = c]
      BY <2>1, <1>11 DEF Include, Top
    <2>4. stack' \in Seq(Calls)
      BY <2>1, <2>2, <2>3, ReplaceTop
    <2> QED BY <2>4, <1>11 DEF TypeOK, Include, Ready, ParseRest, Walk, bounds
  <1>12. CASE Broken
    <2>1. stack' \in Seq(Calls) /\ failed' \in BOOLEAN
      BY <1>12, ReturnType DEF TypeOK, Broken, Ready, Walk
    <2> QED BY <2>1, <1>12 DEF TypeOK, Broken, Ready, ParseRest, Walk, bounds
  <1>13. CASE Set
    <2>1. stack' \in Seq(Calls) /\ failed' \in BOOLEAN
      BY <1>13, ConsumeType DEF TypeOK, Set, Ready, Walk
    <2> QED BY <2>1, <1>13 DEF TypeOK, Set, Ready, ParseRest, Walk, bounds
  <1>14. CASE LoadCheck
    <2>1. stack' \in Seq(Calls) /\ failed' \in BOOLEAN
      BY <1>14, ConsumeType, ReturnType DEF TypeOK, LoadCheck, Ready, Walk
    <2>2. Head(Top.rest).name \in Names
      BY <1>14, HeadType, DirectiveType DEF TypeOK, LoadCheck, Ready, Walk
    <2>3. checks' \in Seq(Names)
      <3>1. Append(checks, Head(Top.rest).name) \in Seq(Names)
        BY <2>2, SeqTypes DEF TypeOK
      <3> QED BY <3>1, <1>14 DEF TypeOK, LoadCheck
    <2> QED BY <2>1, <2>3, <1>14 DEF TypeOK, LoadCheck, Ready, ParseRest, Walk, bounds
  <1>15. CASE ValidateCheck
    <2>1. stack' \in Seq(Calls) /\ failed' \in BOOLEAN
      BY <1>15, ConsumeType, ReturnType DEF TypeOK, ValidateCheck, Ready, Walk
    <2>2. Head(Top.rest).name \in Names
      BY <1>15, HeadType, DirectiveType DEF TypeOK, ValidateCheck, Ready, Walk
    <2>3. found' \in Seq(Names) /\ success' \in BOOLEAN
      <3>1. Append(found, Head(Top.rest).name) \in Seq(Names)
        BY <2>2, SeqTypes DEF TypeOK
      <3> QED BY <3>1, <1>15 DEF TypeOK, ValidateCheck
    <2> QED BY <2>1, <2>3, <1>15 DEF TypeOK, ValidateCheck, Ready, ParseRest, Walk, bounds
  <1>16. CASE UNCHANGED vars
    BY <1>16 DEF TypeOK, vars, parse, bounds
  <1> QED
    BY <1>1, <1>2, <1>3, <1>4, <1>5, <1>6, <1>7, <1>8, <1>9, <1>10, <1>11, <1>12, <1>13,
       <1>14, <1>15, <1>16 DEF Next, Load, ParseConfig

(* The type invariant. *)
THEOREM TypeCorrect == Spec => []TypeOK
  <1>1. Init => TypeOK
    <2> SUFFICES ASSUME Init PROVE TypeOK
      OBVIOUS
    <2>1. reloads \in 0..MaxReloads /\ edits \in 0..MaxEdits
      BY ConfigAssumption DEF Init
    <2>2. /\ stack \in Seq([rest : Seq(Directive), pending : Seq(Files)]) /\ found \in Seq(Names)
          /\ checks \in Seq(Names) /\ before \in Seq(Names)
      BY SeqTypes DEF Init
    <2> QED BY <2>1, <2>2 DEF Init, TypeOK
  <1> QED BY <1>1, TypeStep, PTL DEF Spec

(* Names are looked up before they are added, by the loader and by Reload, *)
(* so that no files, however they include each other, give two registered  *)
(* checks one name (Monitor.AddCheck).                                     *)
THEOREM NamesAreUnique == Spec => []NamesUnique
  <1>1. Init => NamesUnique
    BY DEF Init, NamesUnique, Distinct
  <1>2. TypeOK /\ NamesUnique /\ [Next]_vars => NamesUnique'
    <2> SUFFICES ASSUME TypeOK, NamesUnique, [Next]_vars PROVE Distinct(checks')
      BY DEF NamesUnique, Distinct
    <2> USE DEF NamesUnique
    <2>1. CASE UNCHANGED checks
      BY <2>1
    <2>2. CASE LoadCheck
      <3>1. Head(Top.rest).name \in Names
        BY <2>2, HeadType, DirectiveType DEF TypeOK, LoadCheck, Ready, Walk, Calls
      <3> QED BY <3>1, <2>2, AppendDistinct DEF LoadCheck, TypeOK
    <2>3. CASE Add
      <3>1. Head(found) \in Names
        BY <2>3 DEF TypeOK, Add
      <3> QED BY <3>1, <2>3, AppendDistinct DEF Add, TypeOK
    <2>4. CASE EndReload
      <3>1. Distinct(<<>>)
        BY DEF Distinct
      <3> QED BY <3>1, <2>4 DEF EndReload
    <2> QED
      BY <2>1, <2>2, <2>3, <2>4
      DEF Next, Load, ParseConfig, StartNew, EndNew, Added, StartReload, Edit, IncludeNext,
          Overflow, EndOfFile, Include, Broken, Set, ValidateCheck, vars
  <1> QED BY <1>1, <1>2, TypeCorrect, PTL DEF Spec

(* While the validator reads, and after it has refused, m.checks is as     *)
(* before the reload; it is touched only after a success.                  *)
RefuseInv == /\ walker = "loader" => app = "off"
             /\ app = "off" => success
             /\ walker = "adding" => success
             /\ walker = "validator" => app # "off" /\ checks = before
             /\ ~success => checks = before

(* A reload that is refused leaves the checks as they were                 *)
(* (Monitor.Reload).                                                       *)
THEOREM RefusalKeeps == Spec => []RefusedKeeps
  <1>1. Init => RefuseInv
    BY DEF Init, RefuseInv
  <1>2. RefuseInv /\ [Next]_vars => RefuseInv'
    <2> SUFFICES ASSUME RefuseInv, [Next]_vars PROVE RefuseInv'
      OBVIOUS
    <2> USE DEF RefuseInv
    <2>1. CASE IncludeNext \/ EndOfFile \/ Include \/ Broken \/ Set
      BY <2>1 DEF IncludeNext, EndOfFile, Include, Broken, Set, ParseRest
    <2>2. CASE Overflow
      BY <2>2 DEF Overflow, Walk
    <2>3. CASE LoadCheck
      BY <2>3 DEF LoadCheck, Ready, Walk, ParseRest
    <2>4. CASE ValidateCheck
      BY <2>4 DEF ValidateCheck, Ready, Walk, ParseRest
    <2>5. CASE StartNew \/ EndNew
      BY <2>5 DEF StartNew, EndNew, Open
    <2>6. CASE StartReload \/ EndReload
      BY <2>6 DEF StartReload, EndReload, Open
    <2>7. CASE Add \/ Added \/ \E f \in Files : Edit(f)
      BY <2>7 DEF Add, Added, Edit
    <2>8. CASE UNCHANGED vars
      BY <2>8 DEF vars
    <2> QED BY <2>1, <2>2, <2>3, <2>4, <2>5, <2>6, <2>7, <2>8 DEF Next, Load, ParseConfig
  <1>3. RefuseInv => RefusedKeeps
    BY DEF RefuseInv, RefusedKeeps
  <1> QED BY <1>1, <1>2, <1>3, PTL DEF Spec

-----------------------------------------------------------------------------
(* Loader and validator are one machine: its configurations are a stack    *)
(* and the list of names that is read, and it goes on in one way only.     *)
Configurations == Seq(Calls) \X Seq(Names)

(* What the parser does next with the files t: the first call below it     *)
(* goes on, a file of an include is read, an include begins, a directive   *)
(* is done.                                                                *)
Last(s) == s[Len(s)]
Returned(s) == SubSeq(s, 1, Len(s) - 1)
Opened(t, s) ==
  LET file == Head(Last(s).pending)
      waiting == [s EXCEPT ![Len(s)].pending = Tail(@)]
  IN IF t[file] = Unreadable THEN waiting
     ELSE Append(waiting, [rest |-> t[file], pending |-> <<>>])
Included(s) ==
  [s EXCEPT ![Len(s)] = [rest |-> Tail(@.rest), pending |-> Head(@.rest).files]]
Consumed(s) == [s EXCEPT ![Len(s)].rest = Tail(@)]

Follow(t, s, list) ==
  LET d == Head(Last(s).rest)
  IN IF Last(s).pending # <<>> THEN <<Opened(t, s), list>>
     ELSE IF Last(s).rest = <<>> THEN <<Returned(s), list>>
     ELSE IF d.kind = "include" THEN <<Included(s), list>>
     ELSE IF d.kind = "set" THEN <<Consumed(s), list>>
     ELSE IF d.kind = "check" /\ New(list, d.name) THEN <<Consumed(s), Append(list, d.name)>>
     ELSE <<Returned(s), list>>

Then(t, c) == Follow(t, c[1], c[2])

Goes(t, c) == c[1] # <<>> /\ Then(t, c) \in Configurations

(* A set of configurations the parser does not leave, and those it comes   *)
(* to from c.                                                              *)
Closed(t, S) == \A x \in S : Goes(t, x) => Then(t, x) \in S

From(t, c) == {d \in Configurations :
                 \A S \in SUBSET Configurations : c \in S /\ Closed(t, S) => d \in S}

LEMMA FromStart == ASSUME NEW t, NEW c \in Configurations PROVE c \in From(t, c)
  BY DEF From

LEMMA FromStep ==
  ASSUME NEW t, NEW c, NEW d \in From(t, c), Goes(t, d)
  PROVE  Then(t, d) \in From(t, c)
  <1>1. Then(t, d) \in Configurations
    BY DEF Goes
  <1>2. ASSUME NEW S \in SUBSET Configurations, c \in S, Closed(t, S)
        PROVE  Then(t, d) \in S
    <2>1. d \in S
      BY <1>2 DEF From
    <2> QED BY <1>2, <2>1 DEF Closed
  <1> QED BY <1>1, <1>2 DEF From

(* What it comes to later, it comes to from the next configuration.        *)
LEMMA FromNext ==
  ASSUME NEW t, NEW c \in Configurations, NEW d \in From(t, c), d # c
  PROVE  Goes(t, c) /\ d \in From(t, Then(t, c))
  <1>1. Goes(t, c)
    <2> SUFFICES ASSUME ~Goes(t, c) PROVE FALSE
      OBVIOUS
    <2>1. {c} \in SUBSET Configurations /\ Closed(t, {c})
      BY DEF Closed
    <2> QED BY <2>1 DEF From
  <1>2. Then(t, c) \in Configurations
    BY <1>1 DEF Goes
  <1> DEFINE S == {c} \cup From(t, Then(t, c))
  <1>3. S \in SUBSET Configurations /\ c \in S
    BY DEF From
  <1>4. Closed(t, S)
    <2> SUFFICES ASSUME NEW x \in S, Goes(t, x) PROVE Then(t, x) \in S
      BY DEF Closed
    <2>1. CASE x = c
      BY <1>2, <2>1, FromStart
    <2>2. CASE x \in From(t, Then(t, c))
      BY <2>2, FromStep
    <2> QED BY <2>1, <2>2
  <1>5. d \in S
    BY <1>3, <1>4 DEF From
  <1> QED BY <1>1, <1>5

(* One way to go has one end. *)
LEMMA OneEnd ==
  ASSUME NEW t, NEW c \in Configurations, NEW d \in From(t, c), NEW e \in From(t, c),
         d[1] = <<>>, e[1] = <<>>
  PROVE  d = e
  <1> DEFINE S == {x \in Configurations : d \in From(t, x)}
  <1>1. S \in SUBSET Configurations /\ c \in S
    OBVIOUS
  <1>2. Closed(t, S)
    <2> SUFFICES ASSUME NEW x \in S, Goes(t, x) PROVE Then(t, x) \in S
      BY DEF Closed
    <2>1. d # x
      BY DEF Goes
    <2>2. d \in From(t, Then(t, x))
      BY <2>1, FromNext
    <2> QED BY <2>2 DEF Goes
  <1>3. e \in S
    BY <1>1, <1>2 DEF From
  <1>4. e \in Configurations /\ ~Goes(t, e)
    BY <1>3 DEF Goes
  <1> QED BY <1>3, <1>4, FromNext

(* A step of either walker is what the parser does next. *)
LEMMA WalkFollows ==
  ASSUME TypeOK, ParseConfig, ~Overflow
  PROVE  /\ stack # <<>> /\ walker \in {"loader", "validator"}
         /\ walker = "loader" => <<stack', checks'>> = Follow(text, stack, checks)
         /\ walker = "validator" => <<stack', found'>> = Follow(text, stack, found)
  <1>1. stack # <<>> /\ walker \in {"loader", "validator"}
    BY DEF ParseConfig, IncludeNext, EndOfFile, Include, Broken, Set, LoadCheck,
       ValidateCheck, Ready, Walk
  <1>2. CASE IncludeNext
    <2>1. Top.pending # <<>> /\ checks' = checks /\ found' = found
      BY <1>2 DEF IncludeNext
    <2> DEFINE waiting == [stack EXCEPT ![Len(stack)].pending = Tail(@)]
               f == Head(Top.pending)
    <2>2. stack' = IF text[f] = Unreadable THEN waiting
                   ELSE Append(waiting, [rest |-> text[f], pending |-> <<>>])
      BY <1>2 DEF IncludeNext, Call
    <2>3. stack' = Opened(text, stack)
      BY <2>2 DEF Opened, Last, Top
    <2> QED BY <1>1, <2>1, <2>3 DEF Follow, Last, Top
  <1>3. CASE EndOfFile
    <2>1. Top.pending = <<>> /\ Top.rest = <<>> /\ checks' = checks /\ found' = found
      BY <1>3 DEF EndOfFile
    <2>2. stack' = Below
      BY <1>3 DEF EndOfFile, Return
    <2>3. stack' = Returned(stack)
      BY <2>2 DEF Below, Returned
    <2> QED BY <1>1, <2>1, <2>3 DEF Follow, Last, Top
  <1>4. CASE Include
    <2>1. /\ Top.pending = <<>> /\ Top.rest # <<>> /\ checks' = checks /\ found' = found
          /\ Head(Top.rest).kind = "include"
      BY <1>4 DEF Include, Ready
    <2>2. stack' = [stack EXCEPT ![Len(stack)] =
                      [rest |-> Tail(@.rest), pending |-> Head(@.rest).files]]
      BY <1>4 DEF Include
    <2>3. stack' = Included(stack)
      BY <2>2 DEF Included
    <2> QED BY <1>1, <2>1, <2>3 DEF Follow, Last, Top
  <1>5. CASE Broken
    <2>1. /\ Top.pending = <<>> /\ Top.rest # <<>> /\ checks' = checks /\ found' = found
          /\ Head(Top.rest).kind \in {"broken", "badPattern"}
      BY <1>5 DEF Broken, Ready
    <2>2. stack' = Below
      BY <1>5 DEF Broken, Return
    <2>3. stack' = Returned(stack)
      BY <2>2 DEF Below, Returned
    <2> QED BY <1>1, <2>1, <2>3 DEF Follow, Last, Top
  <1>6. CASE Set
    <2>1. /\ Top.pending = <<>> /\ Top.rest # <<>> /\ checks' = checks /\ found' = found
          /\ Head(Top.rest).kind = "set"
      BY <1>6 DEF Set, Ready
    <2>2. stack' = [stack EXCEPT ![Len(stack)].rest = Tail(@)]
      BY <1>6 DEF Set, Consume
    <2>3. stack' = Consumed(stack)
      BY <2>2 DEF Consumed
    <2> QED BY <1>1, <2>1, <2>3 DEF Follow, Last, Top
  <1>7. CASE LoadCheck
    <2> DEFINE d == Head(Top.rest)
    <2>1. /\ Top.pending = <<>> /\ Top.rest # <<>> /\ walker = "loader" /\ d.kind = "check"
      BY <1>7 DEF LoadCheck, Ready
    <2>2. CASE New(checks, d.name)
      <3>1. /\ stack' = Consumed(stack)
            /\ checks' = Append(checks, d.name)
        BY <1>7, <2>2 DEF LoadCheck, Consume, Consumed
      <3> QED BY <1>1, <2>1, <2>2, <3>1 DEF Follow, Last, Top
    <2>3. CASE ~New(checks, d.name)
      <3>1. stack' = Returned(stack) /\ checks' = checks
        BY <1>7, <2>3 DEF LoadCheck, Return, Below, Returned
      <3> QED BY <1>1, <2>1, <2>3, <3>1 DEF Follow, Last, Top
    <2> QED BY <2>2, <2>3
  <1>8. CASE ValidateCheck
    <2> DEFINE d == Head(Top.rest)
    <2>1. /\ Top.pending = <<>> /\ Top.rest # <<>> /\ walker = "validator" /\ d.kind = "check"
      BY <1>8 DEF ValidateCheck, Ready
    <2>2. CASE New(found, d.name)
      <3>1. /\ stack' = Consumed(stack)
            /\ found' = Append(found, d.name)
        BY <1>8, <2>2 DEF ValidateCheck, Consume, Consumed
      <3> QED BY <1>1, <2>1, <2>2, <3>1 DEF Follow, Last, Top
    <2>3. CASE ~New(found, d.name)
      <3>1. stack' = Returned(stack) /\ found' = found
        BY <1>8, <2>3 DEF ValidateCheck, Return, Below, Returned
      <3> QED BY <1>1, <2>1, <2>3, <3>1 DEF Follow, Last, Top
    <2> QED BY <2>2, <2>3
  <1> QED BY <1>2, <1>3, <1>4, <1>5, <1>6, <1>7, <1>8, <1>1 DEF ParseConfig

-----------------------------------------------------------------------------
(* Where a walker begins with the files t, and where it can be then.       *)
Begun(t) == <<<<[rest |-> t[Main], pending |-> <<>>]>>, <<>>>>
Reads(t, s, list) == <<s, list>> \in From(t, Begun(t))

(* The first reload. *)
First == reloads = MaxReloads - 1 /\ walker \in {"validator", "adding"}

(* A daemon that runs has read its control file.                           *)
Running == /\ walker \in {"validator", "adding"} => app = "on" /\ reloads < MaxReloads
           /\ app = "on" => started[Main] # Unreadable

(* The loader reads the files of the start; m.checks is what it has read,  *)
(* until the first reload, which remembers it.                             *)
Loaded == /\ app = "off" /\ walker = "none" => checks = <<>>
          /\ walker = "loader" => app = "off" /\ text = started
          /\ walker = "loader" /\ text[Main] = Unreadable => stack = <<>> /\ failed
          /\ walker = "loader" /\ text[Main] # Unreadable => Reads(text, stack, checks)
          /\ app = "on" /\ walker = "none" /\ reloads = MaxReloads
               => Reads(started, <<>>, checks)
          /\ First => Reads(started, <<>>, before)

(* The validator reads into its list, which Reload then moves to m.checks. *)
Validated == /\ walker = "validator" => Distinct(found)
             /\ walker = "adding" => Distinct(checks \o found)
             /\ walker = "validator" /\ text = started => Reads(text, stack, found)
             /\ walker = "adding" /\ text = started => Reads(text, <<>>, checks \o found)

AgreeInv == Running /\ Loaded /\ Validated

LEMMA BeginsRight ==
  ASSUME NEW t \in [Files -> Texts], t[Main] # Unreadable
  PROVE  /\ Begun(t) \in Configurations
         /\ Reads(t, <<[rest |-> t[Main], pending |-> <<>>]>>, <<>>)
  <1>1. t[Main] \in Seq(Directive)
    BY ConfigAssumption
  <1>2. [rest |-> t[Main], pending |-> <<>>] \in Calls
    BY <1>1 DEF Calls
  <1>3. Begun(t) \in Configurations
    BY <1>2, SeqTypes DEF Begun, Configurations
  <1> QED BY <1>3, FromStart DEF Begun, Reads

LEMMA ReadOn ==
  ASSUME NEW t, NEW s, s # <<>>, NEW list, Reads(t, s, list),
         NEW s2 \in Seq(Calls), NEW list2 \in Seq(Names), <<s2, list2>> = Follow(t, s, list)
  PROVE  Reads(t, s2, list2)
  <1> DEFINE d == <<s, list>>
  <1>1. Then(t, d) = <<s2, list2>>
    BY DEF Then
  <1>2. Goes(t, d)
    BY <1>1 DEF Goes, Configurations
  <1> QED BY <1>1, <1>2, FromStep DEF Reads

(* Two walks through the same files that are over have read the same.      *)
LEMMA ReadTheSame ==
  ASSUME NEW t \in [Files -> Texts], t[Main] # Unreadable, NEW l, NEW m,
         Reads(t, <<>>, l), Reads(t, <<>>, m)
  PROVE  l = m
  <1>1. <<<<>>, l>> = <<<<>>, m>>
    BY BeginsRight, OneEnd DEF Reads
  <1> QED BY <1>1

(* A name that moves from one list to the end of the other.                *)
LEMMA Moved ==
  ASSUME NEW l \in Seq(Names), NEW m \in Seq(Names), m # <<>>
  PROVE  Append(l, Head(m)) \o Tail(m) = l \o m
  <1> DEFINE x == Append(l, Head(m)) \o Tail(m)
             y == l \o m
  <1>1. x \in Seq(Names) /\ y \in Seq(Names) /\ Len(x) = Len(y)
    OBVIOUS
  <1>2. ASSUME NEW i \in 1..Len(x) PROVE x[i] = y[i]
    OBVIOUS
  <1> QED BY <1>1, <1>2, SeqEqual

LEMMA MovedNew ==
  ASSUME NEW l \in Seq(Names), NEW m \in Seq(Names), m # <<>>, Distinct(l \o m)
  PROVE  New(l, Head(m))
  <1> SUFFICES ASSUME NEW i \in 1..Len(l), l[i] = Head(m) PROVE FALSE
    BY DEF New
  <1> DEFINE j == Len(l) + 1
  <1>1. i # j /\ i \in 1..Len(l \o m) /\ j \in 1..Len(l \o m)
    OBVIOUS
  <1>2. (l \o m)[i] = l[i] /\ (l \o m)[j] = Head(m)
    OBVIOUS
  <1> QED BY <1>1, <1>2 DEF Distinct

(* The parser keeps the invariant.                                         *)
LEMMA WalkKeeps == TypeOK /\ TypeOK' /\ AgreeInv /\ ParseConfig /\ ~Overflow => AgreeInv'
  <1> SUFFICES ASSUME TypeOK, TypeOK', AgreeInv, ParseConfig, ~Overflow PROVE AgreeInv'
    OBVIOUS
  <1>1. UNCHANGED <<text, app, walker, reloads, before, started>>
    <2>1. CASE IncludeNext
      BY <2>1 DEF IncludeNext, ParseRest, bounds
    <2>2. CASE EndOfFile
      BY <2>2 DEF EndOfFile, ParseRest, bounds
    <2>3. CASE Include \/ Broken \/ Set
      BY <2>3 DEF Include, Broken, Set, ParseRest, bounds
    <2>4. CASE LoadCheck \/ ValidateCheck
      BY <2>4 DEF LoadCheck, ValidateCheck, ParseRest, bounds
    <2> QED BY <2>1, <2>2, <2>3, <2>4 DEF ParseConfig
  <1>2. /\ stack # <<>> /\ stack' \in Seq(Calls)
        /\ checks' \in Seq(Names) /\ found' \in Seq(Names)
    BY WalkFollows DEF TypeOK, Calls
  <1>3. CASE walker = "loader"
    <2>1. text[Main] # Unreadable /\ text = started /\ app = "off"
      BY <1>2, <1>3 DEF AgreeInv, Loaded
    <2>2. Reads(text, stack', checks')
      BY <1>2, <1>3, <2>1, WalkFollows, ReadOn DEF AgreeInv, Loaded
    <2> QED BY <1>1, <1>3, <2>1, <2>2 DEF AgreeInv, Running, Loaded, Validated, First
  <1>4. CASE walker = "validator"
    <2>1. text = started => Reads(text, stack', found')
      BY <1>2, <1>4, WalkFollows, ReadOn DEF AgreeInv, Validated
    <2>2. Distinct(found')
      <3>1. CASE UNCHANGED found
        BY <3>1, <1>4 DEF AgreeInv, Validated
      <3>2. CASE ValidateCheck
        <4>1. Head(Top.rest).name \in Names
          BY <3>2, HeadType, DirectiveType DEF TypeOK, ValidateCheck, Ready, Walk, Calls
        <4>2. Distinct(found) /\ found \in Seq(Names)
          BY <1>4 DEF AgreeInv, Validated, TypeOK
        <4> QED BY <3>2, <4>1, <4>2, AppendDistinct DEF ValidateCheck
      <3> QED
        BY <3>1, <3>2 DEF ParseConfig, IncludeNext, EndOfFile, Include, Broken, Set, LoadCheck
    <2>3. app = "on" /\ started[Main] # Unreadable
      BY <1>4 DEF AgreeInv, Running
    <2>4. First' => Reads(started', <<>>, before')
      BY <1>1, <1>4 DEF AgreeInv, Loaded, First
    <2> QED BY <1>1, <1>4, <2>1, <2>2, <2>3, <2>4 DEF AgreeInv, Running, Loaded, Validated
  <1> QED BY <1>3, <1>4, WalkFollows

LEMMA AgreeStep == TypeOK /\ TypeOK' /\ AgreeInv /\ [Next]_vars => AgreeInv'
  <1> SUFFICES ASSUME TypeOK, TypeOK', AgreeInv, [Next]_vars PROVE AgreeInv'
    OBVIOUS
  <1>1. CASE ParseConfig /\ ~Overflow
    BY <1>1, WalkKeeps
  <1>2. CASE Overflow
    <2>1. walker' = "none" /\ app' = "crashed"
      BY <1>2 DEF Overflow
    <2> QED BY <2>1 DEF AgreeInv, Running, Loaded, Validated, First
  <1>3. CASE StartNew
    <2>1. /\ walker' = "loader" /\ app' = "off" /\ text' = text /\ started' = text
          /\ checks' = checks /\ checks = <<>>
      BY <1>3 DEF StartNew, Open, AgreeInv, Loaded
    <2>2. text[Main] = Unreadable => stack' = <<>> /\ failed'
      BY <1>3 DEF StartNew, Open
    <2>3. text[Main] # Unreadable => Reads(text, stack', <<>>)
      BY <1>3, BeginsRight DEF StartNew, Open, Call, TypeOK
    <2> QED BY <2>1, <2>2, <2>3 DEF AgreeInv, Running, Loaded, Validated, First
  <1>4. CASE EndNew
    <2>1. /\ walker = "loader" /\ stack = <<>> /\ walker' = "none" /\ text' = text
          /\ app' = (IF failed THEN "refused" ELSE "on")
          /\ started' = started /\ checks' = checks
      BY <1>4 DEF EndNew
    <2>2. ~failed => text[Main] # Unreadable /\ text = started /\ Reads(started, <<>>, checks)
      BY <2>1 DEF AgreeInv, Loaded
    <2>3. app' = "on" => ~failed
      BY <2>1
    <2>4. app' # "off"
      BY <2>1
    <2> QED BY <2>1, <2>2, <2>3, <2>4 DEF AgreeInv, Running, Loaded, Validated, First
  <1>5. CASE StartReload
    <2>1. /\ app = "on" /\ walker = "none" /\ reloads' = reloads - 1 /\ walker' = "validator"
          /\ found' = <<>> /\ before' = checks /\ UNCHANGED <<text, app, checks, started>>
      BY <1>5 DEF StartReload, Open
    <2>2. started[Main] # Unreadable
      BY <2>1 DEF AgreeInv, Running
    <2>3. text = started => Reads(text, stack', <<>>)
      BY <1>5, <2>2, BeginsRight DEF StartReload, Open, Call, TypeOK
    <2>4. First' => Reads(started, <<>>, checks)
      <3> SUFFICES ASSUME First' PROVE Reads(started, <<>>, checks)
        OBVIOUS
      <3>1. reloads = MaxReloads
        BY <2>1, ConfigAssumption DEF First, TypeOK
      <3> QED BY <3>1, <2>1 DEF AgreeInv, Loaded
    <2>5. Distinct(<<>>)
      BY DEF Distinct
    <2>6. Running'
      <3>1. reloads' < MaxReloads
        BY <2>1, ConfigAssumption DEF TypeOK
      <3> QED BY <2>1, <2>2, <3>1 DEF Running
    <2>7. Loaded'
      BY <2>1, <2>4 DEF Loaded
    <2>8. Validated'
      BY <2>1, <2>3, <2>5 DEF Validated
    <2> QED BY <2>6, <2>7, <2>8 DEF AgreeInv
  <1>6. CASE EndReload
    <2>1. /\ walker = "validator" /\ stack = <<>>
          /\ UNCHANGED <<text, app, found, reloads, before, started>>
      BY <1>6 DEF EndReload, bounds
    <2>2. app = "on" /\ started[Main] # Unreadable
      BY <2>1 DEF AgreeInv, Running
    <2>3. CASE success
      <3>1. walker' = "adding" /\ checks' = <<>>
        BY <1>6, <2>3 DEF EndReload
      <3>2. checks' \o found' = found
        BY <2>1, <3>1 DEF TypeOK
      <3>3. First' => First
        BY <2>1 DEF First
      <3> QED BY <2>1, <2>2, <3>1, <3>2, <3>3 DEF AgreeInv, Running, Loaded, Validated
    <2>4. CASE ~success
      <3>1. walker' = "none" /\ checks' = checks
        BY <1>6, <2>4 DEF EndReload
      <3>2. reloads # MaxReloads
        BY <2>1, ConfigAssumption DEF AgreeInv, Running, TypeOK
      <3> QED BY <2>1, <2>2, <3>1, <3>2 DEF AgreeInv, Running, Loaded, Validated, First
    <2> QED BY <2>3, <2>4
  <1>7. CASE Add
    <2>1. /\ walker = "adding" /\ found # <<>> /\ found' = Tail(found)
          /\ UNCHANGED <<text, app, walker, reloads, before, started>>
      BY <1>7 DEF Add, bounds
    <2>2. New(checks, Head(found))
      BY <2>1, MovedNew DEF AgreeInv, Validated, TypeOK
    <2>3. checks' \o found' = checks \o found
      BY <1>7, <2>1, <2>2, Moved DEF Add, TypeOK
    <2>4. app = "on"
      BY <2>1 DEF AgreeInv, Running
    <2>5. First' => First
      BY <2>1 DEF First
    <2> QED BY <2>1, <2>3, <2>4, <2>5 DEF AgreeInv, Running, Loaded, Validated
  <1>8. CASE Added
    <2>1. walker = "adding" /\ walker' = "none" /\ UNCHANGED <<app, reloads, started, checks>>
      BY <1>8 DEF Added, bounds
    <2>2. app = "on" /\ started[Main] # Unreadable
      BY <2>1 DEF AgreeInv, Running
    <2>3. reloads # MaxReloads
      BY <2>1, ConfigAssumption DEF AgreeInv, Running, TypeOK
    <2> QED BY <2>1, <2>2, <2>3 DEF AgreeInv, Running, Loaded, Validated, First
  <1>9. ASSUME NEW f \in Files, Edit(f) PROVE AgreeInv'
    <2>1. walker = "none" /\ UNCHANGED <<app, walker, reloads, started, checks>>
      BY <1>9 DEF Edit
    <2> QED BY <2>1 DEF AgreeInv, Running, Loaded, Validated, First
  <1>10. CASE UNCHANGED vars
    BY <1>10 DEF vars, AgreeInv, Running, Loaded, Validated, First
  <1> QED
    BY <1>1, <1>2, <1>3, <1>4, <1>5, <1>6, <1>7, <1>8, <1>9, <1>10 DEF Next, Load, ParseConfig

(* Loader and validator agree: a first reload that is accepted, with the   *)
(* files the daemon was started with, gives the checks of the start, in    *)
(* their order (Monitor.New, Monitor.Reload).                              *)
THEOREM WalkersAlwaysAgree == Spec => WalkersAgree
  <1> DEFINE Agree == walker = "adding" /\ walker' = "none" /\ text = started
                      /\ reloads = MaxReloads - 1 => checks = before
  <1>1. Init => AgreeInv
    <2> SUFFICES ASSUME Init PROVE AgreeInv
      OBVIOUS
    <2>1. app = "off" /\ walker = "none" /\ checks = <<>>
      BY DEF Init
    <2> QED BY <2>1 DEF AgreeInv, Running, Loaded, Validated, First
  <1>2. TypeOK /\ AgreeInv /\ [Next]_vars => [Agree]_vars
    <2> SUFFICES ASSUME TypeOK, AgreeInv, [Next]_vars,
                        walker = "adding", walker' = "none", text = started,
                        reloads = MaxReloads - 1
                 PROVE  checks = before
      OBVIOUS
    <2>1. Added
      BY DEF Next, Load, ParseConfig, StartNew, EndNew, EndReload, Add, StartReload, Edit, Open,
         IncludeNext, Overflow, EndOfFile, Include, Broken, Set, LoadCheck, ValidateCheck,
         Ready, Walk, vars
    <2>2. checks \o found = checks
      BY <2>1 DEF Added, TypeOK
    <2>3. Reads(started, <<>>, checks) /\ Reads(started, <<>>, before)
      BY <2>2 DEF AgreeInv, Loaded, Validated, First
    <2>4. started \in [Files -> Texts] /\ started[Main] # Unreadable
      BY DEF TypeOK, AgreeInv, Running
    <2> QED BY <2>3, <2>4, ReadTheSame
  <1>3. Spec => []AgreeInv
    BY <1>1, AgreeStep, TypeCorrect, PTL DEF Spec
  <1>4. Spec => [][Agree]_vars
    BY <1>2, <1>3, TypeCorrect, PTL DEF Spec
  <1> QED BY <1>4 DEF WalkersAgree

-----------------------------------------------------------------------------
(* What is left of a call belongs to a file f: its directives are f's, the *)
(* files it is still to read are included by f.                            *)
Fits(t, c, f) == /\ t[f] # Unreadable
                 /\ \A i \in 1..Len(c.rest) : \E j \in 1..Len(t[f]) : c.rest[i] = t[f][j]
                 /\ \A i \in 1..Len(c.pending) : Includes(t, f, c.pending[i])

(* The calls of a stack are those of files each of which includes the next.*)
Chain(t, s, p) == /\ \A i \in 1..Len(s) : Fits(t, s[i], p[i])
                  /\ \A i \in 1..Len(s) - 1 : Includes(t, p[i], p[i + 1])
Chained(t, s) == \E p \in [1..Len(s) -> Files] : Chain(t, s, p)

LEMMA FitsCall ==
  ASSUME NEW t \in [Files -> Texts], NEW f \in Files, t[f] # Unreadable
  PROVE  Fits(t, [rest |-> t[f], pending |-> <<>>], f)
  <1>1. t[f] \in Seq(Directive)
    BY ConfigAssumption
  <1> QED BY <1>1 DEF Fits

LEMMA FitsRest ==
  ASSUME NEW t, NEW c \in Calls, NEW f \in Files, Fits(t, c, f), c.rest # <<>>, NEW d \in Calls,
         d.rest = Tail(c.rest), \A i \in 1..Len(d.pending) : Includes(t, f, d.pending[i])
  PROVE  Fits(t, d, f)
  <1>1. ASSUME NEW i \in 1..Len(d.rest)
        PROVE  \E j \in 1..Len(t[f]) : d.rest[i] = t[f][j]
    <2>1. c.rest \in Seq(Directive)
      BY DEF Calls
    <2>2. i + 1 \in 1..Len(c.rest) /\ d.rest[i] = c.rest[i + 1]
      BY <2>1
    <2> QED BY <2>2 DEF Fits
  <1> QED BY <1>1 DEF Fits

(* The first directive of a call, when it is an include, is one of f's.    *)
LEMMA FitsIncluded ==
  ASSUME NEW t \in [Files -> Texts], NEW c \in Calls, NEW f \in Files, Fits(t, c, f),
         c.rest # <<>>, Head(c.rest).kind = "include"
  PROVE  \A i \in 1..Len(Head(c.rest).files) : Includes(t, f, Head(c.rest).files[i])
  <1>1. c.rest \in Seq(Directive) /\ t[f] \in Seq(Directive) /\ t[f] # Unreadable
    BY ConfigAssumption DEF Calls, Fits
  <1>2. 1 \in 1..Len(c.rest) /\ Head(c.rest) = c.rest[1]
    BY <1>1
  <1>3. PICK j \in 1..Len(t[f]) : Head(c.rest) = t[f][j]
    BY <1>2 DEF Fits
  <1>4. Head(c.rest).files \in Seq(Files) /\ j \in DOMAIN t[f]
    BY <1>1, DirectiveType
  <1>5. DOMAIN Head(c.rest).files = 1..Len(Head(c.rest).files)
    BY <1>4
  <1> QED BY <1>1, <1>3, <1>4, <1>5 DEF Includes

LEMMA FitsPending ==
  ASSUME NEW t, NEW c \in Calls, NEW f \in Files, Fits(t, c, f), c.pending # <<>>
  PROVE  /\ Includes(t, f, Head(c.pending))
         /\ Fits(t, [c EXCEPT !.pending = Tail(@)], f)
  <1>1. c.pending \in Seq(Files)
    BY DEF Calls
  <1>2. 1 \in 1..Len(c.pending) /\ Head(c.pending) = c.pending[1]
    BY <1>1
  <1> DEFINE d == [c EXCEPT !.pending = Tail(@)]
  <1>3. d.rest = c.rest /\ d.pending = Tail(c.pending)
    BY DEF Calls
  <1>4. ASSUME NEW i \in 1..Len(d.pending) PROVE Includes(t, f, d.pending[i])
    <2>1. i + 1 \in 1..Len(c.pending) /\ d.pending[i] = c.pending[i + 1]
      BY <1>1, <1>3
    <2> QED BY <2>1 DEF Fits
  <1> HIDE DEF d
  <1>5. Fits(t, d, f)
    BY <1>3, <1>4 DEF Fits
  <1> QED BY <1>2, <1>5 DEF Fits, d

LEMMA ChainEmpty == ASSUME NEW t PROVE Chained(t, <<>>)
  <1> DEFINE p == [i \in 1..0 |-> Main]
  <1>1. Len(<<>>) = 0 /\ p \in [1..Len(<<>>) -> Files]
    BY EmptySeq
  <1>2. Chain(t, <<>>, p)
    BY <1>1 DEF Chain
  <1> QED BY <1>1, <1>2 DEF Chained

(* The moves of the parser: the innermost call goes on, returns, or calls. *)
GoesOn(s, c) == [s EXCEPT ![Len(s)] = c]

LEMMA ChainGoesOn ==
  ASSUME NEW t, NEW s \in Seq(Calls), s # <<>>, NEW p \in [1..Len(s) -> Files], Chain(t, s, p),
         NEW c \in Calls, Fits(t, c, p[Len(s)])
  PROVE  /\ GoesOn(s, c) \in Seq(Calls) /\ Len(GoesOn(s, c)) = Len(s)
         /\ Chain(t, GoesOn(s, c), p)
  BY DEF Chain, GoesOn

LEMMA ChainReturns ==
  ASSUME NEW t, NEW s \in Seq(Calls), s # <<>>, Chained(t, s)
  PROVE  Chained(t, SubSeq(s, 1, Len(s) - 1))
  <1> DEFINE b == SubSeq(s, 1, Len(s) - 1)
  <1>1. PICK p \in [1..Len(s) -> Files] : Chain(t, s, p)
    BY DEF Chained
  <1> DEFINE q == [i \in 1..Len(b) |-> p[i]]
  <1>2. Len(b) = Len(s) - 1 /\ Len(s) \in Nat \ {0} /\ \A i \in 1..Len(b) : b[i] = s[i]
    <2>1. Len(s) \in Nat \ {0}
      BY EmptySeq
    <2> DEFINE n == Len(s) - 1
    <2>2. n \in Nat /\ \A i \in 1..n : s[i] \in Calls
      BY <2>1, LenProperties
    <2> HIDE DEF n
    <2>3. Len(SubSeq(s, 1, n)) = n /\ \A i \in 1..n : SubSeq(s, 1, n)[i] = s[i]
      BY <2>2, SubSeqProperties
    <2> QED BY <2>1, <2>3 DEF n
  <1>3. q \in [1..Len(b) -> Files]
    BY <1>2
  <1>4. Chain(t, b, q)
    BY <1>1, <1>2 DEF Chain
  <1> QED BY <1>3, <1>4 DEF Chained

LEMMA ChainCalls ==
  ASSUME NEW t, NEW s \in Seq(Calls), s # <<>>, NEW p \in [1..Len(s) -> Files], Chain(t, s, p),
         NEW c \in Calls, NEW f \in Files, Fits(t, c, f), Includes(t, p[Len(s)], f)
  PROVE  Chained(t, Append(s, c))
  <1> DEFINE n == Len(s) + 1
             q == [i \in 1..n |-> IF i = n THEN f ELSE p[i]]
  <1>1. /\ Len(Append(s, c)) = n /\ n \in Nat /\ n > 1
        /\ \A i \in 1..n - 1 : Append(s, c)[i] = s[i]
        /\ Append(s, c)[n] = c
    BY EmptySeq, AppendProperties
  <1>2. q \in [1..n -> Files]
    BY <1>1
  <1>3. ASSUME NEW i \in 1..n PROVE Fits(t, Append(s, c)[i], q[i])
    BY <1>1 DEF Chain
  <1>4. ASSUME NEW i \in 1..n - 1 PROVE Includes(t, q[i], q[i + 1])
    BY <1>1 DEF Chain
  <1>5. Chain(t, Append(s, c), q)
    BY <1>1, <1>3, <1>4 DEF Chain
  <1> QED BY <1>1, <1>2, <1>5 DEF Chained

LEMMA ChainStep == TypeOK /\ Chained(text, stack) /\ [Next]_vars => Chained(text, stack)'
  <1> SUFFICES ASSUME TypeOK, Chained(text, stack), [Next]_vars PROVE Chained(text, stack)'
    OBVIOUS
  <1>1. Chained(text, <<>>) /\ Chained(text', <<>>)
    BY ChainEmpty
  <1>2. stack \in Seq(Calls) /\ text \in [Files -> Texts]
    BY DEF TypeOK, Calls
  <1>3. text' = text /\ Chained(text, stack') => Chained(text, stack)'
    OBVIOUS
  <1>4. CASE Walk /\ ParseConfig /\ ~Overflow
    <2>1. PICK p \in [1..Len(stack) -> Files] : Chain(text, stack, p)
      BY DEF Chained
    <2> DEFINE f == p[Len(stack)]
    <2>2. /\ stack # <<>> /\ Top \in Calls /\ Len(stack) \in Nat \ {0} /\ f \in Files
          /\ Fits(text, Top, f) /\ Top.pending \in Seq(Files) /\ Top.rest \in Seq(Directive)
      BY <1>2, <1>4, <2>1, BelowType DEF Walk, Chain, Top, Calls
    <2>3. text' = text
      BY <1>4 DEF ParseConfig, IncludeNext, EndOfFile, Include, Broken, Set, LoadCheck,
         ValidateCheck, ParseRest
    <2>4. stack' = Below => Chained(text, stack')
      BY <1>2, <2>2, ChainReturns DEF Below
    <2>5. Top.rest # <<>> /\ Top.pending = <<>> /\ Consume => Chained(text, stack')
      <3> SUFFICES ASSUME Top.rest # <<>>, Top.pending = <<>>, Consume PROVE Chained(text, stack')
        OBVIOUS
      <3> DEFINE c == [Top EXCEPT !.rest = Tail(@)]
      <3>1. c \in Calls /\ c.rest = Tail(Top.rest) /\ c.pending = <<>>
        BY <2>2, SeqTypes DEF Calls
      <3>2. stack' = GoesOn(stack, c)
        BY <2>2 DEF Consume, Top, GoesOn
      <3> HIDE DEF c
      <3>3. Fits(text, c, f)
        <4>1. \A i \in 1..Len(c.pending) : Includes(text, f, c.pending[i])
          BY <3>1, EmptySeq
        <4> QED BY <2>2, <3>1, <4>1, FitsRest
      <3>4. Chain(text, stack', p) /\ Len(stack') = Len(stack)
        BY <1>2, <2>1, <2>2, <3>1, <3>2, <3>3, ChainGoesOn
      <3> QED BY <2>1, <3>4 DEF Chained
    <2>6. CASE IncludeNext
      <3> DEFINE g == Head(Top.pending)
                 c == [Top EXCEPT !.pending = Tail(@)]
                 waiting == [stack EXCEPT ![Len(stack)].pending = Tail(@)]
      <3>1. Top.pending # <<>>
        BY <2>6 DEF IncludeNext
      <3>2. c \in Calls /\ g \in Files
        BY <2>2, <3>1, SeqTypes DEF Calls
      <3>3. waiting = GoesOn(stack, c)
        BY DEF Top, GoesOn
      <3>4. Includes(text, f, g) /\ Fits(text, c, f)
        BY <2>2, <3>1, FitsPending
      <3> HIDE DEF c, waiting
      <3>5. Chain(text, waiting, p) /\ Len(waiting) = Len(stack) /\ waiting \in Seq(Calls)
        BY <1>2, <2>1, <2>2, <3>2, <3>3, <3>4, ChainGoesOn
      <3>6. CASE text[g] = Unreadable
        <4>1. stack' = waiting
          BY <2>6, <3>6 DEF IncludeNext, waiting
        <4>2. Chained(text, stack')
          BY <2>1, <3>5, <4>1 DEF Chained
        <4> QED BY <4>2, <1>3, <2>3
      <3>7. CASE text[g] # Unreadable
        <4>1. stack' = Append(waiting, Call(g))
          BY <2>6, <3>7 DEF IncludeNext, waiting
        <4>2. Call(g) \in Calls /\ Fits(text, Call(g), g)
          BY <1>2, <3>2, <3>7, CallType, FitsCall DEF Call
        <4>3. waiting # <<>> /\ p \in [1..Len(waiting) -> Files] /\ Includes(text, p[Len(waiting)], g)
          BY <2>1, <2>2, <3>4, <3>5
        <4> HIDE DEF g
        <4>4. Chained(text, stack')
          BY <3>2, <3>5, <4>1, <4>2, <4>3, ChainCalls
        <4> QED BY <4>4, <1>3, <2>3
      <3> QED BY <3>6, <3>7
    <2>7. CASE EndOfFile \/ Broken
      BY <2>7, <1>3, <2>3, <2>4 DEF EndOfFile, Broken, Return
    <2>8. CASE Include
      <3>1. /\ Top.rest # <<>> /\ Top.pending = <<>>
            /\ Head(Top.rest).kind = "include"
        BY <2>8 DEF Include, Ready
      <3> DEFINE c == [rest |-> Tail(Top.rest), pending |-> Head(Top.rest).files]
      <3>2. c \in Calls
        BY <1>2, <2>2, <3>1, HeadType, DirectiveType, SeqTypes DEF Calls
      <3>3. stack' = GoesOn(stack, c)
        BY <2>8 DEF Include, Top, GoesOn
      <3>4. \A i \in 1..Len(c.pending) : Includes(text, f, c.pending[i])
        BY <1>2, <2>2, <3>1, FitsIncluded
      <3>5. Fits(text, c, f)
        BY <2>2, <3>1, <3>2, <3>4, FitsRest
      <3> HIDE DEF c
      <3>6. Chain(text, stack', p) /\ Len(stack') = Len(stack)
        BY <1>2, <2>1, <2>2, <3>2, <3>3, <3>5, ChainGoesOn
      <3>7. Chained(text, stack')
        BY <2>1, <3>6 DEF Chained
      <3> QED BY <3>7, <1>3, <2>3
    <2>9. CASE Set
      BY <2>9, <1>3, <2>3, <2>5 DEF Set, Ready
    <2>10. CASE LoadCheck \/ ValidateCheck
      <3>1. Top.rest # <<>> /\ Top.pending = <<>> /\ (Consume \/ stack' = Below)
        BY <2>10 DEF LoadCheck, ValidateCheck, Ready, Return
      <3> QED BY <3>1, <1>3, <2>3, <2>4, <2>5
    <2> QED BY <1>4, <2>6, <2>7, <2>8, <2>9, <2>10 DEF ParseConfig
  <1>5. CASE StartNew \/ StartReload
    <2>1. text' = text
      BY <1>5 DEF StartNew, StartReload
    <2>2. CASE text[Main] = Unreadable
      BY <1>1, <1>5, <2>2 DEF StartNew, StartReload, Open
    <2>3. CASE text[Main] # Unreadable
      <3> DEFINE p == [i \in 1..1 |-> Main]
      <3>1. stack' = <<Call(Main)>>
        BY <1>5, <2>3 DEF StartNew, StartReload, Open
      <3>2. Fits(text, Call(Main), Main)
        BY <1>2, <2>3, FitsCall, ConfigAssumption DEF Call
      <3>3. p \in [1..Len(stack') -> Files] /\ Chain(text, stack', p)
        BY <3>1, <3>2, ConfigAssumption DEF Chain
      <3>4. Chained(text, stack')
        BY <3>3 DEF Chained
      <3> QED BY <3>4, <1>3, <2>1
    <2> QED BY <2>2, <2>3
  <1>6. CASE Overflow
    BY <1>1, <1>6 DEF Overflow
  <1>7. ASSUME NEW f \in Files, Edit(f) PROVE Chained(text, stack)'
    <2>1. stack = <<>> /\ stack' = stack
      BY <1>7 DEF Edit, parse, TypeOK
    <2> QED BY <1>1, <2>1
  <1>8. CASE EndNew \/ EndReload \/ Add \/ Added \/ UNCHANGED vars
    <2>1. text' = text /\ stack' = stack
      BY <1>8 DEF EndNew, EndReload, Add, Added, vars, parse
    <2> QED BY <2>1, <1>3
  <1>9. ParseConfig => Walk
    BY DEF ParseConfig, IncludeNext, Overflow, EndOfFile, Include, Broken, Set, LoadCheck,
       ValidateCheck, Ready
  <1> QED BY <1>4, <1>5, <1>6, <1>7, <1>8, <1>9 DEF Next, Load

(* More calls than files: two of them read the same file.                  *)
LEMMA LongChainCycles ==
  ASSUME IsFiniteSet(Files), Cardinality(Files) <= MaxDepth,
         NEW n \in Nat, n >= MaxDepth, n > 0, NEW p \in [1..n + 1 -> Files],
         \A i \in 1..n : Includes(text, p[i], p[i + 1])
  PROVE  Cyclic
  <1>1. Cardinality(Files) \in Nat /\ MaxDepth \in Nat
    BY FS_CardinalityType, ConfigAssumption
  <1>2. IsFiniteSet(1..n + 1) /\ Cardinality(1..n + 1) = n + 1
    BY FS_Interval
  <1>3. PICK i, j \in 1..n + 1 : i < j /\ p[i] = p[j]
    <2>1. PICK x, y \in 1..n + 1 : x # y /\ p[x] = p[y]
      BY <1>1, <1>2, FS_PigeonHole
    <2>2. x < y \/ y < x
      BY <2>1
    <2> QED BY <2>1, <2>2
  <1> DEFINE S == {p[k] : k \in i..j - 1}
  <1>4. S \in SUBSET Files /\ p[i] \in S
    BY <1>3
  <1>5. ASSUME NEW f \in S PROVE \E g \in S : Includes(text, f, g)
    <2>1. PICK k \in i..j - 1 : f = p[k]
      OBVIOUS
    <2>2. k \in 1..n /\ Includes(text, f, p[k + 1])
      BY <2>1
    <2>3. p[k + 1] \in S
      <3>1. CASE k + 1 = j
        BY <3>1, <1>3, <1>4
      <3>2. CASE k + 1 # j
        <4>1. k + 1 \in i..j - 1
          BY <3>2
        <4> QED BY <4>1
      <3> QED BY <3>1, <3>2
    <2> QED BY <2>2, <2>3
  <1> QED BY <1>4, <1>5 DEF Cyclic

(* If a goroutine's stack holds a call for each file there is, the parser  *)
(* overflows it only when files include each other in a cycle              *)
(* (ParseConfigFile).                                                      *)
THEOREM OnlyCyclesCrash ==
  ASSUME IsFiniteSet(Files), Cardinality(Files) <= MaxDepth
  PROVE  Spec => CrashMeansCycle
  <1> DEFINE Crash == app' = "crashed" /\ app # "crashed" => Cyclic
  <1>1. Init => Chained(text, stack)
    BY ChainEmpty DEF Init
  <1>2. TypeOK /\ Chained(text, stack) /\ [Next]_vars => [Crash]_vars
    <2> SUFFICES ASSUME TypeOK, Chained(text, stack), [Next]_vars, app' = "crashed", app # "crashed"
                 PROVE  Cyclic
      OBVIOUS
    <2>1. Overflow
      BY DEF Next, Load, ParseConfig, StartNew, EndNew, EndReload, Add, Added, StartReload, Edit,
         IncludeNext, EndOfFile, Include, Broken, Set, LoadCheck, ValidateCheck, vars
    <2>2. /\ stack \in Seq(Calls) /\ stack # <<>> /\ Top \in Calls /\ Top.pending # <<>>
          /\ Len(stack) \in Nat \ {0} /\ Len(stack) >= MaxDepth
      BY <2>1, BelowType DEF Overflow, Walk, TypeOK, Calls
    <2>3. PICK p \in [1..Len(stack) -> Files] : Chain(text, stack, p)
      BY DEF Chained
    <2> DEFINE n == Len(stack)
               g == Head(Top.pending)
               q == [i \in 1..n + 1 |-> IF i = n + 1 THEN g ELSE p[i]]
    <2>4. g \in Files
      BY <2>2, SeqTypes DEF Calls
    <2>5. Includes(text, p[n], g)
      <3>1. p[n] \in Files /\ Fits(text, Top, p[n])
        BY <2>2, <2>3 DEF Chain, Top
      <3> QED BY <2>2, <3>1, FitsPending
    <2>6. n \in Nat /\ n > 0 /\ n >= MaxDepth
      BY <2>2
    <2> HIDE DEF g, n
    <2>7. q \in [1..n + 1 -> Files]
      BY <2>3, <2>4, <2>6 DEF n
    <2>8. ASSUME NEW i \in 1..n PROVE Includes(text, q[i], q[i + 1])
      BY <2>3, <2>5, <2>6 DEF Chain, n
    <2> HIDE DEF q
    <2> QED BY <2>6, <2>7, <2>8, LongChainCycles
  <1>3. Spec => []Chained(text, stack)
    BY <1>1, ChainStep, TypeCorrect, PTL DEF Spec
  <1>4. Spec => [][Crash]_vars
    BY <1>2, <1>3, TypeCorrect, PTL DEF Spec
  <1> QED BY <1>4 DEF CrashMeansCycle
=============================================================================
