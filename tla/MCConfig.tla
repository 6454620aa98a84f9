------------------------------ MODULE MCConfig ------------------------------
(***************************************************************************)
(* The instance of Config for TLC: two files, two names, and a reference   *)
(* definition of what reading a control file yields.                       *)
(***************************************************************************)
EXTENDS Config, FiniteSets

CONSTANTS Extra, a, b

Check(n) == [kind |-> "check", name |-> n]
To(f) == [kind |-> "include", files |-> <<f>>]
Lines == {Check(a), Check(b), To(Extra), [kind |-> "broken"], [kind |-> "set"]}
MoreLines == {<<[kind |-> "badPattern"]>>, <<To(Main)>>, <<Check(a), To(Main)>>,
              <<To(Main), Check(a)>>,
              <<[kind |-> "include", files |-> <<Extra, Extra>>], Check(b)>>}
MCTexts == {Unreadable, <<>>} \cup {<<x>> : x \in Lines}
           \cup {<<x, y>> : x, y \in Lines} \cup MoreLines

(* Reading the directives ds into the list: the list, whether a name was   *)
(* met twice, and an error.  The errors of included files are lost.        *)
RECURSIVE Read(_, _), ReadAll(_, _)
Read(ds, r) ==
  IF ds = <<>> THEN r
  ELSE LET d == Head(ds) IN
    CASE d.kind = "check" ->
           IF New(r.list, d.name) THEN Read(Tail(ds), [r EXCEPT !.list = Append(@, d.name)])
                                  ELSE [r EXCEPT !.twice = TRUE, !.error = TRUE]
      [] d.kind = "include" -> Read(Tail(ds), ReadAll(d.files, r))
      [] d.kind = "set" -> Read(Tail(ds), r)
      [] OTHER -> [r EXCEPT !.error = TRUE]
ReadAll(fs, r) ==
  IF fs = <<>> THEN r
  ELSE ReadAll(Tail(fs), IF text[Head(fs)] = Unreadable THEN r
                         ELSE [Read(text[Head(fs)], r) EXCEPT !.error = FALSE])

Reading == IF text[Main] = Unreadable THEN [list |-> <<>>, twice |-> FALSE, error |-> TRUE]
           ELSE Read(text[Main], [list |-> <<>>, twice |-> FALSE, error |-> FALSE])

(* Without a cycle, the loop over directives and included files ends with  *)
(* the list and the error of the reference definition, for both walkers    *)
(* (ParseConfig).  What a reload refuses is a name met twice, be it in an  *)
(* included file, and nothing else: any other error loads what was read    *)
(* before it.                                                              *)
MeetsReference ==
  walker \in {"loader", "validator"} /\ stack = <<>> /\ ~Cyclic =>
    /\ failed = Reading.error
    /\ Reading.list = IF walker = "loader" THEN checks ELSE found
    /\ walker = "validator" => success = ~Reading.twice
=============================================================================
