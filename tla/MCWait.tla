------------------------------- MODULE MCWait -------------------------------
(***************************************************************************)
(* The instance of WaitUntil for TLC.                                      *)
(***************************************************************************)
EXTENDS WaitUntil, TLC

Holding(k, t, s, h) == [kind |-> k, timeout |-> t, s |-> s, holds |-> h]
Program(k, t) == Holding(k, t, "first", {})
Other(k, s) == Holding(k, None, s, {})

MCNumbers == {-1, 0, 1, 2, 3, 5, 9}
TwoUnits == ("short" :> 1) @@ ("long" :> 3)

Starts == {Program("start", t) : t \in Timeouts}
Stops == {Program("stop", t) : t \in {None, [n |-> 2, unit |-> "long"]}}
Others == {Other(k, s) : k \in {"pidfile", "if", "group", "unknown"}, s \in {"none", "inside"}}

(* Statements whose text holds others. *)
Texts == {{"group"}, {"start"}, {"stop"}, {"group", "start"}, {"start", "stop"}}
Holders ==
  {Holding(k, [n |-> 2, unit |-> "long"], "first", h) : k \in {"start", "stop"}, h \in Texts}
  \cup {Holding("if", [n |-> 2, unit |-> "short"], "inside", h) : h \in Texts}
  \cup {Holding("if", None, "none", {"group"})}

MCDefinitions == {<<x>> : x \in Starts} \cup {<<x, y>> : x \in Others, y \in Starts}
                 \cup {<<x, y, z>> : x \in Others, y \in Others \cup Stops,
                                     z \in {Program("start", [n |-> 1, unit |-> "long"])}}
                 \cup {<<Program("start", [n |-> 1, unit |-> "long"]), x, y>> :
                         x \in Others \cup Stops, y \in Stops \cup {Program("start", None)}}
                 \cup {<<x, y>> : x \in Holders \cup {Program("start", [n |-> 1, unit |-> "long"])},
                                  y \in Holders \cup {Program("stop", None)}}
=============================================================================
