----------------------------- MODULE MCStartup -----------------------------
(* The instance of Startup for TLC: the umasks 022 and 077. *)
EXTENDS Startup

MCShells == {{"g", "o"} \X {"w"}, {"g", "o"} \X {"r", "w", "x"}}
=============================================================================
