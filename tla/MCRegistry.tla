----------------------------- MODULE MCRegistry -----------------------------
(* Configurations of Registry for TLC. *)
EXTENDS Registry

CONSTANTS a, b

(* Services dropped or added by an edit of the configuration, to the last one. *)
Edited == {<<a, b>>, <<b>>, <<>>}

(* The same services, listed in another order. *)
Reordered == {<<a, b>>, <<b, a>>}

Same == {<<a, b>>}
=============================================================================
