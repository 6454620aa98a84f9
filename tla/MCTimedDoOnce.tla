--------------------------- MODULE MCTimedDoOnce ---------------------------
(* TimedDoOnce with one check whose operations fit its guard timer and one *)
(* whose restart does not, as with the timeouts a configuration gets when  *)
(* it sets none.                                                           *)
EXTENDS TimedDoOnce, TLC

CONSTANTS fast, slow

TwoIds == {fast, slow}
TwoStartTimeout == (fast :> 1) @@ (slow :> 2)
TwoStopTimeout == (fast :> 1) @@ (slow :> 1)
=============================================================================
