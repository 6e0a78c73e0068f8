---------------------------- MODULE MCTracking ----------------------------
(* A small instance of Tracking: two rows, and a verdict for either text.  *)
EXTENDS Tracking, TLC
Verdicts2 == "t" :> {"stable"} @@ "u" :> {"volatile"}
=============================================================================
