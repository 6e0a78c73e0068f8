------------------------------ MODULE MCAlerts ------------------------------
(* Small instances of Alerts. *)
EXTENDS Alerts

CONSTANTS k1, k2

MCDestinations == {
  [enabled |-> FALSE, channels |-> {"slack"}, rules |-> Keys],
  [enabled |-> TRUE, channels |-> {"slack"}, rules |-> Keys],
  [enabled |-> TRUE, channels |-> {"email"}, rules |-> {k1}]}
=============================================================================
