----------------------------- MODULE MCAuditRun -----------------------------
(* Small instances of AuditRun: every prompt on two engines, the second of  *)
(* which costs twice the first.                                            *)
EXTENDS AuditRun, TLC

PromptOfTask == [t \in Tasks |-> (t + 1) \div 2]
PriceOfTask == [t \in Tasks |-> IF t % 2 = 0 THEN 2 ELSE 1]
=============================================================================
