--------------------------- MODULE CircuitBreaker ---------------------------
(***************************************************************************)
(* core/circuit_breaker.py under integrations/base_client.py: one vendor's *)
(* breaker, shared by every thread that calls the vendor.                  *)
(*                                                                         *)
(* BaseAPIClient.call asks allow(), makes up to MaxAttempts attempts and   *)
(* reports once, with record_success or record_failure.  allow and the     *)
(* reports are atomic (one lock), but a call is long: a report may come    *)
(* from a call that was admitted several breaker states ago.  A refused    *)
(* call leaves the breaker as it is and is not modelled as a step.         *)
(***************************************************************************)
EXTENDS Integers, FiniteSets

CONSTANTS
  Callers,       \* threads that call the vendor
  Threshold,     \* failure_threshold
  Cooldown,      \* cooldown_s, in ticks
  MaxAttempts    \* default_max_retries + 1

ASSUME BreakerAssumption ==
  /\ Threshold \in Nat \ {0} /\ Cooldown \in Nat \ {0} /\ MaxAttempts \in Nat \ {0}

VARIABLES
  state,         \* _state
  failures,      \* _failures: exact up to Threshold, which is all that is compared
  waited,        \* now - _opened_at: exact up to Cooldown
  trial,         \* _trial_in_flight
  call           \* per caller: no call, or the attempt it is on and how allow
                 \* let it in: on a closed breaker ("regular") or as a trial.  A
                 \* trial is "disowned" once another call reported before it.

breakerVars == <<state, failures, waited, trial, call>>

NoCall == [attempt |-> 0, as |-> "none"]
Calls == [attempt : 0..MaxAttempts, as : {"none", "regular", "trial", "disowned"}]
InFlight(c) == call[c] # NoCall
OnTrial == {c \in Callers : call[c].as = "trial"}

BreakerInit ==
  /\ state = "closed" /\ failures = 0 /\ waited = 0 /\ trial = FALSE
  /\ call = [c \in Callers |-> NoCall]

\* _promote_locked
Promotes == state = "open" /\ waited >= Cooldown
Seen == IF Promotes THEN "half_open" ELSE state
TrialSeen == IF Promotes THEN FALSE ELSE trial

\* `available` and `state`: whoever looks promotes the breaker.
Look ==
  /\ state' = Seen /\ trial' = TrialSeen
  /\ UNCHANGED <<failures, waited, call>>

Start(c, kind) ==
  /\ ~ InFlight(c)
  /\ call' = [call EXCEPT ![c] = [attempt |-> 1, as |-> kind]]
  /\ state' = Seen
  /\ UNCHANGED <<failures, waited>>

\* allow() on a closed breaker.
Admit(c) ==
  /\ Seen = "closed"
  /\ Start(c, "regular") /\ UNCHANGED trial

\* allow() on a half-open breaker: one trial.
AdmitTrial(c) ==
  /\ Seen = "half_open" /\ ~ TrialSeen
  /\ Start(c, "trial") /\ trial' = TRUE

\* c's call is over.  Its report clears the trial flag, whosever trial it is.
Hangup(c) == call' = [d \in Callers |->
  IF d = c THEN NoCall
  ELSE IF call[d].as = "trial" THEN [call[d] EXCEPT !.as = "disowned"] ELSE call[d]]

\* with_retries: a transient error, and attempts are left.
Retry(c) ==
  /\ InFlight(c) /\ call[c].attempt < MaxAttempts
  /\ call' = [call EXCEPT ![c].attempt = @ + 1]
  /\ UNCHANGED <<state, failures, waited, trial>>

\* Mutant: a success clears the count and the flag, and does not close.
AnswerLeavesState(c) ==
  /\ InFlight(c) /\ Hangup(c)
  /\ failures' = 0 /\ trial' = FALSE
  /\ UNCHANGED <<state, waited>>

\* The vendor answers, or rejects the request as wrong (UpstreamClientError):
\* record_success.
Answer(c) ==
  /\ InFlight(c) /\ Hangup(c)
  /\ state' = "closed" /\ failures' = 0 /\ trial' = FALSE
  /\ UNCHANGED waited

Opens == state = "half_open" \/ failures + 1 >= Threshold
Count == IF failures < Threshold THEN failures + 1 ELSE Threshold

\* Mutant: a failure leaves the flag to the trial's success.
FailKeepsFlag(c) ==
  /\ InFlight(c) /\ Hangup(c)
  /\ failures' = Count
  /\ IF Opens THEN state' = "open" /\ waited' = 0 ELSE UNCHANGED <<state, waited>>
  /\ UNCHANGED trial

\* The last attempt fails, or an attempt fails with an error that is not
\* retried: record_failure.
Fail(c) ==
  /\ InFlight(c) /\ Hangup(c)
  /\ failures' = Count /\ trial' = FALSE
  /\ IF Opens THEN state' = "open" /\ waited' = 0 ELSE UNCHANGED <<state, waited>>

Tick ==
  /\ state = "open" /\ waited < Cooldown
  /\ waited' = waited + 1
  /\ UNCHANGED <<state, failures, trial, call>>

Calling(c) == Admit(c) \/ AdmitTrial(c)
Reporting(c) == Answer(c) \/ Fail(c)

BreakerNext ==
  \/ \E c \in Callers : Calling(c) \/ Retry(c) \/ Reporting(c)
  \/ Look \/ Tick

BreakerSpec == BreakerInit /\ [][BreakerNext]_breakerVars

----------------------------------------------------------------------------
(* Properties. *)

BreakerTypeOK ==
  /\ state \in {"closed", "open", "half_open"}
  /\ failures \in 0..Threshold /\ waited \in 0..Cooldown /\ trial \in BOOLEAN
  /\ call \in [Callers -> Calls]

\* "Consecutive transient failures that open the breaker": it is closed exactly
\* as long as fewer than Threshold failures were reported since the last
\* success, whatever the order in which old and new calls report.
OpensAtThreshold == state = "closed" <=> failures < Threshold

\* The flag marks one call: it is set exactly while the trial of this half-open
\* period is in flight, so the breaker neither refuses for a call that is over
\* (it would for ever) nor lets a second trial in before someone reports.
OneTrialPerPeriod ==
  /\ Cardinality(OnTrial) <= 1
  /\ trial <=> OnTrial # {}
  /\ trial => state = "half_open"

\* A call starts while the breaker is not closed only as the one trial, and on
\* an open breaker only once it stayed open for the whole cooldown.
RefusesWhileDown ==
  [][\A c \in Callers : call[c] = NoCall /\ call'[c] # NoCall /\ state # "closed" =>
       /\ OnTrial = {} /\ OnTrial' = {c} /\ trial'
       /\ state = "open" => waited = Cooldown]_breakerVars
=============================================================================
