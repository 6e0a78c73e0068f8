---------------------------- MODULE VendorProofs ----------------------------
(***************************************************************************)
(* What stands between a thread and a vendor.                              *)
(*                                                                         *)
(* The breaker, for every set of callers, threshold, cooldown and number   *)
(* of attempts; that whole calls, with the token bucket and the retries    *)
(* around it, keep to one trial per period; and that the bucket keeps its  *)
(* rate.                                                                   *)
(*                                                                         *)
(* The money, for every finite pool, every price, all ceilings and any     *)
(* number of days and restarts: the ceiling of the process, and that a     *)
(* charge fits beside the rows of other processes, whatever escapes the    *)
(* ledger; the ceiling of the day where nothing does.                      *)
(***************************************************************************)
EXTENDS VendorCall, Spend, FoldTheorems, FiniteSetTheorems, TLAPS

(* The breaker and the bucket. *)

\* One trial per half-open period, without counting.
TrialInv ==
  /\ \A c, d \in Callers : call[c].as = "trial" /\ call[d].as = "trial" => c = d
  /\ trial <=> \E c \in Callers : call[c].as = "trial"
  /\ trial => state = "half_open"

\* The inductive invariant: a call in flight is on some attempt.
BreakerInv ==
  /\ BreakerTypeOK /\ OpensAtThreshold /\ TrialInv
  /\ \A c \in Callers : InFlight(c) => call[c].attempt > 0

\* The invariant holds initially.
LEMMA BreakerStart == BreakerAssumption /\ BreakerInit => BreakerInv
<1> SUFFICES ASSUME BreakerAssumption, BreakerInit PROVE BreakerInv
  OBVIOUS
<1>1. trial \in BOOLEAN
  BY Zenon DEF BreakerInit
<1>2. call \in [Callers -> Calls] /\ \A c \in Callers : call[c].as = "none"
  BY DEF BreakerAssumption, BreakerInit, NoCall, Calls
<1>3. BreakerTypeOK
  BY <1>1, <1>2 DEF BreakerAssumption, BreakerInit, BreakerTypeOK
<1>4. OpensAtThreshold /\ TrialInv
  BY <1>2 DEF BreakerAssumption, BreakerInit, OpensAtThreshold, TrialInv
<1>5. \A c \in Callers : ~ InFlight(c)
  BY DEF BreakerInit, InFlight
<1> QED BY <1>3, <1>4, <1>5 DEF BreakerInv

\* A promoted breaker has no trial out: an open one never has.
LEMMA Promotion ==
  ASSUME BreakerInv
  PROVE  /\ Seen \in {"closed", "open", "half_open"} /\ TrialSeen = trial
         /\ Seen = "closed" <=> state = "closed"
         /\ Seen # state => Seen = "half_open" /\ state = "open" /\ ~ trial
BY DEF BreakerInv, BreakerTypeOK, TrialInv, Seen, TrialSeen, Promotes

\* A call that starts as a trial is the only one out.
LEMMA CallingKeeps ==
  ASSUME BreakerAssumption, BreakerInv, NEW c \in Callers, Calling(c)
  PROVE  BreakerInv'
<1> DEFINE kind == IF Seen = "closed" THEN "regular" ELSE "trial"
<1>1. /\ ~ InFlight(c) /\ call' = [call EXCEPT ![c] = [attempt |-> 1, as |-> kind]]
      /\ state' = Seen /\ UNCHANGED <<failures, waited>>
      /\ Seen = "closed" => trial' = trial
      /\ Seen # "closed" => Seen = "half_open" /\ ~ trial /\ trial' = TRUE
  BY Promotion DEF Calling, Admit, AdmitTrial, Start
<1>2. kind \in {"regular", "trial"} /\ (kind = "trial" <=> Seen # "closed")
  OBVIOUS
<1> HIDE DEF kind
<1>3. /\ call' \in [Callers -> Calls]
      /\ call'[c] = [attempt |-> 1, as |-> kind]
      /\ \A d \in Callers : d # c => call'[d] = call[d]
  BY <1>1, <1>2 DEF BreakerInv, BreakerTypeOK, Calls, BreakerAssumption
<1>4. BreakerTypeOK'
  BY <1>1, <1>3, Promotion DEF BreakerInv, BreakerTypeOK
<1>5. OpensAtThreshold'
  BY <1>1, Promotion DEF BreakerInv, OpensAtThreshold
<1>6. TrialInv'
  BY <1>1, <1>2, <1>3, Promotion DEF BreakerInv, TrialInv, InFlight, NoCall
<1>7. \A d \in Callers : InFlight(d)' => call'[d].attempt > 0
  BY <1>3 DEF BreakerInv, InFlight, NoCall
<1> QED BY <1>4, <1>5, <1>6, <1>7 DEF BreakerInv

\* Another attempt changes nothing but the count of attempts.
LEMMA RetryKeeps ==
  ASSUME BreakerAssumption, BreakerInv, NEW c \in Callers, Retry(c)
  PROVE  BreakerInv'
<1>1. /\ call' = [call EXCEPT ![c].attempt = call[c].attempt + 1]
      /\ call[c].attempt < MaxAttempts /\ UNCHANGED <<state, failures, waited, trial>>
  BY DEF Retry
<1>2. /\ call[c] \in Calls /\ call[c].attempt \in Nat
      /\ call'[c] = [call[c] EXCEPT !.attempt = call[c].attempt + 1]
      /\ \A d \in Callers : d # c => call'[d] = call[d]
  BY <1>1 DEF BreakerInv, BreakerTypeOK, Calls
<1>3. call'[c] \in Calls /\ call'[c].as = call[c].as /\ call'[c].attempt > 0
  BY <1>1, <1>2 DEF Calls, BreakerAssumption
<1>4. BreakerTypeOK'
  BY <1>1, <1>2, <1>3 DEF BreakerInv, BreakerTypeOK
<1>5. OpensAtThreshold' /\ TrialInv'
  BY <1>1, <1>2, <1>3 DEF BreakerInv, OpensAtThreshold, TrialInv
<1>6. \A d \in Callers : InFlight(d)' => call'[d].attempt > 0
  BY <1>2, <1>3 DEF BreakerInv, InFlight
<1> QED BY <1>4, <1>5, <1>6 DEF BreakerInv

\* After a report no call is the current trial.
LEMMA HangupEffect ==
  ASSUME BreakerAssumption, BreakerInv, NEW c \in Callers, Hangup(c)
  PROVE  /\ call' \in [Callers -> Calls]
         /\ \A d \in Callers : call'[d].as # "trial"
         /\ \A d \in Callers : InFlight(d)' => call'[d].attempt > 0
<1>1. \A d \in Callers : call[d] \in Calls
  BY DEF BreakerInv, BreakerTypeOK
<1>2. ASSUME NEW d \in Callers
      PROVE  /\ call'[d] \in Calls /\ call'[d].as # "trial"
             /\ InFlight(d)' => call'[d].attempt > 0
  <2>1. CASE d = c
    <3>1. call'[d] = NoCall
      BY <2>1 DEF Hangup
    <3> QED BY <3>1 DEF NoCall, Calls, InFlight, BreakerAssumption
  <2>2. CASE d # c /\ call[d].as = "trial"
    <3>1. call'[d] = [call[d] EXCEPT !.as = "disowned"]
      BY <2>2 DEF Hangup
    <3>2. call'[d] \in Calls /\ call'[d].as = "disowned" /\ call'[d].attempt = call[d].attempt
      BY <1>1, <3>1 DEF Calls
    <3> QED BY <2>2, <3>2 DEF BreakerInv, InFlight, NoCall
  <2>3. CASE d # c /\ call[d].as # "trial"
    <3>1. call'[d] = call[d]
      BY <2>3 DEF Hangup
    <3> QED BY <1>1, <2>3, <3>1 DEF BreakerInv, InFlight
  <2> QED BY <2>1, <2>2, <2>3
<1>3. call' \in [Callers -> Calls]
  BY <1>2 DEF Hangup
<1> QED BY <1>2, <1>3

\* A report closes the breaker with no failure counted, or counts one.
LEMMA ReportKeeps ==
  ASSUME BreakerAssumption, BreakerInv, NEW c \in Callers, Reporting(c)
  PROVE  BreakerInv'
<1>1. Hangup(c) /\ trial' = FALSE
  BY DEF Reporting, Answer, Fail
<1>5. trial' \in BOOLEAN /\ ~ trial'
  BY <1>1, Zenon
<1>2. TrialInv' /\ (\A d \in Callers : InFlight(d)' => call'[d].attempt > 0)
  BY <1>1, <1>5, HangupEffect DEF TrialInv
<1>3. CASE Answer(c)
  <2>1. state' = "closed" /\ failures' = 0 /\ waited' = waited
    BY <1>3 DEF Answer
  <2>2. BreakerTypeOK'
    BY <1>1, <1>5, <2>1, HangupEffect DEF BreakerInv, BreakerTypeOK, BreakerAssumption
  <2>3. OpensAtThreshold'
    BY <2>1 DEF OpensAtThreshold, BreakerAssumption
  <2> QED BY <1>2, <2>2, <2>3 DEF BreakerInv
<1>4. CASE Fail(c)
  <2>1. /\ failures' = Count
        /\ Opens => state' = "open" /\ waited' = 0
        /\ ~ Opens => state' = state /\ waited' = waited
    BY <1>4 DEF Fail
  <2>2. failures \in 0..Threshold /\ waited \in 0..Cooldown /\ Threshold \in Nat
    BY DEF BreakerInv, BreakerTypeOK, BreakerAssumption
  <2>3. failures' \in 0..Threshold /\ (failures' < Threshold <=> failures + 1 < Threshold)
    BY <2>1, <2>2 DEF Count
  <2>4. BreakerTypeOK'
    BY <1>1, <1>5, <2>1, <2>2, <2>3, HangupEffect DEF BreakerInv, BreakerTypeOK, BreakerAssumption
  <2>5. OpensAtThreshold'
    BY <2>1, <2>2, <2>3 DEF BreakerInv, BreakerTypeOK, OpensAtThreshold, Opens
  <2> QED BY <1>2, <2>4, <2>5 DEF BreakerInv
<1> QED BY <1>3, <1>4 DEF Reporting

\* Every step keeps the invariant.
LEMMA BreakerKeeps == BreakerAssumption /\ BreakerInv /\ [BreakerNext]_breakerVars => BreakerInv'
<1> SUFFICES ASSUME BreakerAssumption, BreakerInv, [BreakerNext]_breakerVars PROVE BreakerInv'
  OBVIOUS
<1>1. ASSUME NEW c \in Callers, Calling(c) \/ Retry(c) \/ Reporting(c) PROVE BreakerInv'
  BY <1>1, CallingKeeps, RetryKeeps, ReportKeeps
<1>2. CASE Look
  <2>1. state' = Seen /\ trial' = trial /\ UNCHANGED <<failures, waited, call>>
    BY <1>2, Promotion DEF Look
  <2>2. BreakerTypeOK' /\ OpensAtThreshold'
    BY <2>1, Promotion DEF BreakerInv, BreakerTypeOK, OpensAtThreshold
  <2>3. TrialInv' /\ (\A c \in Callers : InFlight(c)' => call'[c].attempt > 0)
    BY <2>1, Promotion DEF BreakerInv, TrialInv, InFlight
  <2> QED BY <2>2, <2>3 DEF BreakerInv
<1>3. CASE Tick
  BY <1>3 DEF Tick, BreakerInv, BreakerTypeOK, OpensAtThreshold, TrialInv, InFlight, BreakerAssumption
<1>4. CASE UNCHANGED breakerVars
  BY <1>4 DEF breakerVars, BreakerInv, BreakerTypeOK, OpensAtThreshold, TrialInv, InFlight
<1> QED BY <1>1, <1>2, <1>3, <1>4 DEF BreakerNext

\* The invariant holds of every reachable state.
LEMMA BreakerInvariance == BreakerSpec => []BreakerInv
<1>1. BreakerInit => BreakerInv
  BY BreakerAssumption, BreakerStart
<1>2. BreakerInv /\ [BreakerNext]_breakerVars => BreakerInv'
  BY BreakerAssumption, BreakerKeeps
<1> QED BY <1>1, <1>2, PTL DEF BreakerSpec

\* Every variable of the breaker keeps its type in every reachable state.
THEOREM BreakerTyped == BreakerSpec => []BreakerTypeOK
<1>1. BreakerInv => BreakerTypeOK
  BY DEF BreakerInv
<1> QED BY <1>1, BreakerInvariance, PTL

\* The breaker is closed exactly while fewer than Threshold failures were
\* reported since the last success, however late the reports come.
THEOREM OpensAtThresholdAlways == BreakerSpec => []OpensAtThreshold
<1>1. BreakerInv => OpensAtThreshold
  BY DEF BreakerInv
<1> QED BY <1>1, BreakerInvariance, PTL

\* _trial_in_flight is set exactly while the one trial of this half-open period
\* is in flight: the breaker never refuses for a call that is over.
THEOREM OneTrialPerPeriodAlways == BreakerSpec => []OneTrialPerPeriod
<1>1. BreakerInv => OneTrialPerPeriod
  <2> SUFFICES ASSUME BreakerInv PROVE OneTrialPerPeriod
    OBVIOUS
  <2>1. trial <=> OnTrial # {}
    BY DEF BreakerInv, TrialInv, OnTrial
  <2>2. Cardinality(OnTrial) <= 1
    <3>1. CASE OnTrial = {}
      BY <3>1, FS_EmptySet
    <3>2. ASSUME NEW c \in OnTrial PROVE Cardinality(OnTrial) <= 1
      <4>1. OnTrial = {c}
        BY <3>2 DEF OnTrial, BreakerInv, TrialInv
      <4>2. Cardinality(OnTrial) = 1
        BY <4>1, FS_Singleton, Zenon
      <4> QED BY <4>2
    <3> QED BY <3>1, <3>2
  <2> QED BY <2>1, <2>2 DEF OneTrialPerPeriod, BreakerInv, TrialInv
<1> QED BY <1>1, BreakerInvariance, PTL

\* Beside a closed breaker a call starts only as the one trial, and on an open
\* one only once it stayed open for the whole cooldown.
THEOREM RefusesWhileDownAlways == BreakerSpec => RefusesWhileDown
<1> DEFINE P == \A c \in Callers : call[c] = NoCall /\ call'[c] # NoCall /\ state # "closed" =>
                  /\ OnTrial = {} /\ OnTrial' = {c} /\ trial'
                  /\ state = "open" => waited = Cooldown
<1>1. ASSUME BreakerInv, [BreakerNext]_breakerVars PROVE [P]_breakerVars
  <2> SUFFICES ASSUME NEW c \in Callers, call[c] = NoCall, call'[c] # NoCall, state # "closed"
               PROVE  /\ OnTrial = {} /\ OnTrial' = {c} /\ trial'
                      /\ state = "open" => waited = Cooldown
    OBVIOUS
  <2>1. AdmitTrial(c)
    <3>1. ASSUME NEW d \in Callers, Calling(d) PROVE AdmitTrial(c)
      <4>1. d = c
        BY <1>1, <3>1 DEF Calling, Admit, AdmitTrial, Start, BreakerInv, BreakerTypeOK
      <4>2. Seen # "closed"
        BY <1>1, Promotion
      <4> QED BY <3>1, <4>1, <4>2 DEF Calling, Admit
    <3>2. ASSUME NEW d \in Callers, Retry(d) PROVE FALSE
      BY <1>1, <3>2 DEF Retry, InFlight, BreakerInv, BreakerTypeOK
    <3>3. ASSUME NEW d \in Callers, Reporting(d) PROVE FALSE
      <4>1. Hangup(d)
        BY <3>3 DEF Reporting, Answer, Fail
      <4> QED BY <4>1 DEF Hangup, NoCall
    <3>4. CASE Look \/ Tick \/ UNCHANGED breakerVars
      BY <3>4 DEF Look, Tick, breakerVars
    <3> QED BY <1>1, <3>1, <3>2, <3>3, <3>4 DEF BreakerNext
  <2>2. /\ Seen = "half_open" /\ ~ TrialSeen /\ trial'
        /\ call' = [call EXCEPT ![c] = [attempt |-> 1, as |-> "trial"]]
    BY <2>1 DEF AdmitTrial, Start
  <2>3. ~ trial
    BY <1>1, <2>2, Promotion
  <2>4. OnTrial = {}
    BY <1>1, <2>3 DEF BreakerInv, TrialInv, OnTrial
  <2>5. OnTrial' = {c}
    BY <1>1, <2>2, <2>4 DEF OnTrial, BreakerInv, BreakerTypeOK
  <2>6. state = "open" => waited = Cooldown
    BY <1>1, <2>2, BreakerAssumption DEF Seen, Promotes, BreakerInv, BreakerTypeOK, BreakerAssumption
  <2> QED BY <2>2, <2>4, <2>5, <2>6
<1>2. BreakerInv /\ [BreakerNext]_breakerVars => [P]_breakerVars
  BY <1>1
<1> QED BY <1>2, BreakerInvariance, PTL DEF BreakerSpec, RefusesWhileDown

----------------------------------------------------------------------------
(* The whole call. *)

\* Each step of the composition is a step of the breaker, or none.
LEMMA VendorStep == [VendorNext]_all => [BreakerNext]_breakerVars
<1> SUFFICES ASSUME [VendorNext]_all PROVE [BreakerNext]_breakerVars
  OBVIOUS
<1>1. ASSUME NEW c \in Callers, Place(c) \/ Again(c) \/ Served(c) \/ Broken(c) \/ Throttled(c)
      PROVE  BreakerNext
  <2>1. Calling(c) \/ Retry(c) \/ Reporting(c)
    BY <1>1 DEF Place, Again, Served, Broken, Throttled, Reporting
  <2> QED BY <2>1 DEF BreakerNext
<1>2. ASSUME NEW c \in Callers, Wait(c) PROVE UNCHANGED breakerVars
  BY <1>2 DEF Wait
<1>3. CASE Look /\ UNCHANGED <<tokens, since, waiter, load>>
  BY <1>3 DEF BreakerNext
<1>4. CASE Clock
  BY <1>4 DEF Clock, BreakerNext
<1>5. CASE UNCHANGED all
  BY <1>5 DEF all, breakerVars
<1> QED BY <1>1, <1>2, <1>3, <1>4, <1>5 DEF VendorNext

\* One trial per half-open period holds of whole calls, those that gave up waiting
\* for a token included: whatever the bucket does to a call, the breaker takes one
\* of its own steps or none.
THEOREM VendorOneTrial == VendorSpec => []OneTrialPerPeriod
<1>1. VendorInit => BreakerInit
  BY DEF VendorInit
<1>2. VendorSpec => BreakerSpec
  BY <1>1, VendorStep, PTL DEF VendorSpec, BreakerSpec
<1> QED BY <1>2, OneTrialPerPeriodAlways, PTL

\* The bucket's numbers, and what makes the rate hold: what was taken lately and
\* what the bucket holds now are together at most a full bucket.
BucketInv ==
  /\ tokens \in 0..Capacity /\ since \in 0..Quota!Full /\ load \in Nat
  /\ Quota!LoadCovered

\* The number of ticks that fill any bucket is a number.
LEMMA FullIsNat == BucketAssumption => Quota!Full \in Nat \ {0}
BY DEF BucketAssumption, Quota!Full

\* What the bucket holds is between nothing and full.
LEMMA RefilledRange ==
  ASSUME BucketAssumption, BucketInv
  PROVE  Quota!Refilled \in 0..Capacity /\ since * Rate \in Nat
<1>1. since \in Nat /\ Rate \in Nat /\ tokens \in 0..Capacity /\ Capacity \in Nat
  BY FullIsNat DEF BucketAssumption, BucketInv
<1>2. since * Rate \in Nat
  BY <1>1
<1> QED BY <1>1, <1>2 DEF Quota!Refilled, Quota!Least

\* A step that writes down what the bucket holds, less what it takes.
LEMMA BucketWritten ==
  ASSUME BucketAssumption, BucketInv, NEW n \in Nat, n <= Quota!Refilled,
         tokens' = Quota!Refilled - n, since' = 0, load' = load + n
  PROVE  BucketInv'
<1>1. Quota!Refilled \in 0..Capacity /\ Capacity \in Nat /\ load \in Nat
  BY RefilledRange DEF BucketAssumption, BucketInv
<1>2. tokens' \in 0..Capacity /\ since' \in 0..Quota!Full /\ load' \in Nat
  BY <1>1, FullIsNat
<1>3. (since * Rate)' = 0
  BY DEF BucketAssumption
<1>4. Quota!Refilled' = Quota!Refilled - n
  BY <1>1, <1>3 DEF Quota!Refilled, Quota!Least
<1>5. Quota!LoadCovered'
  BY <1>1, <1>4 DEF BucketInv, Quota!LoadCovered
<1> QED BY <1>2, <1>5 DEF BucketInv, Quota!Full

\* The clock: what comes into the bucket in a tick goes off what was taken.
LEMMA PassKeeps ==
  ASSUME BucketAssumption, BucketInv, Quota!Pass
  PROVE  BucketInv'
<1> DEFINE have == since * Rate
           have2 == (since * Rate)'
<1>1. /\ tokens \in 0..Capacity /\ since \in 0..Quota!Full /\ load \in Nat
      /\ Capacity \in Nat /\ Rate \in Nat /\ Quota!Full \in Nat
  BY FullIsNat DEF BucketAssumption, BucketInv
<1>2. /\ since' = Quota!Least(Quota!Full, since + 1)
      /\ load' = Quota!Most(0, load - Rate) /\ tokens' = tokens
  BY Zenon DEF Quota!Pass
<1>3. since' \in 0..Quota!Full /\ (since' = since + 1 \/ since' = since)
  BY <1>1, <1>2 DEF Quota!Least
<1>4. have \in Nat /\ have2 \in Nat /\ have2 <= have + Rate
  <2>1. CASE since' = since + 1
    BY <1>1, <2>1
  <2>2. CASE since' = since
    BY <1>1, <2>2
  <2> QED BY <1>3, <2>1, <2>2
<1>5. tokens' = tokens /\ load' = IF load - Rate > 0 THEN load - Rate ELSE 0
  BY <1>1, <1>2 DEF Quota!Most
<1>6. /\ Quota!Refilled = IF Capacity < tokens + have THEN Capacity ELSE tokens + have
      /\ Quota!Refilled' = IF Capacity < tokens + have2 THEN Capacity ELSE tokens + have2
  BY <1>5 DEF Quota!Refilled, Quota!Least
<1>7. load + Quota!Refilled <= Capacity
  BY DEF BucketInv, Quota!LoadCovered
<1> HIDE DEF have, have2
<1>8. load' + Quota!Refilled' <= Capacity /\ load' \in Nat
  BY <1>1, <1>4, <1>5, <1>6, <1>7
<1> QED BY <1>1, <1>3, <1>5, <1>8 DEF BucketInv, Quota!LoadCovered, Quota!Full

\* Every step of a call keeps the bucket's invariant.
LEMMA VendorBucketStep == BucketAssumption /\ BucketInv /\ [VendorNext]_all => BucketInv'
<1> SUFFICES ASSUME BucketAssumption, BucketInv, [VendorNext]_all PROVE BucketInv'
  OBVIOUS
<1>1. ASSUME UNCHANGED <<tokens, since, load>> PROVE BucketInv'
  BY <1>1 DEF BucketInv, Quota!LoadCovered, Quota!Refilled, Quota!Full
<1>2. ASSUME NEW c \in Callers, Place(c) \/ Served(c) \/ Again(c) \/ Broken(c) \/ Throttled(c)
      PROVE  BucketInv'
  BY <1>1, <1>2 DEF Place, Served, Again, Broken, Throttled, Quota!Ask, Quota!Leave
<1>3. ASSUME NEW c \in Callers, Wait(c) PROVE BucketInv'
  <2>1. CASE Quota!Take(c)
    <3>1. Unit \in Nat /\ Unit <= Quota!Refilled
      BY <2>1, RefilledRange DEF Quota!Take, BucketAssumption
    <3> QED BY <2>1, <3>1, BucketWritten DEF Quota!Take
  <2>2. CASE Quota!Short(c) \/ Quota!Sleep(c) \/ Quota!GiveUp(c)
    <3>1. tokens' = Quota!Refilled - 0 /\ since' = 0 /\ load' = load + 0 /\ 0 <= Quota!Refilled
      BY <2>2, RefilledRange DEF Quota!Short, Quota!Sleep, Quota!GiveUp, BucketInv
    <3> QED BY <3>1, BucketWritten
  <2>3. CASE Quota!Wake(c)
    BY <1>1, <2>3 DEF Quota!Wake
  <2> QED BY <1>3, <2>1, <2>2, <2>3 DEF Wait, Quota!Acquiring
<1>4. CASE Look /\ UNCHANGED <<tokens, since, waiter, load>>
  BY <1>1, <1>4
<1>5. CASE Clock
  BY <1>5, PassKeeps DEF Clock
<1>6. CASE UNCHANGED all
  BY <1>1, <1>6 DEF all
<1> QED BY <1>2, <1>3, <1>4, <1>5, <1>6 DEF VendorNext

\* However many threads race for the tokens, sleep and retry, no stretch of time
\* sees more taken than a full bucket and what comes in that time.
THEOREM RateKeptAlways == VendorSpec => []RateKept
<1>1. VendorInit => BucketInv
  <2> SUFFICES ASSUME VendorInit PROVE BucketInv
    OBVIOUS
  <2>1. tokens = Capacity /\ since = 0 /\ load = 0 /\ Capacity \in Nat /\ Rate \in Nat
    BY BucketAssumption DEF VendorInit, Quota!BucketInit, BucketAssumption
  <2>2. Quota!Refilled = Capacity
    BY <2>1 DEF Quota!Refilled, Quota!Least
  <2> QED BY <2>1, <2>2, FullIsNat, BucketAssumption DEF BucketInv, Quota!LoadCovered
<1>2. BucketInv /\ [VendorNext]_all => BucketInv'
  BY VendorBucketStep, BucketAssumption
<1>3. BucketInv => RateKept
  <2> SUFFICES ASSUME BucketInv PROVE RateKept
    OBVIOUS
  <2>1. Quota!Refilled \in 0..Capacity /\ Capacity \in Nat /\ load \in Nat /\ load + Quota!Refilled <= Capacity
    BY RefilledRange, BucketAssumption DEF BucketInv, Quota!LoadCovered, BucketAssumption
  <2> QED BY <2>1 DEF RateKept
<1> QED BY <1>1, <1>2, <1>3, PTL DEF VendorSpec

-----------------------------------------------------------------------------
(* The money. *)

\* The inductive invariant: what the harvest may still be billed was reserved.
IInv == /\ TypeOK /\ SessionCap
        /\ harvest.billed + held[Harvester].cost <= harvest.reserved

\* An idle worker's call.
LEMMA IdleCall == ConstantsAssumption => Idle \in HeldCalls /\ Idle.cost = 0
BY DEF ConstantsAssumption, Idle, HeldCalls

\* The invariant holds initially.
LEMMA InitInvariant == ConstantsAssumption /\ Init => IInv
<1> SUFFICES ASSUME ConstantsAssumption, Init PROVE IInv
  OBVIOUS
<1>1. Harvester \in Workers /\ held[Harvester].cost = 0 /\ held \in [Workers -> HeldCalls]
  BY IdleCall DEF Init, Workers
<1>2. TypeOK
  BY <1>1 DEF ConstantsAssumption, Init, TypeOK, NoHarvest, NoDay
<1>3. SessionCap /\ harvest.billed + held[Harvester].cost <= harvest.reserved
  BY <1>1 DEF ConstantsAssumption, Init, SessionCap, NoHarvest
<1> QED BY <1>2, <1>3 DEF IInv

\* What every use of the invariant starts from.
LEMMA Typed ==
  ASSUME ConstantsAssumption, IInv
  PROVE  /\ spent \in Nat /\ baseline \in Nat /\ reserved \in Nat /\ recorded \in Int
         /\ unseen \in Nat
         /\ today \in 0..MaxDay /\ MaxDay \in Nat /\ SessionCeiling \in Nat /\ DailyCeiling \in Nat
         /\ Harvester \in Workers
         /\ \A w \in Workers : held[w] \in HeldCalls /\ held[w].cost \in Nat
         /\ harvest.reserved \in Nat /\ harvest.billed \in Nat
         /\ harvest.reports \in 0..MaxReports /\ MaxReports \in Nat
         /\ reserved <= spent /\ spent <= SessionCeiling
         /\ harvest.billed + held[Harvester].cost <= harvest.reserved
         /\ harvest.reserved <= spent
<1>1. ASSUME NEW w \in Workers PROVE held[w] \in HeldCalls /\ held[w].cost \in Nat
  <2>1. held[w] \in HeldCalls
    BY DEF IInv, TypeOK
  <2>2. held[w].cost \in Estimates \cup {0}
    BY <2>1 DEF HeldCalls
  <2>3. Estimates \subseteq Nat
    BY DEF ConstantsAssumption
  <2>4. held[w].cost \in Nat
    <3>1. 0 \in Nat
      OBVIOUS
    <3> QED BY <2>2, <2>3, <3>1, Zenon
  <2> QED BY <2>1, <2>4
<1> QED BY <1>1 DEF IInv, TypeOK, SessionCap, ConstantsAssumption, Workers

\* What the calls that are out may cost is an amount of money.
LEMMA SentTyped ==
  ASSUME ConstantsAssumption, IInv
  PROVE  Sent \in [Samplers -> Int] /\ \A s \in Samplers : Sent[s] \in Nat
<1>1. \A s \in Samplers : (IF held[s].at = "sent" THEN held[s].cost ELSE 0) \in Nat
  BY Typed DEF Workers
<1> QED BY <1>1 DEF Sent

LEMMA StillOutTyped ==
  ASSUME ConstantsAssumption, IInv
  PROVE  StillOut \in Nat /\ SumFunctionOnSet(Sent, Samplers) \in Nat
<1>1. SumFunctionOnSet(Sent, Samplers) \in Nat
  BY SentTyped, SumNat DEF ConstantsAssumption
<1>2. harvest.reserved \in Nat /\ harvest.billed \in Nat /\ harvest.billed <= harvest.reserved
  BY DEF IInv, TypeOK, SessionCap
<1> QED BY <1>1, <1>2 DEF StillOut

\* What no charge covers is an amount of money, too.
LEMMA PastEffect ==
  ASSUME ConstantsAssumption, IInv, NEW cost \in Nat, PastTheLedger(cost)
  PROVE  /\ UNCHANGED counters /\ unseen' \in Nat /\ unseen' >= unseen
         /\ ledgerDay = today => unseen' = unseen + cost
BY Typed DEF PastTheLedger

\* A ledger that has charged cost more.
LEMMA ChargeEffect ==
  ASSUME ConstantsAssumption, IInv, NEW cost \in Estimates, Charge(cost), today' = today
  PROVE  /\ ledgerDay' = today /\ baseline' \in Nat /\ cost \in Nat
         /\ spent' = spent + cost /\ reserved' \in Nat /\ reserved' <= spent'
         /\ spent' <= SessionCeiling /\ unseen' \in Nat
<1>1. cost \in Nat
  BY DEF ConstantsAssumption
<1> QED BY <1>1, Typed, StillOutTyped DEF Charge, Rollover, Fits, Baseline, ReservedToday, AtLeast0

\* A ledger that has given amount back.
LEMMA ReleaseEffect ==
  ASSUME ConstantsAssumption, IInv, NEW amount \in Nat, Release(amount)
  PROVE  /\ UNCHANGED <<ledgerDay, baseline, unseen>> /\ spent' \in Nat /\ reserved' \in Nat
         /\ reserved' <= spent' /\ spent' <= spent
BY Typed DEF Release, AtLeast0

\* What the rollover leaves counted for today.
LEMMA RolloverEffect ==
  ASSUME ConstantsAssumption, IInv, Rollover, reserved' = ReservedToday
  PROVE  /\ ledgerDay' = today /\ baseline' \in Nat /\ unseen' \in Nat
         /\ reserved' \in Nat /\ reserved' <= spent
BY Typed, StillOutTyped DEF Rollover, Baseline, ReservedToday, AtLeast0

\* A ledger that refused.
LEMMA RefuseEffect ==
  ASSUME ConstantsAssumption, IInv, NEW cost \in Estimates, Refuse(cost)
  PROVE  /\ ledgerDay' \in {NoDay} \cup 0..today /\ baseline' \in Nat /\ unseen' \in Nat
         /\ spent' = spent /\ reserved' \in Nat /\ reserved' <= spent
<1>1. CASE UNCHANGED ledgerVars
  BY <1>1, Typed DEF ledgerVars, counters, IInv, TypeOK
<1>2. CASE Rollover /\ reserved' = ReservedToday /\ UNCHANGED spent
  BY <1>2, RolloverEffect, Typed
<1> QED BY <1>1, <1>2 DEF Refuse

\* The calls after one worker's call became h.
LEMMA HeldUpdate ==
  ASSUME ConstantsAssumption, IInv, NEW w \in Workers, NEW h \in HeldCalls,
         held' = [held EXCEPT ![w] = h]
  PROVE  /\ held' \in [Workers -> HeldCalls] /\ held'[w] = h
         /\ w # Harvester => held'[Harvester] = held[Harvester]
BY Typed DEF IInv, TypeOK

\* A call that was charged and sent.
LEMMA SentCall ==
  ASSUME ConstantsAssumption, NEW cost \in Estimates
  PROVE  /\ [at |-> "sent", cost |-> cost, row |-> 0] \in HeldCalls
         /\ [at |-> "sent", cost |-> cost, row |-> 0].cost = cost
BY DEF ConstantsAssumption, HeldCalls

\* The steps of the harvest keep the invariant: what is charged for a report is
\* reserved with it, and what is given back is never billed.
LEMMA HarvestingKeeps ==
  ASSUME ConstantsAssumption, IInv, Harvesting, UNCHANGED escapes
  PROVE  IInv'
<1>1. CASE ChargeReport
  <2>1. PICK cost \in Estimates :
          /\ Charge(cost) /\ Hold(Harvester, cost)
          /\ harvest' = [harvest EXCEPT !.reserved = @ + cost, !.reports = @ + 1]
    BY <1>1 DEF ChargeReport
  <2>2. held[Harvester] = Idle /\ harvest.reports < MaxReports
        /\ UNCHANGED <<today, recorded, stage, restarts>>
    BY <1>1 DEF ChargeReport
  <2>3. /\ held' \in [Workers -> HeldCalls] /\ held'[Harvester].cost = cost
    BY <2>1, HeldUpdate, SentCall, Typed DEF Hold
  <2>4. /\ harvest' \in [reserved : Nat, billed : Nat, reports : 0..MaxReports]
        /\ harvest'.reserved = harvest.reserved + cost /\ harvest'.billed = harvest.billed
    <3>1. harvest \in [reserved : Nat, billed : Nat, reports : 0..MaxReports]
      BY DEF IInv, TypeOK
    <3>2. cost \in Nat /\ harvest.reports + 1 \in 0..MaxReports
      BY <2>2, Typed DEF ConstantsAssumption
    <3>3. harvest' = [reserved |-> harvest.reserved + cost, billed |-> harvest.billed,
                      reports |-> harvest.reports + 1]
      BY <2>1, <3>1
    <3> QED BY <3>1, <3>2, <3>3
  <2>5. TypeOK'
    BY <2>1, <2>2, <2>3, <2>4, ChargeEffect, Typed DEF IInv, TypeOK
  <2>6. SessionCap' /\ harvest'.billed + held'[Harvester].cost <= harvest'.reserved
    BY <2>1, <2>2, <2>3, <2>4, ChargeEffect, Typed, IdleCall DEF SessionCap
  <2> QED BY <2>5, <2>6 DEF IInv
<1>2. CASE RefuseReport
  <2>1. PICK cost \in Estimates : Refuse(cost)
    BY <1>2 DEF RefuseReport
  <2>2. /\ harvest' = [harvest EXCEPT !.reports = MaxReports]
        /\ UNCHANGED <<today, recorded, stage, held, restarts>>
    BY <1>2 DEF RefuseReport
  <2>3. /\ harvest' \in [reserved : Nat, billed : Nat, reports : 0..MaxReports]
        /\ harvest'.reserved = harvest.reserved /\ harvest'.billed = harvest.billed
    BY <2>2, Typed DEF IInv, TypeOK
  <2>4. TypeOK'
    BY <2>1, <2>2, <2>3, RefuseEffect, Typed DEF IInv, TypeOK
  <2>5. SessionCap' /\ harvest'.billed + held'[Harvester].cost <= harvest'.reserved
    BY <2>1, <2>2, <2>3, RefuseEffect, Typed DEF SessionCap
  <2> QED BY <2>4, <2>5 DEF IInv
<1>3. CASE ReadReport
  <2>1. PICK billed \in 0..held[Harvester].cost :
          /\ Annotate(Harvester, billed)
          /\ harvest' = [harvest EXCEPT !.billed = @ + billed]
    BY <1>3 DEF ReadReport
  <2>2. LetGo(Harvester) /\ UNCHANGED <<today, ledgerVars, stage, restarts>>
    BY <1>3 DEF ReadReport
  <2>3. billed \in Nat /\ billed <= held[Harvester].cost /\ recorded' \in Int
    BY <2>1, Typed DEF Annotate
  <2>4. held' \in [Workers -> HeldCalls] /\ held'[Harvester].cost = 0
    BY <2>2, HeldUpdate, IdleCall, Typed DEF LetGo
  <2>5. /\ harvest' \in [reserved : Nat, billed : Nat, reports : 0..MaxReports]
        /\ harvest'.reserved = harvest.reserved /\ harvest'.billed = harvest.billed + billed
    BY <2>1, <2>3, Typed DEF IInv, TypeOK
  <2>6. TypeOK'
    BY <2>2, <2>3, <2>4, <2>5, Typed DEF IInv, TypeOK, ledgerVars, counters
  <2>7. SessionCap' /\ harvest'.billed + held'[Harvester].cost <= harvest'.reserved
    BY <2>2, <2>3, <2>4, <2>5, Typed DEF SessionCap, ledgerVars, counters
  <2> QED BY <2>6, <2>7 DEF IInv
<1>4. CASE ErrorBody
  <2>1. LetGo(Harvester) /\ UNCHANGED <<today, counters, recorded, stage, harvest, restarts>>
        /\ unseen' \in Nat
    BY <1>4, PastEffect, Typed DEF ErrorBody
  <2>2. held' \in [Workers -> HeldCalls] /\ held'[Harvester].cost = 0
    BY <2>1, HeldUpdate, IdleCall, Typed DEF LetGo
  <2>3. TypeOK'
    BY <2>1, <2>2 DEF IInv, TypeOK, ledgerVars, counters
  <2>4. SessionCap' /\ harvest'.billed + held'[Harvester].cost <= harvest'.reserved
    BY <2>1, <2>2, Typed DEF SessionCap, ledgerVars, counters
  <2> QED BY <2>3, <2>4 DEF IInv
<1>5. CASE EndHarvest
  <2>1. /\ held[Harvester] = Idle /\ stage' = "audit" /\ harvest' = NoHarvest
        /\ UNCHANGED <<today, recorded, held, restarts>>
    BY <1>5 DEF EndHarvest
  <2>2. /\ ledgerDay' = ledgerDay /\ baseline' = baseline /\ unseen' = unseen
        /\ spent' \in Nat /\ reserved' \in Nat
        /\ reserved' <= spent' /\ spent' <= spent
    <3>1. CASE harvest.reserved > harvest.billed
      <4>1. harvest.reserved - harvest.billed \in Nat
        BY <3>1, Typed
      <4> QED BY <1>5, <3>1, <4>1, ReleaseEffect DEF EndHarvest
    <3>2. CASE ~ (harvest.reserved > harvest.billed)
      BY <1>5, <3>2, Typed DEF EndHarvest, ledgerVars, counters
    <3> QED BY <3>1, <3>2
  <2>3. TypeOK'
    BY <2>1, <2>2, Typed DEF IInv, TypeOK, NoHarvest
  <2>4. SessionCap' /\ harvest'.billed + held'[Harvester].cost <= harvest'.reserved
    BY <2>1, <2>2, Typed, IdleCall DEF SessionCap, NoHarvest
  <2> QED BY <2>3, <2>4 DEF IInv
<1> QED BY <1>1, <1>2, <1>3, <1>4, <1>5 DEF Harvesting

\* What a step does that leaves the ledger and the harvest alone, and the
\* harvester's call as dear as it was.
LEMMA CallsKeep ==
  ASSUME ConstantsAssumption, IInv,
         today' \in 0..MaxDay, today' >= today, restarts' = restarts,
         UNCHANGED <<escapes, counters, harvest>>, unseen' \in Nat,
         recorded' \in Int, stage' \in {"idle", "harvest", "audit", "judge"},
         held' \in [Workers -> HeldCalls], held'[Harvester].cost <= held[Harvester].cost,
         held'[Harvester].cost \in Nat
  PROVE  IInv'
<1>1. ledgerDay \in {NoDay} \cup 0..today'
  BY Typed DEF IInv, TypeOK, NoDay
<1>2. TypeOK'
  BY <1>1 DEF IInv, TypeOK, ledgerVars, counters
<1>3. SessionCap' /\ harvest'.billed + held'[Harvester].cost <= harvest'.reserved
  BY Typed DEF SessionCap, ledgerVars, counters
<1> QED BY <1>2, <1>3 DEF IInv

\* The steps of a pool thread keep the invariant: a charge keeps the counters
\* in order, and nothing else touches them.
LEMMA SamplingKeeps ==
  ASSUME ConstantsAssumption, IInv, NEW s \in Samplers, Sampling(s), UNCHANGED escapes
  PROVE  IInv'
<1>1. s \in Workers /\ s # Harvester
  BY DEF ConstantsAssumption, Workers
<1>2. CASE ChargeSample(s)
  <2>1. PICK cost \in Estimates : Charge(cost) /\ Hold(s, cost)
    BY <1>2 DEF ChargeSample
  <2>2. UNCHANGED <<today, recorded, stage, harvest, restarts>>
    BY <1>2 DEF ChargeSample
  <2>3. held' \in [Workers -> HeldCalls] /\ held'[Harvester] = held[Harvester]
    BY <1>1, <2>1, HeldUpdate, SentCall DEF Hold
  <2>4. TypeOK'
    BY <2>1, <2>2, <2>3, ChargeEffect, Typed DEF IInv, TypeOK
  <2>5. SessionCap' /\ harvest'.billed + held'[Harvester].cost <= harvest'.reserved
    BY <2>1, <2>2, <2>3, ChargeEffect, Typed DEF SessionCap
  <2> QED BY <2>4, <2>5 DEF IInv
<1>3. CASE RefuseSample(s)
  <2>1. PICK cost \in Estimates : Refuse(cost)
    BY <1>3 DEF RefuseSample
  <2>2. UNCHANGED <<today, recorded, stage, held, harvest, restarts>>
    BY <1>3 DEF RefuseSample
  <2>3. TypeOK'
    BY <2>1, <2>2, RefuseEffect, Typed DEF IInv, TypeOK
  <2>4. SessionCap' /\ harvest'.billed + held'[Harvester].cost <= harvest'.reserved
    BY <2>1, <2>2, RefuseEffect, Typed DEF SessionCap
  <2> QED BY <2>3, <2>4 DEF IInv
<1>4. CASE ReadAnswer(s)
  <2>1. PICK a \in 0..(held[s].cost + Overrun) :
          Annotate(s, a) /\ PastTheLedger(AtLeast0(a - held[s].cost))
    BY <1>4 DEF ReadAnswer
  <2>2. recorded' \in Int
    BY <1>1, <2>1, Typed DEF Annotate, Overrun, ConstantsAssumption
  <2>3. held' \in [Workers -> HeldCalls] /\ held'[Harvester] = held[Harvester]
    <3>1. CASE LetGo(s)
      BY <1>1, <3>1, HeldUpdate, IdleCall DEF LetGo
    <3>2. CASE held' = [held EXCEPT ![s].at = "page"]
      BY <1>1, <3>2 DEF IInv, TypeOK, HeldCalls
    <3> QED BY <1>4, <3>1, <3>2 DEF ReadAnswer
  <2>4. AtLeast0(a - held[s].cost) \in Nat
    BY <1>1, <2>1, Typed DEF AtLeast0, Overrun, ConstantsAssumption
  <2>5. UNCHANGED counters /\ unseen' \in Nat
    BY <2>1, <2>4, PastEffect
  <2> QED BY <1>4, <2>2, <2>3, <2>5, CallsKeep, Typed DEF ReadAnswer, IInv, TypeOK
<1>5. CASE FetchOverview(s)
  <2>1. recorded' \in Int
    BY <1>1, <1>5, Typed DEF FetchOverview
  <2>2. held' \in [Workers -> HeldCalls] /\ held'[Harvester] = held[Harvester]
    BY <1>1, <1>5, HeldUpdate, IdleCall DEF FetchOverview, LetGo
  <2>3. UNCHANGED counters /\ unseen' \in Nat
    BY <1>1, <1>5, PastEffect, Typed DEF FetchOverview, ledgerVars, counters
  <2> QED BY <1>5, <2>1, <2>2, <2>3, CallsKeep, Typed DEF FetchOverview, IInv, TypeOK
<1> QED BY <1>2, <1>3, <1>4, <1>5 DEF Sampling

\* A vendor that answers or does not changes the counters in no way.
LEMMA RowKeeps ==
  ASSUME ConstantsAssumption, IInv, NEW w \in Workers, Row(w) \/ NoAnswer(w), UNCHANGED escapes
  PROVE  IInv'
<1>1. CASE Row(w)
  <2>1. /\ held' \in [Workers -> HeldCalls]
        /\ held'[Harvester].cost = held[Harvester].cost
    BY <1>1, Typed DEF Row, IInv, TypeOK, HeldCalls
  <2>2. recorded' \in Int
    BY <1>1, Typed DEF Row
  <2> QED BY <1>1, <2>1, <2>2, CallsKeep, Typed DEF Row, IInv, TypeOK, ledgerVars
<1>2. CASE NoAnswer(w)
  <2>1. /\ held' \in [Workers -> HeldCalls]
        /\ held'[Harvester].cost = held[Harvester].cost \/ held'[Harvester].cost = 0
    BY <1>2, HeldUpdate, IdleCall DEF NoAnswer, LetGo
  <2> QED BY <1>2, <2>1, CallsKeep, Typed DEF NoAnswer, IInv, TypeOK, ledgerVars
<1> QED BY <1>1, <1>2

\* Every step keeps the invariant.
LEMMA InvariantKept == ConstantsAssumption /\ IInv /\ [Next]_vars => IInv'
<1> SUFFICES ASSUME ConstantsAssumption, IInv, [Next]_vars PROVE IInv'
  OBVIOUS
<1>0. UNCHANGED escapes
  BY DEF Next, vars
<1>1. CASE Harvesting
  BY <1>0, <1>1, HarvestingKeeps
<1>2. CASE \E s \in Samplers : Sampling(s)
  BY <1>0, <1>2, SamplingKeeps
<1>3. CASE \E w \in Workers : Row(w) \/ NoAnswer(w)
  BY <1>0, <1>3, RowKeeps
<1>4. CASE BeginRun \/ EndAudit \/ EndRun
  BY <1>0, <1>4, CallsKeep, Typed DEF BeginRun, EndAudit, EndRun, IInv, TypeOK, ledgerVars
<1>5. CASE Judge \/ CommandLine
  <2>1. PICK cost \in Estimates : recorded' = recorded + cost /\ PastTheLedger(cost)
    BY <1>5 DEF Judge, CommandLine
  <2>2. recorded' \in Int /\ UNCHANGED counters /\ unseen' \in Nat
    BY <2>1, PastEffect, Typed DEF ConstantsAssumption
  <2> QED BY <1>0, <1>5, <2>2, CallsKeep, Typed DEF Judge, CommandLine, IInv, TypeOK
<1>6. CASE Midnight
  BY <1>0, <1>6, CallsKeep, Typed DEF Midnight, IInv, TypeOK
<1>7. CASE Peek
  <2>1. /\ ledgerDay' = today /\ baseline' \in Nat /\ reserved' \in Nat /\ reserved' <= spent
        /\ unseen' \in Nat
        /\ UNCHANGED <<today, spent, recorded, stage, held, harvest, restarts>>
    BY <1>7, RolloverEffect DEF Peek
  <2>2. TypeOK'
    BY <1>0, <2>1, Typed DEF IInv, TypeOK
  <2>3. SessionCap' /\ harvest'.billed + held'[Harvester].cost <= harvest'.reserved
    BY <2>1, Typed DEF SessionCap
  <2> QED BY <2>2, <2>3 DEF IInv
<1>8. CASE Restart
  <2>1. /\ held' \in [Workers -> HeldCalls] /\ held'[Harvester].cost = 0
    BY <1>8, IdleCall, Typed DEF Restart
  <2>2. TypeOK'
    BY <1>0, <1>8, <2>1, Typed DEF Restart, IInv, TypeOK, NoHarvest
  <2>3. SessionCap' /\ harvest'.billed + held'[Harvester].cost <= harvest'.reserved
    BY <1>8, <2>1, Typed DEF Restart, SessionCap, NoHarvest
  <2> QED BY <2>2, <2>3 DEF IInv
<1>9. CASE UNCHANGED vars
  BY <1>9 DEF vars, ledgerVars, counters, IInv, TypeOK, SessionCap
<1> QED BY <1>1, <1>2, <1>3, <1>4, <1>5, <1>6, <1>7, <1>8, <1>9 DEF Next, Step

\* Only an accepted charge raises what the session spent.
LEMMA OnlyChargesSpend ==
  ASSUME ConstantsAssumption, IInv, [Next]_vars, spent' > spent
  PROVE  \E cost \in Estimates : Charge(cost)
<1>1. CASE Harvesting
  <2>1. CASE ChargeReport
    BY <2>1 DEF ChargeReport
  <2>2. CASE RefuseReport
    BY <2>2, RefuseEffect, Typed DEF RefuseReport
  <2>3. CASE ReadReport \/ ErrorBody
    BY <2>3, Typed DEF ReadReport, ErrorBody, PastTheLedger, ledgerVars, counters
  <2>4. CASE EndHarvest
    <3>1. CASE harvest.reserved > harvest.billed
      <4>1. harvest.reserved - harvest.billed \in Nat
        BY <3>1, Typed
      <4> QED BY <2>4, <3>1, <4>1, ReleaseEffect, Typed DEF EndHarvest
    <3>2. CASE ~ (harvest.reserved > harvest.billed)
      BY <2>4, <3>2, Typed DEF EndHarvest, ledgerVars, counters
    <3> QED BY <3>1, <3>2
  <2> QED BY <1>1, <2>1, <2>2, <2>3, <2>4 DEF Harvesting
<1>2. CASE \E s \in Samplers : Sampling(s)
  <2>1. PICK s \in Samplers : Sampling(s)
    BY <1>2
  <2>2. CASE ChargeSample(s)
    <3>1. \E cost \in Estimates : Charge(cost) /\ Hold(s, cost)
      BY <2>2 DEF ChargeSample
    <3> QED BY <3>1
  <2>3. CASE RefuseSample(s)
    <3>1. PICK cost \in Estimates : Refuse(cost)
      BY <2>3 DEF RefuseSample
    <3> QED BY <3>1, RefuseEffect, Typed
  <2>4. CASE ReadAnswer(s) \/ FetchOverview(s)
    BY <2>4, Typed DEF ReadAnswer, FetchOverview, PastTheLedger, ledgerVars, counters
  <2> QED BY <2>1, <2>2, <2>3, <2>4 DEF Sampling
<1>3. CASE \E w \in Workers : Row(w) \/ NoAnswer(w)
  BY <1>3, Typed DEF Row, NoAnswer, ledgerVars, counters
<1>4. CASE BeginRun \/ EndAudit \/ EndRun \/ Judge \/ CommandLine \/ Midnight \/ Peek \/ UNCHANGED vars
  BY <1>4, Typed DEF BeginRun, EndAudit, EndRun, Judge, CommandLine, PastTheLedger, Midnight, Peek,
                       vars, ledgerVars, counters
<1>5. CASE Restart
  <2>1. spent' = 0
    BY <1>5 DEF Restart
  <2> QED BY <2>1, Typed
<1> QED BY <1>1, <1>2, <1>3, <1>4, <1>5 DEF Next, Step

\* The invariant holds for ever.
LEMMA InvariantAlways == Spec => []IInv
<1>1. Init => IInv
  BY InitInvariant, ConstantsAssumption
<1>2. IInv /\ [Next]_vars => IInv'
  BY InvariantKept, ConstantsAssumption
<1> QED BY <1>1, <1>2, PTL DEF Spec

\* Every state the ledger, the calls and the harvest reach is well formed.
THEOREM SpendTyped == Spec => []TypeOK
<1>1. IInv => TypeOK
  BY DEF IInv
<1> QED BY <1>1, InvariantAlways, PTL

\* What a process reserved stays within its session's ceiling, however many
\* threads charge, refuse, release and are caught by midnight in between; and
\* the harvest never gives back what somebody else reserved.
THEOREM SessionCapAlways == Spec => []SessionCap
<1>1. IInv => SessionCap
  BY DEF IInv
<1> QED BY <1>1, InvariantAlways, PTL

----------------------------------------------------------------------------
(* What the day costs.                                                     *)

\* The call a worker has out: charged, and not a row yet.
Out == [w \in Workers |-> IF held[w].at = "sent" THEN held[w].cost ELSE 0]

\* F adds x up, over any set of workers.
IsSum(F, x) ==
  /\ F \in [SUBSET Workers -> Nat] /\ F[{}] = 0
  /\ \A T \in SUBSET Workers, w \in Workers : w \notin T => F[T \cup {w}] = F[T] + x[w]

\* What the harvest's call will not be billed again: it is out, or its row is
\* one of today's.
Awaited ==
  IF held[Harvester].at = "row" /\ held[Harvester].row # today THEN 0 ELSE held[Harvester].cost

\* What the harvest reserved, and neither is out, nor in today's rows, nor was billed.
Unbilled == harvest.reserved - harvest.billed - Awaited

\* What is recorded, what is out and what the harvest may still give back are
\* part of b.
Counted(b) == \E F : IsSum(F, Out) /\ recorded + F[Workers] + Unbilled <= b

\* The same, of the next state.
CountedNext(b) == \E F : IsSum(F, Out') /\ recorded' + F[Workers] + Unbilled' <= b

\* What the ledger counts for today covers all that, but for what it cannot know.
SeenInv == ledgerDay = today => Counted(baseline + reserved + unseen)

\* A ledger that has not looked at today yet has nothing out.
Unlooked == /\ \A w \in Workers : held[w] = Idle
            /\ harvest.reserved = harvest.billed

\* Every row that may still change is today's.
TodaysRows == \A w \in Workers : /\ held[w].at # "page"
                                 /\ held[w].at = "row" => held[w].row = today

\* Where nothing escapes, there is nothing the ledger does not know, and what it
\* counts fits; until it has looked at today, what earlier processes recorded does.
DayInv ==
  /\ TodaysRows
  /\ ledgerDay = today => unseen = 0 /\ baseline + reserved <= DailyCeiling
  /\ ledgerDay # today => Unlooked /\ recorded <= DailyCeiling

\* One worker's share became another: so did every sum it is part of.
LEMMA SumChanges ==
  ASSUME NEW x, NEW y, NEW F, IsSum(F, x), NEW w \in Workers,
         \A v \in Workers : x[v] \in Nat /\ y[v] \in Nat /\ (v # w => y[v] = x[v])
  PROVE  \E G : IsSum(G, y) /\ G[Workers] = F[Workers] - x[w] + y[w]
<1> DEFINE G == [T \in SUBSET Workers |-> IF w \in T THEN F[T] - x[w] + y[w] ELSE F[T]]
<1>1. ASSUME NEW T \in SUBSET Workers PROVE F[T] \in Nat
  BY DEF IsSum
<1>2. ASSUME NEW T \in SUBSET Workers, w \in T
      PROVE  F[T] - x[w] \in Nat
  <2>1. T \ {w} \in SUBSET Workers /\ w \notin T \ {w} /\ (T \ {w}) \cup {w} = T
    BY <1>2
  <2>2. F[T] = F[T \ {w}] + x[w]
    BY <2>1 DEF IsSum
  <2>3. F[T \ {w}] \in Nat /\ x[w] \in Nat
    BY <1>1, <2>1
  <2> QED BY <2>2, <2>3
<1>3. G \in [SUBSET Workers -> Nat]
  <2>1. ASSUME NEW T \in SUBSET Workers
        PROVE  (IF w \in T THEN F[T] - x[w] + y[w] ELSE F[T]) \in Nat
    BY <1>1, <1>2
  <2> QED BY <2>1
<1>4. G[{}] = 0
  BY DEF IsSum
<1>5. ASSUME NEW T \in SUBSET Workers, NEW v \in Workers, v \notin T
      PROVE  G[T \cup {v}] = G[T] + y[v]
  <2>1. /\ T \cup {v} \in SUBSET Workers /\ F[T \cup {v}] = F[T] + x[v]
        /\ F[T] \in Nat /\ x[v] \in Nat /\ y[v] \in Nat /\ x[w] \in Nat /\ y[w] \in Nat
    BY <1>1, <1>5 DEF IsSum
  <2>2. /\ G[T \cup {v}] = IF w \in T \cup {v} THEN F[T \cup {v}] - x[w] + y[w] ELSE F[T \cup {v}]
        /\ G[T] = IF w \in T THEN F[T] - x[w] + y[w] ELSE F[T]
    BY <2>1
  <2> HIDE DEF G
  <2>3. CASE v = w
    <3>1. w \in T \cup {v} /\ w \notin T
      BY <1>5, <2>3
    <3> QED BY <2>1, <2>2, <2>3, <3>1
  <2>4. CASE v # w
    <3>1. y[v] = x[v] /\ (w \in T \cup {v} <=> w \in T)
      BY <2>4
    <3> QED BY <2>1, <2>2, <3>1
  <2> QED BY <2>3, <2>4
<1>6. IsSum(G, y)
  <2> HIDE DEF G
  <2> QED BY <1>3, <1>4, <1>5 DEF IsSum
<1>7. G[Workers] = F[Workers] - x[w] + y[w]
  BY Zenon
<1> QED BY <1>6, <1>7

\* What a call costs is an amount of money.
LEMMA CostTyped ==
  ASSUME ConstantsAssumption, NEW h \in HeldCalls
  PROVE  h.cost \in Nat
<1>1. h.cost \in Estimates \cup {0}
  BY DEF HeldCalls
<1>2. Estimates \subseteq Nat /\ 0 \in Nat
  BY DEF ConstantsAssumption
<1> QED BY <1>1, <1>2, Zenon

\* What the lemmas below start from, before and after a step.
LEMMA Amounts ==
  ASSUME ConstantsAssumption, IInv, IInv'
  PROVE  /\ recorded \in Int /\ Unbilled \in Nat /\ recorded' \in Int /\ Unbilled' \in Nat
         /\ baseline \in Nat /\ reserved \in Nat /\ baseline' \in Nat /\ reserved' \in Nat
         /\ unseen \in Nat /\ unseen' \in Nat
         /\ DailyCeiling \in Nat /\ today \in Nat
         /\ \A w \in Workers :
              /\ held[w] \in HeldCalls /\ Out[w] \in Nat
              /\ held'[w] \in HeldCalls /\ Out'[w] \in Nat
              /\ Out[w] = IF held[w].at = "sent" THEN held[w].cost ELSE 0
              /\ Out'[w] = IF held'[w].at = "sent" THEN held'[w].cost ELSE 0
<1>1. ASSUME NEW w \in Workers
      PROVE  /\ held[w] \in HeldCalls /\ held[w].cost \in Nat
             /\ held'[w] \in HeldCalls /\ held'[w].cost \in Nat
  BY CostTyped DEF IInv, TypeOK
<1>2. Harvester \in Workers
  BY DEF Workers
<1>3. Unbilled \in Nat /\ Unbilled' \in Nat
  BY <1>1, <1>2 DEF IInv, TypeOK, Unbilled, Awaited
<1>4. ASSUME NEW w \in Workers
      PROVE  /\ Out[w] = IF held[w].at = "sent" THEN held[w].cost ELSE 0
             /\ Out'[w] = IF held'[w].at = "sent" THEN held'[w].cost ELSE 0
  BY DEF Out
<1>5. ASSUME NEW w \in Workers PROVE Out[w] \in Nat /\ Out'[w] \in Nat
  BY <1>1, <1>4
<1>6. today \in Nat
  BY Typed
<1> QED BY <1>1, <1>3, <1>4, <1>5, <1>6 DEF IInv, TypeOK, ConstantsAssumption

\* A step of worker w that moves no more into the day than c has over b.
LEMMA CountedKept ==
  ASSUME ConstantsAssumption, IInv, IInv', NEW b \in Int, Counted(b), NEW w \in Workers,
         \A v \in Workers : v # w => held'[v] = held[v], NEW c \in Int,
         c - b >= (recorded' + Out'[w] + Unbilled') - (recorded + Out[w] + Unbilled)
  PROVE  CountedNext(c)
<1>1. PICK F : IsSum(F, Out) /\ recorded + F[Workers] + Unbilled <= b
  BY DEF Counted
<1>2. \A v \in Workers : Out[v] \in Nat /\ Out'[v] \in Nat /\ (v # w => Out'[v] = Out[v])
  BY Amounts
<1>3. PICK G : IsSum(G, Out') /\ G[Workers] = F[Workers] - Out[w] + Out'[w]
  BY <1>1, <1>2, SumChanges
<1>4. F[Workers] \in Int
  BY <1>1 DEF IsSum
<1>5. recorded' + G[Workers] + Unbilled' <= c
  BY <1>1, <1>2, <1>3, <1>4, Amounts
<1> QED BY <1>3, <1>5 DEF CountedNext

\* What is counted covers what is recorded.
LEMMA CountedBound ==
  ASSUME ConstantsAssumption, IInv, NEW b \in Int, Counted(b)
  PROVE  recorded <= b
<1>1. PICK F : IsSum(F, Out) /\ recorded + F[Workers] + Unbilled <= b
  BY DEF Counted
<1>2. F[Workers] \in Nat
  BY <1>1 DEF IsSum
<1>3. Unbilled \in Nat
  BY Typed DEF Unbilled, Awaited
<1> QED BY <1>1, <1>2, <1>3, Typed

\* The calls out, added up: the pool's, and the harvest's.
LEMMA OutAddsUp ==
  ASSUME ConstantsAssumption, IInv
  PROVE  \E F : /\ IsSum(F, Out)
                /\ F[Workers] = SumFunctionOnSet(Sent, Samplers) + Out[Harvester]
<1> DEFINE P(T) == SumFunctionOnSet(Sent, T \cap Samplers)
           own(T) == IF Harvester \in T THEN Out[Harvester] ELSE 0
           F == [T \in SUBSET Workers |-> P(T) + own(T)]
<1>1. IsFiniteSet(Samplers) /\ Harvester \in Workers /\ Harvester \notin Samplers
      /\ Workers = Samplers \cup {Harvester}
  BY DEF ConstantsAssumption, Workers
<1>2. \A w \in Workers : Out[w] \in Nat /\ (w \in Samplers => Sent[w] = Out[w])
  BY Typed DEF Out, Sent
<1>3. AddsUp(Samplers, Sent)
  BY <1>1, SentTyped, SumsAddUp
<1>4. ASSUME NEW T \in SUBSET Workers PROVE P(T) \in Nat
  <2> DEFINE s == T \cap Samplers
             f == [x \in s |-> Sent[x]]
  <2>1. s \in SUBSET Samplers /\ IsFiniteSet(s) /\ f \in [s -> Int]
        /\ (\A x \in s : f[x] \in Nat /\ Sent[x] = f[x])
    BY <1>1, SentTyped, FS_Subset
  <2> HIDE DEF s, f
  <2>2. SumFunctionOnSet(f, s) \in Nat
    BY <2>1, SumNat
  <2>3. SumFunctionOnSet(Sent, s) = SumFunctionOnSet(f, s)
    BY <1>1, <2>1, SentTyped, SumAgrees
  <2> QED BY <2>2, <2>3 DEF s
<1>5. \A T \in SUBSET Workers : own(T) \in Nat
  BY <1>1, <1>2
<1>6. P({}) = 0 /\ own({}) = 0
  <2>1. {} \cap Samplers = {}
    OBVIOUS
  <2> QED BY <2>1, SumEmpty
<1>7. ASSUME NEW T \in SUBSET Workers, NEW w \in Workers, w \notin T
      PROVE  P(T \cup {w}) + own(T \cup {w}) = P(T) + own(T) + Out[w]
  <2>1. CASE w = Harvester
    <3>1. (T \cup {w}) \cap Samplers = T \cap Samplers
      BY <1>1, <2>1
    <3>2. own(T \cup {w}) = Out[w] /\ own(T) = 0
      BY <1>7, <2>1
    <3>3. P(T \cup {w}) = P(T)
      BY <3>1
    <3> HIDE DEF P, own
    <3> QED BY <1>2, <1>4, <3>2, <3>3
  <2>2. CASE w # Harvester
    <3>1. w \in Samplers \ (T \cap Samplers) /\ T \cap Samplers \in SUBSET Samplers
          /\ (T \cup {w}) \cap Samplers = (T \cap Samplers) \cup {w}
      BY <1>1, <1>7, <2>2
    <3>2. P(T \cup {w}) = P(T) + Sent[w]
      BY <1>3, <3>1 DEF AddsUp
    <3>3. own(T \cup {w}) = own(T)
      BY <2>2
    <3>4. Sent[w] = Out[w]
      BY <1>2, <3>1
    <3>5. P(T) \in Nat /\ own(T) \in Nat /\ Out[w] \in Nat
      BY <1>2, <1>4, <1>5
    <3> HIDE DEF P, own
    <3> QED BY <3>2, <3>3, <3>4, <3>5
  <2> QED BY <2>1, <2>2
<1>8. P(Workers) = SumFunctionOnSet(Sent, Samplers) /\ own(Workers) = Out[Harvester]
  <2>1. Workers \cap Samplers = Samplers
    BY <1>1
  <2> QED BY <1>1, <2>1
<1> HIDE DEF P, own
<1>9. F \in [SUBSET Workers -> Nat]
  BY <1>4, <1>5
<1>10. F[{}] = 0 /\ F[Workers] = SumFunctionOnSet(Sent, Samplers) + Out[Harvester]
  BY <1>6, <1>8
<1>11. ASSUME NEW T \in SUBSET Workers, NEW w \in Workers, w \notin T
       PROVE  F[T \cup {w}] = F[T] + Out[w]
  BY <1>7, <1>11
<1> HIDE DEF F
<1> QED BY <1>9, <1>10, <1>11 DEF IsSum

\* What the ledger counts for today once it has looked, whether or not it had before.
LEMMA Looked ==
  ASSUME ConstantsAssumption, IInv, SeenInv, Rollover
  PROVE  /\ Baseline \in Nat /\ ReservedToday \in Nat /\ unseen' \in Nat
         /\ Counted(Baseline + ReservedToday + unseen')
<1>1. CASE ledgerDay = today
  BY <1>1, Typed DEF SeenInv, Baseline, ReservedToday, Rollover
<1>2. CASE ledgerDay # today
  <2>1. PICK F : /\ IsSum(F, Out)
                 /\ F[Workers] = SumFunctionOnSet(Sent, Samplers) + Out[Harvester]
    BY OutAddsUp
  <2>2. unseen' = StillOut /\ StillOut \in Nat /\ SumFunctionOnSet(Sent, Samplers) \in Nat
    BY <1>2, StillOutTyped DEF Rollover
  <2>3. /\ Baseline = AtLeast0(recorded) /\ ReservedToday = 0 /\ Baseline \in Nat
        /\ recorded <= Baseline
    BY <1>2, Typed DEF Baseline, ReservedToday, AtLeast0
  <2>4. /\ Out[Harvester] \in Nat /\ Awaited \in Nat
        /\ Out[Harvester] <= Awaited
    BY Typed DEF Out, Awaited
  <2>5. F[Workers] + Unbilled <= StillOut
    BY <2>1, <2>2, <2>4, Typed DEF Unbilled, StillOut
  <2>6. F[Workers] \in Nat /\ Unbilled \in Int
    BY <2>1, <2>4, Typed DEF IsSum, Unbilled
  <2>7. recorded + F[Workers] + Unbilled <= Baseline + ReservedToday + unseen'
    BY <2>2, <2>3, <2>5, <2>6, Typed
  <2> QED BY <2>1, <2>2, <2>3, <2>7 DEF Counted
<1> QED BY <1>1, <1>2

\* A step that leaves the day, the calls and the money alone.
LEMMA SameSeen ==
  ASSUME SeenInv, UNCHANGED <<today, ledgerVars, recorded, held>>,
         harvest'.reserved = harvest.reserved, harvest'.billed = harvest.billed
  PROVE  SeenInv'
<1>1. Unbilled' = Unbilled /\ Out' = Out
  BY DEF Unbilled, Awaited, Out
<1>2. Counted(baseline + reserved + unseen) => Counted(baseline + reserved + unseen)'
  BY <1>1 DEF Counted, ledgerVars, counters
<1> QED BY <1>2 DEF SeenInv, ledgerVars, counters

\* The ledger looks at today, and charges nothing.
LEMMA RolloverSeen ==
  ASSUME ConstantsAssumption, IInv, SeenInv, Rollover, reserved' = ReservedToday,
         UNCHANGED <<today, recorded, held>>,
         harvest'.reserved = harvest.reserved, harvest'.billed = harvest.billed
  PROVE  SeenInv'
<1>1. Unbilled' = Unbilled /\ Out' = Out
  BY DEF Unbilled, Awaited, Out
<1>2. baseline' + reserved' + unseen' = Baseline + ReservedToday + unseen'
  BY DEF Rollover
<1>3. Counted(baseline + reserved + unseen)'
  BY <1>1, <1>2, Looked DEF Counted
<1> QED BY <1>3 DEF SeenInv

\* A refusal, of a report or of a sample.
LEMMA RefuseSeen ==
  ASSUME ConstantsAssumption, IInv, SeenInv, NEW cost \in Estimates, Refuse(cost),
         UNCHANGED <<today, recorded, held>>,
         harvest'.reserved = harvest.reserved, harvest'.billed = harvest.billed
  PROVE  SeenInv'
<1>1. CASE UNCHANGED ledgerVars
  BY <1>1, SameSeen
<1>2. CASE Rollover /\ reserved' = ReservedToday
  BY <1>2, RolloverSeen
<1> QED BY <1>1, <1>2 DEF Refuse

\* A charge: what is out, and what is counted, grow by its cost.
LEMMA ChargeSeen ==
  ASSUME ConstantsAssumption, IInv, IInv', SeenInv, NEW w \in Workers, held[w] = Idle,
         NEW cost \in Estimates, Charge(cost), Hold(w, cost),
         UNCHANGED <<today, recorded>>, Unbilled' = Unbilled
  PROVE  SeenInv'
<1> DEFINE b == Baseline + ReservedToday + unseen'
           c == baseline' + reserved' + unseen'
           r == recorded + Unbilled
<1>1. cost \in Nat /\ ledgerDay' = today'
  BY ChargeEffect
<1>2. Counted(b) /\ b \in Int /\ c = b + cost /\ c \in Int
  BY <1>1, Looked, Typed DEF Charge, Rollover
<1>3. /\ held'[w].at = "sent" /\ held'[w].cost = cost
      /\ \A v \in Workers : v # w => held'[v] = held[v]
  BY DEF Hold, IInv, TypeOK
<1>4. Out[w] = 0 /\ Out'[w] = cost
  BY <1>3, Amounts DEF Idle
<1>5. /\ recorded' + Out'[w] + Unbilled' = r + cost /\ recorded + Out[w] + Unbilled = r
      /\ r \in Int
  BY <1>1, <1>4, Amounts
<1> HIDE DEF b, c, r
<1>6. c - b >= (r + cost) - r
  BY <1>1, <1>2, <1>5
<1>7. c - b >= (recorded' + Out'[w] + Unbilled') - (recorded + Out[w] + Unbilled)
  BY <1>5, <1>6
<1>8. CountedNext(c)
  BY <1>2, <1>3, <1>7, CountedKept
<1>9. Counted(baseline + reserved + unseen)'
  BY <1>8 DEF c, CountedNext, Counted
<1> QED BY <1>9 DEF SeenInv

\* A call moves on, or a row is written past the ledger: no more goes into the
\* day's rows than left the calls out, the harvest's reservations or the ledger's sight.
LEMMA CallSeen ==
  ASSUME ConstantsAssumption, IInv, IInv', SeenInv, NEW w \in Workers,
         \A v \in Workers : v # w => held'[v] = held[v],
         UNCHANGED <<today, counters>>,
         ledgerDay = today =>
           recorded' + Out'[w] + Unbilled' <= recorded + Out[w] + Unbilled + (unseen' - unseen)
  PROVE  SeenInv'
<1> DEFINE b == baseline + reserved + unseen
           c == baseline' + reserved' + unseen'
<1>1. SUFFICES ASSUME ledgerDay = today PROVE Counted(baseline + reserved + unseen)'
  BY DEF SeenInv, counters
<1>2. Counted(b) /\ b \in Int /\ c \in Int /\ c - b = unseen' - unseen
  BY <1>1, Amounts DEF SeenInv, counters
<1>3. c - b >= (recorded' + Out'[w] + Unbilled') - (recorded + Out[w] + Unbilled)
  <2> HIDE DEF b, c
  <2> QED BY <1>1, <1>2, Amounts
<1> HIDE DEF b, c
<1>4. CountedNext(c)
  BY <1>2, <1>3, CountedKept
<1> QED BY <1>4 DEF c, CountedNext, Counted

\* The harvest: what it gives back was not billed.
LEMMA HarvestingSeen ==
  ASSUME ConstantsAssumption, IInv, IInv', SeenInv, Harvesting
  PROVE  SeenInv'
<1>1. Harvester \in Workers
  BY DEF Workers
<1>2. CASE ChargeReport
  <2>1. PICK cost \in Estimates :
          /\ Charge(cost) /\ Hold(Harvester, cost)
          /\ harvest' = [harvest EXCEPT !.reserved = @ + cost, !.reports = @ + 1]
    BY <1>2 DEF ChargeReport
  <2>2. held[Harvester] = Idle /\ UNCHANGED <<today, recorded>>
    BY <1>2 DEF ChargeReport
  <2>3. /\ held'[Harvester].cost = cost /\ held'[Harvester].at = "sent"
        /\ held[Harvester].cost = 0 /\ held[Harvester].at = "idle"
    BY <1>1, <2>1, <2>2 DEF Hold, Idle, IInv, TypeOK
  <2>4. harvest'.reserved = harvest.reserved + cost /\ harvest'.billed = harvest.billed
    BY <2>1 DEF IInv, TypeOK
  <2>5. Unbilled' = Unbilled
    BY <2>3, <2>4, ChargeEffect, <2>1, <2>2, Typed DEF Unbilled, Awaited
  <2> QED BY <1>1, <2>1, <2>2, <2>5, ChargeSeen
<1>3. CASE RefuseReport
  <2>1. PICK cost \in Estimates : Refuse(cost)
    BY <1>3 DEF RefuseReport
  <2>2. /\ harvest'.reserved = harvest.reserved /\ harvest'.billed = harvest.billed
        /\ UNCHANGED <<today, recorded, held>>
    BY <1>3 DEF RefuseReport, IInv, TypeOK
  <2> QED BY <2>1, <2>2, RefuseSeen
<1>4. CASE ReadReport
  <2>1. PICK billed \in 0..held[Harvester].cost :
          /\ Annotate(Harvester, billed)
          /\ harvest' = [harvest EXCEPT !.billed = @ + billed]
    BY <1>4 DEF ReadReport
  <2>2. /\ held' = [held EXCEPT ![Harvester] = Idle] /\ UNCHANGED <<today, counters, unseen>>
        /\ held[Harvester].at = "row"
    BY <1>1, <1>4, <2>1 DEF ReadReport, LetGo, Annotate, ledgerVars
  <2>3. /\ held'[Harvester].cost = 0 /\ held'[Harvester].at = "idle"
        /\ \A v \in Workers : v # Harvester => held'[v] = held[v]
    BY <1>1, <2>2 DEF Idle, IInv, TypeOK
  <2>4. harvest'.reserved = harvest.reserved /\ harvest'.billed = harvest.billed + billed
    BY <2>1 DEF IInv, TypeOK
  <2>5. billed \in Nat /\ held[Harvester].cost \in Nat
    BY <1>1, <2>1, Typed
  <2>6. Out[Harvester] = 0 /\ Out'[Harvester] = 0
    BY <1>1, <2>2, <2>3, Amounts
  <2>7. recorded' + Unbilled' <= recorded + Unbilled
    <3>1. CASE held[Harvester].row = today
      BY <2>1, <2>2, <2>3, <2>4, <2>5, <3>1, Typed DEF Unbilled, Awaited, Annotate, RowCounts
    <3>2. CASE held[Harvester].row # today
      BY <2>1, <2>2, <2>3, <2>4, <2>5, <3>2, Typed DEF Unbilled, Awaited, Annotate, RowCounts
    <3> QED BY <3>1, <3>2
  <2>8. recorded' + Out'[Harvester] + Unbilled'
          <= recorded + Out[Harvester] + Unbilled + (unseen' - unseen)
    BY <2>2, <2>6, <2>7, Amounts
  <2> QED BY <1>1, <2>2, <2>3, <2>8, CallSeen
<1>5. CASE ErrorBody
  <2>1. /\ held' = [held EXCEPT ![Harvester] = Idle] /\ UNCHANGED <<today, recorded, harvest>>
        /\ held[Harvester].at = "row" /\ held[Harvester].cost \in Nat
        /\ PastTheLedger(held[Harvester].cost)
    BY <1>1, <1>5, Typed DEF ErrorBody, LetGo
  <2>2. /\ held'[Harvester].cost = 0 /\ held'[Harvester].at = "idle"
        /\ \A v \in Workers : v # Harvester => held'[v] = held[v]
    BY <1>1, <2>1 DEF Idle, IInv, TypeOK
  <2>3. Out[Harvester] = 0 /\ Out'[Harvester] = 0
    BY <1>1, <2>1, <2>2, Amounts
  <2>4. UNCHANGED counters /\ (ledgerDay = today => unseen' = unseen + held[Harvester].cost)
    BY <2>1, PastEffect
  <2>5. Unbilled' <= Unbilled + held[Harvester].cost
    BY <2>1, <2>2, Typed DEF Unbilled, Awaited
  <2>6. ledgerDay = today => recorded' + Out'[Harvester] + Unbilled'
          <= recorded + Out[Harvester] + Unbilled + (unseen' - unseen)
    BY <2>1, <2>3, <2>4, <2>5, Amounts
  <2> QED BY <1>1, <2>1, <2>2, <2>4, <2>6, CallSeen
<1>6. CASE EndHarvest
  <2>1. /\ held[Harvester] = Idle /\ harvest' = NoHarvest /\ UNCHANGED <<today, recorded, held>>
    BY <1>6 DEF EndHarvest
  <2>2. Unbilled = harvest.reserved - harvest.billed /\ Unbilled' = 0 /\ Out' = Out
    BY <2>1, Typed DEF Unbilled, Awaited, Idle, NoHarvest, Out
  <2>3. ledgerDay' = ledgerDay /\ baseline' = baseline /\ unseen' = unseen
    BY <1>6 DEF EndHarvest, Release, ledgerVars, counters
  <2>4. reserved' >= reserved - Unbilled
    BY <1>6, <2>2, Typed DEF EndHarvest, Release, AtLeast0, ledgerVars, counters
  <2> DEFINE b == baseline + reserved + unseen
             c == baseline' + reserved' + unseen'
  <2>5. SUFFICES ASSUME ledgerDay = today PROVE Counted(baseline + reserved + unseen)'
    BY <2>1, <2>3 DEF SeenInv
  <2>6. Counted(b) /\ b \in Int /\ c \in Int /\ c - b >= 0 - Unbilled
    BY <2>3, <2>4, <2>5, Amounts DEF SeenInv
  <2> HIDE DEF b, c
  <2>7. Out'[Harvester] = Out[Harvester] /\ \A v \in Workers : v # Harvester => held'[v] = held[v]
    BY <2>1, <2>2
  <2>8. c - b >= (recorded' + Out'[Harvester] + Unbilled')
                   - (recorded + Out[Harvester] + Unbilled)
    BY <1>1, <2>1, <2>2, <2>6, <2>7, Amounts
  <2>9. CountedNext(c)
    BY <1>1, <2>6, <2>7, <2>8, CountedKept
  <2> QED BY <2>9 DEF c, CountedNext, Counted
<1> QED BY <1>2, <1>3, <1>4, <1>5, <1>6 DEF Harvesting

\* The audit: what an answer costs above its estimate, and the overview's row,
\* are written past the ledger.
LEMMA SamplingSeen ==
  ASSUME ConstantsAssumption, IInv, IInv', SeenInv, NEW s \in Samplers, Sampling(s)
  PROVE  SeenInv'
<1>1. s \in Workers /\ s # Harvester
  BY DEF ConstantsAssumption, Workers
<1>2. CASE ChargeSample(s)
  <2>1. PICK cost \in Estimates : Charge(cost) /\ Hold(s, cost)
    BY <1>2 DEF ChargeSample
  <2>2. held[s] = Idle /\ UNCHANGED <<today, recorded, harvest>>
    BY <1>2 DEF ChargeSample
  <2>3. Unbilled' = Unbilled
    BY <1>1, <2>1, <2>2 DEF Hold, Unbilled, Awaited, IInv, TypeOK
  <2> QED BY <1>1, <2>1, <2>2, <2>3, ChargeSeen
<1>3. CASE RefuseSample(s)
  <2>1. PICK cost \in Estimates : Refuse(cost)
    BY <1>3 DEF RefuseSample
  <2>2. UNCHANGED <<today, recorded, held, harvest>>
    BY <1>3 DEF RefuseSample
  <2> QED BY <2>1, <2>2, RefuseSeen
<1>4. CASE ReadAnswer(s)
  <2>1. PICK a \in 0..(held[s].cost + Overrun) :
          Annotate(s, a) /\ PastTheLedger(AtLeast0(a - held[s].cost))
    BY <1>4 DEF ReadAnswer
  <2>2. a \in Nat /\ held[s].cost \in Nat
    BY <1>1, <2>1, Typed DEF Overrun, ConstantsAssumption
  <2>3. /\ AtLeast0(a - held[s].cost) \in Nat /\ AtLeast0(a - held[s].cost) >= a - held[s].cost
        /\ AtLeast0(a - held[s].cost) >= 0
    BY <2>2 DEF AtLeast0
  <2>4. UNCHANGED counters
        /\ (ledgerDay = today => unseen' = unseen + AtLeast0(a - held[s].cost))
    BY <2>1, <2>3, PastEffect
  <2>5. /\ held'[s].at # "sent" /\ held[s].at = "row"
        /\ \A v \in Workers : v # s => held'[v] = held[v]
        /\ UNCHANGED <<today, harvest>>
    BY <1>1, <1>4, <2>1 DEF ReadAnswer, LetGo, Annotate, Idle, IInv, TypeOK, HeldCalls
  <2>6. Unbilled' = Unbilled /\ Out[s] = 0 /\ Out'[s] = 0
    BY <1>1, <2>5, Amounts DEF Unbilled, Awaited, Workers
  <2>7. ledgerDay = today =>
          recorded' + Out'[s] + Unbilled' <= recorded + Out[s] + Unbilled + (unseen' - unseen)
    <3> DEFINE more == AtLeast0(a - held[s].cost)
    <3>1. recorded' = recorded + a - held[s].cost \/ recorded' = recorded
      BY <2>1 DEF Annotate
    <3>2. more \in Nat /\ more >= a - held[s].cost /\ more >= 0
          /\ (ledgerDay = today => unseen' = unseen + more)
      BY <2>3, <2>4
    <3> HIDE DEF more
    <3> QED BY <2>2, <2>6, <3>1, <3>2, Amounts
  <2> QED BY <1>1, <2>4, <2>5, <2>7, CallSeen
<1>5. CASE FetchOverview(s)
  <2>1. /\ held[s].at = "page" /\ held[s].cost \in Nat /\ UNCHANGED <<today, harvest>>
        /\ held' = [held EXCEPT ![s] = Idle]
    BY <1>1, <1>5, Typed DEF FetchOverview, LetGo
  <2>2. held'[s].at = "idle" /\ \A v \in Workers : v # s => held'[v] = held[v]
    BY <1>1, <2>1 DEF Idle, IInv, TypeOK
  <2>3. Unbilled' = Unbilled /\ Out[s] = 0 /\ Out'[s] = 0
    BY <1>1, <2>1, <2>2, Amounts DEF Unbilled, Awaited, Workers
  <2>4. UNCHANGED counters
        /\ (ledgerDay = today => recorded' <= recorded + (unseen' - unseen))
    BY <1>5, <2>1, PastEffect, Typed DEF FetchOverview, ledgerVars
  <2>5. ledgerDay = today =>
          recorded' + Out'[s] + Unbilled' <= recorded + Out[s] + Unbilled + (unseen' - unseen)
    BY <2>3, <2>4, Amounts
  <2> QED BY <1>1, <2>1, <2>2, <2>4, <2>5, CallSeen
<1> QED BY <1>2, <1>3, <1>4, <1>5 DEF Sampling

\* A row costs what was out.
LEMMA RowSeen ==
  ASSUME ConstantsAssumption, IInv, IInv', SeenInv, NEW w \in Workers, Row(w) \/ NoAnswer(w)
  PROVE  SeenInv'
<1>1. /\ held[w].at = "sent" /\ UNCHANGED <<today, counters, unseen, harvest>>
      /\ held[w] \in HeldCalls /\ held[w].cost \in Nat
  BY Typed DEF Row, NoAnswer, ledgerVars
<1>2. Out[w] = held[w].cost
  BY <1>1, Amounts
<1>3. CASE Row(w)
  <2>1. recorded' = recorded + held[w].cost
    BY <1>3 DEF Row
  <2>2. /\ held'[w].at = "row" /\ held'[w].row = today /\ held'[w].cost = held[w].cost
        /\ \A v \in Workers : v # w => held'[v] = held[v]
    BY <1>1, <1>3 DEF Row, HeldCalls, IInv, TypeOK
  <2>3. Unbilled' = Unbilled
    BY <1>1, <2>2 DEF Unbilled, Awaited, Workers
  <2>4. Out'[w] = 0
    BY <2>2, Amounts
  <2>5. recorded' + Out'[w] + Unbilled' <= recorded + Out[w] + Unbilled + (unseen' - unseen)
    BY <1>1, <1>2, <2>1, <2>3, <2>4, Amounts
  <2> QED BY <1>1, <2>2, <2>5, CallSeen
<1>4. CASE NoAnswer(w)
  <2>1. held' = [held EXCEPT ![w] = Idle] /\ recorded' = recorded
    BY <1>4 DEF NoAnswer, LetGo
  <2>2. held'[w] = Idle /\ \A v \in Workers : v # w => held'[v] = held[v]
    BY <2>1 DEF IInv, TypeOK
  <2>3. Out'[w] = 0
    BY <2>2, Amounts DEF Idle
  <2>4. Unbilled' <= Unbilled + held[w].cost
    <3>1. CASE w = Harvester
      BY <1>1, <2>2, <3>1, Typed DEF Unbilled, Awaited, Idle
    <3>2. CASE w # Harvester
      BY <1>1, <2>2, <3>2, Typed DEF Unbilled, Awaited
    <3> QED BY <3>1, <3>2
  <2>5. recorded' + Out'[w] + Unbilled' <= recorded + Out[w] + Unbilled + (unseen' - unseen)
    BY <1>1, <1>2, <2>1, <2>3, <2>4, Amounts
  <2> QED BY <1>1, <2>2, <2>5, CallSeen
<1> QED BY <1>3, <1>4

\* Every step keeps the day's rows covered.
LEMMA SeenKept ==
  ASSUME ConstantsAssumption, IInv, IInv', SeenInv, [Next]_vars
  PROVE  SeenInv'
<1>1. CASE Harvesting
  BY <1>1, HarvestingSeen
<1>2. CASE \E s \in Samplers : Sampling(s)
  BY <1>2, SamplingSeen
<1>3. CASE \E w \in Workers : Row(w) \/ NoAnswer(w)
  BY <1>3, RowSeen
<1>4. CASE BeginRun \/ EndAudit \/ EndRun \/ UNCHANGED vars
  <2>1. UNCHANGED <<today, ledgerVars, recorded, held, harvest>>
    BY <1>4 DEF BeginRun, EndAudit, EndRun, vars, ledgerVars
  <2> QED BY <2>1, SameSeen
<1>5. CASE Judge \/ CommandLine
  <2>1. PICK cost \in Estimates : recorded' = recorded + cost /\ PastTheLedger(cost)
    BY <1>5 DEF Judge, CommandLine
  <2>2. UNCHANGED <<today, held, harvest>> /\ Harvester \in Workers
    BY <1>5 DEF Judge, CommandLine, Workers
  <2>3. cost \in Nat /\ UNCHANGED counters /\ (ledgerDay = today => unseen' = unseen + cost)
    BY <2>1, PastEffect DEF ConstantsAssumption
  <2>4. Unbilled' = Unbilled /\ Out' = Out
    BY <2>2 DEF Unbilled, Awaited, Out
  <2>5. ledgerDay = today => recorded' + Out'[Harvester] + Unbilled'
          <= recorded + Out[Harvester] + Unbilled + (unseen' - unseen)
    BY <2>1, <2>2, <2>3, <2>4, Amounts
  <2> QED BY <2>2, <2>3, <2>5, CallSeen
<1>6. CASE Midnight
  BY <1>6, Typed DEF Midnight, counters, SeenInv, IInv, TypeOK, NoDay
<1>7. CASE Peek
  BY <1>7, RolloverSeen DEF Peek
<1>8. CASE Restart
  BY <1>8, Typed DEF Restart, SeenInv, NoDay
<1> QED BY <1>1, <1>2, <1>3, <1>4, <1>5, <1>6, <1>7, <1>8 DEF Next, Step

LEMMA SeenAlways == Spec => [](IInv /\ SeenInv)
<1>1. Init => SeenInv
  BY DEF Init, SeenInv, NoDay
<1>2. IInv /\ IInv' /\ SeenInv /\ [Next]_vars => SeenInv'
  BY SeenKept, ConstantsAssumption
<1> QED BY <1>1, <1>2, InvariantAlways, PTL DEF Spec

\* Whatever escapes the ledger, a charge goes through only if it fits beside all of
\* the day's rows but those the ledger cannot know: a restart, another process's
\* rows before it looked, and what a release gives back after midnight are covered.
THEOREM FitsBesideRowsAlways == Spec => FitsBesideRows
<1> DEFINE A == spent' > spent => recorded + (spent' - spent) <= DailyCeiling + unseen'
<1>1. IInv /\ IInv' /\ SeenInv /\ [Next]_vars => [A]_vars
  <2> SUFFICES ASSUME IInv, IInv', SeenInv, [Next]_vars, spent' > spent
               PROVE  recorded + (spent' - spent) <= DailyCeiling + unseen'
    BY Zenon
  <2>1. PICK cost \in Estimates : Charge(cost)
    BY OnlyChargesSpend, ConstantsAssumption
  <2>2. cost \in Nat /\ spent' = spent + cost /\ Rollover
        /\ Baseline + ReservedToday + cost <= DailyCeiling
    BY <2>1, ConstantsAssumption DEF ConstantsAssumption, Charge, Fits
  <2>3. Baseline \in Nat /\ ReservedToday \in Nat /\ unseen' \in Nat
    BY <2>2, Looked, ConstantsAssumption
  <2>4. recorded <= Baseline + ReservedToday + unseen'
    BY <2>2, <2>3, Looked, CountedBound, ConstantsAssumption
  <2> QED BY <2>2, <2>3, <2>4, Typed, ConstantsAssumption
<1> QED BY <1>1, SeenAlways, PTL DEF Spec, FitsBesideRows

----------------------------------------------------------------------------
(* What the day costs, as long as nothing escapes the ledger.              *)

\* The day's rows cost no more than the ceiling.
LEMMA DayBound ==
  ASSUME ConstantsAssumption, IInv, SeenInv, DayInv
  PROVE  recorded <= DailyCeiling
<1>1. CASE ledgerDay = today
  <2>1. baseline + reserved + unseen \in Int /\ Counted(baseline + reserved + unseen)
    BY <1>1, Typed DEF SeenInv
  <2>2. recorded <= baseline + reserved + unseen
    BY <2>1, CountedBound
  <2> QED BY <1>1, <2>2, Typed DEF DayInv
<1>2. CASE ledgerDay # today
  BY <1>2 DEF DayInv
<1> QED BY <1>1, <1>2

\* What the ledger counts for today fits, once it has looked.
LEMMA LookedFits ==
  ASSUME ConstantsAssumption, IInv, DayInv, Rollover
  PROVE  ledgerDay' = today /\ unseen' = 0 /\ Baseline + ReservedToday <= DailyCeiling
<1>1. CASE ledgerDay = today
  BY <1>1 DEF DayInv, Baseline, ReservedToday, Rollover
<1>2. CASE ledgerDay # today
  <2>1. (\A w \in Workers : held[w] = Idle) /\ harvest.reserved = harvest.billed
    BY <1>2 DEF DayInv, Unlooked
  <2>2. \A s \in Samplers : Sent[s] = 0
    BY <2>1 DEF Sent, Idle, Workers
  <2>3. SumFunctionOnSet(Sent, Samplers) = 0
    <3>1. {} \in SUBSET Samplers /\ Samplers \in SUBSET Samplers /\ IsFiniteSet(Samplers)
      BY DEF ConstantsAssumption
    <3>2. InParts(Sent, Samplers, {})
      BY <3>1, SentTyped, SumPartial
    <3>3. SumFunctionOnSet(Sent, {}) = 0
      BY SumEmpty
    <3> QED BY <2>2, <3>2, <3>3 DEF InParts
  <2>4. StillOut = 0
    BY <2>1, <2>3, Typed DEF StillOut
  <2>5. Baseline + ReservedToday <= DailyCeiling
    BY <1>2, Typed DEF DayInv, Baseline, ReservedToday, AtLeast0
  <2> QED BY <1>2, <2>4, <2>5 DEF Rollover
<1> QED BY <1>1, <1>2

\* A step that leaves the day, the calls and the money alone.
LEMMA SameDay ==
  ASSUME DayInv, UNCHANGED <<today, ledgerVars, recorded, held>>,
         harvest'.reserved = harvest.reserved, harvest'.billed = harvest.billed
  PROVE  DayInv'
BY DEF DayInv, TodaysRows, Unlooked, ledgerVars, counters

\* A refusal, of a report or of a sample, or a mere look.
LEMMA RolloverKeepsDay ==
  ASSUME ConstantsAssumption, IInv, DayInv, Rollover, reserved' = ReservedToday,
         UNCHANGED <<today, held>>
  PROVE  DayInv'
<1>1. baseline' = Baseline
  BY DEF Rollover
<1>2. TodaysRows'
  BY DEF DayInv, TodaysRows
<1> QED BY <1>1, <1>2, LookedFits DEF DayInv

LEMMA RefuseKeepsDay ==
  ASSUME ConstantsAssumption, IInv, DayInv, NEW cost \in Estimates, Refuse(cost),
         UNCHANGED <<today, recorded, held>>,
         harvest'.reserved = harvest.reserved, harvest'.billed = harvest.billed
  PROVE  DayInv'
<1>1. CASE UNCHANGED ledgerVars
  BY <1>1, SameDay
<1>2. CASE Rollover /\ reserved' = ReservedToday
  BY <1>2, RolloverKeepsDay
<1> QED BY <1>1, <1>2 DEF Refuse

\* A charge.
LEMMA ChargeKeepsDay ==
  ASSUME ConstantsAssumption, IInv, DayInv, NEW w \in Workers,
         NEW cost \in Estimates, Charge(cost), Hold(w, cost), UNCHANGED today
  PROVE  DayInv'
<1>1. /\ baseline' = Baseline /\ reserved' = ReservedToday + cost /\ Rollover
      /\ Baseline + ReservedToday + cost <= DailyCeiling
  BY DEF Charge, Fits, Rollover
<1>2. cost \in Nat /\ Baseline \in Int /\ ReservedToday \in Int
  BY Typed DEF ConstantsAssumption, Baseline, ReservedToday, AtLeast0
<1>3. held'[w].at = "sent" /\ \A v \in Workers : v # w => held'[v] = held[v]
  BY DEF Hold, IInv, TypeOK
<1>4. TodaysRows'
  BY <1>3 DEF DayInv, TodaysRows
<1> QED BY <1>1, <1>2, <1>4, LookedFits DEF DayInv

\* A call moves on.
LEMMA CallKeepsDay ==
  ASSUME DayInv, NEW w \in Workers, held[w] # Idle,
         \A v \in Workers : v # w => held'[v] = held[v],
         held'[w].at # "page", held'[w].at = "row" => held'[w].row = today,
         UNCHANGED <<today, ledgerVars>>
  PROVE  DayInv'
<1>1. ledgerDay = today
  BY DEF DayInv, Unlooked
<1>2. TodaysRows'
  BY DEF DayInv, TodaysRows
<1> QED BY <1>1, <1>2 DEF DayInv, ledgerVars, counters

\* The harvest: what it gives back it had reserved.
LEMMA HarvestingKeepsDay ==
  ASSUME ConstantsAssumption, IInv, IInv', escapes = {}, DayInv, Harvesting
  PROVE  DayInv'
<1>1. Harvester \in Workers
  BY DEF Workers
<1>2. CASE ChargeReport
  <2>1. PICK cost \in Estimates : Charge(cost) /\ Hold(Harvester, cost)
    BY <1>2 DEF ChargeReport
  <2> QED BY <1>1, <1>2, <2>1, ChargeKeepsDay DEF ChargeReport
<1>3. CASE RefuseReport
  <2>1. PICK cost \in Estimates : Refuse(cost)
    BY <1>3 DEF RefuseReport
  <2>2. /\ harvest'.reserved = harvest.reserved /\ harvest'.billed = harvest.billed
        /\ UNCHANGED <<today, recorded, held>>
    BY <1>3 DEF RefuseReport, IInv, TypeOK
  <2> QED BY <2>1, <2>2, RefuseKeepsDay
<1>4. CASE ReadReport
  <2>1. /\ held' = [held EXCEPT ![Harvester] = Idle] /\ UNCHANGED <<today, ledgerVars>>
        /\ held[Harvester].at = "row"
    BY <1>4 DEF ReadReport, LetGo, Annotate
  <2>2. /\ held'[Harvester].at = "idle" /\ held[Harvester] # Idle
        /\ \A v \in Workers : v # Harvester => held'[v] = held[v]
    BY <1>1, <2>1 DEF Idle, IInv, TypeOK
  <2> QED BY <1>1, <2>1, <2>2, CallKeepsDay
<1>5. CASE ErrorBody
  BY <1>5 DEF ErrorBody
<1>6. CASE EndHarvest
  <2>1. /\ harvest' = NoHarvest /\ UNCHANGED <<today, recorded, held>>
        /\ ledgerDay' = ledgerDay /\ baseline' = baseline /\ unseen' = unseen
    BY <1>6 DEF EndHarvest, Release, ledgerVars, counters
  <2>2. reserved' <= reserved \/ reserved' = 0
    BY <1>6, Typed DEF EndHarvest, Release, AtLeast0, ledgerVars, counters
  <2>3. ledgerDay = today => baseline' + reserved' <= DailyCeiling
    BY <2>1, <2>2, Amounts DEF DayInv
  <2> QED BY <2>1, <2>3 DEF DayInv, TodaysRows, Unlooked, NoHarvest
<1> QED BY <1>2, <1>3, <1>4, <1>5, <1>6 DEF Harvesting

\* The audit: an answer costs no more than its estimate.
LEMMA SamplingKeepsDay ==
  ASSUME ConstantsAssumption, IInv, escapes = {}, DayInv, NEW s \in Samplers, Sampling(s)
  PROVE  DayInv'
<1>1. s \in Workers
  BY DEF Workers
<1>2. CASE ChargeSample(s)
  <2>1. PICK cost \in Estimates : Charge(cost) /\ Hold(s, cost)
    BY <1>2 DEF ChargeSample
  <2> QED BY <1>1, <1>2, <2>1, ChargeKeepsDay DEF ChargeSample
<1>3. CASE RefuseSample(s)
  <2>1. PICK cost \in Estimates : Refuse(cost)
    BY <1>3 DEF RefuseSample
  <2>2. UNCHANGED <<today, recorded, held, harvest>>
    BY <1>3 DEF RefuseSample
  <2> QED BY <2>1, <2>2, RefuseKeepsDay
<1>4. CASE ReadAnswer(s)
  <2>1. PICK a \in 0..held[s].cost : Annotate(s, a) /\ PastTheLedger(AtLeast0(a - held[s].cost))
    <3>1. held[s].cost \in Nat /\ Overrun = 0
      BY <1>1, Typed DEF Overrun
    <3> QED BY <1>4, <3>1 DEF ReadAnswer
  <2>2. held[s].cost \in Nat /\ AtLeast0(a - held[s].cost) = 0
    BY <1>1, <2>1, Typed DEF AtLeast0
  <2>3. UNCHANGED ledgerVars
    BY <2>1, <2>2, Typed DEF PastTheLedger, ledgerVars
  <2>4. /\ held' = [held EXCEPT ![s] = Idle] /\ UNCHANGED today /\ held[s].at = "row"
    BY <1>4, <2>1 DEF ReadAnswer, LetGo, Annotate
  <2>5. /\ held'[s].at = "idle" /\ held[s] # Idle
        /\ \A v \in Workers : v # s => held'[v] = held[v]
    BY <1>1, <2>4 DEF Idle, IInv, TypeOK
  <2> QED BY <1>1, <2>3, <2>4, <2>5, CallKeepsDay
<1>5. CASE FetchOverview(s)
  BY <1>1, <1>5 DEF FetchOverview, DayInv, TodaysRows
<1> QED BY <1>2, <1>3, <1>4, <1>5 DEF Sampling

\* A row is written on the day of the charge.
LEMMA RowKeepsDay ==
  ASSUME ConstantsAssumption, IInv, DayInv, NEW w \in Workers, Row(w) \/ NoAnswer(w)
  PROVE  DayInv'
<1>1. held[w].at = "sent" /\ held[w] # Idle /\ UNCHANGED <<today, ledgerVars>>
  BY DEF Row, NoAnswer, Idle
<1>2. /\ held'[w].at # "page" /\ (held'[w].at = "row" => held'[w].row = today)
      /\ \A v \in Workers : v # w => held'[v] = held[v]
  BY Typed DEF Row, NoAnswer, LetGo, Idle, HeldCalls, IInv, TypeOK
<1> QED BY <1>1, <1>2, CallKeepsDay

\* Every step keeps what the day costs, if nothing escapes the ledger.
LEMMA DayKept ==
  ASSUME ConstantsAssumption, IInv, IInv', SeenInv, escapes = {}, DayInv, [Next]_vars
  PROVE  DayInv'
<1>1. CASE Harvesting
  BY <1>1, HarvestingKeepsDay
<1>2. CASE \E s \in Samplers : Sampling(s)
  BY <1>2, SamplingKeepsDay
<1>3. CASE \E w \in Workers : Row(w) \/ NoAnswer(w)
  BY <1>3, RowKeepsDay
<1>4. CASE BeginRun \/ EndAudit \/ EndRun \/ UNCHANGED vars
  <2>1. UNCHANGED <<today, ledgerVars, recorded, held, harvest>>
    BY <1>4 DEF BeginRun, EndAudit, EndRun, vars, ledgerVars
  <2> QED BY <2>1, SameDay
<1>5. CASE Judge \/ CommandLine
  BY <1>5 DEF Judge, CommandLine
<1>6. CASE Midnight
  <2>1. /\ harvest = NoHarvest /\ \A w \in Workers : held[w] = Idle
        /\ today' = today + 1 /\ recorded' = 0 /\ UNCHANGED <<counters, held, harvest>>
    BY <1>6 DEF Midnight, Quiet
  <2>2. ledgerDay' # today'
    BY <2>1, Typed DEF IInv, TypeOK, counters, NoDay
  <2>3. TodaysRows'
    BY <2>1 DEF TodaysRows, Idle
  <2>4. Unlooked' /\ recorded' <= DailyCeiling
    BY <2>1, Typed DEF Unlooked, NoHarvest
  <2> QED BY <2>2, <2>3, <2>4 DEF DayInv
<1>7. CASE Peek
  BY <1>7, RolloverKeepsDay DEF Peek
<1>8. CASE Restart
  <2>1. /\ ledgerDay' = NoDay /\ harvest' = NoHarvest /\ UNCHANGED <<today, recorded>>
        /\ \A w \in Workers : held'[w] = Idle
    BY <1>8 DEF Restart
  <2>2. ledgerDay' # today'
    BY <2>1, Typed DEF NoDay
  <2>3. TodaysRows' /\ Unlooked'
    BY <2>1 DEF TodaysRows, Unlooked, Idle, NoHarvest
  <2>4. recorded' <= DailyCeiling
    BY <2>1, DayBound
  <2> QED BY <2>2, <2>3, <2>4 DEF DayInv
<1> QED BY <1>1, <1>2, <1>3, <1>4, <1>5, <1>6, <1>7, <1>8 DEF Next, Step

\* "Maximum actual spend per UTC day across processes": as long as nothing
\* escapes the ledger, no interleaving of pool, harvest, restarts and midnights
\* records more on a day than the daily ceiling, whatever the prices are.
THEOREM ChargedWithinDailyCapAlways == Spec => []ChargedWithinDailyCap
<1>1. Init => (escapes = {} => DayInv)
  <2> SUFFICES ASSUME Init PROVE DayInv
    OBVIOUS
  <2>1. /\ \A w \in Workers : held[w] = Idle
        /\ harvest = NoHarvest /\ recorded = 0 /\ ledgerDay # today
    BY DEF Init, NoDay
  <2> QED BY <2>1, ConstantsAssumption DEF DayInv, TodaysRows, Unlooked, Idle, NoHarvest,
                                           ConstantsAssumption
<1>2. /\ IInv /\ SeenInv /\ (IInv /\ SeenInv)' /\ (escapes = {} => DayInv) /\ [Next]_vars
      => (escapes = {} => DayInv)'
  <2> SUFFICES ASSUME IInv, IInv', SeenInv, escapes = {} => DayInv, [Next]_vars, escapes' = {}
               PROVE  DayInv'
    OBVIOUS
  <2>1. escapes = {}
    BY DEF Next, vars
  <2> QED BY <2>1, DayKept, ConstantsAssumption
<1>3. IInv /\ SeenInv /\ (escapes = {} => DayInv) => ChargedWithinDailyCap
  BY DayBound, ConstantsAssumption DEF ChargedWithinDailyCap, WithinDailyCap
<1> QED BY <1>1, <1>2, <1>3, SeenAlways, PTL DEF Spec
=============================================================================
