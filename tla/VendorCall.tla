----------------------------- MODULE VendorCall -----------------------------
(***************************************************************************)
(* integrations/base_client.py, BaseAPIClient.call: the vendor's breaker   *)
(* and the quota's bucket in one call.                                     *)
(*                                                                         *)
(* The breaker is asked once, before the first attempt; every attempt of   *)
(* with_retries waits for a token of its own; what the last attempt ends   *)
(* with is reported to the breaker, a token that did not come in time      *)
(* like an answer that did not.                                            *)
(***************************************************************************)
EXTENDS CircuitBreaker

CONSTANTS Capacity, Unit, Rate, Timeout   \* of the bucket

ASSUME BucketAssumption ==
  /\ Capacity \in Nat /\ Unit \in Nat \ {0} /\ Rate \in Nat \ {0} /\ Timeout \in Nat
  /\ Unit <= Capacity

VARIABLES tokens, since, waiter, load     \* of the bucket

Quota == INSTANCE TokenBucket

all == <<state, failures, waited, trial, call, tokens, since, waiter, load>>

VendorInit == BreakerInit /\ Quota!BucketInit

\* allow() lets the call in, and its first attempt waits for a token.
Place(c) == Calling(c) /\ Quota!Ask(c)

\* An attempt's way through acquire.
Wait(c) == Quota!Acquiring(c) /\ UNCHANGED breakerVars

At(c, where) == InFlight(c) /\ waiter[c].at = where

\* The vendor answers, or rejects the request.
Served(c) == At(c, "granted") /\ Answer(c) /\ Quota!Leave(c)

\* The attempt failed, at the vendor or for want of a token, and is repeated.
Again(c) ==
  /\ At(c, "granted") \/ At(c, "refused")
  /\ Retry(c) /\ waiter' = [waiter EXCEPT ![c] = [at |-> "trying", left |-> Timeout, nap |-> 0]]
  /\ UNCHANGED <<tokens, since, load>>

Broken(c) == At(c, "granted") /\ Fail(c) /\ Quota!Leave(c)

\* Mutant: a call that got no token is not reported, it never reached the vendor.
ThrottledSilently(c) ==
  /\ At(c, "refused") /\ call[c].attempt = MaxAttempts /\ Hangup(c) /\ Quota!Leave(c)
  /\ UNCHANGED <<state, failures, waited, trial>>

\* RateLimitExceededError is raised by the last attempt: record_failure.
Throttled(c) ==
  At(c, "refused") /\ call[c].attempt = MaxAttempts /\ Fail(c) /\ Quota!Leave(c)

\* One clock for the breaker's cooldown and the bucket.
Clock ==
  /\ Quota!Pass
  /\ Tick \/ (~ (state = "open" /\ waited < Cooldown) /\ UNCHANGED breakerVars)

VendorNext ==
  \/ \E c \in Callers : Place(c) \/ Wait(c) \/ Served(c) \/ Again(c) \/ Broken(c) \/ Throttled(c)
  \/ Look /\ UNCHANGED <<tokens, since, waiter, load>>
  \/ Clock

VendorSpec == VendorInit /\ [][VendorNext]_all

\* Time passes, threads are scheduled, requests have a timeout of their own, and
\* the runs keep calling the vendor.
VendorFairness ==
  /\ WF_all(Clock)
  /\ \A c \in Callers : /\ WF_all(Place(c)) /\ WF_all(Wait(c))
                        /\ WF_all(Served(c) \/ Again(c) \/ Broken(c) \/ Throttled(c))

FairVendorSpec == VendorSpec /\ VendorFairness

----------------------------------------------------------------------------
(* Properties. *)

\* "Throttles request volume against a provider's documented quota": over every
\* stretch of time, however many threads race for the tokens and retry, no more
\* is taken than a full bucket and what comes in that time.
RateKept == load <= Capacity

\* A call's attempts get through acquire, and the call reports: neither a
\* contended bucket nor an open breaker holds a thread for ever.
CallEnds == \A c \in Callers : InFlight(c) ~> ~ InFlight(c)

\* Once no call fails, at the vendor or for want of a token, the breaker closes
\* and stays closed.
RecoversThrottled ==
  <>[][\A c \in Callers : ~ (Broken(c) \/ Throttled(c))]_all => <>[](state = "closed")

\* Once every call fails, at the vendor or for want of a token, the breaker opens
\* for good: no late report, look or half-open period brings it back to closed.
OutageTrips == <>[][\A c \in Callers : ~ Served(c)]_all => <>[](state # "closed")
=============================================================================
